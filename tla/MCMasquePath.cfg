SPECIFICATION LiveSpec
CONSTANTS
  Conns = {c1, c2, c3}
  Writers = {w1, w2}
  NoConn = NoConn
  MaxAttempt = 2
INVARIANTS
  OneOwnedCarrier
PROPERTIES
  HealthyStays
  CloseEndsRun
  Recovers
