SPECIFICATION PathSpec
CONSTANTS
  Conns = {c1, c2, c3}
  Writers = {w1}
  NoConn = NoConn
  MaxAttempt = 2
INVARIANTS
  RunStopsOnlyWhenTold
