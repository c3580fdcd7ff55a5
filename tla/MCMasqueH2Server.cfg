SPECIFICATION LiveSpec
CONSTANTS
  Listeners = {l1}
  Conns = {c1, c2}
  Closers = {k1, k2}
  NoConn = NoConn
INVARIANTS
  ClosedIsQuiet
PROPERTIES
  NoAddAfterWait
  CloseReturns
