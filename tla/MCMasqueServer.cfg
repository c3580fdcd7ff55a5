SPECIFICATION SideSpec
CONSTANTS
  Callers = {a1, a2}
  Keys = {k1, k2}
  Clients = {c1, c2}
  MaxPort = 4
  SSHPort = 2
  Specs <- MCSpecs
  Dests <- MCDests
  Units = 2
  MaxServed = 1
  None = None
  NoDest = NoDest
INVARIANTS
  NothingLeaks
  RunsAsConfigured
  ServedExactly
  CloseConfirms
PROPERTIES
  CloseReturns
  PipeEnds
CHECK_DEADLOCK FALSE
