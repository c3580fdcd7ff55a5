SPECIFICATION LiveSpec
CONSTANTS
  Peers = {p1, p2}
  Sessions = {s1, s2}
  QueueSize = 1
  Relay = Relay
  None = None
INVARIANTS
  ReturnPathsSound
  ReservedByOne
PROPERTIES
  Grandfathered
  CloseReleases
