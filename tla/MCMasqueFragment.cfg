SPECIFICATION FragmentSpec
CONSTANTS
  Packets <- MCPackets
  Handlers = {h1, h2}
  ChunkSize = 2
  MaxSize = 5
  TTL = 2
  MaxAssemblies = 2
  MaxPerSource = 1
  MaxTime = 2
  Nothing = Nothing
SYMMETRY MCSymmetry
INVARIANTS
  WithinLimits
  ReassemblesSent
PROPERTIES
  NotPinned
