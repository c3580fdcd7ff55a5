SPECIFICATION ClientsSpec
CONSTANTS
  Ops = {o1, o2}
  Closers = {a1, a2}
  Gens = {g1, g2}
  None = None
INVARIANTS
  NeitherLeaks
  LeaseOnOpenCore
  CarrierOutlivesOperation
PROPERTIES
  ClosesReturn
