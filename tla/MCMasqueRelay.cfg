SPECIFICATION Spec
CONSTANTS
  Keys = {k1, k2}
  Sessions = {s1, s2, s3}
  None = None
SYMMETRY MCSymmetry
INVARIANTS
  RegistrationExact
  DeliveredToKeyHolder
PROPERTIES
  NoDeliveryToSupersededH3
  ImplementsRegistry
