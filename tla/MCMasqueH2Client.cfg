SPECIFICATION ClientSpec
CONSTANTS
  Sizes <- MCSizes
  Window = 2
  MaxWindow = 3
  MaxFrame = 2
  Other <- MCOther
INVARIANTS
  CreditConserved
  DatagramsIntact
  FailedDialClosed
PROPERTIES
  CarrierProgress
