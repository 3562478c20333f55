SPECIFICATION Spec
CONSTANTS
  Functions <- FourFunctions
  Members <- MemberNames
  Instances <- InstanceAddresses
  Address <- CodeAddresses
  Ordered = TRUE
  MaxDepth = 2
INVARIANTS
  TypeOK
  HoldsSubscriptions
PROPERTY CallsEachOnce
