SPECIFICATION Spec
CONSTANTS
  Issuers = {i1, i2, i3}
  None = None
  Ttl = 1
  Capacity = 1
  MaxCrashes = 1
  MaxTime = 0
SYMMETRY IssuerSymmetry
INVARIANT CapacityRespected
CHECK_DEADLOCK FALSE
