SPECIFICATION FairSpec
CONSTANTS
  Issuers = {i1, i2}
  None = None
  Ttl = 1
  Capacity = 1
  MaxCrashes = 1
  MaxTime = 2
INVARIANT CapacityRespected
INVARIANT LockExcludes
INVARIANT RedeemedAtMostOnce
INVARIANT OnlySpentOrExpiredVanish
PROPERTY WaitingEnds
CHECK_DEADLOCK FALSE
