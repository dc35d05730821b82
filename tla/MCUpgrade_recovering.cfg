SPECIFICATION Spec
CONSTANTS
  Builds = {1, 2, 3, 4}
  VersionOf <- VersionsMC
  First = 2
  CaddyOf <- Caddies
  None = 0
  MaxRuns = 3
  MaxWrites = 2
  MaxReboots = 1
INVARIANT JournalCoversChanges
INVARIANT NoBuildReadsNewerDocument
INVARIANT ServicesRunTheRecord
PROPERTY RollbackKeepsChanges
CHECK_DEADLOCK FALSE
