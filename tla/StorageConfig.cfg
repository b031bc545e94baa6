SPECIFICATION Spec
CONSTANTS
  MaxGen = 3
  MaxVer = 1
  MaxOps = 2
  MaxFaults = 1
  MaxFailed = 1
  CacheLag = TRUE
INVARIANTS TypeOK SyncedIsInstalled
PROPERTIES SyncedUnlessOperationFailed
CHECK_DEADLOCK FALSE
