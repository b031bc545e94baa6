SPECIFICATION Spec
CONSTANTS
  Database = {d1, d2}
  Foreign = {d2}
  Requests <- MCRequests
  MaxEdits = 2
  MaxFaults = 1
  CacheLag = TRUE
INVARIANTS TypeOK DatabasesKeepStorage ManagedPortsAgree
PROPERTIES EventuallyManaged EventuallyGone
CHECK_DEADLOCK FALSE
