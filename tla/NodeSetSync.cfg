SPECIFICATION Spec
CONSTANTS
  Kind = "DatabaseNodeSet"
  Nodes = 2
  MaxGen = 3
  MaxFaults = 1
  CacheLag = TRUE
INVARIANTS TypeOK ProvisionedIsCurrent
PROPERTIES EventuallyReady
CHECK_DEADLOCK FALSE
