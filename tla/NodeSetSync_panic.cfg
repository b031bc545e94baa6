SPECIFICATION Spec
CONSTANTS
  Kind = "DatabaseNodeSet"
  Nodes = 1
  MaxGen = 1
  MaxFaults = 0
  CacheLag = FALSE
INVARIANTS NoPanic
CHECK_DEADLOCK FALSE
