SPECIFICATION Spec
CONSTANTS
  Nodes = 1
  MaxGen = 2
  MaxFaults = 0
  CacheLag = FALSE
PROPERTIES EventuallyPaused
CHECK_DEADLOCK FALSE
