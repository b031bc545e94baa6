SPECIFICATION Spec
CONSTANTS
  Nodes = 1
  MaxGen = 2
  MaxOps = 2
  MaxFaults = 1
  CacheLag = TRUE
INVARIANTS TypeOK InitializedIsReal  QuiescentIsSettled
PROPERTIES ImplementsLifecycle EventuallyReady
CHECK_DEADLOCK FALSE
