SPECIFICATION Spec
CONSTANTS
  Nodes = 1
  MaxGen = 2
  MaxFaults = 1
  CacheLag = TRUE
INVARIANTS TypeOK MissesAtMostOneWrite InitializedIsReal NotReadyAndPaused QuiescentIsSettled
PROPERTIES ImplementsLifecycle EventuallyReady
CHECK_DEADLOCK FALSE
