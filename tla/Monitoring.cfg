SPECIFICATION Spec
CONSTANTS
  MaxUid = 2
  MaxChanges = 3
INVARIANTS TypeOK
PROPERTIES NeverTakenOver EventuallyMonitored
CHECK_DEADLOCK FALSE
