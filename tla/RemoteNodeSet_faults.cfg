SPECIFICATION Spec
CONSTANTS
  StorageSets = {s1}
  DatabaseSets = {d1}
  NumObjects = 1
  Always = {}
  MaxVersion = 2
  MaxEdits = 0
  MaxFaults = 1
INVARIANTS TypeOK NoOrphanNodeSet
PROPERTIES EventuallyCopied EventuallyRemoved EventuallyGone
CHECK_DEADLOCK FALSE
