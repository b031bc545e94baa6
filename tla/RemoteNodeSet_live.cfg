SPECIFICATION Spec
CONSTANTS
  StorageSets = {s1, s2}
  DatabaseSets = {}
  NumObjects = 2
  Always = {1}
  MaxVersion = 1
  MaxEdits = 1
  MaxFaults = 0
PROPERTIES EventuallyCopied EventuallyRemoved EventuallyGone ReportedUnlessEntryLeft
CHECK_DEADLOCK FALSE
