SPECIFICATION Spec
CONSTANTS
  StorageSets = {s1}
  DatabaseSets = {d1}
  NumObjects = 1
  Always = {}
  MaxVersion = 1
  MaxEdits = 1
  MaxFaults = 0
PROPERTIES OtherKindKeeps
CHECK_DEADLOCK FALSE
