SPECIFICATION Spec
CONSTANTS
  Local = {l1}
  Remote = {r1}
  MaxVersion = 2
  MaxChanges = 2
INVARIANTS TypeOK QuiescentIsBuilt
PROPERTIES EventuallyAsListed EventuallyReady
CHECK_DEADLOCK FALSE
