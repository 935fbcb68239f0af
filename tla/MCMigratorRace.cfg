SPECIFICATION Spec
CONSTANTS
  Proc = {p1, p2}
  Versions = 1
  MaxOpens = 1
INVARIANTS
  NoVersionConflict
CHECK_DEADLOCK FALSE
