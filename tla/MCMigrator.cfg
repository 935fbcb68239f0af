SPECIFICATION FairSpec
CONSTANTS
  Proc = {p1, p2}
  Versions = 2
  MaxOpens = 3
INVARIANTS
  RecordedIsApplied
PROPERTIES
  AppliedOnce
  OpenReturns
CHECK_DEADLOCK FALSE
