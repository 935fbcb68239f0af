SPECIFICATION FairSpec
CONSTANTS
  c1 = c1
  c2 = c2
  short = short
  long = long
  bad = bad
  Client = {c1, c2}
  RequestsOf <- SomeSeeds
  Seeds = {3}
  Size <- MCSize
  Buffered = {short}
  BadPrompts = {bad}
  DiskMayFill = TRUE
  MaxCalls = 2
INVARIANTS
  SuccessIsOwnComposition
PROPERTIES
  EveryCallAnswered
CHECK_DEADLOCK FALSE
