SPECIFICATION Spec
CONSTANTS
  c1 = c1
  c2 = c2
  short = short
  long = long
  bad = bad
  Client = {c1, c2}
  RequestsOf <- SharedSeed
  Seeds = {3}
  Size <- MCSizeShared
  Buffered = {short}
  BadPrompts = {}
  DiskMayFill = FALSE
  MaxCalls = 2
INVARIANTS
  SeedDeterminism
CHECK_DEADLOCK FALSE
