SPECIFICATION FairSpec
CONSTANTS
  NoPath = NoPath
  Cut = Cut
  Padded = Padded
  Torn = Torn
  Json = Json
  c1 = c1
  c2 = c2
  song = song
  Client = {c1, c2}
  UserFiles = {song}
  RequestsOf <- MCRequests
  DiskMayFill = TRUE
  SeedMod = 16
  MaxCalls = 1
INVARIANTS
  SuccessLeavesItsFiles
  MergeIsConsistent
  EveryVariationReported
PROPERTIES
  EveryCallReturns
CHECK_DEADLOCK FALSE
