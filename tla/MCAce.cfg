SPECIFICATION FairSpec
CONSTANTS
  Proc = {p1, p2}
  Client = {a, b}
  MaxStarts = 4
INVARIANTS
  LoneServerIsReachable
  RestartRecovers
  NoRpcCut
PROPERTIES
  SignalEndsProcess
CHECK_DEADLOCK FALSE
