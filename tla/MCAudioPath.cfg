SPECIFICATION FairSpec
CONSTANTS
  NoEvent = NoEvent
  Event <- MCEvent
  Capacity = 2
  IndexMod = 4
  MaxBatch = 3
  BlockSizes = {0, 2}
  SamplePosition <- MCSamplePosition
INVARIANTS
  NoSlotRace
  OccupancyExact
  PopReturnsOldest
  HeardInOrder
  EveryEventAccounted
  NothingFromBeforePrepare
PROPERTIES
  RestOfSpanDropped
  ImplementsQueue
  PlayingDrains
  BlocksEnd
