SPECIFICATION FairSpec
CONSTANTS
  Null = Null
  MaxTime = 4
  MaxTicks = 4
  MaxRequests = 2
  MaxRefreshes = 2
INVARIANTS
  TicksInOrder
  RemovedPersisted
  ClientFollows
PROPERTIES
  WorkDrains
CHECK_DEADLOCK FALSE
