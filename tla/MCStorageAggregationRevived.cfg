SPECIFICATION Spec
CONSTANTS
  Null = Null
  MaxTime = 3
  MaxTicks = 3
  MaxRequests = 2
  MaxRefreshes = 2
INVARIANTS
  DeltaNotRefused
CHECK_DEADLOCK FALSE
