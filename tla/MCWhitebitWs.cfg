CONSTANTS
  MaxSockets = 3
  MaxLists = 3
  MaxMoments = 2
  Events <- FaultyEvents
SPECIFICATION FairSpec
INVARIANTS
  TicksOnce
  ActiveIsNewest
  WatchedUntilStopped
PROPERTIES
  CrashOnlyByLeftoverTimer
  FeedResumes
CHECK_DEADLOCK FALSE
