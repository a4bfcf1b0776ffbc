SPECIFICATION SpecEntities
CONSTANTS
  NumberOfLevels = 3
  Releases <- MCReleases
  Duration <- MCDuration
  Period = 2
  Gaps <- MCGaps
  MaxTime = 9
INVARIANTS
  RecalculationComplete
  DeletedAreOfTheirAggregate
  
CHECK_DEADLOCK FALSE
