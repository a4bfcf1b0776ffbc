SPECIFICATION FairSpec
CONSTANTS
  Markets = {BTC, ETH}
  None = None
  BatchSize = 1
  MaxTicks = 2
  MaxClock = 1
  MaxAllTicks = 3
  MaxTroubles = 2
INVARIANTS
  WorkInOrder
  NewestKept
  ArchiveKept
PROPERTIES
  RowsOnlyGrow
  WorkEnds
CHECK_DEADLOCK FALSE
