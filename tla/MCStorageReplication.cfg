SPECIFICATION SpecReplication
CONSTANTS
  NumberOfLevels = 2
  STORAGE_CHUNK_CAPACITY = 2
  Null = Null
  EmptyItem = EmptyItem
  MaxCount <- MCMaxCount
  Duration <- MCDuration
  Gaps <- MCGaps
  MaxMarked = 1
  MaxChannel = 2
  MaxTime = 10
INVARIANTS
  TicksAccountedFor
  StorageSound
  ReplicaFollows
PROPERTIES
  AppendOnlyAppends
CHECK_DEADLOCK FALSE
