SPECIFICATION Spec
CONSTANTS
  NumberOfLevels = 3
  STORAGE_CHUNK_CAPACITY = 2
  Null = Null
  EmptyItem = EmptyItem
  Item = {a, b}
  Times <- MCTimes
  MaxItems = 4
INVARIANTS
  ChunkSetsSound
  MetadataCurrent
  SnapshotsCurrent
PROPERTIES
  ImplementsLevelQueues
SYMMETRY ItemSymmetry
CHECK_DEADLOCK FALSE
