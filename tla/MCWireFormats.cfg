SPECIFICATION Spec
CONSTANTS
  NumberOfLevels = 2
  STORAGE_CHUNK_CAPACITY = 2
  Null = Null
  NaN = NaN
  Garbage = Garbage
  EmptyItem = EmptyItem
  ByteValues = 4
  StringBytes <- MCByteLength
  CODEC_DEFINITIONS <- MCDefinitions
  STORAGE_ENTITY_KINDS = {"candles", "indicators"}
  Migratable <- MCMigratable
  Migrated <- MCMigrated
INVARIANTS
  MessagesArrive
  ReplicaEqual
PROPERTIES
  ChunkFaithful
  SnapshotsRestored
CHECK_DEADLOCK FALSE
