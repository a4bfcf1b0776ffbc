------------------------------- MODULE Storage -------------------------------
(***************************************************************************)
(* One Storage object of src/app/src/shared/services/storage.ts: the       *)
(* operations its callers use, the metadata kept beside the chunk sets and *)
(* the two caches that must follow every change, the encoded snapshot and  *)
(* the mark that the current content has already been handed to            *)
(* persistence.  Every operation is synchronous code, so it is one step.   *)
(***************************************************************************)
EXTENDS StorageStructure

CONSTANTS
  Item,      \* the values an item can take
  Times,     \* the times callers pass
  MaxItems   \* bound on the number of items stored at once

VARIABLES
  storage,        \* chunkSets and their index metadata
  snapshot,       \* the cached binary snapshot, or Null
  persistedMark,  \* isPersistenceSnapshotBeenTaken
  persisted       \* history: what persistence was handed while the mark stands

vars == <<storage, snapshot, persistedMark, persisted>>

Init ==
  /\ storage = EmptyStorage
  /\ snapshot = Null
  /\ persistedMark = FALSE
  /\ persisted = Null

-----------------------------------------------------------------------------

\* Faulty variant: the mark of the persisted snapshot survives.
InvalidateSnapshotOnly ==
  /\ snapshot' = Null
  /\ UNCHANGED <<persistedMark, persisted>>

InvalidateSnapshot ==
  /\ snapshot' = Null
  /\ persistedMark' = FALSE
  /\ persisted' = Null

Add(level, startedAt, endedAt, item) ==
  /\ Size(storage) < MaxItems
  /\ startedAt <= endedAt
  /\ storage' = AddItem(storage, level, startedAt, endedAt, item)
  /\ InvalidateSnapshot

Delete(level, count, newStartedAt) ==
  /\ CanDelete(storage, level, count, newStartedAt)
  /\ storage' = DeleteNItems(storage, level, count, newStartedAt)
  /\ InvalidateSnapshot

\* An accessor's set: only a value that differs marks the storage changed.
Set(flatIndex, item) ==
  /\ storage' = SetItem(storage, flatIndex, item)
  /\ IF GetItem(storage, flatIndex) = item
       THEN UNCHANGED <<snapshot, persistedMark, persisted>>
       ELSE InvalidateSnapshot

\* getSnapshot encodes the chunk sets unless a snapshot is cached.
CurrentSnapshot ==
  IF snapshot = Null THEN Snapshot(storage.chunkSets) ELSE snapshot

GetBinarySnapshot ==
  /\ snapshot' = CurrentSnapshot
  /\ UNCHANGED <<storage, persistedMark, persisted>>

\* The chunk sets an archive snapshot is encoded from.
Level0ChunkSets ==
  SubSeq(storage.chunkSets, storage.startLevel0Index, Len(storage.chunkSets))

\* Both snapshots of a live market: nothing unless something changed since
\* the last ones.
GetPersistenceSnapshot ==
  /\ ~ persistedMark
  /\ storage.chunkSets # <<>>
  /\ snapshot' = CurrentSnapshot
  /\ persisted' = [ active  |-> CurrentSnapshot,
                    archive |-> Snapshot(Level0ChunkSets) ]
  /\ persistedMark' = TRUE
  /\ UNCHANGED storage

\* A new Storage is made from this one's snapshot and used from here on: a
\* client's replica, or the server's storage after a restart.
ApplySnapshot ==
  /\ storage.chunkSets # <<>>
  /\ storage' = FromSnapshot(CurrentSnapshot)
  /\ InvalidateSnapshot

Next ==
  \/ \E level \in Levels, s, e \in Times, item \in Item : Add(level, s, e, item)
  \/ \E level \in Levels, count \in 1 .. MaxItems, t \in Times \cup {Null} :
        Delete(level, count, t)
  \/ \E i \in 0 .. Size(storage) - 1, item \in Item : Set(i, item)
  \/ GetBinarySnapshot
  \/ GetPersistenceSnapshot
  \/ ApplySnapshot

Spec == Init /\ [][Next]_vars

-----------------------------------------------------------------------------

ChunkSet == ChunkSetOf(Times, Item \cup {EmptyItem})

StorageType ==
  [ chunkSets        : Seq(ChunkSet),
    flatEnds         : Seq(Nat),
    boundaries       : [Levels -> Nat],
    startLevel0Index : Nat ]

\* The types of the variables.
TypeOK ==
  /\ storage \in StorageType
  /\ persistedMark \in BOOLEAN
  /\ snapshot = Null \/ snapshot \in Seq(ChunkSet)
  /\ persisted = Null
       \/ persisted \in [active : Seq(ChunkSet), archive : Seq(ChunkSet)]

\* No chunk set is empty, start and end stay inside its slots, its size field
\* agrees with them, and the levels descend: what validateChunkSet and
\* rebuildIndexMetadata would throw on never arises.
Geometry ==
  /\ LevelsDescend(storage.chunkSets)
  /\ \A i \in DOMAIN storage.chunkSets : GeometryOK(storage.chunkSets[i])

\* The metadata addItemStructure updates step by step is at all times what
\* rebuildIndexMetadata would compute from the chunk sets.
MetadataCurrent == storage = RebuildIndexMetadata(storage.chunkSets)

\* The chunk sets of a level other than its first and its last hold as many
\* items as a chunk set can: chunk sets never pile up half empty, which keeps
\* their number far from the 255 a delta can address.
InteriorChunkSetsFull ==
  \A i \in 2 .. Len(storage.chunkSets) - 1 :
    (/\ storage.chunkSets[i - 1].level = storage.chunkSets[i].level
     /\ storage.chunkSets[i + 1].level = storage.chunkSets[i].level)
      => storage.chunkSets[i].size = STORAGE_CHUNK_CAPACITY

\* A cached snapshot is never stale: it is what encoding now would give.
SnapshotFresh == snapshot # Null => snapshot = Snapshot(storage.chunkSets)

\* The archive is the part of the active snapshot that holds its level 0.
IsLevel0(archive, active) ==
  \E n \in 0 .. Len(active) :
    /\ archive = SubSeq(active, n + 1, Len(active))
    /\ \A i \in DOMAIN active : active[i].level = 0 <=> i > n

\* While the storage believes it has been persisted, what was handed to
\* persistence is its content, and the archive is exactly its level 0.
PersistedUpToDate ==
  persistedMark =>
    /\ persisted.active = Snapshot(storage.chunkSets)
    /\ IsLevel0(persisted.archive, persisted.active)

\* Both caches follow every write, addition, deletion and restore: subscribers
\* and persistence are never handed old content (invalidateSnapshot).
SnapshotsCurrent == SnapshotFresh /\ PersistedUpToDate

\* The items of a level, read one by one from the flat index where it starts.
Queues ==
  [l \in Levels |->
     [k \in 1 .. LevelSize(storage, l) |->
        GetItem(storage, storage.boundaries[l] + k - 1)]]

\* A flat index counts the items of the chunk sets before its own: what the
\* accessors read with it, by way of the binary search in the flat ends, is the
\* item in the slot it stands for.
ReadsInOrder ==
  LET before(i) == SizeSums(storage.chunkSets)[i - 1]
  IN  /\ Size(storage) = before(Len(storage.chunkSets) + 1)
      /\ \A i \in DOMAIN storage.chunkSets :
           LET chunkSet == storage.chunkSets[i]
           IN  \A s \in 0 .. chunkSet.size - 1 :
                 GetItem(storage, before(i) + s) = chunkSet.items[chunkSet.start + s]

\* However additions, deletions and restores follow each other, the chunk sets
\* stay what the codecs, the decoders of deltas and rebuildIndexMetadata expect,
\* and every flat index leads to its item.
ChunkSetsSound == TypeOK /\ Geometry /\ InteriorChunkSetsFull /\ ReadsInOrder

LQ == INSTANCE LevelQueues WITH queues <- Queues

\* A storage is a queue per level: every operation acts on the queues as
\* LevelQueues says, and snapshots and their application leave them alone.
ImplementsLevelQueues == LQ!Spec
=============================================================================
