-------------------------- MODULE StorageStructure --------------------------
(***************************************************************************)
(* The data structure of src/app/src/shared/services/storage.ts as pure    *)
(* operators: a storage is a record of                                     *)
(*                                                                         *)
(*   chunkSets        the chunk sets, highest level first; each holds the  *)
(*                    items of its slots start .. end - 1                  *)
(*   flatEnds         chunkSetFlatEnds, the exclusive flat end of each set *)
(*   boundaries       levelsBoundaries, the flat index where a level starts*)
(*   startLevel0Index the position of the first chunk set of level 0       *)
(*                                                                         *)
(* Flat indexes, levels and slots count from 0 as in the code; chunk sets  *)
(* are a TLA+ sequence, so their positions, startLevel0Index among them,   *)
(* are the code's plus one.  The byte arrays of all entities of a chunk    *)
(* set are one function from slots to items.                               *)
(***************************************************************************)
EXTENDS Integers, Sequences, SequencesExt, FiniteSetsExt

CONSTANTS
  NumberOfLevels,          \* storageConfig.numberOfLevels
  STORAGE_CHUNK_CAPACITY,  \* items in a chunk set
  Null,                    \* null and undefined
  EmptyItem                \* what a zero-filled slot decodes to

ASSUME LevelsAssumption == NumberOfLevels \in Nat \ {0}
ASSUME CapacityAssumption == STORAGE_CHUNK_CAPACITY \in Nat \ {0}

MaxLevel == NumberOfLevels - 1
Levels == 0 .. MaxLevel
Slots == 0 .. STORAGE_CHUNK_CAPACITY - 1

\* A chunk set whose times and items are in the given sets.
ChunkSetOf(Time, Value) ==
  [ level     : Levels,
    start     : 0 .. STORAGE_CHUNK_CAPACITY,
    end       : 0 .. STORAGE_CHUNK_CAPACITY,
    size      : 0 .. STORAGE_CHUNK_CAPACITY,
    startedAt : Time,
    endedAt   : Time,
    items     : [Slots -> Value] ]

EmptyStorage ==
  [ chunkSets        |-> <<>>,
    flatEnds         |-> <<>>,
    boundaries       |-> [l \in Levels |-> 0],
    startLevel0Index |-> 1 ]

-----------------------------------------------------------------------------
(* Reading the index metadata.                                             *)

\* The exclusive flat end of chunk set i, and 0 before the first one.
FlatEndAt(flatEnds, i) == IF i = 0 THEN 0 ELSE flatEnds[i]

Size(st) == FlatEndAt(st.flatEnds, Len(st.flatEnds))

StartedAt(st) ==
  IF st.chunkSets = <<>> THEN Null ELSE st.chunkSets[1].startedAt

EndedAt(st) ==
  IF st.chunkSets = <<>> THEN Null
                         ELSE st.chunkSets[Len(st.chunkSets)].endedAt

LevelEnd(st, level) ==
  IF level = 0 THEN Size(st) ELSE st.boundaries[level - 1]

LevelSize(st, level) == LevelEnd(st, level) - st.boundaries[level]

\* The binary search for the chunk set that holds a flat index.
FindChunkSetIndex(flatEnds, flatIndex) ==
  LET search[bounds \in (DOMAIN flatEnds) \X (DOMAIN flatEnds)] ==
        LET left   == bounds[1]
            right  == bounds[2]
            middle == (left + right) \div 2
        IN  IF left >= right
              THEN left
              ELSE IF flatIndex < flatEnds[middle]
                     THEN search[<<left, middle>>]
                     ELSE search[<<middle + 1, right>>]
  IN  search[<<1, Len(flatEnds)>>]

\* The chunk set and the slot in it that a flat index stands for.
ChunkAndPos(st, flatIndex) ==
  LET i == FindChunkSetIndex(st.flatEnds, flatIndex)
  IN  [ chunkSet |-> i,
        slot     |-> st.chunkSets[i].start
                       + (flatIndex - FlatEndAt(st.flatEnds, i - 1)) ]

GetItem(st, flatIndex) ==
  LET at == ChunkAndPos(st, flatIndex)
  IN  st.chunkSets[at.chunkSet].items[at.slot]

SetItem(st, flatIndex, item) ==
  LET at == ChunkAndPos(st, flatIndex)
  IN  [st EXCEPT !.chunkSets[at.chunkSet].items[at.slot] = item]

-----------------------------------------------------------------------------
(* Index metadata computed from the chunk sets alone.                      *)

\* Partial sums of the sizes of the chunk sets; entry 0 is 0.
SizeSums(chunkSets) ==
  LET sum[i \in 0 .. Len(chunkSets)] ==
        IF i = 0 THEN 0 ELSE sum[i - 1] + chunkSets[i].size
  IN  sum

\* The first position whose chunk set has a lower level, or one past the end.
ChunkSetInsertionIndex(chunkSets, level) ==
  Min({i \in DOMAIN chunkSets : chunkSets[i].level < level}
        \cup {Len(chunkSets) + 1})

StartLevel0Index(chunkSets) ==
  Min({i \in 1 .. Len(chunkSets) + 1 :
         \A j \in i .. Len(chunkSets) : chunkSets[j].level = 0})

\* rebuildIndexMetadata throws unless the levels descend.
LevelsDescend(chunkSets) ==
  \A i, j \in DOMAIN chunkSets :
     i < j => chunkSets[i].level >= chunkSets[j].level

RebuildIndexMetadata(chunkSets) ==
  LET sums == SizeSums(chunkSets)
  IN  [ chunkSets  |-> chunkSets,
        flatEnds   |-> [i \in DOMAIN chunkSets |-> sums[i]],
        boundaries |->
          [l \in Levels |-> sums[ChunkSetInsertionIndex(chunkSets, l + 1) - 1]],
        startLevel0Index |-> StartLevel0Index(chunkSets) ]

-----------------------------------------------------------------------------
(* Adding an item at the end of a level: addItemStructure.                 *)

NewChunkSet(level, startedAt, endedAt) ==
  [ level |-> level, start |-> 0, end |-> 1, size |-> 1,
    startedAt |-> startedAt, endedAt |-> endedAt,
    items |-> [s \in Slots |-> EmptyItem] ]

\* Faulty variant: one slot is never used.
HasRoomWasteful(chunkSets, i, level) ==
  /\ i \in DOMAIN chunkSets
  /\ chunkSets[i].level = level
  /\ chunkSets[i].end < STORAGE_CHUNK_CAPACITY - 1

\* The last chunk set of the level is used again while it has a free slot.
HasRoom(chunkSets, i, level) ==
  /\ i \in DOMAIN chunkSets
  /\ chunkSets[i].level = level
  /\ chunkSets[i].end < STORAGE_CHUNK_CAPACITY

AddToChunkSets(chunkSets, level, startedAt, endedAt) ==
  LET at   == ChunkSetInsertionIndex(chunkSets, level)
      last == chunkSets[at - 1]
  IN  IF HasRoom(chunkSets, at - 1, level)
        THEN [chunkSets EXCEPT ![at - 1] =
                [last EXCEPT !.end = @ + 1, !.size = @ + 1, !.endedAt = endedAt]]
        ELSE InsertAt(chunkSets, at, NewChunkSet(level, startedAt, endedAt))

\* Faulty variant: the touched chunk set's own end is forgotten.
AddToLaterFlatEnds(flatEnds, chunkSets, level) ==
  LET at == ChunkSetInsertionIndex(chunkSets, level)
  IN  IF HasRoom(chunkSets, at - 1, level)
        THEN [i \in DOMAIN flatEnds |->
                IF i > at - 1 THEN flatEnds[i] + 1 ELSE flatEnds[i]]
        ELSE [i \in 1 .. Len(flatEnds) + 1 |->
                IF i < at THEN flatEnds[i] ELSE FlatEndAt(flatEnds, i - 1) + 1]

\* The flat ends from the touched chunk set on grow by one; a new chunk set
\* first gets an entry of its own.
AddToFlatEnds(flatEnds, chunkSets, level) ==
  LET at == ChunkSetInsertionIndex(chunkSets, level)
  IN  IF HasRoom(chunkSets, at - 1, level)
        THEN [i \in DOMAIN flatEnds |->
                IF i >= at - 1 THEN flatEnds[i] + 1 ELSE flatEnds[i]]
        ELSE [i \in 1 .. Len(flatEnds) + 1 |->
                IF i < at THEN flatEnds[i] ELSE FlatEndAt(flatEnds, i - 1) + 1]

AddItemStructure(st, level, startedAt, endedAt) ==
  LET chunkSets == AddToChunkSets(st.chunkSets, level, startedAt, endedAt)
  IN  [ chunkSets  |-> chunkSets,
        flatEnds   |-> AddToFlatEnds(st.flatEnds, st.chunkSets, level),
        boundaries |-> [l \in Levels |-> IF l < level
                                           THEN st.boundaries[l] + 1
                                           ELSE st.boundaries[l]],
        startLevel0Index |-> StartLevel0Index(chunkSets) ]

\* addItem: the structure first, then the value, written through the accessor
\* at the flat index the structure made room at.
AddItem(st, level, startedAt, endedAt, item) ==
  SetItem(AddItemStructure(st, level, startedAt, endedAt),
          LevelEnd(st, level), item)

-----------------------------------------------------------------------------
(* Deleting the first items of a level: deleteNItemsStructure.             *)

FirstChunkSetIndex(chunkSets, level) ==
  Min({i \in DOMAIN chunkSets : chunkSets[i].level = level})

\* The position of the last chunk set the deletion removes as a whole; the
\* one before the level's first if there is none.
LastRemoved(chunkSets, level, count) ==
  LET sums  == SizeSums(chunkSets)
      first == FirstChunkSetIndex(chunkSets, level)
  IN  Max({first - 1} \cup
          {i \in first .. Len(chunkSets) :
             /\ chunkSets[i].level = level
             /\ sums[i] - sums[first - 1] <= count})

\* How many items go from the chunk set after the removed ones.
TrimCount(chunkSets, level, count) ==
  LET sums == SizeSums(chunkSets)
  IN  count - (sums[LastRemoved(chunkSets, level, count)]
                 - sums[FirstChunkSetIndex(chunkSets, level) - 1])

\* Faulty variant: the chunk set that loses a part of its items loses the last
\* ones.
DeleteKeepingStart(chunkSets, level, count, newStartedAt) ==
  LET first == FirstChunkSetIndex(chunkSets, level)
      trim  == TrimCount(chunkSets, level, count)
      kept  == SubSeq(chunkSets, 1, first - 1)
                 \o SubSeq(chunkSets, LastRemoved(chunkSets, level, count) + 1,
                           Len(chunkSets))
  IN  IF trim = 0
        THEN kept
        ELSE [kept EXCEPT ![first] =
                [kept[first] EXCEPT !.end = @ - trim, !.size = @ - trim,
                                    !.startedAt = newStartedAt]]

DeleteFromChunkSets(chunkSets, level, count, newStartedAt) ==
  LET first == FirstChunkSetIndex(chunkSets, level)
      trim  == TrimCount(chunkSets, level, count)
      kept  == SubSeq(chunkSets, 1, first - 1)
                 \o SubSeq(chunkSets, LastRemoved(chunkSets, level, count) + 1,
                           Len(chunkSets))
  IN  IF trim = 0
        THEN kept
        ELSE [kept EXCEPT ![first] =
                [kept[first] EXCEPT !.start = @ + trim, !.size = @ - trim,
                                    !.startedAt = newStartedAt]]

\* The conditions under which deleteNItems does not throw.
CanDelete(st, level, count, newStartedAt) ==
  /\ count <= LevelSize(st, level)
  /\ \/ newStartedAt # Null
     \/ count = 0
     \/ TrimCount(st.chunkSets, level, count) = 0

DeleteNItems(st, level, count, newStartedAt) ==
  IF count = 0
    THEN st
    ELSE RebuildIndexMetadata(
           DeleteFromChunkSets(st.chunkSets, level, count, newStartedAt))

-----------------------------------------------------------------------------
(* Snapshots.  The codec writes the items start .. end - 1 of a chunk set  *)
(* and reads them back into the first slots of a fresh one.                *)

Compact(chunkSet) ==
  [chunkSet EXCEPT !.start = 0, !.end = chunkSet.size,
     !.items = [s \in Slots |-> IF s < chunkSet.size
                                  THEN chunkSet.items[chunkSet.start + s]
                                  ELSE EmptyItem]]

Snapshot(chunkSets) == [i \in DOMAIN chunkSets |-> Compact(chunkSets[i])]

\* validateChunkSet: the slots in use lie inside the chunk set, there is at
\* least one, and their number is the size field.
GeometryOK(chunkSet) ==
  /\ 0 <= chunkSet.start
  /\ chunkSet.start < chunkSet.end
  /\ chunkSet.end <= STORAGE_CHUNK_CAPACITY
  /\ chunkSet.size = chunkSet.end - chunkSet.start

\* validateChunkSetOrder.
ChunkSetOrderOK(chunkSets) ==
  \A i \in 2 .. Len(chunkSets) :
    /\ chunkSets[i].level <= chunkSets[i - 1].level
    /\ chunkSets[i].startedAt > chunkSets[i - 1].startedAt
    /\ chunkSets[i].startedAt > chunkSets[i - 1].endedAt

\* What applySnapshot checks of a snapshot before it uses any of it.
SnapshotOK(chunkSets) ==
  /\ \A i \in DOMAIN chunkSets :
       /\ GeometryOK(chunkSets[i])
       /\ chunkSets[i].startedAt <= chunkSets[i].endedAt
  /\ ChunkSetOrderOK(chunkSets)

\* The storage applySnapshot builds from a snapshot it accepts.
FromSnapshot(snapshot) == RebuildIndexMetadata(snapshot)

\* All items in flat order, as the accessors read them.
Items(st) == [i \in 1 .. Size(st) |-> GetItem(st, i - 1)]
=============================================================================
