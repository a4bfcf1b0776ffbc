------------------------------ MODULE DeltaCodec ------------------------------
(***************************************************************************)
(* The codec "delta v1.0"                                                  *)
(* (src/app/src/shared/utilities/codecs/definitions/delta-v1_0.ts) and the *)
(* building of the intervals it carries (buildDeltaChangeIntervals of      *)
(* services/storage.ts).  The decoder changes the replica as it reads: the *)
(* structure first, then the bytes of the items.                           *)
(*                                                                         *)
(* Chunk sets and entities are counted from 0 on the wire.                 *)
(***************************************************************************)
EXTENDS EntityCodecs

OPERATION_TYPES == [addItem |-> 1, deleteItems |-> 2]

ADD_ITEM_SIZE == 2 * UINT8_SIZE + 2 * FLOAT64_SIZE
DELETE_ITEMS_SIZE == 2 * UINT8_SIZE + UINT16_SIZE + FLOAT64_SIZE
DELTA_PARAMS_SIZE == UINT16_SIZE + 2 * FLOAT64_SIZE
INTERVAL_HEADER_SIZE == 3 * UINT8_SIZE

NullableFloat(value) == BytesOf(float64Nullable_V1_0, value)
NullableFloatAt(view, offset) ==
  ValueIn(float64Nullable_V1_0, BytesAt(view, offset, FLOAT64_SIZE))

-----------------------------------------------------------------------------
(* The intervals of a delta.                                               *)

\* The flat index of the first item of the chunk set at position i.
FlatStart(st, i) == FlatEndAt(st.flatEnds, i - 1)

\* Faulty variant: an interval may run on into the next chunk set.
StartsIntervalUncut(st, changedItems, f) ==
  f \in changedItems /\ f - 1 \notin changedItems

\* A run of changed items is cut where a chunk set ends.
StartsInterval(st, changedItems, f) ==
  /\ f \in changedItems
  /\ \/ f - 1 \notin changedItems
     \/ f \in {FlatStart(st, i) : i \in DOMAIN st.chunkSets}

\* The interval that starts at flat index f.
Interval(st, changedItems, f) ==
  LET i == FindChunkSetIndex(st.flatEnds, f)
  IN  [ chunkSetIndex  |-> i - 1,
        startItemIndex |-> f - FlatStart(st, i),
        itemsCount     |->
          Min({g \in f + 1 .. Size(st) :
                 \/ g = Size(st)
                 \/ g \notin changedItems
                 \/ StartsInterval(st, changedItems, g)}) - f ]

Intervals(st, changedItems) ==
  LET starts == {f \in 0 .. Size(st) - 1 : StartsInterval(st, changedItems, f)}
      sorted == SetToSortSeq(starts, <)
  IN  [k \in DOMAIN sorted |-> Interval(st, changedItems, sorted[k])]

\* The entities with changes, in the order of registration; changes is a set
\* of flat indexes per entity.
EntityChanges(st, changes, entities) ==
  LET all == [e \in DOMAIN entities |->
                [ entityIndex |-> e - 1,
                  changes     |-> Intervals(st, changes[Key(entities[e])]) ]]
  IN  SelectSeq(all, LAMBDA c : c.changes # <<>>)

-----------------------------------------------------------------------------
(* Writing.                                                                *)

StructuralChangesSize(changes) ==
  UINT16_SIZE
    + SumOver(changes, LAMBDA c : IF c.type = "addItem" THEN ADD_ITEM_SIZE
                                                        ELSE DELETE_ITEMS_SIZE)

EntityChangesSize(entityChanges, entities) ==
  UINT16_SIZE
    + SumOver(entityChanges,
        LAMBDA c : 2 * UINT16_SIZE
          + SumOver(c.changes,
              LAMBDA i : INTERVAL_HEADER_SIZE
                + i.itemsCount * SizeOf(entities[c.entityIndex + 1].codec)))

DeltaSize(delta, entities) ==
  UINT8_SIZE + 2 * DELTA_PARAMS_SIZE
    + StructuralChangesSize(delta.structuralChanges)
    + EntityChangesSize(delta.entityChanges, entities)

\* What getBinaryDelta and getSize refuse.
DeltaWritable(delta, chunkSets, entities) ==
  /\ Len(chunkSets) <= MaxUint(UINT8_SIZE)
  /\ Len(delta.structuralChanges) <= MaxUint(UINT16_SIZE)
  /\ Len(delta.entityChanges) <= MaxUint(UINT16_SIZE)
  /\ \A c \in DOMAIN delta.entityChanges :
       /\ delta.entityChanges[c].entityIndex + 1 \in DOMAIN entities
       /\ delta.entityChanges[c].entityIndex <= MaxUint(UINT16_SIZE)
       /\ Len(delta.entityChanges[c].changes) <= MaxUint(UINT16_SIZE)

ParamsBytes(params) ==
  Digits(UINT16_SIZE, params.size) \o NullableFloat(params.startedAt)
    \o NullableFloat(params.endedAt)

StructuralChangeBytes(change) ==
  Digits(UINT8_SIZE, OPERATION_TYPES[change.type])
    \o Digits(UINT8_SIZE, change.level)
    \o IF change.type = "addItem"
         THEN Parts("float", change.startedAt, FLOAT64_SIZE)
                \o Parts("float", change.endedAt, FLOAT64_SIZE)
         ELSE Digits(UINT16_SIZE, change.count)
                \o NullableFloat(change.newStartedAt)

IntervalBytes(interval, chunkSets, entity) ==
  LET chunkSet == chunkSets[interval.chunkSetIndex + 1]
      size     == SizeOf(entity.codec)
      start    == chunkSet.start + interval.startItemIndex
  IN  Digits(UINT8_SIZE, interval.chunkSetIndex)
        \o Digits(UINT8_SIZE, interval.startItemIndex)
        \o Digits(UINT8_SIZE, interval.itemsCount)
        \o BytesAt(chunkSet.chunks[Key(entity)], start * size,
                   interval.itemsCount * size)

PutEntityChange(written, change, chunkSets, entities) ==
  PutAll(Put(written, Digits(UINT16_SIZE, change.entityIndex)
                        \o Digits(UINT16_SIZE, Len(change.changes))),
         LAMBDA w, interval :
           Put(w, IntervalBytes(interval, chunkSets,
                                entities[change.entityIndex + 1])),
         change.changes)

PutDelta(written, delta, chunkSets, entities) ==
  LET header == Put(written, Digits(UINT8_SIZE, delta.flags)
                               \o ParamsBytes(delta.startParams)
                               \o ParamsBytes(delta.endParams))
      structure ==
        PutAll(Put(header, Digits(UINT16_SIZE, Len(delta.structuralChanges))),
               LAMBDA w, change : Put(w, StructuralChangeBytes(change)),
               delta.structuralChanges)
  IN  IF ~ DeltaWritable(delta, chunkSets, entities)
        THEN Thrown
        ELSE PutAll(Put(structure, Digits(UINT16_SIZE, Len(delta.entityChanges))),
                    LAMBDA w, change :
                      PutEntityChange(w, change, chunkSets, entities),
                    delta.entityChanges)

-----------------------------------------------------------------------------
(* Reading into a replica.                                                 *)

ParamsAt(view, offset) ==
  [ size      |-> UintAt(view, offset, UINT16_SIZE),
    startedAt |-> NullableFloatAt(view, offset + UINT16_SIZE),
    endedAt   |-> NullableFloatAt(view, offset + UINT16_SIZE + FLOAT64_SIZE) ]

ReadStructuralChange(view, offset) ==
  LET operation == UintAt(view, offset, UINT8_SIZE)
      l         == UintAt(view, offset + 1, UINT8_SIZE)
      at        == offset + 2
  IN  IF ~ Available(view, offset, 2 * UINT8_SIZE)
        THEN Thrown
        ELSE IF /\ operation = OPERATION_TYPES.addItem
                /\ Available(view, offset, ADD_ITEM_SIZE)
          THEN ReadResult(AddChange(l, FloatAt(view, at),
                                    FloatAt(view, at + FLOAT64_SIZE)),
                          offset + ADD_ITEM_SIZE)
        ELSE IF /\ operation = OPERATION_TYPES.deleteItems
                /\ Available(view, offset, DELETE_ITEMS_SIZE)
          THEN ReadResult(DeleteChange(l, UintAt(view, at, UINT16_SIZE),
                                       NullableFloatAt(view, at + UINT16_SIZE)),
                          offset + DELETE_ITEMS_SIZE)
        ELSE Thrown

ReadStructuralChanges(view, offset) ==
  LET ReadOne(at) == ReadStructuralChange(view, at)
  IN  IF Available(view, offset, UINT16_SIZE)
        THEN ReadAll(offset + UINT16_SIZE,
                     UintAt(view, offset, UINT16_SIZE), ReadOne)
        ELSE Thrown

\* An interval is written into the chunk of its entity: read.value holds the
\* chunk sets.
ReadInterval(view, read, entity) ==
  LET at    == read.nextOffset
      i     == UintAt(view, at, UINT8_SIZE) + 1
      first == UintAt(view, at + 1, UINT8_SIZE)
      count == UintAt(view, at + 2, UINT8_SIZE)
      size  == SizeOf(entity.codec)
      data  == at + INTERVAL_HEADER_SIZE
  IN  IF /\ Available(view, at, INTERVAL_HEADER_SIZE)
         /\ i \in DOMAIN read.value
         /\ count # 0
         /\ first + count <= read.value[i].size
         /\ Available(view, data, count * size)
        THEN ReadResult(
               [read.value EXCEPT ![i].chunks[Key(entity)] =
                  WithBytes(@, (read.value[i].start + first) * size,
                            BytesAt(view, data, count * size))],
               data + count * size)
        ELSE Thrown

ReadEntityChange(view, read, entities) ==
  LET at     == read.nextOffset
      e      == UintAt(view, at, UINT16_SIZE) + 1
      count  == UintAt(view, at + UINT16_SIZE, UINT16_SIZE)
      ReadOne(r) == ReadInterval(view, r, entities[e])
  IN  IF /\ Available(view, at, 2 * UINT16_SIZE)
         /\ e \in DOMAIN entities
        THEN Repeat(count, ReadOne,
                    ReadResult(read.value, at + 2 * UINT16_SIZE))
        ELSE Thrown

ReadEntityChanges(view, offset, chunkSets, entities) ==
  LET ReadOne(r) == ReadEntityChange(view, r, entities)
  IN  IF Available(view, offset, UINT16_SIZE)
        THEN Repeat(UintAt(view, offset, UINT16_SIZE), ReadOne,
                    ReadResult(chunkSets, offset + UINT16_SIZE))
        ELSE Thrown

\* The items follow the structure, which must have come out as the server's.
ReadItemsInto(view, offset, after, end, entities) ==
  IF Params(after) = end
    THEN ReadEntityChanges(view, offset,
                           AllWithChunks(after.chunkSets, entities), entities)
    ELSE Thrown

\* The storage after a delta and its flags; rebuildIndexMetadata and
\* updateStartLevel0Index follow the decoder in applyDelta.
ReadDelta(view, offset, st, entities) ==
  LET start  == ParamsAt(view, offset + UINT8_SIZE)
      end    == ParamsAt(view, offset + UINT8_SIZE + DELTA_PARAMS_SIZE)
      header == UINT8_SIZE + 2 * DELTA_PARAMS_SIZE
      ItemsAfter(structural) ==
        IF StructuralChangesOK(st, structural.value)
          THEN ReadItemsInto(
                 view, structural.nextOffset,
                 Structures(st, structural.value)[Len(structural.value)],
                 end, entities)
          ELSE Thrown
      Done(read) ==
        ReadResult(
          [ storage |-> RebuildIndexMetadata(AllWithItems(read.value, entities)),
            flags   |-> UintAt(view, offset, UINT8_SIZE) ],
          read.nextOffset)
  IN  IF Available(view, offset, header) /\ Params(st) = start
        THEN AndThen(AndThen(ReadStructuralChanges(view, offset + header), ItemsAfter),
                     Done)
        ELSE Thrown
=============================================================================
