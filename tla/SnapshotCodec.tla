---------------------------- MODULE SnapshotCodec ----------------------------
(***************************************************************************)
(* The codec "snapshot v1.0"                                               *)
(* (src/app/src/shared/utilities/codecs/definitions/snapshot-v1_0.ts).  A  *)
(* snapshot names the entities it was made of, each with its codec and the *)
(* size of an item, and then holds the items of every chunk set, entity by *)
(* entity.  A reader that has registered other entities skips, migrates or *)
(* fills in.                                                               *)
(*                                                                         *)
(* A chunk set here has, in place of its items, the bytes of the chunk of  *)
(* every entity: chunks[<<kind, name>>].                                   *)
(***************************************************************************)
EXTENDS EntityCodecs

CONSTANTS
  STORAGE_ENTITY_KINDS,  \* the kinds of entities of the running version
  Migratable(_, _),      \* a codec's definition can migrate from another
  Migrated(_, _, _)      \* migrate(value, from) of a codec's definition

CHUNK_SET_HEADER_SIZE == UINT8_SIZE + UINT16_SIZE + 2 * FLOAT64_SIZE

-----------------------------------------------------------------------------
(* The entities of a snapshot.                                             *)

\* getEntityDescriptors throws for an entity whose codec has no fixed size or
\* one that does not fit.
DescriptorsOK(entities) ==
  /\ \A i \in DOMAIN entities :
       /\ IsFixedSize(entities[i].codec)
       /\ SizeOf(entities[i].codec) <= MaxUint(UINT16_SIZE)
  /\ Len(entities) <= MaxUint(UINT16_SIZE)

EntityDescriptors(entities) ==
  [i \in DOMAIN entities |->
     [ kind     |-> entities[i].kind,
       name     |-> entities[i].name,
       codec    |-> entities[i].codec,
       itemSize |-> SizeOf(entities[i].codec) ]]

EntityDescriptorSize(descriptor) ==
  StringSize(descriptor.kind) + StringSize(descriptor.name)
    + StringSize(descriptor.codec) + UINT16_SIZE

EntityDescriptorsSize(descriptors) ==
  UINT16_SIZE + SumOver(descriptors, EntityDescriptorSize)

PutEntityDescriptor(written, descriptor) ==
  Put(PutString(PutString(PutString(written, descriptor.kind),
                          descriptor.name),
                descriptor.codec),
      Digits(UINT16_SIZE, descriptor.itemSize))

PutEntityDescriptors(written, descriptors) ==
  PutAll(Put(written, Digits(UINT16_SIZE, Len(descriptors))),
         PutEntityDescriptor, descriptors)

ReadEntityDescriptor(view, offset) ==
  LET ReadOne(at) == ReadString(view, at)
  IN  AndThen(ReadAll(offset, 3, ReadOne), LAMBDA texts :
        LET itemSize == UintAt(view, texts.nextOffset, UINT16_SIZE)
        IN  IF /\ Available(view, texts.nextOffset, UINT16_SIZE)
               /\ itemSize # 0
              THEN ReadResult([ kind     |-> texts.value[1],
                                name     |-> texts.value[2],
                                codec    |-> texts.value[3],
                                itemSize |-> itemSize ],
                              texts.nextOffset + UINT16_SIZE)
              ELSE Thrown)

\* No two descriptors may name the same entity.
ReadEntityDescriptors(view, offset) ==
  LET ReadOne(at) == ReadEntityDescriptor(view, at)
  IN  IF Available(view, offset, UINT16_SIZE)
        THEN AndThen(ReadAll(offset + UINT16_SIZE,
                             UintAt(view, offset, UINT16_SIZE), ReadOne),
                     LAMBDA read :
                       IF Cardinality(Keys(read.value)) = Len(read.value)
                         THEN read
                         ELSE Thrown)
        ELSE Thrown

-----------------------------------------------------------------------------
(* Writing the chunk sets.                                                 *)

\* validateChunkSet of the codec.
ChunkSetWritable(chunkSet) ==
  /\ chunkSet.level \in 0 .. MaxUint(UINT8_SIZE)
  /\ 0 <= chunkSet.start
  /\ chunkSet.start <= chunkSet.end
  /\ chunkSet.end <= STORAGE_CHUNK_CAPACITY
  /\ chunkSet.size = chunkSet.end - chunkSet.start

ChunkSetSize(chunkSet, descriptors) ==
  CHUNK_SET_HEADER_SIZE
    + SumOver(descriptors, LAMBDA d : chunkSet.size * d.itemSize)

\* The bytes of the slots in use.
ItemBytes(chunkSet, descriptor) ==
  SubSeq(chunkSet.chunks[Key(descriptor)],
         chunkSet.start * descriptor.itemSize + 1,
         chunkSet.end * descriptor.itemSize)

PutEntityItems(written, chunkSet, descriptor) ==
  IF /\ descriptor.kind \in STORAGE_ENTITY_KINDS
     /\ Key(descriptor) \in DOMAIN chunkSet.chunks
     /\ Len(chunkSet.chunks[Key(descriptor)])
          = STORAGE_CHUNK_CAPACITY * descriptor.itemSize
    THEN Put(written, ItemBytes(chunkSet, descriptor))
    ELSE Thrown

PutChunkSet(written, chunkSet, descriptors) ==
  PutAll(Put(written, Digits(UINT8_SIZE, chunkSet.level)
                        \o Digits(UINT16_SIZE, chunkSet.size)
                        \o Parts("float", chunkSet.startedAt, FLOAT64_SIZE)
                        \o Parts("float", chunkSet.endedAt, FLOAT64_SIZE)),
         LAMBDA w, descriptor : PutEntityItems(w, chunkSet, descriptor),
         descriptors)

-----------------------------------------------------------------------------
(* Restoring the chunk sets with the entities registered now.              *)

\* What is done with the items of an entity of the snapshot.
Plan(descriptor, entities) ==
  LET here == SelectSeq(entities, LAMBDA e : Key(e) = Key(descriptor))
  IN  IF descriptor.kind \notin STORAGE_ENTITY_KINDS \/ here = <<>>
        THEN "skip"
        ELSE IF Head(here).codec = descriptor.codec THEN "copy" ELSE "migrate"

CodecNow(descriptor, entities) == EntityOf(Key(descriptor), entities).codec

\* buildRestorePlan throws if an item's size is not the one its codec has
\* today or if there is no way from one codec to the other.
PlanOK(descriptor, entities) ==
  LET plan == Plan(descriptor, entities)
  IN  plan # "skip" =>
        /\ IsFixedSize(CodecNow(descriptor, entities))
        /\ IsFixedSize(descriptor.codec)
        /\ SizeOf(descriptor.codec) = descriptor.itemSize
        /\ plan = "migrate" =>
             Migratable(CodecNow(descriptor, entities), descriptor.codec)

\* Each item read with the codec it was written with, migrated, and written
\* with the codec of today.
MigratedChunk(view, offset, size, descriptor, codec) ==
  FoldLeft(LAMBDA chunk, itemIndex :
             WriteItem(codec, itemIndex, chunk,
                       Migrated(codec,
                                ReadFixed(descriptor.codec,
                                          offset + itemIndex * descriptor.itemSize,
                                          view),
                                descriptor.codec)).view,
           Zeros(STORAGE_CHUNK_CAPACITY * SizeOf(codec)),
           [k \in 1 .. size |-> k - 1])

\* The chunk of an entity that is not in the snapshot: its empty value.
FilledChunk(size, entity) ==
  FoldLeft(LAMBDA chunk, itemIndex :
             WriteItem(entity.codec, itemIndex, chunk, entity.empty).view,
           Zeros(STORAGE_CHUNK_CAPACITY * SizeOf(entity.codec)),
           [k \in 1 .. size |-> k - 1])

RestoredChunk(view, offset, size, descriptor, entities) ==
  IF Plan(descriptor, entities) = "copy"
    THEN WithBytes(Zeros(STORAGE_CHUNK_CAPACITY * descriptor.itemSize), 0,
                   BytesAt(view, offset, size * descriptor.itemSize))
    ELSE MigratedChunk(view, offset, size, descriptor,
                       CodecNow(descriptor, entities))

\* Faulty variant: the items of an entity that is skipped are not stepped
\* over.
SpanOfCopied(descriptor, size, entities) ==
  IF Plan(descriptor, entities) = "skip" THEN 0 ELSE size * descriptor.itemSize

\* The bytes an entity takes in a chunk set of the snapshot.
Span(descriptor, size, entities) == size * descriptor.itemSize

\* Where the items of the d-th entity of a chunk set start.
ItemsOffset(offset, size, d, descriptors, entities) ==
  offset + SumOver(SubSeq(descriptors, 1, d - 1),
                   LAMBDA e : Span(e, size, entities))

ReadChunkSet(view, offset, descriptors, entities) ==
  LET size == UintAt(view, offset + UINT8_SIZE, UINT16_SIZE)
      from == offset + CHUNK_SET_HEADER_SIZE
      end  == ItemsOffset(from, size, Len(descriptors) + 1, descriptors, entities)
      At(key) == CHOOSE d \in DOMAIN descriptors : Key(descriptors[d]) = key
      Chunk(entity) ==
        IF Key(entity) \in Keys(descriptors)
          THEN LET d == At(Key(entity))
               IN  RestoredChunk(view,
                                 ItemsOffset(from, size, d, descriptors, entities),
                                 size, descriptors[d], entities)
          ELSE FilledChunk(size, entity)
  IN  IF /\ Available(view, offset, CHUNK_SET_HEADER_SIZE)
         /\ size <= STORAGE_CHUNK_CAPACITY
         /\ Available(view, from, end - from)
        THEN ReadResult(
               [ level     |-> UintAt(view, offset, UINT8_SIZE),
                 start     |-> 0,
                 end       |-> size,
                 size      |-> size,
                 startedAt |-> FloatAt(view, offset + UINT8_SIZE + UINT16_SIZE),
                 endedAt   |-> FloatAt(view, offset + UINT8_SIZE + UINT16_SIZE
                                               + FLOAT64_SIZE),
                 chunks    |-> [key \in Keys(entities) |-> Chunk(EntityOf(key, entities))] ],
               end)
        ELSE Thrown

-----------------------------------------------------------------------------
(* The codec.                                                              *)

SnapshotWritable(chunkSets, entities) ==
  /\ DescriptorsOK(entities)
  /\ Len(chunkSets) <= MaxUint(UINT32_SIZE)
  /\ \A i \in DOMAIN chunkSets : ChunkSetWritable(chunkSets[i])

SnapshotSize(chunkSets, entities) ==
  LET descriptors == EntityDescriptors(entities)
  IN  EntityDescriptorsSize(descriptors) + UINT32_SIZE
        + SumOver(chunkSets, LAMBDA c : ChunkSetSize(c, descriptors))

PutSnapshot(written, chunkSets, entities) ==
  LET descriptors == EntityDescriptors(entities)
  IN  IF ~ SnapshotWritable(chunkSets, entities)
        THEN Thrown
        ELSE PutAll(Put(PutEntityDescriptors(written, descriptors),
                        Digits(UINT32_SIZE, Len(chunkSets))),
                    LAMBDA w, chunkSet : PutChunkSet(w, chunkSet, descriptors),
                    chunkSets)

ReadSnapshot(view, offset, entities) ==
  AndThen(ReadEntityDescriptors(view, offset), LAMBDA descriptors :
    LET ReadOne(at) == ReadChunkSet(view, at, descriptors.value, entities)
    IN  IF /\ Available(view, descriptors.nextOffset, UINT32_SIZE)
           /\ \A d \in DOMAIN descriptors.value :
                PlanOK(descriptors.value[d], entities)
          THEN ReadAll(descriptors.nextOffset + UINT32_SIZE,
                       UintAt(view, descriptors.nextOffset, UINT32_SIZE), ReadOne)
          ELSE Thrown)
=============================================================================
