--------------------------- MODULE SnapshotUpgrades ---------------------------
(***************************************************************************)
(* The storage of one market over several releases of the server.  A       *)
(* release registers its entities, restores the storage from the last      *)
(* snapshot, adds and deletes items and takes snapshots; the next release  *)
(* may have other entities, or the same ones with other codecs             *)
(* (takeSnapshot and applySnapshot of                                      *)
(* src/app/src/shared/services/storage.ts, encodeEntireBinary and          *)
(* decodeEntireBinary, prepareStoragesFromDatabase of                      *)
(* server/services/storage-aggregation.ts).                                *)
(*                                                                         *)
(* Beside the bytes two histories are kept as plain values: what the       *)
(* storage should hold, and what the saved snapshot should hold.           *)
(***************************************************************************)
EXTENDS Codecs

CONSTANTS
  Releases,     \* the sequences of entities a release may register
  Samples,      \* the numbers of the values an entity may get
  Values,       \* those values, per codec
  marketName,
  MaxItems,     \* bound on the items in the storage
  MaxTime,      \* bound on the clock, which ticks once per item
  MaxReleases   \* bound on the number of releases

VARIABLES
  entities,      \* the registered entities
  storage,       \* the storage
  saved,         \* the snapshot in the database, or Null
  started,       \* FALSE when the storage could not be restored
  releases,      \* the number of releases so far
  expected,      \* history: the items of the storage, oldest first
  expectedSaved  \* history: the items of the snapshot and their codecs

vars == <<entities, storage, saved, started, releases, expected, expectedSaved>>

CodecOf(key) == EntityOf(key, entities).codec

Init ==
  /\ entities \in Releases
  /\ storage = EmptyStorage
  /\ saved = Null
  /\ started = TRUE
  /\ releases = 1
  /\ expected = <<>>
  /\ expectedSaved = Null

\* What the accessors return for a value once it is written.
StoredItem(item) ==
  [key \in DOMAIN item |->
     WriteItem(CodecOf(key), 0, Zeros(SizeOf(CodecOf(key))), item[key]).value]

\* A new item takes one of the values of every entity's codec.
NewItem(n) == [key \in Keys(entities) |-> Values[CodecOf(key)][n]]

\* A tick of level 0: every entity has a value for it.
AddOneItem(item) ==
  LET time == IF EndedAt(storage) = Null THEN 1 ELSE EndedAt(storage) + 1
  IN  /\ started
      /\ Size(storage) < MaxItems
      /\ time <= MaxTime
      /\ storage' = AddItem(storage, 0, time, time, StoredItem(item))
      /\ expected' = Append(expected, StoredItem(item))
      /\ UNCHANGED <<entities, saved, started, releases, expectedSaved>>

\* The oldest item goes; times are those of the ticks, one apart.
DeleteOneItem ==
  /\ started
  /\ Size(storage) > 0
  /\ storage' = DeleteNItems(storage, 0, 1, StartedAt(storage) + 1)
  /\ expected' = Tail(expected)
  /\ UNCHANGED <<entities, saved, started, releases, expectedSaved>>

Context == [entities |-> entities, storage |-> storage]

SnapshotBinary ==
  EncodeEntireBinary(
    [ codecName  |-> "snapshot v1.0",
      binaryKind |-> "snapshot",
      parameters |-> "marketName" :> marketName,
      data       |-> [chunkSets |-> AllWithChunks(storage.chunkSets, entities)] ],
    Context)

\* The snapshot is taken and written to the database.
Save ==
  /\ started
  /\ storage # EmptyStorage
  /\ saved' = SnapshotBinary
  /\ expectedSaved' =
       [items |-> expected, codecs |-> [key \in Keys(entities) |-> CodecOf(key)]]
  /\ UNCHANGED <<entities, storage, started, releases, expected>>

\* The storage restored from a binary with the entities registered now.
Restored(binary, registered) ==
  AndThen(DecodeEntireBinary(binary), LAMBDA outer :
    DecodeCodec(outer.codecName, outer.data, [entities |-> registered]))

\* Whether every entity of the snapshot that is still registered has its
\* codec, or one that migrates from it.
Compatible(registered) ==
  \A key \in Keys(registered) \cap DOMAIN expectedSaved.codecs :
    LET now == EntityOf(key, registered).codec
        old == expectedSaved.codecs[key]
    IN  now = old \/ Migratable(now, old)

\* What an item of the snapshot should be in a release: values of entities
\* that are gone are dropped, new entities get their empty value.
Carried(item, registered) ==
  [key \in Keys(registered) |->
     LET entity == EntityOf(key, registered)
         written(v) == WriteItem(entity.codec, 0, Zeros(SizeOf(entity.codec)),
                                 v).value
     IN  IF key \notin DOMAIN item
           THEN written(entity.empty)
           ELSE IF expectedSaved.codecs[key] = entity.codec
             THEN item[key]
             ELSE written(Migrated(entity.codec, item[key],
                                   expectedSaved.codecs[key]))]

\* A market whose snapshot cannot be read is not started.
StartWith(read, registered) ==
  IF /\ read.ok
     /\ SnapshotOK(AllWithItems(read.value, registered))
    THEN /\ storage' = FromSnapshot(AllWithItems(read.value, registered))
         /\ expected' = [i \in DOMAIN expectedSaved.items |->
                           Carried(expectedSaved.items[i], registered)]
         /\ started' = TRUE
    ELSE /\ storage' = EmptyStorage
         /\ expected' = <<>>
         /\ started' = FALSE

\* The server ends and the next release starts.
Release(registered) ==
  /\ releases < MaxReleases
  /\ releases' = releases + 1
  /\ entities' = registered
  /\ UNCHANGED <<saved, expectedSaved>>
  /\ IF saved = Null
       THEN /\ storage' = EmptyStorage
            /\ expected' = <<>>
            /\ started' = TRUE
       ELSE StartWith(Restored(saved.data, registered), registered)

Next ==
  \/ \E n \in Samples : AddOneItem(NewItem(n))
  \/ DeleteOneItem
  \/ Save
  \/ \E registered \in Releases : Release(registered)

Spec == Init /\ [][Next]_vars

-----------------------------------------------------------------------------

TypeOK ==
  /\ entities \in Releases
  /\ started \in BOOLEAN
  /\ releases \in 1 .. MaxReleases
  /\ \A i \in DOMAIN storage.chunkSets : GeometryOK(storage.chunkSets[i])
  /\ saved # Null => saved.ok
  /\ Size(storage) <= MaxItems

\* Every value of every entity that a release still has comes back through
\* any number of snapshots, deletions and releases as it was, migrated, or
\* empty if the entity is new: no entity reads another one's bytes.
ItemsSurvive == Items(storage) = expected
===============================================================================
