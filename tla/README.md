# Verification of wb-client

wb-client follows the markets of the WhiteBIT exchange. A Node.js server
receives market ticks over a WebSocket, aggregates them into candles of growing
duration, computes indicators, keeps everything in a compact in-memory
`Storage` per market, persists that to PostgreSQL and streams it to browsers;
a React client keeps a replica of the storages it displays. This directory
holds TLA+ modules of the program, TLC configurations that check them on small
instances, and theorems with proofs for TLAPS.

Source paths below are relative to `src/app/src/`.

## 1. Inventory

| Component | State | Operations | Interacts with |
|---|---|---|---|
| **Storage** `shared/services/storage.ts` | chunk sets by descending level, `chunkSetFlatEnds`, `levelsBoundaries`, `startLevel0Index`, cached snapshot, persisted mark, delta under construction | `addItem`, `deleteNItems`, accessors' `set`, `initDelta`/`getBinaryDelta`, `applyDelta`, `getBinarySnapshot`, `getPersistenceSnapshot`, `applySnapshot` | used by tick aggregation (server) and by the market controller (client) |
| **LazyArray, ChangedIntervals, Bitmap** `shared/utilities/` | decoded value cache, address cache, deleted items; changed items as intervals and as bits | `get`, `set`, `addAfter`, `deleteItems`, `clear*` | one per entity of a storage |
| **Delta and snapshot codecs** `shared/utilities/codecs/definitions/` | none | write and read, with checks that throw | server to client, server to database |
| **Tick aggregation** `server/services/storage-aggregation.ts` | storages, tick buffers and snapshot schedule by market, freezing, awaiters of recalculation | tick, aggregation, trimming, full sync request, snapshot worker, restore, market removal | event bus, entities, persistence, frontend socket |
| **Freezing** `server/utilities/freezing.ts` | temperature and ice by market | `cool`, `coolAndIce`, `warm`, `warmAndMeltIce` | tick aggregation |
| **Persistence** `server/services/storage-persistence.ts`, `server/dao/storage.ts` | pending active snapshots (one per market, with a version), pending archive queue, worker flag and timer, retry time; the two tables | enqueue, worker tick, retry, stop, restore, delete | event bus, database |
| **Frontend socket, server** `server/services/frontend-ws.ts`, `server/frontend/ws-server.ts` | per client: readiness, subscriptions, next server id; pending server events; last pong | connect, control messages, full sync results, deltas, expiry, ping | browser, tick aggregation |
| **Frontend socket, client** `client/src/api/frontend-ws.ts`, `controllers/FrontendWsController.ts`, `services/SynchronizationService.ts` | socket, readiness, timers, last server id, registered entities and markets, running synchronization | connect, reconnect, messages, requests, synchronization run and cancel | server, controllers |
| **Market controller** `client/src/controllers/MarketStatisticsController.ts` | the replica, pending subscription ids, view | first/last subscriber, snapshot, delta | client socket, chart |
| **WhiteBIT feed** `server/services/whitebit-ws.ts`, `server/whitebit/ws-client.ts` | socket, timers, one subscription state machine | open, close, timeouts, receipts, market list changes | exchange, event bus |
| **Entities** `server/entities/`, `server/services/entity-manager.ts` | none of their own beside per-market caches | recalculate the changed ranges | storages |
| **Rolling statistics, markets, balances, scheduler** `server/services/`, `server/scheduler/` | latest values, in-flight flags, timers | periodic refresh and save | exchange, database |
| **Controllers, registry, emitter** `client/src/controllers/`, `client/src/services/` | subscriber counts, retention | subscribe, unsubscribe, notify | components |

### What is hard, and what correctness means

* **Storage.** All of it is synchronous, but it keeps redundant state: index
  metadata patched in place by additions and rebuilt by everything else, a
  cached snapshot, a persisted mark. Correct means that, whatever the sequence
  of calls, the redundant state equals what would be computed from the chunk
  sets, and that a storage behaves like one queue of items per level.
* **Changed items.** A delta sends runs of changed items. Correct means the
  intervals always cover exactly the items marked since the last clear that
  still exist, without two runs that touch.
* **Tick aggregation.** A tick can move items up several levels. Correct means
  no stretch of time is lost, repeated or reordered, the levels stay below
  their maxima, and the loop ends.
* **Replication.** Server and client hold the same items but not the same
  chunk sets, since a snapshot compacts them. Correct means that a client that
  has applied what it was sent shows what the server has, and that no message
  of the server makes the client throw.
* **Freezing and buffering.** A tick, a full sync, the snapshot worker and a
  debug timer share a market through a count of coolings and a flag. Correct
  means that ticks are processed one at a time, once and in order, that no one
  reads a storage in the middle of a tick, that removing a market loses
  nothing, and that the counting never throws.
* **Persistence.** Snapshots are queued while others are written, writes fail
  and are tried again, `stop()` flushes while timers and queries are under way,
  and the process may die. Correct means that one batch is written at a time,
  that work never waits without a timer, that the newest snapshot is in the
  queue or in the database at all times, and that a row never gets older.
* **Sessions.** Two ends with their own idea of one connection: timers, awaits,
  a socket that closes at one end first, requests answered late or twice.
  Correct means that packets count in step, that an accepted delta always fits
  the replica, that what is shown comes from one session, and that pages come
  back after whatever broke.
* **Feed.** One subscription over sockets that fail while the list of markets
  changes. Correct means that a tick comes once and in order, that an active
  subscription is one of the newest list, and that nothing waits without a
  timer.
* **Caches of an accessor.** Decoded values, the chunk set used last and the
  records of changed and deleted items must move with every insertion and
  deletion. Correct means that nobody can tell a `LazyArray` from an array.
* **Recalculation.** Indicators are recalculated only where their inputs
  changed. Correct means that nothing that depends on a change stays as it was.
* **Wire formats.** Correct means that bytes read back as what was written, or
  that the write throws.

`PROJECT.json` lists the hazards one by one with the line where each bites and
the properties that cover it.

## 2. Plan

| # | Modules | Subject | State |
|---|---|---|---|
| 1 | `ChangedSet`, `ChangedIntervals` | changed items of a list | done |
| 2 | `StorageStructure`, `Storage`, `LevelQueues` | one storage, refinement to queues | done |
| 3 | `StorageStructureProofs`, `StorageProofs` | the invariants of a storage and its refinement, for every size | done |
| 4 | `TickAggregation`, `StorageReplication`, `StorageReplicationProofs` | ticks, deltas, replica | done |
| 5 | `Freezing`, `StorageAggregation`, `StorageAggregationProofs` | freezing, tick buffers, full sync, snapshot worker, market removal | done |
| 6 | `StoragePersistence`, `StoragePersistenceProofs` | queues, worker, retries, stop, crash, restart | done |
| 7 | `FrontendNetwork`, `FrontendServer`, `FrontendClient`, `FrontendSession`, `FrontendSessionProofs` | connections, subscriptions and pending requests, sessions, synchronization | done |
| 8 | `WhitebitWs`, `WhitebitWsProofs` | subscription state machine over a socket that fails | done |
| 9 | `LazyArray`, `ItemArray`, `EntityAccessor`, `EntityProofs` | caches of an accessor, its intervals, refinement to an array | done |
| 10 | `Binary`, `EntityCodecs`, `Codecs`, `SnapshotCodec`, `DeltaCodec` and their users | bytes on the wire and in the database | done |
| 11 | `EntityRecalculation`, `EntityProofs` | what is recalculated where | done |
| 12 | `RollingStatistics`, `ControllerRegistry` | in-flight flags, subscription counts | left |

Every safety invariant the passing runs check is now stated by a theorem, but for
those of the codecs (section 5 says why).

## 3. What the modules model

**`StorageStructure`** is `storage.ts` as pure operators. A storage is the
record of the four fields that describe its structure. The byte arrays of all
entities of a chunk set are one function from slots to items: the code treats
every entity alike, so one value per slot is enough to tell which slot was
written. Chunk sets are a TLA+ sequence and count from 1; flat indexes, levels
and slots count from 0. `FindChunkSetIndex` is the binary search, not a
definition of its result. Encoding a snapshot drops the unused slots
(`Compact`): this is what `snapshot-v1_0.ts` does with `start` and `end`, and
it matters for replication. `CanDelete` and `SnapshotOK` are the conditions
under which the code throws nothing.

**`Storage`** adds the two caches and makes every public operation an action:
`Add`, `Delete`, `Set`, `GetBinarySnapshot`, `GetPersistenceSnapshot`,
`ApplySnapshot`. `persisted` is a history variable with what persistence was
handed since the last change.

**`LevelQueues`** is the promise of a storage: a queue per level. `Storage`
implements it under a mapping that reads as the accessors do: the item at every
flat index, found by the binary search (`GetItem`), cut into levels by
`LevelSize` and the boundaries of the index metadata.

**`ChangedSet`** and **`ChangedIntervals`**: the bit per item of `bitmap.ts`,
and the intervals of `changed-intervals.ts` that implement it. The cases of the
loops of `set`, `addAfter` and `deleteItems` are disjuncts in the code's order.

**`TickAggregation`** is `processTick` for one market, one action per phase:
`ReceiveTick`, the recalculation of entities, `AggregateBucket` (a turn of the
loop of `aggregateLevel`), `NextLevel`, `TrimMaxLevel`, `EmitDelta`, and
`Restart` from a snapshot. Of an item's values the times are kept, for the
bucket sizes and the headers depend on them, and one mark stands for the values
entities may rewrite. The clock does not step back and may stand still
(`Gaps`).

**`StorageReplication`** adds a client: the channel of one socket, `Subscribe`
with the snapshot, `SendDelta`, and the client's reading of both with every
check of the decoder in its order. A second subscription after an
unsubscription, and a restart of the server, start from a new snapshot.

**`Freezing`** is `freezing.ts` for one key, as operators on a status.
**`StorageAggregation`** is the rest of `storage-aggregation.ts` for one market,
for the service keeps everything by market and never relates two. A step is the
code up to the next await or to the end of a callback. What `processTick` does
to a storage is `TickAggregation`'s subject; here a storage is the sequence of
the tick times it has taken, and `processTick` is `BeginTick` (up to the await
of the recalculation) and `FinishTick`, with `Settle` for the `finally` that
melts the ice and fetches the next buffered tick. Calls nest as in the code:
`Melted` is `warmAndMeltIce` with its callback, which is `flushTickBuffer`,
which may begin a tick. `market` is one record so that they can. The
recalculation is in fact synchronous and its awaits yield only to other
promises; the model lets anything happen there, which the code is written for.
A request captures the storage before it waits (`RequestFullSync`) and reads it
later (`PollFullSync`). The client stands for a subscriber: the server keeps
sending it deltas of the market's name, whichever storage they come from. An
initial state is what `prepareStoragesFromDatabase` leaves, so it is a restart
as well. Removed storages stay in `storages` as history.

**`StoragePersistence`** is `storage-persistence.ts` with its DAO. `calls` are
the calls of `workerTick` that wait for their query: the code's `workerBusy`
keeps them to one, which is an invariant here and not the shape of the model. A
query is sent (`BeginBatch`), takes effect (`ExecuteQuery`) and is answered
(`BatchSucceeds`, `BatchFails`) in separate steps, and may be rejected although
it took effect; not that it takes effect after it was rejected. The pool has ten
connections, so a deletion can be overtaken by, and overtake, any write.
`pendingActive` is a function from markets to entries whose `place` is the order
of insertion of the Map. Delays are not counted: a timer that is set fires at
some later time, `backoff` says that `retryAt` is still to come, and
`queuedAt` only orders the two queues. Around the service are the steps that
feed it: ticks, the snapshot worker with the unawaited deletion, whose rejection
ends the process, the market list, and the end and the start of the process.
A snapshot is the number of its newest tick. The restore is one step. A storage
with ticks always has items of level 0, so every hand-over has an archive
snapshot. With `--cpu-prof` the service writes nothing; that mode is left out.

**`FrontendNetwork`**, **`FrontendServer`**, **`FrontendClient`** and
**`FrontendSession`** are the socket between browser and server. A socket is a
number, with a state at each end and a queue of messages in each direction; a
close takes two steps, one per end, and a connection may also die without
either end being told. `FrontendServer` is `frontend-ws.ts` over
`ws-server.ts`: hello, settings (an await between the first message and the
answer), full sync requests that become pending events, their answers by the
aggregation, expiry after a minute, subscriptions, the numbering of packets per
socket, broadcasts of market lists and rolling statistics, pings.
`FrontendClient` is the API socket with its timers, `FrontendWsController`, the
synchronization runs, what `AppBootstrap` shows, and a page per market with its
pending client ids. Storages are versions: what a delta carries besides is
`StorageReplication`'s subject. A commit of React is atomic with the event that
caused it. Both ends are modules of their own and share the network;
`FrontendSession` composes them. Each behaviour belongs to one `scenario`,
chosen at the start, which says what may go wrong in it and how often: a
product of everything is out of TLC's reach.

**`WhitebitWs`** is `whitebit-ws.ts` over `ws-client.ts`, with the exchange as
its environment: a connect attempt, open, close, pings and late pongs,
subscribe and unsubscribe requests, receipts matched by id, refusals, the
receipt timer, reconnects, the market list, `stop()`. The `ws` library is
modelled from its use. Ending a socket that still connects makes the library
emit an error nobody listens to, which ends the process; the model has that as
`crashed`. A price that does not parse is left out.

**`ItemArray`** is what the users of an accessor want: an array that knows which
items have changed. **`LazyArray`** is what they get: addresses of items in
chunks, the bytes, the cache of decoded items, the chunk set used last, the
changes and the records of deleted items. **`EntityAccessor`** puts the
`ChangedIntervals` beside it, each call with its call. `transitoryChanges`,
which differ from `cumulativeChanges` in when they are cleared, are in
`EntityRecalculation`. The bytes of items nobody can reach any more are reset,
so that states do not differ by them.

**`Binary`** has bytes of `ByteValues` values and the primitive codecs' widths,
so that with four values the limits 255 and 65,535 of the code are 3 and 15
and are met. **`EntityCodecs`** and **`Codecs`** are `codecs.ts`: definitions by
version, sizes, nested items, nullable fields with their sentinel values, typed
objects, arrays, and what throws. Floats and texts are tagged parts that take
as many bytes as they have. **`SnapshotCodec`** and **`DeltaCodec`** are the two
definitions, with the plans that match the entities of a snapshot to those of
the running release. The users: **`EntityChunk`** (an accessor's writes),
**`CodecMessages`** (encode and decode of one value), **`SnapshotUpgrades`**
(a market through releases), **`DeltaWire`** (a server and a replica that talk in
bytes). No released codec migrates, and none is a `singleObject` or a
`varCountArray`; examples stand for them in the instance. A number with the
bits of a sentinel value is not written. What a throw has written before, and
the decoding of truncated packets, are left out.

**`EntityRecalculation`** is `base-entity.ts` with the entities that are there:
candles, the EMA, the market phase and its filter. Values are terms, so that two
items agree just if they were computed alike; rounding to float32 is left out,
and the EMA is seeded anew after a restart as in the code. It follows the
changed intervals, the deleted items with their indexes, which ranges each
entity recalculates, the filter's state kept by market, and `getFirstBucketCount`
over three levels. The clock may step back, which ends the process. The merged
ranges of `base-entity.ts` are sets of indexes (`FiniteAffected`,
`InfiniteAffected`): each index in them is calculated once, in ascending order.

**`StorageStructureProofs`**, **`StorageProofs`**, **`StorageReplicationProofs`**,
**`StorageAggregationProofs`**, **`StoragePersistenceProofs`**,
**`FrontendSessionProofs`**, **`WhitebitWsProofs`** and **`EntityProofs`** hold
lemmas and theorems. `MC*` modules give the constants values.

Operators whose comment begins with "Faulty variant" are not part of the model:
each is a definition changed as a plausible bug would change it, and shows that
a property notices.

## 4. What the runs check

The systems may stop (bounds on items, time, ticks, sockets or requests), so
deadlock is not checked. A run's properties are few and broad: each names one
thing the component promises, and its conjuncts, which are definitions of their
own in the modules, say what that takes.

| Run | Instance | Properties |
|---|---|---|
| `storage` | 3 levels, 2 slots per chunk set, 2 item values (symmetric model values), at most 4 items | `ChunkSetsSound`, `MetadataCurrent`, `SnapshotsCurrent`, `ImplementsLevelQueues` |
| `lazy_array` | 2 chunks of 2 slots, 3 values of which one is rounded, 3 items and records of deleted ones together | `CacheAgrees`, `IntervalsAgree`, `ImplementsItemArray`, `CollectsWhatGoes` |
| `replication` | 2 levels full at 5 and 2 items, 2 slots, gaps 0, 1 and 2, 10 time units, one marked item, two messages in flight | `TicksAccountedFor`, `StorageSound`, `ReplicaFollows`, `AppendOnlyAppends` |
| `storage_aggregation` | 4 ticks in 4 time units, 2 full syncs, 2 market list changes, weak fairness | `TicksInOrder`, `RemovedPersisted`, `ClientFollows`, `WorkDrains` |
| `storage_aggregation_revived` | 3 ticks, no fairness | `DeltaNotRefused`, violated |
| `storage_persistence` | 2 markets, batches of one, 2 ticks of a market and 3 in all, two of failed queries, list changes and ends of the process, weak fairness | `NewestKept`, `ArchiveKept`, `WorkInOrder`, `RowsOnlyGrow`, `WorkEnds` |
| `frontend_session` | four scenarios: a network that breaks with answers that come late; late pongs; pages loaded and mounted again, restarts and new releases over 3 sockets; two markets with lists and rolling statistics | `SessionsInStep`, `DeltasContinue`, `QuietClientCurrent`, `ShownFromOneSession` |
| `frontend_live` | two scenarios of two sockets: ends the browser is told of; connections that go silent. Weak fairness | `PagesShown`, `MountedGetsStorage`, `DeadConnectionsForgotten` |
| `frontend_stale` | late pongs, no subscription | `EntitiesNotRegisteredTwice`, violated |
| `whitebit_ws` | 3 sockets, 3 market lists, 2 moments of ticks, every kind of failure, weak fairness | `TicksOnce`, `ActiveIsNewest`, `WatchedUntilStopped`, `CrashOnlyByLeftoverTimer`, `FeedResumes` |
| `wire_formats` | bytes of 4 values; one behaviour is of one of the four users | `ChunkFaithful`, `MessagesArrive`, `SnapshotsRestored`, `ReplicaEqual` |
| `entity_recalculation` | 3 levels full at 4 (3 after an upgrade), 2 and 1 items, gaps -1 to 2, 9 time units | `RecalculationComplete`, `DeletedAreOfTheirAggregate`, `OrderedOrEnded` |

**Fairness.** All of it is weak, and all of it is of steps the event loop or the
other end takes. `storage_aggregation`: a promise whose work is done settles, the
snapshot worker's interval fires, each pending full sync is polled (a microtask
and two `setInterval`s). `storage_persistence`: a timer that is set fires, a retry
comes due, a query that was sent is answered, the loop of `stop()` and the
snapshot worker go on. `frontend_live`: messages on a connection that is alive are
handled, closes are noticed, the browser connects again, full syncs are
answered, and the timers of both ends fire. `whitebit_ws`: the same of the
exchange and the client's timers. Nothing assumes that the process ends or
starts again, that a market ticks, or that a page is opened; that failures come
to an end is a bound of the instance (`MaxTroubles`, the scenario, the number of
sockets), not fairness. `stop()` of the persistence waits without end while the
database keeps failing.

**Why the bounds are enough.** Four items in chunk sets of two give a level a
partly consumed first chunk set and a partly filled last one, or two levels with
two chunk sets, or all three levels at once: every case of `addItemStructure`
and `deleteNItemsStructure`. Three items over two chunks hold two intervals with
something between them and a chunk set used last that is not the one an
insertion goes to. In `replication` ten time units fill both levels and trim the
upper one, and the marked item puts a changed value anywhere while the snapshot
is taken at any moment between two ticks and two messages are on their way;
three levels are in `entity_recalculation`. Four ticks put one in process, one
in the buffer behind another, and one after a removal; two list changes take a
market away and bring it back, and two requests can wait for the ice at once,
with different storages captured. `WorkDrains` holds of a feed that pauses: a
request could be polled at a bad moment for as long as ticks follow each other
without a gap. The bound on ticks is that pause.

For persistence, two ticks let a snapshot be replaced while it is queued and
while it is written, two markets and batches of one make the queues wait for
each other, and two troubles are any two of a write or a deletion that fails, a
market that leaves the list or comes back, and an end of the process. `handed`
and `handedArchive` count from the start of the process, for what a dead process
had queued is lost by design, and `handed` starts again when a deletion takes
effect.

A second socket is the next session, and a third meets what the first has left
at the server; client ids up to four let a page ask again before its first
answer. Three sockets to the exchange fail in two ways before the last one, and
three lists change the subscription while one is under way and again after it.
In `wire_formats` texts are as long as fits and one longer, counts are at and one
past their limits, and the entities change order, size and version over three
releases; deltas of that run stay below the number of chunk sets at which the
server refuses to write one.

**What the properties leave out, as the code does.**
* `QuietClientCurrent` is about a subscription whose client id the page waits
  for. When an old answer overtakes a new one the subscription keeps the old
  id, and the page, which has its storage, gets no more deltas.
* A subscription left over from a page that is gone is harmless: its packets
  carry a client id nobody waits for (`DeltasContinue`).
* `PagesShown` excepts a connection given up for a late pong, which is the
  finding below, and a connection that dies before the hello, when the browser
  has no timer yet.
* `MountedGetsStorage` is stated without expired full syncs. One that is
  answered after a minute is dropped without a word
  (`frontend-ws.ts:353-355, 509-517`); the page that asked has no storage and no
  timer, and nothing asks again, although a comment expects that
  (`MarketStatisticsController.ts:197-198`).
* `ReplicaFollows` is checked, and proved, for configurations whose buckets stay
  away from the chunk set a level still grows in (`BucketsFit`). The code decides
  by `end` whether a chunk set has room (`storage.ts:453-457`), and a snapshot does
  not carry where a partly consumed chunk set started. When a bucket takes more
  than 546 of the 610 items of level 0, a burst in the ten seconds of a level 1
  candle, a replica made from a snapshot has room where the server has none, and
  the next delta names a chunk set the replica does not have. With chunks of three
  items, a level of five and a bucket of four TLC finds this in a minute.
* `OrderedOrEnded` says "or ended": `receivedAt` is `Date.now()`
  (`whitebit-ws.ts:372`), and if the clock steps back the market phase throws
  (`market-phase.ts:171`), the rejected `processTick` has no handler, and the
  process ends, again and again until the clock has caught up. `EndsOnlyByClock`
  says that nothing else ends it.
* `AccelerationsCurrent` leaves out the item two behind a new aggregate, which
  keeps the acceleration it had.
* `CrashOnlyByLeftoverTimer`: the timer of a subscription survives its socket
  (`whitebit-ws.ts:326`) and may end the next one while it connects; `stop()`
  while a socket connects does the same. Nothing else crashes the client.

**What `storage_aggregation_revived` shows.** A client is subscribed, its market
leaves the list (say because trading in it is disabled), the worker persists and
removes the storage, and nobody tells the client. When the market ticks again,
the service makes a new, empty storage, and its deltas go to the old subscriber,
who refuses each of them because it starts elsewhere. `ClientFollows` is
therefore about clients of the current storage.

**What `frontend_stale` shows.** When a pong is late the browser drops the socket
without telling its controllers (`api/frontend-ws.ts:277-279`), so the session
state of the old session stays. The next hello starts a synchronization, and
its entities meet the check that they are not registered yet, which throws
before the answer counts. The page shows its start screen until it is reloaded.

## 5. What is proved

A theorem is listed in `PROJECT.json` with the property it states. All but the
refinements follow one pattern: an inductive invariant `IInv`, checked by TLC
before it was proved, a lemma per action that the action keeps it, and a lemma
that it implies the property.

**`StorageProofs`**: `ChunkSetsStaySound`, `MetadataStaysCurrent` and
`SnapshotsStayCurrent` (`Spec => []ChunkSetsSound` and so on), and
`StorageImplementsQueues`: `Spec => ImplementsLevelQueues`. They hold for every
number of levels and chunk capacity above 0, every set of items and of times,
and every value of the bound `MaxItems`, and assume only `LevelsAssumption` and
`CapacityAssumption`.

The core of the invariant is `StorageOK`: the chunk sets are well formed and the
storage is `RebuildIndexMetadata` of its chunk sets. Neither half is inductive
alone: that an addition patches flat ends and boundaries to what a rebuild would
give (`AddMetadata`) needs the descending levels and the sizes, and that a
deletion finds what it deletes (`DeleteKeepsWellFormed`) needs that sizes are
positive and add up. The argument runs over the partial sums of the sizes
(`SizeSums`): they exist, are unique, and change by one from the touched chunk
set on. Facts about all positions of a sequence are proved from the least
counterexample (`LeastElement`, `SetInduction`), which follows from the
well-foundedness of the naturals. That the chunk sets between the first and
the last of a level are full (`InteriorChunkSetsFull`) is not inductive either:
`Packed` adds that only the first of a level has a start other than 0.

For the refinement the binary search is shown to find the chunk set whose range
holds the index, which is unique (`FlatStarts`), so the reads of a level are the
slots of its chunk sets one behind the other. An addition and a deletion move
the reads behind the place they touch, a write changes one, and compacting a
chunk set for a snapshot changes none.

**`StorageReplicationProofs`**, the server: `StorageAlwaysSound` and `TicksAlwaysAccountedFor`
(`Spec => []StorageSound`, `Spec => []TicksAccountedFor`), for every number of
levels and chunk capacity above 0, every level size above 0, every duration of a
bucket and any gaps between ticks, 0 included. They assume `LevelsAssumption`,
`CapacityAssumption`, `MaxCountAssumption`, `DurationAssumption`,
`GapsAssumption` and `MaxTimeAssumption`. Neither is inductive. The headers a
snapshot is read from are written from times the callers give, so that they are
those of the items needs to know which item an addition or a deletion leaves
first and last in a chunk set; that the candles cover the ticks needs to know
which items a bucket takes. `TickInv` therefore says of the storage that it is
`Sound`: well formed, with the metadata a rebuild would give, with headers that
have the times of the items read (`HeadersRead`), and with its candles, read by
flat index, between accepted ticks, one after the other, and over every tick
since the first (`InTime`). Of the tick under way it says that the levels it is
done with are below their sizes (`Settled`). The argument has three layers: what
an addition and a deletion do to the list that is read (`AddedItem`,
`DeletedItems`), what that keeps of `InTime` (`AppendInTime`, `JoinInTime` where a
bucket becomes one candle, `TrimInTime`), and what each operation keeps of `Sound`
(`SoundTick`, `SoundBucket`, `SoundTrim`, `SoundRewrite`, `SoundRestart`). A bucket
is never empty and never longer than its level, whatever the durations
(`BucketInLevel`); more need not be known of `getFirstBucketCount`.
`ReplicationAggregates` carries both to the server with its clients.

**`StorageReplicationProofs`**, the replica: `ReplicaAlwaysFollows`
(`SpecReplication => []ReplicaFollows`) and the action property
`AppendOnlyAlwaysAppends` (`SpecReplication => AppendOnlyAppends`), for every number
of levels and length of the channel, in every configuration that satisfies
`BucketsFit(g)` for some `g`. They assume what the server's theorems assume and
that `Null` is no number (`NullAssumption`). The argument:

* Server and replica do not have the same chunk sets, as the replica's come from
  a snapshot, which moves the items of each to its front. `SameShape` says how
  they differ: in nothing but the start of chunk sets, and not in the start of one
  that is the last of its level, because its end decides whether an item goes into
  it. All that is computed from headers is then equal (`SameShapeFacts`), an
  addition or a deletion keeps the shape (`AddShape`, `DeleteShape`), and the place
  a delta gives for an item by chunk set and offset is the same place in the
  replica (`ItemChangeIs`, `WrittenAlike`).
* During a tick the replica lags behind. `Repeats` says that the structural
  changes noted so far, applied to the storage the delta starts from, give one of
  the same shape, which reads the same (`Alike`) but for the items noted as
  changed; each step of a tick keeps this (`ServerTickFollowed`). When the
  delta is made, its checks pass and applying it leaves no difference
  (`DeltaArrives`).
* `ReplicaInv` follows the replica through the channel: there is a trail of
  storages, one for each message, from the replica to the one the running tick
  starts from (`OnItsWay`, `Awaits`). A message that arrives shortens the trail at
  its front, one that is sent makes it longer at its end.

A snapshot has the shape of the storage only if the chunk sets the levels grow in
have lost no items (`GrowingWhole`); `ReplicaFollowsGrowing` and
`AppendOnlyAppendsGrowing` say that nothing else is needed. That it is so is
`GrowingChunkSetsAlwaysWhole`, from `BucketsFit`: ticks come `g` apart, and as many
as a full level can spare while it keeps a chunk set full of items last as long as
an item of the level above should. The bucket is then closed within those
(`BucketLeaves`). For the higher levels this needs that items last long enough,
which is true of every two neighbours (`Spaced`): a bucket is closed only when the
next item would make it last too long. `RoomyInv` is the invariant.
`ConfiguredLevelsFit` shows that the configuration of `storage-config.ts` (64 items
in a chunk set, levels of 610, 486, 340, 114 and 312 items) satisfies `BucketsFit`
if ticks come 19 ms or more apart, 545 of them in ten seconds; the run `replication`
satisfies it with 1, which TLC checks (`ConfigurationFits`). Ticks of one market
that come faster for ten seconds are the case of section 4.

**`StorageAggregationProofs`**: `TicksStayInOrder`, `RemovedIsPersisted` and
`ClientFollowsStorage`, for every value of the bounds. They assume that `Null` is
no freezing status (`NullAssumption`) and that the bounds are naturals
(`BoundsAssumption`). The heart of the invariant is that the freezing status is
a function of the call in process: at rest, or never cooled, when there is none,
one degree below zero and iced when there is one. This is inductive only
together with `BufferOK`, that ticks wait only behind a tick in process: then
cooling and warming a market leaves it as it was (`Visiting`), and fetching the
next tick finds the market at rest (`FlushGood`). `RemovedPersisted` needs that a
storage with the mark, or without ticks, was persisted as it is; `ClientFollows`
needs that the call in process works on the current storage and found it as
large as it still is. That a tick is taken once needs `OrderInv`: storages,
calls and the buffer of a market hold ticks that ascend and do not meet. The
invariant's parts are predicates of one market, so each part of a step has its
lemma, and a step composes them.

**`StoragePersistenceProofs`**: `NewestIsKept`, `ArchiveIsKept`, `WorkIsInOrder`
and the action property `RowsNeverOlder` (`Spec => RowsOnlyGrow`), for any set of
markets, any batch size above 0 and every value of the bounds. They assume
`BatchSizePositive`, `BoundsNatural` and that `None` is no entry
(`NoneIsNoEntry`). `NewestKept` is not inductive: that an entry may be dropped
when a query is answered needs `CallsUnderWay`, that the entries a batch was
taken from are still there, that equal versions mean equal snapshots, and that
the rows have them once the query is executed. A version counts from 0 again
whenever an entry is made anew, and only `OneBatchAtATime` keeps an old batch
from meeting it. `RowsNeverOlder` needs `Chronological`: from row over batch and
queue to storage, snapshots never get older.

**`WhitebitWsProofs`**: `FeedTicksOnce`, `FeedActiveIsNewest`,
`FeedWatchedUntilStopped` and the action property `FeedCrashOnlyByLeftoverTimer`,
for any number of sockets, market lists and moments, and any choice of events;
they assume `FeedAssumption`. The argument is that only one socket is listened to
(`OneSocket`), that only an open one carries messages (`OnlyOpenCarries`), and
that what is on its way is in order: updates newer than every tick and
ascending (`UpdatesInOrder`), requests with growing ids, of which the newest is
the one the state is about (`RequestsInOrder`), and a receipt of the newest
request only after the exchange has done all it was asked (`ReceiptsInOrder`).
A receipt with the id the client waits for therefore answers the newest list
(`StateOfSocket`). `TimersOfSocket` says which timer may run in which state of the
socket; what may end the process is what it cannot say.

**`EntityProofs`**, the array: `CacheCorrect`: `Spec => [](CacheAgrees /\ WindowRight)`,
`AccessorIsItemArray`: `Spec => ImplementsItemArray`, the whole refinement, the
action property `WhatGoesIsCollected`: `Spec => CollectsWhatGoes`, and
`IntervalsAlwaysAgree`: `SpecAccessor => []IntervalsAgree`, for any fields, any
values with an idempotent rounding, any chunks and any length. They assume
`LazyArrayAssumption`. `CompositionIsLazyArray` carries the first three to
`EntityAccessor`, which the run checks. `CacheAgrees` is not inductive: a write
changes no other item only because `AddressesDiffer`, and goes to the right
place only because the chunk set used last is right (`WindowRight`), which after
an insertion it is because the storage was asked anew (`ChunkSetRight`). Each
action has one lemma with both conclusions, that the invariant is kept and that
the step is one of the array; the three writes share `WriteKeeps`. That the
values collected are those that go follows from the same invariant, as a read
gives what the array holds, from the cache or not (`ReadsAsArray`).

`IntervalsAgree` rests on `Agree`: the intervals are in order and apart
(`Spans`), and an index lies within one of them just when its item has changed.
Each operation of the intervals has a lemma with both conclusions (`SetCovers`,
`AddAfterCovers`, `DeleteItemsCovers`), from lemmas on what putting in, replacing,
shifting, merging and joining intervals does to `Spans` and to what lies within;
that the intervals a deletion cuts or drops are a prefix or a suffix of the list
(`PrefixOf`) is where their order is needed. `WriteAgrees` needs the invariant of
the array: the code compares the bytes at the place it has reached, which are
those of the item only if the chunk set is right.

**`EntityProofs`**, the values: `DeletedAlwaysOfTheirAggregate`,
`AlwaysOrderedOrEnded` and `RecalculationAlwaysComplete`, that is
`SpecEntities => []P` for each of the three invariants of `entity_recalculation`,
for any number of levels, any sizes, durations and releases, any period of the
EMA, any gaps and any time. They assume `RecalculationAssumption`, and that for
some `g` the configuration satisfies `LevelZeroFits(g)`: a clock that advances
does so by `g` or more, and the first bucket of a full level 0 is full
before its newest tick: `(maxCount[0] - 2) * g >= Duration[1]`.

That hypothesis is a limit of the result. The code checks nothing of the
kind. With 610 items in level 0 and buckets of ten seconds it asks for ticks 17 ms
apart or more; nothing in the code makes a feed keep that distance. Where it
fails, a bucket can take all of level 0, the tick among it, and TLC finds `OrderedOrEnded` and `RecalculationComplete`
violated, for example with four items in level 0 and `Duration[1] = 9`. The
configuration of the run satisfies it, which `MCEntityRecalculation` asserts.

The invariant is `EntitiesInv(g)`. None of the three properties is inductive, as
they speak of the moment between ticks or of that of a recalculation:

* `Ordered(g)` is the order of the items at every moment, and `NewestIsTick` that
  the newest of them is the last tick, still in level 0. A tick behind its time
  is in the list until the market phase throws, and nothing else can throw
  (`ThrowsOnlyLate`, `AllInOrder`).
* `RecordsRight` says what a record of deleted candles is while levels are
  aggregated: `IsRecord`. The item at its index is the aggregate of its values,
  and the item behind, unless changed, still has the speed from the last of
  them. Insertions and deletions move records and changes together, so that
  the changed items are just those with a record.
* `CandlesRight` and `IndicatorsRight` say what is right although something has
  changed: a candle if neither it nor the one before has changed, an indicator up
  to the first change. `StatesRight` ties the states kept by market to the newest
  item the indicators know.
* `RecalculatedIs` says what a recalculation makes of each item, by induction
  over the indexes it affects, from which `SpeedOK`, `AccelerationOK`, `EmaOK` and
  the formulas of filter and phase follow. A recalculation ends one item behind an
  aggregate. The speed of the next item is right all the same, as it does not
  depend on the speed before; its acceleration does. If the aggregate is of one
  item nothing differs, by what `IsRecord` says; if it is of several this is the
  exception that `AccelerationsCurrent` names (`CandlesAfter`, `AccelerationStays`).
* `LevelZeroFits(g)` is needed at one place: a bucket of level 0 leaves the newest
  tick where it is (`BucketLeavesTick`), as ticks `g` apart span the duration
  before it.

**`FrontendSessionProofs`**: `SessionsStayInStep`, `DeltasAlwaysContinue`,
`QuietClientIsCurrent` and `ShownComesFromOneSession`, in every scenario: for any
number of sockets, any finite set of markets, any number of client ids, versions
and market lists, and any choice of what goes wrong. They assume the bounds to be
naturals and the markets to be finite (`MarketsFinite`: `Removals` lists those of
a page). None of the four is inductive: they speak of the next message, or of the
moment when none is left. `IInv` therefore says of every message on its way what
it follows (`After`, `Latest`). Server ids: packets count on from the last one
received, and the server's next id from the last one sent (`Counted`). That is
not so while the browser still has the count of a session it dropped without
clearing it. But such a session has asked for no storage (`Unasked`), and it never
will: the entities of the old session are still registered, so those of the new
one fail and its pages are not shown. Where the entities are registered anew, the
count of the browser is 0, and the server's is as well (`Sessions`). Storages:
a delta follows the packet of its market before it, or the storage itself where
its id is expected, and the last packet has the version of the server's market
(`StorageReached`); so a delta fits when it arrives, and nothing is missing when
nothing is on its way. Rolling statistics and the market list are alike
(`RollingReached`, `ListReached`); they need that what the browser asks for comes
behind its `webSocketReady` (`ReadyFirst`), and all need that client ids are never
given out twice (`IdsGiven`). `ShownFromOneSession` rests on `View` alone. Most steps
of the server leave all this as it is, for one reason (`Unnoticed`,
`ServerSideStays`); the others, and those of the browser, have a lemma each.

Only model-checked:

* the codecs (`MessagesArrive`, `ReplicaEqual` and the rest of `wire_formats`): what
  they compute is recursive or a fold over data, and the installed provers can do
  no induction over data;
* what the frontend shows in the end, and every other liveness property: the
  proof system has no rule for fairness here.

## 6. What is not modelled

* The values of candles and indicators: floating point is outside TLA+. Terms
  stand for them where it matters which value an item has.
* An exception inside `processTick` other than the one of the market phase; what
  the code would throw on is stated as invariants instead.
* Partial writes of an encoder that throws, packets cut short, and
  `frontend-ws-binary-codec.ts`, which nothing uses.
* The user's settings and saving them, the broadcasts nobody calls, the view
  state of a market page.
* The monitors of the persistence, and its profiling mode, which writes nothing.
* **Rolling statistics** (`market-statistics-rolling.ts`): one flag and two
  intervals. A save that is still running makes the next one return at once,
  the one of `stop()` too, so the last minute may be missing from the table.
* **Markets and balances**: plain requests with a fallback to the table. Their
  effect, a market list that changes at any time, is an action of
  `StorageAggregation`, `StoragePersistence`, `FrontendServer` and `WhitebitWs`.
* **Scheduler**: two cron jobs with a flag each.
* **Controllers and registry**: subscription counts of React components; here a
  page is mounted or not.
* Rendering, routes, migrations, translations.
