-------------------------- MODULE StoragePersistence --------------------------
(***************************************************************************)
(* src/app/src/server/services/storage-persistence.ts and its DAO: queues  *)
(* of snapshots to be written, a worker that writes them in batches and    *)
(* tries again after a failure, and stop(), which waits for the queues to  *)
(* empty.  Around it the part of StorageAggregation that hands snapshots   *)
(* over and deletes the row of a market that is gone, the database, whose  *)
(* connection pool answers queries in any order, and the end and the start *)
(* of the process.                                                         *)
(*                                                                         *)
(* A snapshot is the number of the newest tick in it.  Delays are not      *)
(* counted: a timer that is set fires at some later time.                  *)
(***************************************************************************)
EXTENDS Integers, Sequences, FiniteSets, FiniteSetsExt

CONSTANTS
  Markets,       \* market names
  None,          \* no entry for a market
  BatchSize,     \* SNAPSHOT_BATCH_SIZE
  MaxTicks,      \* bound on the ticks of a market
  MaxClock,      \* bound on Date.now()
  MaxAllTicks,   \* bound on the ticks of all markets together
  MaxTroubles    \* bound on failed queries, changes of the market list and
                 \* ends of the process together

ASSUME BatchSizePositive == BatchSize \in Nat \ {0}
ASSUME NoneIsNoEntry ==
  None \notin [snapshot : 1 .. MaxTicks, queuedAt : 0 .. MaxClock,
               version : Nat, place : Nat]
ASSUME BoundsNatural ==
  {MaxTicks, MaxClock, MaxAllTicks, MaxTroubles} \subseteq Nat

VARIABLES
  mode,        \* "running", "stopping" (in stop()), "stopped", "down"
  active,      \* pendingActive: the entry of each market or None
  archive,     \* pendingArchive
  timer,       \* workerTimer is set
  calls,       \* calls of workerTick that wait for a query: batch, executed
  backoff,     \* retryAt is in the future
  deleting,    \* number of unanswered deleteAlives queries by market
  rows,        \* storage_alive: the snapshot of each market, 0 without a row
  archived,    \* storage_archive: pairs <<market, ended_at>>
  storage,     \* the newest tick of the market's Storage, 0 without one
  marked,      \* isPersistenceSnapshotBeenTaken of the Storage
  listed,      \* the markets globalStateService has
  ticks,       \* number of ticks of each market
  clock,       \* Date.now() when a snapshot was last queued
  places,      \* number of entries ever put in pendingActive
  troubles,    \* counter for MaxTroubles
  handed,      \* history: newest active snapshot handed over by market, 0 once
               \* a deletion of the row was executed
  handedArchive \* history: archive snapshots handed over

queues == <<active, archive, places, clock>>
worker == <<timer, calls, backoff>>
database == <<rows, archived>>
aggregation == <<storage, marked, listed, ticks>>
history == <<handed, handedArchive>>
vars == <<mode, queues, worker, deleting, database, aggregation, history, troubles>>

-----------------------------------------------------------------------------

\* A first start, on an empty database.
Init ==
  /\ mode = "running"
  /\ active = [m \in Markets |-> None]
  /\ archive = <<>>
  /\ timer = FALSE
  /\ calls = {}
  /\ backoff = FALSE
  /\ deleting = [m \in Markets |-> 0]
  /\ rows = [m \in Markets |-> 0]
  /\ archived = {}
  /\ storage = [m \in Markets |-> 0]
  /\ marked = [m \in Markets |-> FALSE]
  /\ listed = Markets
  /\ ticks = [m \in Markets |-> 0]
  /\ clock = 0
  /\ places = 0
  /\ troubles = 0
  /\ handed = [m \in Markets |-> 0]
  /\ handedArchive = {}

-----------------------------------------------------------------------------
(* The queues.                                                             *)

PendingActive == {m \in Markets : active[m] # None}

HasPendingWork == PendingActive # {} \/ archive # <<>>

\* An entry keeps its place in the Map and its age when its snapshot is
\* replaced.
AddActiveSnapshot(m, snapshot, queuedAt) ==
  IF active[m] # None
    THEN /\ active' = [active EXCEPT ![m].snapshot = snapshot,
                                     ![m].version = @ + 1]
         /\ UNCHANGED places
    ELSE /\ active' = [active EXCEPT ![m] = [ snapshot |-> snapshot,
                                              queuedAt |-> queuedAt,
                                              version  |-> 0,
                                              place    |-> places ]]
         /\ places' = places + 1

\* Faulty variant: nothing is scheduled while a retry is due.
ScheduleWorkerUnlessBackoff ==
  timer' = (timer \/ ( mode = "running" /\ calls' = {}
                       /\ HasPendingWork' /\ ~ backoff' ))

\* scheduleWorker at the end of a step: getNextWorkerDelay is null only
\* without pending work.
ScheduleWorker ==
  timer' = (timer \/ (mode = "running" /\ calls' = {} /\ HasPendingWork'))

\* handleStorageSnapshoted: the active snapshot comes before the archive one.
\* The subscription lasts until stop().
HandleStorageSnapshoted(m, snapshot, isAlive) ==
  IF mode = "running"
    THEN \E queuedAt \in clock .. MaxClock :
           /\ clock' = queuedAt
           /\ archive' = Append(archive, [ market   |-> m,
                                           snapshot |-> snapshot,
                                           queuedAt |-> queuedAt ])
           /\ handedArchive' = handedArchive \cup {<<m, snapshot>>}
           /\ IF isAlive
                THEN /\ AddActiveSnapshot(m, snapshot, queuedAt)
                     /\ handed' = [handed EXCEPT ![m] = snapshot]
                ELSE UNCHANGED <<active, places, handed>>
           /\ UNCHANGED <<calls, backoff>>
           /\ ScheduleWorker
    ELSE UNCHANGED <<queues, worker, history>>

-----------------------------------------------------------------------------
(* Batches.                                                                *)

\* The entries that were put in the Map first.
ActiveBatch ==
  LET before(m) == {q \in PendingActive : active[q].place < active[m].place}
      first == {m \in PendingActive : Cardinality(before(m)) < BatchSize}
  IN  [ type  |-> "active",
        items |-> [m \in first |-> [ snapshot |-> active[m].snapshot,
                                     version  |-> active[m].version ]] ]

ArchiveBatch ==
  LET size == IF Len(archive) < BatchSize THEN Len(archive) ELSE BatchSize
  IN  [type |-> "archive", items |-> SubSeq(archive, 1, size)]

\* getNextBatch: the queue whose first item is older, the archive on a tie.
ArchiveComesFirst ==
  /\ archive # <<>>
  /\ \A m \in PendingActive :
       (\A q \in PendingActive : active[m].place <= active[q].place)
         => archive[1].queuedAt <= active[m].queuedAt

NextBatch == IF ArchiveComesFirst THEN ArchiveBatch ELSE ActiveBatch

\* workerTick up to the query.
BeginBatch ==
  /\ calls = {}
  /\ ~ backoff
  /\ HasPendingWork
  /\ calls' = {[batch |-> NextBatch, executed |-> FALSE]}

\* The timer of the worker fires.  While a retry is not due it is set again.
TimerFires ==
  /\ timer
  /\ \/ backoff /\ UNCHANGED <<timer, calls>>
     \/ BeginBatch /\ timer' = FALSE
  /\ UNCHANGED <<mode, queues, backoff, deleting, database, aggregation,
                 history, troubles>>

RetryComesDue ==
  /\ backoff
  /\ backoff' = FALSE
  /\ UNCHANGED <<mode, queues, timer, calls, deleting, database, aggregation,
                 history, troubles>>

\* upsertAlive or insertArchive takes effect in the database.
ExecuteQuery(call) ==
  /\ ~ call.executed
  /\ calls' = (calls \ {call}) \cup {[batch |-> call.batch, executed |-> TRUE]}
  /\ IF call.batch.type = "active"
       THEN /\ rows' = [m \in Markets |->
                          IF m \in DOMAIN call.batch.items
                            THEN call.batch.items[m].snapshot ELSE rows[m]]
            /\ UNCHANGED archived
       ELSE /\ archived' = archived \cup
                 {<<call.batch.items[i].market, call.batch.items[i].snapshot>> :
                    i \in DOMAIN call.batch.items}
            /\ UNCHANGED rows
  /\ UNCHANGED <<mode, queues, timer, backoff, deleting, aggregation, history,
                 troubles>>

\* Faulty variant: what was written leaves the queue whatever came meanwhile.
DropWrittenAnyVersion(batch) ==
  IF batch.type = "active"
    THEN /\ active' = [m \in Markets |->
                         IF m \in DOMAIN batch.items THEN None ELSE active[m]]
         /\ UNCHANGED archive
    ELSE /\ archive' = SubSeq(archive, Len(batch.items) + 1, Len(archive))
         /\ UNCHANGED active

\* Faulty variant: the archive queue is emptied, whatever came meanwhile.
DropWholeArchive(batch) ==
  IF batch.type = "active"
    THEN /\ active' = [m \in Markets |->
                         IF /\ m \in DOMAIN batch.items
                            /\ active[m] # None
                            /\ active[m].version = batch.items[m].version
                           THEN None ELSE active[m]]
         /\ UNCHANGED archive
    ELSE archive' = <<>> /\ UNCHANGED active

\* handleBatchSuccess: an entry whose snapshot was replaced meanwhile stays.
DropWritten(batch) ==
  IF batch.type = "active"
    THEN /\ active' = [m \in Markets |->
                         IF /\ m \in DOMAIN batch.items
                            /\ active[m] # None
                            /\ active[m].version = batch.items[m].version
                           THEN None ELSE active[m]]
         /\ UNCHANGED archive
    ELSE /\ archive' = SubSeq(archive, Len(batch.items) + 1, Len(archive))
         /\ UNCHANGED active

\* The query is answered: the rest of workerTick, finally included.
BatchSucceeds(call) ==
  /\ call.executed
  /\ DropWritten(call.batch)
  /\ calls' = calls \ {call}
  /\ backoff' = FALSE
  /\ ScheduleWorker
  /\ UNCHANGED <<mode, clock, places, deleting, database, aggregation, history,
                 troubles>>

\* The query is rejected, though the database may have executed it: the batch
\* stays in its queue.
BatchFails(call) ==
  /\ troubles < MaxTroubles
  /\ troubles' = troubles + 1
  /\ calls' = calls \ {call}
  /\ backoff' = TRUE
  /\ UNCHANGED queues
  /\ ScheduleWorker
  /\ UNCHANGED <<mode, deleting, database, aggregation, history>>

-----------------------------------------------------------------------------
(* stop(), the end and the start of the process.                           *)

Stop ==
  /\ mode = "running"
  /\ mode' = "stopping"
  /\ timer' = FALSE
  /\ UNCHANGED <<queues, calls, backoff, deleting, database, aggregation,
                 history, troubles>>

\* Faulty variant: stop() does not wait for a batch under way.
StopLoopThoughBusy ==
  /\ mode = "stopping"
  /\ IF HasPendingWork
       THEN /\ ~ backoff
            /\ calls' = calls \cup {[batch |-> NextBatch, executed |-> FALSE]}
            /\ UNCHANGED mode
       ELSE mode' = "stopped" /\ UNCHANGED calls
  /\ UNCHANGED <<queues, timer, backoff, deleting, database, aggregation,
                 history, troubles>>

\* Faulty variant: stop() leaves the writing to the timer it has cleared.
StopLoopWaiting ==
  /\ mode = "stopping"
  /\ calls = {} /\ ~ HasPendingWork
  /\ mode' = "stopped"
  /\ UNCHANGED <<queues, worker, deleting, database, aggregation, history,
                 troubles>>

\* A pass of the loop of stop() that does something.
StopLoop ==
  /\ mode = "stopping"
  /\ calls = {}
  /\ IF HasPendingWork
       THEN BeginBatch /\ UNCHANGED mode
       ELSE mode' = "stopped" /\ UNCHANGED calls
  /\ UNCHANGED <<queues, timer, backoff, deleting, database, aggregation,
                 history, troubles>>

\* The process ends: what it had in memory is gone, and with it the queries
\* not executed.
ProcessEnds ==
  /\ mode' = "down"
  /\ active' = [m \in Markets |-> None]
  /\ archive' = <<>>
  /\ timer' = FALSE
  /\ calls' = {}
  /\ backoff' = FALSE
  /\ deleting' = [m \in Markets |-> 0]
  /\ storage' = [m \in Markets |-> 0]
  /\ marked' = [m \in Markets |-> FALSE]
  /\ handed' = [m \in Markets |-> 0]
  /\ handedArchive' = {}
  /\ UNCHANGED <<clock, places, database, listed, ticks>>

\* process.exit of shutdown, or a crash at any time.
End ==
  /\ mode # "down"
  /\ troubles < MaxTroubles
  /\ troubles' = troubles + 1
  /\ ProcessEnds

\* start() and prepareStoragesFromDatabase: a storage for each row, to be
\* snapshot again; the worker has nothing to do yet.
Restart ==
  /\ mode = "down"
  /\ mode' = "running"
  /\ storage' = rows
  /\ UNCHANGED <<queues, worker, deleting, database, marked, listed, ticks, history,
                 troubles>>

-----------------------------------------------------------------------------
(* The storages and their snapshots.                                       *)

\* A tick of a market, and with it a storage if there is none.
Tick(m) ==
  /\ mode = "running"
  /\ m \in listed
  /\ ticks[m] < MaxTicks
  /\ MapThenSumSet(LAMBDA n : ticks[n], Markets) < MaxAllTicks
  /\ ticks' = [ticks EXCEPT ![m] = @ + 1]
  /\ storage' = [storage EXCEPT ![m] = ticks[m] + 1]
  /\ marked' = [marked EXCEPT ![m] = FALSE]
  /\ UNCHANGED <<mode, queues, worker, deleting, database, listed, history,
                 troubles>>

Refresh(m) ==
  /\ troubles < MaxTroubles
  /\ troubles' = troubles + 1
  /\ listed' = IF m \in listed THEN listed \ {m} ELSE listed \cup {m}
  /\ UNCHANGED <<mode, queues, worker, deleting, database, storage, marked,
                 ticks, history>>

\* snapshotWorkerTick for one market: a storage that changed is handed over,
\* the row of a market that is gone is deleted and nobody waits for that.  The
\* snapshot worker goes on while the process shuts down.
SnapshotWorkerTick(m) ==
  /\ mode # "down"
  /\ storage[m] # 0
  /\ ~ marked[m] \/ m \notin listed
  /\ IF marked[m]
       THEN UNCHANGED <<queues, worker, history>>
       ELSE HandleStorageSnapshoted(m, storage[m], m \in listed)
  /\ IF m \in listed
       THEN /\ marked' = [marked EXCEPT ![m] = TRUE]
            /\ UNCHANGED <<storage, deleting>>
       ELSE /\ marked' = [marked EXCEPT ![m] = FALSE]
            /\ storage' = [storage EXCEPT ![m] = 0]
            /\ deleting' = [deleting EXCEPT ![m] = @ + 1]
  /\ UNCHANGED <<mode, database, listed, ticks, troubles>>

\* A deletion takes effect, before or after other queries that were sent
\* before or after it.
ExecuteDelete(m) ==
  /\ deleting[m] > 0
  /\ deleting' = [deleting EXCEPT ![m] = @ - 1]
  /\ rows' = [rows EXCEPT ![m] = 0]
  /\ handed' = [handed EXCEPT ![m] = 0]
  /\ UNCHANGED <<mode, queues, worker, archived, aggregation, handedArchive,
                 troubles>>

\* A deletion is rejected: nobody handles that, and Node ends the process.
DeleteFails(m) ==
  /\ deleting[m] > 0
  /\ troubles < MaxTroubles
  /\ troubles' = troubles + 1
  /\ ProcessEnds

-----------------------------------------------------------------------------

Answers ==
  \E call \in calls : ExecuteQuery(call) \/ BatchSucceeds(call) \/ BatchFails(call)

Next ==
  \/ TimerFires \/ RetryComesDue \/ Answers
  \/ Stop \/ StopLoop \/ End \/ Restart
  \/ \E m \in Markets :
       \/ Tick(m) \/ Refresh(m) \/ SnapshotWorkerTick(m)
       \/ ExecuteDelete(m) \/ DeleteFails(m)

Spec == Init /\ [][Next]_vars

\* The event loop fires due timers, a query sent is answered, and failures come
\* to an end (MaxTroubles).
FairSpec ==
  /\ Spec
  /\ WF_vars(TimerFires)
  /\ WF_vars(RetryComesDue)
  /\ WF_vars(Answers)
  /\ WF_vars(StopLoop)
  /\ \A m \in Markets : WF_vars(SnapshotWorkerTick(m))

-----------------------------------------------------------------------------

Snapshots == 1 .. MaxTicks

Entries == [snapshot : Snapshots, queuedAt : 0 .. MaxClock, version : Nat, place : Nat]

ArchiveItems == [market : Markets, snapshot : Snapshots, queuedAt : 0 .. MaxClock]

IsBatch(batch) ==
  /\ batch = [type |-> batch.type, items |-> batch.items]
  /\ \/ /\ batch.type = "active"
        /\ DOMAIN batch.items \subseteq Markets
        /\ batch.items \in [DOMAIN batch.items -> [snapshot : Snapshots, version : Nat]]
     \/ batch.type = "archive" /\ batch.items \in Seq(ArchiveItems)

IsCall(call) ==
  /\ call = [batch |-> call.batch, executed |-> call.executed]
  /\ call.executed \in BOOLEAN
  /\ IsBatch(call.batch)

\* Shapes of the variables.
TypeOK ==
  /\ mode \in {"running", "stopping", "stopped", "down"}
  /\ active \in [Markets -> Entries \cup {None}]
  /\ archive \in Seq(ArchiveItems)
  /\ \A call \in calls : IsCall(call)
  /\ {timer, backoff} \subseteq BOOLEAN
  /\ deleting \in [Markets -> Nat]
  /\ {rows, storage, ticks, handed} \subseteq [Markets -> 0 .. MaxTicks]
  /\ marked \in [Markets -> BOOLEAN]
  /\ archived \cup handedArchive \subseteq Markets \X Snapshots
  /\ listed \subseteq Markets
  /\ {clock, places, troubles} \subseteq Nat

\* Timer and stop() between them never have two batches under way.
OneBatchAtATime == \A c, d \in calls : c = d

\* Work is never left alone: while the service runs, pending work has a timer
\* or a batch under way whose end sets one.  Nothing else would wake the worker
\* before the next snapshot.
WorkIsScheduled ==
  (mode = "running" /\ HasPendingWork) => (timer \/ calls # {})

\* The newest snapshot of a market is in the queue or in the database, however
\* failures, retries and replacements mix.
NewestKept ==
  \A m \in Markets :
    \/ handed[m] = 0
    \/ rows[m] = handed[m]
    \/ active[m] # None /\ active[m].snapshot = handed[m]

\* Every archive snapshot is in the queue or in the database.
ArchiveKept ==
  \A pair \in handedArchive :
    \/ pair \in archived
    \/ \E i \in DOMAIN archive : <<archive[i].market, archive[i].snapshot>> = pair

\* stop() ends with nothing pending and no batch under way.
StopComplete == mode = "stopped" => ~ HasPendingWork /\ calls = {}

\* However timer, batches, retries and stop() interleave, one batch is under way
\* at most, no work is left alone, and stop() leaves none behind.
WorkInOrder == TypeOK /\ OneBatchAtATime /\ WorkIsScheduled /\ StopComplete

\* No row is ever replaced by an older snapshot, not even by a retry, by stop()
\* or after the market was gone and came back.
RowsOnlyGrow ==
  [][\A m \in Markets : rows'[m] # 0 => rows'[m] >= rows[m]]_vars

\* When snapshots stop coming and failures end, the database has it all, or the
\* process has ended with what it had.
EverythingWritten == <>[](mode = "down" \/ ~ HasPendingWork)

\* stop() ends.
StopEnds == mode = "stopping" ~> mode # "stopping"

\* Pending work comes to an end, while the service runs and when it stops.
WorkEnds == EverythingWritten /\ StopEnds
=============================================================================
