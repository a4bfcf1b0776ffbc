----------------------- MODULE StoragePersistenceProofs -----------------------
(***************************************************************************)
(* For any markets, batch size and bounds: the worker writes one batch at  *)
(* a time, pending work is scheduled, and no snapshot is lost between the  *)
(* queues and the database.                                                *)
(*                                                                         *)
(* The invariants are not inductive by themselves.  That the newest        *)
(* snapshot survives the answer to a query needs to know what the query    *)
(* wrote: a batch under way was taken from entries that are still there, an *)
(* entry whose version is the batch's has the batch's snapshot, and once   *)
(* the query is executed the row has it too.                               *)
(***************************************************************************)
EXTENDS StoragePersistence, SequenceTheorems, TLAPS

\* An entry has the newest snapshot handed over.
PendingIsNewest ==
  \A m \in Markets :
    (active[m] # None /\ handed[m] # 0) => active[m].snapshot = handed[m]

\* What a batch of active snapshots under way has to do with the queue and the
\* rows.
ActiveUnderWay(call) ==
  \A m \in DOMAIN call.batch.items :
    /\ active[m] # None
    /\ call.batch.items[m].version <= active[m].version
    /\ call.batch.items[m].version = active[m].version =>
         /\ call.batch.items[m].snapshot = active[m].snapshot
         /\ (call.executed /\ handed[m] # 0) => rows[m] = active[m].snapshot

\* A batch of archive snapshots under way is the beginning of the queue.
ArchiveUnderWay(call) ==
  /\ Len(call.batch.items) <= Len(archive)
  /\ \A i \in 1 .. Len(call.batch.items) :
       /\ call.batch.items[i] = archive[i]
       /\ call.executed => <<archive[i].market, archive[i].snapshot>> \in archived

CallsUnderWay ==
  \A call \in calls :
    /\ call.batch.type = "active" => ActiveUnderWay(call)
    /\ call.batch.type = "archive" => ArchiveUnderWay(call)

\* A process that has stopped or ended left nothing behind.
EndIsEmpty == mode \in {"stopped", "down"} => ~ HasPendingWork /\ calls = {}

\* From the row over the batch under way and the queue to the storage, snapshots
\* never get older.
Chronological ==
  /\ \A m \in Markets :
       /\ rows[m] <= ticks[m] /\ storage[m] <= ticks[m]
       /\ storage[m] # 0 => rows[m] <= storage[m]
       /\ active[m] # None =>
            /\ rows[m] <= active[m].snapshot
            /\ active[m].snapshot <= ticks[m]
            /\ storage[m] # 0 => active[m].snapshot <= storage[m]
  /\ \A call \in calls : call.batch.type = "active" =>
       \A m \in DOMAIN call.batch.items :
         /\ rows[m] <= call.batch.items[m].snapshot
         /\ call.batch.items[m].snapshot <= active[m].snapshot

\* Everything the proofs carry from step to step.
IInv ==
  /\ TypeOK
  /\ OneBatchAtATime
  /\ CallsUnderWay
  /\ WorkIsScheduled
  /\ PendingIsNewest
  /\ NewestKept
  /\ ArchiveKept
  /\ EndIsEmpty
  /\ Chronological

-----------------------------------------------------------------------------

\* The invariant holds at the start.
LEMMA InitInv == Init => IInv
<1> SUFFICES ASSUME Init PROVE IInv
  OBVIOUS
<1> USE DEF Init
<1>1. TypeOK
  <2>1. archive \in Seq(ArchiveItems)
    OBVIOUS
  <2>2. [m \in Markets |-> 0] \in [Markets -> 0 .. MaxTicks]
    BY BoundsNatural
  <2>3. active \in [Markets -> Entries \cup {None}]
    OBVIOUS
  <2>4. {rows, storage, ticks, handed} \subseteq [Markets -> 0 .. MaxTicks]
    BY <2>2
  <2>5. archived \cup handedArchive \subseteq Markets \X Snapshots
    OBVIOUS
  <2>6. {timer, backoff} \subseteq BOOLEAN /\ marked \in [Markets -> BOOLEAN]
    OBVIOUS
  <2>7. /\ deleting \in [Markets -> Nat]
        /\ {clock, places, troubles} \subseteq Nat
    OBVIOUS
  <2>8. /\ mode \in {"running", "stopping", "stopped", "down"}
        /\ \A call \in calls : IsCall(call)
        /\ listed \subseteq Markets
    OBVIOUS
  <2> QED
    BY ONLY <2>1, <2>3, <2>4, <2>5, <2>6, <2>7, <2>8 DEF TypeOK
<1>2. OneBatchAtATime /\ CallsUnderWay
  BY DEF OneBatchAtATime, CallsUnderWay
<1>3. ~ HasPendingWork
  BY DEF HasPendingWork, PendingActive
<1>4. WorkIsScheduled /\ EndIsEmpty
  BY <1>3 DEF WorkIsScheduled, EndIsEmpty
<1>5. PendingIsNewest /\ NewestKept /\ ArchiveKept
  BY DEF PendingIsNewest, NewestKept, ArchiveKept
<1>6. Chronological
  BY DEF Chronological
<1> QED
  BY <1>1, <1>2, <1>4, <1>5, <1>6 DEF IInv

-----------------------------------------------------------------------------
(* Batches.                                                                *)

\* getNextBatch returns a beginning of one of the queues.
LEMMA NextBatchUnderWay ==
  ASSUME IInv, NEW call, call = [batch |-> NextBatch, executed |-> FALSE]
  PROVE  /\ IsCall(call)
         /\ call.batch.type = "active" => ActiveUnderWay(call)
         /\ call.batch.type = "archive" => ArchiveUnderWay(call)
<1>0. TypeOK
  BY DEF IInv
<1>1. CASE ArchiveComesFirst
  <2> DEFINE size == IF Len(archive) < BatchSize THEN Len(archive) ELSE BatchSize
  <2> DEFINE items == SubSeq(archive, 1, size)
  <2>1. archive \in Seq(ArchiveItems) /\ Len(archive) \in Nat
    BY <1>0, LenProperties DEF TypeOK
  <2>2. size \in 0 .. Len(archive)
    BY <2>1, BatchSizePositive
  <2>3. /\ items \in Seq(ArchiveItems)
        /\ Len(items) = size
        /\ \A i \in 1 .. size : items[i] = archive[i]
    BY <2>1, <2>2 DEF items
  <2>4. NextBatch = [type |-> "archive", items |-> items]
    BY <1>1 DEF NextBatch, ArchiveBatch
  <2> HIDE DEF size, items
  <2>5. /\ call.batch = [type |-> "archive", items |-> items]
        /\ call.executed = FALSE
    BY <2>4
  <2>6. IsCall(call)
    BY <2>3, <2>5 DEF IsCall, IsBatch
  <2>7. ArchiveUnderWay(call)
    BY <2>2, <2>3, <2>5 DEF ArchiveUnderWay
  <2> QED
    BY <2>5, <2>6, <2>7
<1>2. CASE ~ ArchiveComesFirst
  <2> DEFINE first == DOMAIN ActiveBatch.items
  <2>1. /\ ActiveBatch = [type |-> "active", items |-> ActiveBatch.items]
        /\ first \subseteq PendingActive
        /\ ActiveBatch.items = [m \in first |-> [ snapshot |-> active[m].snapshot,
                                                  version  |-> active[m].version ]]
    BY DEF ActiveBatch
  <2>2. NextBatch = ActiveBatch
    BY <1>2 DEF NextBatch
  <2>3. \A m \in first : m \in Markets /\ active[m] # None /\ active[m] \in Entries
    BY <2>1, <1>0 DEF PendingActive, TypeOK
  <2> HIDE DEF first
  <2>4. \A m \in first : /\ ActiveBatch.items[m].snapshot = active[m].snapshot
                         /\ ActiveBatch.items[m].version = active[m].version
    BY <2>1
  <2>5. /\ call.batch = [type |-> "active", items |-> ActiveBatch.items]
        /\ call.executed = FALSE
    BY <2>1, <2>2
  <2>6. first \subseteq Markets
    BY <2>3
  <2>7. ActiveBatch.items \in [first -> [snapshot : Snapshots, version : Nat]]
    BY <2>1, <2>3 DEF Entries
  <2>8. IsCall(call)
    BY <2>5, <2>6, <2>7 DEF IsCall, IsBatch, first
  <2>9. ActiveUnderWay(call)
    BY <2>3, <2>4, <2>5 DEF ActiveUnderWay, Entries, first
  <2> QED
    BY <2>5, <2>8, <2>9
<1> QED
  BY <1>1, <1>2

\* A batch of active rows carries the queued snapshots.
LEMMA NextBatchSnapshots ==
  ASSUME NextBatch.type = "active", NEW m \in DOMAIN NextBatch.items
  PROVE  NextBatch.items[m].snapshot = active[m].snapshot
<1>1. NextBatch = ActiveBatch
  BY DEF NextBatch, ArchiveBatch
<1> QED
  BY <1>1 DEF ActiveBatch

\* What a step leaves alone that begins a batch.
LEMMA BeginBatchKeeps ==
  ASSUME IInv, BeginBatch,
         UNCHANGED <<mode, queues, backoff, deleting, database, aggregation,
                     history, troubles>>,
         timer' \in BOOLEAN,
         mode \notin {"stopped", "down"}
  PROVE  IInv'
<1> DEFINE call == [batch |-> NextBatch, executed |-> FALSE]
<1> USE DEF queues, database, aggregation, history
<1>1. calls' = {call}
  BY DEF BeginBatch
<1>2. /\ IsCall(call)
      /\ call.batch.type = "active" => ActiveUnderWay(call)
      /\ call.batch.type = "archive" => ArchiveUnderWay(call)
  BY NextBatchUnderWay
<1> HIDE DEF call
<1>3. TypeOK'
  BY <1>1, <1>2 DEF IInv, TypeOK
<1>4. CallsUnderWay'
  BY <1>1, <1>2 DEF CallsUnderWay, ActiveUnderWay, ArchiveUnderWay
<1>5. OneBatchAtATime' /\ WorkIsScheduled' /\ EndIsEmpty'
  BY <1>1 DEF OneBatchAtATime, WorkIsScheduled, EndIsEmpty
<1>6. PendingIsNewest' /\ NewestKept' /\ ArchiveKept'
  BY DEF IInv, PendingIsNewest, NewestKept, ArchiveKept
<1>7. Chronological'
  <2>1. ASSUME call.batch.type = "active", NEW m \in DOMAIN call.batch.items
        PROVE  /\ rows[m] <= call.batch.items[m].snapshot
               /\ call.batch.items[m].snapshot <= active[m].snapshot
    <3>1. /\ m \in Markets /\ active[m] # None
          /\ call.batch.items[m].snapshot = active[m].snapshot
      BY <2>1, <1>2, NextBatchSnapshots DEF IsCall, IsBatch, ActiveUnderWay, call
    <3>2. active[m].snapshot \in Int
      BY <3>1 DEF IInv, TypeOK, Entries, Snapshots
    <3> QED
      BY <3>1, <3>2 DEF IInv, Chronological
  <2> QED
    BY <1>1, <2>1 DEF IInv, Chronological
<1> QED
  BY <1>3, <1>4, <1>5, <1>6, <1>7 DEF IInv

\* The timer of the batch worker.
LEMMA TimerFiresKeeps == IInv /\ TimerFires => IInv'
<1> SUFFICES ASSUME IInv, TimerFires PROVE IInv'
  OBVIOUS
<1>1. CASE backoff /\ UNCHANGED <<timer, calls>>
  <2>1. UNCHANGED <<mode, active, archive, timer, calls, backoff, deleting,
                    rows, archived, storage, marked, listed, ticks, clock, places,
                    troubles, handed, handedArchive>>
    BY <1>1 DEF TimerFires, queues, database, aggregation, history
  <2> QED
    BY <2>1 DEF IInv, TypeOK, OneBatchAtATime, CallsUnderWay, ActiveUnderWay,
                ArchiveUnderWay, WorkIsScheduled, HasPendingWork, PendingActive,
                PendingIsNewest, NewestKept, ArchiveKept, EndIsEmpty,
                Chronological
<1>2. CASE BeginBatch /\ timer' = FALSE
  <2>1. mode \notin {"stopped", "down"}
    BY <1>2 DEF BeginBatch, IInv, EndIsEmpty
  <2> QED
    BY <1>2, <2>1, BeginBatchKeeps DEF TimerFires
<1> QED
  BY <1>1, <1>2 DEF TimerFires

\* The wait after a failure ends.
LEMMA RetryComesDueKeeps == IInv /\ RetryComesDue => IInv'
<1> SUFFICES ASSUME IInv, RetryComesDue PROVE IInv'
  OBVIOUS
<1>1. /\ UNCHANGED <<mode, active, archive, timer, calls, deleting,
                     rows, archived, storage, marked, listed, ticks, clock, places,
                     troubles, handed, handedArchive>>
      /\ backoff' \in BOOLEAN
  BY DEF RetryComesDue, queues, database, aggregation, history
<1>2. TypeOK' /\ Chronological'
  BY <1>1 DEF IInv, TypeOK, Chronological
<1>3. OneBatchAtATime' /\ CallsUnderWay'
  BY <1>1 DEF IInv, OneBatchAtATime, CallsUnderWay, ActiveUnderWay, ArchiveUnderWay
<1>4. WorkIsScheduled' /\ EndIsEmpty'
  BY <1>1 DEF IInv, WorkIsScheduled, EndIsEmpty, HasPendingWork, PendingActive
<1>5. PendingIsNewest' /\ NewestKept' /\ ArchiveKept'
  BY <1>1 DEF IInv, PendingIsNewest, NewestKept, ArchiveKept
<1> QED
  BY <1>2, <1>3, <1>4, <1>5 DEF IInv

\* A pass of the loop of stop().
LEMMA StopLoopKeeps == IInv /\ StopLoop => IInv'
<1> SUFFICES ASSUME IInv, StopLoop PROVE IInv'
  OBVIOUS
<1>1. CASE HasPendingWork
  <2>1. /\ BeginBatch
        /\ UNCHANGED <<mode, queues, timer, backoff, deleting, database,
                       aggregation, history, troubles>>
        /\ mode = "stopping"
    BY <1>1 DEF StopLoop
  <2>2. timer' \in BOOLEAN
    BY <2>1 DEF IInv, TypeOK
  <2> QED
    BY <2>1, <2>2, BeginBatchKeeps
<1>2. CASE ~ HasPendingWork
  <2>1. /\ UNCHANGED <<active, archive, timer, calls, backoff, deleting,
                       rows, archived, storage, marked, listed, ticks, clock, places,
                       troubles, handed, handedArchive>>
        /\ mode' = "stopped"
        /\ calls = {}
    BY <1>2 DEF StopLoop, queues, database, aggregation, history
  <2> QED
    BY <1>2, <2>1
       DEF IInv, TypeOK, OneBatchAtATime, CallsUnderWay, ActiveUnderWay,
           ArchiveUnderWay, WorkIsScheduled, HasPendingWork, PendingActive,
           PendingIsNewest, NewestKept, ArchiveKept, EndIsEmpty,
           Chronological
<1> QED
  BY <1>1, <1>2

\* The stop begins.
LEMMA StopKeeps == IInv /\ Stop => IInv'
<1> SUFFICES ASSUME IInv, Stop PROVE IInv'
  OBVIOUS
<1>1. /\ UNCHANGED <<active, archive, calls, backoff, deleting,
                     rows, archived, storage, marked, listed, ticks, clock, places,
                     troubles, handed, handedArchive>>
      /\ mode' = "stopping"
      /\ timer' = FALSE
  BY DEF Stop, queues, database, aggregation, history
<1>2. TypeOK'
  BY <1>1 DEF IInv, TypeOK
<1>3. WorkIsScheduled' /\ EndIsEmpty'
  BY <1>1 DEF WorkIsScheduled, EndIsEmpty
<1>4. OneBatchAtATime' /\ CallsUnderWay' /\ Chronological'
  BY <1>1 DEF IInv, OneBatchAtATime, CallsUnderWay, ActiveUnderWay,
              ArchiveUnderWay, Chronological
<1>5. PendingIsNewest' /\ NewestKept' /\ ArchiveKept'
  BY <1>1 DEF IInv, PendingIsNewest, NewestKept, ArchiveKept
<1> QED
  BY <1>2, <1>3, <1>4, <1>5 DEF IInv

\* The end of the process, of itself or for a deletion that failed.
LEMMA ProcessEndsKeeps ==
  ASSUME IInv, ProcessEnds,
         troubles' \in Nat
  PROVE  IInv'
<1> USE DEF ProcessEnds, database
<1>1. TypeOK'
  <2>1. /\ archive' \in Seq(ArchiveItems)
        /\ (handed' \in [Markets -> 0 .. MaxTicks])
        /\ (storage' \in [Markets -> 0 .. MaxTicks])
    BY BoundsNatural
  <2>2. /\ active' \in [Markets -> Entries \cup {None}]
        /\ handedArchive' = {}
        /\ timer' = FALSE /\ backoff' = FALSE
        /\ marked' \in [Markets -> BOOLEAN]
        /\ deleting' \in [Markets -> Nat]
        /\ mode' = "down"
        /\ calls' = {}
    OBVIOUS
  <2>3. UNCHANGED <<clock, places, rows, archived, listed, ticks>>
    OBVIOUS
  <2> QED
    BY ONLY IInv, <2>1, <2>2, <2>3, troubles' \in Nat
       DEF IInv, TypeOK
<1>2. OneBatchAtATime' /\ CallsUnderWay' /\ WorkIsScheduled' /\ EndIsEmpty'
  BY DEF OneBatchAtATime, CallsUnderWay, WorkIsScheduled, EndIsEmpty,
         HasPendingWork, PendingActive
<1>3. PendingIsNewest' /\ NewestKept' /\ ArchiveKept'
  BY DEF PendingIsNewest, NewestKept, ArchiveKept
<1>4. Chronological'
  BY BoundsNatural DEF IInv, Chronological, TypeOK
<1> QED
  BY <1>1, <1>2, <1>3, <1>4 DEF IInv

\* The process ends, by shutdown or a crash.
LEMMA EndKeeps == IInv /\ End => IInv'
<1> SUFFICES ASSUME IInv, End PROVE IInv'
  OBVIOUS
<1>1. troubles' \in Nat
  BY DEF End, IInv, TypeOK
<1> QED
  BY <1>1, ProcessEndsKeeps DEF End

\* A delete the database refuses takes the process with it.
LEMMA DeleteFailsKeeps ==
  ASSUME NEW m \in Markets PROVE IInv /\ DeleteFails(m) => IInv'
<1> SUFFICES ASSUME IInv, DeleteFails(m) PROVE IInv'
  OBVIOUS
<1>1. troubles' \in Nat
  BY DEF DeleteFails, IInv, TypeOK
<1> QED
  BY <1>1, ProcessEndsKeeps DEF DeleteFails

\* Ticks, changes of the market list and a restart touch no queue and no row.
LEMMA AggregationKeeps ==
  ASSUME IInv,
         UNCHANGED <<queues, worker, database, history>>,
         deleting' \in [Markets -> Nat],
         mode' = mode \/ (mode = "down" /\ mode' = "running" /\ ~ HasPendingWork),
         storage' \in [Markets -> 0 .. MaxTicks],
         ticks' \in [Markets -> 0 .. MaxTicks],
         marked' \in [Markets -> BOOLEAN],
         listed' \subseteq Markets,
         troubles' \in Nat,
         Chronological'
  PROVE  IInv'
<1>1. UNCHANGED <<active, archive, timer, calls, backoff, rows, archived, clock,
                  places, handed, handedArchive>>
  BY DEF queues, worker, database, history
<1>2. TypeOK'
  BY <1>1 DEF IInv, TypeOK
<1>3. HasPendingWork' = HasPendingWork
  BY <1>1 DEF HasPendingWork, PendingActive
<1>4. WorkIsScheduled' /\ EndIsEmpty'
  BY <1>1, <1>3 DEF IInv, WorkIsScheduled, EndIsEmpty
<1>5. OneBatchAtATime' /\ CallsUnderWay'
  BY <1>1 DEF IInv, OneBatchAtATime, CallsUnderWay, ActiveUnderWay, ArchiveUnderWay
<1>6. PendingIsNewest' /\ NewestKept' /\ ArchiveKept'
  BY <1>1 DEF IInv, PendingIsNewest, NewestKept, ArchiveKept
<1> QED
  BY <1>2, <1>4, <1>5, <1>6 DEF IInv

\* A restart loads the rows of the database.
LEMMA RestartKeeps == IInv /\ Restart => IInv'
<1> SUFFICES ASSUME IInv, Restart PROVE IInv'
  OBVIOUS
<1>1. /\ mode = "down" /\ mode' = "running" /\ storage' = rows
      /\ UNCHANGED <<queues, worker, deleting, database, history>>
      /\ UNCHANGED <<marked, listed, ticks, troubles>>
  BY DEF Restart
<1>2. ~ HasPendingWork /\ calls = {}
  BY <1>1 DEF IInv, EndIsEmpty
<1>3. Chronological'
  <2>1. \A m \in Markets : active[m] = None
    BY <1>2 DEF HasPendingWork, PendingActive
  <2>2. UNCHANGED <<active, calls, rows, ticks>>
    BY <1>1 DEF queues, worker, database
  <2>3. \A m \in Markets : rows[m] \in Int
    BY DEF IInv, TypeOK
  <2> QED
    BY <1>1, <1>2, <2>1, <2>2, <2>3 DEF IInv, Chronological
<1>4. /\ storage' \in [Markets -> 0 .. MaxTicks]
      /\ ticks' \in [Markets -> 0 .. MaxTicks]
      /\ marked' \in [Markets -> BOOLEAN]
      /\ deleting' \in [Markets -> Nat]
      /\ listed' \subseteq Markets
      /\ troubles' \in Nat
  BY <1>1 DEF IInv, TypeOK
<1> QED
  BY <1>1, <1>2, <1>3, <1>4, AggregationKeeps

\* A tick makes the storage newer than its last snapshot.
LEMMA TickKeeps == ASSUME NEW m \in Markets PROVE IInv /\ Tick(m) => IInv'
<1> SUFFICES ASSUME IInv, Tick(m) PROVE IInv'
  OBVIOUS
<1>1. /\ UNCHANGED <<mode, queues, worker, deleting, database, listed, history>>
      /\ UNCHANGED <<troubles>>
      /\ ticks' = [ticks EXCEPT ![m] = @ + 1]
      /\ storage' = [storage EXCEPT ![m] = ticks[m] + 1]
      /\ marked' = [marked EXCEPT ![m] = FALSE]
      /\ ticks[m] < MaxTicks
  BY DEF Tick
<1>2. /\ ticks \in [Markets -> 0 .. MaxTicks] /\ storage \in [Markets -> 0 .. MaxTicks]
      /\ rows \in [Markets -> 0 .. MaxTicks]
      /\ MaxTicks \in Nat
  BY BoundsNatural DEF IInv, TypeOK
<1>3. /\ ticks'[m] = ticks[m] + 1 /\ storage'[m] = ticks[m] + 1
      /\ \A k \in Markets : k # m => ticks'[k] = ticks[k] /\ storage'[k] = storage[k]
  BY <1>1, <1>2
<1>4. Chronological'
  <2>1. UNCHANGED <<active, calls, rows>>
    BY <1>1 DEF queues, worker, database
  <2>2. \A k \in Markets : active[k] # None => active[k].snapshot \in Int
    BY DEF IInv, TypeOK, Entries, Snapshots
  <2>3. \A k \in Markets :
          /\ rows[k] <= ticks'[k] /\ storage'[k] <= ticks'[k]
          /\ storage'[k] # 0 => rows[k] <= storage'[k]
          /\ active[k] # None =>
               /\ rows[k] <= active[k].snapshot
               /\ active[k].snapshot <= ticks'[k]
               /\ storage'[k] # 0 => active[k].snapshot <= storage'[k]
    <3> SUFFICES ASSUME NEW k \in Markets
                 PROVE  /\ rows[k] <= ticks'[k] /\ storage'[k] <= ticks'[k]
                        /\ storage'[k] # 0 => rows[k] <= storage'[k]
                        /\ active[k] # None =>
                             /\ rows[k] <= active[k].snapshot
                             /\ active[k].snapshot <= ticks'[k]
                             /\ storage'[k] # 0 => active[k].snapshot <= storage'[k]
      OBVIOUS
    <3>1. CASE k = m
      BY <1>2, <1>3, <2>2, <3>1 DEF IInv, Chronological
    <3>2. CASE k # m
      BY <1>2, <1>3, <2>2, <3>2 DEF IInv, Chronological
    <3> QED
      BY <3>1, <3>2
  <2> QED
    BY <2>1, <2>3 DEF IInv, Chronological
<1>5. /\ storage' \in [Markets -> 0 .. MaxTicks]
      /\ ticks' \in [Markets -> 0 .. MaxTicks]
  BY <1>1, <1>2
<1>6. /\ marked' \in [Markets -> BOOLEAN]
      /\ deleting' \in [Markets -> Nat]
      /\ listed' \subseteq Markets
      /\ troubles' \in Nat
  BY <1>1 DEF IInv, TypeOK
<1> QED
  BY <1>1, <1>4, <1>5, <1>6, AggregationKeeps

\* The list of markets is refreshed.
LEMMA RefreshKeeps == ASSUME NEW m \in Markets PROVE IInv /\ Refresh(m) => IInv'
<1> SUFFICES ASSUME IInv, Refresh(m) PROVE IInv'
  OBVIOUS
<1>1. /\ UNCHANGED <<mode, queues, worker, deleting, database, storage, marked,
                     ticks, history>>
      /\ troubles' = troubles + 1
      /\ listed' = IF m \in listed THEN listed \ {m} ELSE listed \cup {m}
  BY DEF Refresh
<1>2. Chronological'
  BY <1>1 DEF IInv, Chronological, queues, worker, database
<1>3. /\ storage' \in [Markets -> 0 .. MaxTicks]
      /\ ticks' \in [Markets -> 0 .. MaxTicks]
      /\ marked' \in [Markets -> BOOLEAN]
      /\ deleting' \in [Markets -> Nat]
      /\ listed' \subseteq Markets
      /\ troubles' \in Nat
  BY <1>1 DEF IInv, TypeOK
<1> QED
  BY <1>1, <1>2, <1>3, AggregationKeeps

-----------------------------------------------------------------------------
(* Handing snapshots over.                                                 *)

\* addActiveSnapshot changes the entry of one market, which has the snapshot
\* then, and a higher version if it was there.
LEMMA AddActiveSnapshotChanges ==
  ASSUME TypeOK, NEW m \in Markets, NEW snapshot \in Snapshots,
         NEW queuedAt \in 0 .. MaxClock,
         AddActiveSnapshot(m, snapshot, queuedAt)
  PROVE  /\ active' \in [Markets -> Entries \cup {None}]
         /\ places' \in Nat
         /\ active'[m] # None /\ active'[m].snapshot = snapshot
         /\ active[m] # None => active'[m].version = active[m].version + 1
         /\ \A k \in Markets : k # m => active'[k] = active[k]
<1>1. active \in [Markets -> Entries \cup {None}] /\ places \in Nat
  BY DEF TypeOK
<1>2. None \notin Entries
  BY NoneIsNoEntry DEF Entries, Snapshots
<1>3. CASE active[m] # None
  <2> DEFINE entry == [ snapshot |-> snapshot,
                        queuedAt |-> active[m].queuedAt,
                        version  |-> active[m].version + 1,
                        place    |-> active[m].place ]
  <2>1. active[m] \in Entries
    BY <1>1, <1>3
  <2>2. /\ entry \in Entries /\ entry.snapshot = snapshot
        /\ entry.version = active[m].version + 1
    BY <2>1 DEF Entries
  <2>3. active' = [active EXCEPT ![m] = entry] /\ places' = places
    BY <1>1, <1>3, <2>1 DEF AddActiveSnapshot, Entries
  <2> HIDE DEF entry
  <2>4. active'[m] = entry /\ \A k \in Markets : k # m => active'[k] = active[k]
    BY <1>1, <2>3
  <2>5. active' \in [Markets -> Entries \cup {None}]
    BY <1>1, <2>2, <2>3
  <2>6. entry # None
    BY <1>2, <2>2
  <2> QED
    BY <1>1, <2>2, <2>3, <2>4, <2>5, <2>6
<1>4. CASE active[m] = None
  <2> DEFINE entry == [ snapshot |-> snapshot, queuedAt |-> queuedAt,
                        version |-> 0, place |-> places ]
  <2>1. entry \in Entries /\ entry.snapshot = snapshot
    BY <1>1 DEF Entries
  <2>2. active' = [active EXCEPT ![m] = entry] /\ places' = places + 1
    BY <1>4 DEF AddActiveSnapshot
  <2> HIDE DEF entry
  <2>3. active'[m] = entry /\ \A k \in Markets : k # m => active'[k] = active[k]
    BY <1>1, <2>2
  <2>4. active' \in [Markets -> Entries \cup {None}]
    BY <1>1, <2>1, <2>2
  <2>5. entry # None
    BY <1>2, <2>1
  <2> QED
    BY <1>1, <1>4, <2>1, <2>2, <2>3, <2>4, <2>5
<1> QED
  BY <1>3, <1>4

\* A snapshot handed over while the service runs.
LEMMA HandOverKeeps ==
  ASSUME IInv, NEW m \in Markets, SnapshotWorkerTick(m),
         mode = "running", ~ marked[m]
  PROVE  IInv'
<1> DEFINE n == storage[m]
<1>0. TypeOK /\ n \in Snapshots /\ MaxClock \in Nat
  <2>1. TypeOK /\ MaxClock \in Nat /\ MaxTicks \in Nat
    BY BoundsNatural DEF IInv
  <2>2. storage \in [Markets -> 0 .. MaxTicks]
    BY <2>1 DEF TypeOK
  <2>3. storage[m] # 0
    BY DEF SnapshotWorkerTick
  <2> QED
    BY <2>1, <2>2, <2>3 DEF Snapshots
<1>1. PICK queuedAt \in clock .. MaxClock :
        /\ clock' = queuedAt
        /\ archive' = Append(archive, [market |-> m, snapshot |-> n, queuedAt |-> queuedAt])
        /\ handedArchive' = handedArchive \cup {<<m, n>>}
        /\ IF m \in listed
             THEN /\ AddActiveSnapshot(m, n, queuedAt)
                  /\ handed' = [handed EXCEPT ![m] = n]
             ELSE UNCHANGED <<active, places, handed>>
        /\ UNCHANGED <<calls, backoff>>
        /\ ScheduleWorker
  BY DEF SnapshotWorkerTick, HandleStorageSnapshoted
<1>2. /\ UNCHANGED <<mode, rows, archived, listed, ticks, troubles>>
      /\ IF m \in listed
           THEN /\ marked' = [marked EXCEPT ![m] = TRUE]
                /\ UNCHANGED <<storage, deleting>>
           ELSE /\ marked' = [marked EXCEPT ![m] = FALSE]
                /\ storage' = [storage EXCEPT ![m] = 0]
                /\ deleting' = [deleting EXCEPT ![m] = @ + 1]
  BY DEF SnapshotWorkerTick, database
<1>3. queuedAt \in 0 .. MaxClock /\ clock' \in Nat
  BY <1>0, <1>1 DEF TypeOK
<1>4. /\ active' \in [Markets -> Entries \cup {None}]
      /\ places' \in Nat
      /\ handed' \in [Markets -> 0 .. MaxTicks]
      /\ \A k \in Markets : k # m => active'[k] = active[k] /\ handed'[k] = handed[k]
      /\ \/ active'[m] = active[m] /\ handed'[m] = handed[m]
         \/ /\ active'[m] # None /\ active'[m].snapshot = n
            /\ active[m] # None => active'[m].version = active[m].version + 1
            /\ handed'[m] = n
  <2>1. CASE m \in listed
    <3>1. /\ active' \in [Markets -> Entries \cup {None}]
          /\ places' \in Nat
          /\ active'[m] # None /\ active'[m].snapshot = n
          /\ active[m] # None => active'[m].version = active[m].version + 1
          /\ \A k \in Markets : k # m => active'[k] = active[k]
      BY <1>0, <1>1, <1>3, <2>1, AddActiveSnapshotChanges
    <3>2. /\ handed' \in [Markets -> 0 .. MaxTicks]
          /\ handed'[m] = n
          /\ \A k \in Markets : k # m => handed'[k] = handed[k]
      BY <1>0, <1>1, <2>1 DEF TypeOK, Snapshots
    <3> QED
      BY <3>1, <3>2
  <2>2. CASE m \notin listed
    BY <1>0, <1>1, <2>2 DEF TypeOK
  <2> QED
    BY <2>1, <2>2
<1>5. /\ storage' \in [Markets -> 0 .. MaxTicks]
      /\ storage'[m] = n \/ storage'[m] = 0
      /\ \A k \in Markets : k # m => storage'[k] = storage[k]
      /\ marked' \in [Markets -> BOOLEAN]
      /\ deleting' \in [Markets -> Nat]
  <2>1. CASE m \in listed
    BY <1>0, <1>2, <2>1 DEF TypeOK
  <2>2. CASE m \notin listed
    <3>1. /\ storage' = [storage EXCEPT ![m] = 0]
          /\ marked' = [marked EXCEPT ![m] = FALSE]
          /\ deleting' = [deleting EXCEPT ![m] = @ + 1]
      BY <1>2, <2>2
    <3>2. storage' \in [Markets -> 0 .. MaxTicks]
      BY <1>0, <3>1, BoundsNatural DEF TypeOK
    <3>3. marked' \in [Markets -> BOOLEAN] /\ deleting' \in [Markets -> Nat]
      BY <1>0, <3>1 DEF TypeOK
    <3>4. storage'[m] = 0 /\ \A k \in Markets : k # m => storage'[k] = storage[k]
      BY <1>0, <3>1 DEF TypeOK
    <3> QED
      BY <3>2, <3>3, <3>4
  <2> QED
    BY <2>1, <2>2
<1>6. /\ archive' \in Seq(ArchiveItems)
      /\ Len(archive') = Len(archive) + 1
      /\ \A i \in 1 .. Len(archive) : archive'[i] = archive[i]
      /\ archive'[Len(archive) + 1].market = m
      /\ archive'[Len(archive) + 1].snapshot = n
      /\ Len(archive) \in Nat
  <2> DEFINE item == [market |-> m, snapshot |-> n, queuedAt |-> queuedAt]
  <2>1. item \in ArchiveItems /\ item.market = m /\ item.snapshot = n
    BY <1>0, <1>3 DEF ArchiveItems
  <2>2. archive \in Seq(ArchiveItems) /\ archive' = Append(archive, item)
    BY <1>0, <1>1 DEF TypeOK
  <2> HIDE DEF item
  <2> QED
    BY <2>1, <2>2
<1>7. timer' = (timer \/ (mode = "running" /\ calls' = {} /\ HasPendingWork'))
  BY <1>1 DEF ScheduleWorker
<1> HIDE DEF n
<1>8. TypeOK'
  <2>1. {timer', backoff'} \subseteq BOOLEAN
    BY <1>0, <1>1, <1>7 DEF TypeOK
  <2>2. archived' \cup handedArchive' \subseteq Markets \X Snapshots
    BY <1>0, <1>1, <1>2 DEF TypeOK
  <2>3. {rows', storage', ticks', handed'} \subseteq [Markets -> 0 .. MaxTicks]
    BY <1>0, <1>2, <1>4, <1>5 DEF TypeOK
  <2>4. {clock', places', troubles'} \subseteq Nat
    BY <1>0, <1>2, <1>3, <1>4 DEF TypeOK
  <2>5. /\ mode' = mode /\ listed' = listed /\ calls' = calls
    BY <1>1, <1>2
  <2> QED
    BY <1>0, <2>1, <2>2, <2>3, <2>4, <2>5, <1>4, <1>5, <1>6 DEF TypeOK
<1>9. OneBatchAtATime' /\ EndIsEmpty'
  BY <1>1, <1>2 DEF IInv, OneBatchAtATime, EndIsEmpty
<1>10. WorkIsScheduled'
  BY <1>2, <1>7 DEF WorkIsScheduled
<1>11. CallsUnderWay'
  <2> SUFFICES ASSUME NEW call \in calls
               PROVE  /\ call.batch.type = "active" => ActiveUnderWay(call)'
                      /\ call.batch.type = "archive" => ArchiveUnderWay(call)'
    BY <1>1 DEF CallsUnderWay
  <2>1. IsCall(call)
    BY <1>0 DEF TypeOK
  <2>2. CASE call.batch.type = "active"
    <3>1. ActiveUnderWay(call)
      BY <2>2 DEF IInv, CallsUnderWay
    <3>2. DOMAIN call.batch.items \subseteq Markets
      BY <2>1, <2>2 DEF IsCall, IsBatch
    <3>3. \A k \in DOMAIN call.batch.items :
            call.batch.items[k].version \in Nat /\ active[k].version \in Nat
      BY <2>1, <2>2, <3>1, <3>2, <1>0 DEF IsCall, IsBatch, ActiveUnderWay, TypeOK, Entries
    <3>4. ASSUME NEW k \in DOMAIN call.batch.items
          PROVE  /\ active'[k] # None
                 /\ call.batch.items[k].version <= active'[k].version
                 /\ call.batch.items[k].version = active'[k].version =>
                      /\ call.batch.items[k].snapshot = active'[k].snapshot
                      /\ (call.executed /\ handed'[k] # 0) => rows[k] = active'[k].snapshot
      <4>1. CASE active'[k] = active[k] /\ handed'[k] = handed[k]
        BY <3>1, <4>1 DEF ActiveUnderWay
      <4>2. CASE k = m /\ active'[m] # None
                 /\ active'[m].version = active[m].version + 1
        BY <3>1, <3>3, <4>2 DEF ActiveUnderWay
      <4>3. active[k] # None
        BY <3>1 DEF ActiveUnderWay
      <4> QED
        BY <1>4, <3>2, <4>1, <4>2, <4>3
    <3> QED
      BY <1>2, <2>2, <3>4 DEF ActiveUnderWay
  <2>3. CASE call.batch.type = "archive"
    <3>1. ArchiveUnderWay(call)
      BY <2>3 DEF IInv, CallsUnderWay
    <3>2. Len(call.batch.items) \in Nat
      BY <2>1, <2>3, LenProperties DEF IsCall, IsBatch
    <3>3. Len(call.batch.items) <= Len(archive')
          /\ \A i \in 1 .. Len(call.batch.items) : archive'[i] = archive[i]
      BY <3>1, <3>2, <1>6 DEF ArchiveUnderWay
    <3> QED
      BY <1>2, <2>3, <3>1, <3>3 DEF ArchiveUnderWay
  <2> QED
    BY <2>2, <2>3
<1>12. PendingIsNewest' /\ NewestKept'
  BY <1>2, <1>4 DEF IInv, PendingIsNewest, NewestKept
<1>13. ArchiveKept'
  <2>1. DOMAIN archive = 1 .. Len(archive) /\ DOMAIN archive' = 1 .. Len(archive) + 1
    BY <1>0, <1>6 DEF TypeOK
  <2>2. ASSUME NEW pair \in handedArchive
        PROVE  \/ pair \in archived
               \/ \E i \in DOMAIN archive' : <<archive'[i].market, archive'[i].snapshot>> = pair
    <3>1. CASE pair \in archived
      BY <3>1
    <3>2. CASE \E i \in DOMAIN archive : <<archive[i].market, archive[i].snapshot>> = pair
      <4>1. PICK i \in DOMAIN archive : <<archive[i].market, archive[i].snapshot>> = pair
        BY <3>2
      <4>2. i \in DOMAIN archive' /\ archive'[i] = archive[i]
        BY <1>6, <2>1
      <4> QED
        BY <4>1, <4>2
    <3> QED
      BY <3>1, <3>2 DEF IInv, ArchiveKept
  <2>3. Len(archive) + 1 \in DOMAIN archive'
    BY <1>6, <2>1
  <2> QED
    BY <1>1, <1>2, <1>6, <2>2, <2>3 DEF ArchiveKept, n
<1>14. Chronological'
  <2>1. /\ rows \in [Markets -> 0 .. MaxTicks] /\ ticks \in [Markets -> 0 .. MaxTicks]
        /\ \A k \in Markets : active[k] # None => active[k].snapshot \in Int
    BY <1>0 DEF TypeOK, Entries, Snapshots
  <2>2. n \in Int /\ n # 0 /\ rows[m] <= n /\ n <= ticks[m] /\ n = storage[m]
        /\ (active[m] # None => active[m].snapshot <= n)
    BY <1>0 DEF IInv, Chronological, Snapshots, n
  <2>3. ASSUME NEW k \in Markets
        PROVE  /\ rows[k] <= ticks[k] /\ storage'[k] <= ticks[k]
               /\ storage'[k] # 0 => rows[k] <= storage'[k]
               /\ active'[k] # None =>
                    /\ rows[k] <= active'[k].snapshot
                    /\ active'[k].snapshot <= ticks[k]
                    /\ storage'[k] # 0 => active'[k].snapshot <= storage'[k]
    <3>1. CASE k # m
      BY <1>4, <1>5, <3>1 DEF IInv, Chronological
    <3>2. CASE k = m
      BY <1>4, <1>5, <2>1, <2>2, <3>2 DEF IInv, Chronological
    <3> QED
      BY <3>1, <3>2
  <2>4. ASSUME NEW call \in calls, call.batch.type = "active",
               NEW k \in DOMAIN call.batch.items
        PROVE  /\ rows[k] <= call.batch.items[k].snapshot
               /\ call.batch.items[k].snapshot <= active'[k].snapshot
    <3>0. ActiveUnderWay(call) /\ IsBatch(call.batch)
      BY <2>4, <1>0 DEF TypeOK, IsCall, IInv, CallsUnderWay
    <3>1. /\ k \in Markets /\ active[k] # None
          /\ call.batch.items[k].snapshot \in Int
      BY <2>4, <3>0 DEF IsBatch, Snapshots, ActiveUnderWay
    <3>2. /\ rows[k] <= call.batch.items[k].snapshot
          /\ call.batch.items[k].snapshot <= active[k].snapshot
      BY <2>4 DEF IInv, Chronological
    <3>3. CASE active'[k] = active[k]
      BY <3>2, <3>3
    <3>4. CASE k = m /\ active'[m].snapshot = n
      BY <2>1, <2>2, <3>1, <3>2, <3>4
    <3> QED
      BY <1>4, <3>1, <3>3, <3>4
  <2> QED
    BY <1>1, <1>2, <2>3, <2>4 DEF Chronological
<1> QED
  BY <1>8, <1>9, <1>10, <1>11, <1>12, <1>13, <1>14 DEF IInv

\* The periodic save, whether it hands a snapshot over or not.
LEMMA SnapshotWorkerTickKeeps ==
  ASSUME NEW m \in Markets PROVE IInv /\ SnapshotWorkerTick(m) => IInv'
<1> SUFFICES ASSUME IInv, SnapshotWorkerTick(m) PROVE IInv'
  OBVIOUS
<1>1. CASE mode = "running" /\ ~ marked[m]
  BY <1>1, HandOverKeeps
<1>2. CASE mode # "running" \/ marked[m]
  <2>1. /\ UNCHANGED <<mode, queues, worker, database, history, listed, ticks>>
        /\ UNCHANGED <<troubles>>
    BY <1>2 DEF SnapshotWorkerTick, HandleStorageSnapshoted
  <2>2. \/ storage' = storage
        \/ storage' = [storage EXCEPT ![m] = 0]
    BY DEF SnapshotWorkerTick
  <2>3. /\ \A k \in Markets : storage'[k] = storage[k] \/ storage'[k] = 0
        /\ storage' \in [Markets -> 0 .. MaxTicks]
    <3>1. storage \in [Markets -> 0 .. MaxTicks] /\ 0 \in 0 .. MaxTicks
      BY BoundsNatural DEF IInv, TypeOK
    <3>2. storage' \in [Markets -> 0 .. MaxTicks]
      BY <2>2, <3>1
    <3> QED
      BY <2>2, <3>1, <3>2
  <2>4. marked' \in [Markets -> BOOLEAN] /\ deleting' \in [Markets -> Nat]
    <3>1. marked \in [Markets -> BOOLEAN] /\ deleting \in [Markets -> Nat]
      BY DEF IInv, TypeOK
    <3>2. CASE m \in listed
      <4>1. marked' = [marked EXCEPT ![m] = TRUE] /\ deleting' = deleting
        BY <3>2 DEF SnapshotWorkerTick
      <4> QED
        BY <3>1, <4>1
    <3>3. CASE m \notin listed
      <4>1. /\ marked' = [marked EXCEPT ![m] = FALSE]
            /\ deleting' = [deleting EXCEPT ![m] = @ + 1]
        BY <3>3 DEF SnapshotWorkerTick
      <4> QED
        BY <3>1, <4>1
    <3> QED
      BY <3>2, <3>3
  <2>5. Chronological'
    <3>1. UNCHANGED <<active, calls, rows, ticks>>
      BY <2>1 DEF queues, worker, database
    <3>2. \A k \in Markets : ticks[k] \in 0 .. MaxTicks /\ MaxTicks \in Nat
      BY BoundsNatural DEF IInv, TypeOK
    <3> QED
      BY <2>3, <3>1, <3>2 DEF IInv, Chronological
  <2>6. /\ ticks' \in [Markets -> 0 .. MaxTicks]
        /\ listed' \subseteq Markets
        /\ troubles' \in Nat
    BY <2>1 DEF IInv, TypeOK
  <2> QED
    BY <2>1, <2>3, <2>4, <2>5, <2>6, AggregationKeeps
<1> QED
  BY <1>1, <1>2

-----------------------------------------------------------------------------
(* The answers of the database.                                            *)

\* The database deletes a row.
LEMMA ExecuteDeleteKeeps ==
  ASSUME NEW m \in Markets PROVE IInv /\ ExecuteDelete(m) => IInv'
<1> SUFFICES ASSUME IInv, ExecuteDelete(m) PROVE IInv'
  OBVIOUS
<1>1. /\ UNCHANGED <<mode, active, archive, clock, places, timer, calls, backoff,
                     archived, storage, marked, listed, ticks, handedArchive,
                     troubles>>
      /\ deleting[m] > 0
      /\ deleting' = [deleting EXCEPT ![m] = @ - 1]
      /\ rows' = [rows EXCEPT ![m] = 0]
      /\ handed' = [handed EXCEPT ![m] = 0]
  BY DEF ExecuteDelete, queues, worker, aggregation
<1>2. /\ {rows, storage, ticks, handed} \subseteq [Markets -> 0 .. MaxTicks]
      /\ deleting \in [Markets -> Nat] /\ MaxTicks \in Nat
  BY BoundsNatural DEF IInv, TypeOK
<1>3. /\ rows'[m] = 0 /\ handed'[m] = 0
      /\ \A k \in Markets : k # m => rows'[k] = rows[k] /\ handed'[k] = handed[k]
      /\ rows' \in [Markets -> 0 .. MaxTicks] /\ handed' \in [Markets -> 0 .. MaxTicks]
      /\ deleting' \in [Markets -> Nat]
  BY <1>1, <1>2
<1>4. TypeOK'
  <2>1. {rows', storage', ticks', handed'} \subseteq [Markets -> 0 .. MaxTicks]
    BY <1>1, <1>2, <1>3
  <2> QED
    BY <1>1, <1>3, <2>1 DEF IInv, TypeOK
<1>5. OneBatchAtATime' /\ WorkIsScheduled' /\ EndIsEmpty'
  BY <1>1 DEF IInv, OneBatchAtATime, WorkIsScheduled, EndIsEmpty, HasPendingWork,
              PendingActive
<1>6. CallsUnderWay'
  <2>1. ASSUME NEW call \in calls, call.batch.type = "active"
        PROVE  ActiveUnderWay(call)'
    <3>1. ActiveUnderWay(call) /\ DOMAIN call.batch.items \subseteq Markets
      BY <2>1 DEF IInv, CallsUnderWay, TypeOK, IsCall, IsBatch
    <3> QED
      BY <1>1, <1>3, <3>1 DEF ActiveUnderWay
  <2>2. ASSUME NEW call \in calls, call.batch.type = "archive"
        PROVE  ArchiveUnderWay(call)'
    BY <1>1, <2>2 DEF IInv, CallsUnderWay, ArchiveUnderWay
  <2> QED
    BY <1>1, <2>1, <2>2 DEF CallsUnderWay
<1>7. PendingIsNewest' /\ NewestKept' /\ ArchiveKept'
  BY <1>1, <1>3 DEF IInv, PendingIsNewest, NewestKept, ArchiveKept
<1>8. Chronological'
  <2>1. ASSUME NEW k \in Markets
        PROVE  /\ rows'[k] <= ticks[k] /\ storage[k] <= ticks[k]
               /\ storage[k] # 0 => rows'[k] <= storage[k]
               /\ active[k] # None =>
                    /\ rows'[k] <= active[k].snapshot
                    /\ active[k].snapshot <= ticks[k]
                    /\ storage[k] # 0 => active[k].snapshot <= storage[k]
    <3>1. CASE k # m
      BY <1>3, <3>1 DEF IInv, Chronological
    <3>2. CASE k = m
      <4>1. active[k] # None => active[k].snapshot \in 1 .. MaxTicks
        BY DEF IInv, TypeOK, Entries, Snapshots
      <4> QED
        BY <1>2, <1>3, <3>2, <4>1 DEF IInv, Chronological
    <3> QED
      BY <3>1, <3>2
  <2>2. ASSUME NEW call \in calls, call.batch.type = "active",
               NEW k \in DOMAIN call.batch.items
        PROVE  /\ rows'[k] <= call.batch.items[k].snapshot
               /\ call.batch.items[k].snapshot <= active[k].snapshot
    <3>1. IsBatch(call.batch)
      BY <2>2 DEF IInv, TypeOK, IsCall
    <3>2. k \in Markets /\ call.batch.items[k].snapshot \in 1 .. MaxTicks
      BY <2>2, <3>1 DEF IsBatch, Snapshots
    <3> QED
      BY <1>2, <1>3, <2>2, <3>2 DEF IInv, Chronological
  <2> QED
    BY <1>1, <2>1, <2>2 DEF Chronological
<1> QED
  BY <1>4, <1>5, <1>6, <1>7, <1>8 DEF IInv

\* The database executes a batch.
LEMMA ExecuteQueryKeeps ==
  ASSUME NEW call \in calls PROVE IInv /\ ExecuteQuery(call) => IInv'
<1> SUFFICES ASSUME IInv, ExecuteQuery(call) PROVE IInv'
  OBVIOUS
<1> DEFINE done == [batch |-> call.batch, executed |-> TRUE]
<1>0. TypeOK /\ IsCall(call) /\ IsBatch(call.batch)
  BY DEF IInv, TypeOK, IsCall
<1>1. /\ UNCHANGED <<mode, active, archive, clock, places, timer, backoff,
                     deleting, storage, marked, listed, ticks, handed,
                     handedArchive, troubles>>
      /\ calls' = (calls \ {call}) \cup {done}
  BY DEF ExecuteQuery, queues, aggregation, history
<1>2. done.batch = call.batch /\ done.executed = TRUE /\ IsCall(done)
  BY <1>0 DEF IsCall
<1> HIDE DEF done
<1>3. calls = {call} /\ calls' = {done}
  BY <1>1 DEF IInv, OneBatchAtATime
<1>4. OneBatchAtATime' /\ WorkIsScheduled' /\ EndIsEmpty'
  BY <1>1, <1>3 DEF IInv, OneBatchAtATime, WorkIsScheduled, EndIsEmpty
<1>5. CASE call.batch.type = "active"
  <2> DEFINE items == call.batch.items
  <2>1. /\ rows' = [m \in Markets |-> IF m \in DOMAIN items
                                       THEN items[m].snapshot ELSE rows[m]]
        /\ archived' = archived
    BY <1>5 DEF ExecuteQuery
  <2>2. /\ DOMAIN items \subseteq Markets
        /\ \A m \in DOMAIN items : items[m].snapshot \in Snapshots /\ items[m].version \in Nat
    BY <1>0, <1>5 DEF IsBatch
  <2>3. \A m \in DOMAIN items :
          /\ active[m] # None
          /\ items[m].version <= active[m].version
          /\ items[m].version = active[m].version => items[m].snapshot = active[m].snapshot
          /\ rows[m] <= items[m].snapshot
          /\ items[m].snapshot <= active[m].snapshot
    BY <1>5 DEF IInv, CallsUnderWay, ActiveUnderWay, Chronological
  <2>4. \A m \in DOMAIN items : rows'[m] = items[m].snapshot
    BY <2>1, <2>2
  <2>5. \A m \in Markets : m \notin DOMAIN items => rows'[m] = rows[m]
    BY <2>1
  <2>6. done.batch.items = items /\ done.batch.type = "active"
    BY <1>2, <1>5
  <2>7. rows' \in [Markets -> 0 .. MaxTicks]
    <3>1. rows \in [Markets -> 0 .. MaxTicks]
      BY <1>0 DEF TypeOK
    <3> QED
      BY <2>1, <2>2, <3>1, BoundsNatural DEF Snapshots
  <2> HIDE DEF items
  <2>8. TypeOK'
    <3>1. {rows', storage', ticks', handed'} \subseteq [Markets -> 0 .. MaxTicks]
      BY <1>0, <1>1, <2>7 DEF TypeOK
    <3> QED
      BY <1>0, <1>1, <1>2, <1>3, <2>1, <3>1 DEF TypeOK
  <2>9. CallsUnderWay'
    BY <1>1, <1>3, <2>3, <2>4, <2>6 DEF CallsUnderWay, ActiveUnderWay
  <2>10. PendingIsNewest' /\ ArchiveKept'
    BY <1>1, <2>1 DEF IInv, PendingIsNewest, ArchiveKept
  <2>11. NewestKept'
    <3> SUFFICES ASSUME NEW m \in Markets, handed[m] # 0
                 PROVE  \/ rows'[m] = handed[m]
                        \/ active[m] # None /\ active[m].snapshot = handed[m]
      BY <1>1 DEF NewestKept
    <3>1. CASE m \in DOMAIN items
      BY <2>3, <3>1 DEF IInv, PendingIsNewest
    <3>2. CASE m \notin DOMAIN items
      BY <2>5, <3>2 DEF IInv, NewestKept
    <3> QED
      BY <3>1, <3>2
  <2>12. Chronological'
    <3>1. ASSUME NEW m \in Markets
          PROVE  /\ rows'[m] <= ticks[m] /\ storage[m] <= ticks[m]
                 /\ storage[m] # 0 => rows'[m] <= storage[m]
                 /\ active[m] # None =>
                      /\ rows'[m] <= active[m].snapshot
                      /\ active[m].snapshot <= ticks[m]
                      /\ storage[m] # 0 => active[m].snapshot <= storage[m]
      <4>1. CASE m \notin DOMAIN items
        BY <2>5, <4>1 DEF IInv, Chronological
      <4>2. CASE m \in DOMAIN items
        <5>1. /\ active[m] # None /\ rows'[m] = items[m].snapshot
              /\ items[m].snapshot <= active[m].snapshot
          BY <2>3, <2>4, <4>2
        <5>2. /\ items[m].snapshot \in Int /\ active[m].snapshot \in Int
              /\ ticks[m] \in Int /\ storage[m] \in Int
          BY <1>0, <2>2, <4>2, <5>1 DEF TypeOK, Entries, Snapshots
        <5> QED
          BY <5>1, <5>2 DEF IInv, Chronological
      <4> QED
        BY <4>1, <4>2
    <3>2. \A m \in DOMAIN items : /\ rows'[m] <= items[m].snapshot
                                  /\ items[m].snapshot <= active[m].snapshot
      BY <2>2, <2>3, <2>4 DEF Snapshots
    <3> QED
      BY <1>1, <1>3, <2>6, <3>1, <3>2 DEF Chronological
  <2> QED
    BY <1>4, <2>8, <2>9, <2>10, <2>11, <2>12 DEF IInv
<1>6. CASE call.batch.type = "archive"
  <2> DEFINE items == call.batch.items
  <2>1. /\ rows' = rows
        /\ archived' = archived \cup {<<items[i].market, items[i].snapshot>> :
                                        i \in DOMAIN items}
    BY <1>6 DEF ExecuteQuery
  <2>2. /\ items \in Seq(ArchiveItems)
        /\ DOMAIN items = 1 .. Len(items)
        /\ \A i \in DOMAIN items : items[i] \in ArchiveItems
    BY <1>0, <1>6 DEF IsBatch
  <2>3. /\ Len(items) <= Len(archive)
        /\ \A i \in 1 .. Len(items) : items[i] = archive[i]
    BY <1>6 DEF IInv, CallsUnderWay, ArchiveUnderWay
  <2>4. done.batch.items = items /\ done.batch.type = "archive"
    BY <1>2, <1>6
  <2> HIDE DEF items
  <2>5. archived \subseteq archived' /\ archived' \cup handedArchive \subseteq Markets \X Snapshots
    BY <1>0, <2>1, <2>2 DEF TypeOK, ArchiveItems
  <2>6. TypeOK'
    BY <1>0, <1>1, <1>2, <1>3, <2>1, <2>5 DEF TypeOK
  <2>7. CallsUnderWay'
    <3>1. \A i \in 1 .. Len(items) : <<archive[i].market, archive[i].snapshot>> \in archived'
      BY <2>1, <2>2, <2>3
    <3> QED
      BY <1>1, <1>3, <2>3, <2>4, <3>1 DEF CallsUnderWay, ArchiveUnderWay
  <2>8. PendingIsNewest' /\ NewestKept'
    BY <1>1, <2>1 DEF IInv, PendingIsNewest, NewestKept
  <2>9. ArchiveKept'
    BY <1>1, <2>5 DEF IInv, ArchiveKept
  <2>10. Chronological'
    BY <1>1, <1>3, <2>1, <2>4 DEF IInv, Chronological
  <2> QED
    BY <1>4, <2>6, <2>7, <2>8, <2>9, <2>10 DEF IInv
<1> QED
  BY <1>0, <1>5, <1>6 DEF IsBatch

\* A batch that fails stays in its queue.
LEMMA BatchFailsKeeps ==
  ASSUME NEW call \in calls PROVE IInv /\ BatchFails(call) => IInv'
<1> SUFFICES ASSUME IInv, BatchFails(call) PROVE IInv'
  OBVIOUS
<1>1. /\ UNCHANGED <<mode, active, archive, clock, places, deleting, rows,
                     archived, storage, marked, listed, ticks, handed,
                     handedArchive>>
      /\ calls' = calls \ {call}
      /\ troubles' = troubles + 1
      /\ backoff' = TRUE
      /\ timer' = (timer \/ (mode = "running" /\ calls' = {} /\ HasPendingWork'))
  BY DEF BatchFails, ScheduleWorker, queues, database, aggregation, history
<1>2. calls' = {}
  BY <1>1 DEF IInv, OneBatchAtATime
<1>3. TypeOK'
  <2>1. {timer', backoff'} \subseteq BOOLEAN
    BY <1>1 DEF IInv, TypeOK
  <2>2. {clock', places', troubles'} \subseteq Nat
    BY <1>1 DEF IInv, TypeOK
  <2>3. TypeOK
    BY DEF IInv
  <2> QED
    BY <1>1, <1>2, <2>1, <2>2, <2>3 DEF TypeOK
<1>4. OneBatchAtATime' /\ CallsUnderWay' /\ WorkIsScheduled'
  BY <1>1, <1>2 DEF OneBatchAtATime, CallsUnderWay, WorkIsScheduled
<1>5. EndIsEmpty'
  BY <1>1, <1>2 DEF IInv, EndIsEmpty, HasPendingWork, PendingActive
<1>6. PendingIsNewest' /\ NewestKept' /\ ArchiveKept' /\ Chronological'
  BY <1>1, <1>2 DEF IInv, PendingIsNewest, NewestKept, ArchiveKept, Chronological
<1> QED
  BY <1>3, <1>4, <1>5, <1>6 DEF IInv

\* A batch that succeeds leaves the queue.
LEMMA BatchSucceedsKeeps ==
  ASSUME NEW call \in calls PROVE IInv /\ BatchSucceeds(call) => IInv'
<1> SUFFICES ASSUME IInv, BatchSucceeds(call) PROVE IInv'
  OBVIOUS
<1> DEFINE items == call.batch.items
<1>0. TypeOK /\ IsBatch(call.batch)
  BY DEF IInv, TypeOK, IsCall
<1>1. /\ UNCHANGED <<mode, clock, places, deleting, rows, archived, storage,
                     marked, listed, ticks, handed, handedArchive, troubles>>
      /\ call.executed
      /\ DropWritten(call.batch)
      /\ calls' = calls \ {call}
      /\ backoff' = FALSE
      /\ timer' = (timer \/ (mode = "running" /\ calls' = {} /\ HasPendingWork'))
  BY DEF BatchSucceeds, ScheduleWorker, database, aggregation, history
<1>2. calls' = {}
  BY <1>1 DEF IInv, OneBatchAtATime
<1>3. mode \notin {"stopped", "down"}
  BY DEF IInv, EndIsEmpty
<1>4. OneBatchAtATime' /\ CallsUnderWay' /\ WorkIsScheduled' /\ EndIsEmpty'
  BY <1>1, <1>2, <1>3 DEF OneBatchAtATime, CallsUnderWay, WorkIsScheduled, EndIsEmpty
<1>5. {timer', backoff'} \subseteq BOOLEAN
  BY <1>0, <1>1 DEF TypeOK
<1>6. CASE call.batch.type = "active"
  <2>1. /\ active' = [m \in Markets |->
                       IF /\ m \in DOMAIN items
                          /\ active[m] # None
                          /\ active[m].version = items[m].version
                         THEN None ELSE active[m]]
        /\ archive' = archive
    BY <1>1, <1>6 DEF DropWritten
  <2>2. ActiveUnderWay(call)
    BY <1>6 DEF IInv, CallsUnderWay
  <2>3. ASSUME NEW m \in Markets
        PROVE  \/ active'[m] = active[m]
               \/ /\ active'[m] = None
                  /\ handed[m] # 0 => rows[m] = active[m].snapshot
    BY <1>1, <2>1, <2>2 DEF ActiveUnderWay
  <2>4. active' \in [Markets -> Entries \cup {None}]
    BY <1>0, <2>1 DEF TypeOK
  <2> HIDE DEF items
  <2>5. TypeOK'
    BY <1>0, <1>1, <1>2, <1>5, <2>1, <2>4 DEF TypeOK
  <2>6. PendingIsNewest' /\ NewestKept'
    BY <1>1, <2>3 DEF IInv, PendingIsNewest, NewestKept
  <2>7. ArchiveKept'
    BY <1>1, <2>1 DEF IInv, ArchiveKept
  <2>8. Chronological'
    BY <1>1, <1>2, <2>3 DEF IInv, Chronological
  <2> QED
    BY <1>4, <2>5, <2>6, <2>7, <2>8 DEF IInv
<1>7. CASE call.batch.type = "archive"
  <2>1. /\ archive' = SubSeq(archive, Len(items) + 1, Len(archive))
        /\ active' = active
    BY <1>1, <1>7 DEF DropWritten
  <2>2. /\ items \in Seq(ArchiveItems) /\ Len(items) \in Nat
        /\ archive \in Seq(ArchiveItems) /\ Len(archive) \in Nat
    BY <1>0, <1>7, LenProperties DEF IsBatch, TypeOK
  <2>3. /\ Len(items) <= Len(archive)
        /\ \A i \in 1 .. Len(items) :
             <<archive[i].market, archive[i].snapshot>> \in archived
    BY <1>1, <1>7 DEF IInv, CallsUnderWay, ArchiveUnderWay
  <2> HIDE DEF items
  <2>4. /\ archive' \in Seq(ArchiveItems)
        /\ Len(archive') = Len(archive) - Len(items)
        /\ \A i \in 1 .. Len(archive) - Len(items) :
             archive'[i] = archive[i + Len(items)]
    BY <2>1, <2>2, <2>3
  <2>5. TypeOK'
    BY <1>0, <1>1, <1>2, <1>5, <2>1, <2>4 DEF TypeOK
  <2>6. PendingIsNewest' /\ NewestKept'
    BY <1>1, <2>1 DEF IInv, PendingIsNewest, NewestKept
  <2>7. ArchiveKept'
    <3>1. /\ DOMAIN archive = 1 .. Len(archive)
          /\ DOMAIN archive' = 1 .. Len(archive) - Len(items)
      BY <2>2, <2>4
    <3>2. ASSUME NEW pair \in handedArchive
          PROVE  \/ pair \in archived
                 \/ \E i \in DOMAIN archive' :
                      <<archive'[i].market, archive'[i].snapshot>> = pair
      <4>1. CASE pair \in archived
        BY <4>1
      <4>2. CASE \E i \in DOMAIN archive : <<archive[i].market, archive[i].snapshot>> = pair
        <5>1. PICK i \in 1 .. Len(archive) :
                <<archive[i].market, archive[i].snapshot>> = pair
          BY <4>2, <3>1
        <5>2. CASE i <= Len(items)
          BY <2>3, <5>1, <5>2
        <5>3. CASE i > Len(items)
          <6>1. i - Len(items) \in 1 .. Len(archive) - Len(items)
            BY <2>2, <5>3
          <6>2. archive'[i - Len(items)] = archive[i]
            BY <2>2, <2>4, <6>1
          <6> QED
            BY <3>1, <5>1, <6>1, <6>2
        <5> QED
          BY <2>2, <5>2, <5>3
      <4> QED
        BY <4>1, <4>2 DEF IInv, ArchiveKept
    <3> QED
      BY <1>1, <3>2 DEF ArchiveKept
  <2>8. Chronological'
    BY <1>1, <1>2, <2>1 DEF IInv, Chronological
  <2> QED
    BY <1>4, <2>5, <2>6, <2>7, <2>8 DEF IInv
<1> QED
  BY <1>0, <1>6, <1>7 DEF IsBatch

-----------------------------------------------------------------------------

\* Every step keeps the invariant.
LEMMA NextKeeps == IInv /\ [Next]_vars => IInv'
<1> SUFFICES ASSUME IInv, [Next]_vars PROVE IInv'
  OBVIOUS
<1>1. CASE TimerFires
  BY <1>1, TimerFiresKeeps
<1>2. CASE RetryComesDue
  BY <1>2, RetryComesDueKeeps
<1>3. CASE Answers
  BY <1>3, ExecuteQueryKeeps, BatchSucceedsKeeps, BatchFailsKeeps DEF Answers
<1>4. CASE Stop
  BY <1>4, StopKeeps
<1>5. CASE StopLoop
  BY <1>5, StopLoopKeeps
<1>6. CASE End
  BY <1>6, EndKeeps
<1>7. CASE Restart
  BY <1>7, RestartKeeps
<1>8. CASE \E m \in Markets : \/ Tick(m) \/ Refresh(m) \/ SnapshotWorkerTick(m)
                              \/ ExecuteDelete(m) \/ DeleteFails(m)
  BY <1>8, TickKeeps, RefreshKeeps, SnapshotWorkerTickKeeps, ExecuteDeleteKeeps,
     DeleteFailsKeeps
<1>9. CASE UNCHANGED vars
  <2>1. /\ UNCHANGED <<mode, queues, worker, deleting, database, listed, history>>
        /\ UNCHANGED <<storage, ticks, marked, troubles>>
    BY <1>9 DEF vars, aggregation
  <2>2. Chronological'
    BY <2>1 DEF IInv, Chronological, queues, worker, database
  <2>3. /\ storage' \in [Markets -> 0 .. MaxTicks]
        /\ ticks' \in [Markets -> 0 .. MaxTicks]
        /\ marked' \in [Markets -> BOOLEAN]
        /\ deleting' \in [Markets -> Nat]
        /\ listed' \subseteq Markets
        /\ troubles' \in Nat
    BY <2>1 DEF IInv, TypeOK
  <2> QED
    BY <2>1, <2>2, <2>3, AggregationKeeps
<1> QED
  BY <1>1, <1>2, <1>3, <1>4, <1>5, <1>6, <1>7, <1>8, <1>9 DEF Next

\* The invariant holds in every state the service reaches.
LEMMA InvariantOfSpec == Spec => []IInv
BY InitInv, NextKeeps, PTL DEF Spec

\* The snapshot a market handed over last is in the queue or in storage_alive,
\* however failures, retries and replacements mix (queueActiveSnapshot,
\* handleBatchSuccess, handleBatchFailure).
THEOREM NewestIsKept == Spec => []NewestKept
<1>1. IInv => NewestKept
  BY DEF IInv
<1> QED
  BY <1>1, InvariantOfSpec, PTL

\* No archive snapshot is lost between the queue and the database
\* (getNextBatch, handleBatchSuccess, handleBatchFailure).
THEOREM ArchiveIsKept == Spec => []ArchiveKept
<1>1. IInv => ArchiveKept
  BY DEF IInv
<1> QED
  BY <1>1, InvariantOfSpec, PTL

\* However timer, batches, retries and stop() interleave, one batch is under way
\* at most, pending work has a timer or a batch, and stop() leaves none behind
\* (scheduleWorker, workerTick, stop).
THEOREM WorkIsInOrder == Spec => []WorkInOrder
<1>1. IInv => WorkInOrder
  BY DEF IInv, StopComplete, EndIsEmpty, WorkInOrder
<1> QED
  BY <1>1, InvariantOfSpec, PTL

\* What a step does to a row.
LEMMA NextRows ==
  ASSUME IInv, [Next]_vars, NEW m \in Markets, rows'[m] # 0
  PROVE  rows'[m] >= rows[m]
<1>1. rows \in [Markets -> 0 .. MaxTicks] /\ MaxTicks \in Nat
  BY BoundsNatural DEF IInv, TypeOK
<1>2. CASE UNCHANGED rows
  BY <1>1, <1>2
<1>3. ASSUME NEW call \in calls, ExecuteQuery(call)
      PROVE  rows'[m] >= rows[m]
  <2>1. CASE call.batch.type = "active"
    <3>1. rows' = [k \in Markets |-> IF k \in DOMAIN call.batch.items
                                       THEN call.batch.items[k].snapshot ELSE rows[k]]
      BY <1>3, <2>1 DEF ExecuteQuery
    <3>2. CASE m \in DOMAIN call.batch.items
      <4>1. rows'[m] = call.batch.items[m].snapshot
        BY <3>1, <3>2
      <4>2. rows[m] <= call.batch.items[m].snapshot
        BY <1>3, <2>1, <3>2 DEF IInv, Chronological
      <4>3. IsBatch(call.batch)
        BY <1>3 DEF IInv, TypeOK, IsCall
      <4>4. call.batch.items[m].snapshot \in 1 .. MaxTicks
        BY <2>1, <3>2, <4>3 DEF IsBatch, Snapshots
      <4> QED
        BY <1>1, <4>1, <4>2, <4>4
    <3>3. CASE m \notin DOMAIN call.batch.items
      BY <1>1, <3>1, <3>3
    <3> QED
      BY <3>2, <3>3
  <2>2. CASE call.batch.type # "active"
    BY <1>2, <1>3, <2>2 DEF ExecuteQuery
  <2> QED
    BY <2>1, <2>2
<1>4. ASSUME NEW k \in Markets, ExecuteDelete(k)
      PROVE  rows'[m] >= rows[m]
  <2>1. rows' = [rows EXCEPT ![k] = 0]
    BY <1>4 DEF ExecuteDelete
  <2> QED
    BY <1>1, <2>1
<1>5. CASE \/ TimerFires \/ RetryComesDue \/ Stop \/ StopLoop \/ End \/ Restart
           \/ UNCHANGED vars
           \/ \E call \in calls : BatchSucceeds(call) \/ BatchFails(call)
           \/ \E k \in Markets : \/ Tick(k) \/ Refresh(k) \/ SnapshotWorkerTick(k)
                                 \/ DeleteFails(k)
  <2>1. UNCHANGED rows
    BY <1>5 DEF TimerFires, RetryComesDue, Stop, StopLoop, End, Restart, vars,
                BatchSucceeds, BatchFails, Tick, Refresh, SnapshotWorkerTick,
                DeleteFails, ProcessEnds, database
  <2> QED
    BY <1>2, <2>1
<1> QED
  BY <1>3, <1>4, <1>5 DEF Next, Answers

\* No row of storage_alive is replaced by an older snapshot: retries, stop()
\* and markets that come back included.
THEOREM RowsNeverOlder == Spec => RowsOnlyGrow
<1>1. IInv /\ [Next]_vars =>
        [\A m \in Markets : rows'[m] # 0 => rows'[m] >= rows[m]]_vars
  BY NextRows
<1> QED
  BY <1>1, InvariantOfSpec, PTL DEF Spec, RowsOnlyGrow
=============================================================================
