-------------------------- MODULE StorageAggregation --------------------------
(***************************************************************************)
(* src/app/src/server/services/storage-aggregation.ts around processTick,  *)
(* for one market: ticks come while a tick is being processed and wait in  *)
(* a buffer, clients ask for the whole storage, a worker takes snapshots   *)
(* and removes the storages of markets that are gone, a debug timer reads. *)
(* What processTick does to a storage is the subject of TickAggregation;   *)
(* here a storage is the sequence of the times of the ticks it has taken.  *)
(*                                                                         *)
(* The service keeps everything in maps by market and never relates two    *)
(* markets, so one market is enough.  A step is the code up to the next    *)
(* await or to the end of a callback.                                      *)
(***************************************************************************)
EXTENDS Freezing, Sequences, SequencesExt

CONSTANTS
  MaxTime,       \* bound on the clock
  MaxTicks,      \* bound on the ticks received
  MaxRequests,   \* bound on the full sync requests
  MaxRefreshes   \* bound on the changes of the market list

ASSUME BoundsAssumption ==
  /\ {MaxTime, MaxTicks, MaxRequests, MaxRefreshes} \subseteq Nat
  /\ MaxTime # 0

VARIABLES
  market,      \* what the service keeps about the market, see Init
  alive,       \* globalStateService.hasMarket
  pending,     \* full sync requests that wait, with the storage they captured
  requests,    \* number of full sync requests
  refreshes,   \* number of changes of the market list
  client,      \* a subscribed client: the storage it was sent and its ticks
  refused,     \* the client has thrown on a delta
  now,         \* Date.now() when the last tick was received
  received     \* history: the times of the ticks received

environment == <<alive, requests, refreshes, now, received>>
vars == <<market, pending, client, refused, environment>>

-----------------------------------------------------------------------------

\* A Storage: the ticks in it, isPersistenceSnapshotBeenTaken, and as history
\* the ticks it had when persistence was last handed a snapshot of it.
StorageWith(ticks) == [ticks |-> ticks, persistedMark |-> FALSE, persisted |-> <<>>]

\* storages has every Storage there ever was and current says which of them is
\* in storagesByMarket, 0 for none.  processing has the calls of processTick
\* whose promise is not settled.
Market(storages, freezing, scheduled) ==
  [ storages   |-> storages,
    current    |-> Len(storages),
    freezing   |-> freezing,
    buffer     |-> <<>>,
    processing |-> <<>>,
    scheduled  |-> scheduled,
    thrown     |-> FALSE ]

\* prepareStoragesFromDatabase has run: a market has the storage restored from
\* its snapshot, or an empty one if it is in the list of markets, or none.
Init ==
  /\ \/ /\ market = Market(<<StorageWith(<<1>>)>>, AtRest, TRUE)
        /\ alive \in BOOLEAN
        /\ received = <<1>>
     \/ /\ market = Market(<<StorageWith(<<>>)>>, Null, FALSE)
        /\ alive = TRUE
        /\ received = <<>>
     \/ /\ market = Market(<<>>, Null, FALSE)
        /\ alive = FALSE
        /\ received = <<>>
  /\ pending = {}
  /\ requests = 0
  /\ refreshes = 0
  /\ client = Null
  /\ refused = FALSE
  /\ now = 1

-----------------------------------------------------------------------------
(* Parts of steps: a market before to a market after.                      *)

GetOrCreateStorage(m) ==
  IF m.current # 0
    THEN m
    ELSE [m EXCEPT !.storages = Append(@, StorageWith(<<>>)),
                   !.current = Len(m.storages) + 1]

Content(m) == m.storages[m.current].ticks

\* Faulty variant: the added tick leaves the mark of the last snapshot.
BeginTickKeepingMark(m, tick) ==
  LET created   == GetOrCreateStorage(m)
      duplicate == Content(created) # <<>> /\ Last(Content(created)) = tick
      taken     == IF duplicate THEN created
                   ELSE [created EXCEPT
                           !.storages[created.current].ticks = Append(@, tick)]
  IN  [taken EXCEPT
         !.freezing = CoolAndIce(@),
         !.processing = Append(@, [ storage |-> taken.current,
                                    size    |-> Len(Content(taken)),
                                    settled |-> duplicate ])]

\* coolAndIce, and processTick up to the await of the recalculation, or to its
\* end if the tick has the time of the newest item.
BeginTick(m, tick) ==
  LET created   == GetOrCreateStorage(m)
      duplicate == Content(created) # <<>> /\ Last(Content(created)) = tick
      taken     == IF duplicate THEN created
                   ELSE [created EXCEPT
                           !.storages[created.current].ticks = Append(@, tick),
                           !.storages[created.current].persistedMark = FALSE]
  IN  [taken EXCEPT
         !.freezing = CoolAndIce(@),
         !.processing = Append(@, [ storage |-> taken.current,
                                    size    |-> Len(Content(taken)),
                                    settled |-> duplicate ])]

\* Faulty variant: the newest tick leaves the buffer first.
FlushNewest(m) ==
  IF IsCold(m.freezing) \/ m.buffer = <<>>
    THEN m
    ELSE BeginTick([m EXCEPT !.buffer = Front(@)], Last(m.buffer))

\* flushTickBuffer, the callback of Freezing.
FlushTickBuffer(m) ==
  IF IsCold(m.freezing) \/ m.buffer = <<>>
    THEN m
    ELSE BeginTick([m EXCEPT !.buffer = Tail(@)], Head(m.buffer))

Cooled(m) == [m EXCEPT !.freezing = Cool(@)]

\* warm with its callback.
Warmed(m) ==
  IF CannotWarm(m.freezing) \/ WarmsThroughIce(m.freezing)
    THEN [m EXCEPT !.thrown = TRUE]
    ELSE FlushTickBuffer([m EXCEPT !.freezing = Warm(@)])

\* warmAndMeltIce with its callback.
Melted(m) ==
  IF CannotWarm(m.freezing)
    THEN [m EXCEPT !.thrown = TRUE]
    ELSE FlushTickBuffer([m EXCEPT !.freezing = WarmAndMeltIce(@)])

-----------------------------------------------------------------------------
(* Ticks.                                                                  *)

\* The feed subscribes to the markets of the list, and ticks may still be on
\* their way when the list has changed.
FeedKnowsMarket == alive \/ refreshes > 0

\* handleTickReceived.
ReceiveTick(gap) ==
  /\ FeedKnowsMarket
  /\ now + gap <= MaxTime
  /\ Len(received) < MaxTicks
  /\ now' = now + gap
  /\ received' = Append(received, now')
  /\ market' = IF IsCold(market.freezing) \/ market.buffer # <<>>
                 THEN [market EXCEPT !.buffer = Append(@, now')]
                 ELSE BeginTick(market, now')
  /\ UNCHANGED <<alive, pending, requests, refreshes, client, refused>>

\* The client of the market gets the delta from the first count - 1 ticks of a
\* storage to the first count; it throws unless it has what the delta starts
\* from.  The code compares size, first and last time: as time does not run
\* back, storages of one market that agree in these have the same ticks.
SendDelta(ticks, count) ==
  IF client = Null
    THEN UNCHANGED <<client, refused>>
    ELSE IF client.ticks = SubSeq(ticks, 1, count - 1)
           THEN /\ client' = [client EXCEPT !.ticks = SubSeq(ticks, 1, count)]
                /\ UNCHANGED refused
           ELSE /\ refused' = TRUE
                /\ UNCHANGED client

\* Faulty variant: no snapshot is scheduled.
FinishTickUnscheduled(i) ==
  LET call  == market.processing[i]
      ticks == market.storages[call.storage].ticks
  IN  /\ ~ call.settled
      /\ Len(ticks) = call.size
      /\ market' = [market EXCEPT !.processing[i].settled = TRUE]
      /\ SendDelta(ticks, call.size)
      /\ UNCHANGED <<pending, environment>>

\* processTick from the recalculation to its end.  It throws if the storage
\* has changed in the meantime.
FinishTick(i) ==
  LET call  == market.processing[i]
      ticks == market.storages[call.storage].ticks
  IN  /\ ~ call.settled
      /\ IF Len(ticks) = call.size
           THEN /\ market' = [market EXCEPT !.processing[i].settled = TRUE,
                                            !.scheduled = TRUE]
                /\ SendDelta(ticks, call.size)
           ELSE /\ market' = [market EXCEPT !.thrown = TRUE]
                /\ UNCHANGED <<client, refused>>
      /\ UNCHANGED <<pending, environment>>

\* The promise of processTick is settled: its finally melts the ice, and the
\* next buffered tick begins.
Settle(i) ==
  /\ market.processing[i].settled
  /\ market' = Melted([market EXCEPT !.processing = RemoveAt(@, i)])
  /\ UNCHANGED <<pending, client, refused, environment>>

-----------------------------------------------------------------------------
(* Readers of the storage.                                                 *)

\* handleFullSyncRequest up to its await.
RequestFullSync ==
  /\ requests < MaxRequests
  /\ requests' = requests + 1
  /\ market' = GetOrCreateStorage(market)
  /\ pending' = pending \cup {[id |-> requests', storage |-> market'.current]}
  /\ UNCHANGED <<alive, refreshes, client, refused, now, received>>

\* Faulty variant: the snapshot is taken while a tick is being processed.
PollFullSyncAnytime(request) ==
  /\ market' = Warmed(Cooled(market))
  /\ client' = [ storage |-> request.storage,
                 ticks   |-> market.storages[request.storage].ticks ]
  /\ pending' = pending \ {request}
  /\ UNCHANGED <<refused, environment>>

\* A poll finds the market without ice.  The snapshot of the captured storage
\* goes to the client, which is subscribed to the market's deltas from now on.
PollFullSync(request) ==
  /\ ~ IsIcy(market.freezing)
  /\ market' = Warmed(Cooled(market))
  /\ client' = [ storage |-> request.storage,
                 ticks   |-> market.storages[request.storage].ticks ]
  /\ pending' = pending \ {request}
  /\ UNCHANGED <<refused, environment>>

\* getPersistenceSnapshot: what is in it depends on whether the market is
\* alive, that there is one does not.
PersistCurrent(m) ==
  LET storage == m.storages[m.current]
      saved   == [storage EXCEPT !.persistedMark = TRUE,
                                 !.persisted = storage.ticks]
  IN  IF storage.persistedMark \/ storage.ticks = <<>>
        THEN m
        ELSE [m EXCEPT !.storages = [@ EXCEPT ![m.current] = saved]]

RemoveMarketStorage(m) ==
  [m EXCEPT !.current = 0, !.buffer = <<>>, !.scheduled = FALSE]

\* snapshotWorkerTick when the market's snapshot is due.  A market without a
\* status is an error, an icy one has to wait for the next tick of the worker.
SnapshotWorkerTick ==
  /\ market.current # 0
  /\ market.scheduled
  /\ ~ IsIcy(market.freezing)
  /\ LET snapshoted == Warmed(PersistCurrent(Cooled(market)))
     IN  market' = IF market.freezing = Null
                     THEN [market EXCEPT !.thrown = TRUE]
                     ELSE IF alive THEN snapshoted
                     ELSE RemoveMarketStorage(snapshoted)
  /\ UNCHANGED <<pending, client, refused, environment>>

\* The debug timer reads the storage of a market that has items.
DebugDump ==
  /\ market.current # 0
  /\ Content(market) # <<>>
  /\ market' = Warmed(Cooled(market))
  /\ UNCHANGED <<pending, client, refused, environment>>

\* A refreshed list of markets has lost the market, or has it again.
RefreshMarkets ==
  /\ refreshes < MaxRefreshes
  /\ refreshes' = refreshes + 1
  /\ alive' = ~ alive
  /\ UNCHANGED <<market, pending, requests, client, refused, now, received>>

\* Nothing is claimed of what comes after an exception: most of these callbacks
\* would end the process with it.
Next ==
  /\ ~ market.thrown
  /\ \/ \E gap \in {0, 1} : ReceiveTick(gap)
     \/ \E i \in DOMAIN market.processing : FinishTick(i) \/ Settle(i)
     \/ RequestFullSync
     \/ \E request \in pending : PollFullSync(request)
     \/ SnapshotWorkerTick
     \/ DebugDump
     \/ RefreshMarkets

Spec == Init /\ [][Next]_vars

\* What the event loop brings about: promises settle, and the polls of full
\* syncs and the snapshot worker run on intervals.
Fairness ==
  /\ WF_vars(~ market.thrown /\ \E i \in DOMAIN market.processing :
               FinishTick(i) \/ Settle(i))
  /\ WF_vars(~ market.thrown /\ SnapshotWorkerTick)
  /\ \A id \in 1 .. MaxRequests :
       WF_vars(~ market.thrown /\
               \E request \in pending : request.id = id /\ PollFullSync(request))

FairSpec == Spec /\ Fairness

-----------------------------------------------------------------------------

\* Shapes of the variables.
TypeOK ==
  /\ \A i \in DOMAIN market.storages :
       /\ market.storages[i].ticks \in Seq(1 .. MaxTime)
       /\ market.storages[i].persistedMark \in BOOLEAN
       /\ market.storages[i].persisted \in Seq(1 .. MaxTime)
  /\ market.current \in 0 .. Len(market.storages)
  /\ market.freezing \in {Null} \cup [temperature : -1 .. 0, isFrozen : BOOLEAN]
  /\ market.buffer \in Seq(1 .. MaxTime)
  /\ \A i \in DOMAIN market.processing :
       market.processing[i].storage \in DOMAIN market.storages
  /\ pending \subseteq [id : 1 .. MaxRequests, storage : DOMAIN market.storages]
  /\ client = Null \/ client.storage \in DOMAIN market.storages
  /\ {market.scheduled, market.thrown, alive, refused} \subseteq BOOLEAN

\* Whatever nests with what, freezing never throws, no storage changes while
\* its entities are recalculated, and the snapshot worker never meets a market
\* that was not processed.
NeverThrows == ~ market.thrown

\* Ticks of a market are processed one after the other, and buffered ticks
\* always have a tick before them in process whose end will fetch them: nothing
\* else would.
OneTickAtATime ==
  /\ Len(market.processing) <= 1
  /\ market.buffer # <<>> => market.processing # <<>>

Increasing(s) == \A i, j \in DOMAIN s : i < j => s[i] < s[j]
NonDecreasing(s) == \A i, j \in DOMAIN s : i < j => s[i] <= s[j]

AllTicks(storages) == UNION {Range(storages[i].ticks) : i \in DOMAIN storages}

\* Every storage has its ticks once and in the order of time, and none of them
\* is older than those of the storages before it.
StoragesInOrder(storages) ==
  \A i \in DOMAIN storages :
    /\ Increasing(storages[i].ticks)
    /\ \A j \in DOMAIN storages : j < i =>
         \A older \in Range(storages[j].ticks), tick \in Range(storages[i].ticks) :
           older <= tick

\* The ticks received are in a storage or in the buffer, none of them lost or
\* twice, and in the order they came in.
TicksTakenOnce ==
  /\ StoragesInOrder(market.storages)
  /\ NonDecreasing(market.buffer)
  /\ \A older \in AllTicks(market.storages), tick \in Range(market.buffer) : older <= tick
  /\ Range(received) = AllTicks(market.storages) \cup Range(market.buffer)

\* A storage that is no longer in the map was handed to persistence with its
\* last tick.
RemovedPersisted ==
  \A i \in DOMAIN market.storages \ {market.current} :
    market.storages[i].persisted = market.storages[i].ticks

\* The current storage has a tick whose delta is still to come.
InProcess(m) ==
  \E i \in DOMAIN m.processing :
    m.processing[i].storage = m.current /\ ~ m.processing[i].settled

\* What a client of the current storage has.
Sent(m) == IF InProcess(m) THEN Front(Content(m)) ELSE Content(m)

\* A client that was sent the current storage has its ticks, but for the one
\* whose delta is still to come: no delta falls between snapshot and
\* subscription, and none comes twice.
ClientFollows ==
  (client # Null /\ client.storage = market.current) =>
    client.ticks = Sent(market)

\* The client reads every delta it is sent, as the checks of the decoder
\* expect.
DeltaNotRefused == ~ refused

\* A request for the whole storage is answered once the market comes to rest.
SyncAnswered ==
  \A id \in 1 .. MaxRequests :
    (\E request \in pending : request.id = id) ~>
      ~ \E request \in pending : request.id = id

\* Whatever happens around a tick in process, ticks are processed without a
\* throw, one at a time, in their order and once.
TicksInOrder == TypeOK /\ NeverThrows /\ OneTickAtATime /\ TicksTakenOnce

\* Buffered ticks are all processed.
BufferDrains == market.buffer # <<>> ~> market.buffer = <<>>

\* The storage of a market that is gone is removed if it has items.
DeadMarketRemoved ==
  (~ alive /\ market.current # 0 /\ Content(market) # <<>>) ~>
    (alive \/ market.current = 0)

\* When ticks stop coming, persistence has been handed every tick.
EverythingPersisted ==
  <>[](\A i \in DOMAIN market.storages :
         market.storages[i].persisted = market.storages[i].ticks)

\* No work is forgotten: requests are answered, the buffer drains, the storage of
\* a market that is gone is removed, and persistence ends up with every tick.
WorkDrains ==
  SyncAnswered /\ BufferDrains /\ DeadMarketRemoved /\ EverythingPersisted
=============================================================================
