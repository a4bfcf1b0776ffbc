--------------------------- MODULE TickAggregation ---------------------------
(***************************************************************************)
(* processTick of src/app/src/server/services/storage-aggregation.ts for   *)
(* one market: a tick is added to level 0, the entities are recalculated,  *)
(* every full level gives its oldest items up as one item of the level     *)
(* above, the highest level is trimmed, and a delta with everything that   *)
(* changed is built.  The phases follow each other as in the code; what    *)
(* else may run between them is the subject of StorageAggregation.         *)
(***************************************************************************)
EXTENDS StructuralChanges

CONSTANTS
  MaxCount,      \* per level: the number of items at which it is full
  Duration,      \* per level: how long an item of it should be
  Gaps,          \* the times that can pass between two ticks
  MaxMarked,     \* bound on the items whose value is not 0 at one time
  MaxTime        \* bound on the clock

ASSUME MaxCountAssumption == MaxCount \in [Levels -> Nat \ {0}]
ASSUME DurationAssumption == Duration \in [Levels -> Nat]
ASSUME GapsAssumption == Gaps \subseteq Nat
ASSUME MaxTimeAssumption == MaxTime \in Nat

VARIABLES
  storage,      \* the market's Storage
  phase,        \* "idle", "recalculate", "aggregate" or "emit"
  level,        \* the level aggregation is at
  aggregated,   \* whether that level has given up items
  deltaStart,   \* deltaStartParams
  structural,   \* structuralChanges
  changed,      \* cumulativeChanges: the flat indexes of changed items
  now,          \* Date.now() when the last tick was received
  accepted      \* history: the times of the ticks added to the storage

deltaVars == <<deltaStart, structural, changed>>
aggregationVars ==
  <<storage, phase, level, aggregated, deltaStart, structural, changed, now,
    accepted>>

\* ChangedIntervals implements a set of changed indexes: ShiftUp and
\* ShiftDown move the set when an item is inserted or items are deleted.
CS == INSTANCE ChangedSet WITH itemsCount <- Size(storage), MaxItems <- MaxTime

Init ==
  /\ storage = EmptyStorage
  /\ phase = "idle"
  /\ level = 0
  /\ aggregated = FALSE
  /\ deltaStart = Null
  /\ structural = <<>>
  /\ changed = {}
  /\ now = 1
  /\ accepted = {}

-----------------------------------------------------------------------------

\* An item has the times and prices of a candle and the values of the other
\* entities, of which value is one: it starts at 0 and recalculation may
\* rewrite it.
Candle(startedAt, endedAt) ==
  [startedAt |-> startedAt, endedAt |-> endedAt, value |-> 0]

\* Faulty variant: a second tick of the same time is added too.
ReceiveDuplicateTick(gap) ==
  /\ phase = "idle"
  /\ now + gap <= MaxTime
  /\ now' = now + gap
  /\ deltaStart' = Params(storage)
  /\ storage' = AddItem(storage, 0, now', now', Candle(now', now'))
  /\ structural' = <<AddChange(0, now', now')>>
  /\ changed' = {Size(storage)}
  /\ phase' = "recalculate"
  /\ level' = 0
  /\ aggregated' = FALSE
  /\ accepted' = accepted \cup {now'}

\* A tick comes gap after the last one and is added to level 0; one that has
\* the time of the newest item is dropped as a duplicate.
ReceiveTick(gap) ==
  /\ phase = "idle"
  /\ now + gap <= MaxTime
  /\ now' = now + gap
  /\ IF EndedAt(storage) = now'
       THEN UNCHANGED <<storage, phase, level, aggregated, deltaVars, accepted>>
       ELSE /\ deltaStart' = Params(storage)
            /\ storage' = AddItem(storage, 0, now', now', Candle(now', now'))
            /\ structural' = <<AddChange(0, now', now')>>
            /\ changed' = {Size(storage)}
            /\ phase' = "recalculate"
            /\ level' = 0
            /\ aggregated' = FALSE
            /\ accepted' = accepted \cup {now'}

\* The entities are recalculated: an item they write a new value to is
\* changed.  One item at a time is enough to put a change anywhere.
Recalculate ==
  /\ phase = "recalculate"
  /\ phase' = "aggregate"
  /\ UNCHANGED <<level, aggregated, deltaStart, structural, now, accepted>>

RecalculateNothing ==
  /\ Recalculate
  /\ UNCHANGED <<storage, changed>>

Marked(st) == {i \in 1 .. Size(st) : Items(st)[i].value # 0}

\* Faulty variant: the write is not noted as a change.
RecalculateItemUnnoticed(flatIndex) ==
  /\ Recalculate
  /\ storage' = SetItem(storage, flatIndex,
                  [GetItem(storage, flatIndex) EXCEPT !.value = 1 - @])
  /\ UNCHANGED changed
  /\ Cardinality(Marked(storage')) <= MaxMarked

RecalculateItem(flatIndex) ==
  /\ Recalculate
  /\ storage' = SetItem(storage, flatIndex,
                  [GetItem(storage, flatIndex) EXCEPT !.value = 1 - @])
  /\ changed' = changed \cup {flatIndex}
  /\ Cardinality(Marked(storage')) <= MaxMarked

Distance(a, b) == IF a > b THEN a - b ELSE b - a

\* How many of the first items of a level make the next level's item: the
\* number whose span comes nearest to that level's duration.
FirstBucketCount(st, start, count, duration) ==
  LET startedAt == GetItem(st, start).startedAt
      Missed(n) ==
        Distance(GetItem(st, start + n - 1).endedAt - startedAt, duration)
  IN  Min({n \in 1 .. count : n = count \/ Missed(n + 1) >= Missed(n)})

StartedAtAfterDelete(st, l, count) ==
  LET next == st.boundaries[l] + count
  IN  IF next < LevelEnd(st, l) THEN GetItem(st, next).startedAt ELSE Null

\* One turn of the loop of aggregateLevel.
AggregateBucket ==
  /\ phase = "aggregate"
  /\ level < MaxLevel
  /\ LevelSize(storage, level) >= MaxCount[level]
  /\ LET start     == storage.boundaries[level]
         bucket    == FirstBucketCount(storage, start,
                        LevelSize(storage, level), Duration[level + 1])
         from      == GetItem(storage, start).startedAt
         to        == GetItem(storage, start + bucket - 1).endedAt
         \* the candle of a single item goes up as it is
         candle    == IF bucket = 1
                        THEN [GetItem(storage, start) EXCEPT !.value = 0]
                        ELSE Candle(from, to)
         newStart  == StartedAtAfterDelete(storage, level, bucket)
         remaining == DeleteNItems(storage, level, bucket, newStart)
         at        == LevelEnd(remaining, level + 1)
     IN  /\ storage' = AddItem(remaining, level + 1, from, to, candle)
         /\ structural' = structural \o
              << DeleteChange(level, bucket, newStart),
                 AddChange(level + 1, from, to) >>
         /\ changed' = CS!ShiftUp(CS!ShiftDown(changed, start, bucket), at)
                         \cup {at}
  /\ aggregated' = TRUE
  /\ UNCHANGED <<phase, level, deltaStart, now, accepted>>

\* The level is below its maximum: entities are recalculated again if it gave
\* up items, and the next level has its turn.
NextLevel ==
  /\ phase = "aggregate"
  /\ level < MaxLevel
  /\ LevelSize(storage, level) < MaxCount[level]
  /\ level' = level + 1
  /\ phase' = IF aggregated THEN "recalculate" ELSE "aggregate"
  /\ aggregated' = FALSE
  /\ UNCHANGED <<storage, deltaVars, now, accepted>>

\* The oldest items of the highest level go for good.
TrimMaxLevel ==
  /\ phase = "aggregate"
  /\ level = MaxLevel
  /\ LET excess   == LevelSize(storage, MaxLevel) - MaxCount[MaxLevel]
         start    == storage.boundaries[MaxLevel]
         newStart == StartedAtAfterDelete(storage, MaxLevel, excess)
     IN  IF excess <= 0
           THEN UNCHANGED <<storage, structural, changed>>
           ELSE /\ storage' = DeleteNItems(storage, MaxLevel, excess, newStart)
                /\ structural' = Append(structural,
                                        DeleteChange(MaxLevel, excess, newStart))
                /\ changed' = CS!ShiftDown(changed, start, excess)
  /\ phase' = "emit"
  /\ UNCHANGED <<level, aggregated, deltaStart, now, accepted>>

-----------------------------------------------------------------------------
(* The delta.                                                              *)

\* Faulty variant: changes of older items are overlooked.
OneItemAdded ==
  /\ Size(storage) = deltaStart.size + 1
  /\ Len(structural) = 1
  /\ structural[1].type = "addItem"
  /\ structural[1].level = 0

\* Only one item was added, at the end, and nothing before it has changed.
AppendOnly ==
  /\ Size(storage) = deltaStart.size + 1
  /\ Len(structural) = 1
  /\ structural[1].type = "addItem"
  /\ structural[1].level = 0
  /\ changed \subseteq {Size(storage) - 1}

\* A changed item is addressed by its chunk set and by its place in it,
\* counted from the chunk set's first item.
ItemChange(flatIndex) ==
  LET at == ChunkAndPos(storage, flatIndex)
  IN  [ chunkSetIndex  |-> at.chunkSet,
        startItemIndex |-> at.slot - storage.chunkSets[at.chunkSet].start,
        item           |-> GetItem(storage, flatIndex) ]

BinaryDelta ==
  [ type              |-> "delta",
    appendOnly        |-> AppendOnly,
    startParams       |-> deltaStart,
    endParams         |-> Params(storage),
    structuralChanges |-> structural,
    entityChanges     |-> {ItemChange(i) : i \in changed} ]

\* getBinaryDelta, the storageDeltaCreated event, and the end of the tick.
EmitDelta ==
  /\ phase = "emit"
  /\ phase' = "idle"
  /\ deltaStart' = Null
  /\ structural' = <<>>
  /\ changed' = {}
  /\ level' = 0
  /\ aggregated' = FALSE
  /\ UNCHANGED <<storage, now, accepted>>

\* The server restarts from a persisted snapshot.  Ticks the snapshot has not
\* seen are gone; the state it was taken in is one of the states before.
Restart ==
  /\ phase = "idle"
  /\ storage.chunkSets # <<>>
  /\ storage' = FromSnapshot(Snapshot(storage.chunkSets))
  /\ UNCHANGED <<phase, level, aggregated, deltaVars, now, accepted>>

ProcessTick ==
  \/ RecalculateNothing
  \/ \E i \in 0 .. Size(storage) - 1 : RecalculateItem(i)
  \/ AggregateBucket
  \/ NextLevel
  \/ TrimMaxLevel
  \/ EmitDelta

Next ==
  \/ \E gap \in Gaps : ReceiveTick(gap)
  \/ ProcessTick
  \/ Restart

Spec == Init /\ [][Next]_aggregationVars

-----------------------------------------------------------------------------

\* Shapes of the variables.
TypeOK ==
  /\ phase \in {"idle", "recalculate", "aggregate", "emit"}
  /\ level \in Levels
  /\ aggregated \in BOOLEAN
  /\ changed \subseteq 0 .. Size(storage) - 1
  /\ now \in Nat
  /\ accepted \subseteq 1 .. MaxTime

\* Every item has a positive place in time after the item before it, and
\* every tick since the oldest item is in exactly one item: aggregation
\* neither loses nor duplicates nor reorders what it moves up.
TicksAccountedFor ==
  LET items == Items(storage)
  IN  /\ \A i \in DOMAIN items :
           {items[i].startedAt, items[i].endedAt} \subseteq accepted
      /\ \A i, j \in DOMAIN items : i < j => items[i].endedAt < items[j].startedAt
      /\ \A t \in accepted :
           (storage.chunkSets # <<>> /\ t >= StartedAt(storage)) =>
             \E i \in DOMAIN items :
               items[i].startedAt <= t /\ t <= items[i].endedAt

\* The times kept in the header of a chunk set are those of its first and of
\* its last item, although headers and items are written by different code.
HeadersMatchItems ==
  \A i \in DOMAIN storage.chunkSets :
    LET c == storage.chunkSets[i]
    IN  /\ c.startedAt = c.items[c.start].startedAt
        /\ c.endedAt = c.items[c.end - 1].endedAt

\* Between ticks no level is at the size that makes it give items up, so the
\* size of a storage, which deltas send in 16 bits, is bounded.
LevelsBounded ==
  phase = "idle" =>
    /\ \A l \in Levels \ {MaxLevel} : LevelSize(storage, l) < MaxCount[l]
    /\ LevelSize(storage, MaxLevel) <= MaxCount[MaxLevel]

\* A snapshot taken between ticks is one applySnapshot accepts.
SnapshotAccepted ==
  phase = "idle" => SnapshotOK(Snapshot(storage.chunkSets))

\* The metadata is what a rebuild would give: a delta's addresses are made
\* from it.
MetadataCurrent == storage = RebuildIndexMetadata(storage.chunkSets)

\* Whatever a tick did to the levels, the next one finds headers, metadata and
\* sizes as the code everywhere takes them to be, and a restart could begin
\* with what is there now.
StorageSound ==
  /\ TypeOK
  /\ HeadersMatchItems
  /\ LevelsBounded
  /\ SnapshotAccepted
  /\ MetadataCurrent
=============================================================================
