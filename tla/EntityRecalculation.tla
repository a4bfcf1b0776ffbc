-------------------------- MODULE EntityRecalculation --------------------------
(***************************************************************************)
(* What the entities of a market hold: CandleEntity, the indicators of     *)
(* src/app/src/server/entities/ and their recalculation by EntityManager,  *)
(* within processTick of services/storage-aggregation.ts.                  *)
(*                                                                         *)
(* A recalculation rewrites only what the LazyArrays have noted as changed *)
(* and what depends on it; the question is whether the values it leaves    *)
(* alone are still the ones the formulas give.  A value is therefore the   *)
(* term that made it, <<formula, arguments...>>, and no number.  Flat      *)
(* indexes count from 1.  The items of the levels follow each other, those *)
(* of the highest level, the oldest, first.                                *)
(***************************************************************************)
EXTENDS Integers, SequencesExt, FiniteSetsExt

CONSTANTS
  NumberOfLevels,
  Releases,      \* per release of the server, and per level of its
                 \* storageConfig: the number of items at which it is full
  Duration,      \* per level: how long an item of it should be
  Period,        \* of the EMA
  Gaps,          \* what Date.now() may advance by between two ticks
  MaxTime        \* bound on the clock

ASSUME RecalculationAssumption ==
  /\ NumberOfLevels \in Nat \ {0}
  /\ Releases # {}
  /\ Releases \subseteq [0 .. NumberOfLevels - 1 -> Nat \ {0}]
  /\ Duration \in [0 .. NumberOfLevels - 1 -> Nat]
  /\ Period \in Nat \ {0}
  /\ Gaps \subseteq Int

VARIABLES
  items,        \* the values of the entities, an item at a time
  counts,       \* per level: the number of its items
  transitory,   \* transitoryChanges: the flat indexes of changed items
  deleted,      \* deletedItems of the candles, the only ones that keep them
  phase,        \* "idle", "recalculate", "aggregate" or "ended"
  level,        \* the level aggregation is at
  maxCount,     \* storageConfig of the release that runs
  emaState,     \* stateByMarket of an EmaIndicator
  filterState,  \* stateByMarket of a RecursiveFilterIndicator
  now,          \* Date.now() when the last tick was received
  seeded,       \* history: the ticks an EMA was seeded at after a restart
  reported      \* history: an `INVALID ...' line was written

states == <<emaState, filterState>>
entityVars == <<items, counts, transitory, deleted, phase, level, maxCount, states,
                now, seeded, reported>>

Levels == 0 .. NumberOfLevels - 1
MaxLevel == NumberOfLevels - 1

NaN == <<"NaN">>                 \* a value that is still to be calculated
Null == <<"null">>               \* no value
Nothing == [nothing |-> TRUE]    \* no item before the first, no state

\* Where the items of a level begin, and where the next of it would be.
StartOf(numbers, l) ==
  LET Start[k \in Levels] ==
        IF k = MaxLevel THEN 1 ELSE Start[k + 1] + numbers[k + 1]
  IN  Start[l]

LevelStart(l) == StartOf(counts, l)
LevelEnd(l) == LevelStart(l) + counts[l]

InitEntities ==
  /\ items = <<>>
  /\ counts = [l \in Levels |-> 0]
  /\ transitory = {}
  /\ deleted = <<>>
  /\ phase = "idle"
  /\ level = 0
  /\ maxCount \in Releases
  /\ emaState = Null
  /\ filterState = Nothing
  /\ now = 1
  /\ seeded = {}
  /\ reported = FALSE

-----------------------------------------------------------------------------
(* The list of items.                                                      *)

\* A candle, with the empty values of the other entities.  The close price is
\* that of the tick at endedAt.
Item(receivedAt, startedAt, endedAt, price) ==
  [ receivedAt |-> receivedAt, startedAt |-> startedAt, endedAt |-> endedAt,
    price |-> price, speed |-> NaN, acceleration |-> NaN,
    ema |-> Null, filter |-> Null, marketPhase |-> Null ]

ShiftedIn(i, at) == IF i < at THEN i ELSE i + 1

\* Faulty variant: a record at the place of the insertion moves too.
DeletedAfterInsertShifted(records, at) ==
  [k \in DOMAIN records |-> [records[k] EXCEPT !.index = ShiftedIn(@, at)]]

\* The record of what was deleted just before the insertion stays where it is:
\* the inserted item is the aggregate of what the record holds.
DeletedAfterInsert(records, at) ==
  [k \in DOMAIN records |->
     [records[k] EXCEPT !.index = IF @ > at THEN @ + 1 ELSE @]]

DeletedAfterDelete(records, from, count) ==
  [k \in DOMAIN records |->
     [records[k] EXCEPT !.index = IF @ > from
                                    THEN IF from > @ - count THEN from ELSE @ - count
                                    ELSE @]]

ChangedAfterInsert(changed, at) ==
  {ShiftedIn(i, at) : i \in changed} \cup {at}

ChangedAfterDelete(changed, from, count) ==
  {IF i < from THEN i ELSE i - count :
     i \in {j \in changed : j < from \/ j >= from + count}}

Without(seq, from, count) ==
  SubSeq(seq, 1, from - 1) \o SubSeq(seq, from + count, Len(seq))

-----------------------------------------------------------------------------
(* The formulas.                                                           *)

Speed(previous, candle, price) ==
  IF previous = Nothing \/ candle.receivedAt <= previous.receivedAt
    THEN <<"zero">>
    ELSE <<"speed", previous.receivedAt, previous.price, candle.receivedAt, price>>

Acceleration(previous, candle, speed) ==
  IF \/ previous = Nothing \/ previous.speed = NaN
     \/ candle.receivedAt <= previous.receivedAt
    THEN <<"zero">>
    ELSE <<"acceleration", previous.receivedAt, previous.speed,
           candle.receivedAt, speed>>

\* The mean price of deleted candles, weighted with the time before each.
AggregatedPrice(values, previous) ==
  IF Len(values) = 1
    THEN values[1].price
    ELSE << "mean",
            [k \in DOMAIN values |-> <<values[k].receivedAt, values[k].price>>],
            IF previous = Nothing THEN 0 ELSE previous.receivedAt >>

\* What an indicator's filter keeps of an item: the value and its time.
FilterOf(item) == [value |-> item.filter, receivedAt |-> item.receivedAt]

\* calculateNextValue of a recursive filter whose input is the speed; its
\* time constant adapts to price and acceleration.
NextFilter(previous, candle) ==
  IF candle.speed = NaN THEN Null
  ELSE IF previous = Nothing \/ previous.value = Null
    THEN <<"input", candle.speed>>
  ELSE IF candle.receivedAt < previous.receivedAt THEN Null
  ELSE IF candle.receivedAt = previous.receivedAt THEN previous.value
  ELSE << "filter", previous.value, previous.receivedAt, candle.receivedAt,
          candle.speed, candle.acceleration, candle.price >>

\* calculateNextValue of the market phase, which ThrowsPhase says when to ask.
NextPhase(previous, candle) ==
  IF previous = Nothing THEN <<"position", candle.price>>
  ELSE IF candle.receivedAt = previous.receivedAt THEN previous.marketPhase
  ELSE << "phase", previous.marketPhase, previous.receivedAt, candle.receivedAt,
          candle.price >>

\* Faulty variant: the order of the candles is not asked for.
ThrowsPhasePriceOnly(previous, candle) == candle.price = NaN

ThrowsPhase(previous, candle) ==
  \/ candle.price = NaN
  \/ previous # Nothing /\ candle.receivedAt < previous.receivedAt

Ema(previous, candle) == <<"ema", previous, candle.endedAt>>

\* The mean of the last Period closes, where there are as many.
SeedAt(list, index) ==
  IF index < Period THEN Null
  ELSE <<"seed", [k \in 1 .. Period |-> list[index - Period + k].endedAt]>>

-----------------------------------------------------------------------------
(* The ranges that are recalculated.                                       *)

Before(list, index) == IF index > 1 THEN list[index - 1] ELSE Nothing

\* A changed item affects the values of affectedValuesCount items, its own
\* and those behind it.
FiniteAffected(affectedValuesCount) ==
  {i \in DOMAIN items : \E j \in transitory : j <= i /\ i < j + affectedValuesCount}

\* Faulty variant: the changed items themselves are left out.
BehindAffected ==
  LET last == CHOOSE i \in transitory : \A j \in transitory : i >= j
  IN  IF last = Len(items) THEN last ELSE last + 1

\* ... or those of all items behind it.
FirstAffected == CHOOSE i \in transitory : \A j \in transitory : i <= j
InfiniteAffected == FirstAffected .. Len(items)

\* Nothing but the newest item has changed.
OnlyNewest == transitory = {Len(items)}

-----------------------------------------------------------------------------
(* The entities.                                                           *)

Records(index) == {k \in DOMAIN deleted : deleted[k].index = index}

\* CandleEntity: an aggregate gets the mean price of what it stands for.
FirstRecord(index) ==
  CHOOSE k \in Records(index) : \A j \in Records(index) : k <= j

Price(previous, candle, index) ==
  IF Records(index) = {}
    THEN candle.price
    ELSE AggregatedPrice(deleted[FirstRecord(index)].values, previous)

CalculateCandle(previous, candle, index) ==
  LET price == Price(previous, candle, index)
      speed == Speed(previous, candle, price)
  IN  [candle EXCEPT !.price = price, !.speed = speed,
                     !.acceleration = Acceleration(previous, candle, speed)]

\* CandleEntity writes one of its `INVALID ...' lines.
Reports(index) ==
  \/ Records(index) = {} /\ items[index].price = NaN
  \/ \E k \in Records(index) :
       \/ \E j \in DOMAIN deleted[k].values : deleted[k].values[j].price = NaN
       \/ /\ index > 1
          /\ items[index - 1].receivedAt >= deleted[k].values[1].receivedAt

CandlesReport == \E i \in FiniteAffected(2) : Reports(i)

CalculateEma(previous, list, index) ==
  [list[index] EXCEPT !.ema =
     IF previous = Nothing THEN SeedAt(list, index)
     ELSE IF previous.ema = Null THEN SeedAt(list, index)
     ELSE Ema(previous.ema, list[index])]

CalculateFilter(previous, candle) ==
  [candle EXCEPT !.filter =
     NextFilter(IF previous = Nothing THEN Nothing ELSE FilterOf(previous), candle)]

CalculatePhase(previous, candle) ==
  [candle EXCEPT !.marketPhase = NextPhase(previous, candle)]

Calculate(entity, previous, list, index) ==
  CASE entity = "candle" -> CalculateCandle(previous, list[index], index)
    [] entity = "ema"    -> CalculateEma(previous, list, index)
    [] entity = "filter" -> CalculateFilter(previous, list[index])
    [] entity = "phase"  -> CalculatePhase(previous, list[index])

\* An entity calculates its values of some items, one after the other, from
\* those it has for the item before.
Calculated(entity, list, indexes) ==
  LET New[i \in DOMAIN list] ==
        IF i \in indexes
          THEN Calculate(entity, IF i > 1 THEN New[i - 1] ELSE Nothing, list, i)
          ELSE list[i]
  IN  New

\* fullCalculate of a recursive filter: without a state of its own it goes on
\* from the stored values and calculates those that are missing.
FullFilter(list) ==
  LET State[i \in 0 .. Len(list)] ==
        IF i = 0 THEN Nothing
        ELSE [ value |-> IF list[i].filter # Null
                           THEN list[i].filter
                           ELSE NextFilter(State[i - 1], list[i]),
               receivedAt |-> list[i].receivedAt ]
  IN  State[Len(list)].value

\* The new value of the newest item, where nothing else has changed ...
SingleEma(list) ==
  IF emaState = Null THEN SeedAt(list, Len(list)) ELSE Ema(emaState, Last(list))

SingleFilter(list) ==
  IF filterState = Nothing THEN FullFilter(list)
  ELSE IF Last(list).receivedAt <= filterState.receivedAt THEN filterState.value
  ELSE NextFilter(filterState, Last(list))

\* ... and those of everything from the first changed item on.
WithEma(list) ==
  IF OnlyNewest
    THEN [list EXCEPT ![Len(list)] = [@ EXCEPT !.ema = SingleEma(list)]]
    ELSE Calculated("ema", list, InfiniteAffected)

WithFilter(list) ==
  IF OnlyNewest
    THEN [list EXCEPT ![Len(list)] = [@ EXCEPT !.filter = SingleFilter(list)]]
    ELSE Calculated("filter", list, InfiniteAffected)

WithPhase(list) == Calculated("phase", list, InfiniteAffected)

WithCandles(list) == Calculated("candle", list, FiniteAffected(2))

-----------------------------------------------------------------------------

\* A tick is received and added to level 0, unless it has the time of the
\* newest item.
ReceiveTick(gap) ==
  /\ phase = "idle"
  /\ now + gap \in 1 .. MaxTime
  /\ now' = now + gap
  /\ IF items # <<>> /\ Last(items).endedAt = now'
       THEN UNCHANGED <<items, counts, transitory, phase>>
       ELSE /\ items' = Append(items, Item(now', now', now', <<"price", now'>>))
            /\ counts' = [counts EXCEPT ![0] = @ + 1]
            /\ transitory' = {Len(items')}
            /\ phase' = "recalculate"
  /\ UNCHANGED <<deleted, level, maxCount, states, seeded, reported>>

\* updateState and its like: the indicators remember the newest value, once
\* there is one.
EmaStateAfter(list) == Last(list).ema

FilterStateAfter(list) ==
  IF /\ OnlyNewest /\ filterState # Nothing
     /\ Last(list).receivedAt <= filterState.receivedAt
    THEN filterState
  ELSE IF Last(list).filter = Null THEN Nothing ELSE FilterOf(Last(list))

\* EntityManager lets every entity calculate, and the changes and the deleted
\* items are forgotten.
Recalculate ==
  LET withCandles == WithCandles(items)
      calculated  == WithPhase(WithFilter(WithEma(withCandles)))
  IN  /\ phase = "recalculate"
      /\ \A i \in InfiniteAffected :
           ~ThrowsPhase(Before(withCandles, i), withCandles[i])
      /\ items' = calculated
      /\ emaState' = EmaStateAfter(calculated)
      /\ filterState' = FilterStateAfter(calculated)
      /\ seeded' = IF OnlyNewest /\ emaState = Null
                      THEN seeded \cup {Last(items).endedAt} ELSE seeded
      /\ reported' = (reported \/ CandlesReport)
      /\ phase' = "aggregate"
      /\ transitory' = {}
      /\ deleted' = <<>>
      /\ UNCHANGED <<counts, level, maxCount, now>>

\* The market phase throws: processTick is rejected, which nobody handles, and
\* the process ends.
RecalculateThrows ==
  /\ phase = "recalculate"
  /\ \E i \in InfiniteAffected :
       ThrowsPhase(Before(WithCandles(items), i), WithCandles(items)[i])
  /\ phase' = "ended"
  /\ reported' = (reported \/ CandlesReport)
  /\ UNCHANGED <<items, counts, transitory, deleted, level, maxCount, states, now,
                 seeded>>

Distance(a, b) == IF a > b THEN a - b ELSE b - a

\* How many of the first items of a level make the next level's item: the
\* number whose span comes nearest to that level's duration.
FirstBucketCount ==
  LET startedAt == items[LevelStart(level)].startedAt
      Missed(n) == Distance(items[LevelStart(level) + n - 1].endedAt - startedAt,
                            Duration[level + 1])
  IN  Min({n \in 1 .. counts[level] :
             n = counts[level] \/ Missed(n + 1) >= Missed(n)})

\* The candle that stands for several.
Aggregate(candles) ==
  IF Len(candles) = 1
    THEN [Item(candles[1].receivedAt, candles[1].startedAt, candles[1].endedAt,
               candles[1].price)
            EXCEPT !.speed = candles[1].speed,
                   !.acceleration = candles[1].acceleration]
    ELSE LET from == Head(candles).startedAt
             to   == Last(candles).endedAt
         IN  Item(from + (to - from + 1) \div 2, from, to, NaN)

\* One turn of the loop of aggregateLevel.
AggregateBucket ==
  /\ phase = "aggregate"
  /\ level < MaxLevel
  /\ counts[level] >= maxCount[level]
  /\ LET start   == LevelStart(level)
         count   == FirstBucketCount
         candles == SubSeq(items, start, start + count - 1)
         \* the next item of the level above goes where its end was
         at      == start
     IN  /\ items' = InsertAt(Without(items, start, count), at, Aggregate(candles))
         /\ counts' = [counts EXCEPT ![level] = @ - count, ![level + 1] = @ + 1]
         /\ transitory' = ChangedAfterInsert(
                             ChangedAfterDelete(transitory, start, count), at)
         /\ deleted' = DeletedAfterInsert(
                          DeletedAfterDelete(
                            Append(deleted, [index |-> start, values |-> candles]),
                            start, count), at)
  /\ UNCHANGED <<phase, level, maxCount, states, now, seeded, reported>>

\* The level is below its maximum: the entities are recalculated if it gave up
\* items, which is when any have changed, and the next level has its turn.
NextLevel ==
  /\ phase = "aggregate"
  /\ level < MaxLevel
  /\ counts[level] < maxCount[level]
  /\ level' = level + 1
  /\ phase' = IF transitory = {} THEN "aggregate" ELSE "recalculate"
  /\ UNCHANGED <<items, counts, transitory, deleted, maxCount, states, now, seeded,
                 reported>>

\* The oldest items of the highest level go for good, and the tick is done.
TrimMaxLevel ==
  /\ phase = "aggregate"
  /\ level = MaxLevel
  /\ LET excess == counts[MaxLevel] - maxCount[MaxLevel]
     IN  IF excess <= 0
           THEN UNCHANGED <<items, counts>>
           ELSE /\ items' = Without(items, 1, excess)
                /\ counts' = [counts EXCEPT ![MaxLevel] = @ - excess]
  /\ phase' = "idle"
  /\ level' = 0
  /\ UNCHANGED <<transitory, deleted, maxCount, states, now, seeded, reported>>

\* The storage of the market is removed; a tick makes a new one.
RemoveMarket ==
  /\ phase = "idle"
  /\ items # <<>>
  /\ items' = <<>>
  /\ counts' = [l \in Levels |-> 0]
  /\ emaState' = Null
  /\ filterState' = Nothing
  /\ UNCHANGED <<transitory, deleted, phase, level, maxCount, now, seeded, reported>>

\* The process ends between two ticks, and that or another release starts with
\* the values stored.
Restart ==
  /\ phase = "idle"
  /\ items # <<>>
  /\ maxCount' \in Releases
  /\ emaState' = Null
  /\ filterState' = Nothing
  /\ UNCHANGED <<items, counts, transitory, deleted, phase, level, now, seeded,
                 reported>>

NextEntities ==
  \/ \E gap \in Gaps : ReceiveTick(gap)
  \/ Recalculate
  \/ RecalculateThrows
  \/ AggregateBucket
  \/ NextLevel
  \/ TrimMaxLevel
  \/ RemoveMarket
  \/ Restart

SpecEntities == InitEntities /\ [][NextEntities]_entityVars

-----------------------------------------------------------------------------

\* What the properties ask of a configuration: ticks that come g apart or more
\* never make all of a full level 0 one item of the next, so that the newest
\* tick stays where it is.
LevelZeroFits(g) ==
  /\ g \in Nat \ {0}
  /\ \A gap \in Gaps : gap > 0 => gap >= g
  /\ NumberOfLevels > 1 => \A r \in Releases : (r[0] - 2) * g >= Duration[1]

\* Shapes of the variables.
EntitiesTyped ==
  /\ Len(items) = LevelEnd(0) - 1
  /\ counts \in [Levels -> Nat]
  /\ transitory \subseteq DOMAIN items
  /\ \A k \in DOMAIN deleted : deleted[k].index \in DOMAIN items
  /\ phase \in {"idle", "recalculate", "aggregate", "ended"}
  /\ level \in Levels

\* When the candles are calculated, the item at the index of a record of
\* deleted candles is the aggregate of just those (CandleEntity takes the first
\* record of an index, candle.ts), however many buckets were moved up since.
DeletedAreOfTheirAggregate ==
  phase = "recalculate" =>
    /\ \A k \in DOMAIN deleted :
         LET item == items[deleted[k].index]
         IN  /\ item.startedAt = Head(deleted[k].values).startedAt
             /\ item.endedAt = Last(deleted[k].values).endedAt
    /\ \A j, k \in DOMAIN deleted : deleted[j].index = deleted[k].index => j = k
    /\ \A i \in DOMAIN items : items[i].price = NaN => Records(i) # {}

\* The conditions CandleEntity reports as `INVALID PREVIOUS FOR DELETED
\* CANDLES', `INVALID CANDLE SPEED' and `INVALID AGGREGATED PRICE' do not arise.
NothingReported == ~reported

\* Between ticks the items follow each other in time, even if the clock does
\* not: a tick behind its time ends the process before it can be stored.
OrderedByTime ==
  phase = "idle" =>
    \A i \in 2 .. Len(items) : items[i - 1].endedAt < items[i].startedAt

\* `Market phase candles must be ordered by receivedAt' is thrown only for a
\* clock that stepped back, `Market phase price must be positive and finite'
\* never (market-phase.ts).
EndsOnlyByClock ==
  phase = "ended" =>
    \E i \in 2 .. Len(items) : items[i].startedAt < items[i - 1].endedAt

\* No storage lives on with items out of order, and no other one ends.
OrderedOrEnded == OrderedByTime /\ EndsOnlyByClock

\* Between ticks the price of no candle is missing, and every speed, also of
\* the candles a recalculation left alone, is the one from the candle before it
\* to this one.
SpeedsCurrent ==
  phase = "idle" =>
    \A i \in DOMAIN items :
      /\ items[i].price # NaN
      /\ i > 1 => items[i].speed = Speed(items[i - 1], items[i], items[i].price)

\* So is every acceleration, with one exception: a recalculation ends one item
\* behind an aggregate, so that the item behind that one goes on with the speed
\* its predecessor had before the aggregate came.
AccelerationsCurrent ==
  phase = "idle" =>
    \A i \in 2 .. Len(items) :
      LET previous == items[i - 1]
          BehindAggregate ==
            i > 2 => items[i - 2].startedAt < items[i - 2].endedAt
      IN  \/ items[i].acceleration = Acceleration(previous, items[i], items[i].speed)
          \/ /\ BehindAggregate
             /\ Len(items[i].acceleration) = 5
             /\ items[i].acceleration =
                  Acceleration([previous EXCEPT !.speed = items[i].acceleration[3]],
                               items[i], items[i].speed)

\* The mean of Period closes ending with that of an item; of those before it
\* trimMaxLevel may have deleted some since.
IsSeed(value, list, index) ==
  \E closes \in {value[2]} :
    /\ value = <<"seed", closes>>
    /\ DOMAIN closes = 1 .. Period
    /\ \A k \in 1 .. Period :
         index - Period + k > 0 => closes[k] = list[index - Period + k].endedAt

\* No value where there are too few items, the mean of the closes elsewhere.
Seeded(list, index) ==
  IF list[index].ema = Null THEN index < Period
                            ELSE IsSeed(list[index].ema, list, index)

\* Between ticks every value of an EMA continues that of the item before, or is
\* the mean of the closes where that has none.  A tick without a state, as the
\* first after a restart, seeds it anew.
EmaFollows ==
  phase = "idle" =>
    \A i \in 2 .. Len(items) :
      \/ items[i - 1].ema # Null /\ items[i].ema = Ema(items[i - 1].ema, items[i])
      \/ /\ items[i - 1].ema = Null \/ items[i].endedAt \in seeded
         /\ Seeded(items, i)

\* Between ticks every value of a recursive filter continues that of the item
\* before it with the candle as it is now, restarts included.
FilterFollows ==
  phase = "idle" =>
    \A i \in 2 .. Len(items) :
      items[i].filter =
        NextFilter(FilterOf(items[i - 1]), items[i])

\* ... and every market phase.
PhaseFollows ==
  phase = "idle" =>
    \A i \in 2 .. Len(items) :
      items[i].marketPhase = NextPhase(items[i - 1], items[i])

\* Between ticks an indicator that has a state continues from the value of the
\* newest item, also after its market was removed and created again.
StatesAreOfNewest ==
  phase = "idle" =>
    /\ emaState # Null => items # <<>> /\ emaState = Last(items).ema
    /\ filterState # Nothing => items # <<>> /\ filterState = FilterOf(Last(items))

\* What a tick changed in items and levels is all recalculated, no more and no
\* less, so that candles and indicators are what the formulas give from the
\* items as they are.
RecalculationComplete ==
  /\ EntitiesTyped
  /\ NothingReported
  /\ SpeedsCurrent /\ AccelerationsCurrent
  /\ EmaFollows /\ FilterFollows /\ PhaseFollows /\ StatesAreOfNewest
=============================================================================
