--------------------------- MODULE ChangedIntervals ---------------------------
(***************************************************************************)
(* src/app/src/shared/utilities/changed-intervals.ts: the changed items of *)
(* a list as a sequence of <<start, count>> intervals.  A delta sends one  *)
(* run of values per interval, so the intervals must cover the changed     *)
(* items and must be as few as possible.                                   *)
(***************************************************************************)
EXTENDS Integers, Sequences, SequencesExt, FiniteSetsExt

CONSTANT MaxItems   \* bound on the length of the list

VARIABLES
  itemsCount,   \* the length of the list
  values        \* the intervals

vars == <<itemsCount, values>>

Init ==
  /\ itemsCount \in 0 .. MaxItems   \* the constructor's itemsCount
  /\ values = <<>>

Start(interval) == interval[1]
End(interval) == interval[1] + interval[2]
Interval(start, end) == <<start, end - start>>

\* The position of the first interval that does not end before index; one
\* past the last if there is none.  The loops of set and addAfter walk to it.
FirstNotBefore(index) ==
  Min({i \in DOMAIN values : index <= End(values[i])} \cup {Len(values) + 1})

\* Intervals i and i + 1 become one.
Merge(intervals, i) ==
  RemoveAt([intervals EXCEPT ![i] =
              Interval(Start(intervals[i]), End(intervals[i + 1]))], i + 1)

-----------------------------------------------------------------------------

\* set: the cases of the loop body, in the code's order.  (Its test for a
\* previous interval that ends at index is never true: FirstNotBefore would
\* have stopped there.)
SetApart(index) ==
  LET i == FirstNotBefore(index)
  IN  /\ i <= Len(values) => index < Start(values[i]) - 1
      /\ values' = InsertAt(values, i, <<index, 1>>)

SetJustBefore(index) ==
  LET i == FirstNotBefore(index)
  IN  /\ i <= Len(values)
      /\ index = Start(values[i]) - 1
      /\ values' = [values EXCEPT ![i] = <<index, @[2] + 1>>]

SetInside(index) ==
  LET i == FirstNotBefore(index)
  IN  /\ i <= Len(values)
      /\ Start(values[i]) <= index
      /\ index < End(values[i])
      /\ UNCHANGED values

\* Faulty variant: two intervals that meet stay apart.
SetJustAfterUnmerged(index) ==
  LET i == FirstNotBefore(index)
  IN  /\ i <= Len(values)
      /\ index = End(values[i])
      /\ values' = [values EXCEPT ![i] = <<@[1], @[2] + 1>>]

SetJustAfter(index) ==
  LET i     == FirstNotBefore(index)
      grown == [values EXCEPT ![i] = <<@[1], @[2] + 1>>]
  IN  /\ i <= Len(values)
      /\ index = End(values[i])
      /\ values' = IF i < Len(values) /\ index + 1 = Start(values[i + 1])
                     THEN Merge(grown, i)
                     ELSE grown

Set(index) ==
  /\ \/ SetApart(index)
     \/ SetJustBefore(index)
     \/ SetInside(index)
     \/ SetJustAfter(index)
  /\ UNCHANGED itemsCount

-----------------------------------------------------------------------------

\* Intervals from position i on move up by one.
ShiftFrom(intervals, i) ==
  [j \in DOMAIN intervals |->
     IF j >= i THEN <<intervals[j][1] + 1, intervals[j][2]>> ELSE intervals[j]]

\* addAfter: the inserted item is changed; an interval that contains or
\* touches the insertion point grows, otherwise the item is an interval.
AddAfter(index) ==
  LET at == index + 1
      i  == FirstNotBefore(at)
  IN  /\ itemsCount < MaxItems
      /\ itemsCount' = itemsCount + 1
      /\ values' =
           IF i <= Len(values) /\ at >= Start(values[i])
             THEN [ShiftFrom(values, i + 1) EXCEPT ![i] = <<@[1], @[2] + 1>>]
             ELSE InsertAt(ShiftFrom(values, i), i, <<at, 1>>)

-----------------------------------------------------------------------------

\* What is left of the intervals before index, and of those after the
\* deleted items, moved down.
LeftOf(index) ==
  LET n == Cardinality({i \in DOMAIN values : Start(values[i]) < index})
  IN  [i \in 1 .. n |->
         Interval(Start(values[i]), Min({End(values[i]), index}))]

RightOf(index, count) ==
  LET n == Cardinality({i \in DOMAIN values : End(values[i]) <= index + count})
  IN  [i \in 1 .. Len(values) - n |->
         Interval(Max({Start(values[n + i]) - count, index}),
                  End(values[n + i]) - count)]

\* deleteItems: append joins two pieces that have become neighbours.
DeleteItems(index, count) ==
  LET left  == LeftOf(index)
      right == RightOf(index, count)
  IN  /\ index + count <= itemsCount
      /\ itemsCount' = itemsCount - count
      /\ values' =
           IF left # <<>> /\ right # <<>> /\ End(Last(left)) = Start(right[1])
             THEN Merge(left \o right, Len(left))
             ELSE left \o right

Clear ==
  /\ values' = <<>>
  /\ UNCHANGED itemsCount

Next ==
  \/ \E index \in 0 .. itemsCount - 1 : Set(index)
  \/ \E index \in -1 .. itemsCount - 1 : AddAfter(index)
  \/ \E index \in 0 .. itemsCount - 1, count \in 1 .. itemsCount :
       DeleteItems(index, count)
  \/ Clear

Spec == Init /\ [][Next]_vars

-----------------------------------------------------------------------------

\* Intervals are pairs of a start inside the list and a positive length.
TypeOK ==
  /\ itemsCount \in 0 .. MaxItems
  /\ values \in Seq((0 .. MaxItems) \X (1 .. MaxItems))

\* The intervals are sorted, inside the list, and never touch: no shorter
\* list covers the same items, whatever the order of insertions, deletions
\* and changes that led here.
Normalised ==
  /\ \A i \in DOMAIN values :
       /\ 0 <= Start(values[i])
       /\ Start(values[i]) < End(values[i])
       /\ End(values[i]) <= itemsCount
  /\ \A i, j \in DOMAIN values : i < j => End(values[i]) < Start(values[j])

\* The items the intervals cover.
Covered ==
  {x \in 0 .. itemsCount - 1 :
     \E i \in DOMAIN values : Start(values[i]) <= x /\ x < End(values[i])}
=============================================================================
