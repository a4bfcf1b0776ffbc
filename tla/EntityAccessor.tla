---------------------------- MODULE EntityAccessor ----------------------------
(***************************************************************************)
(* A LazyArray with the ChangedIntervals it keeps as cumulativeChanges:    *)
(* every call that changes the array makes its call of the intervals in    *)
(* the same step (src/app/src/shared/utilities/lazy-array.ts).             *)
(***************************************************************************)
EXTENDS LazyArray

VARIABLE intervals   \* the values of cumulativeChanges

CI == INSTANCE ChangedIntervals
        WITH itemsCount <- length, values <- intervals, MaxItems <- MaxLength

accessorVars == <<vars, intervals>>

InitAccessor == Init /\ intervals = <<>>

\* setChanged is called when what was stored is not what was there.
Changes(i) ==
  IF memory'[address[i]] = memory[address[i]] THEN UNCHANGED intervals
                                              ELSE CI!Set(i)

\* Set and SetField leave the number of items alone, as CI!Set does.
NextAccessor ==
  \/ \E i \in Indexes :
       \/ Get(i) /\ UNCHANGED intervals
       \/ \E f \in Fields : GetField(i, f) /\ UNCHANGED intervals
       \/ \E item \in Items : Set(i, item) /\ Changes(i)
       \/ \E f \in Fields, value \in Values : SetField(i, f, value) /\ Changes(i)
  \/ \E index \in -1 .. length - 1, item \in Items :
       AddAfter(index, item) /\ CI!AddAfter(index)
  \/ \E from \in Indexes : \E count \in 1 .. length - from, collect \in BOOLEAN :
       DeleteItems(from, count, collect) /\ CI!DeleteItems(from, count)
  \/ ClearDeleted /\ UNCHANGED intervals
  \/ ClearCumulativeChanges /\ CI!Clear
  \/ ClearAll /\ CI!Clear
  \/ \E i \in Indexes, item \in {it \in Items : IA!StoredItem(it) = it} :
       Receive(i, item) /\ CI!Clear

SpecAccessor == InitAccessor /\ [][NextAccessor]_accessorVars

-----------------------------------------------------------------------------

\* The intervals a delta is made of are as few as possible and cover just the
\* items that are new or differ from what they were, wherever insertions and
\* deletions have moved them since (set, addAfter and deleteItems of
\* changed-intervals.ts).
IntervalsAgree ==
  /\ CI!TypeOK
  /\ CI!Normalised
  /\ CI!Covered = cumulative
=============================================================================
