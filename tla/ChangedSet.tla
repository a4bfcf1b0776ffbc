------------------------------ MODULE ChangedSet ------------------------------
(***************************************************************************)
(* The set of changed items of a growing and shrinking list, the promise   *)
(* of src/app/src/shared/utilities/changed-intervals.ts and the behaviour  *)
(* of the bit per item that bitmap.ts of the same directory keeps.         *)
(***************************************************************************)
EXTENDS Integers

CONSTANT MaxItems   \* bound on the length of the list

VARIABLES
  itemsCount,   \* the length of the list
  changed       \* the indexes of its changed items

vars == <<itemsCount, changed>>

Init ==
  /\ itemsCount \in 0 .. MaxItems
  /\ changed = {}

\* Where an item ends up when one is inserted at index at.
ShiftUp(S, at) == {IF i < at THEN i ELSE i + 1 : i \in S}

\* Where the items outside index .. index + count - 1 end up when those go.
ShiftDown(S, index, count) ==
  {IF i < index THEN i ELSE i - count :
     i \in {j \in S : j < index \/ j >= index + count}}

Set(index) ==
  /\ changed' = changed \cup {index}
  /\ UNCHANGED itemsCount

\* The inserted item counts as changed.
AddAfter(index) ==
  /\ itemsCount < MaxItems
  /\ itemsCount' = itemsCount + 1
  /\ changed' = ShiftUp(changed, index + 1) \cup {index + 1}

DeleteItems(index, count) ==
  /\ index + count <= itemsCount
  /\ itemsCount' = itemsCount - count
  /\ changed' = ShiftDown(changed, index, count)

Clear ==
  /\ changed' = {}
  /\ UNCHANGED itemsCount

Next ==
  \/ \E index \in 0 .. itemsCount - 1 : Set(index)
  \/ \E index \in -1 .. itemsCount - 1 : AddAfter(index)
  \/ \E index \in 0 .. itemsCount - 1, count \in 1 .. itemsCount :
       DeleteItems(index, count)
  \/ Clear

Spec == Init /\ [][Next]_vars
=============================================================================
