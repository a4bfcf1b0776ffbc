------------------------------- MODULE ItemArray -------------------------------
(***************************************************************************)
(* What the users of a LazyArray may rely on: an array of items, whatever  *)
(* is cached and wherever the storage keeps their bytes.                   *)
(***************************************************************************)
EXTENDS Integers

CONSTANTS
  Fields,     \* the fields of an item
  Values,     \* what a field may be set to
  Stored(_),  \* what the codec of a field makes of a value
  MaxLength   \* bound on the number of items

VARIABLES
  length,     \* the number of items
  array,      \* the items, from 0
  changed,    \* those that are new or have changed since it was cleared
  returned    \* what the last call returned

arrayVars == <<length, array, changed, returned>>

Items == [Fields -> Values]
Indexes == 0 .. length - 1

\* What an item becomes when it is written.
StoredItem(item) == [f \in Fields |-> Stored(item[f])]

\* Element x comes to index at.
InsertedAt(list, n, at, x) ==
  [i \in 0 .. n |-> IF i < at THEN list[i] ELSE IF i = at THEN x ELSE list[i - 1]]

\* The count elements from index from on go.
RemovedFrom(list, n, from, count) ==
  [i \in 0 .. n - count - 1 |-> IF i < from THEN list[i] ELSE list[i + count]]

Init ==
  /\ length = 0
  /\ array = [i \in Indexes |-> CHOOSE item \in Items : TRUE]
  /\ changed = {}
  /\ returned = <<>>

Get(i) ==
  /\ returned' = <<"item", array[i]>>
  /\ UNCHANGED <<length, array, changed>>

GetField(i, f) ==
  /\ returned' = <<"field", array[i][f]>>
  /\ UNCHANGED <<length, array, changed>>

\* An item counts as changed when it becomes another one.
Changed(i, item) ==
  changed' = IF item = array[i] THEN changed ELSE changed \cup {i}

Set(i, item) ==
  /\ array' = [array EXCEPT ![i] = StoredItem(item)]
  /\ Changed(i, StoredItem(item))
  /\ returned' = <<"item", StoredItem(item)>>
  /\ UNCHANGED length

SetField(i, f, value) ==
  /\ array' = [array EXCEPT ![i] = [array[i] EXCEPT ![f] = Stored(value)]]
  /\ Changed(i, [array[i] EXCEPT ![f] = Stored(value)])
  /\ returned' = <<"field", Stored(value)>>
  /\ UNCHANGED length

AddAfter(index, item) ==
  /\ length < MaxLength
  /\ array' = InsertedAt(array, length, index + 1, StoredItem(item))
  /\ changed' = {IF i <= index THEN i ELSE i + 1 : i \in changed} \cup {index + 1}
  /\ length' = length + 1
  /\ returned' = <<"item", StoredItem(item)>>

DeleteItems(from, count) ==
  /\ array' = RemovedFrom(array, length, from, count)
  /\ changed' = {IF i < from THEN i ELSE i - count :
                   i \in {j \in changed : j < from \/ j >= from + count}}
  /\ length' = length - count
  /\ UNCHANGED returned

Clear ==
  /\ changed' = {}
  /\ UNCHANGED <<length, array, returned>>

\* A delta replaces an item.
Receive(i, item) ==
  /\ array' = [array EXCEPT ![i] = item]
  /\ changed' = {}
  /\ UNCHANGED <<length, returned>>

Next ==
  \/ \E i \in Indexes : Get(i)
  \/ \E i \in Indexes, f \in Fields : GetField(i, f)
  \/ \E i \in Indexes, item \in Items : Set(i, item)
  \/ \E i \in Indexes, f \in Fields, value \in Values : SetField(i, f, value)
  \/ \E index \in -1 .. length - 1, item \in Items : AddAfter(index, item)
  \/ \E from \in Indexes : \E count \in 1 .. length - from : DeleteItems(from, count)
  \/ Clear
  \/ \E i \in Indexes, item \in Items : Receive(i, item)

Spec == Init /\ [][Next]_arrayVars
=============================================================================
