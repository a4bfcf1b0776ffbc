------------------------------- MODULE LazyArray -------------------------------
(***************************************************************************)
(* The accessor of one entity, src/app/src/shared/utilities/lazy-array.ts, *)
(* on top of the chunks of a Storage: it decodes items when they are asked *)
(* for, keeps them and the place of the chunk set it used last, notes      *)
(* which items have changed, and collects the values of deleted items.     *)
(*                                                                         *)
(* The Storage is what services/storage.ts makes of it: an insertion or a  *)
(* deletion moves the addresses of the items behind, never the items.      *)
(***************************************************************************)
EXTENDS Integers, Sequences

CONSTANTS
  Fields,     \* the fields of an item
  Values,     \* what a field may be set to
  Stored(_),  \* what the codec of a field makes of a value
  Chunks,     \* the chunks there can be at one time
  Capacity,   \* STORAGE_CHUNK_CAPACITY
  MaxLength,  \* bound on the number of items and records of deleted ones
  MaxDeleted, \* bound on the records of deleted items
  Hole        \* nothing: an index that is not in the cache, no window

ASSUME LazyArrayAssumption ==
  /\ Values # {}
  /\ \A value \in Values : Stored(value) \in Values /\ Stored(Stored(value)) = Stored(value)
  /\ Capacity \in Nat \ {0}
  /\ MaxLength \in Nat
  /\ Hole \notin [Fields -> Values]

VARIABLES
  length,        \* the number of items
  address,       \* of the storage: the chunk and the slot of each item
  memory,        \* of the storage: the decoded bytes of every slot
  cache,         \* the values decoded so far
  window,        \* cachedViewAndPos: the chunk set used last
  cumulative,    \* cumulativeChanges, as a set; transitoryChanges differ in
                 \* when they are cleared
  deletedItems,
  returned       \* what the last call returned

storageVars == <<address, memory>>
changeVars == <<cumulative, deletedItems>>
vars == <<length, storageVars, cache, window, changeVars, returned>>

Items == [Fields -> Values]
Indexes == 0 .. length - 1
Slots == 0 .. Capacity - 1
Addresses == Chunks \X Slots

\* What the array is: the items of the storage in their order.
Array == [i \in Indexes |-> memory[address[i]]]

IA == INSTANCE ItemArray WITH array <- Array, changed <- cumulative

\* Whatever the bytes of a new chunk say.
EmptyItem == CHOOSE item \in Items : IA!StoredItem(item) = item

Init ==
  /\ length = 0
  /\ address = [i \in Indexes |-> <<>>]
  /\ memory = [a \in Addresses |-> EmptyItem]
  /\ cache = [i \in Indexes |-> Hole]
  /\ window = Hole
  /\ cumulative = {}
  /\ deletedItems = <<>>
  /\ returned = <<>>

-----------------------------------------------------------------------------
(* Where an item is.                                                       *)

Covers(w, i) == w.from <= i /\ i < w.to
Position(w, i) == <<w.chunk, w.start + i - w.from>>

\* What a storage of n items with addresses addr answers for index i: the chunk
\* set, its first slot in use, and the indexes from .. to - 1 of its items.
IsChunkSetOf(w, addr, n, i) ==
  /\ Covers(w, i)
  /\ \A j \in w.from .. w.to - 1 : addr[j] = Position(w, j)
  /\ w.from > 0 => addr[w.from - 1][1] # w.chunk
  /\ w.to < n => addr[w.to][1] # w.chunk

ChunkSetsOf(addr, n, i) ==
  {w \in [ chunk : Chunks, start : Slots, from : 0 .. i, to : i + 1 .. n ] :
     IsChunkSetOf(w, addr, n, i)}

\* The chunk set used last serves as long as the index is one of its own.
InWindow(i) == IF window = Hole THEN FALSE ELSE Covers(window, i)

Windows(i) == IF InWindow(i) THEN {window} ELSE ChunkSetsOf(address, length, i)

-----------------------------------------------------------------------------
(* Reading and writing.                                                    *)

Cached(i) == cache[i]

Get(i) ==
  /\ IF Cached(i) # Hole
       THEN /\ returned' = <<"item", Cached(i)>>
            /\ UNCHANGED <<cache, window>>
       ELSE \E w \in Windows(i) :
              /\ window' = w
              /\ returned' = <<"item", memory[Position(w, i)]>>
              /\ cache' = [cache EXCEPT ![i] = memory[Position(w, i)]]
  /\ UNCHANGED <<length, storageVars, changeVars>>

\* The value of a field alone is not kept.
GetField(i, f) ==
  /\ IF Cached(i) # Hole
       THEN /\ returned' = <<"field", Cached(i)[f]>>
            /\ UNCHANGED window
       ELSE \E w \in Windows(i) :
              /\ window' = w
              /\ returned' = <<"field", memory[Position(w, i)][f]>>
  /\ UNCHANGED <<length, storageVars, cache, changeVars>>

\* setChanged, unless what was stored is what was there.
Noticed(i, before, after) ==
  /\ cumulative' = IF before = after THEN cumulative ELSE cumulative \cup {i}
  /\ UNCHANGED deletedItems

\* Faulty variant: what was asked for is cached, not what was stored.
SetCachingGiven(i, item) ==
  \E w \in Windows(i) :
    LET stored == IA!StoredItem(item)
        at     == Position(w, i)
    IN  /\ window' = w
        /\ memory' = [memory EXCEPT ![at] = stored]
        /\ cache' = [cache EXCEPT ![i] = item]
        /\ returned' = <<"item", stored>>
        /\ Noticed(i, memory[at], stored)
        /\ UNCHANGED <<length, address>>

Set(i, item) ==
  \E w \in Windows(i) :
    LET stored == IA!StoredItem(item)
        at     == Position(w, i)
    IN  /\ window' = w
        /\ memory' = [memory EXCEPT ![at] = stored]
        /\ cache' = [cache EXCEPT ![i] = stored]
        /\ returned' = <<"item", stored>>
        /\ Noticed(i, memory[at], stored)
        /\ UNCHANGED <<length, address>>

\* An item in the cache gets its field there too.
SetField(i, f, value) ==
  \E w \in Windows(i) :
    LET stored == Stored(value)
        at     == Position(w, i)
    IN  /\ window' = w
        /\ memory' = [memory EXCEPT ![at] = [memory[at] EXCEPT ![f] = stored]]
        /\ cache' = IF cache[i] # Hole
                      THEN [cache EXCEPT ![i] = [cache[i] EXCEPT ![f] = stored]]
                      ELSE cache
        /\ returned' = <<"field", stored>>
        /\ Noticed(i, memory[at][f], stored)
        /\ UNCHANGED <<length, address>>

-----------------------------------------------------------------------------
(* Insertions and deletions.                                               *)

\* The storage puts a new item behind the last one of the chunk set before it
\* or into a new chunk set.
NewAddresses(at) ==
  LET Used == {address[i] : i \in Indexes}
  IN  {a \in Addresses \ Used :
         \/ a[2] = 0 /\ \A u \in Used : u[1] # a[1]
         \/ at > 0 /\ a = <<address[at - 1][1], address[at - 1][2] + 1>>}

Inserted(set, at) == {IF i < at THEN i ELSE i + 1 : i \in set} \cup {at}

Removed(set, from, count) ==
  {IF i < from THEN i ELSE i - count :
     i \in {j \in set : j < from \/ j >= from + count}}

\* addItem of the Storage: the storage makes room, then the accessor writes.
AddAfter(index, item) ==
  /\ length + Len(deletedItems) < MaxLength
  /\ LET at     == index + 1
         stored == IA!StoredItem(item)
     IN  \E a \in NewAddresses(at) :
           /\ address' = IA!InsertedAt(address, length, at, a)
           /\ memory' = [memory EXCEPT ![a] = stored]
           /\ length' = length + 1
           /\ cache' = IA!InsertedAt(cache, length, at, stored)
           /\ cumulative' = Inserted(cumulative, at)
           /\ deletedItems' =
                [k \in DOMAIN deletedItems |->
                   [ index  |-> IF deletedItems[k].index > at
                                  THEN deletedItems[k].index + 1
                                  ELSE deletedItems[k].index,
                     values |-> deletedItems[k].values ]]
           /\ returned' = <<"item", stored>>
           /\ window' \in ChunkSetsOf(address', length', at)

\* The bytes of deleted items are out of reach: nobody asks what they say.
Kept(addr, n) ==
  [a \in Addresses |->
     IF \E i \in 0 .. n - 1 : addr[i] = a THEN memory[a] ELSE EmptyItem]

\* What reading index i gives.
ReadsAs(i) ==
  IF Cached(i) # Hole THEN {Cached(i)}
                      ELSE {memory[Position(w, i)] : w \in Windows(i)}

\* Faulty variant: the values are those behind the deleted items.
CollectedBehind(from, count, collect) ==
  IF ~collect THEN {deletedItems}
  ELSE {Append(deletedItems, [index |-> from, values |-> values]) :
          values \in {vs \in [1 .. count -> Items] :
                        \A k \in 1 .. count :
                          from + count < length => vs[k] \in ReadsAs(from + count)}}

\* The records with the values that go.
Collected(from, count, collect) ==
  IF ~collect THEN {deletedItems}
  ELSE {Append(deletedItems, [index |-> from, values |-> values]) :
          values \in {vs \in [1 .. count -> Items] :
                        \A k \in 1 .. count : vs[k] \in ReadsAs(from + k - 1)}}

\* deleteNItems of the Storage: the accessor reads what it has to collect, and
\* forgets the chunk set it used, before the storage deletes.
DeleteItems(from, count, collect) ==
  /\ collect => Len(deletedItems) < MaxDeleted
  /\ \E records \in Collected(from, count, collect) :
       deletedItems' =
         [k \in DOMAIN records |->
            [ index  |-> IF records[k].index > from
                           THEN IF from > records[k].index - count
                                  THEN from
                                  ELSE records[k].index - count
                           ELSE records[k].index,
              values |-> records[k].values ]]
  /\ length' = length - count
  /\ address' = IA!RemovedFrom(address, length, from, count)
  /\ cache' = IA!RemovedFrom(cache, length, from, count)
  /\ cumulative' = Removed(cumulative, from, count)
  /\ memory' = Kept(address', length')
  /\ window' = Hole
  /\ UNCHANGED returned

-----------------------------------------------------------------------------
(* What the Storage asks for besides.                                      *)

\* The entities have been recalculated.
ClearDeleted ==
  /\ deletedItems' = <<>>
  /\ UNCHANGED <<length, storageVars, cache, window, cumulative, returned>>

\* A delta is begun, or has been made.
ClearCumulativeChanges ==
  /\ cumulative' = {}
  /\ UNCHANGED <<length, storageVars, cache, window, deletedItems, returned>>

ForgetAll ==
  /\ cache' = [i \in Indexes |-> Hole]
  /\ window' = Hole
  /\ cumulative' = {}
  /\ deletedItems' = <<>>

\* A tick has been processed.
ClearAll ==
  /\ ForgetAll
  /\ UNCHANGED <<length, storageVars, returned>>

\* Faulty variant: the accessor of before the delta stays in use.
ReceiveKeepingAccessor(i, item) ==
  /\ memory' = [memory EXCEPT ![address[i]] = item]
  /\ UNCHANGED <<length, address, cache, window, changeVars, returned>>

\* applyDelta writes past the accessors, which are made anew.
Receive(i, item) ==
  /\ memory' = [memory EXCEPT ![address[i]] = item]
  /\ ForgetAll
  /\ UNCHANGED <<length, address, returned>>

Next ==
  \/ \E i \in Indexes : Get(i)
  \/ \E i \in Indexes, f \in Fields : GetField(i, f)
  \/ \E i \in Indexes, item \in Items : Set(i, item)
  \/ \E i \in Indexes, f \in Fields, value \in Values : SetField(i, f, value)
  \/ \E index \in -1 .. length - 1, item \in Items : AddAfter(index, item)
  \/ \E from \in Indexes : \E count \in 1 .. length - from, collect \in BOOLEAN :
       DeleteItems(from, count, collect)
  \/ ClearDeleted
  \/ ClearCumulativeChanges
  \/ ClearAll
  \/ \E i \in Indexes, item \in {it \in Items : IA!StoredItem(it) = it} :
       Receive(i, item)

Spec == Init /\ [][Next]_vars

-----------------------------------------------------------------------------

\* Shapes of the variables.
TypeOK ==
  /\ length \in 0 .. MaxLength
  /\ address \in [Indexes -> Addresses]
  /\ memory \in [Addresses -> Items]
  /\ cache \in [Indexes -> Items \cup {Hole}]
  /\ cumulative \subseteq Indexes

\* No two items share their bytes.
AddressesDiffer ==
  \A i, j \in Indexes : address[i] = address[j] => i = j

\* A cached item is the one the storage holds, whichever way either was written
\* and wherever items were inserted and deleted since.
CacheAgrees == \A i \in Indexes : cache[i] # Hole => cache[i] = memory[address[i]]

\* The chunk set used last still holds the items it is taken to hold.
WindowRight ==
  window # Hole =>
    \A i \in Indexes : Covers(window, i) => address[i] = Position(window, i)

\* The users of the accessor see an array of items that knows which of them
\* have changed, a delta sending just those: whatever is cached, wherever the
\* bytes are, and whichever way either was written.
ImplementsItemArray == IA!Spec

\* The values collected from deleted items are those the array had.
CollectsWhatGoes ==
  [][Len(deletedItems') > Len(deletedItems) =>
       \E from \in Indexes :
         /\ Array' = IA!RemovedFrom(Array, length, from, length - length')
         /\ deletedItems'[Len(deletedItems')].index = from
         /\ \A k \in 1 .. length - length' :
              deletedItems'[Len(deletedItems')].values[k] = Array[from + k - 1]]_vars
=============================================================================
