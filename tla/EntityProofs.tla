------------------------------ MODULE EntityProofs ------------------------------
(***************************************************************************)
(* Proofs about the entities: the array of items they are kept in          *)
(* (LazyArray, EntityAccessor) and the values they calculate               *)
(* (EntityRecalculation).                                                  *)
(*                                                                         *)
(* The array, for every number of items, chunks and fields: what it caches *)
(* agrees with the storage, its users see the array of ItemArray, the      *)
(* intervals beside it are just the changed items, and the values          *)
(* collected from deleted items are those that go.                         *)
(*                                                                         *)
(* The values, for every number of levels and items: an item that has not  *)
(* changed is what the formulas give as long as the one before it has not  *)
(* changed either (CandlesRight), the indicators are up to the first       *)
(* change (IndicatorsRight), and a record of deleted candles tells which   *)
(* speed the item behind it was calculated from (IsRecord).  From these    *)
(* and from the order in time a recalculation makes everything right; what *)
(* it makes of each item is in RecalculatedIs.                             *)
(***************************************************************************)
EXTENDS EntityAccessor, EntityRecalculation, TLAPS, SequenceTheorems, FiniteSetTheorems,
        WellFoundedInduction

USE DEF Indexes, Items

\* What the variables are; how long the array may get is left to TLC.
Shapes ==
  /\ length \in Nat
  /\ address \in [Indexes -> Addresses]
  /\ memory \in [Addresses -> Items]
  /\ cache \in [Indexes -> Items \cup {Hole}]
  /\ cumulative \subseteq Indexes
  /\ \E S : deletedItems \in Seq(S)

\* That the addresses differ is what keeps a write from changing another item.
IInv ==
  /\ Shapes
  /\ AddressesDiffer
  /\ CacheAgrees
  /\ WindowRight

-----------------------------------------------------------------------------
(* The list operators.                                                     *)

\* A list with one more element.
LEMMA InsertedAtType ==
  ASSUME NEW S, NEW n \in Nat, NEW f \in [0 .. n - 1 -> S], NEW at \in 0 .. n,
         NEW x \in S
  PROVE  IA!InsertedAt(f, n, at, x) \in [0 .. n -> S]
<1>1. \A i \in 0 .. n : (IF i < at THEN f[i] ELSE IF i = at THEN x ELSE f[i - 1]) \in S
  OBVIOUS
<1> QED
  BY <1>1 DEF IA!InsertedAt

\* A list without some of its elements.
LEMMA RemovedFromType ==
  ASSUME NEW S, NEW n \in Nat, NEW f \in [0 .. n - 1 -> S], NEW from \in 0 .. n - 1,
         NEW count \in 1 .. n - from
  PROVE  IA!RemovedFrom(f, n, from, count) \in [0 .. n - count - 1 -> S]
<1>1. \A i \in 0 .. n - count - 1 : (IF i < from THEN f[i] ELSE f[i + count]) \in S
  OBVIOUS
<1> QED
  BY <1>1 DEF IA!RemovedFrom

\* What is stored of an item is an item.
LEMMA StoredItemType ==
  ASSUME NEW item \in Items
  PROVE  IA!StoredItem(item) \in Items
BY LazyArrayAssumption DEF IA!StoredItem

\* There is an item that is stored as it is.
LEMMA EmptyItemType == EmptyItem \in Items
<1>1. PICK value \in Values : TRUE
  BY LazyArrayAssumption
<1> DEFINE item == [f \in Fields |-> Stored(value)]
<1>2. item \in Items /\ IA!StoredItem(item) = item
  BY LazyArrayAssumption DEF IA!StoredItem
<1> HIDE DEF item
<1> QED
  BY <1>2 DEF EmptyItem

\* A function over the indexes of a sequence is a sequence.
LEMMA IsSequence ==
  ASSUME NEW n \in Nat, NEW g, g = [k \in 1 .. n |-> g[k]]
  PROVE  \E S : g \in Seq(S)
<1> DEFINE S == {g[k] : k \in 1 .. n}
<1>1. \A k \in 1 .. n : g[k] \in S
  OBVIOUS
<1> HIDE DEF S
<1>2. [k \in 1 .. n |-> g[k]] \in Seq(S)
  BY <1>1
<1> QED
  BY <1>2

-----------------------------------------------------------------------------
(* Where an item is.                                                       *)

\* A chunk set the storage answers with holds the items it covers.
LEMMA ChunkSetRight ==
  ASSUME NEW addr, NEW n \in Nat, NEW i \in 0 .. n - 1, NEW w \in ChunkSetsOf(addr, n, i)
  PROVE  /\ addr[i] = Position(w, i)
         /\ \A j \in 0 .. n - 1 : Covers(w, j) => addr[j] = Position(w, j)
<1>1. /\ w.from \in 0 .. i /\ w.to \in i + 1 .. n
      /\ \A j \in w.from .. w.to - 1 : addr[j] = Position(w, j)
  BY DEF ChunkSetsOf, IsChunkSetOf
<1>2. \A j \in 0 .. n - 1 : Covers(w, j) => j \in w.from .. w.to - 1
  BY <1>1 DEF Covers
<1>3. Covers(w, i)
  BY <1>1 DEF Covers
<1> QED
  BY <1>1, <1>2, <1>3

\* Through whichever chunk set an item is reached, its place is its address,
\* and the chunk set is right for the items beside it.
LEMMA PlaceIsAddress ==
  ASSUME IInv, NEW i \in Indexes, NEW w \in Windows(i)
  PROVE  /\ Position(w, i) = address[i]
         /\ \A j \in Indexes : Covers(w, j) => address[j] = Position(w, j)
<1>1. CASE InWindow(i)
  BY <1>1 DEF Windows, InWindow, IInv, WindowRight
<1>2. CASE ~InWindow(i)
  <2>1. w \in ChunkSetsOf(address, length, i) /\ length \in Nat
    BY <1>2 DEF Windows, IInv, Shapes
  <2> QED
    BY <2>1, ChunkSetRight
<1> QED
  BY <1>1, <1>2

-----------------------------------------------------------------------------
(* The initial states.                                                     *)

\* The invariant holds at the start.
LEMMA InitHolds == Init => IInv
<1> SUFFICES ASSUME Init PROVE IInv
  OBVIOUS
<1>1. length = 0 /\ Indexes = {}
  BY DEF Init
<1>2. memory \in [Addresses -> Items]
  BY EmptyItemType DEF Init
<1>3. address \in [Indexes -> Addresses] /\ cache \in [Indexes -> Items \cup {Hole}]
  BY <1>1 DEF Init
<1>4. \E S : deletedItems \in Seq(S)
  <2>1. deletedItems \in Seq({})
    BY DEF Init
  <2> QED
    BY <2>1
<1>5. Shapes
  BY <1>1, <1>2, <1>3, <1>4 DEF Shapes, Init
<1>6. WindowRight
  BY DEF Init, WindowRight
<1>7. AddressesDiffer /\ CacheAgrees
  BY <1>1 DEF AddressesDiffer, CacheAgrees
<1> QED
  BY <1>5, <1>6, <1>7 DEF IInv

-----------------------------------------------------------------------------
(* Reading.                                                                *)

\* getItem decodes an item or takes it from the cache.
LEMMA GetKeeps ==
  ASSUME IInv, NEW i \in Indexes, Get(i)
  PROVE  IInv' /\ IA!Get(i)
<1>1. UNCHANGED <<length, address, memory, cumulative, deletedItems>>
  BY DEF Get, storageVars, changeVars
<1>2. Indexes' = Indexes /\ Array' = Array
  BY <1>1 DEF Array
<1>3. CASE Cached(i) # Hole
  <2>1. cache' = cache /\ window' = window /\ returned' = <<"item", cache[i]>>
    BY <1>3 DEF Get, Cached
  <2>2. cache[i] = Array[i]
    BY <1>3 DEF IInv, CacheAgrees, Array, Cached
  <2>3. IInv'
    BY <1>1, <1>2, <2>1
       DEF IInv, Shapes, AddressesDiffer, CacheAgrees, WindowRight
  <2> QED
    BY <1>1, <1>2, <2>1, <2>2, <2>3 DEF IA!Get
<1>4. CASE Cached(i) = Hole
  <2>1. PICK w \in Windows(i) :
          /\ window' = w
          /\ returned' = <<"item", memory[Position(w, i)]>>
          /\ cache' = [cache EXCEPT ![i] = memory[Position(w, i)]]
    BY <1>4 DEF Get
  <2>2. /\ returned' = <<"item", memory[address[i]]>>
        /\ cache' = [cache EXCEPT ![i] = memory[address[i]]]
        /\ \A j \in Indexes : Covers(w, j) => address[j] = Position(w, j)
    BY <2>1, PlaceIsAddress
  <2>3. Shapes'
    BY <1>1, <1>2, <2>2 DEF IInv, Shapes
  <2>4. CacheAgrees'
    BY <1>1, <1>2, <2>2 DEF IInv, Shapes, CacheAgrees
  <2>5. AddressesDiffer' /\ WindowRight'
    BY <1>1, <1>2, <2>1, <2>2 DEF IInv, AddressesDiffer, WindowRight
  <2> QED
    BY <1>1, <1>2, <2>2, <2>3, <2>4, <2>5 DEF IInv, IA!Get, Array
<1> QED
  BY <1>3, <1>4

\* getField reads one field and caches nothing.
LEMMA GetFieldKeeps ==
  ASSUME IInv, NEW i \in Indexes, NEW f \in Fields, GetField(i, f)
  PROVE  IInv' /\ IA!GetField(i, f)
<1>1. UNCHANGED <<length, address, memory, cache, cumulative, deletedItems>>
  BY DEF GetField, storageVars, changeVars
<1>2. Indexes' = Indexes /\ Array' = Array
  BY <1>1 DEF Array
<1>3. Shapes' /\ AddressesDiffer' /\ CacheAgrees'
  BY <1>1, <1>2 DEF IInv, Shapes, AddressesDiffer, CacheAgrees
<1>4. CASE Cached(i) # Hole
  <2>1. window' = window /\ returned' = <<"field", cache[i][f]>>
    BY <1>4 DEF GetField, Cached
  <2>2. cache[i] = Array[i]
    BY <1>4 DEF IInv, CacheAgrees, Array, Cached
  <2> QED
    BY <1>1, <1>2, <1>3, <2>1, <2>2 DEF IInv, WindowRight, IA!GetField
<1>5. CASE Cached(i) = Hole
  <2>1. PICK w \in Windows(i) :
          window' = w /\ returned' = <<"field", memory[Position(w, i)][f]>>
    BY <1>5 DEF GetField
  <2>2. /\ returned' = <<"field", memory[address[i]][f]>>
        /\ \A j \in Indexes : Covers(w, j) => address[j] = Position(w, j)
    BY <2>1, PlaceIsAddress
  <2>3. WindowRight'
    BY <1>1, <1>2, <2>1, <2>2 DEF WindowRight
  <2> QED
    BY <1>1, <1>2, <1>3, <2>2, <2>3 DEF IInv, IA!GetField, Array
<1> QED
  BY <1>4, <1>5

-----------------------------------------------------------------------------
(* Writing.                                                                *)

\* Item i becomes another one, in the storage and, if it is kept, in the cache;
\* no other item does, as no two share an address.
LEMMA WriteKeeps ==
  ASSUME IInv, NEW i \in Indexes, NEW item \in Items, NEW w \in Windows(i),
         window' = w,
         memory' = [memory EXCEPT ![address[i]] = item],
         \/ cache' = [cache EXCEPT ![i] = item]
         \/ cache' = cache /\ cache[i] = Hole,
         cumulative' \subseteq Indexes,
         UNCHANGED <<length, address, deletedItems>>
  PROVE  IInv' /\ Array' = [Array EXCEPT ![i] = item]
<1>1. Indexes' = Indexes
  OBVIOUS
<1>2. \A j \in Indexes : address[j] \in Addresses
  BY DEF IInv, Shapes
<1>3. \A j \in Indexes : memory'[address[j]] = IF j = i THEN item ELSE memory[address[j]]
  BY <1>2 DEF IInv, Shapes, AddressesDiffer
<1>4. Array' = [Array EXCEPT ![i] = item]
  BY <1>1, <1>3 DEF Array
<1>5. Shapes'
  BY <1>1, <1>2 DEF IInv, Shapes
<1>6. \A j \in Indexes : cache'[j] = IF j = i /\ cache' # cache THEN item ELSE cache[j]
  BY DEF IInv, Shapes
<1>7. CacheAgrees'
  <2> SUFFICES ASSUME NEW j \in Indexes, cache'[j] # Hole
               PROVE  cache'[j] = memory'[address[j]]
    BY <1>1 DEF CacheAgrees
  <2>1. CASE j = i
    BY <1>3, <2>1 DEF IInv, Shapes
  <2>2. CASE j # i
    BY <1>3, <1>6, <2>2 DEF IInv, CacheAgrees
  <2> QED
    BY <2>1, <2>2
<1>8. AddressesDiffer'
  BY <1>1 DEF IInv, AddressesDiffer
<1>9. WindowRight'
  BY <1>1, PlaceIsAddress DEF WindowRight
<1> QED
  BY <1>4, <1>5, <1>7, <1>8, <1>9 DEF IInv

\* setItem writes an item and caches what was stored.
LEMMA SetKeeps ==
  ASSUME IInv, NEW i \in Indexes, NEW item \in Items, Set(i, item)
  PROVE  IInv' /\ IA!Set(i, item)
<1> DEFINE stored == IA!StoredItem(item)
<1>1. stored \in Items
  BY StoredItemType
<1> HIDE DEF stored
<1>2. PICK w \in Windows(i) :
        /\ window' = w
        /\ memory' = [memory EXCEPT ![Position(w, i)] = stored]
        /\ cache' = [cache EXCEPT ![i] = stored]
        /\ returned' = <<"item", stored>>
        /\ Noticed(i, memory[Position(w, i)], stored)
        /\ UNCHANGED <<length, address>>
  BY DEF Set, stored
<1>3. Position(w, i) = address[i]
  BY PlaceIsAddress
<1>4. UNCHANGED deletedItems
  BY <1>2 DEF Noticed
<1>5. cumulative' = IF stored = Array[i] THEN cumulative ELSE cumulative \cup {i}
  BY <1>2, <1>3 DEF Noticed, Array
<1>6. cumulative' \subseteq Indexes
  BY <1>5 DEF IInv, Shapes
<1>7. IInv' /\ Array' = [Array EXCEPT ![i] = stored]
  BY <1>1, <1>2, <1>3, <1>4, <1>6, WriteKeeps
<1> QED
  BY <1>2, <1>5, <1>7 DEF IA!Set, IA!Changed, stored

\* setField writes one field, in the cache too if the item is there.
LEMMA SetFieldKeeps ==
  ASSUME IInv, NEW i \in Indexes, NEW f \in Fields, NEW value \in Values,
         SetField(i, f, value)
  PROVE  IInv' /\ IA!SetField(i, f, value)
<1> DEFINE before == memory[address[i]]
           after  == [before EXCEPT ![f] = Stored(value)]
<1>1. before \in Items /\ after \in Items /\ before = Array[i]
  BY LazyArrayAssumption DEF IInv, Shapes, Array
<1>2. PICK w \in Windows(i) :
        /\ window' = w
        /\ memory' = [memory EXCEPT ![Position(w, i)] =
                        [memory[Position(w, i)] EXCEPT ![f] = Stored(value)]]
        /\ cache' = IF cache[i] # Hole
                      THEN [cache EXCEPT ![i] = [cache[i] EXCEPT ![f] = Stored(value)]]
                      ELSE cache
        /\ returned' = <<"field", Stored(value)>>
        /\ Noticed(i, memory[Position(w, i)][f], Stored(value))
        /\ UNCHANGED <<length, address>>
  BY DEF SetField
<1>3. Position(w, i) = address[i]
  BY PlaceIsAddress
<1>4. memory' = [memory EXCEPT ![address[i]] = after]
  BY <1>2, <1>3
<1>5. \/ cache' = [cache EXCEPT ![i] = after]
      \/ cache' = cache /\ cache[i] = Hole
  BY <1>2 DEF IInv, CacheAgrees
<1>6. before[f] = Stored(value) <=> after = before
  BY <1>1
<1>7. /\ cumulative' = IF after = before THEN cumulative ELSE cumulative \cup {i}
      /\ UNCHANGED deletedItems
  BY <1>2, <1>3, <1>6 DEF Noticed
<1>8. cumulative' \subseteq Indexes
  BY <1>7 DEF IInv, Shapes
<1> HIDE DEF after, before
<1>9. IInv' /\ Array' = [Array EXCEPT ![i] = after]
  BY <1>1, <1>2, <1>4, <1>5, <1>7, <1>8, WriteKeeps
<1>10. after = [Array[i] EXCEPT ![f] = Stored(value)]
  BY <1>1 DEF after
<1> QED
  BY <1>1, <1>2, <1>7, <1>9, <1>10 DEF IA!SetField, IA!Changed

-----------------------------------------------------------------------------
(* Insertions and deletions.                                               *)

\* addAfter: the addresses and the cache move alike.
LEMMA AddAfterKeeps ==
  ASSUME IInv, NEW index \in -1 .. length - 1, NEW item \in Items,
         AddAfter(index, item)
  PROVE  IInv' /\ IA!AddAfter(index, item)
<1> DEFINE at     == index + 1
           stored == IA!StoredItem(item)
<1>1. /\ length \in Nat /\ at \in 0 .. length /\ at - 1 = index
      /\ stored \in Items
  BY StoredItemType DEF IInv, Shapes
<1> HIDE DEF stored, at
<1>2. PICK a \in NewAddresses(at) :
        /\ address' = IA!InsertedAt(address, length, at, a)
        /\ memory' = [memory EXCEPT ![a] = stored]
        /\ length' = length + 1
        /\ cache' = IA!InsertedAt(cache, length, at, stored)
        /\ cumulative' = Inserted(cumulative, at)
        /\ deletedItems' =
             [k \in DOMAIN deletedItems |->
                [ index  |-> IF deletedItems[k].index > at
                               THEN deletedItems[k].index + 1
                               ELSE deletedItems[k].index,
                  values |-> deletedItems[k].values ]]
        /\ returned' = <<"item", stored>>
        /\ window' \in ChunkSetsOf(address', length', at)
  BY DEF AddAfter, at, stored
<1>3. /\ Indexes' = 0 .. length
      /\ length' - 1 = length
  <2>1. length' = length + 1
    BY <1>2
  <2>2. length' - 1 = length
    BY <1>1, <2>1
  <2>3. QED
    BY <2>2
<1>4. a \in Addresses /\ \A j \in Indexes : address[j] # a
  BY DEF NewAddresses
<1>5. \A j \in 0 .. length :
        address'[j] = IF j < at THEN address[j] ELSE IF j = at THEN a ELSE address[j - 1]
  BY <1>2 DEF IA!InsertedAt
<1>6. \A j \in 0 .. length :
        cache'[j] = IF j < at THEN cache[j] ELSE IF j = at THEN stored ELSE cache[j - 1]
  BY <1>2 DEF IA!InsertedAt
<1>7. \A j \in Indexes : memory'[address[j]] = memory[address[j]]
  BY <1>2, <1>4 DEF IInv, Shapes
<1>8. memory'[a] = stored
  BY <1>2, <1>4 DEF IInv, Shapes
<1>9. Shapes'
  <2>1. address \in [0 .. length - 1 -> Addresses] /\ cache \in [0 .. length - 1 -> Items \cup {Hole}]
    BY DEF IInv, Shapes
  <2>2. address' \in [Indexes' -> Addresses]
    BY <1>1, <1>2, <1>3, <1>4, <2>1, InsertedAtType
  <2>3. cache' \in [Indexes' -> Items \cup {Hole}]
    BY <1>1, <1>2, <1>3, <2>1, InsertedAtType
  <2>4. memory' \in [Addresses -> Items]
    BY <1>1, <1>2 DEF IInv, Shapes
  <2>5. (\E S : deletedItems \in Seq(S))'
    <3>1. Len(deletedItems) \in Nat /\ DOMAIN deletedItems = 1 .. Len(deletedItems)
      BY DEF IInv, Shapes
    <3>2. deletedItems' = [k \in 1 .. Len(deletedItems) |-> deletedItems'[k]]
      BY <1>2, <3>1
    <3> QED
      BY <3>1, <3>2, IsSequence
  <2>6. length' \in Nat
    BY <1>1, <1>2
  <2>7. cumulative' \subseteq Indexes'
    <3>1. \A i \in cumulative : i \in 0 .. length - 1
      BY DEF IInv, Shapes
    <3>2. \A i \in cumulative : (IF i < at THEN i ELSE i + 1) \in 0 .. length
      BY <1>1, <3>1
    <3> QED
      BY <1>1, <1>2, <1>3, <3>2 DEF Inserted
  <2> QED
    BY <2>2, <2>3, <2>4, <2>5, <2>6, <2>7 DEF Shapes
<1>10. AddressesDiffer'
  <2> SUFFICES ASSUME NEW i \in 0 .. length, NEW j \in 0 .. length,
                      address'[i] = address'[j]
               PROVE  i = j
    BY <1>3 DEF AddressesDiffer
  <2>1. \A k \in 0 .. length : k < at => k \in Indexes
    BY <1>1
  <2>2. \A k \in 0 .. length : k > at => k - 1 \in Indexes
    BY <1>1
  <2> QED
    BY <1>1, <1>4, <1>5, <2>1, <2>2 DEF IInv, AddressesDiffer
<1>11. \A j \in 0 .. length : j < at => j \in Indexes
  BY <1>1
<1>12. \A j \in 0 .. length : j > at => j - 1 \in Indexes
  BY <1>1
<1>13. CacheAgrees'
  <2> SUFFICES ASSUME NEW j \in 0 .. length, cache'[j] # Hole
               PROVE  cache'[j] = memory'[address'[j]]
    BY <1>3 DEF CacheAgrees
  <2>1. CASE j < at
    BY <1>5, <1>6, <1>7, <1>11, <2>1 DEF IInv, CacheAgrees
  <2>2. CASE j = at
    BY <1>1, <1>5, <1>6, <1>8, <2>2
  <2>3. CASE j > at
    <3>1. cache'[j] = cache[j - 1] /\ address'[j] = address[j - 1]
      BY <1>1, <1>5, <1>6, <2>3
    <3> QED
      BY <1>7, <1>12, <2>3, <3>1 DEF IInv, CacheAgrees
  <2> QED
    BY <1>1, <2>1, <2>2, <2>3
<1>14. WindowRight'
  <2> DEFINE n == length + 1
  <2>1. n \in Nat /\ at \in 0 .. n - 1 /\ Indexes' = 0 .. n - 1
    BY <1>1, <1>3
  <2>2. window' \in ChunkSetsOf(address', n, at)
    BY <1>2
  <2> HIDE DEF n
  <2>3. \A j \in 0 .. n - 1 : Covers(window', j) => address'[j] = Position(window', j)
    BY <2>1, <2>2, ChunkSetRight
  <2>4. \A j \in Indexes' : Covers(window, j)' <=> Covers(window', j)
    BY DEF Covers
  <2>5. \A j \in Indexes' : Position(window, j)' = Position(window', j)
    BY DEF Position
  <2> QED
    BY <2>1, <2>3, <2>4, <2>5 DEF WindowRight
<1>15. Array' = IA!InsertedAt(Array, length, index + 1, stored)
  <2>1. \A j \in 0 .. length :
          memory'[address'[j]] = IF j < at THEN Array[j]
                                 ELSE IF j = at THEN stored ELSE Array[j - 1]
    <3> TAKE j \in 0 .. length
    <3>1. CASE j < at
      BY <1>5, <1>7, <1>11, <3>1 DEF Array
    <3>2. CASE j = at
      BY <1>1, <1>5, <1>8, <3>2
    <3>3. CASE j > at
      <4>1. address'[j] = address[j - 1]
        BY <1>1, <1>5, <3>3
      <4>2. memory'[address[j - 1]] = Array[j - 1]
        BY <1>7, <1>12, <3>3 DEF Array
      <4> QED
        BY <1>1, <3>3, <4>1, <4>2
    <3> QED
      BY <1>1, <3>1, <3>2, <3>3
  <2>2. Array' = [j \in 0 .. length |-> memory'[address'[j]]]
    BY <1>3 DEF Array
  <2> QED
    BY <2>1, <2>2 DEF IA!InsertedAt, at
<1>16. length < MaxLength
  BY <1>1, LazyArrayAssumption DEF AddAfter, IInv, Shapes
<1>17. cumulative' = {IF i <= index THEN i ELSE i + 1 : i \in cumulative} \cup {index + 1}
  <2>1. \A i \in cumulative : i < at <=> i <= index
    BY DEF IInv, Shapes, at
  <2>2. {IF i < at THEN i ELSE i + 1 : i \in cumulative}
          = {IF i <= index THEN i ELSE i + 1 : i \in cumulative}
    BY <2>1
  <2> QED
    BY <1>2, <2>2 DEF Inserted, at
<1> QED
  BY <1>2, <1>9, <1>10, <1>13, <1>14, <1>15, <1>16, <1>17 DEF IInv, IA!AddAfter, stored

\* deleteItems: the addresses and the cache close up alike.
LEMMA DeleteItemsKeeps ==
  ASSUME IInv, NEW from \in Indexes, NEW count \in 1 .. length - from,
         NEW collect \in BOOLEAN, DeleteItems(from, count, collect)
  PROVE  IInv' /\ IA!DeleteItems(from, count)
<1> DEFINE n == length - count
<1>1. /\ length \in Nat /\ from \in 0 .. length - 1 /\ count \in 1 .. length - from
      /\ n \in Nat
  BY DEF IInv, Shapes
<1>2. /\ length' = n
      /\ Indexes' = 0 .. n - 1
      /\ address' = IA!RemovedFrom(address, length, from, count)
      /\ cache' = IA!RemovedFrom(cache, length, from, count)
      /\ cumulative' = Removed(cumulative, from, count)
      /\ memory' = Kept(address', length')
      /\ window' = Hole
      /\ UNCHANGED returned
  BY DEF DeleteItems
<1>3. \A j \in 0 .. n - 1 :
        /\ address'[j] = IF j < from THEN address[j] ELSE address[j + count]
        /\ cache'[j] = IF j < from THEN cache[j] ELSE cache[j + count]
  BY <1>2 DEF IA!RemovedFrom
<1>4. \A j \in 0 .. n - 1 : j \in Indexes /\ j + count \in Indexes
  BY <1>1
<1> HIDE DEF n
<1>5. \A j \in 0 .. n - 1 : address'[j] \in Addresses
  BY <1>3, <1>4 DEF IInv, Shapes
<1>6. \A j \in 0 .. n - 1 : memory'[address'[j]] = memory[address'[j]]
  BY <1>2, <1>5 DEF Kept
<1>7. \E S : deletedItems' \in Seq(S)
  <2>1. PICK records \in Collected(from, count, collect) :
          deletedItems' =
            [k \in DOMAIN records |->
               [ index  |-> IF records[k].index > from
                              THEN IF from > records[k].index - count
                                     THEN from
                                     ELSE records[k].index - count
                              ELSE records[k].index,
                 values |-> records[k].values ]]
    BY DEF DeleteItems
  <2>2. Len(records) \in Nat /\ DOMAIN records = 1 .. Len(records)
    <3>1. PICK S : deletedItems \in Seq(S)
      BY DEF IInv, Shapes
    <3>2. CASE records = deletedItems
      BY <3>1, <3>2
    <3>3. ASSUME NEW values, records = Append(deletedItems, [index |-> from, values |-> values])
          PROVE  Len(records) \in Nat /\ DOMAIN records = 1 .. Len(records)
      <4> DEFINE record == [index |-> from, values |-> values]
      <4> HIDE DEF record
      <4>1. deletedItems \in Seq(S \cup {record})
        BY <3>1
      <4>2. Append(deletedItems, record) \in Seq(S \cup {record})
        BY <4>1
      <4> QED
        BY <3>3, <4>2 DEF record
    <3> QED
      BY <3>2, <3>3 DEF Collected
  <2>3. deletedItems' = [k \in 1 .. Len(records) |-> deletedItems'[k]]
    BY <2>1, <2>2
  <2> QED
    BY <2>2, <2>3, IsSequence
<1>8. Shapes'
  <2>1. /\ address \in [0 .. length - 1 -> Addresses]
        /\ cache \in [0 .. length - 1 -> Items \cup {Hole}]
    BY DEF IInv, Shapes
  <2>2. address' \in [Indexes' -> Addresses]
    BY <1>1, <1>2, <2>1, RemovedFromType DEF n
  <2>3. cache' \in [Indexes' -> Items \cup {Hole}]
    BY <1>1, <1>2, <2>1, RemovedFromType DEF n
  <2>4. memory' \in [Addresses -> Items]
    BY <1>2, EmptyItemType DEF Kept, IInv, Shapes
  <2>5. cumulative' \subseteq Indexes'
    <3>1. \A i \in cumulative : i \in 0 .. length - 1
      BY DEF IInv, Shapes
    <3>2. \A i \in cumulative : i < from \/ i >= from + count =>
            (IF i < from THEN i ELSE i - count) \in 0 .. n - 1
      BY <1>1, <3>1 DEF n
    <3> QED
      BY <1>2, <3>2 DEF Removed
  <2> QED
    BY <1>1, <1>2, <1>7, <2>2, <2>3, <2>4, <2>5 DEF Shapes
<1>9. AddressesDiffer'
  <2> SUFFICES ASSUME NEW i \in 0 .. n - 1, NEW j \in 0 .. n - 1, address'[i] = address'[j]
               PROVE  i = j
    BY <1>2 DEF AddressesDiffer
  <2> DEFINE was(k) == IF k < from THEN k ELSE k + count
  <2>1. /\ was(i) \in Indexes /\ was(j) \in Indexes
        /\ address[was(i)] = address[was(j)]
    BY <1>3, <1>4
  <2>2. was(i) = was(j)
    BY <2>1 DEF IInv, AddressesDiffer
  <2> QED
    BY <1>1, <2>2
<1>10. CacheAgrees'
  <2> SUFFICES ASSUME NEW j \in 0 .. n - 1, cache'[j] # Hole
               PROVE  cache'[j] = memory'[address'[j]]
    BY <1>2 DEF CacheAgrees
  <2> QED
    BY <1>3, <1>4, <1>6 DEF IInv, CacheAgrees
<1>11. WindowRight'
  BY <1>2 DEF WindowRight
<1>12. Array' = IA!RemovedFrom(Array, length, from, count)
  <2>1. \A j \in 0 .. n - 1 :
          memory'[address'[j]] = IF j < from THEN Array[j] ELSE Array[j + count]
    BY <1>3, <1>4, <1>6 DEF Array
  <2>2. Array' = [j \in 0 .. n - 1 |-> memory'[address'[j]]]
    BY <1>2 DEF Array
  <2> QED
    BY <2>1, <2>2 DEF IA!RemovedFrom, n
<1> QED
  BY <1>2, <1>8, <1>9, <1>10, <1>11, <1>12 DEF IInv, IA!DeleteItems, Removed, n

-----------------------------------------------------------------------------
(* What the Storage asks for besides.                                      *)

\* The calls that leave the items alone.
LEMMA ClearsKeep ==
  ASSUME IInv, ClearDeleted \/ ClearCumulativeChanges \/ ClearAll
  PROVE  IInv' /\ (IA!Clear \/ UNCHANGED IA!arrayVars)
<1>1. UNCHANGED <<length, address, memory, returned>> /\ Indexes' = Indexes
  BY DEF ClearDeleted, ClearCumulativeChanges, ClearAll, storageVars
<1>2. Array' = Array
  BY <1>1 DEF Array
<1>3. \/ UNCHANGED <<cache, window>>
      \/ cache' = [i \in Indexes |-> Hole] /\ window' = Hole
  BY DEF ClearDeleted, ClearCumulativeChanges, ClearAll, ForgetAll
<1>4. cumulative' = cumulative \/ cumulative' = {}
  BY DEF ClearDeleted, ClearCumulativeChanges, ClearAll, ForgetAll
<1>5. (\E S : deletedItems \in Seq(S))'
  <2>1. deletedItems' = deletedItems \/ deletedItems' = <<>>
    BY DEF ClearDeleted, ClearCumulativeChanges, ClearAll, ForgetAll
  <2>2. << >> \in Seq({})
    OBVIOUS
  <2> QED
    BY <2>1, <2>2 DEF IInv, Shapes
<1>6. Shapes'
  BY <1>1, <1>3, <1>4, <1>5 DEF IInv, Shapes
<1>7. AddressesDiffer' /\ CacheAgrees' /\ WindowRight'
  BY <1>1, <1>3 DEF IInv, Shapes, AddressesDiffer, CacheAgrees, WindowRight
<1> QED
  BY <1>1, <1>2, <1>4, <1>6, <1>7 DEF IInv, IA!Clear, IA!arrayVars

\* A delta writes past the accessor, which forgets everything.
LEMMA ReceiveKeeps ==
  ASSUME IInv, NEW i \in Indexes, NEW item \in Items, Receive(i, item)
  PROVE  IInv' /\ IA!Receive(i, item)
<1>1. /\ memory' = [memory EXCEPT ![address[i]] = item]
      /\ cache' = [j \in Indexes |-> Hole]
      /\ window' = Hole
      /\ cumulative' = {} /\ deletedItems' = <<>>
      /\ UNCHANGED <<length, address, returned>>
      /\ Indexes' = Indexes
  BY DEF Receive, ForgetAll
<1>2. \A j \in Indexes : memory'[address[j]] = IF j = i THEN item ELSE memory[address[j]]
  BY <1>1 DEF IInv, Shapes, AddressesDiffer
<1>3. Array' = [Array EXCEPT ![i] = item]
  BY <1>1, <1>2 DEF Array
<1>4. (\E S : deletedItems \in Seq(S))'
  <2>1. << >> \in Seq({})
    OBVIOUS
  <2> QED
    BY <1>1, <2>1
<1>5. Shapes'
  BY <1>1, <1>4 DEF IInv, Shapes
<1>6. AddressesDiffer' /\ CacheAgrees' /\ WindowRight'
  BY <1>1 DEF IInv, AddressesDiffer, CacheAgrees, WindowRight
<1> QED
  BY <1>1, <1>3, <1>5, <1>6 DEF IInv, IA!Receive

-----------------------------------------------------------------------------
(* Every step.                                                             *)

\* A step that leaves the accessor alone.
LEMMA StutterKeeps ==
  ASSUME IInv, UNCHANGED vars
  PROVE  IInv' /\ UNCHANGED IA!arrayVars
<1>1. UNCHANGED <<length, address, memory, cache, window, cumulative, deletedItems, returned>>
  BY DEF vars, storageVars, changeVars
<1>2. Indexes' = Indexes /\ Array' = Array
  BY <1>1 DEF Array
<1> QED
  BY <1>1, <1>2
     DEF IInv, Shapes, AddressesDiffer, CacheAgrees, WindowRight, IA!arrayVars

\* Every step keeps the invariant and is a step of the array, or leaves it.
LEMMA NextKeeps ==
  ASSUME IInv, [Next]_vars
  PROVE  IInv' /\ [IA!Next]_IA!arrayVars
<1> USE DEF IA!Indexes, IA!Items
<1>1. ASSUME NEW i \in Indexes, Get(i)
      PROVE  IInv' /\ IA!Next
  BY <1>1, GetKeeps DEF IA!Next
<1>2. ASSUME NEW i \in Indexes, NEW f \in Fields, GetField(i, f)
      PROVE  IInv' /\ IA!Next
  BY <1>2, GetFieldKeeps DEF IA!Next
<1>3. ASSUME NEW i \in Indexes, NEW item \in Items, Set(i, item)
      PROVE  IInv' /\ IA!Next
  BY <1>3, SetKeeps DEF IA!Next
<1>4. ASSUME NEW i \in Indexes, NEW f \in Fields, NEW value \in Values,
             SetField(i, f, value)
      PROVE  IInv' /\ IA!Next
  BY <1>4, SetFieldKeeps DEF IA!Next
<1>5. ASSUME NEW index \in -1 .. length - 1, NEW item \in Items, AddAfter(index, item)
      PROVE  IInv' /\ IA!Next
  BY <1>5, AddAfterKeeps DEF IA!Next
<1>6. ASSUME NEW from \in Indexes, NEW count \in 1 .. length - from,
             NEW collect \in BOOLEAN, DeleteItems(from, count, collect)
      PROVE  IInv' /\ IA!Next
  BY <1>6, DeleteItemsKeeps DEF IA!Next
<1>7. CASE ClearDeleted \/ ClearCumulativeChanges \/ ClearAll
  BY <1>7, ClearsKeep DEF IA!Next
<1>8. ASSUME NEW i \in Indexes, NEW item \in Items, Receive(i, item)
      PROVE  IInv' /\ IA!Next
  BY <1>8, ReceiveKeeps DEF IA!Next
<1>9. CASE UNCHANGED vars
  BY <1>9, StutterKeeps
<1> QED
  BY <1>1, <1>2, <1>3, <1>4, <1>5, <1>6, <1>7, <1>8, <1>9 DEF Next

-----------------------------------------------------------------------------

\* The initial states are those of the array.
LEMMA InitIsArrays == Init => IA!Init
BY DEF Init, IA!Init, IA!Indexes, Array

\* What an accessor caches is what the storage holds, and the chunk set it used
\* last still holds the items it is taken to hold, whatever was written,
\* inserted and deleted (getItem, setItem, addAfter, deleteItems of
\* lazy-array.ts).
THEOREM CacheCorrect == Spec => [](CacheAgrees /\ WindowRight)
<1>1. Spec => []IInv
  <2>1. IInv /\ [Next]_vars => IInv'
    BY NextKeeps
  <2> QED
    BY InitHolds, <2>1, PTL DEF Spec
<1>2. IInv => CacheAgrees /\ WindowRight
  BY DEF IInv
<1> QED
  BY <1>1, <1>2, PTL

\* Behind its cache, windows and addresses an accessor is an array of items that
\* knows which of them have changed.
THEOREM AccessorIsItemArray == Spec => ImplementsItemArray
<1>1. Spec => []IInv
  <2>1. IInv /\ [Next]_vars => IInv'
    BY NextKeeps
  <2> QED
    BY InitHolds, <2>1, PTL DEF Spec
<1>2. IInv /\ [Next]_vars => [IA!Next]_IA!arrayVars
  BY NextKeeps
<1> QED
  BY InitIsArrays, <1>1, <1>2, PTL DEF Spec, ImplementsItemArray, IA!Spec

\* The intervals beside a LazyArray do not disturb it: what is proved of the
\* accessor holds of the composition too.
THEOREM CompositionIsLazyArray == SpecAccessor => Spec
<1>1. InitAccessor => Init
  BY DEF InitAccessor
<1>2. [NextAccessor]_accessorVars => [Next]_vars
  <2>1. CASE NextAccessor
    BY <2>1 DEF NextAccessor, Next
  <2>2. CASE UNCHANGED accessorVars
    BY <2>2 DEF accessorVars
  <2> QED
    BY <2>1, <2>2
<1> QED
  BY <1>1, <1>2, PTL DEF SpecAccessor, Spec

-----------------------------------------------------------------------------
(* Intervals.                                                              *)

Pairs == Int \X Int

\* Intervals of a list of n items that are in order and never touch.
Spans(v, n) ==
  /\ v \in Seq(Pairs)
  /\ \A i \in 1 .. Len(v) : /\ 0 <= CI!Start(v[i])
                            /\ CI!Start(v[i]) < CI!End(v[i])
                            /\ CI!End(v[i]) <= n
  /\ \A i, j \in 1 .. Len(v) : i < j => CI!End(v[i]) < CI!Start(v[j])

Between(p, x) == CI!Start(p) <= x /\ x < CI!End(p)
Within(v, x) == \E i \in 1 .. Len(v) : Between(v[i], x)

\* An interval is the pair of its start and its length.
LEMMA PairFacts ==
  /\ \A p \in Pairs : CI!Start(p) \in Int /\ CI!End(p) \in Int
  /\ \A a, b \in Int : /\ CI!Interval(a, b) \in Pairs
                       /\ CI!Start(CI!Interval(a, b)) = a
                       /\ CI!End(CI!Interval(a, b)) = b
  /\ \A a, c \in Int : /\ <<a, c>> \in Pairs
                       /\ CI!Start(<<a, c>>) = a
                       /\ CI!End(<<a, c>>) = a + c
<1>1. \A p \in Pairs : p[1] \in Int /\ p[2] \in Int
  BY DEF Pairs
<1>2. \A a, c \in Int : /\ <<a, c>> \in Pairs
                        /\ CI!Start(<<a, c>>) = a
                        /\ CI!End(<<a, c>>) = a + c
  BY DEF Pairs, CI!Start, CI!End
<1>3. \A p \in Pairs : CI!Start(p) = p[1] /\ CI!End(p) = p[1] + p[2]
  BY DEF CI!Start, CI!End
<1>4. \A a, b \in Int : CI!Interval(a, b) = <<a, b - a>> /\ b - a \in Int
  BY DEF CI!Interval
<1>5. \A a, b \in Int : /\ CI!Interval(a, b) \in Pairs
                        /\ CI!Start(CI!Interval(a, b)) = a
                        /\ CI!End(CI!Interval(a, b)) = b
  BY <1>2, <1>4
<1> QED
  BY <1>1, <1>2, <1>3, <1>5

\* An interval that is one longer.
LEMMA Longer ==
  ASSUME NEW p \in Pairs
  PROVE  /\ <<p[1], p[2] + 1>> \in Pairs
         /\ CI!Start(<<p[1], p[2] + 1>>) = CI!Start(p)
         /\ CI!End(<<p[1], p[2] + 1>>) = CI!End(p) + 1
BY DEF Pairs, CI!Start, CI!End

\* An interval one place further on.
LEMMA Moved ==
  ASSUME NEW p \in Pairs
  PROVE  /\ <<p[1] + 1, p[2]>> \in Pairs
         /\ CI!Start(<<p[1] + 1, p[2]>>) = CI!Start(p) + 1
         /\ CI!End(<<p[1] + 1, p[2]>>) = CI!End(p) + 1
BY DEF Pairs, CI!Start, CI!End

\* The elements of a sequence with one more at position i.
LEMMA InsertAtIs ==
  ASSUME NEW T, NEW s \in Seq(T), NEW i \in 1 .. Len(s) + 1, NEW e \in T
  PROVE  /\ CI!InsertAt(s, i, e) \in Seq(T)
         /\ Len(CI!InsertAt(s, i, e)) = Len(s) + 1
         /\ \A j \in 1 .. Len(s) + 1 :
              CI!InsertAt(s, i, e)[j] =
                IF j < i THEN s[j] ELSE IF j = i THEN e ELSE s[j - 1]
<1> DEFINE before == SubSeq(s, 1, i - 1)
           after  == SubSeq(s, i, Len(s))
           both   == before \o <<e>>
           r      == CI!InsertAt(s, i, e)
<1>1. Len(s) \in Nat /\ i \in Nat /\ <<e>> \in Seq(T) /\ Len(<<e>>) = 1 /\ <<e>>[1] = e
  OBVIOUS
<1>2. r = both \o after
  BY DEF CI!InsertAt
<1>3. /\ before \in Seq(T) /\ Len(before) = i - 1
      /\ \A j \in 1 .. i - 1 : before[j] = s[j]
  OBVIOUS
<1>4. /\ after \in Seq(T) /\ Len(after) = Len(s) - i + 1
      /\ \A j \in 1 .. Len(s) - i + 1 : after[j] = s[i + j - 1]
  OBVIOUS
<1> HIDE DEF before, after
<1>5. /\ both \in Seq(T) /\ Len(both) = i
      /\ \A j \in 1 .. i - 1 : both[j] = s[j]
      /\ both[i] = e
  BY <1>1, <1>3
<1> HIDE DEF both, r
<1>6. /\ r \in Seq(T) /\ Len(r) = i + (Len(s) - i + 1)
      /\ \A j \in 1 .. i + (Len(s) - i + 1) :
           r[j] = IF j <= i THEN both[j] ELSE after[j - i]
  BY <1>1, <1>2, <1>4, <1>5, ConcatProperties
<1>7. i + (Len(s) - i + 1) = Len(s) + 1
  BY <1>1
<1>8. ASSUME NEW j \in 1 .. Len(s) + 1
      PROVE  r[j] = IF j < i THEN s[j] ELSE IF j = i THEN e ELSE s[j - 1]
  <2>1. CASE j <= i
    BY <2>1, <1>1, <1>5, <1>6, <1>7
  <2>2. CASE j > i
    <3>1. j - i \in 1 .. Len(s) - i + 1 /\ i + (j - i) - 1 = j - 1
      BY <2>2, <1>1
    <3>2. after[j - i] = s[j - 1]
      BY <3>1, <1>4
    <3>3. j \in 1 .. i + (Len(s) - i + 1) /\ ~ (j <= i)
      BY <2>2, <1>1, <1>7
    <3>4. r[j] = after[j - i]
      BY <3>3, <1>6
    <3> QED
      BY <2>2, <3>2, <3>4, <1>1
  <2> QED
    BY <2>1, <2>2, <1>1
<1> QED
  BY <1>6, <1>7, <1>8 DEF r

\* The elements of a sequence without that at position i.
LEMMA RemoveAtIs ==
  ASSUME NEW T, NEW s \in Seq(T), NEW i \in 1 .. Len(s)
  PROVE  /\ CI!RemoveAt(s, i) \in Seq(T)
         /\ Len(CI!RemoveAt(s, i)) = Len(s) - 1
         /\ \A j \in 1 .. Len(s) - 1 :
              CI!RemoveAt(s, i)[j] = IF j < i THEN s[j] ELSE s[j + 1]
<1> DEFINE before == SubSeq(s, 1, i - 1)
           after  == SubSeq(s, i + 1, Len(s))
           r      == CI!RemoveAt(s, i)
<1>1. Len(s) \in Nat /\ i \in Nat
  OBVIOUS
<1>2. r = before \o after
  BY DEF CI!RemoveAt
<1>3. /\ before \in Seq(T) /\ Len(before) = i - 1
      /\ \A j \in 1 .. i - 1 : before[j] = s[j]
  OBVIOUS
<1>4. /\ after \in Seq(T) /\ Len(after) = Len(s) - i
      /\ \A j \in 1 .. Len(s) - i : after[j] = s[i + j]
  OBVIOUS
<1> HIDE DEF before, after, r
<1>5. /\ r \in Seq(T) /\ Len(r) = Len(before) + Len(after)
      /\ \A j \in 1 .. Len(before) + Len(after) :
           r[j] = IF j <= Len(before) THEN before[j] ELSE after[j - Len(before)]
  BY <1>2, <1>3, <1>4, ConcatProperties
<1>6. Len(before) + Len(after) = Len(s) - 1
  BY <1>1, <1>3, <1>4
<1>7. ASSUME NEW j \in 1 .. Len(s) - 1
      PROVE  r[j] = IF j < i THEN s[j] ELSE s[j + 1]
  <2>1. r[j] = IF j <= Len(before) THEN before[j] ELSE after[j - Len(before)]
    BY <1>5, <1>6
  <2>2. CASE j < i
    <3>1. j \in 1 .. i - 1 /\ j <= Len(before)
      BY <2>2, <1>1, <1>3
    <3> QED
      BY <2>1, <2>2, <3>1, <1>3
  <2>3. CASE ~ (j < i)
    <3>1. /\ j - Len(before) \in 1 .. Len(s) - i /\ i + (j - Len(before)) = j + 1
          /\ ~ (j <= Len(before))
      BY <2>3, <1>1, <1>3
    <3>2. after[j - Len(before)] = s[j + 1]
      BY <3>1, <1>4
    <3> QED
      BY <2>1, <2>3, <3>1, <3>2
  <2> QED
    BY <2>2, <2>3
<1> QED
  BY <1>5, <1>6, <1>7 DEF r

\* What the parts of Spans say, with the ends as numbers.
LEMMA SpansFacts ==
  ASSUME NEW v, NEW n \in Nat, Spans(v, n)
  PROVE  /\ v \in Seq(Pairs) /\ Len(v) \in Nat
         /\ \A i \in 1 .. Len(v) :
              /\ v[i] \in Pairs
              /\ CI!Start(v[i]) \in Int /\ CI!End(v[i]) \in Int
              /\ 0 <= CI!Start(v[i])
              /\ CI!Start(v[i]) < CI!End(v[i])
              /\ CI!End(v[i]) <= n
         /\ \A i, j \in 1 .. Len(v) : i < j => CI!End(v[i]) < CI!Start(v[j])
BY PairFacts DEF Spans

\* An interval is put between others.
LEMMA SpansInserted ==
  ASSUME NEW v, NEW n \in Nat, Spans(v, n), NEW i \in 1 .. Len(v) + 1,
         NEW p \in Pairs, 0 <= CI!Start(p), CI!Start(p) < CI!End(p), CI!End(p) <= n,
         \A j \in 1 .. Len(v) : j < i => CI!End(v[j]) < CI!Start(p),
         \A j \in 1 .. Len(v) : i <= j => CI!End(p) < CI!Start(v[j])
  PROVE  /\ Spans(CI!InsertAt(v, i, p), n)
         /\ \A x \in Int : Within(CI!InsertAt(v, i, p), x) <=> Within(v, x) \/ Between(p, x)
<1> DEFINE r == CI!InsertAt(v, i, p)
<1>1. /\ v \in Seq(Pairs) /\ Len(v) \in Nat
      /\ \A j \in 1 .. Len(v) :
           /\ CI!Start(v[j]) \in Int /\ CI!End(v[j]) \in Int
           /\ 0 <= CI!Start(v[j])
           /\ CI!Start(v[j]) < CI!End(v[j])
           /\ CI!End(v[j]) <= n
      /\ \A j, k \in 1 .. Len(v) : j < k => CI!End(v[j]) < CI!Start(v[k])
  BY SpansFacts
<1>2. CI!Start(p) \in Int /\ CI!End(p) \in Int
  BY PairFacts
<1>3. /\ r \in Seq(Pairs) /\ Len(r) = Len(v) + 1
      /\ \A j \in 1 .. Len(v) + 1 :
           r[j] = IF j < i THEN v[j] ELSE IF j = i THEN p ELSE v[j - 1]
  BY <1>1, InsertAtIs
<1> HIDE DEF r
<1>4. \A j \in 1 .. Len(r) :
        \/ j < i /\ j \in 1 .. Len(v) /\ r[j] = v[j]
        \/ j = i /\ r[j] = p
        \/ i < j /\ j - 1 \in 1 .. Len(v) /\ i <= j - 1 /\ r[j] = v[j - 1]
  BY <1>1, <1>3
<1>5. \A j \in 1 .. Len(r) : /\ 0 <= CI!Start(r[j])
                             /\ CI!Start(r[j]) < CI!End(r[j])
                             /\ CI!End(r[j]) <= n
  BY <1>1, <1>4
<1>6. ASSUME NEW j \in 1 .. Len(r), NEW k \in 1 .. Len(r), j < k
      PROVE  CI!End(r[j]) < CI!Start(r[k])
  <2>1. CASE j < i /\ k < i
    <3>1. j \in 1 .. Len(v) /\ k \in 1 .. Len(v) /\ r[j] = v[j] /\ r[k] = v[k]
      BY <2>1, <1>4
    <3> QED
      BY <3>1, <1>1, <1>6
  <2>2. CASE j < i /\ k = i
    BY <2>2, <1>1, <1>4, <1>6
  <2>3. CASE j < i /\ i < k
    <3>1. j \in 1 .. Len(v) /\ k - 1 \in 1 .. Len(v) /\ j < k - 1
          /\ r[j] = v[j] /\ r[k] = v[k - 1]
      BY <2>3, <1>4
    <3> QED
      BY <3>1, <1>1
  <2>4. CASE j = i /\ i < k
    <3>1. k - 1 \in 1 .. Len(v) /\ i <= k - 1 /\ r[j] = p /\ r[k] = v[k - 1]
      BY <2>4, <1>4
    <3> QED
      BY <3>1
  <2>5. CASE i < j
    <3>1. i < k
      BY <2>5, <1>1, <1>3, <1>6
    <3>2. j - 1 \in 1 .. Len(v) /\ r[j] = v[j - 1]
      BY <2>5, <1>1, <1>3, <1>4
    <3>3. k - 1 \in 1 .. Len(v) /\ r[k] = v[k - 1]
      BY <3>1, <1>1, <1>3, <1>4
    <3>4. j - 1 < k - 1
      BY <1>3, <1>6, <3>2, <3>3
    <3> QED
      BY <3>2, <3>3, <3>4, <1>1
  <2> QED
    BY <1>6, <2>1, <2>2, <2>3, <2>4, <2>5
<1>7. Spans(r, n)
  BY <1>3, <1>5, <1>6 DEF Spans
<1>8. ASSUME NEW x \in Int
      PROVE  Within(r, x) <=> Within(v, x) \/ Between(p, x)
  <2>1. ASSUME NEW j \in 1 .. Len(r), Between(r[j], x)
        PROVE  Within(v, x) \/ Between(p, x)
    BY <2>1, <1>4 DEF Within
  <2>2. ASSUME NEW j \in 1 .. Len(v), Between(v[j], x) PROVE Within(r, x)
    <3>1. CASE j < i
      <4>1. j \in 1 .. Len(r) /\ r[j] = v[j]
        BY <3>1, <1>1, <1>3
      <4> QED
        BY <4>1, <2>2 DEF Within
    <3>2. CASE ~ (j < i)
      <4>1. j + 1 \in 1 .. Len(r) /\ r[j + 1] = v[j]
        <5>1. j + 1 \in 1 .. Len(r) /\ i < j + 1 /\ (j + 1) - 1 = j
          BY <3>2, <1>1, <1>3
        <5> QED
          BY <5>1, <1>4
      <4> QED
        BY <4>1, <2>2 DEF Within
    <3> QED
      BY <3>1, <3>2
  <2>3. ASSUME Between(p, x) PROVE Within(r, x)
    <3>1. i \in 1 .. Len(r) /\ r[i] = p
      BY <1>1, <1>3
    <3> QED
      BY <3>1, <2>3 DEF Within
  <2> QED
    BY <2>1, <2>2, <2>3 DEF Within
<1> QED
  BY <1>7, <1>8 DEF r

\* An interval takes the place of one.
LEMMA SpansReplaced ==
  ASSUME NEW v, NEW n \in Nat, Spans(v, n), NEW i \in 1 .. Len(v),
         NEW p \in Pairs, 0 <= CI!Start(p), CI!Start(p) < CI!End(p), CI!End(p) <= n,
         \A j \in 1 .. Len(v) : j < i => CI!End(v[j]) < CI!Start(p),
         \A j \in 1 .. Len(v) : i < j => CI!End(p) < CI!Start(v[j])
  PROVE  Spans([v EXCEPT ![i] = p], n)
<1> DEFINE r == [v EXCEPT ![i] = p]
<1>1. /\ v \in Seq(Pairs) /\ Len(v) \in Nat
      /\ \A j \in 1 .. Len(v) :
           /\ CI!Start(v[j]) \in Int /\ CI!End(v[j]) \in Int
           /\ 0 <= CI!Start(v[j])
           /\ CI!Start(v[j]) < CI!End(v[j])
           /\ CI!End(v[j]) <= n
      /\ \A j, k \in 1 .. Len(v) : j < k => CI!End(v[j]) < CI!Start(v[k])
  BY SpansFacts
<1>2. CI!Start(p) \in Int /\ CI!End(p) \in Int
  BY PairFacts
<1>3. /\ r \in Seq(Pairs) /\ Len(r) = Len(v)
      /\ \A j \in 1 .. Len(v) : r[j] = IF j = i THEN p ELSE v[j]
  BY <1>1
<1> HIDE DEF r
<1>4. \A j \in 1 .. Len(r) : /\ 0 <= CI!Start(r[j])
                             /\ CI!Start(r[j]) < CI!End(r[j])
                             /\ CI!End(r[j]) <= n
  BY <1>1, <1>3
<1>5. ASSUME NEW j \in 1 .. Len(r), NEW k \in 1 .. Len(r), j < k
      PROVE  CI!End(r[j]) < CI!Start(r[k])
  BY <1>1, <1>3, <1>5
<1> QED
  BY <1>3, <1>4, <1>5 DEF Spans, r

\* The items within after an interval has taken the place of one.
LEMMA WithinReplaced ==
  ASSUME NEW v \in Seq(Pairs), NEW i \in 1 .. Len(v), NEW p \in Pairs, NEW x
  PROVE  Within([v EXCEPT ![i] = p], x) <=>
           \/ Between(p, x)
           \/ \E j \in 1 .. Len(v) : j # i /\ Between(v[j], x)
<1> DEFINE r == [v EXCEPT ![i] = p]
<1>1. /\ Len(r) = Len(v)
      /\ \A j \in 1 .. Len(v) : r[j] = IF j = i THEN p ELSE v[j]
  OBVIOUS
<1> HIDE DEF r
<1>2. Within(r, x) <=> \E j \in 1 .. Len(v) : Between(r[j], x)
  BY <1>1 DEF Within
<1>3. Between(p, x) => \E j \in 1 .. Len(v) : Between(r[j], x)
  BY <1>1
<1>4. (\E j \in 1 .. Len(v) : j # i /\ Between(v[j], x))
        => \E j \in 1 .. Len(v) : Between(r[j], x)
  BY <1>1
<1>5. ASSUME NEW j \in 1 .. Len(v), Between(r[j], x)
      PROVE  Between(p, x) \/ (j # i /\ Between(v[j], x))
  BY <1>1, <1>5
<1> QED
  BY <1>2, <1>3, <1>4, <1>5 DEF r

\* Merge: two intervals that meet become one, whose items are those of both.
LEMMA SpansMerged ==
  ASSUME NEW v \in Seq(Pairs), NEW n \in Nat, NEW i \in 1 .. Len(v), i + 1 \in 1 .. Len(v),
         \A j \in 1 .. Len(v) : /\ 0 <= CI!Start(v[j])
                                /\ CI!Start(v[j]) < CI!End(v[j])
                                /\ CI!End(v[j]) <= n,
         \A j, k \in 1 .. Len(v) : j < k /\ j # i => CI!End(v[j]) < CI!Start(v[k]),
         CI!End(v[i]) = CI!Start(v[i + 1]),
         \A k \in 1 .. Len(v) : i + 1 < k => CI!End(v[i]) < CI!Start(v[k])
  PROVE  /\ Spans(CI!Merge(v, i), n)
         /\ \A x \in Int : Within(CI!Merge(v, i), x) <=> Within(v, x)
<1> DEFINE p == CI!Interval(CI!Start(v[i]), CI!End(v[i + 1]))
           w == [v EXCEPT ![i] = p]
           r == CI!Merge(v, i)
<1>1. /\ Len(v) \in Nat
      /\ \A j \in 1 .. Len(v) : v[j] \in Pairs /\ CI!Start(v[j]) \in Int /\ CI!End(v[j]) \in Int
  BY PairFacts
<1>2. /\ p \in Pairs
      /\ CI!Start(p) = CI!Start(v[i]) /\ CI!End(p) = CI!End(v[i + 1])
  BY <1>1, PairFacts
<1> HIDE DEF p
<1>3. r = CI!RemoveAt(w, i + 1)
  BY DEF CI!Merge, p
<1>4. /\ w \in Seq(Pairs) /\ Len(w) = Len(v)
      /\ \A j \in 1 .. Len(v) : w[j] = IF j = i THEN p ELSE v[j]
  BY <1>2
<1> HIDE DEF w
<1>5. /\ r \in Seq(Pairs) /\ Len(r) = Len(v) - 1
      /\ \A j \in 1 .. Len(v) - 1 : r[j] = IF j < i + 1 THEN w[j] ELSE w[j + 1]
  <2> DEFINE k == i + 1
  <2>1. k \in 1 .. Len(w)
    BY <1>4
  <2> HIDE DEF k
  <2>2. /\ CI!RemoveAt(w, k) \in Seq(Pairs)
        /\ Len(CI!RemoveAt(w, k)) = Len(w) - 1
        /\ \A j \in 1 .. Len(w) - 1 :
             CI!RemoveAt(w, k)[j] = IF j < k THEN w[j] ELSE w[j + 1]
    BY <1>4, <2>1, RemoveAtIs
  <2> QED
    BY <1>3, <1>4, <2>2 DEF k
<1> HIDE DEF r
<1>6. \A j \in 1 .. Len(r) :
        \/ j < i /\ j \in 1 .. Len(v) /\ r[j] = v[j]
        \/ j = i /\ r[j] = p
        \/ i < j /\ j + 1 \in 1 .. Len(v) /\ i + 1 < j + 1 /\ r[j] = v[j + 1]
  BY <1>1, <1>4, <1>5
<1>7. \A j \in 1 .. Len(r) : /\ 0 <= CI!Start(r[j])
                             /\ CI!Start(r[j]) < CI!End(r[j])
                             /\ CI!End(r[j]) <= n
  <2>1. CI!Start(v[i]) < CI!End(v[i + 1])
    BY <1>1
  <2> QED
    BY <2>1, <1>1, <1>2, <1>6
<1>8. ASSUME NEW j \in 1 .. Len(r), NEW k \in 1 .. Len(r), j < k
      PROVE  CI!End(r[j]) < CI!Start(r[k])
  <2>1. CASE k < i
    BY <2>1, <1>6, <1>8
  <2>2. CASE k = i
    <3>1. j \in 1 .. Len(v) /\ j < i /\ r[j] = v[j] /\ r[k] = p
      BY <2>2, <1>6, <1>8
    <3> QED
      BY <3>1, <1>2
  <2>3. CASE i < k /\ j < i
    <3>1. j \in 1 .. Len(v) /\ j < k + 1 /\ r[j] = v[j] /\ k + 1 \in 1 .. Len(v) /\ r[k] = v[k + 1]
      BY <2>3, <1>6, <1>8
    <3> QED
      BY <3>1, <2>3
  <2>4. CASE i < k /\ j = i
    <3>1. i + 1 < k + 1 /\ r[j] = p /\ k + 1 \in 1 .. Len(v) /\ r[k] = v[k + 1]
      BY <2>4, <1>6, <1>8
    <3>2. CI!End(v[i + 1]) < CI!Start(v[k + 1])
      BY <3>1
    <3> QED
      BY <3>1, <3>2, <1>2
  <2>5. CASE i < k /\ i < j
    <3>1. /\ j + 1 \in 1 .. Len(v) /\ j + 1 < k + 1 /\ r[j] = v[j + 1] /\ j + 1 # i
          /\ k + 1 \in 1 .. Len(v) /\ r[k] = v[k + 1]
      BY <2>5, <1>6, <1>8
    <3> QED
      BY <3>1
  <2> QED
    BY <1>8, <2>1, <2>2, <2>3, <2>4, <2>5
<1>9. Spans(r, n)
  BY <1>5, <1>7, <1>8 DEF Spans
<1>10. ASSUME NEW x \in Int PROVE Within(r, x) <=> Within(v, x)
  <2>1. Between(p, x) <=> Between(v[i], x) \/ Between(v[i + 1], x)
    BY <1>1, <1>2 DEF Between
  <2>2. ASSUME NEW j \in 1 .. Len(r), Between(r[j], x) PROVE Within(v, x)
    BY <2>1, <2>2, <1>6 DEF Within
  <2>3. ASSUME NEW j \in 1 .. Len(v), Between(v[j], x) PROVE Within(r, x)
    <3>1. CASE j < i
      <4>1. j \in 1 .. Len(r) /\ r[j] = v[j]
        BY <3>1, <1>1, <1>4, <1>5
      <4> QED
        BY <4>1, <2>3 DEF Within
    <3>2. CASE j = i \/ j = i + 1
      <4>1. i \in 1 .. Len(r) /\ r[i] = p
        BY <1>1, <1>4, <1>5
      <4> QED
        BY <4>1, <3>2, <2>1, <2>3 DEF Within
    <3>3. CASE i + 1 < j
      <4>1. j - 1 \in 1 .. Len(r) /\ i < j - 1 /\ (j - 1) + 1 = j
        BY <3>3, <1>1, <1>5
      <4>2. r[j - 1] = v[j]
        BY <4>1, <1>6
      <4> QED
        BY <4>1, <4>2, <2>3 DEF Within
    <3> QED
      BY <3>1, <3>2, <3>3
  <2> QED
    BY <2>2, <2>3 DEF Within
<1> QED
  BY <1>9, <1>10 DEF r

\* A set of naturals has a least element.
LEMMA LeastOf ==
  ASSUME NEW S \in SUBSET Nat, S # {}
  PROVE  \E k \in S : \A y \in S : k <= y
<1> DEFINE R == OpToRel(<, Nat)
<1>1. IsWellFoundedOn(R, Nat)
  BY NatLessThanWellFounded
<1>2. \A a, b \in Nat : a < b => <<a, b>> \in R
  BY DEF OpToRel
<1> HIDE DEF R
<1>3. PICK k \in S : \A y \in S : ~ (<<y, k>> \in R)
  BY <1>1, WFMin
<1>4. \A y \in S : ~ (y < k)
  <2> TAKE y \in S
  <2>1. y \in Nat /\ k \in Nat
    OBVIOUS
  <2> QED
    BY <2>1, <1>2, <1>3, Zenon
<1> QED
  BY <1>4

\* The loops of set and addAfter end at the first interval that does not end
\* before the index.
LEMMA FirstNotBeforeIs ==
  ASSUME NEW n \in Nat, Spans(intervals, n), NEW index \in Int
  PROVE  /\ CI!FirstNotBefore(index) \in 1 .. Len(intervals) + 1
         /\ \A j \in 1 .. Len(intervals) :
              j < CI!FirstNotBefore(index) => CI!End(intervals[j]) < index
         /\ CI!FirstNotBefore(index) <= Len(intervals) =>
              index <= CI!End(intervals[CI!FirstNotBefore(index)])
<1> DEFINE S == {i \in DOMAIN intervals : index <= CI!End(intervals[i])}
                  \cup {Len(intervals) + 1}
           m == CI!FirstNotBefore(index)
<1>1. /\ Len(intervals) \in Nat /\ DOMAIN intervals = 1 .. Len(intervals)
      /\ \A i \in 1 .. Len(intervals) : CI!End(intervals[i]) \in Int
  BY SpansFacts
<1>2. S \in SUBSET Nat /\ S # {}
  BY <1>1
<1>3. m = CI!Min(S)
  BY DEF CI!FirstNotBefore
<1>4. \A i : i \in S <=> \/ i \in 1 .. Len(intervals) /\ index <= CI!End(intervals[i])
                         \/ i = Len(intervals) + 1
  BY <1>1
<1> HIDE DEF S, m
<1>5. \E k \in S : \A y \in S : k <= y
  BY <1>2, LeastOf
<1>6. m \in S /\ \A y \in S : m <= y
  BY <1>3, <1>5 DEF CI!Min
<1>7. m \in 1 .. Len(intervals) + 1
  BY <1>1, <1>4, <1>6
<1>8. ASSUME NEW j \in 1 .. Len(intervals), j < m PROVE CI!End(intervals[j]) < index
  <2>1. ~ (j \in S)
    BY <1>6, <1>7, <1>8
  <2> QED
    BY <2>1, <1>1, <1>4
<1>9. ASSUME m <= Len(intervals) PROVE index <= CI!End(intervals[m])
  BY <1>1, <1>4, <1>6, <1>7, <1>9
<1> QED
  BY <1>7, <1>8, <1>9 DEF m

\* set adds its item to those within the intervals (changed-intervals.ts).
LEMMA SetCovers ==
  ASSUME length \in Nat, Spans(intervals, length), NEW index \in 0 .. length - 1,
         CI!Set(index)
  PROVE  /\ Spans(intervals', length)
         /\ \A x \in Int : Within(intervals', x) <=> Within(intervals, x) \/ x = index
<1> DEFINE v == intervals
           i == CI!FirstNotBefore(index)
<1>1. /\ v \in Seq(Pairs) /\ Len(v) \in Nat
      /\ \A j \in 1 .. Len(v) :
           /\ v[j] \in Pairs
           /\ CI!Start(v[j]) \in Int /\ CI!End(v[j]) \in Int
           /\ 0 <= CI!Start(v[j])
           /\ CI!Start(v[j]) < CI!End(v[j])
           /\ CI!End(v[j]) <= length
      /\ \A j, k \in 1 .. Len(v) : j < k => CI!End(v[j]) < CI!Start(v[k])
  BY SpansFacts
<1>2. /\ i \in 1 .. Len(v) + 1
      /\ \A j \in 1 .. Len(v) : j < i => CI!End(v[j]) < index
      /\ i <= Len(v) => index <= CI!End(v[i])
  BY FirstNotBeforeIs
<1> HIDE DEF i
<1>3. CASE CI!SetApart(index)
  <2> DEFINE p == <<index, 1>>
  <2>1. /\ p \in Pairs /\ CI!Start(p) = index /\ CI!End(p) = index + 1
    BY PairFacts
  <2>2. intervals' = CI!InsertAt(v, i, p) /\ (i <= Len(v) => index < CI!Start(v[i]) - 1)
    BY <1>3 DEF CI!SetApart, i
  <2> HIDE DEF p
  <2>3. ASSUME NEW j \in 1 .. Len(v), i <= j PROVE CI!End(p) < CI!Start(v[j])
    <3>1. i \in 1 .. Len(v) /\ CI!Start(v[i]) <= CI!Start(v[j])
      <4>1. i \in 1 .. Len(v) /\ (i = j \/ i < j)
        BY <2>3, <1>1, <1>2
      <4>2. i < j => CI!End(v[i]) < CI!Start(v[j])
        BY <4>1, <1>1
      <4> QED
        BY <4>1, <4>2, <1>1
    <3> QED
      BY <3>1, <2>1, <2>2, <1>1
  <2>4. /\ 0 <= CI!Start(p) /\ CI!Start(p) < CI!End(p) /\ CI!End(p) <= length
        /\ \A j \in 1 .. Len(v) : j < i => CI!End(v[j]) < CI!Start(p)
    BY <1>2, <2>1
  <2>5. /\ Spans(CI!InsertAt(v, i, p), length)
        /\ \A x \in Int : Within(CI!InsertAt(v, i, p), x) <=> Within(v, x) \/ Between(p, x)
    BY <1>2, <2>1, <2>3, <2>4, SpansInserted
  <2>6. \A x \in Int : Between(p, x) <=> x = index
    BY <2>1 DEF Between
  <2> QED
    BY <2>2, <2>5, <2>6
<1>4. CASE CI!SetInside(index)
  <2>1. /\ intervals' = v /\ i \in 1 .. Len(v) /\ Between(v[i], index)
    BY <1>2, <1>4 DEF CI!SetInside, i, Between
  <2>2. Within(v, index)
    BY <2>1 DEF Within
  <2> QED
    BY <2>1, <2>2
<1>5. CASE CI!SetJustBefore(index)
  <2> DEFINE p == <<index, v[i][2] + 1>>
  <2>1. i \in 1 .. Len(v) /\ index = CI!Start(v[i]) - 1 /\ intervals' = [v EXCEPT ![i] = p]
    BY <1>2, <1>5 DEF CI!SetJustBefore, i
  <2>2. /\ p \in Pairs /\ CI!Start(p) = index /\ CI!End(p) = CI!End(v[i])
    <3>1. v[i][1] \in Int /\ v[i][2] \in Int /\ CI!Start(v[i]) = v[i][1]
          /\ CI!End(v[i]) = v[i][1] + v[i][2]
      BY <1>1, <2>1 DEF Pairs, CI!Start, CI!End
    <3>2. v[i][2] + 1 \in Int
      BY <3>1
    <3>3. p \in Pairs /\ CI!Start(p) = index /\ CI!End(p) = index + (v[i][2] + 1)
      BY <3>2, PairFacts
    <3> QED
      BY <3>1, <3>3, <2>1
  <2> HIDE DEF p
  <2>3. Spans([v EXCEPT ![i] = p], length)
    <3>1. /\ 0 <= CI!Start(p) /\ CI!Start(p) < CI!End(p) /\ CI!End(p) <= length
          /\ \A j \in 1 .. Len(v) : j < i => CI!End(v[j]) < CI!Start(p)
          /\ \A j \in 1 .. Len(v) : i < j => CI!End(p) < CI!Start(v[j])
      BY <1>1, <1>2, <2>1, <2>2
    <3> QED
      BY <2>1, <2>2, <3>1, SpansReplaced
  <2>4. ASSUME NEW x \in Int
        PROVE  Within([v EXCEPT ![i] = p], x) <=> Within(v, x) \/ x = index
    <3>1. Between(p, x) <=> Between(v[i], x) \/ x = index
      BY <1>1, <2>1, <2>2 DEF Between
    <3>2. Within(v, x) <=> Between(v[i], x) \/ \E j \in 1 .. Len(v) : j # i /\ Between(v[j], x)
      BY <2>1 DEF Within
    <3> QED
      BY <1>1, <2>1, <2>2, <3>1, <3>2, WithinReplaced
  <2> QED
    BY <2>1, <2>3, <2>4
<1>6. CASE CI!SetJustAfter(index)
  <2> DEFINE p == <<v[i][1], v[i][2] + 1>>
             grown == [v EXCEPT ![i] = p]
  <2>1. /\ i \in 1 .. Len(v) /\ index = CI!End(v[i])
        /\ intervals' = IF i < Len(v) /\ index + 1 = CI!Start(v[i + 1])
                          THEN CI!Merge(grown, i) ELSE grown
    BY <1>2, <1>6 DEF CI!SetJustAfter, i
  <2>2. /\ p \in Pairs /\ CI!Start(p) = CI!Start(v[i]) /\ CI!End(p) = index + 1
    <3>1. v[i] \in Pairs
      BY <1>1, <2>1
    <3>2. /\ <<v[i][1], v[i][2] + 1>> \in Pairs
          /\ CI!Start(<<v[i][1], v[i][2] + 1>>) = CI!Start(v[i])
          /\ CI!End(<<v[i][1], v[i][2] + 1>>) = CI!End(v[i]) + 1
      BY <3>1, Longer
    <3> QED
      BY <2>1, <3>2
  <2> HIDE DEF p
  <2>3. ASSUME NEW x \in Int
        PROVE  Within(grown, x) <=> Within(v, x) \/ x = index
    <3>1. Between(p, x) <=> Between(v[i], x) \/ x = index
      BY <1>1, <2>1, <2>2 DEF Between
    <3>2. Within(v, x) <=> Between(v[i], x) \/ \E j \in 1 .. Len(v) : j # i /\ Between(v[j], x)
      BY <2>1 DEF Within
    <3> QED
      BY <1>1, <2>1, <2>2, <3>1, <3>2, WithinReplaced
  <2>4. /\ 0 <= CI!Start(p) /\ CI!Start(p) < CI!End(p) /\ CI!End(p) <= length
        /\ \A j \in 1 .. Len(v) : j < i => CI!End(v[j]) < CI!Start(p)
        /\ \A j \in 1 .. Len(v) : i + 1 < j => CI!End(p) < CI!Start(v[j])
        /\ i + 1 \in 1 .. Len(v) => CI!End(p) <= CI!Start(v[i + 1])
    <3>1. \A j \in 1 .. Len(v) : i + 1 < j => CI!End(p) < CI!Start(v[j])
      <4> SUFFICES ASSUME NEW j \in 1 .. Len(v), i + 1 < j PROVE CI!End(p) < CI!Start(v[j])
        OBVIOUS
      <4>1. i + 1 \in 1 .. Len(v) /\ i < i + 1
        BY <1>1, <2>1
      <4>2. CI!End(v[i]) < CI!Start(v[i + 1]) /\ CI!End(v[i + 1]) < CI!Start(v[j])
        BY <4>1, <1>1, <2>1
      <4> QED
        BY <4>1, <4>2, <1>1, <2>1, <2>2
    <3>2. i + 1 \in 1 .. Len(v) => CI!End(p) <= CI!Start(v[i + 1])
      <4>1. i + 1 \in 1 .. Len(v) => CI!End(v[i]) < CI!Start(v[i + 1])
        BY <1>1, <2>1
      <4> QED
        BY <4>1, <1>1, <2>1, <2>2
    <3> QED
      BY <3>1, <3>2, <1>1, <1>2, <2>1, <2>2
  <2>5. CASE i < Len(v) /\ index + 1 = CI!Start(v[i + 1])
    <3>1. /\ grown \in Seq(Pairs) /\ Len(grown) = Len(v)
          /\ \A j \in 1 .. Len(v) : grown[j] = IF j = i THEN p ELSE v[j]
      BY <1>1, <2>1, <2>2
    <3> HIDE DEF grown
    <3>2. i + 1 \in 1 .. Len(v) /\ grown[i + 1] = v[i + 1] /\ grown[i] = p
      BY <1>1, <2>1, <2>5, <3>1
    <3>3. \A j \in 1 .. Len(grown) : /\ 0 <= CI!Start(grown[j])
                                     /\ CI!Start(grown[j]) < CI!End(grown[j])
                                     /\ CI!End(grown[j]) <= length
      BY <1>1, <2>4, <3>1
    <3>4. ASSUME NEW j \in 1 .. Len(grown), NEW k \in 1 .. Len(grown), j < k, j # i
          PROVE  CI!End(grown[j]) < CI!Start(grown[k])
      <4>1. grown[j] = v[j] /\ j \in 1 .. Len(v) /\ k \in 1 .. Len(v)
        BY <3>1, <3>4
      <4>2. CASE k = i
        BY <4>1, <4>2, <3>2, <2>4, <3>4
      <4>3. CASE k # i
        BY <4>1, <4>3, <3>1, <1>1, <3>4
      <4> QED
        BY <4>2, <4>3
    <3>5. CI!End(grown[i]) = CI!Start(grown[i + 1])
      BY <2>2, <2>5, <3>2
    <3>6. \A k \in 1 .. Len(grown) : i + 1 < k => CI!End(grown[i]) < CI!Start(grown[k])
      BY <2>1, <2>4, <3>1, <3>2
    <3>7. /\ Spans(CI!Merge(grown, i), length)
          /\ \A x \in Int : Within(CI!Merge(grown, i), x) <=> Within(grown, x)
      BY <2>1, <3>1, <3>2, <3>3, <3>4, <3>5, <3>6, SpansMerged
    <3> QED
      BY <2>1, <2>3, <2>5, <3>7
  <2>6. CASE ~ (i < Len(v) /\ index + 1 = CI!Start(v[i + 1]))
    <3>1. \A j \in 1 .. Len(v) : i < j => CI!End(p) < CI!Start(v[j])
      <4> SUFFICES ASSUME NEW j \in 1 .. Len(v), i < j PROVE CI!End(p) < CI!Start(v[j])
        OBVIOUS
      <4>1. i + 1 \in 1 .. Len(v) /\ i < Len(v) /\ (j = i + 1 \/ i + 1 < j)
        BY <1>1, <2>1
      <4>2. CI!End(p) < CI!Start(v[i + 1])
        BY <4>1, <2>2, <2>4, <2>6, <1>1
      <4> QED
        BY <4>1, <4>2, <2>4
    <3>2. Spans(grown, length)
      BY <2>1, <2>2, <2>4, <3>1, SpansReplaced
    <3> QED
      BY <2>1, <2>3, <2>6, <3>2
  <2> QED
    BY <2>5, <2>6
<1> QED
  BY <1>3, <1>4, <1>5, <1>6 DEF CI!Set

\* Intervals from position i on move up by one.
LEMMA SpansShifted ==
  ASSUME NEW v, NEW n \in Nat, Spans(v, n), NEW i \in 1 .. Len(v) + 1
  PROVE  /\ Spans(CI!ShiftFrom(v, i), n + 1)
         /\ Len(CI!ShiftFrom(v, i)) = Len(v)
         /\ \A j \in 1 .. Len(v) :
              IF j < i
                THEN CI!ShiftFrom(v, i)[j] = v[j]
                ELSE /\ CI!Start(CI!ShiftFrom(v, i)[j]) = CI!Start(v[j]) + 1
                     /\ CI!End(CI!ShiftFrom(v, i)[j]) = CI!End(v[j]) + 1
<1> DEFINE r == CI!ShiftFrom(v, i)
<1>1. /\ v \in Seq(Pairs) /\ Len(v) \in Nat
      /\ \A j \in 1 .. Len(v) :
           /\ v[j] \in Pairs
           /\ CI!Start(v[j]) \in Int /\ CI!End(v[j]) \in Int
           /\ 0 <= CI!Start(v[j])
           /\ CI!Start(v[j]) < CI!End(v[j])
           /\ CI!End(v[j]) <= n
      /\ \A j, k \in 1 .. Len(v) : j < k => CI!End(v[j]) < CI!Start(v[k])
  BY SpansFacts
<1>2. r = [j \in 1 .. Len(v) |->
             IF j >= i THEN <<v[j][1] + 1, v[j][2]>> ELSE v[j]]
  BY <1>1 DEF CI!ShiftFrom
<1>3. ASSUME NEW j \in 1 .. Len(v)
      PROVE  /\ <<v[j][1] + 1, v[j][2]>> \in Pairs
             /\ CI!Start(<<v[j][1] + 1, v[j][2]>>) = CI!Start(v[j]) + 1
             /\ CI!End(<<v[j][1] + 1, v[j][2]>>) = CI!End(v[j]) + 1
  <2>1. v[j] \in Pairs
    BY <1>1
  <2> QED
    BY <2>1, Moved
<1>4. r \in Seq(Pairs) /\ Len(r) = Len(v)
  <2>1. \A j \in 1 .. Len(v) : (IF j >= i THEN <<v[j][1] + 1, v[j][2]>> ELSE v[j]) \in Pairs
    BY <1>1, <1>3
  <2> DEFINE e(j) == IF j >= i THEN <<v[j][1] + 1, v[j][2]>> ELSE v[j]
  <2>2. r = [j \in 1 .. Len(v) |-> e(j)] /\ \A j \in 1 .. Len(v) : e(j) \in Pairs
    BY <1>2, <2>1
  <2> HIDE DEF e, r
  <2> QED
    BY <1>1, <2>2
<1>5. \A j \in 1 .. Len(v) :
        IF j < i
          THEN r[j] = v[j]
          ELSE CI!Start(r[j]) = CI!Start(v[j]) + 1 /\ CI!End(r[j]) = CI!End(v[j]) + 1
  BY <1>1, <1>2, <1>3
<1> HIDE DEF r
<1>6. \A j \in 1 .. Len(r) : /\ 0 <= CI!Start(r[j])
                             /\ CI!Start(r[j]) < CI!End(r[j])
                             /\ CI!End(r[j]) <= n + 1
  BY <1>1, <1>4, <1>5
<1>7. ASSUME NEW j \in 1 .. Len(r), NEW k \in 1 .. Len(r), j < k
      PROVE  CI!End(r[j]) < CI!Start(r[k])
  <2>1. /\ j \in 1 .. Len(v) /\ k \in 1 .. Len(v)
        /\ CI!End(v[j]) < CI!Start(v[k])
        /\ CI!End(v[j]) \in Int /\ CI!Start(v[k]) \in Int
    BY <1>1, <1>4, <1>7
  <2>2. /\ CI!End(r[j]) = CI!End(v[j]) \/ (CI!End(r[j]) = CI!End(v[j]) + 1 /\ i <= j)
        /\ CI!Start(r[k]) = CI!Start(v[k]) + 1 \/ (CI!Start(r[k]) = CI!Start(v[k]) /\ k < i)
    BY <2>1, <1>5
  <2> QED
    BY <2>1, <2>2, <1>7
<1> QED
  BY <1>4, <1>5, <1>6, <1>7 DEF Spans, r

\* addAfter moves the items behind the new one up, which is changed.
LEMMA AddAfterCovers ==
  ASSUME length \in Nat, Spans(intervals, length), NEW index \in -1 .. length - 1,
         CI!AddAfter(index)
  PROVE  /\ Spans(intervals', length + 1)
         /\ \A x \in Int :
              Within(intervals', x) <=>
                \/ x < index + 1 /\ Within(intervals, x)
                \/ x = index + 1
                \/ x > index + 1 /\ Within(intervals, x - 1)
<1> DEFINE v == intervals
           at == index + 1
           i == CI!FirstNotBefore(at)
<1>1. /\ v \in Seq(Pairs) /\ Len(v) \in Nat
      /\ \A j \in 1 .. Len(v) :
           /\ v[j] \in Pairs
           /\ CI!Start(v[j]) \in Int /\ CI!End(v[j]) \in Int
           /\ 0 <= CI!Start(v[j])
           /\ CI!Start(v[j]) < CI!End(v[j])
           /\ CI!End(v[j]) <= length
      /\ \A j, k \in 1 .. Len(v) : j < k => CI!End(v[j]) < CI!Start(v[k])
  BY SpansFacts
<1>2. at \in 0 .. length /\ at \in Int
  OBVIOUS
<1> HIDE DEF at
<1>3. /\ i \in 1 .. Len(v) + 1
      /\ \A j \in 1 .. Len(v) : j < i => CI!End(v[j]) < at
      /\ i <= Len(v) => at <= CI!End(v[i])
  BY <1>2, FirstNotBeforeIs
<1>4. intervals' =
        IF i <= Len(v) /\ at >= CI!Start(v[i])
          THEN [CI!ShiftFrom(v, i + 1) EXCEPT ![i] = <<@[1], @[2] + 1>>]
          ELSE CI!InsertAt(CI!ShiftFrom(v, i), i, <<at, 1>>)
  BY DEF CI!AddAfter, at
<1> HIDE DEF i
<1>5. CASE i <= Len(v) /\ at >= CI!Start(v[i])
  <2> DEFINE w == CI!ShiftFrom(v, i + 1)
             p == <<v[i][1], v[i][2] + 1>>
  <2>1. i \in 1 .. Len(v) /\ i + 1 \in 1 .. Len(v) + 1 /\ length + 1 \in Nat
    BY <1>1, <1>3, <1>5
  <2>2. /\ Spans(w, length + 1) /\ Len(w) = Len(v)
        /\ \A j \in 1 .. Len(v) :
             IF j < i + 1
               THEN w[j] = v[j]
               ELSE CI!Start(w[j]) = CI!Start(v[j]) + 1 /\ CI!End(w[j]) = CI!End(v[j]) + 1
    BY <2>1, SpansShifted
  <2>3. w[i] = v[i] /\ w \in Seq(Pairs)
    BY <2>1, <2>2 DEF Spans
  <2>4. intervals' = [w EXCEPT ![i] = p]
    BY <1>4, <1>5, <2>3
  <2>5. /\ p \in Pairs /\ CI!Start(p) = CI!Start(v[i]) /\ CI!End(p) = CI!End(v[i]) + 1
    <3>1. v[i] \in Pairs
      BY <1>1, <2>1
    <3> QED
      BY <3>1, Longer
  <2> HIDE DEF w, p
  <2>6. \A j \in 1 .. Len(v) : j # i =>
          \/ j < i /\ w[j] = v[j]
          \/ /\ i < j /\ CI!Start(w[j]) = CI!Start(v[j]) + 1
             /\ CI!End(w[j]) = CI!End(v[j]) + 1
    BY <2>1, <2>2
  <2>7. Spans([w EXCEPT ![i] = p], length + 1)
    <3>1. \A j \in 1 .. Len(w) : j < i => CI!End(w[j]) < CI!Start(p)
      BY <1>1, <2>1, <2>2, <2>5, <2>6
    <3>2. \A j \in 1 .. Len(w) : i < j => CI!End(p) < CI!Start(w[j])
      <4> SUFFICES ASSUME NEW j \in 1 .. Len(w), i < j PROVE CI!End(p) < CI!Start(w[j])
        OBVIOUS
      <4>1. j \in 1 .. Len(v) /\ CI!Start(w[j]) = CI!Start(v[j]) + 1
        BY <2>1, <2>2, <2>6
      <4>2. CI!End(v[i]) < CI!Start(v[j]) /\ CI!Start(v[j]) \in Int /\ CI!End(v[i]) \in Int
        BY <4>1, <1>1, <2>1
      <4> QED
        BY <4>1, <4>2, <2>5
    <3>3. 0 <= CI!Start(p) /\ CI!Start(p) < CI!End(p) /\ CI!End(p) <= length + 1
      BY <1>1, <2>1, <2>5
    <3> QED
      BY <2>1, <2>2, <2>5, <3>1, <3>2, <3>3, SpansReplaced
  <2>8. ASSUME NEW x \in Int
        PROVE  Within(intervals', x) <=>
                 \/ x < at /\ Within(v, x)
                 \/ x = at
                 \/ x > at /\ Within(v, x - 1)
    <3>1. Within(intervals', x) <=>
            Between(p, x) \/ \E j \in 1 .. Len(v) : j # i /\ Between(w[j], x)
      BY <2>1, <2>2, <2>3, <2>4, <2>5, WithinReplaced
    <3>2. Between(p, x) <=> \/ x < at /\ Between(v[i], x)
                            \/ x = at
                            \/ x > at /\ Between(v[i], x - 1)
      <4>1. /\ CI!Start(v[i]) \in Int /\ CI!End(v[i]) \in Int
            /\ CI!Start(v[i]) <= at /\ at <= CI!End(v[i])
        BY <1>1, <1>3, <1>5, <2>1
      <4> QED
        BY <1>2, <2>5, <4>1 DEF Between
    <3>3. ASSUME NEW j \in 1 .. Len(v), j # i
          PROVE  Between(w[j], x) <=> \/ x < at /\ Between(v[j], x)
                                      \/ x > at /\ Between(v[j], x - 1)
      <4>1. CASE j < i
        <5>1. w[j] = v[j] /\ CI!End(v[j]) < at /\ CI!Start(v[j]) \in Int /\ CI!End(v[j]) \in Int
          BY <4>1, <1>1, <1>3, <2>6
        <5> QED
          BY <5>1, <1>2 DEF Between
      <4>2. CASE i < j
        <5>1. /\ CI!Start(w[j]) = CI!Start(v[j]) + 1 /\ CI!End(w[j]) = CI!End(v[j]) + 1
              /\ CI!Start(v[j]) \in Int /\ CI!End(v[j]) \in Int
              /\ CI!End(v[i]) < CI!Start(v[j]) /\ CI!End(v[i]) \in Int
          BY <4>2, <1>1, <2>1, <2>6
        <5>2. at < CI!Start(v[j])
          BY <5>1, <1>2, <1>3, <1>5
        <5> QED
          BY <5>1, <5>2, <1>2 DEF Between
      <4> QED
        BY <3>3, <4>1, <4>2, <2>1
    <3>4. \A y : Within(v, y) <=>
            Between(v[i], y) \/ \E j \in 1 .. Len(v) : j # i /\ Between(v[j], y)
      BY <2>1 DEF Within
    <3> QED
      BY <3>1, <3>2, <3>3, <3>4
  <2> QED
    BY <2>4, <2>7, <2>8 DEF at
<1>6. CASE ~ (i <= Len(v) /\ at >= CI!Start(v[i]))
  <2> DEFINE w == CI!ShiftFrom(v, i)
             p == <<at, 1>>
  <2>1. length + 1 \in Nat
    OBVIOUS
  <2>2. /\ Spans(w, length + 1) /\ Len(w) = Len(v)
        /\ \A j \in 1 .. Len(v) :
             IF j < i
               THEN w[j] = v[j]
               ELSE CI!Start(w[j]) = CI!Start(v[j]) + 1 /\ CI!End(w[j]) = CI!End(v[j]) + 1
    BY <1>3, SpansShifted
  <2>3. intervals' = CI!InsertAt(w, i, p)
    BY <1>4, <1>6
  <2>4. p \in Pairs /\ CI!Start(p) = at /\ CI!End(p) = at + 1
    BY <1>2, PairFacts
  <2> HIDE DEF w, p
  <2>5. ASSUME NEW j \in 1 .. Len(v), i <= j PROVE at < CI!Start(v[j])
    <3>1. i \in 1 .. Len(v) /\ at < CI!Start(v[i]) /\ (i = j \/ i < j)
      BY <2>5, <1>1, <1>2, <1>3, <1>6
    <3>2. i < j => CI!End(v[i]) < CI!Start(v[j])
      BY <3>1, <1>1
    <3> QED
      BY <3>1, <3>2, <1>1, <1>2
  <2>6. /\ 0 <= CI!Start(p) /\ CI!Start(p) < CI!End(p) /\ CI!End(p) <= length + 1
        /\ \A j \in 1 .. Len(w) : j < i => CI!End(w[j]) < CI!Start(p)
        /\ \A j \in 1 .. Len(w) : i <= j => CI!End(p) < CI!Start(w[j])
    BY <1>1, <1>2, <1>3, <2>2, <2>4, <2>5
  <2>7. /\ Spans(CI!InsertAt(w, i, p), length + 1)
        /\ \A x \in Int : Within(CI!InsertAt(w, i, p), x) <=> Within(w, x) \/ Between(p, x)
    BY <1>3, <2>1, <2>2, <2>4, <2>6, SpansInserted
  <2>8. ASSUME NEW x \in Int
        PROVE  Within(intervals', x) <=>
                 \/ x < at /\ Within(v, x)
                 \/ x = at
                 \/ x > at /\ Within(v, x - 1)
    <3>1. Within(intervals', x) <=> x = at \/ \E j \in 1 .. Len(v) : Between(w[j], x)
      <4>1. Between(p, x) <=> x = at
        BY <1>2, <2>4 DEF Between
      <4>2. Within(w, x) <=> \E j \in 1 .. Len(v) : Between(w[j], x)
        BY <2>2 DEF Within
      <4> QED
        BY <4>1, <4>2, <2>3, <2>7
    <3>2. ASSUME NEW j \in 1 .. Len(v)
          PROVE  Between(w[j], x) <=> \/ x < at /\ Between(v[j], x)
                                      \/ x > at /\ Between(v[j], x - 1)
      <4>1. CASE j < i
        <5>1. w[j] = v[j] /\ CI!End(v[j]) < at /\ CI!Start(v[j]) \in Int /\ CI!End(v[j]) \in Int
          BY <4>1, <1>1, <1>3, <2>2
        <5> QED
          BY <5>1, <1>2 DEF Between
      <4>2. CASE i <= j
        <5>1. /\ CI!Start(w[j]) = CI!Start(v[j]) + 1 /\ CI!End(w[j]) = CI!End(v[j]) + 1
              /\ CI!Start(v[j]) \in Int /\ CI!End(v[j]) \in Int
              /\ at < CI!Start(v[j])
          BY <4>2, <1>1, <1>3, <2>2, <2>5
        <5> QED
          BY <5>1, <1>2 DEF Between
      <4> QED
        BY <4>1, <4>2, <1>3
    <3> QED
      BY <3>1, <3>2 DEF Within
  <2> QED
    BY <2>3, <2>7, <2>8 DEF at
<1> QED
  BY <1>5, <1>6

\* A set of positions that holds all those before each of its own is a prefix.
LEMMA PrefixOf ==
  ASSUME NEW n \in Nat, NEW S \in SUBSET (1 .. n),
         \A i \in S, j \in 1 .. n : j < i => j \in S
  PROVE  S = 1 .. Cardinality(S) /\ Cardinality(S) \in 0 .. n
<1> DEFINE T == (1 .. n) \ S
<1>1. CASE T = {}
  <2>1. S = 1 .. n
    BY <1>1
  <2>2. Cardinality(1 .. n) = n
    BY FS_Interval
  <2> QED
    BY <2>1, <2>2
<1>2. CASE T # {}
  <2>1. T \in SUBSET Nat
    OBVIOUS
  <2>2. PICK k \in T : \A y \in T : k <= y
    BY <1>2, <2>1, LeastOf
  <2>3. k \in 1 .. n /\ k \notin S
    OBVIOUS
  <2>4. ASSUME NEW j \in 1 .. k - 1 PROVE j \in S
    BY <2>2, <2>3
  <2>5. ASSUME NEW j \in S PROVE j \in 1 .. k - 1
    <3>1. j \in 1 .. n /\ ~ (k < j) /\ j # k
      BY <2>3
    <3> QED
      BY <2>3, <3>1
  <2>6. S = 1 .. k - 1
    BY <2>4, <2>5
  <2>7. k - 1 \in 0 .. n /\ Cardinality(1 .. k - 1) = k - 1
    BY <2>3, FS_Interval
  <2> QED
    BY <2>6, <2>7
<1> QED
  BY <1>1, <1>2

\* The larger and the smaller of two numbers.
LEMMA LargerSmaller ==
  ASSUME NEW a \in Int, NEW b \in Int
  PROVE  /\ CI!Max({a, b}) = IF a >= b THEN a ELSE b
         /\ CI!Min({a, b}) = IF a <= b THEN a ELSE b
<1>1. \A x \in {a, b} : (\A y \in {a, b} : x >= y) <=> x = IF a >= b THEN a ELSE b
  OBVIOUS
<1>2. \A x \in {a, b} : (\A y \in {a, b} : x <= y) <=> x = IF a <= b THEN a ELSE b
  OBVIOUS
<1>3. CI!Max({a, b}) = IF a >= b THEN a ELSE b
  BY <1>1 DEF CI!Max
<1>4. CI!Min({a, b}) = IF a <= b THEN a ELSE b
  BY <1>2 DEF CI!Min
<1> QED
  BY <1>3, <1>4

\* append of deleteItems: what is left on both sides of a position is joined,
\* and two intervals that meet there become one.
Joined(a, b) ==
  IF a # <<>> /\ b # <<>> /\ CI!End(CI!Last(a)) = CI!Start(b[1])
    THEN CI!Merge(a \o b, Len(a))
    ELSE a \o b

\* Joining intervals on both sides of a position.
LEMMA SpansJoined ==
  ASSUME NEW n \in Nat, NEW a, NEW b, NEW at \in Int, Spans(a, n), Spans(b, n),
         \A i \in 1 .. Len(a) : /\ CI!End(a[i]) <= at
                                /\ i < Len(a) => CI!End(a[i]) < at,
         \A i \in 1 .. Len(b) : /\ at <= CI!Start(b[i])
                                /\ 1 < i => at < CI!Start(b[i])
  PROVE  /\ Spans(Joined(a, b), n)
         /\ \A x \in Int : Within(Joined(a, b), x) <=> Within(a, x) \/ Within(b, x)
<1> DEFINE r == a \o b
<1>1. /\ a \in Seq(Pairs) /\ Len(a) \in Nat
      /\ \A i \in 1 .. Len(a) :
           /\ CI!Start(a[i]) \in Int /\ CI!End(a[i]) \in Int
           /\ 0 <= CI!Start(a[i])
           /\ CI!Start(a[i]) < CI!End(a[i])
           /\ CI!End(a[i]) <= n
      /\ \A i, j \in 1 .. Len(a) : i < j => CI!End(a[i]) < CI!Start(a[j])
  BY SpansFacts
<1>2. /\ b \in Seq(Pairs) /\ Len(b) \in Nat
      /\ \A i \in 1 .. Len(b) :
           /\ CI!Start(b[i]) \in Int /\ CI!End(b[i]) \in Int
           /\ 0 <= CI!Start(b[i])
           /\ CI!Start(b[i]) < CI!End(b[i])
           /\ CI!End(b[i]) <= n
      /\ \A i, j \in 1 .. Len(b) : i < j => CI!End(b[i]) < CI!Start(b[j])
  BY SpansFacts
<1>3. /\ r \in Seq(Pairs) /\ Len(r) = Len(a) + Len(b)
      /\ \A i \in 1 .. Len(a) + Len(b) :
           r[i] = IF i <= Len(a) THEN a[i] ELSE b[i - Len(a)]
  BY <1>1, <1>2, ConcatProperties
<1> HIDE DEF r
<1>4. \A i \in 1 .. Len(r) :
        \/ i \in 1 .. Len(a) /\ r[i] = a[i]
        \/ Len(a) < i /\ i - Len(a) \in 1 .. Len(b) /\ r[i] = b[i - Len(a)]
  BY <1>1, <1>2, <1>3
<1>5. \A i \in 1 .. Len(r) : /\ 0 <= CI!Start(r[i])
                             /\ CI!Start(r[i]) < CI!End(r[i])
                             /\ CI!End(r[i]) <= n
  BY <1>1, <1>2, <1>4
<1>6. ASSUME NEW i \in 1 .. Len(r), NEW j \in 1 .. Len(r), i < j,
             i # Len(a) \/ j # Len(a) + 1
      PROVE  CI!End(r[i]) < CI!Start(r[j])
  <2>1. CASE j <= Len(a)
    <3>1. i \in 1 .. Len(a) /\ j \in 1 .. Len(a) /\ r[i] = a[i] /\ r[j] = a[j]
      BY <2>1, <1>1, <1>4, <1>6
    <3> QED
      BY <3>1, <1>1, <1>6
  <2>2. CASE Len(a) < i
    <3>1. /\ i - Len(a) \in 1 .. Len(b) /\ j - Len(a) \in 1 .. Len(b)
          /\ i - Len(a) < j - Len(a)
          /\ r[i] = b[i - Len(a)] /\ r[j] = b[j - Len(a)]
      BY <2>2, <1>1, <1>4, <1>6
    <3> QED
      BY <3>1, <1>2
  <2>3. CASE i <= Len(a) /\ Len(a) < j
    <3>1. /\ i \in 1 .. Len(a) /\ r[i] = a[i]
          /\ j - Len(a) \in 1 .. Len(b) /\ r[j] = b[j - Len(a)]
      BY <2>3, <1>1, <1>4
    <3>2. i < Len(a) \/ 1 < j - Len(a)
      BY <2>3, <3>1, <1>1, <1>6
    <3>3. /\ CI!End(a[i]) <= at /\ (i < Len(a) => CI!End(a[i]) < at)
          /\ at <= CI!Start(b[j - Len(a)])
          /\ (1 < j - Len(a) => at < CI!Start(b[j - Len(a)]))
          /\ CI!End(a[i]) \in Int /\ CI!Start(b[j - Len(a)]) \in Int
      BY <3>1, <1>1, <1>2
    <3> QED
      BY <3>1, <3>2, <3>3
  <2> QED
    BY <2>1, <2>2, <2>3, <1>1
<1>7. ASSUME NEW x \in Int PROVE Within(r, x) <=> Within(a, x) \/ Within(b, x)
  <2>1. ASSUME Within(r, x) PROVE Within(a, x) \/ Within(b, x)
    BY <2>1, <1>4 DEF Within
  <2>2. ASSUME NEW i \in 1 .. Len(a), Between(a[i], x) PROVE Within(r, x)
    <3>1. i \in 1 .. Len(r) /\ r[i] = a[i]
      BY <1>1, <1>2, <1>3
    <3> QED
      BY <3>1, <2>2 DEF Within
  <2>3. ASSUME NEW i \in 1 .. Len(b), Between(b[i], x) PROVE Within(r, x)
    <3> DEFINE k == i + Len(a)
    <3>1. k \in 1 .. Len(a) + Len(b) /\ ~ (k <= Len(a)) /\ k - Len(a) = i
      BY <1>1, <1>2
    <3> HIDE DEF k
    <3>2. k \in 1 .. Len(r) /\ r[k] = b[i]
      BY <3>1, <1>3
    <3> QED
      BY <3>2, <2>3 DEF Within
  <2> QED
    BY <2>1, <2>2, <2>3 DEF Within
<1>8. a # <<>> <=> Len(a) # 0
  BY <1>1
<1>9. b # <<>> <=> Len(b) # 0
  BY <1>2
<1>10. CASE a # <<>> /\ b # <<>> /\ CI!End(CI!Last(a)) = CI!Start(b[1])
  <2> DEFINE k == Len(a)
  <2>1. Joined(a, b) = CI!Merge(r, k)
    BY <1>10 DEF Joined, r
  <2>2. /\ k \in 1 .. Len(r) /\ k + 1 \in 1 .. Len(r) /\ k \in 1 .. Len(a)
        /\ r[k] = a[k] /\ r[k + 1] = b[1]
    <3>1. Len(a) # 0 /\ Len(b) # 0
      BY <1>8, <1>9, <1>10
    <3>2. /\ k \in 1 .. Len(a) + Len(b) /\ k <= Len(a) /\ k \in 1 .. Len(a)
          /\ k + 1 \in 1 .. Len(a) + Len(b) /\ ~ (k + 1 <= Len(a)) /\ (k + 1) - Len(a) = 1
      BY <3>1, <1>1, <1>2
    <3> HIDE DEF k
    <3> QED
      BY <3>2, <1>3
  <2>3. CI!End(r[k]) = CI!Start(r[k + 1])
    BY <2>2, <1>10 DEF CI!Last
  <2>4. \A i, j \in 1 .. Len(r) : i < j /\ i # k => CI!End(r[i]) < CI!Start(r[j])
    BY <1>6
  <2>5. \A j \in 1 .. Len(r) : k + 1 < j => CI!End(r[k]) < CI!Start(r[j])
    BY <1>1, <1>6, <2>2
  <2> HIDE DEF k
  <2>6. Spans(CI!Merge(r, k), n) /\ \A x \in Int : Within(CI!Merge(r, k), x) <=> Within(r, x)
    BY <1>3, <1>5, <2>2, <2>3, <2>4, <2>5, SpansMerged
  <2> QED
    BY <1>7, <2>1, <2>6
<1>11. CASE ~ (a # <<>> /\ b # <<>> /\ CI!End(CI!Last(a)) = CI!Start(b[1]))
  <2>1. Joined(a, b) = r
    BY <1>11 DEF Joined, r
  <2>2. ASSUME NEW i \in 1 .. Len(r), NEW j \in 1 .. Len(r), i < j
        PROVE  CI!End(r[i]) < CI!Start(r[j])
    <3>1. CASE i = Len(a) /\ j = Len(a) + 1
      <4>1. /\ i \in 1 .. Len(a) /\ r[i] = a[i] /\ r[j] = b[1] /\ 1 \in 1 .. Len(b)
            /\ CI!Last(a) = a[i]
        BY <3>1, <1>1, <1>2, <1>3 DEF CI!Last
      <4>2. CI!End(a[i]) # CI!Start(b[1])
        BY <4>1, <1>1, <1>2, <1>8, <1>9, <1>11
      <4>3. CI!End(a[i]) <= at /\ at <= CI!Start(b[1])
        BY <4>1
      <4> QED
        BY <4>1, <4>2, <4>3, <1>1, <1>2
    <3>2. CASE ~ (i = Len(a) /\ j = Len(a) + 1)
      BY <3>2, <2>2, <1>6
    <3> QED
      BY <3>1, <3>2
  <2> QED
    BY <1>3, <1>5, <1>7, <2>1, <2>2 DEF Spans
<1> QED
  BY <1>10, <1>11

\* The intervals that begin before the deleted items keep what lies before
\* them (deleteItems of changed-intervals.ts).
LEMMA LeftIs ==
  ASSUME NEW n \in Nat, Spans(intervals, n), NEW index \in 0 .. n
  PROVE  /\ Spans(CI!LeftOf(index), index)
         /\ \A i \in 1 .. Len(CI!LeftOf(index)) :
              i < Len(CI!LeftOf(index)) => CI!End(CI!LeftOf(index)[i]) < index
         /\ \A x \in Int :
              Within(CI!LeftOf(index), x) <=> x < index /\ Within(intervals, x)
<1> DEFINE v == intervals
           S == {i \in DOMAIN v : CI!Start(v[i]) < index}
           k == Cardinality(S)
           r == CI!LeftOf(index)
           p(i) == CI!Interval(CI!Start(v[i]), CI!Min({CI!End(v[i]), index}))
<1>1. /\ v \in Seq(Pairs) /\ Len(v) \in Nat /\ DOMAIN v = 1 .. Len(v)
      /\ \A i \in 1 .. Len(v) :
           /\ CI!Start(v[i]) \in Int /\ CI!End(v[i]) \in Int
           /\ 0 <= CI!Start(v[i])
           /\ CI!Start(v[i]) < CI!End(v[i])
           /\ CI!End(v[i]) <= n
      /\ \A i, j \in 1 .. Len(v) : i < j => CI!End(v[i]) < CI!Start(v[j])
  BY SpansFacts
<1>2. r = [i \in 1 .. k |-> p(i)]
  BY DEF CI!LeftOf, CI!Cardinality, Cardinality
<1>3. \A i : i \in S <=> i \in 1 .. Len(v) /\ CI!Start(v[i]) < index
  BY <1>1
<1> HIDE DEF S
<1>4. S = 1 .. k /\ k \in 0 .. Len(v)
  <2>1. S \in SUBSET (1 .. Len(v))
    BY <1>3
  <2>2. ASSUME NEW i \in S, NEW j \in 1 .. Len(v), j < i PROVE j \in S
    <3>1. i \in 1 .. Len(v) /\ CI!Start(v[i]) < index
      BY <1>3
    <3>2. /\ CI!End(v[j]) < CI!Start(v[i]) /\ CI!Start(v[j]) < CI!End(v[j])
          /\ CI!Start(v[i]) \in Int /\ CI!Start(v[j]) \in Int /\ CI!End(v[j]) \in Int
          /\ index \in Int
      BY <3>1, <2>2, <1>1
    <3>3. CI!Start(v[j]) < index
      BY ONLY <3>1, <3>2
    <3> QED
      BY <3>3, <1>3
  <2> QED
    BY <1>1, <2>1, <2>2, PrefixOf
<1> HIDE DEF k
<1>5. ASSUME NEW i \in 1 .. k
      PROVE  /\ p(i) \in Pairs
             /\ CI!Start(p(i)) = CI!Start(v[i])
             /\ CI!End(p(i)) = IF CI!End(v[i]) <= index THEN CI!End(v[i]) ELSE index
  <2>1. i \in 1 .. Len(v) /\ CI!Start(v[i]) \in Int /\ CI!End(v[i]) \in Int
    BY <1>1, <1>4
  <2>2. CI!Min({CI!End(v[i]), index}) = IF CI!End(v[i]) <= index THEN CI!End(v[i]) ELSE index
    <3>1. index \in Int
      OBVIOUS
    <3> DEFINE z == CI!End(v[i])
    <3>2. z \in Int
      BY <2>1
    <3> HIDE DEF z
    <3>3. CI!Min({z, index}) = IF z <= index THEN z ELSE index
      BY <3>1, <3>2, LargerSmaller
    <3> QED
      BY <3>3 DEF z
  <2> DEFINE e == CI!Min({CI!End(v[i]), index})
  <2>3. e \in Int
    BY <2>1, <2>2
  <2> HIDE DEF e
  <2>4. /\ CI!Interval(CI!Start(v[i]), e) \in Pairs
        /\ CI!Start(CI!Interval(CI!Start(v[i]), e)) = CI!Start(v[i])
        /\ CI!End(CI!Interval(CI!Start(v[i]), e)) = e
    BY <2>1, <2>3, PairFacts
  <2> QED
    BY <2>2, <2>4 DEF e
<1> HIDE DEF p, r
<1>6. /\ r \in Seq(Pairs) /\ Len(r) = k
      /\ \A i \in 1 .. k : r[i] = p(i)
  BY <1>2, <1>4, <1>5
<1>7. ASSUME NEW i \in 1 .. k
      PROVE  /\ i \in 1 .. Len(v)
             /\ CI!Start(r[i]) = CI!Start(v[i]) /\ CI!Start(v[i]) < index
             /\ CI!End(r[i]) = IF CI!End(v[i]) <= index THEN CI!End(v[i]) ELSE index
  BY <1>3, <1>4, <1>5, <1>6
<1>8. Spans(r, index)
  <2>1. \A i \in 1 .. Len(r) : /\ 0 <= CI!Start(r[i])
                               /\ CI!Start(r[i]) < CI!End(r[i])
                               /\ CI!End(r[i]) <= index
    BY <1>1, <1>6, <1>7
  <2>2. \A i, j \in 1 .. Len(r) : i < j => CI!End(r[i]) < CI!Start(r[j])
    BY <1>1, <1>6, <1>7
  <2> QED
    BY <1>6, <2>1, <2>2 DEF Spans
<1>9. ASSUME NEW i \in 1 .. Len(r), i < Len(r) PROVE CI!End(r[i]) < index
  <2>1. i \in 1 .. k /\ k \in 1 .. k /\ i < k
    BY <1>4, <1>6, <1>9
  <2>2. CI!End(v[i]) < CI!Start(v[k]) /\ CI!Start(v[k]) < index
    BY <2>1, <1>1, <1>7
  <2>3. /\ CI!End(r[i]) <= CI!End(v[i])
        /\ CI!End(r[i]) \in Int /\ CI!End(v[i]) \in Int /\ CI!Start(v[k]) \in Int
    BY <2>1, <1>1, <1>7
  <2>4. index \in Int
    OBVIOUS
  <2> QED
    BY ONLY <2>2, <2>3, <2>4
<1>10. ASSUME NEW x \in Int PROVE Within(r, x) <=> x < index /\ Within(v, x)
  <2>1. ASSUME NEW i \in 1 .. k
        PROVE  Between(r[i], x) <=> x < index /\ Between(v[i], x)
    <3>1. CI!Start(v[i]) \in Int /\ CI!End(v[i]) \in Int
      BY <1>1, <1>7
    <3> QED
      BY <3>1, <1>7 DEF Between
  <2>2. ASSUME NEW i \in 1 .. Len(v), x < index, Between(v[i], x) PROVE i \in 1 .. k
    <3>1. CI!Start(v[i]) < index
      BY <2>2, <1>1 DEF Between
    <3> QED
      BY <3>1, <1>3, <1>4
  <2> QED
    BY <2>1, <2>2, <1>4, <1>6 DEF Within
<1> QED
  BY <1>8, <1>9, <1>10 DEF r

\* The intervals that end behind the deleted items keep what lies behind them,
\* moved down.
LEMMA RightIs ==
  ASSUME NEW n \in Nat, Spans(intervals, n), NEW index \in Nat, NEW count \in Nat,
         index + count <= n
  PROVE  /\ Spans(CI!RightOf(index, count), n - count)
         /\ \A i \in 1 .. Len(CI!RightOf(index, count)) :
              /\ index <= CI!Start(CI!RightOf(index, count)[i])
              /\ 1 < i => index < CI!Start(CI!RightOf(index, count)[i])
         /\ \A x \in Int :
              Within(CI!RightOf(index, count), x) <=>
                index <= x /\ Within(intervals, x + count)
<1> DEFINE v == intervals
           S == {i \in DOMAIN v : CI!End(v[i]) <= index + count}
           k == Cardinality(S)
           m == Len(v) - k
           r == CI!RightOf(index, count)
           p(i) == CI!Interval(CI!Max({CI!Start(v[k + i]) - count, index}),
                               CI!End(v[k + i]) - count)
<1>1. /\ v \in Seq(Pairs) /\ Len(v) \in Nat /\ DOMAIN v = 1 .. Len(v)
      /\ \A i \in 1 .. Len(v) :
           /\ CI!Start(v[i]) \in Int /\ CI!End(v[i]) \in Int
           /\ 0 <= CI!Start(v[i])
           /\ CI!Start(v[i]) < CI!End(v[i])
           /\ CI!End(v[i]) <= n
      /\ \A i, j \in 1 .. Len(v) : i < j => CI!End(v[i]) < CI!Start(v[j])
  BY SpansFacts
<1>2. r = [i \in 1 .. m |-> p(i)]
  BY DEF CI!RightOf, CI!Cardinality, Cardinality
<1>3. \A i : i \in S <=> i \in 1 .. Len(v) /\ CI!End(v[i]) <= index + count
  BY <1>1
<1> HIDE DEF S
<1>4. S = 1 .. k /\ k \in 0 .. Len(v)
  <2>1. S \in SUBSET (1 .. Len(v))
    BY <1>3
  <2>2. ASSUME NEW i \in S, NEW j \in 1 .. Len(v), j < i PROVE j \in S
    <3>1. i \in 1 .. Len(v) /\ CI!End(v[i]) <= index + count
      BY <1>3
    <3>2. /\ CI!End(v[j]) < CI!Start(v[i]) /\ CI!Start(v[i]) < CI!End(v[i])
          /\ CI!Start(v[i]) \in Int /\ CI!End(v[i]) \in Int /\ CI!End(v[j]) \in Int
          /\ index + count \in Int
      BY <3>1, <2>2, <1>1
    <3>3. CI!End(v[j]) <= index + count
      BY ONLY <3>1, <3>2
    <3> QED
      BY <3>3, <1>3
  <2> QED
    BY <1>1, <2>1, <2>2, PrefixOf
<1> HIDE DEF k
<1>5. m \in Nat
  BY <1>1, <1>4
<1>6. ASSUME NEW i \in 1 .. m
      PROVE  /\ k + i \in 1 .. Len(v)
             /\ index + count < CI!End(v[k + i])
             /\ CI!Start(v[k + i]) \in Int /\ CI!End(v[k + i]) \in Int
  <2> DEFINE j == k + i
  <2>1. j \in 1 .. Len(v) /\ ~ (j \in 1 .. k)
    BY <1>1, <1>4
  <2> HIDE DEF j
  <2>2. ~ (CI!End(v[j]) <= index + count) /\ CI!End(v[j]) \in Int /\ CI!Start(v[j]) \in Int
    BY <2>1, <1>1, <1>3, <1>4
  <2>3. index + count < CI!End(v[j])
    BY <2>2
  <2> QED
    BY <2>1, <2>2, <2>3 DEF j
<1>7. ASSUME NEW i \in 1 .. m
      PROVE  /\ p(i) \in Pairs
             /\ CI!Start(p(i)) = IF CI!Start(v[k + i]) - count >= index
                                   THEN CI!Start(v[k + i]) - count ELSE index
             /\ CI!End(p(i)) = CI!End(v[k + i]) - count
  <2> DEFINE a == CI!Start(v[k + i]) - count
             e == CI!End(v[k + i]) - count
             b == CI!Max({a, index})
  <2>1. a \in Int /\ e \in Int
    BY <1>6
  <2> HIDE DEF a, e
  <2>2. b = IF a >= index THEN a ELSE index
    BY <2>1, LargerSmaller
  <2>3. b \in Int
    BY <2>1, <2>2
  <2> HIDE DEF b
  <2>4. /\ CI!Interval(b, e) \in Pairs
        /\ CI!Start(CI!Interval(b, e)) = b
        /\ CI!End(CI!Interval(b, e)) = e
    BY <2>1, <2>3, PairFacts
  <2>5. p(i) = CI!Interval(b, e)
    BY DEF a, b, e
  <2> QED
    BY <2>2, <2>4, <2>5 DEF a, e
<1> HIDE DEF p, r
<1>8. /\ r \in Seq(Pairs) /\ Len(r) = m
      /\ \A i \in 1 .. m : r[i] = p(i)
  <2> HIDE DEF m
  <2> QED
    BY <1>2, <1>5, <1>7
<1>9. ASSUME NEW i \in 1 .. m
      PROVE  /\ CI!Start(r[i]) = IF CI!Start(v[k + i]) - count >= index
                                   THEN CI!Start(v[k + i]) - count ELSE index
             /\ CI!End(r[i]) = CI!End(v[k + i]) - count
  BY <1>7, <1>8
<1>10. ASSUME NEW i \in 1 .. m, NEW j \in 1 .. m, i < j
       PROVE  CI!End(v[k + i]) < CI!Start(v[k + j])
  <2>1. k + i \in 1 .. Len(v) /\ k + j \in 1 .. Len(v) /\ k + i < k + j
    BY <1>4, <1>6, <1>10
  <2> QED
    BY <2>1, <1>1
<1>11. Spans(r, n - count)
  <2>1. ASSUME NEW i \in 1 .. Len(r)
        PROVE  /\ 0 <= CI!Start(r[i])
               /\ CI!Start(r[i]) < CI!End(r[i])
               /\ CI!End(r[i]) <= n - count
    <3>1. i \in 1 .. m
      BY <1>8
    <3>2. /\ 0 <= CI!Start(v[k + i]) /\ CI!Start(v[k + i]) < CI!End(v[k + i])
          /\ CI!End(v[k + i]) <= n
      BY <3>1, <1>1, <1>6
    <3> QED
      BY <3>1, <3>2, <1>6, <1>9
  <2>2. ASSUME NEW i \in 1 .. Len(r), NEW j \in 1 .. Len(r), i < j
        PROVE  CI!End(r[i]) < CI!Start(r[j])
    <3>1. i \in 1 .. m /\ j \in 1 .. m
      BY <1>8
    <3>2. CI!End(v[k + i]) < CI!Start(v[k + j])
      BY <3>1, <2>2, <1>10
    <3> QED
      BY <3>1, <3>2, <1>6, <1>9
  <2> QED
    BY <1>8, <2>1, <2>2 DEF Spans
<1>12. ASSUME NEW i \in 1 .. Len(r)
       PROVE  index <= CI!Start(r[i]) /\ (1 < i => index < CI!Start(r[i]))
  <2>1. i \in 1 .. m
    BY <1>8
  <2>2. index <= CI!Start(r[i])
    BY <2>1, <1>6, <1>9
  <2>3. ASSUME 1 < i PROVE index < CI!Start(r[i])
    <3>1. 1 \in 1 .. m
      BY <2>1, <1>5
    <3>2. CI!End(v[k + 1]) < CI!Start(v[k + i]) /\ index + count < CI!End(v[k + 1])
      BY <3>1, <2>1, <2>3, <1>6, <1>10
    <3> QED
      BY <3>1, <3>2, <2>1, <1>6, <1>9
  <2> QED
    BY <2>2, <2>3
<1>13. ASSUME NEW x \in Int PROVE Within(r, x) <=> index <= x /\ Within(v, x + count)
  <2>1. ASSUME NEW i \in 1 .. m
        PROVE  Between(r[i], x) <=> index <= x /\ Between(v[k + i], x + count)
    BY <1>6, <1>9 DEF Between
  <2>2. ASSUME Within(r, x) PROVE index <= x /\ Within(v, x + count)
    <3>1. PICK i \in 1 .. Len(r) : Between(r[i], x)
      BY <2>2 DEF Within
    <3>2. i \in 1 .. m /\ k + i \in 1 .. Len(v)
      BY <1>6, <1>8
    <3> QED
      BY <3>1, <3>2, <2>1 DEF Within
  <2>3. ASSUME index <= x, Within(v, x + count) PROVE Within(r, x)
    <3>1. PICK j \in 1 .. Len(v) : Between(v[j], x + count)
      BY <2>3 DEF Within
    <3>2. index + count < CI!End(v[j])
      BY <3>1, <2>3, <1>1 DEF Between
    <3>3. ~ (j \in 1 .. k)
      BY <3>2, <1>1, <1>3, <1>4
    <3> DEFINE i == j - k
    <3>4. i \in 1 .. m /\ k + i = j
      BY <3>3, <1>1, <1>4
    <3> HIDE DEF i
    <3>5. Between(r[i], x)
      BY <3>1, <3>4, <2>1, <2>3
    <3> QED
      BY <3>4, <3>5, <1>8 DEF Within
  <2> QED
    BY <2>2, <2>3
<1> QED
  BY <1>11, <1>12, <1>13 DEF r

\* deleteItems keeps what lies before and behind the deleted items within the
\* intervals (changed-intervals.ts).
LEMMA DeleteItemsCovers ==
  ASSUME length \in Nat, Spans(intervals, length), NEW index \in 0 .. length - 1,
         NEW count \in 1 .. length - index, CI!DeleteItems(index, count)
  PROVE  /\ Spans(intervals', length - count)
         /\ \A x \in Int :
              Within(intervals', x) <=>
                \/ x < index /\ Within(intervals, x)
                \/ index <= x /\ Within(intervals, x + count)
<1> DEFINE a == CI!LeftOf(index)
           b == CI!RightOf(index, count)
           n == length - count
<1>1. index \in Nat /\ count \in Nat /\ index \in 0 .. length /\ index + count <= length
      /\ n \in Nat /\ index <= n
  OBVIOUS
<1>2. intervals' = Joined(a, b)
  BY DEF CI!DeleteItems, Joined
<1> HIDE DEF a, b, n
<1>3. /\ Spans(a, index)
      /\ \A i \in 1 .. Len(a) : i < Len(a) => CI!End(a[i]) < index
      /\ \A x \in Int : Within(a, x) <=> x < index /\ Within(intervals, x)
  BY <1>1, LeftIs DEF a
<1>4. /\ Spans(b, n)
      /\ \A i \in 1 .. Len(b) : /\ index <= CI!Start(b[i])
                                /\ 1 < i => index < CI!Start(b[i])
      /\ \A x \in Int : Within(b, x) <=> index <= x /\ Within(intervals, x + count)
  BY <1>1, RightIs DEF b, n
<1>5. \A i \in 1 .. Len(a) : CI!End(a[i]) <= index
  BY <1>3 DEF Spans
<1>6. Spans(a, n)
  <2>1. \A i \in 1 .. Len(a) : CI!End(a[i]) \in Int
    BY <1>1, <1>3, SpansFacts
  <2> QED
    BY <1>1, <1>3, <1>5, <2>1 DEF Spans
<1>7. /\ Spans(Joined(a, b), n)
      /\ \A x \in Int : Within(Joined(a, b), x) <=> Within(a, x) \/ Within(b, x)
  <2>1. /\ \A i \in 1 .. Len(a) : /\ CI!End(a[i]) <= index
                                  /\ i < Len(a) => CI!End(a[i]) < index
        /\ index \in Int
    BY <1>1, <1>3, <1>5
  <2> QED
    BY ONLY <1>1, <1>4, <1>6, <2>1, SpansJoined
<1> QED
  BY <1>2, <1>3, <1>4, <1>7 DEF n

-----------------------------------------------------------------------------
(* The intervals and the changed items.                                    *)

\* The inductive invariant: the intervals are in order and apart, and what lies
\* within them is what has changed.
Agree ==
  /\ length \in 0 .. MaxLength
  /\ Spans(intervals, length)
  /\ \A x \in Int : Within(intervals, x) <=> x \in cumulative

\* A write of one item: set is called just when the item becomes another one.
LEMMA WriteAgrees ==
  ASSUME IInv, Agree, NEW i \in Indexes, NEW item,
         UNCHANGED <<length, address>>,
         Array' = [Array EXCEPT ![i] = item], IA!Changed(i, item), Changes(i)
  PROVE  Agree'
<1>1. /\ memory[address[i]] = Array[i] /\ memory'[address[i]] = item
      /\ length \in Nat /\ i \in 0 .. length - 1
  <2>1. Array[i] = memory[address[i]] /\ Array'[i] = memory'[address'[i]] /\ Array'[i] = item
    BY DEF Array
  <2> QED
    BY <2>1 DEF IInv, Shapes
<1>2. CASE item = Array[i]
  <2>1. intervals' = intervals /\ cumulative' = cumulative /\ length' = length
    BY <1>1, <1>2 DEF Changes, IA!Changed
  <2> QED
    BY <2>1 DEF Agree
<1>3. CASE item # Array[i]
  <2>1. CI!Set(i) /\ cumulative' = cumulative \cup {i} /\ length' = length
    BY <1>1, <1>3 DEF Changes, IA!Changed
  <2>2. /\ Spans(intervals', length)
        /\ \A x \in Int : Within(intervals', x) <=> Within(intervals, x) \/ x = i
    BY <1>1, <2>1, SetCovers DEF Agree
  <2> QED
    BY <2>1, <2>2 DEF Agree
<1> QED
  BY <1>2, <1>3

\* An insertion moves the changed items behind it as it moves the intervals.
LEMMA AddAfterAgrees ==
  ASSUME IInv, Agree, NEW index \in -1 .. length - 1, NEW item \in Items,
         AddAfter(index, item), CI!AddAfter(index)
  PROVE  Agree'
<1>1. length \in Nat /\ MaxLength \in Nat /\ cumulative \subseteq 0 .. length - 1
  BY LazyArrayAssumption DEF IInv, Shapes
<1>2. /\ length' = length + 1 /\ length < MaxLength
      /\ cumulative' = Inserted(cumulative, index + 1)
  BY DEF AddAfter, CI!AddAfter
<1>3. /\ Spans(intervals', length + 1)
      /\ \A x \in Int :
           Within(intervals', x) <=>
             \/ x < index + 1 /\ Within(intervals, x)
             \/ x = index + 1
             \/ x > index + 1 /\ Within(intervals, x - 1)
  BY <1>1, AddAfterCovers DEF Agree
<1>4. \A x \in Int :
        x \in Inserted(cumulative, index + 1) <=>
          \/ x < index + 1 /\ x \in cumulative
          \/ x = index + 1
          \/ x > index + 1 /\ x - 1 \in cumulative
  BY <1>1 DEF Inserted
<1>5. \A x \in Int : Within(intervals, x) <=> x \in cumulative
  BY DEF Agree
<1>6. \A x \in Int : Within(intervals, x - 1) <=> x - 1 \in cumulative
  BY <1>5
<1>7. \A x \in Int : Within(intervals', x) <=> x \in cumulative'
  BY <1>2, <1>3, <1>4, <1>5, <1>6
<1> QED
  BY <1>1, <1>2, <1>3, <1>7 DEF Agree

\* A deletion takes the changed items that go out of the intervals and moves
\* those behind.
LEMMA DeleteItemsAgrees ==
  ASSUME IInv, Agree, NEW from \in Indexes, NEW count \in 1 .. length - from,
         NEW collect \in BOOLEAN, DeleteItems(from, count, collect),
         CI!DeleteItems(from, count)
  PROVE  Agree'
<1>1. /\ length \in Nat /\ cumulative \subseteq 0 .. length - 1
      /\ from \in 0 .. length - 1 /\ length \in 0 .. MaxLength /\ MaxLength \in Nat
  BY LazyArrayAssumption DEF IInv, Shapes, Agree
<1>2. length' = length - count /\ cumulative' = Removed(cumulative, from, count)
  BY DEF DeleteItems
<1>3. /\ Spans(intervals', length - count)
      /\ \A x \in Int :
           Within(intervals', x) <=>
             \/ x < from /\ Within(intervals, x)
             \/ from <= x /\ Within(intervals, x + count)
  BY <1>1, DeleteItemsCovers DEF Agree
<1>4. \A x \in Int :
        x \in Removed(cumulative, from, count) <=>
          \/ x < from /\ x \in cumulative
          \/ from <= x /\ x + count \in cumulative
  <2> TAKE x \in Int
  <2>1. ASSUME x \in Removed(cumulative, from, count)
        PROVE  \/ x < from /\ x \in cumulative
               \/ from <= x /\ x + count \in cumulative
    <3>1. PICK j \in cumulative : /\ j < from \/ j >= from + count
                                  /\ x = IF j < from THEN j ELSE j - count
      BY <2>1 DEF Removed
    <3> QED
      BY <3>1, <1>1
  <2>2. ASSUME x < from, x \in cumulative PROVE x \in Removed(cumulative, from, count)
    BY <2>2, <1>1 DEF Removed
  <2>3. ASSUME from <= x, x + count \in cumulative
        PROVE  x \in Removed(cumulative, from, count)
    <3> DEFINE j == x + count
    <3>1. /\ j \in cumulative /\ j >= from + count /\ ~ (j < from) /\ x = j - count
      BY <2>3, <1>1
    <3> HIDE DEF j
    <3> QED
      BY <3>1 DEF Removed
  <2> QED
    BY <2>1, <2>2, <2>3
<1>5. \A x \in Int : Within(intervals, x) <=> x \in cumulative
  BY DEF Agree
<1>6. \A x \in Int : Within(intervals, x + count) <=> x + count \in cumulative
  BY <1>5
<1>7. \A x \in Int : Within(intervals', x) <=> x \in cumulative'
  BY <1>2, <1>3, <1>4, <1>5, <1>6
<1>8. length' \in 0 .. MaxLength
  BY <1>1, <1>2
<1> QED
  BY <1>2, <1>3, <1>7, <1>8 DEF Agree

\* Clearing the changes clears the intervals.
LEMMA ClearAgrees ==
  ASSUME Agree, CI!Clear, cumulative' = {}
  PROVE  Agree'
<1>1. length' = length /\ intervals' = <<>> /\ Len(<<>>) = 0
  BY DEF CI!Clear
<1>2. Spans(intervals', length')
  BY <1>1 DEF Spans
<1>3. \A x : ~ Within(intervals', x)
  BY <1>1 DEF Within
<1> QED
  BY <1>1, <1>2, <1>3 DEF Agree

\* No step of the accessor parts the intervals from the changed items.
LEMMA NextAgrees ==
  ASSUME IInv, Agree, [NextAccessor]_accessorVars
  PROVE  Agree'
<1>1. ASSUME UNCHANGED <<length, cumulative, intervals>> PROVE Agree'
  BY <1>1 DEF Agree
<1>2. ASSUME NEW i \in Indexes, Get(i) /\ UNCHANGED intervals PROVE Agree'
  BY <1>1, <1>2 DEF Get, changeVars
<1>3. ASSUME NEW i \in Indexes, NEW f \in Fields, GetField(i, f) /\ UNCHANGED intervals
      PROVE  Agree'
  BY <1>1, <1>3 DEF GetField, changeVars
<1>4. ASSUME NEW i \in Indexes, NEW item \in Items, Set(i, item) /\ Changes(i)
      PROVE  Agree'
  <2>1. IA!Set(i, item)
    BY <1>4, SetKeeps
  <2>2. UNCHANGED <<length, address>>
    BY <1>4 DEF Set
  <2> DEFINE stored == IA!StoredItem(item)
  <2>3. Array' = [Array EXCEPT ![i] = stored] /\ IA!Changed(i, stored)
    BY <2>1 DEF IA!Set
  <2> HIDE DEF stored
  <2> QED
    BY <1>4, <2>2, <2>3, WriteAgrees
<1>5. ASSUME NEW i \in Indexes, NEW f \in Fields, NEW value \in Values,
             SetField(i, f, value) /\ Changes(i)
      PROVE  Agree'
  <2>1. IA!SetField(i, f, value)
    BY <1>5, SetFieldKeeps
  <2>2. UNCHANGED <<length, address>>
    BY <1>5 DEF SetField
  <2> DEFINE stored == [Array[i] EXCEPT ![f] = Stored(value)]
  <2>3. Array' = [Array EXCEPT ![i] = stored] /\ IA!Changed(i, stored)
    BY <2>1 DEF IA!SetField
  <2> HIDE DEF stored
  <2> QED
    BY <1>5, <2>2, <2>3, WriteAgrees
<1>6. ASSUME NEW index \in -1 .. length - 1, NEW item \in Items,
             AddAfter(index, item) /\ CI!AddAfter(index)
      PROVE  Agree'
  BY <1>6, AddAfterAgrees
<1>7. ASSUME NEW from \in Indexes, NEW count \in 1 .. length - from, NEW collect \in BOOLEAN,
             DeleteItems(from, count, collect) /\ CI!DeleteItems(from, count)
      PROVE  Agree'
  BY <1>7, DeleteItemsAgrees
<1>8. ASSUME ClearDeleted /\ UNCHANGED intervals PROVE Agree'
  BY <1>1, <1>8 DEF ClearDeleted
<1>9. ASSUME ClearCumulativeChanges /\ CI!Clear PROVE Agree'
  BY <1>9, ClearAgrees DEF ClearCumulativeChanges
<1>10. ASSUME ClearAll /\ CI!Clear PROVE Agree'
  BY <1>10, ClearAgrees DEF ClearAll, ForgetAll
<1>11. ASSUME NEW i \in Indexes, NEW item, Receive(i, item) /\ CI!Clear PROVE Agree'
  BY <1>11, ClearAgrees DEF Receive, ForgetAll
<1>12. CASE UNCHANGED accessorVars
  BY <1>1, <1>12 DEF accessorVars, vars, changeVars
<1>13. CASE NextAccessor
  BY <1>2, <1>3, <1>4, <1>5, <1>6, <1>7, <1>8, <1>9, <1>10, <1>11, <1>13 DEF NextAccessor
<1> QED
  BY <1>12, <1>13

\* What the invariant says of the intervals a delta is made of.
LEMMA AgreeImplies ==
  ASSUME IInv, Agree
  PROVE  IntervalsAgree
<1>1. length \in 0 .. MaxLength /\ MaxLength \in Nat /\ cumulative \subseteq 0 .. length - 1
  BY LazyArrayAssumption DEF Agree, IInv, Shapes
<1>2. /\ intervals \in Seq(Pairs) /\ Len(intervals) \in Nat
      /\ DOMAIN intervals = 1 .. Len(intervals)
      /\ \A i \in 1 .. Len(intervals) :
           /\ intervals[i] \in Pairs
           /\ CI!Start(intervals[i]) \in Int /\ CI!End(intervals[i]) \in Int
           /\ 0 <= CI!Start(intervals[i])
           /\ CI!Start(intervals[i]) < CI!End(intervals[i])
           /\ CI!End(intervals[i]) <= length
      /\ \A i, j \in 1 .. Len(intervals) :
           i < j => CI!End(intervals[i]) < CI!Start(intervals[j])
  <2>1. length \in Nat /\ Spans(intervals, length)
    BY <1>1 DEF Agree
  <2> QED
    BY <2>1, SpansFacts
<1>3. CI!Normalised
  BY <1>2 DEF CI!Normalised
<1>4. ASSUME NEW i \in 1 .. Len(intervals)
      PROVE  intervals[i] \in (0 .. MaxLength) \X (1 .. MaxLength)
  <2>1. intervals[i] \in Int \X Int
    BY <1>2 DEF Pairs
  <2>2. /\ 0 <= intervals[i][1]
        /\ intervals[i][1] < intervals[i][1] + intervals[i][2]
        /\ intervals[i][1] + intervals[i][2] <= length
    BY <1>2 DEF CI!Start, CI!End
  <2>3. intervals[i] = <<intervals[i][1], intervals[i][2]>>
        /\ intervals[i][1] \in Int /\ intervals[i][2] \in Int
    BY <2>1
  <2>4. intervals[i][1] \in 0 .. MaxLength /\ intervals[i][2] \in 1 .. MaxLength
    BY <1>1, <2>2, <2>3
  <2> QED
    BY <2>3, <2>4
<1>5. CI!TypeOK
  <2> DEFINE S == (0 .. MaxLength) \X (1 .. MaxLength)
  <2>1. \A i \in 1 .. Len(intervals) : intervals[i] \in S
    BY <1>4
  <2> HIDE DEF S
  <2>2. intervals \in Seq(S)
    BY <1>2, <2>1
  <2> QED
    BY <1>1, <2>2 DEF CI!TypeOK, S
<1>6. CI!Covered = cumulative
  <2>1. \A x : x \in CI!Covered <=> x \in 0 .. length - 1 /\ Within(intervals, x)
    BY <1>2 DEF CI!Covered, Within, Between
  <2>2. \A x \in Int : Within(intervals, x) <=> x \in cumulative
    BY DEF Agree
  <2>3. \A x \in cumulative : x \in 0 .. length - 1 /\ x \in Int
    BY <1>1
  <2>4. \A x \in 0 .. length - 1 : x \in Int
    BY <1>1
  <2>5. \A x : x \in CI!Covered <=> x \in cumulative
    BY ONLY <2>1, <2>2, <2>3, <2>4
  <2> QED
    BY <2>5
<1> QED
  BY <1>3, <1>5, <1>6 DEF IntervalsAgree

\* The intervals a delta is made of are as few as possible and cover just the
\* items that are new or differ from what they were, whatever was written,
\* inserted, deleted and received (set, addAfter, deleteItems and clear of
\* changed-intervals.ts, called by lazy-array.ts).
THEOREM IntervalsAlwaysAgree == SpecAccessor => []IntervalsAgree
<1>1. InitAccessor => IInv /\ Agree
  <2> SUFFICES ASSUME InitAccessor PROVE IInv /\ Agree
    OBVIOUS
  <2>1. Init /\ intervals = <<>>
    BY DEF InitAccessor
  <2>2. length = 0 /\ cumulative = {} /\ Len(intervals) = 0 /\ 0 \in 0 .. MaxLength
    BY <2>1, LazyArrayAssumption DEF Init
  <2>3. Spans(intervals, length)
    BY <2>1, <2>2 DEF Spans
  <2>4. \A x : ~ Within(intervals, x)
    BY <2>2 DEF Within
  <2> QED
    BY <2>1, <2>2, <2>3, <2>4, InitHolds DEF Agree
<1>2. IInv /\ Agree /\ [NextAccessor]_accessorVars => (IInv /\ Agree)'
  <2> SUFFICES ASSUME IInv, Agree, [NextAccessor]_accessorVars PROVE IInv' /\ Agree'
    OBVIOUS
  <2>1. [Next]_vars
    <3>1. CASE NextAccessor
      BY <3>1 DEF NextAccessor, Next
    <3>2. CASE UNCHANGED accessorVars
      BY <3>2 DEF accessorVars
    <3> QED
      BY <3>1, <3>2
  <2> QED
    BY <2>1, NextKeeps, NextAgrees
<1>3. IInv /\ Agree => IntervalsAgree
  BY AgreeImplies
<1> QED
  BY <1>1, <1>2, <1>3, PTL DEF SpecAccessor

-----------------------------------------------------------------------------
(* The values collected from deleted items.                                *)

\* The length of a function over the indexes of a sequence.
LEMMA LengthOf ==
  ASSUME NEW n \in Nat, NEW g, g = [k \in 1 .. n |-> g[k]]
  PROVE  Len(g) = n
<1> DEFINE S == {g[k] : k \in 1 .. n}
<1>1. \A k \in 1 .. n : g[k] \in S
  OBVIOUS
<1> HIDE DEF S
<1>2. [k \in 1 .. n |-> g[k]] \in Seq(S) /\ Len([k \in 1 .. n |-> g[k]]) = n
  BY <1>1
<1> QED
  BY <1>2

\* Reading an item gives what the array has there, from the cache or not.
LEMMA ReadsAsArray ==
  ASSUME IInv, NEW i \in Indexes, NEW item \in ReadsAs(i)
  PROVE  item = Array[i]
<1>1. CASE Cached(i) # Hole
  BY <1>1 DEF ReadsAs, Cached, IInv, CacheAgrees, Array
<1>2. CASE ~ (Cached(i) # Hole)
  <2>1. PICK w \in Windows(i) : item = memory[Position(w, i)]
    BY <1>2 DEF ReadsAs
  <2>2. Position(w, i) = address[i]
    BY PlaceIsAddress
  <2> QED
    BY <2>1, <2>2 DEF Array
<1> QED
  BY <1>1, <1>2

\* An insertion changes the indexes of the records, never their number.
LEMMA AddAfterCollectsNothing ==
  ASSUME IInv, NEW index, NEW item, AddAfter(index, item)
  PROVE  Len(deletedItems') = Len(deletedItems)
<1>1. Len(deletedItems) \in Nat /\ DOMAIN deletedItems = 1 .. Len(deletedItems)
  <2>1. PICK S : deletedItems \in Seq(S)
    BY DEF IInv, Shapes
  <2> QED
    BY <2>1
<1> DEFINE n == Len(deletedItems)
<1>2. deletedItems' = [k \in 1 .. n |-> deletedItems'[k]]
  BY <1>1 DEF AddAfter
<1> HIDE DEF n
<1>3. n \in Nat
  BY <1>1 DEF n
<1> QED
  BY <1>2, <1>3, LengthOf DEF n

\* A deletion that collects appends one record, at the first index that goes
\* and with the values that go.
LEMMA DeletionCollects ==
  ASSUME IInv, NEW from \in Indexes, NEW count \in 1 .. length - from,
         NEW collect \in BOOLEAN, DeleteItems(from, count, collect),
         Len(deletedItems') > Len(deletedItems)
  PROVE  /\ deletedItems'[Len(deletedItems')].index = from
         /\ \A k \in 1 .. count :
              deletedItems'[Len(deletedItems')].values[k] = Array[from + k - 1]
<1>1. PICK records \in Collected(from, count, collect) :
        deletedItems' =
          [k \in DOMAIN records |->
             [ index  |-> IF records[k].index > from
                            THEN IF from > records[k].index - count
                                   THEN from
                                   ELSE records[k].index - count
                            ELSE records[k].index,
               values |-> records[k].values ]]
  BY DEF DeleteItems
<1>2. PICK S : deletedItems \in Seq(S)
  BY DEF IInv, Shapes
<1>3. /\ length \in Nat /\ from \in 0 .. length - 1 /\ count \in 1 .. length - from
  BY DEF IInv, Shapes
<1>4. ASSUME NEW n \in Nat, DOMAIN records = 1 .. n PROVE Len(deletedItems') = n
  <2>1. deletedItems' = [k \in 1 .. n |-> deletedItems'[k]]
    BY <1>1, <1>4
  <2> QED
    BY <2>1, LengthOf
<1>5. records # deletedItems
  <2> SUFFICES ASSUME records = deletedItems PROVE FALSE
    OBVIOUS
  <2>1. Len(deletedItems) \in Nat /\ DOMAIN records = 1 .. Len(deletedItems)
    BY <1>2
  <2>2. Len(deletedItems') = Len(deletedItems)
    BY <2>1, <1>4
  <2> QED
    BY <2>1, <2>2
<1>6. PICK values \in [1 .. count -> Items] :
        /\ \A k \in 1 .. count : values[k] \in ReadsAs(from + k - 1)
        /\ records = Append(deletedItems, [index |-> from, values |-> values])
  BY <1>5 DEF Collected
<1> DEFINE record == [index |-> from, values |-> values]
           n == Len(deletedItems) + 1
<1>7. record.index = from /\ record.values = values
  OBVIOUS
<1> HIDE DEF record
<1>8. n \in Nat /\ DOMAIN records = 1 .. n /\ n \in 1 .. n /\ records[n] = record
  <2>1. deletedItems \in Seq(S \cup {record}) /\ record \in S \cup {record}
    BY <1>2
  <2>2. records = Append(deletedItems, record)
    BY <1>6 DEF record
  <2> QED
    BY <2>1, <2>2
<1> HIDE DEF n
<1>9. Len(deletedItems') = n
  BY <1>4, <1>8
<1>10. ~ (records[n].index > from)
  BY <1>3, <1>7, <1>8
<1>11. deletedItems'[n] =
         [ index  |-> IF records[n].index > from
                        THEN IF from > records[n].index - count
                               THEN from
                               ELSE records[n].index - count
                        ELSE records[n].index,
           values |-> records[n].values ]
  BY <1>1, <1>8
<1>12. deletedItems'[n].index = from /\ deletedItems'[n].values = values
  BY <1>7, <1>8, <1>10, <1>11
<1>13. ASSUME NEW k \in 1 .. count PROVE values[k] = Array[from + k - 1]
  <2>1. from + k - 1 \in Indexes
    BY <1>3
  <2>2. values[k] \in ReadsAs(from + k - 1)
    BY <1>6
  <2> DEFINE i == from + k - 1
  <2> HIDE DEF i
  <2>3. i \in Indexes /\ values[k] \in ReadsAs(i)
    BY <2>1, <2>2 DEF i
  <2>4. values[k] = Array[i]
    BY <2>3, ReadsAsArray
  <2> QED
    BY <2>4 DEF i
<1> QED
  BY <1>9, <1>12, <1>13

\* A step that makes the records more is a deletion that collects what goes.
LEMMA StepCollects ==
  ASSUME IInv, [Next]_vars, Len(deletedItems') > Len(deletedItems)
  PROVE  \E from \in Indexes :
           /\ Array' = IA!RemovedFrom(Array, length, from, length - length')
           /\ deletedItems'[Len(deletedItems')].index = from
           /\ \A k \in 1 .. length - length' :
                deletedItems'[Len(deletedItems')].values[k] = Array[from + k - 1]
<1>1. Len(deletedItems) \in Nat /\ length \in Nat
  <2>1. PICK S : deletedItems \in Seq(S)
    BY DEF IInv, Shapes
  <2> QED
    BY <2>1 DEF IInv, Shapes
<1>2. deletedItems' # deletedItems
  BY <1>1
<1>3. deletedItems' # <<>>
  <2>1. Len(<<>>) = 0
    OBVIOUS
  <2> QED
    BY <1>1, <2>1
<1>4. ASSUME NEW index, NEW item, AddAfter(index, item) PROVE FALSE
  BY <1>1, <1>4, AddAfterCollectsNothing
<1>5. PICK from \in Indexes : \E count \in 1 .. length - from, collect \in BOOLEAN :
        DeleteItems(from, count, collect)
  BY <1>2, <1>3, <1>4 DEF Next, vars, changeVars, Get, GetField, Set, SetField, Noticed,
     ClearDeleted, ClearCumulativeChanges, ClearAll, ForgetAll, Receive
<1>6. PICK count \in 1 .. length - from, collect \in BOOLEAN :
        DeleteItems(from, count, collect)
  BY <1>5
<1>7. length - length' = count
  BY <1>1, <1>6 DEF DeleteItems
<1>8. Array' = IA!RemovedFrom(Array, length, from, count)
  BY <1>6, DeleteItemsKeeps DEF IA!DeleteItems
<1> QED
  BY <1>6, <1>7, <1>8, DeletionCollects

\* Whatever is cached and wherever the bytes are, the values collected from
\* deleted items are those the array had there (deleteItems of lazy-array.ts).
THEOREM WhatGoesIsCollected == Spec => CollectsWhatGoes
<1>1. Spec => []IInv
  <2>1. IInv /\ [Next]_vars => IInv'
    BY NextKeeps
  <2> QED
    BY InitHolds, <2>1, PTL DEF Spec
<1>2. IInv /\ [Next]_vars =>
        [Len(deletedItems') > Len(deletedItems) =>
           \E from \in Indexes :
             /\ Array' = IA!RemovedFrom(Array, length, from, length - length')
             /\ deletedItems'[Len(deletedItems')].index = from
             /\ \A k \in 1 .. length - length' :
                  deletedItems'[Len(deletedItems')].values[k] = Array[from + k - 1]]_vars
  BY StepCollects
<1> QED
  BY <1>1, <1>2, PTL DEF Spec, CollectsWhatGoes

-----------------------------------------------------------------------------
(* Entities: the invariant of EntityRecalculation.                         *)

\* Lists and items.
IsList(s) == s \in Seq(Range(s))

IsCandle(r) ==
  /\ r = [ receivedAt |-> r.receivedAt, startedAt |-> r.startedAt,
           endedAt |-> r.endedAt, price |-> r.price, speed |-> r.speed,
           acceleration |-> r.acceleration, ema |-> r.ema, filter |-> r.filter,
           marketPhase |-> r.marketPhase ]
  /\ r.receivedAt \in Int /\ r.startedAt \in Int /\ r.endedAt \in Int

\* An item was received within the time it stands for.
Spanned(r) == r.startedAt <= r.receivedAt /\ r.receivedAt <= r.endedAt

Candles(s) == IsList(s) /\ \A i \in DOMAIN s : IsCandle(s[i])

\* The tick received last is still to be calculated.
Fresh == phase = "recalculate" /\ level = 0

\* What the variables are, and that Len(items) is what the levels count.
EntityShapes ==
  /\ Candles(items)
  /\ counts \in [Levels -> Nat]
  /\ Len(items) = LevelEnd(0) - 1
  /\ phase \in {"idle", "recalculate", "aggregate", "ended"}
  /\ level \in Levels
  /\ maxCount \in Releases
  /\ now \in Int
  /\ phase = "idle" => level = 0
  /\ phase \in {"recalculate", "aggregate"} => items # <<>>

\* The newest item is a tick, at the time of the clock, and all of level 0 are
\* ticks.  Only a configuration that keeps a tick in level 0 sees to that.
NewestIsTick ==
  /\ items # <<>> => counts[0] > 0 /\ items[Len(items)].endedAt = now
  /\ Fresh /\ Len(items) > 1 => counts[0] > 1
  /\ \A i \in DOMAIN items : i >= LevelStart(0) => items[i].startedAt = items[i].endedAt

AllSpanned == \A i \in DOMAIN items : Spanned(items[i])

\* Items follow each other, and ticks do so at a distance of g.  The tick just
\* received may be behind; if so the market phase throws.
Ordered(g) ==
  \A i \in 2 .. Len(items) :
    IF Fresh /\ i = Len(items)
      THEN /\ items[i].endedAt # items[i - 1].endedAt
           /\ items[i].endedAt > items[i - 1].endedAt =>
                items[i].endedAt >= items[i - 1].endedAt + g
      ELSE /\ items[i - 1].endedAt < items[i].startedAt
           /\ i > LevelStart(0) => items[i].endedAt >= items[i - 1].endedAt + g

\* A record of deleted candles: the item at its index is the aggregate of just
\* those, and the item behind has the speed from the last of them still.
IsRecord(record, list, changed) ==
  LET values == record.values
      index  == record.index
  IN  /\ record = [index |-> index, values |-> values]
      /\ index \in DOMAIN list
      /\ Candles(values) /\ values # <<>>
      /\ \A k \in DOMAIN values : values[k].price # NaN /\ Spanned(values[k])
      /\ values[1].startedAt <= values[Len(values)].startedAt
      /\ Len(values) > 1 => values[1].startedAt < values[Len(values)].endedAt
      /\ list[index] = Aggregate(values)
      /\ index + 1 \in DOMAIN list /\ index + 1 \notin changed =>
           list[index + 1].speed
             = Speed(values[Len(values)], list[index + 1], list[index + 1].price)

\* What is changed is where the records are, but for a tick just received, and
\* below the level that aggregation is at.
RecordsRight ==
  /\ IsList(deleted)
  /\ \A k \in DOMAIN deleted : IsRecord(deleted[k], items, transitory)
  /\ \A j, k \in DOMAIN deleted : deleted[j].index = deleted[k].index => j = k
  /\ IF Fresh
       THEN /\ transitory = {Len(items)} /\ deleted = <<>>
            /\ items[Len(items)].price # NaN /\ items[Len(items)].filter = Null
       ELSE transitory = {deleted[k].index : k \in DOMAIN deleted}
  /\ phase = "idle" => transitory = {}
  /\ phase = "recalculate" => transitory # {}
  /\ phase = "recalculate" /\ level > 0 => Len(items) \notin transitory
  /\ phase = "aggregate" =>
       /\ \A i \in transitory : i < LevelStart(level)
       /\ level = MaxLevel => transitory = {}

\* Speed and acceleration of an item, as SpeedsCurrent and AccelerationsCurrent
\* have it.
SpeedOK(list, i) == list[i].speed = Speed(list[i - 1], list[i], list[i].price)

BehindAggregate(list, i) == i > 2 => list[i - 2].startedAt < list[i - 2].endedAt

LateAcceleration(previous, candle) ==
  /\ Len(candle.acceleration) = 5
  /\ candle.acceleration =
       Acceleration([previous EXCEPT !.speed = candle.acceleration[3]],
                    candle, candle.speed)

AccelerationOK(list, i) ==
  \/ list[i].acceleration = Acceleration(list[i - 1], list[i], list[i].speed)
  \/ BehindAggregate(list, i) /\ LateAcceleration(list[i - 1], list[i])

\* Items that have not changed are what the formulas give, and where the one
\* before has not either.
CandlesRight ==
  /\ \A i \in DOMAIN items : i \notin transitory =>
       items[i].price # NaN /\ items[i].speed # NaN
  /\ \A i \in 2 .. Len(items) :
       i \notin transitory /\ i - 1 \notin transitory =>
         SpeedOK(items, i) /\ AccelerationOK(items, i)

EmaOK(list, i, ticks) ==
  \/ list[i - 1].ema # Null /\ list[i].ema = Ema(list[i - 1].ema, list[i])
  \/ /\ list[i - 1].ema = Null \/ list[i].endedAt \in ticks
     /\ Seeded(list, i)

\* The indicators are right up to the first change.
IndicatorsRight ==
  \A i \in DOMAIN items :
    (\A j \in transitory : i < j) =>
      /\ items[i].filter # Null
      /\ i > 1 =>
           /\ EmaOK(items, i, seeded)
           /\ items[i].filter = NextFilter(FilterOf(items[i - 1]), items[i])
           /\ items[i].marketPhase = NextPhase(items[i - 1], items[i])

\* The newest item the indicators know.
Newest == IF Fresh THEN Len(items) - 1 ELSE Len(items)

StatesRight ==
  /\ emaState # Null => Newest > 0 /\ emaState = items[Newest].ema
  /\ filterState # Nothing => Newest > 0 /\ filterState = FilterOf(items[Newest])

\* The invariant, while the process lives ...
Living(g) ==
  /\ EntityShapes /\ NewestIsTick /\ AllSpanned /\ Ordered(g) /\ RecordsRight /\ CandlesRight
  /\ IndicatorsRight /\ StatesRight

\* ... and with what is left when it has ended.
EntitiesInv(g) ==
  /\ ~reported
  /\ phase # "ended" => Living(g)
  /\ phase = "ended" => EntitiesTyped /\ EndsOnlyByClock

-----------------------------------------------------------------------------
(* Entities: lists of items.                                               *)

\* Induction on the natural numbers, for a set of them.
LEMMA SetInduction ==
  ASSUME NEW S \in SUBSET Nat, 0 \in S, \A n \in S : n + 1 \in S
  PROVE  S = Nat
<1> SUFFICES ASSUME Nat \ S # {} PROVE FALSE
  OBVIOUS
<1>1. PICK m \in Nat \ S : \A x \in Nat \ S : m <= x
  BY LeastOf
<1>2. m - 1 \in S
  BY <1>1
<1> QED
  BY <1>1, <1>2

\* A list is a function on the numbers up to its length.
LEMMA ListFacts ==
  ASSUME NEW s, IsList(s)
  PROVE  /\ Len(s) \in Nat /\ DOMAIN s = 1 .. Len(s)
         /\ s = [i \in 1 .. Len(s) |-> s[i]]
         /\ \A i \in DOMAIN s : s[i] \in Range(s)
<1>1. s \in Seq(Range(s))
  BY DEF IsList
<1> QED
  BY <1>1

\* ... and such a function is a list.
LEMMA FunctionIsList ==
  ASSUME NEW n \in Nat, NEW s, s = [i \in 1 .. n |-> s[i]]
  PROVE  IsList(s) /\ Len(s) = n /\ DOMAIN s = 1 .. n
<1> DEFINE S == Range(s)
<1>1. DOMAIN s = 1 .. n
  OBVIOUS
<1>2. \A i \in 1 .. n : s[i] \in S
  BY <1>1 DEF Range
<1> HIDE DEF S
<1>3. [i \in 1 .. n |-> s[i]] \in Seq(S)
  BY <1>2
<1>4. s \in Seq(S) /\ Len(s) = n
  BY <1>1, <1>3
<1> QED
  BY <1>1, <1>4 DEF S, IsList

\* A list with one more element.
LEMMA AppendIs ==
  ASSUME NEW s, IsList(s), NEW e
  PROVE  /\ IsList(Append(s, e)) /\ Len(Append(s, e)) = Len(s) + 1
         /\ DOMAIN Append(s, e) = 1 .. Len(s) + 1
         /\ \A i \in 1 .. Len(s) + 1 :
              Append(s, e)[i] = IF i <= Len(s) THEN s[i] ELSE e
<1> DEFINE T == Range(s) \cup {e}
           r == Append(s, e)
<1>1. Len(s) \in Nat /\ DOMAIN s = 1 .. Len(s)
  BY ListFacts
<1>2. s \in Seq(T) /\ e \in T
  <2>1. \A i \in 1 .. Len(s) : s[i] \in T
    BY ListFacts
  <2>2. s = [i \in 1 .. Len(s) |-> s[i]]
    BY ListFacts
  <2> HIDE DEF T
  <2>3. [i \in 1 .. Len(s) |-> s[i]] \in Seq(T)
    BY <1>1, <2>1
  <2> QED
    BY <2>2, <2>3 DEF T
<1> HIDE DEF T
<1>3. /\ r \in Seq(T) /\ Len(r) = Len(s) + 1 /\ DOMAIN r = 1 .. Len(s) + 1
      /\ \A i \in 1 .. Len(s) + 1 : r[i] = IF i <= Len(s) THEN s[i] ELSE e
  BY <1>1, <1>2
<1> HIDE DEF r
<1>4. IsList(r)
  <2>1. r = [i \in 1 .. Len(s) + 1 |-> r[i]]
    BY <1>3
  <2> QED
    BY <1>1, <2>1, FunctionIsList
<1> QED
  BY <1>3, <1>4 DEF r

\* Some elements of a list that follow each other.
LEMMA SubSeqIs ==
  ASSUME NEW s, IsList(s), NEW m \in 1 .. Len(s) + 1, NEW n \in m - 1 .. Len(s)
  PROVE  /\ IsList(SubSeq(s, m, n)) /\ Len(SubSeq(s, m, n)) = n - m + 1
         /\ DOMAIN SubSeq(s, m, n) = 1 .. n - m + 1
         /\ \A i \in 1 .. n - m + 1 : SubSeq(s, m, n)[i] = s[m + i - 1]
<1> DEFINE r == SubSeq(s, m, n)
           T == Range(s)
<1>1. Len(s) \in Nat /\ DOMAIN s = 1 .. Len(s) /\ s \in Seq(T)
  BY ListFacts DEF IsList
<1> HIDE DEF T
<1>2. n - m + 1 \in Nat
  BY <1>1
<1>3. /\ Len(r) = n - m + 1 /\ DOMAIN r = 1 .. n - m + 1
      /\ \A i \in 1 .. n - m + 1 : r[i] = s[m + i - 1]
      /\ r \in Seq(T)
  BY <1>1
<1>4. IsList(r)
  <2>1. r = [i \in 1 .. n - m + 1 |-> r[i]]
    BY <1>3
  <2> HIDE DEF r
  <2> QED
    BY <1>2, <2>1, FunctionIsList
<1> QED
  BY <1>3, <1>4

\* Two lists, one after the other.
LEMMA ConcatIs ==
  ASSUME NEW s, NEW t, IsList(s), IsList(t)
  PROVE  /\ IsList(s \o t) /\ Len(s \o t) = Len(s) + Len(t)
         /\ DOMAIN (s \o t) = 1 .. Len(s) + Len(t)
         /\ \A i \in 1 .. Len(s) + Len(t) :
              (s \o t)[i] = IF i <= Len(s) THEN s[i] ELSE t[i - Len(s)]
<1> DEFINE T == Range(s) \cup Range(t)
           r == s \o t
<1>1. /\ Len(s) \in Nat /\ DOMAIN s = 1 .. Len(s)
      /\ Len(t) \in Nat /\ DOMAIN t = 1 .. Len(t)
  BY ListFacts
<1>2. s \in Seq(T) /\ t \in Seq(T)
  <2>1. /\ \A i \in 1 .. Len(s) : s[i] \in T
        /\ \A i \in 1 .. Len(t) : t[i] \in T
    BY ListFacts
  <2>2. /\ s = [i \in 1 .. Len(s) |-> s[i]]
        /\ t = [i \in 1 .. Len(t) |-> t[i]]
    BY ListFacts
  <2> HIDE DEF T
  <2>3. [i \in 1 .. Len(s) |-> s[i]] \in Seq(T) /\ [i \in 1 .. Len(t) |-> t[i]] \in Seq(T)
    BY <1>1, <2>1
  <2> QED
    BY <2>2, <2>3
<1> HIDE DEF T
<1>3. /\ r \in Seq(T) /\ Len(r) = Len(s) + Len(t)
      /\ \A i \in 1 .. Len(s) + Len(t) : r[i] = IF i <= Len(s) THEN s[i] ELSE t[i - Len(s)]
  BY <1>2, ConcatProperties
<1>4. DOMAIN r = 1 .. Len(s) + Len(t)
  BY <1>3
<1> HIDE DEF r
<1>5. IsList(r)
  <2>1. r = [i \in 1 .. Len(s) + Len(t) |-> r[i]]
    BY <1>3, <1>4
  <2> QED
    BY <1>1, <2>1, FunctionIsList
<1> QED
  BY <1>3, <1>4, <1>5 DEF r

\* A list without some of its elements.
LEMMA WithoutIs ==
  ASSUME NEW s, IsList(s), NEW from \in 1 .. Len(s) + 1, NEW count \in 0 .. Len(s) - from + 1
  PROVE  LET r == Without(s, from, count)
         IN  /\ IsList(r) /\ Len(r) = Len(s) - count
             /\ \A i \in 1 .. Len(s) - count :
                  r[i] = IF i < from THEN s[i] ELSE s[i + count]
<1> DEFINE a == SubSeq(s, 1, from - 1)
           b == SubSeq(s, from + count, Len(s))
           r == a \o b
<1>1. Len(s) \in Nat
  BY ListFacts
<1>2. /\ 1 \in 1 .. Len(s) + 1 /\ from - 1 \in 1 - 1 .. Len(s)
      /\ from + count \in 1 .. Len(s) + 1 /\ Len(s) \in (from + count) - 1 .. Len(s)
      /\ (from - 1) - 1 + 1 = from - 1
      /\ Len(s) - (from + count) + 1 = Len(s) - count - from + 1
  BY <1>1
<1>3. /\ IsList(a) /\ Len(a) = from - 1
      /\ \A i \in 1 .. from - 1 : a[i] = s[i]
  <2>1. /\ IsList(a) /\ Len(a) = from - 1
        /\ \A i \in 1 .. from - 1 : a[i] = s[1 + i - 1]
    BY <1>2, SubSeqIs
  <2> QED
    BY <2>1
<1>4. /\ IsList(b) /\ Len(b) = Len(s) - count - from + 1
      /\ \A i \in 1 .. Len(s) - count - from + 1 : b[i] = s[from + count + i - 1]
  BY <1>2, SubSeqIs
<1> HIDE DEF a, b
<1>5. /\ IsList(r) /\ Len(r) = Len(s) - count
      /\ \A i \in 1 .. Len(s) - count : r[i] = IF i <= from - 1 THEN a[i] ELSE b[i - (from - 1)]
  <2>1. (from - 1) + (Len(s) - count - from + 1) = Len(s) - count
    BY <1>1
  <2> QED
    BY <2>1, <1>3, <1>4, ConcatIs
<1> HIDE DEF r
<1>6. ASSUME NEW i \in 1 .. Len(s) - count
      PROVE  r[i] = IF i < from THEN s[i] ELSE s[i + count]
  <2>1. CASE i < from
    BY <2>1, <1>1, <1>3, <1>5
  <2>2. CASE i >= from
    <3>1. /\ i - (from - 1) \in 1 .. Len(s) - count - from + 1
          /\ from + count + (i - (from - 1)) - 1 = i + count
          /\ ~(i <= from - 1) /\ ~(i < from)
      BY <2>2, <1>1
    <3>2. b[i - (from - 1)] = s[i + count]
      BY <3>1, <1>4
    <3> QED
      BY <3>1, <3>2, <1>5
  <2> QED
    BY <2>1, <2>2, <1>1
<1>7. r = Without(s, from, count)
  BY DEF r, a, b, Without
<1> QED
  BY <1>5, <1>6, <1>7

\* A list with one element in the place of some.
LEMMA BucketIs ==
  ASSUME NEW s, IsList(s), NEW from \in 1 .. Len(s), NEW count \in 1 .. Len(s) - from + 1,
         NEW e
  PROVE  LET r == InsertAt(Without(s, from, count), from, e)
         IN  /\ IsList(r) /\ Len(r) = Len(s) - count + 1
             /\ \A i \in 1 .. Len(s) - count + 1 :
                  r[i] = IF i < from THEN s[i] ELSE IF i = from THEN e ELSE s[i + count - 1]
<1> DEFINE w == Without(s, from, count)
           a == SubSeq(w, 1, from - 1)
           b == SubSeq(w, from, Len(w))
           c == a \o <<e>>
           r == c \o b
<1>1. Len(s) \in Nat /\ from \in 1 .. Len(s) + 1 /\ count \in 0 .. Len(s) - from + 1
  BY ListFacts
<1>2. /\ IsList(w) /\ Len(w) = Len(s) - count
      /\ \A i \in 1 .. Len(s) - count : w[i] = IF i < from THEN s[i] ELSE s[i + count]
  BY <1>1, WithoutIs
<1> HIDE DEF w
<1>3. /\ IsList(a) /\ Len(a) = from - 1
      /\ \A i \in 1 .. from - 1 : a[i] = s[i]
  <2>1. 1 \in 1 .. Len(w) + 1 /\ from - 1 \in 1 - 1 .. Len(w) /\ (from - 1) - 1 + 1 = from - 1
    BY <1>1, <1>2
  <2>2. /\ IsList(a) /\ Len(a) = from - 1
        /\ \A i \in 1 .. from - 1 : a[i] = w[1 + i - 1]
    BY <2>1, <1>2, SubSeqIs
  <2>3. ASSUME NEW i \in 1 .. from - 1 PROVE a[i] = s[i]
    <3>1. 1 + i - 1 = i /\ i \in 1 .. Len(s) - count /\ i < from
      BY <1>1
    <3> QED
      BY <3>1, <2>2, <1>2
  <2> QED
    BY <2>2, <2>3
<1>4. /\ IsList(b) /\ Len(b) = Len(s) - count - from + 1
      /\ \A i \in 1 .. Len(s) - count - from + 1 : b[i] = s[from + i - 1 + count]
  <2>1. from \in 1 .. Len(w) + 1 /\ Len(w) \in from - 1 .. Len(w)
    BY <1>1, <1>2
  <2>2. /\ IsList(b) /\ Len(b) = Len(w) - from + 1
        /\ \A i \in 1 .. Len(w) - from + 1 : b[i] = w[from + i - 1]
    BY <2>1, <1>2, SubSeqIs
  <2>3. ASSUME NEW i \in 1 .. Len(s) - count - from + 1 PROVE b[i] = s[from + i - 1 + count]
    <3>1. i \in 1 .. Len(w) - from + 1 /\ from + i - 1 \in 1 .. Len(s) - count /\ ~(from + i - 1 < from)
      BY <1>1, <1>2
    <3> QED
      BY <3>1, <2>2, <1>2
  <2> QED
    BY <2>2, <2>3, <1>2
<1> HIDE DEF a, b
<1>5. /\ IsList(c) /\ Len(c) = from
      /\ \A i \in 1 .. from : c[i] = IF i < from THEN s[i] ELSE e
  <2>1. IsList(<<e>>) /\ Len(<<e>>) = 1 /\ <<e>>[1] = e
    <3>1. <<e>> = [i \in 1 .. 1 |-> <<e>>[i]]
      OBVIOUS
    <3>2. 1 \in Nat
      OBVIOUS
    <3> QED
      BY <3>1, <3>2, FunctionIsList
  <2>2. (from - 1) + 1 = from
    BY <1>1
  <2>3. /\ IsList(c) /\ Len(c) = from
        /\ \A i \in 1 .. from : c[i] = IF i <= from - 1 THEN a[i] ELSE <<e>>[i - (from - 1)]
    BY <1>3, <2>1, <2>2, ConcatIs
  <2> HIDE DEF c
  <2>4. ASSUME NEW i \in 1 .. from PROVE c[i] = IF i < from THEN s[i] ELSE e
    <3>1. CASE i < from
      BY <3>1, <1>1, <1>3, <2>3
    <3>2. CASE i = from
      <4>1. ~(i <= from - 1) /\ i - (from - 1) = 1
        BY <3>2, <1>1
      <4> QED
        BY <4>1, <3>2, <2>1, <2>3, <1>1
    <3> QED
      BY <3>1, <3>2, <1>1
  <2> QED
    BY <2>3, <2>4
<1> HIDE DEF c
<1>6. Len(c) + Len(b) = Len(s) - count + 1
  BY <1>1, <1>4, <1>5
<1>7. /\ IsList(r) /\ Len(r) = Len(s) - count + 1
      /\ \A i \in 1 .. Len(s) - count + 1 : r[i] = IF i <= from THEN c[i] ELSE b[i - from]
  <2>1. IsList(c) /\ IsList(b)
    BY <1>4, <1>5
  <2>2. /\ IsList(r) /\ Len(r) = Len(c) + Len(b)
        /\ \A i \in 1 .. Len(c) + Len(b) :
             r[i] = IF i <= Len(c) THEN c[i] ELSE b[i - Len(c)]
    BY <2>1, ConcatIs
  <2> HIDE DEF r
  <2> QED
    BY <2>2, <1>5, <1>6
<1> HIDE DEF r
<1>8. ASSUME NEW i \in 1 .. Len(s) - count + 1
      PROVE  r[i] = IF i < from THEN s[i] ELSE IF i = from THEN e ELSE s[i + count - 1]
  <2>1. CASE i <= from
    BY <2>1, <1>1, <1>5, <1>7
  <2>2. CASE i > from
    <3>1. /\ i - from \in 1 .. Len(s) - count - from + 1
          /\ from + (i - from) - 1 + count = i + count - 1
      BY <2>2, <1>1
    <3>2. b[i - from] = s[i + count - 1]
      BY <3>1, <1>4
    <3> QED
      BY <2>2, <3>2, <1>1, <1>7
  <2> QED
    BY <2>1, <2>2, <1>1
<1>9. r = InsertAt(Without(s, from, count), from, e)
  BY DEF r, c, a, b, w, InsertAt
<1> QED
  BY <1>7, <1>8, <1>9

-----------------------------------------------------------------------------
(* Where the levels begin.                                                 *)

\* The levels follow each other, the highest first.
LEMMA StartOfIs ==
  ASSUME NEW c \in [Levels -> Nat]
  PROVE  /\ StartOf(c, MaxLevel) = 1
         /\ \A l \in Levels : l # MaxLevel => StartOf(c, l) = StartOf(c, l + 1) + c[l + 1]
<1> DEFINE M == MaxLevel
           Rec(f, b) == f = [k \in b .. M |-> IF k = M THEN 1 ELSE f[k + 1] + c[k + 1]]
           G == {m \in Nat : m <= M => \E f : Rec(f, M - m)}
<1>0. M \in Nat /\ Levels = 0 .. M
  BY RecalculationAssumption DEF Levels, MaxLevel
<1> HIDE DEF M
<1>1. 0 \in G
  <2>1. Rec([k \in M .. M |-> 1], M)
    BY <1>0
  <2> HIDE DEF Rec
  <2>2. M - 0 = M
    BY <1>0
  <2> QED
    BY <2>1, <2>2
<1>2. ASSUME NEW m \in G PROVE m + 1 \in G
  <2>0. m \in Nat /\ (m <= M => \E f : Rec(f, M - m))
    BY Zenon
  <2> SUFFICES ASSUME m + 1 <= M PROVE \E f : Rec(f, M - (m + 1))
    <3> HIDE DEF Rec
    <3> QED BY <2>0
  <2>1. m <= M
    BY <1>0, <2>0
  <2>2. PICK f : Rec(f, M - m)
    BY <2>0, <2>1, Zenon
  <2> DEFINE b == M - (m + 1)
             g == [k \in b .. M |-> IF k = b THEN f[b + 1] + c[b + 1] ELSE f[k]]
  <2>3. b \in Nat /\ b < M /\ b + 1 = M - m
    BY <1>0, <2>0
  <2>4. ASSUME NEW k \in b .. M
        PROVE  g[k] = IF k = M THEN 1 ELSE g[k + 1] + c[k + 1]
    <3>1. CASE k = b
      <4>1. k # M /\ k + 1 \in b .. M /\ k + 1 # b
        BY <3>1, <2>3, <1>0
      <4>2. g[k + 1] = f[b + 1] /\ g[k] = f[b + 1] + c[b + 1]
        BY <4>1, <3>1
      <4> QED
        BY <4>1, <4>2, <3>1
    <3>2. CASE k # b /\ k # M
      <4>1. k \in M - m .. M /\ k + 1 \in b .. M /\ k + 1 # b
        BY <3>2, <2>3, <1>0
      <4>2. g[k + 1] = f[k + 1] /\ g[k] = f[k]
        BY <4>1, <3>2
      <4>3. f[k] = f[k + 1] + c[k + 1]
        BY <4>1, <3>2, <2>2
      <4> QED
        BY <4>2, <4>3, <3>2
    <3>3. CASE k # b /\ k = M
      <4>1. k \in M - m .. M
        BY <3>3, <2>3, <1>0
      <4>2. g[k] = f[k] /\ f[k] = 1
        BY <4>1, <3>3, <2>2
      <4> QED
        BY <4>2, <3>3
    <3> QED
      BY <3>1, <3>2, <3>3
  <2>5. Rec(g, b)
    BY <2>4
  <2> HIDE DEF Rec, g
  <2> QED
    BY <2>5, Zenon DEF b
<1>3. G = Nat
  <2> HIDE DEF G
  <2>1. G \in SUBSET Nat
    BY DEF G
  <2> QED
    BY <1>1, <1>2, <2>1, SetInduction
<1>4. \E f : Rec(f, 0)
  <2>1. M \in G
    <3> HIDE DEF G
    <3> QED BY <1>0, <1>3
  <2>2. M - M = 0 /\ M <= M
    BY <1>0
  <2> HIDE DEF Rec
  <2> QED
    BY <2>1, <2>2
<1> DEFINE F == CHOOSE f : Rec(f, 0)
<1>5. Rec(F, 0)
  <2> HIDE DEF Rec
  <2> QED
    BY <1>4, Zenon
<1>6. F = [k \in 0 .. M |-> IF k = M THEN 1 ELSE F[k + 1] + c[k + 1]]
  <2> HIDE DEF F
  <2> QED
    BY <1>5
<1>7. \A l : StartOf(c, l) = F[l]
  BY <1>0 DEF StartOf, M
<1> HIDE DEF F
<1>8. F[M] = 1 /\ \A l \in 0 .. M : l # M => F[l] = F[l + 1] + c[l + 1]
  BY <1>0, <1>6
<1> QED
  BY <1>0, <1>7, <1>8 DEF M

\* Where a level begins is a place.
LEMMA StartOfType ==
  ASSUME NEW c \in [Levels -> Nat]
  PROVE  \A l \in Levels : StartOf(c, l) \in Nat \ {0}
<1> DEFINE M == MaxLevel
           G == {m \in Nat : m <= M => StartOf(c, M - m) \in Nat \ {0}}
<1>0. M \in Nat /\ Levels = 0 .. M
  BY RecalculationAssumption DEF Levels, MaxLevel
<1>a. /\ StartOf(c, M) = 1
      /\ \A l \in Levels : l # M => StartOf(c, l) = StartOf(c, l + 1) + c[l + 1]
  BY StartOfIs
<1> HIDE DEF M
<1>1. 0 \in G
  <2>1. M - 0 = M
    BY <1>0
  <2> QED
    BY <2>1, <1>a
<1>2. ASSUME NEW m \in G PROVE m + 1 \in G
  <2> SUFFICES ASSUME m + 1 <= M PROVE StartOf(c, M - (m + 1)) \in Nat \ {0}
    OBVIOUS
  <2>1. /\ M - (m + 1) \in Levels /\ M - (m + 1) # M /\ (M - (m + 1)) + 1 = M - m
        /\ M - m \in Levels /\ m <= M
    BY <1>0
  <2>2. StartOf(c, M - m) \in Nat \ {0} /\ c[M - m] \in Nat
    BY <2>1
  <2>3. StartOf(c, M - (m + 1)) = StartOf(c, M - m) + c[M - m]
    BY <2>1, <1>a
  <2> QED
    BY <2>2, <2>3
<1>3. G = Nat
  <2> HIDE DEF G
  <2>1. G \in SUBSET Nat
    BY DEF G
  <2> QED
    BY <1>1, <1>2, <2>1, SetInduction
<1>4. ASSUME NEW l \in Levels PROVE StartOf(c, l) \in Nat \ {0}
  <2>1. M - l \in Nat /\ M - l <= M /\ M - (M - l) = l
    BY <1>0
  <2>2. M - l \in G
    <3> HIDE DEF G
    <3> QED BY <2>1, <1>3
  <2> QED
    BY <2>1, <2>2
<1> QED
  BY <1>4

\* A level begins, and ends, before the levels below it begin.
LEMMA StartsDescend ==
  ASSUME NEW c \in [Levels -> Nat], NEW l \in Levels, NEW k \in Levels, k < l
  PROVE  StartOf(c, l) + c[l] <= StartOf(c, k)
<1> DEFINE G == {m \in Nat : m + 1 <= l => StartOf(c, l) + c[l] <= StartOf(c, l - (m + 1))}
<1>0. MaxLevel \in Nat /\ Levels = 0 .. MaxLevel
  BY RecalculationAssumption DEF Levels, MaxLevel
<1>a. /\ \A i \in Levels : i # MaxLevel => StartOf(c, i) = StartOf(c, i + 1) + c[i + 1]
      /\ \A i \in Levels : StartOf(c, i) \in Nat /\ c[i] \in Nat
  BY StartOfIs, StartOfType
<1>1. 0 \in G
  <2> SUFFICES ASSUME 0 + 1 <= l PROVE StartOf(c, l) + c[l] <= StartOf(c, l - (0 + 1))
    OBVIOUS
  <2>1. l - (0 + 1) = l - 1 /\ l - 1 \in Levels /\ l - 1 # MaxLevel /\ (l - 1) + 1 = l
    BY <1>0
  <2> QED
    BY <2>1, <1>a
<1>2. ASSUME NEW m \in G PROVE m + 1 \in G
  <2> SUFFICES ASSUME (m + 1) + 1 <= l
               PROVE  StartOf(c, l) + c[l] <= StartOf(c, l - ((m + 1) + 1))
    OBVIOUS
  <2> DEFINE i == l - ((m + 1) + 1)
  <2>1. /\ i \in Levels /\ i # MaxLevel /\ i + 1 = l - (m + 1) /\ i + 1 \in Levels
        /\ m + 1 <= l
    BY <1>0
  <2>2. StartOf(c, l) + c[l] <= StartOf(c, i + 1)
    BY <2>1
  <2> HIDE DEF i
  <2>3. StartOf(c, i) = StartOf(c, i + 1) + c[i + 1] /\ c[i + 1] \in Nat
        /\ StartOf(c, i + 1) \in Nat /\ StartOf(c, l) \in Nat /\ c[l] \in Nat
    BY <2>1, <1>a
  <2>4. StartOf(c, l) + c[l] <= StartOf(c, i)
    BY <2>2, <2>3
  <2> QED
    BY <2>4 DEF i
<1>3. G = Nat
  <2> HIDE DEF G
  <2>1. G \in SUBSET Nat
    BY DEF G
  <2> QED
    BY <1>1, <1>2, <2>1, SetInduction
<1>4. l - k - 1 \in Nat /\ (l - k - 1) + 1 <= l /\ l - ((l - k - 1) + 1) = k
  BY <1>0
<1>5. l - k - 1 \in G
  <2> HIDE DEF G
  <2> QED BY <1>3, <1>4
<1> QED
  BY <1>4, <1>5

\* Levels that are below one that has moved, and are as long as before, move as
\* far.
LEMMA StartsShift ==
  ASSUME NEW c \in [Levels -> Nat], NEW d \in [Levels -> Nat], NEW l \in Levels,
         NEW x \in Int, StartOf(d, l) = StartOf(c, l) + x,
         \A k \in 1 .. l : d[k] = c[k]
  PROVE  \A k \in 0 .. l : StartOf(d, k) = StartOf(c, k) + x
<1> DEFINE G == {m \in Nat : m <= l => StartOf(d, l - m) = StartOf(c, l - m) + x}
<1>0. MaxLevel \in Nat /\ Levels = 0 .. MaxLevel
  BY RecalculationAssumption DEF Levels, MaxLevel
<1>a. /\ \A i \in Levels : i # MaxLevel => StartOf(c, i) = StartOf(c, i + 1) + c[i + 1]
      /\ \A i \in Levels : i # MaxLevel => StartOf(d, i) = StartOf(d, i + 1) + d[i + 1]
      /\ \A i \in Levels : StartOf(c, i) \in Nat /\ c[i] \in Nat
  BY StartOfIs, StartOfType
<1>1. 0 \in G
  <2>1. l - 0 = l
    BY <1>0
  <2> QED
    BY <2>1
<1>2. ASSUME NEW m \in G PROVE m + 1 \in G
  <2> SUFFICES ASSUME m + 1 <= l
               PROVE  StartOf(d, l - (m + 1)) = StartOf(c, l - (m + 1)) + x
    OBVIOUS
  <2> DEFINE i == l - (m + 1)
  <2>1. /\ i \in Levels /\ i # MaxLevel /\ i + 1 = l - m /\ i + 1 \in Levels
        /\ i + 1 \in 1 .. l /\ m <= l
    BY <1>0
  <2>2. StartOf(d, i + 1) = StartOf(c, i + 1) + x
    BY <2>1
  <2> HIDE DEF i
  <2>3. /\ StartOf(c, i) = StartOf(c, i + 1) + c[i + 1]
        /\ StartOf(d, i) = StartOf(d, i + 1) + d[i + 1]
        /\ StartOf(c, i + 1) \in Nat /\ c[i + 1] \in Nat /\ d[i + 1] = c[i + 1]
    BY <2>1, <1>a
  <2>4. StartOf(d, i) = StartOf(c, i) + x
    BY <2>2, <2>3
  <2> QED
    BY <2>4 DEF i
<1>3. G = Nat
  <2> HIDE DEF G
  <2>1. G \in SUBSET Nat
    BY DEF G
  <2> QED
    BY <1>1, <1>2, <2>1, SetInduction
<1>4. ASSUME NEW k \in 0 .. l PROVE StartOf(d, k) = StartOf(c, k) + x
  <2>1. l - k \in Nat /\ l - k <= l /\ l - (l - k) = k
    BY <1>0
  <2>2. l - k \in G
    <3> HIDE DEF G
    <3> QED BY <2>1, <1>3
  <2> QED
    BY <2>1, <2>2
<1> QED
  BY <1>4

-----------------------------------------------------------------------------
(* What an entity calculates.                                              *)

\* Each item is calculated from the one before it as it is by then.
LEMMA CalculatedIs ==
  ASSUME NEW entity, NEW list, IsList(list), NEW indexes
  PROVE  LET r == Calculated(entity, list, indexes)
         IN  /\ IsList(r) /\ Len(r) = Len(list)
             /\ \A i \in 1 .. Len(list) :
                  r[i] = IF i \in indexes THEN Calculate(entity, Before(r, i), list, i)
                                          ELSE list[i]
<1> DEFINE N == Len(list)
           Step(f, i) == IF i \in indexes
                           THEN Calculate(entity, IF i > 1 THEN f[i - 1] ELSE Nothing, list, i)
                           ELSE list[i]
           Rec(f, m) == f = [i \in 1 .. m |-> Step(f, i)]
           G == {m \in Nat : m <= N => \E f : Rec(f, m)}
<1>0. N \in Nat /\ DOMAIN list = 1 .. N
  BY ListFacts
<1> HIDE DEF N
<1>1. 0 \in G
  <2>1. Rec([i \in 1 .. 0 |-> 0], 0)
    OBVIOUS
  <2> HIDE DEF Rec
  <2> QED
    BY <2>1
<1>2. ASSUME NEW m \in G PROVE m + 1 \in G
  <2>0. m \in Nat /\ (m <= N => \E f : Rec(f, m))
    BY Zenon
  <2> SUFFICES ASSUME m + 1 <= N PROVE \E f : Rec(f, m + 1)
    <3> HIDE DEF Rec
    <3> QED BY <2>0
  <2>1. m <= N
    BY <1>0, <2>0
  <2>2. PICK f : Rec(f, m)
    BY <2>0, <2>1, Zenon
  <2> DEFINE g == [i \in 1 .. m + 1 |-> IF i <= m THEN f[i] ELSE Step(f, i)]
  <2>3. ASSUME NEW i \in 1 .. m + 1 PROVE g[i] = Step(g, i)
    <3>1. i \in Nat /\ i # 0 /\ (i > 1 => i - 1 \in 1 .. m + 1 /\ i - 1 <= m)
      BY <2>0
    <3>2. i > 1 => g[i - 1] = f[i - 1]
      BY <3>1
    <3> HIDE DEF g
    <3>3. Step(g, i) = Step(f, i)
      BY <3>2
    <3>4. CASE i <= m
      <4>1. i \in 1 .. m
        BY <3>1, <3>4, <2>0
      <4> HIDE DEF Step
      <4>2. f[i] = Step(f, i)
        BY <4>1, <2>2
      <4>3. g[i] = f[i]
        BY <3>4 DEF g
      <4> QED
        BY <4>2, <4>3, <3>3
    <3>5. CASE ~(i <= m)
      <4> HIDE DEF Step
      <4>1. g[i] = Step(f, i)
        BY <3>5 DEF g
      <4> QED
        BY <4>1, <3>3
    <3> QED
      BY <3>4, <3>5
  <2>4. Rec(g, m + 1)
    <3> HIDE DEF Step
    <3>1. g = [i \in 1 .. m + 1 |-> g[i]]
      OBVIOUS
    <3> HIDE DEF g
    <3> QED
      BY <2>3, <3>1
  <2> HIDE DEF Rec, g
  <2> QED
    BY <2>4, Zenon
<1>3. G = Nat
  <2> HIDE DEF G
  <2>1. G \in SUBSET Nat
    BY DEF G
  <2> QED
    BY <1>1, <1>2, <2>1, SetInduction
<1>4. \E f : Rec(f, N)
  <2>1. N \in G
    <3> HIDE DEF G
    <3> QED BY <1>0, <1>3
  <2> HIDE DEF Rec
  <2> QED
    BY <1>0, <2>1
<1> DEFINE r == Calculated(entity, list, indexes)
<1>5. r = CHOOSE f : Rec(f, N)
  BY <1>0 DEF Calculated
<1>6. Rec(r, N)
  <2> HIDE DEF Rec, r
  <2> QED
    BY <1>4, <1>5, Zenon
<1> HIDE DEF r
<1>7. \A i \in 1 .. N : r[i] = Step(r, i)
  <2> HIDE DEF Step
  <2> QED
    BY <1>6
<1>8. r = [i \in 1 .. N |-> r[i]]
  <2>1. DOMAIN r = 1 .. N /\ r = [i \in DOMAIN r |-> r[i]]
    <3> HIDE DEF Step
    <3> QED
      BY <1>6
  <2> QED
    BY <2>1
<1>9. IsList(r) /\ Len(r) = N
  BY <1>0, <1>8, FunctionIsList
<1> QED
  BY <1>7, <1>9 DEF N, r, Before

\* Without a state the filter goes on from the stored value before the newest
\* item.
LEMMA FullFilterIs ==
  ASSUME NEW list, IsList(list), Len(list) > 0, list[Len(list)].filter = Null,
         Len(list) > 1 => list[Len(list) - 1].filter # Null
  PROVE  FullFilter(list) =
           NextFilter(IF Len(list) > 1 THEN FilterOf(list[Len(list) - 1]) ELSE Nothing,
                      list[Len(list)])
<1> DEFINE N == Len(list)
           Step(f, i) == IF i = 0 THEN Nothing
                         ELSE [ value |-> IF list[i].filter # Null
                                            THEN list[i].filter
                                            ELSE NextFilter(f[i - 1], list[i]),
                                receivedAt |-> list[i].receivedAt ]
           Rec(f, m) == f = [i \in 0 .. m |-> Step(f, i)]
           G == {m \in Nat : m <= N => \E f : Rec(f, m)}
<1>0. N \in Nat
  BY ListFacts
<1>a. Len(list) = N
  OBVIOUS
<1> HIDE DEF N
<1>1. 0 \in G
  <2>1. Rec([i \in 0 .. 0 |-> Nothing], 0)
    OBVIOUS
  <2> HIDE DEF Rec
  <2> QED
    BY <2>1
<1>2. ASSUME NEW m \in G PROVE m + 1 \in G
  <2>0. m \in Nat /\ (m <= N => \E f : Rec(f, m))
    BY Zenon
  <2> SUFFICES ASSUME m + 1 <= N PROVE \E f : Rec(f, m + 1)
    <3> HIDE DEF Rec
    <3> QED BY <2>0
  <2>1. m <= N
    BY <1>0, <2>0
  <2>2. PICK f : Rec(f, m)
    BY <2>0, <2>1, Zenon
  <2> DEFINE g == [i \in 0 .. m + 1 |-> IF i <= m THEN f[i] ELSE Step(f, i)]
  <2>3. ASSUME NEW i \in 0 .. m + 1 PROVE g[i] = Step(g, i)
    <3>1. i \in Nat /\ (i # 0 => i - 1 \in 0 .. m + 1 /\ i - 1 <= m)
      BY <2>0
    <3>2. i # 0 => g[i - 1] = f[i - 1]
      BY <3>1
    <3> HIDE DEF g
    <3>3. Step(g, i) = Step(f, i)
      BY <3>2
    <3>4. CASE i <= m
      <4>1. i \in 0 .. m
        BY <3>1, <3>4, <2>0
      <4> HIDE DEF Step
      <4>2. f[i] = Step(f, i)
        BY <4>1, <2>2
      <4>3. g[i] = f[i]
        BY <3>4 DEF g
      <4> QED
        BY <4>2, <4>3, <3>3
    <3>5. CASE ~(i <= m)
      <4> HIDE DEF Step
      <4>1. g[i] = Step(f, i)
        BY <3>5 DEF g
      <4> QED
        BY <4>1, <3>3
    <3> QED
      BY <3>4, <3>5
  <2>4. Rec(g, m + 1)
    <3> HIDE DEF Step
    <3>1. g = [i \in 0 .. m + 1 |-> g[i]]
      OBVIOUS
    <3> HIDE DEF g
    <3> QED
      BY <2>3, <3>1
  <2> HIDE DEF Rec, g
  <2> QED
    BY <2>4, Zenon
<1>3. G = Nat
  <2> HIDE DEF G
  <2>1. G \in SUBSET Nat
    BY DEF G
  <2> QED
    BY <1>1, <1>2, <2>1, SetInduction
<1>4. \E f : Rec(f, N)
  <2>1. N \in G
    <3> HIDE DEF G
    <3> QED BY <1>0, <1>3
  <2> HIDE DEF Rec
  <2> QED
    BY <1>0, <2>1
<1> DEFINE F == CHOOSE f : Rec(f, N)
<1>5. FullFilter(list) = F[N].value
  BY <1>a DEF FullFilter
<1>6. Rec(F, N)
  <2> HIDE DEF Rec
  <2> QED
    BY <1>4, Zenon
<1> HIDE DEF F
<1>7. \A i \in 0 .. N : F[i] = Step(F, i)
  <2> HIDE DEF Step
  <2> QED
    BY <1>6
<1>8. N \in 0 .. N /\ N - 1 \in 0 .. N /\ N # 0
  BY <1>0, <1>a
<1>9. F[N].value = NextFilter(F[N - 1], list[N])
  <2>1. F[N] = [ value |-> IF list[N].filter # Null THEN list[N].filter
                           ELSE NextFilter(F[N - 1], list[N]),
                 receivedAt |-> list[N].receivedAt ]
    BY <1>7, <1>8
  <2>2. list[N].filter = Null
    BY <1>a
  <2> QED
    BY <2>1, <2>2
<1>10. CASE N > 1
  <2>1. N - 1 # 0 /\ list[N - 1].filter # Null
    BY <1>10, <1>0, <1>a
  <2>2. F[N - 1] = FilterOf(list[N - 1])
    BY <2>1, <1>7, <1>8 DEF FilterOf
  <2> QED
    BY <2>2, <1>5, <1>9, <1>10, <1>a
<1>11. CASE ~(N > 1)
  <2>1. N - 1 = 0
    BY <1>11, <1>8, <1>0
  <2>2. F[N - 1] = Nothing
    BY <2>1, <1>7, <1>8
  <2> QED
    BY <2>2, <1>5, <1>9, <1>11, <1>a
<1> QED
  BY <1>10, <1>11

-----------------------------------------------------------------------------
(* The items behind the stages of a recalculation.                         *)

\* What a recalculation never changes of an item.
SameTimes(r, s) ==
  r.receivedAt = s.receivedAt /\ r.startedAt = s.startedAt /\ r.endedAt = s.endedAt

\* An item that is given a value of the EMA is an item,
LEMMA WithEmaValue ==
  ASSUME NEW r, IsCandle(r), NEW v, NEW t,
         t = [r EXCEPT !.ema = v]
  PROVE  /\ IsCandle(t)
         /\ t.ema = v
         /\ SameTimes(t, r)
         /\ t.price = r.price /\ t.speed = r.speed
         /\ t.acceleration = r.acceleration /\ t.filter = r.filter
         /\ t.marketPhase = r.marketPhase
<1> USE DEF IsCandle
<1> DEFINE Names == {"receivedAt", "startedAt", "endedAt", "price", "speed",
                      "acceleration", "ema", "filter", "marketPhase"}
<1>1. DOMAIN r = Names /\ r = [x \in Names |-> r[x]]
  OBVIOUS
<1>2. t = [x \in Names |-> t[x]]
  BY <1>1
<1>3. /\ t.ema = v
      /\ t.receivedAt = r.receivedAt /\ t.startedAt = r.startedAt
      /\ t.endedAt = r.endedAt
      /\ t.price = r.price /\ t.speed = r.speed
      /\ t.acceleration = r.acceleration /\ t.filter = r.filter
      /\ t.marketPhase = r.marketPhase
  BY <1>1
<1>4. IsCandle(t)
  BY <1>2, <1>3
<1> QED
  BY <1>3, <1>4 DEF SameTimes

\* ... or one of the filter,
LEMMA WithFilterValue ==
  ASSUME NEW r, IsCandle(r), NEW v, NEW t,
         t = [r EXCEPT !.filter = v]
  PROVE  /\ IsCandle(t)
         /\ t.filter = v
         /\ SameTimes(t, r)
         /\ t.price = r.price /\ t.speed = r.speed
         /\ t.acceleration = r.acceleration /\ t.ema = r.ema
         /\ t.marketPhase = r.marketPhase
<1> USE DEF IsCandle
<1> DEFINE Names == {"receivedAt", "startedAt", "endedAt", "price", "speed",
                      "acceleration", "ema", "filter", "marketPhase"}
<1>1. DOMAIN r = Names /\ r = [x \in Names |-> r[x]]
  OBVIOUS
<1>2. t = [x \in Names |-> t[x]]
  BY <1>1
<1>3. /\ t.filter = v
      /\ t.receivedAt = r.receivedAt /\ t.startedAt = r.startedAt
      /\ t.endedAt = r.endedAt
      /\ t.price = r.price /\ t.speed = r.speed
      /\ t.acceleration = r.acceleration /\ t.ema = r.ema
      /\ t.marketPhase = r.marketPhase
  BY <1>1
<1>4. IsCandle(t)
  BY <1>2, <1>3
<1> QED
  BY <1>3, <1>4 DEF SameTimes

\* ... or of the market phase.
LEMMA WithPhaseValue ==
  ASSUME NEW r, IsCandle(r), NEW v, NEW t,
         t = [r EXCEPT !.marketPhase = v]
  PROVE  /\ IsCandle(t)
         /\ t.marketPhase = v
         /\ SameTimes(t, r)
         /\ t.price = r.price /\ t.speed = r.speed
         /\ t.acceleration = r.acceleration /\ t.ema = r.ema
         /\ t.filter = r.filter
<1> USE DEF IsCandle
<1> DEFINE Names == {"receivedAt", "startedAt", "endedAt", "price", "speed",
                      "acceleration", "ema", "filter", "marketPhase"}
<1>1. DOMAIN r = Names /\ r = [x \in Names |-> r[x]]
  OBVIOUS
<1>2. t = [x \in Names |-> t[x]]
  BY <1>1
<1>3. /\ t.marketPhase = v
      /\ t.receivedAt = r.receivedAt /\ t.startedAt = r.startedAt
      /\ t.endedAt = r.endedAt
      /\ t.price = r.price /\ t.speed = r.speed
      /\ t.acceleration = r.acceleration /\ t.ema = r.ema
      /\ t.filter = r.filter
  BY <1>1
<1>4. IsCandle(t)
  BY <1>2, <1>3
<1> QED
  BY <1>3, <1>4 DEF SameTimes

\* No item is the absence of one.
LEMMA ItemIsSomething ==
  ASSUME NEW r, IsCandle(r)
  PROVE  r # Nothing
<1>1. DOMAIN r = {"receivedAt", "startedAt", "endedAt", "price", "speed",
                  "acceleration", "ema", "filter", "marketPhase"}
  BY DEF IsCandle
<1>2. DOMAIN Nothing = {"nothing"}
  BY DEF Nothing
<1> QED
  BY <1>1, <1>2

\* The first changed item.
LEMMA FirstAffectedIs ==
  ASSUME IsList(items), transitory \subseteq DOMAIN items, transitory # {}
  PROVE  /\ FirstAffected \in transitory
         /\ \A j \in transitory : FirstAffected <= j
<1>1. DOMAIN items = 1 .. Len(items) /\ Len(items) \in Nat
  BY ListFacts
<1>2. transitory \in SUBSET Nat
  BY <1>1
<1>3. \E k \in transitory : \A j \in transitory : k <= j
  BY <1>2, LeastOf
<1> QED
  BY <1>3 DEF FirstAffected

\* Items that have changed, and those behind them, are affected for a time.
LEMMA AffectedIs ==
  ASSUME IsList(items), transitory \subseteq DOMAIN items, NEW i \in DOMAIN items
  PROVE  i \in FiniteAffected(2) <=> i \in transitory \/ i - 1 \in transitory
<1>1. DOMAIN items = 1 .. Len(items) /\ Len(items) \in Nat
  BY ListFacts
<1>2. \A j \in transitory : j <= i /\ i < j + 2 <=> j = i \/ j = i - 1
  BY <1>1
<1> QED
  BY <1>2 DEF FiniteAffected

\* The candles: affected items get their price, speed and acceleration.
LEMMA CandlesStage ==
  ASSUME Candles(items)
  PROVE  LET c == WithCandles(items)
         IN  /\ Candles(c) /\ Len(c) = Len(items)
             /\ \A i \in 1 .. Len(items) :
                  /\ SameTimes(c[i], items[i])
                  /\ c[i].ema = items[i].ema /\ c[i].filter = items[i].filter
                  /\ c[i].marketPhase = items[i].marketPhase
                  /\ IF i \in FiniteAffected(2)
                       THEN /\ c[i].price = Price(Before(c, i), items[i], i)
                            /\ c[i].speed = Speed(Before(c, i), c[i], c[i].price)
                            /\ c[i].acceleration
                                 = Acceleration(Before(c, i), c[i], c[i].speed)
                       ELSE c[i] = items[i]
<1> DEFINE c == WithCandles(items)
           A == FiniteAffected(2)
<1>1. IsList(items) /\ Len(items) \in Nat /\ DOMAIN items = 1 .. Len(items)
      /\ \A i \in 1 .. Len(items) : IsCandle(items[i])
  BY ListFacts DEF Candles
<1>2. /\ IsList(c) /\ Len(c) = Len(items)
      /\ \A i \in 1 .. Len(items) :
           c[i] = IF i \in A THEN Calculate("candle", Before(c, i), items, i) ELSE items[i]
  <2> HIDE DEF A
  <2> QED
    BY <1>1, CalculatedIs DEF WithCandles, A
<1> HIDE DEF c, A
<1>3. ASSUME NEW i \in 1 .. Len(items)
      PROVE  /\ IsCandle(c[i])
             /\ SameTimes(c[i], items[i])
             /\ c[i].ema = items[i].ema /\ c[i].filter = items[i].filter
             /\ c[i].marketPhase = items[i].marketPhase
             /\ IF i \in A
                  THEN /\ c[i].price = Price(Before(c, i), items[i], i)
                       /\ c[i].speed = Speed(Before(c, i), c[i], c[i].price)
                       /\ c[i].acceleration
                            = Acceleration(Before(c, i), c[i], c[i].speed)
                  ELSE c[i] = items[i]
  <2>1. CASE i \in A
    <3> DEFINE p  == Before(c, i)
               pr == Price(p, items[i], i)
               sp == Speed(p, items[i], pr)
               ac == Acceleration(p, items[i], sp)
    <3>1. c[i] = CalculateCandle(p, items[i], i)
      BY <2>1, <1>2 DEF Calculate
    <3>2. c[i] = [items[i] EXCEPT !.price = pr, !.speed = sp, !.acceleration = ac]
      BY <3>1 DEF CalculateCandle
    <3> HIDE DEF p, pr, sp, ac
    <3>3. IsCandle(items[i])
      BY <1>1
    <3>4. /\ IsCandle(c[i])
          /\ c[i].price = pr /\ c[i].speed = sp /\ c[i].acceleration = ac
          /\ c[i].receivedAt = items[i].receivedAt /\ c[i].startedAt = items[i].startedAt
          /\ c[i].endedAt = items[i].endedAt /\ c[i].ema = items[i].ema
          /\ c[i].filter = items[i].filter /\ c[i].marketPhase = items[i].marketPhase
      <4>1. ASSUME NEW r, r = items[i], NEW t, t = c[i],
                   NEW x, x = pr, NEW y, y = sp, NEW z, z = ac
            PROVE  /\ IsCandle(t)
                   /\ t.price = x /\ t.speed = y /\ t.acceleration = z
                   /\ SameTimes(t, r) /\ t.ema = r.ema
                   /\ t.filter = r.filter /\ t.marketPhase = r.marketPhase
        <5>1. t = [r EXCEPT !.price = x, !.speed = y, !.acceleration = z]
          BY <4>1, <3>2, Zenon
        <5>2. IsCandle(r)
          BY <4>1, <3>3
        <5> HIDE <4>1
        <5> DEFINE Names == {"receivedAt", "startedAt", "endedAt", "price", "speed",
                              "acceleration", "ema", "filter", "marketPhase"}
        <5>3. DOMAIN r = Names
          BY <5>2 DEF IsCandle
        <5>4. t = [k \in Names |-> t[k]]
          BY <5>1, <5>3
        <5>5. /\ t.price = x /\ t.speed = y /\ t.acceleration = z
              /\ t.receivedAt = r.receivedAt /\ t.startedAt = r.startedAt
              /\ t.endedAt = r.endedAt /\ t.ema = r.ema
              /\ t.filter = r.filter /\ t.marketPhase = r.marketPhase
          BY <5>1, <5>3
        <5>6. IsCandle(t)
          <6>1. r.receivedAt \in Int /\ r.startedAt \in Int /\ r.endedAt \in Int
            BY <5>2 DEF IsCandle
          <6> QED
            BY <5>4, <5>5, <6>1 DEF IsCandle
        <5> QED
          BY <5>5, <5>6 DEF SameTimes
      <4> QED
        BY <4>1 DEF SameTimes
    <3>5. /\ sp = Speed(p, c[i], c[i].price)
          /\ ac = Acceleration(p, c[i], c[i].speed)
      BY <3>4 DEF Speed, Acceleration, sp, ac
    <3> QED
      BY <2>1, <3>4, <3>5 DEF SameTimes, p, pr
  <2>2. CASE i \notin A
    BY <2>2, <1>1, <1>2 DEF SameTimes
  <2> QED
    BY <2>1, <2>2
<1>4. Candles(c)
  <2>1. DOMAIN c = 1 .. Len(items)
    BY <1>2, ListFacts
  <2> QED
    BY <2>1, <1>2, <1>3 DEF Candles
<1> QED
  BY <1>2, <1>3, <1>4 DEF c, A

\* The EMA: a state continues, for the newest item alone, and otherwise the
\* values stored before the first changed item.
LEMMA EmaStage ==
  ASSUME NEW c, Candles(c), Len(c) = Len(items), transitory \subseteq 1 .. Len(items),
         transitory # {}, IsList(items)
  PROVE  LET e == WithEma(c)
         IN  /\ Candles(e) /\ Len(e) = Len(items)
             /\ \A i \in 1 .. Len(items) :
                  /\ SameTimes(e[i], c[i])
                  /\ e[i].price = c[i].price /\ e[i].speed = c[i].speed
                  /\ e[i].acceleration = c[i].acceleration
                  /\ e[i].filter = c[i].filter /\ e[i].marketPhase = c[i].marketPhase
                  /\ i < FirstAffected => e[i] = c[i]
                  /\ i >= FirstAffected =>
                       e[i].ema = IF OnlyNewest THEN SingleEma(c)
                                  ELSE IF Before(e, i) = Nothing THEN SeedAt(c, i)
                                  ELSE IF Before(e, i).ema = Null THEN SeedAt(c, i)
                                  ELSE Ema(Before(e, i).ema, c[i])
<1> DEFINE e == WithEma(c)
           N == Len(items)
           F == FirstAffected
<1>1. /\ IsList(c) /\ N \in Nat /\ DOMAIN c = 1 .. N /\ c = [i \in 1 .. N |-> c[i]]
      /\ \A i \in 1 .. N : IsCandle(c[i])
  BY ListFacts DEF Candles
<1>2. F \in 1 .. N /\ (OnlyNewest => F = N)
  <2>1. DOMAIN items = 1 .. N
    BY ListFacts
  <2>2. F \in transitory
    BY <2>1, FirstAffectedIs
  <2> QED
    BY <2>2 DEF OnlyNewest
<1> HIDE DEF e, F
<1>3. CASE OnlyNewest
  <2> DEFINE v == SingleEma(c)
  <2>1. e = [c EXCEPT ![N] = [c[N] EXCEPT !.ema = v]]
    BY <1>3 DEF WithEma, e
  <2> HIDE DEF v
  <2>2. N \in 1 .. N /\ F = N
    BY <1>2, <1>3
  <2>3. /\ DOMAIN e = 1 .. N /\ e = [i \in 1 .. N |-> e[i]]
        /\ e[N] = [c[N] EXCEPT !.ema = v]
        /\ \A i \in 1 .. N : i # N => e[i] = c[i]
    BY <1>1, <2>1, <2>2
  <2>4. IsList(e) /\ Len(e) = N
    BY <1>1, <2>3, FunctionIsList
  <2>5. /\ IsCandle(e[N]) /\ e[N].ema = v
        /\ e[N].receivedAt = c[N].receivedAt /\ e[N].startedAt = c[N].startedAt
        /\ e[N].endedAt = c[N].endedAt /\ e[N].price = c[N].price /\ e[N].speed = c[N].speed
        /\ e[N].acceleration = c[N].acceleration /\ e[N].filter = c[N].filter
        /\ e[N].marketPhase = c[N].marketPhase
    <3>1. IsCandle(c[N])
      BY <1>1, <2>2
    <3>2. ASSUME NEW r, r = c[N], NEW t, t = e[N]
          PROVE  /\ IsCandle(t) /\ t.ema = v /\ SameTimes(t, r)
                 /\ t.price = r.price /\ t.speed = r.speed
                 /\ t.acceleration = r.acceleration /\ t.filter = r.filter
                 /\ t.marketPhase = r.marketPhase
      <4>1. t = [r EXCEPT !.ema = v] /\ IsCandle(r)
        BY <3>1, <3>2, <2>3, Zenon
      <4> QED
        BY <4>1, WithEmaValue
    <3> QED
      BY <3>2 DEF SameTimes
  <2>6. Candles(e)
    BY <1>1, <2>3, <2>4, <2>5 DEF Candles
  <2>7. ASSUME NEW i \in 1 .. N
        PROVE  /\ SameTimes(e[i], c[i])
               /\ e[i].price = c[i].price /\ e[i].speed = c[i].speed
               /\ e[i].acceleration = c[i].acceleration
               /\ e[i].filter = c[i].filter /\ e[i].marketPhase = c[i].marketPhase
               /\ i < F => e[i] = c[i]
               /\ i >= F => e[i].ema = v
    <3>1. CASE i = N
      BY <3>1, <2>2, <2>5 DEF SameTimes
    <3>2. CASE i # N
      <4>1. e[i] = c[i] /\ ~(i >= F)
        BY <3>2, <2>2, <2>3, <1>1
      <4> QED
        BY <4>1 DEF SameTimes
    <3> QED
      BY <3>1, <3>2
  <2> QED
    BY <1>3, <2>4, <2>6, <2>7 DEF e, F, v
<1>4. CASE ~OnlyNewest
  <2>1. e = Calculated("ema", c, F .. N)
    BY <1>4 DEF WithEma, e, F, InfiniteAffected
  <2>2. /\ IsList(e) /\ Len(e) = N
        /\ \A i \in 1 .. N :
             e[i] = IF i \in F .. N THEN Calculate("ema", Before(e, i), c, i) ELSE c[i]
    <3> DEFINE S == F .. N
    <3> HIDE DEF S
    <3>1. e = Calculated("ema", c, S)
      BY <2>1 DEF S
    <3>2. /\ IsList(e) /\ Len(e) = Len(c)
          /\ \A i \in 1 .. Len(c) :
               e[i] = IF i \in S THEN Calculate("ema", Before(e, i), c, i) ELSE c[i]
      BY <1>1, <3>1, CalculatedIs
    <3> QED
      BY <3>2 DEF S
  <2>3. ASSUME NEW i \in 1 .. N
        PROVE  /\ IsCandle(e[i])
               /\ SameTimes(e[i], c[i])
               /\ e[i].price = c[i].price /\ e[i].speed = c[i].speed
               /\ e[i].acceleration = c[i].acceleration
               /\ e[i].filter = c[i].filter /\ e[i].marketPhase = c[i].marketPhase
               /\ i < F => e[i] = c[i]
               /\ i >= F => e[i].ema = IF Before(e, i) = Nothing THEN SeedAt(c, i)
                                       ELSE IF Before(e, i).ema = Null THEN SeedAt(c, i)
                                       ELSE Ema(Before(e, i).ema, c[i])
    <3>1. CASE i >= F
      <4> DEFINE v == IF Before(e, i) = Nothing THEN SeedAt(c, i)
                      ELSE IF Before(e, i).ema = Null THEN SeedAt(c, i)
                      ELSE Ema(Before(e, i).ema, c[i])
      <4>1. i \in F .. N /\ ~(i < F)
        BY <3>1, <1>1, <1>2
      <4>2. e[i] = CalculateEma(Before(e, i), c, i)
        BY <4>1, <2>2 DEF Calculate
      <4>3. e[i] = [c[i] EXCEPT !.ema = v]
        BY <4>2 DEF CalculateEma
      <4> HIDE DEF v
      <4>4. IsCandle(c[i])
        BY <1>1
      <4>5. /\ IsCandle(e[i]) /\ e[i].ema = v
            /\ e[i].receivedAt = c[i].receivedAt /\ e[i].startedAt = c[i].startedAt
            /\ e[i].endedAt = c[i].endedAt /\ e[i].price = c[i].price /\ e[i].speed = c[i].speed
            /\ e[i].acceleration = c[i].acceleration /\ e[i].filter = c[i].filter
            /\ e[i].marketPhase = c[i].marketPhase
        <5>1. ASSUME NEW q, q = c[i], NEW t, t = e[i]
              PROVE  /\ IsCandle(t) /\ t.ema = v /\ SameTimes(t, q)
                     /\ t.price = q.price /\ t.speed = q.speed
                     /\ t.acceleration = q.acceleration /\ t.filter = q.filter
                     /\ t.marketPhase = q.marketPhase
          <6>1. t = [q EXCEPT !.ema = v] /\ IsCandle(q)
            BY <4>3, <4>4, <5>1, Zenon
          <6> QED
            BY <6>1, WithEmaValue
        <5> QED
          BY <5>1 DEF SameTimes
      <4> QED
        BY <4>1, <4>5 DEF SameTimes, v
    <3>2. CASE i < F
      <4>1. i \notin F .. N /\ ~(i >= F)
        BY <3>2, <1>1, <1>2
      <4>2. e[i] = c[i]
        BY <4>1, <2>2
      <4> QED
        BY <4>1, <4>2, <1>1 DEF SameTimes
    <3> QED
      BY <3>1, <3>2, <1>1, <1>2
  <2>4. Candles(e)
    <3>1. DOMAIN e = 1 .. N
      BY <2>2, ListFacts
    <3> QED
      BY <3>1, <2>2, <2>3 DEF Candles
  <2> QED
    BY <1>4, <2>2, <2>3, <2>4 DEF e, F
<1> QED
  BY <1>3, <1>4

\* The filter, in the same way.
LEMMA FilterStage ==
  ASSUME NEW c, Candles(c), Len(c) = Len(items), transitory \subseteq 1 .. Len(items),
         transitory # {}, IsList(items)
  PROVE  LET e == WithFilter(c)
         IN  /\ Candles(e) /\ Len(e) = Len(items)
             /\ \A i \in 1 .. Len(items) :
                  /\ SameTimes(e[i], c[i])
                  /\ e[i].price = c[i].price /\ e[i].speed = c[i].speed
                  /\ e[i].acceleration = c[i].acceleration
                  /\ e[i].ema = c[i].ema /\ e[i].marketPhase = c[i].marketPhase
                  /\ i < FirstAffected => e[i] = c[i]
                  /\ i >= FirstAffected =>
                       e[i].filter = IF OnlyNewest THEN SingleFilter(c)
                                     ELSE NextFilter(IF Before(e, i) = Nothing THEN Nothing
                                                     ELSE FilterOf(Before(e, i)), c[i])
<1> DEFINE e == WithFilter(c)
           N == Len(items)
           F == FirstAffected
<1>1. /\ IsList(c) /\ N \in Nat /\ DOMAIN c = 1 .. N /\ c = [i \in 1 .. N |-> c[i]]
      /\ \A i \in 1 .. N : IsCandle(c[i])
  BY ListFacts DEF Candles
<1>2. F \in 1 .. N /\ (OnlyNewest => F = N)
  <2>1. DOMAIN items = 1 .. N
    BY ListFacts
  <2>2. F \in transitory
    BY <2>1, FirstAffectedIs
  <2> QED
    BY <2>2 DEF OnlyNewest
<1> HIDE DEF e, F
<1>3. CASE OnlyNewest
  <2> DEFINE v == SingleFilter(c)
  <2>1. e = [c EXCEPT ![N] = [c[N] EXCEPT !.filter = v]]
    BY <1>3 DEF WithFilter, e
  <2> HIDE DEF v
  <2>2. N \in 1 .. N /\ F = N
    BY <1>2, <1>3
  <2>3. /\ DOMAIN e = 1 .. N /\ e = [i \in 1 .. N |-> e[i]]
        /\ e[N] = [c[N] EXCEPT !.filter = v]
        /\ \A i \in 1 .. N : i # N => e[i] = c[i]
    BY <1>1, <2>1, <2>2
  <2>4. IsList(e) /\ Len(e) = N
    BY <1>1, <2>3, FunctionIsList
  <2>5. /\ IsCandle(e[N]) /\ e[N].filter = v
        /\ e[N].receivedAt = c[N].receivedAt /\ e[N].startedAt = c[N].startedAt
        /\ e[N].endedAt = c[N].endedAt /\ e[N].price = c[N].price /\ e[N].speed = c[N].speed
        /\ e[N].acceleration = c[N].acceleration /\ e[N].ema = c[N].ema
        /\ e[N].marketPhase = c[N].marketPhase
    <3>1. IsCandle(c[N])
      BY <1>1, <2>2
    <3>2. ASSUME NEW r, r = c[N], NEW t, t = e[N]
          PROVE  /\ IsCandle(t) /\ t.filter = v /\ SameTimes(t, r)
                 /\ t.price = r.price /\ t.speed = r.speed
                 /\ t.acceleration = r.acceleration /\ t.ema = r.ema
                 /\ t.marketPhase = r.marketPhase
      <4>1. t = [r EXCEPT !.filter = v] /\ IsCandle(r)
        BY <3>1, <3>2, <2>3, Zenon
      <4> QED
        BY <4>1, WithFilterValue
    <3> QED
      BY <3>2 DEF SameTimes
  <2>6. Candles(e)
    BY <1>1, <2>3, <2>4, <2>5 DEF Candles
  <2>7. ASSUME NEW i \in 1 .. N
        PROVE  /\ SameTimes(e[i], c[i])
               /\ e[i].price = c[i].price /\ e[i].speed = c[i].speed
               /\ e[i].acceleration = c[i].acceleration
               /\ e[i].ema = c[i].ema /\ e[i].marketPhase = c[i].marketPhase
               /\ i < F => e[i] = c[i]
               /\ i >= F => e[i].filter = v
    <3>1. CASE i = N
      BY <3>1, <2>2, <2>5 DEF SameTimes
    <3>2. CASE i # N
      <4>1. e[i] = c[i] /\ ~(i >= F)
        BY <3>2, <2>2, <2>3, <1>1
      <4> QED
        BY <4>1 DEF SameTimes
    <3> QED
      BY <3>1, <3>2
  <2> QED
    BY <1>3, <2>4, <2>6, <2>7 DEF e, F, v
<1>4. CASE ~OnlyNewest
  <2>1. e = Calculated("filter", c, F .. N)
    BY <1>4 DEF WithFilter, e, F, InfiniteAffected
  <2>2. /\ IsList(e) /\ Len(e) = N
        /\ \A i \in 1 .. N :
             e[i] = IF i \in F .. N THEN Calculate("filter", Before(e, i), c, i) ELSE c[i]
    <3> DEFINE S == F .. N
    <3> HIDE DEF S
    <3>1. e = Calculated("filter", c, S)
      BY <2>1 DEF S
    <3>2. /\ IsList(e) /\ Len(e) = Len(c)
          /\ \A i \in 1 .. Len(c) :
               e[i] = IF i \in S THEN Calculate("filter", Before(e, i), c, i) ELSE c[i]
      BY <1>1, <3>1, CalculatedIs
    <3> QED
      BY <3>2 DEF S
  <2>3. ASSUME NEW i \in 1 .. N
        PROVE  /\ IsCandle(e[i])
               /\ SameTimes(e[i], c[i])
               /\ e[i].price = c[i].price /\ e[i].speed = c[i].speed
               /\ e[i].acceleration = c[i].acceleration
               /\ e[i].ema = c[i].ema /\ e[i].marketPhase = c[i].marketPhase
               /\ i < F => e[i] = c[i]
               /\ i >= F =>
                    e[i].filter = NextFilter(IF Before(e, i) = Nothing THEN Nothing
                                             ELSE FilterOf(Before(e, i)), c[i])
    <3>1. CASE i >= F
      <4> DEFINE v == NextFilter(IF Before(e, i) = Nothing THEN Nothing
                                 ELSE FilterOf(Before(e, i)), c[i])
      <4>1. i \in F .. N /\ ~(i < F)
        BY <3>1, <1>1, <1>2
      <4>2. e[i] = CalculateFilter(Before(e, i), c[i])
        BY <4>1, <2>2 DEF Calculate
      <4>3. e[i] = [c[i] EXCEPT !.filter = v]
        BY <4>2 DEF CalculateFilter
      <4> HIDE DEF v
      <4>4. IsCandle(c[i])
        BY <1>1
      <4>5. /\ IsCandle(e[i]) /\ e[i].filter = v
            /\ e[i].receivedAt = c[i].receivedAt /\ e[i].startedAt = c[i].startedAt
            /\ e[i].endedAt = c[i].endedAt /\ e[i].price = c[i].price /\ e[i].speed = c[i].speed
            /\ e[i].acceleration = c[i].acceleration /\ e[i].ema = c[i].ema
            /\ e[i].marketPhase = c[i].marketPhase
        BY <4>3, <4>4, WithFilterValue DEF SameTimes
      <4> QED
        BY <4>1, <4>5 DEF SameTimes, v
    <3>2. CASE i < F
      <4>1. i \notin F .. N /\ ~(i >= F)
        BY <3>2, <1>1, <1>2
      <4>2. e[i] = c[i]
        BY <4>1, <2>2
      <4> QED
        BY <4>1, <4>2, <1>1 DEF SameTimes
    <3> QED
      BY <3>1, <3>2, <1>1, <1>2
  <2>4. Candles(e)
    <3>1. DOMAIN e = 1 .. N
      BY <2>2, ListFacts
    <3> QED
      BY <3>1, <2>2, <2>3 DEF Candles
  <2> QED
    BY <1>4, <2>2, <2>3, <2>4 DEF e, F
<1> QED
  BY <1>3, <1>4
\* The market phase, of the first changed item and all behind it.
LEMMA PhaseStage ==
  ASSUME NEW c, Candles(c), Len(c) = Len(items), transitory \subseteq 1 .. Len(items),
         transitory # {}, IsList(items)
  PROVE  LET e == WithPhase(c)
         IN  /\ Candles(e) /\ Len(e) = Len(items)
             /\ \A i \in 1 .. Len(items) :
                  /\ SameTimes(e[i], c[i])
                  /\ e[i].price = c[i].price /\ e[i].speed = c[i].speed
                  /\ e[i].acceleration = c[i].acceleration
                  /\ e[i].ema = c[i].ema /\ e[i].filter = c[i].filter
                  /\ i < FirstAffected => e[i] = c[i]
                  /\ i >= FirstAffected =>
                       e[i].marketPhase = NextPhase(Before(e, i), c[i])
<1> DEFINE e == WithPhase(c)
           N == Len(items)
           F == FirstAffected
<1>1. /\ IsList(c) /\ N \in Nat /\ DOMAIN c = 1 .. N /\ c = [i \in 1 .. N |-> c[i]]
      /\ \A i \in 1 .. N : IsCandle(c[i])
  BY ListFacts DEF Candles
<1>2. F \in 1 .. N
  <2>1. DOMAIN items = 1 .. N
    BY ListFacts
  <2>2. F \in transitory
    BY <2>1, FirstAffectedIs
  <2> QED
    BY <2>2
<1> HIDE DEF e, F
<1>3. e = Calculated("phase", c, F .. N)
  BY DEF WithPhase, e, F, InfiniteAffected
<1>4. /\ IsList(e) /\ Len(e) = N
      /\ \A i \in 1 .. N :
           e[i] = IF i \in F .. N THEN Calculate("phase", Before(e, i), c, i) ELSE c[i]
  <2> DEFINE S == F .. N
  <2> HIDE DEF S
  <2>1. e = Calculated("phase", c, S)
    BY <1>3 DEF S
  <2>2. /\ IsList(e) /\ Len(e) = Len(c)
        /\ \A i \in 1 .. Len(c) :
             e[i] = IF i \in S THEN Calculate("phase", Before(e, i), c, i) ELSE c[i]
    BY <1>1, <2>1, CalculatedIs
  <2> QED
    BY <2>2 DEF S
<1>5. ASSUME NEW i \in 1 .. N
      PROVE  /\ IsCandle(e[i])
             /\ SameTimes(e[i], c[i])
             /\ e[i].price = c[i].price /\ e[i].speed = c[i].speed
             /\ e[i].acceleration = c[i].acceleration
             /\ e[i].ema = c[i].ema /\ e[i].filter = c[i].filter
             /\ i < F => e[i] = c[i]
             /\ i >= F => e[i].marketPhase = NextPhase(Before(e, i), c[i])
  <2>1. CASE i >= F
    <3> DEFINE v == NextPhase(Before(e, i), c[i])
    <3>1. i \in F .. N /\ ~(i < F)
      BY <2>1, <1>1, <1>2
    <3>2. e[i] = CalculatePhase(Before(e, i), c[i])
      BY <3>1, <1>4 DEF Calculate
    <3>3. e[i] = [c[i] EXCEPT !.marketPhase = v]
      BY <3>2 DEF CalculatePhase
    <3> HIDE DEF v
    <3>4. IsCandle(c[i])
      BY <1>1
    <3>5. /\ IsCandle(e[i]) /\ e[i].marketPhase = v
          /\ e[i].receivedAt = c[i].receivedAt /\ e[i].startedAt = c[i].startedAt
          /\ e[i].endedAt = c[i].endedAt /\ e[i].price = c[i].price /\ e[i].speed = c[i].speed
          /\ e[i].acceleration = c[i].acceleration /\ e[i].ema = c[i].ema
          /\ e[i].filter = c[i].filter
      BY <3>3, <3>4, WithPhaseValue DEF SameTimes
    <3> QED
      BY <3>1, <3>5 DEF SameTimes, v
  <2>2. CASE i < F
    <3>1. i \notin F .. N /\ ~(i >= F)
      BY <2>2, <1>1, <1>2
    <3>2. e[i] = c[i]
      BY <3>1, <1>4
    <3> QED
      BY <3>1, <3>2, <1>1 DEF SameTimes
  <2> QED
    BY <2>1, <2>2, <1>1, <1>2
<1>6. Candles(e)
  <2>1. DOMAIN e = 1 .. N
    BY <1>4, ListFacts
  <2> QED
    BY <2>1, <1>4, <1>5 DEF Candles
<1> QED
  BY <1>4, <1>5, <1>6 DEF e, F

\* The item before another, if there is one.
LEMMA BeforeIs ==
  ASSUME NEW c, Candles(c), NEW i \in 1 .. Len(c)
  PROVE  /\ i > 1 => Before(c, i) = c[i - 1] /\ i - 1 \in 1 .. Len(c) /\ Before(c, i) # Nothing
                     /\ IsCandle(Before(c, i))
         /\ ~(i > 1) => Before(c, i) = Nothing
<1>1. Len(c) \in Nat /\ DOMAIN c = 1 .. Len(c) /\ \A j \in 1 .. Len(c) : IsCandle(c[j])
  BY ListFacts DEF Candles
<1>2. ASSUME i > 1
      PROVE  Before(c, i) = c[i - 1] /\ i - 1 \in 1 .. Len(c) /\ IsCandle(c[i - 1])
  BY <1>1, <1>2 DEF Before
<1> QED
  BY <1>2, ItemIsSomething DEF Before

\* The items after a recalculation.
Recalculated == WithPhase(WithFilter(WithEma(WithCandles(items))))

\* What each of them is: times stay, affected candles are calculated from the
\* item before, the rest of an indicator's values from the first changed item on.
LEMMA RecalculatedIs ==
  ASSUME Candles(items), transitory \subseteq 1 .. Len(items), transitory # {}
  PROVE  LET r == Recalculated
         IN  /\ Candles(r) /\ Len(r) = Len(items)
             /\ \A i \in 1 .. Len(items) :
                  /\ SameTimes(r[i], items[i])
                  /\ IF i \in FiniteAffected(2)
                       THEN /\ r[i].price = Price(Before(r, i), items[i], i)
                            /\ r[i].speed = Speed(Before(r, i), r[i], r[i].price)
                            /\ r[i].acceleration
                                 = Acceleration(Before(r, i), r[i], r[i].speed)
                       ELSE /\ r[i].price = items[i].price /\ r[i].speed = items[i].speed
                            /\ r[i].acceleration = items[i].acceleration
                  /\ i < FirstAffected => r[i] = items[i]
                  /\ i >= FirstAffected =>
                       /\ r[i].marketPhase = NextPhase(Before(r, i), r[i])
                       /\ r[i].ema = IF OnlyNewest THEN SingleEma(r)
                                     ELSE IF Before(r, i) = Nothing THEN SeedAt(r, i)
                                     ELSE IF Before(r, i).ema = Null THEN SeedAt(r, i)
                                     ELSE Ema(Before(r, i).ema, r[i])
                       /\ ~OnlyNewest =>
                            r[i].filter = NextFilter(IF Before(r, i) = Nothing THEN Nothing
                                                     ELSE FilterOf(Before(r, i)), r[i])
<1> DEFINE c == WithCandles(items)
           e == WithEma(c)
           f == WithFilter(e)
           r == WithPhase(f)
           N == Len(items)
           F == FirstAffected
           A == FiniteAffected(2)
<1>1. IsList(items) /\ N \in Nat /\ DOMAIN items = 1 .. N
  BY ListFacts DEF Candles
<1>2. /\ Candles(c) /\ Len(c) = N
      /\ \A i \in 1 .. N :
           /\ SameTimes(c[i], items[i])
           /\ c[i].ema = items[i].ema /\ c[i].filter = items[i].filter
           /\ c[i].marketPhase = items[i].marketPhase
           /\ IF i \in A
                THEN /\ c[i].price = Price(Before(c, i), items[i], i)
                     /\ c[i].speed = Speed(Before(c, i), c[i], c[i].price)
                     /\ c[i].acceleration = Acceleration(Before(c, i), c[i], c[i].speed)
                ELSE c[i] = items[i]
  BY CandlesStage
<1> HIDE DEF c, A
<1>3. /\ Candles(e) /\ Len(e) = N
      /\ \A i \in 1 .. N :
           /\ SameTimes(e[i], c[i])
           /\ e[i].price = c[i].price /\ e[i].speed = c[i].speed
           /\ e[i].acceleration = c[i].acceleration
           /\ e[i].filter = c[i].filter /\ e[i].marketPhase = c[i].marketPhase
           /\ i < F => e[i] = c[i]
           /\ i >= F => e[i].ema = IF OnlyNewest THEN SingleEma(c)
                                   ELSE IF Before(e, i) = Nothing THEN SeedAt(c, i)
                                   ELSE IF Before(e, i).ema = Null THEN SeedAt(c, i)
                                   ELSE Ema(Before(e, i).ema, c[i])
  BY <1>1, <1>2, EmaStage
<1> HIDE DEF e
<1>4. /\ Candles(f) /\ Len(f) = N
      /\ \A i \in 1 .. N :
           /\ SameTimes(f[i], e[i])
           /\ f[i].price = e[i].price /\ f[i].speed = e[i].speed
           /\ f[i].acceleration = e[i].acceleration
           /\ f[i].ema = e[i].ema /\ f[i].marketPhase = e[i].marketPhase
           /\ i < F => f[i] = e[i]
           /\ i >= F => f[i].filter = IF OnlyNewest THEN SingleFilter(e)
                                      ELSE NextFilter(IF Before(f, i) = Nothing THEN Nothing
                                                      ELSE FilterOf(Before(f, i)), e[i])
  BY <1>1, <1>3, FilterStage
<1> HIDE DEF f
<1>5. /\ Candles(r) /\ Len(r) = N
      /\ \A i \in 1 .. N :
           /\ SameTimes(r[i], f[i])
           /\ r[i].price = f[i].price /\ r[i].speed = f[i].speed
           /\ r[i].acceleration = f[i].acceleration
           /\ r[i].ema = f[i].ema /\ r[i].filter = f[i].filter
           /\ i < F => r[i] = f[i]
           /\ i >= F => r[i].marketPhase = NextPhase(Before(r, i), f[i])
  BY <1>1, <1>4, PhaseStage
<1> HIDE DEF r, F
<1>6. \A i \in 1 .. N :
        /\ r[i].receivedAt = items[i].receivedAt /\ r[i].startedAt = items[i].startedAt
        /\ r[i].endedAt = items[i].endedAt
        /\ r[i].receivedAt = c[i].receivedAt /\ r[i].receivedAt = e[i].receivedAt
        /\ r[i].receivedAt = f[i].receivedAt
        /\ r[i].endedAt = c[i].endedAt
  BY <1>2, <1>3, <1>4, <1>5 DEF SameTimes
<1>7. \A i \in 1 .. N :
        /\ r[i].price = c[i].price /\ r[i].speed = c[i].speed
        /\ r[i].acceleration = c[i].acceleration
        /\ r[i].price = e[i].price /\ r[i].speed = e[i].speed
        /\ r[i].acceleration = e[i].acceleration
        /\ r[i].price = f[i].price
  BY <1>3, <1>4, <1>5
<1>8. \A i \in 1 .. N : r[i].ema = e[i].ema /\ r[i].filter = f[i].filter
  BY <1>4, <1>5
<1>9. ASSUME NEW i \in 1 .. N
      PROVE  /\ Before(r, i) = Nothing <=> ~(i > 1)
             /\ Before(c, i) = Nothing <=> ~(i > 1)
             /\ Before(e, i) = Nothing <=> ~(i > 1)
             /\ Before(f, i) = Nothing <=> ~(i > 1)
             /\ i > 1 =>
                  /\ i - 1 \in 1 .. N
                  /\ Before(r, i) = r[i - 1] /\ Before(c, i) = c[i - 1]
                  /\ Before(e, i) = e[i - 1] /\ Before(f, i) = f[i - 1]
  <2>1. /\ i > 1 => Before(r, i) = r[i - 1] /\ i - 1 \in 1 .. N /\ Before(r, i) # Nothing
        /\ ~(i > 1) => Before(r, i) = Nothing
    BY <1>5, BeforeIs
  <2>2. /\ i > 1 => Before(c, i) = c[i - 1] /\ Before(c, i) # Nothing
        /\ ~(i > 1) => Before(c, i) = Nothing
    BY <1>2, BeforeIs
  <2>3. /\ i > 1 => Before(e, i) = e[i - 1] /\ Before(e, i) # Nothing
        /\ ~(i > 1) => Before(e, i) = Nothing
    BY <1>3, BeforeIs
  <2>4. /\ i > 1 => Before(f, i) = f[i - 1] /\ Before(f, i) # Nothing
        /\ ~(i > 1) => Before(f, i) = Nothing
    BY <1>4, BeforeIs
  <2> QED
    BY <2>1, <2>2, <2>3, <2>4
<1>10. ASSUME NEW i \in 1 .. N
       PROVE  IF i \in A
                THEN /\ r[i].price = Price(Before(r, i), items[i], i)
                     /\ r[i].speed = Speed(Before(r, i), r[i], r[i].price)
                     /\ r[i].acceleration = Acceleration(Before(r, i), r[i], r[i].speed)
                ELSE /\ r[i].price = items[i].price /\ r[i].speed = items[i].speed
                     /\ r[i].acceleration = items[i].acceleration
  <2>1. CASE i \in A
    <3>1. Price(Before(r, i), items[i], i) = Price(Before(c, i), items[i], i)
      <4>1. (Before(r, i) = Nothing) = (Before(c, i) = Nothing)
        BY <1>9
      <4>2. Before(r, i) # Nothing => Before(r, i).receivedAt = Before(c, i).receivedAt
        BY <1>6, <1>9
      <4> QED
        BY <4>1, <4>2 DEF Price, AggregatedPrice
    <3>2. Speed(Before(r, i), r[i], r[i].price) = Speed(Before(c, i), c[i], c[i].price)
      <4>1. /\ (Before(r, i) = Nothing) = (Before(c, i) = Nothing)
            /\ r[i].receivedAt = c[i].receivedAt /\ r[i].price = c[i].price
        BY <1>6, <1>7, <1>9
      <4>2. Before(r, i) # Nothing =>
              /\ Before(r, i).receivedAt = Before(c, i).receivedAt
              /\ Before(r, i).price = Before(c, i).price
        BY <1>6, <1>7, <1>9
      <4> QED
        BY <4>1, <4>2 DEF Speed
    <3>3. Acceleration(Before(r, i), r[i], r[i].speed)
            = Acceleration(Before(c, i), c[i], c[i].speed)
      <4>1. /\ (Before(r, i) = Nothing) = (Before(c, i) = Nothing)
            /\ r[i].receivedAt = c[i].receivedAt /\ r[i].speed = c[i].speed
        BY <1>6, <1>7, <1>9
      <4>2. Before(r, i) # Nothing =>
              /\ Before(r, i).receivedAt = Before(c, i).receivedAt
              /\ Before(r, i).speed = Before(c, i).speed
        BY <1>6, <1>7, <1>9
      <4> QED
        BY <4>1, <4>2 DEF Acceleration
    <3>4. /\ c[i].price = Price(Before(c, i), items[i], i)
          /\ c[i].speed = Speed(Before(c, i), c[i], c[i].price)
          /\ c[i].acceleration = Acceleration(Before(c, i), c[i], c[i].speed)
      BY <2>1, <1>2
    <3>5. r[i].price = c[i].price /\ r[i].speed = c[i].speed
          /\ r[i].acceleration = c[i].acceleration
      BY <1>7
    <3> QED
      BY <2>1, <3>1, <3>2, <3>3, <3>4, <3>5
  <2>2. CASE i \notin A
    BY <2>2, <1>2, <1>7
  <2> QED
    BY <2>1, <2>2
<1>11. \A i \in A : i \in 1 .. N /\ F <= i
  <2>1. F \in transitory /\ \A j \in transitory : F <= j
    BY <1>1, FirstAffectedIs DEF F
  <2> TAKE i \in A
  <2>2. i \in 1 .. N /\ \E j \in transitory : j <= i
    BY <1>1 DEF A, FiniteAffected
  <2>3. \A j \in transitory : j \in Int
    BY <1>1
  <2> QED
    BY <2>1, <2>2, <2>3
<1>12. ASSUME NEW i \in 1 .. N, i < F PROVE r[i] = items[i]
  <2>1. i \notin A
    <3>1. F \in transitory
      BY <1>1, FirstAffectedIs DEF F
    <3>2. F \in 1 .. N
      BY <3>1
    <3> QED
      BY <1>11, <1>12, <3>2
  <2>2. c[i] = items[i]
    BY <2>1, <1>2
  <2> QED
    BY <2>2, <1>3, <1>4, <1>5, <1>12
<1>13. /\ \A i \in 1 .. N : SeedAt(r, i) = SeedAt(c, i)
       /\ \A x : \A i \in 1 .. N : Ema(x, r[i]) = Ema(x, c[i])
  <2>1. ASSUME NEW i \in 1 .. N PROVE SeedAt(r, i) = SeedAt(c, i)
    <3>1. CASE i < Period
      BY <3>1 DEF SeedAt
    <3>2. CASE ~(i < Period)
      <4>1. \A k \in 1 .. Period : i - Period + k \in 1 .. N
        BY <3>2, <1>1, RecalculationAssumption
      <4>2. \A k \in 1 .. Period : r[i - Period + k].endedAt = c[i - Period + k].endedAt
        BY <4>1, <1>6
      <4>3. [k \in 1 .. Period |-> r[i - Period + k].endedAt]
              = [k \in 1 .. Period |-> c[i - Period + k].endedAt]
        BY <4>2
      <4> QED
        BY <3>2, <4>3 DEF SeedAt
    <3> QED
      BY <3>1, <3>2
  <2> QED
    BY <2>1, <1>6 DEF Ema
<1>14. SingleEma(r) = SingleEma(c)
  <2>1. PICK j \in transitory : TRUE
    OBVIOUS
  <2>2. j \in 1 .. N
    BY <2>1
  <2>3. N \in 1 .. N
    BY <1>1, <2>2
  <2>4. Last(r) = r[N] /\ Last(c) = c[N] /\ Len(r) = N /\ Len(c) = N
    BY <1>2, <1>5 DEF Last
  <2>5. SeedAt(r, N) = SeedAt(c, N) /\ Ema(emaState, r[N]) = Ema(emaState, c[N])
    BY <2>3, <1>13
  <2> QED
    BY <2>4, <2>5, Zenon DEF SingleEma
<1>15. ASSUME NEW i \in 1 .. N, i >= F
       PROVE  /\ r[i].marketPhase = NextPhase(Before(r, i), r[i])
              /\ r[i].ema = IF OnlyNewest THEN SingleEma(r)
                            ELSE IF Before(r, i) = Nothing THEN SeedAt(r, i)
                            ELSE IF Before(r, i).ema = Null THEN SeedAt(r, i)
                            ELSE Ema(Before(r, i).ema, r[i])
              /\ ~OnlyNewest =>
                   r[i].filter = NextFilter(IF Before(r, i) = Nothing THEN Nothing
                                            ELSE FilterOf(Before(r, i)), r[i])
  <2>1. r[i].marketPhase = NextPhase(Before(r, i), r[i])
    <3>1. r[i].marketPhase = NextPhase(Before(r, i), f[i])
      BY <1>5, <1>15
    <3>2. r[i].receivedAt = f[i].receivedAt /\ r[i].price = f[i].price
      BY <1>6, <1>7
    <3> QED
      BY <3>1, <3>2 DEF NextPhase
  <2>2. r[i].ema = IF OnlyNewest THEN SingleEma(r)
                   ELSE IF Before(r, i) = Nothing THEN SeedAt(r, i)
                   ELSE IF Before(r, i).ema = Null THEN SeedAt(r, i)
                   ELSE Ema(Before(r, i).ema, r[i])
    <3>1. r[i].ema = IF OnlyNewest THEN SingleEma(c)
                     ELSE IF Before(e, i) = Nothing THEN SeedAt(c, i)
                     ELSE IF Before(e, i).ema = Null THEN SeedAt(c, i)
                     ELSE Ema(Before(e, i).ema, c[i])
      BY <1>3, <1>8, <1>15
    <3>2. /\ (Before(e, i) = Nothing) = (Before(r, i) = Nothing)
          /\ Before(r, i) # Nothing => Before(e, i).ema = Before(r, i).ema
      BY <1>8, <1>9
    <3>3. /\ SeedAt(r, i) = SeedAt(c, i)
          /\ Ema(Before(r, i).ema, r[i]) = Ema(Before(r, i).ema, c[i])
      BY <1>13
    <3> QED
      BY <3>1, <3>2, <3>3, <1>14
  <2>3. ASSUME ~OnlyNewest
        PROVE  r[i].filter = NextFilter(IF Before(r, i) = Nothing THEN Nothing
                                        ELSE FilterOf(Before(r, i)), r[i])
    <3> DEFINE x == IF Before(r, i) = Nothing THEN Nothing ELSE FilterOf(Before(r, i))
               y == IF Before(f, i) = Nothing THEN Nothing ELSE FilterOf(Before(f, i))
    <3>1. r[i].filter = NextFilter(y, e[i])
      BY <1>4, <1>8, <1>15, <2>3
    <3>2. x = y
      <4>1. (Before(f, i) = Nothing) = (Before(r, i) = Nothing)
        BY <1>9
      <4>2. Before(r, i) # Nothing =>
              /\ Before(f, i).filter = Before(r, i).filter
              /\ Before(f, i).receivedAt = Before(r, i).receivedAt
        BY <1>6, <1>8, <1>9
      <4> QED
        BY <4>1, <4>2 DEF FilterOf
    <3> HIDE DEF x, y
    <3>3. /\ r[i].receivedAt = e[i].receivedAt /\ r[i].price = e[i].price
          /\ r[i].speed = e[i].speed /\ r[i].acceleration = e[i].acceleration
      BY <1>6, <1>7
    <3>4. NextFilter(x, r[i]) = NextFilter(x, e[i])
      BY <3>3 DEF NextFilter
    <3> QED
      BY <3>1, <3>2, <3>4 DEF x
  <2> QED
    BY <2>1, <2>2, <2>3
<1>16. Recalculated = r
  BY DEF Recalculated, r, f, e, c
<1> QED
  BY <1>5, <1>6, <1>10, <1>12, <1>15, <1>16 DEF F, A, SameTimes

\* The filter's value for a newest item that alone has changed.
LEMMA NewestFilterIs ==
  ASSUME Candles(items), transitory \subseteq 1 .. Len(items), transitory # {}, OnlyNewest,
         items[Len(items)].filter = Null,
         Len(items) > 1 => items[Len(items) - 1].filter # Null,
         filterState # Nothing => ~(items[Len(items)].receivedAt <= filterState.receivedAt)
  PROVE  LET r == Recalculated
         IN  r[Len(items)].filter =
               NextFilter(IF filterState # Nothing THEN filterState
                          ELSE IF Len(items) > 1 THEN FilterOf(items[Len(items) - 1])
                          ELSE Nothing, r[Len(items)])
<1> DEFINE c == WithCandles(items)
           e == WithEma(c)
           f == WithFilter(e)
           r == WithPhase(f)
           N == Len(items)
           F == FirstAffected
<1>1. IsList(items) /\ N \in Nat /\ DOMAIN items = 1 .. N /\ N \in 1 .. N
  <2>1. IsList(items) /\ N \in Nat /\ DOMAIN items = 1 .. N
    BY ListFacts DEF Candles
  <2>2. PICK j \in transitory : TRUE
    OBVIOUS
  <2>3. j \in 1 .. N
    BY <2>2
  <2> QED
    BY <2>1, <2>3
<1>2. F = N
  BY <1>1, FirstAffectedIs DEF OnlyNewest
<1>3. /\ Candles(c) /\ Len(c) = N
      /\ \A i \in 1 .. N : SameTimes(c[i], items[i]) /\ c[i].filter = items[i].filter
  BY CandlesStage
<1>4. /\ Candles(e) /\ Len(e) = N
      /\ \A i \in 1 .. N : /\ SameTimes(e[i], c[i]) /\ e[i].filter = c[i].filter
                           /\ e[i].price = c[i].price /\ e[i].speed = c[i].speed
                           /\ e[i].acceleration = c[i].acceleration
  <2> HIDE DEF c
  <2> QED
    BY <1>1, <1>3, EmaStage
<1> HIDE DEF e
<1>5. /\ Candles(f) /\ Len(f) = N
      /\ \A i \in 1 .. N : /\ SameTimes(f[i], e[i])
                           /\ f[i].price = e[i].price /\ f[i].speed = e[i].speed
                           /\ f[i].acceleration = e[i].acceleration
                           /\ i >= F => f[i].filter = SingleFilter(e)
  BY <1>1, <1>4, FilterStage
<1> HIDE DEF f
<1>6. /\ \A i \in 1 .. N : /\ SameTimes(r[i], f[i])
                           /\ r[i].price = f[i].price /\ r[i].speed = f[i].speed
                           /\ r[i].acceleration = f[i].acceleration
                           /\ r[i].filter = f[i].filter
  BY <1>1, <1>5, PhaseStage
<1> HIDE DEF r, F, c
<1>7. r[N].filter = SingleFilter(e)
  BY <1>1, <1>2, <1>5, <1>6
<1>8. \A x : NextFilter(x, e[N]) = NextFilter(x, r[N])
  <2>1. /\ e[N].receivedAt = r[N].receivedAt /\ e[N].price = r[N].price
        /\ e[N].speed = r[N].speed /\ e[N].acceleration = r[N].acceleration
    BY <1>1, <1>5, <1>6 DEF SameTimes
  <2> QED
    BY <2>1 DEF NextFilter
<1>9. CASE filterState # Nothing
  <2>1. ~(e[N].receivedAt <= filterState.receivedAt)
    <3>1. e[N].receivedAt = items[N].receivedAt
      BY <1>1, <1>3, <1>4 DEF SameTimes
    <3> QED
      BY <1>9, <3>1
  <2>2. Last(e) = e[N]
    BY <1>4 DEF Last
  <2>3. SingleFilter(e) = NextFilter(filterState, e[N])
    BY <1>9, <2>1, <2>2 DEF SingleFilter
  <2> QED
    BY <1>7, <1>8, <1>9, <2>3 DEF Recalculated, r, f, e, c
<1>10. CASE filterState = Nothing
  <2>1. /\ IsList(e) /\ Len(e) > 0 /\ e[Len(e)].filter = Null
        /\ Len(e) > 1 => e[Len(e) - 1].filter # Null
    <3>1. \A i \in 1 .. N : e[i].filter = items[i].filter
      BY <1>3, <1>4
    <3>2. N > 1 => N - 1 \in 1 .. N
      BY <1>1
    <3> QED
      BY <1>1, <1>4, <3>1, <3>2 DEF Candles
  <2>2. FullFilter(e) = NextFilter(IF N > 1 THEN FilterOf(e[N - 1]) ELSE Nothing, e[N])
    BY <2>1, <1>4, FullFilterIs
  <2>3. N > 1 => FilterOf(e[N - 1]) = FilterOf(items[N - 1])
    <3>1. N > 1 => N - 1 \in 1 .. N
      BY <1>1
    <3>2. ASSUME N > 1
          PROVE  e[N - 1].filter = items[N - 1].filter
                 /\ e[N - 1].receivedAt = items[N - 1].receivedAt
      BY <3>1, <3>2, <1>3, <1>4 DEF SameTimes
    <3> QED
      BY <3>2 DEF FilterOf
  <2>4. SingleFilter(e) = FullFilter(e)
    BY <1>10 DEF SingleFilter
  <2>5. r[N].filter = NextFilter(IF N > 1 THEN FilterOf(items[N - 1]) ELSE Nothing, r[N])
    BY <1>7, <1>8, <2>2, <2>3, <2>4
  <2> QED
    BY <1>10, <2>5 DEF Recalculated, r, f, e, c
<1> QED
  BY <1>9, <1>10

-----------------------------------------------------------------------------
(* Entities: the simpler steps keep the invariant.                         *)

\* The levels follow each other.
LEMMA LevelFacts ==
  ASSUME counts \in [Levels -> Nat]
  PROVE  /\ MaxLevel \in Nat /\ Levels = 0 .. MaxLevel /\ 0 \in Levels /\ MaxLevel \in Levels
         /\ \A l \in Levels : LevelStart(l) \in Nat \ {0} /\ counts[l] \in Nat
         /\ \A l \in Levels : l > 0 => LevelStart(l) + counts[l] <= LevelStart(0)
         /\ LevelEnd(0) = LevelStart(0) + counts[0]
<1>1. MaxLevel \in Nat /\ Levels = 0 .. MaxLevel /\ 0 \in Levels /\ MaxLevel \in Levels
  BY RecalculationAssumption DEF Levels, MaxLevel
<1>2. \A l \in Levels : LevelStart(l) \in Nat \ {0} /\ counts[l] \in Nat
  BY StartOfType DEF LevelStart
<1>3. \A l \in Levels : l > 0 => LevelStart(l) + counts[l] <= LevelStart(0)
  BY <1>1, StartsDescend DEF LevelStart
<1> QED
  BY <1>1, <1>2, <1>3 DEF LevelEnd

\* Without items every level begins at the first place.
LEMMA EmptyLevels ==
  ASSUME NEW z, z = [l \in Levels |-> 0]
  PROVE  z \in [Levels -> Nat] /\ StartOf(z, 0) = 1 /\ z[0] = 0
<1> DEFINE M == MaxLevel
           G == {m \in Nat : m <= M => StartOf(z, M - m) = 1}
<1>0. M \in Nat /\ Levels = 0 .. M /\ z \in [Levels -> Nat]
  BY RecalculationAssumption DEF Levels, MaxLevel
<1>a. /\ StartOf(z, M) = 1
      /\ \A l \in Levels : l # M => StartOf(z, l) = StartOf(z, l + 1) + z[l + 1]
  BY <1>0, StartOfIs
<1> HIDE DEF M
<1>1. 0 \in G
  <2>1. M - 0 = M
    BY <1>0
  <2> QED
    BY <2>1, <1>a
<1>2. ASSUME NEW m \in G PROVE m + 1 \in G
  <2> SUFFICES ASSUME m + 1 <= M PROVE StartOf(z, M - (m + 1)) = 1
    OBVIOUS
  <2>1. /\ M - (m + 1) \in Levels /\ M - (m + 1) # M /\ (M - (m + 1)) + 1 = M - m
        /\ M - m \in Levels /\ m <= M
    BY <1>0
  <2>2. StartOf(z, M - m) = 1 /\ z[M - m] = 0
    BY <2>1
  <2> QED
    BY <2>1, <2>2, <1>a
<1>3. G = Nat
  <2> HIDE DEF G
  <2>1. G \in SUBSET Nat
    BY DEF G
  <2> QED
    BY <1>1, <1>2, <2>1, SetInduction
<1>4. M \in G
  <2> HIDE DEF G
  <2> QED
    BY <1>0, <1>3
<1>5. M - M = 0 /\ M <= M /\ z[0] = 0
  BY <1>0
<1> QED
  BY <1>0, <1>4, <1>5

\* Without items nothing can be wrong.
Emptied ==
  /\ items = <<>> /\ counts = [l \in Levels |-> 0] /\ transitory = {} /\ deleted = <<>>
  /\ phase = "idle" /\ level = 0 /\ maxCount \in Releases
  /\ emaState = Null /\ filterState = Nothing /\ now \in Int

AnyLiving == \A g : Living(g)

\* An empty list has it all.
LEMMA EmptyLiving == Emptied => AnyLiving
<1> SUFFICES ASSUME Emptied, NEW g PROVE Living(g)
  BY DEF AnyLiving
<1> USE DEF Emptied
<1>1. counts \in [Levels -> Nat] /\ LevelStart(0) = 1 /\ counts[0] = 0
  BY EmptyLevels DEF LevelStart
<1>2. Len(items) = 0 /\ DOMAIN items = {} /\ IsList(items) /\ IsList(deleted)
      /\ DOMAIN deleted = {}
  BY DEF IsList
<1>3. ~Fresh
  BY DEF Fresh
<1>4. EntityShapes
  <2>1. 0 \in Levels
    BY <1>1, LevelFacts
  <2> QED
    BY <1>1, <1>2, <2>1 DEF EntityShapes, Candles, LevelEnd
<1>5. NewestIsTick /\ AllSpanned
  BY <1>2, <1>3 DEF NewestIsTick, AllSpanned
<1>6. Ordered(g)
  BY <1>2 DEF Ordered
<1>7. RecordsRight
  BY <1>2, <1>3 DEF RecordsRight
<1>8. CandlesRight /\ IndicatorsRight
  BY <1>2 DEF CandlesRight, IndicatorsRight
<1>9. StatesRight
  BY DEF StatesRight
<1> QED
  BY <1>4, <1>5, <1>6, <1>7, <1>8, <1>9 DEF Living

LEMMA EmptyLivingNext == Emptied' => AnyLiving'
BY EmptyLiving, PTL

LEMMA EntitiesInit ==
  ASSUME NEW g, InitEntities PROVE EntitiesInv(g)
<1>1. Living(g)
  BY EmptyLiving DEF InitEntities, Emptied, AnyLiving
<1> QED
  BY <1>1 DEF InitEntities, EntitiesInv

\* Between two ticks nothing is left to calculate.
LEMMA IdleFacts ==
  ASSUME NEW g, Living(g), phase = "idle"
  PROVE  ~Fresh /\ transitory = {} /\ deleted = <<>> /\ level = 0
<1>1. ~Fresh /\ transitory = {} /\ level = 0
  BY DEF Fresh, Living, EntityShapes, RecordsRight
<1>2. transitory = {deleted[k].index : k \in DOMAIN deleted} /\ IsList(deleted)
  BY <1>1 DEF Living, RecordsRight
<1>3. DOMAIN deleted = {}
  BY <1>1, <1>2
<1>4. Len(deleted) \in Nat /\ DOMAIN deleted = 1 .. Len(deleted)
      /\ deleted \in Seq(Range(deleted))
  BY <1>2, ListFacts DEF IsList
<1>5. Len(deleted) = 0
  BY <1>3, <1>4
<1> QED
  BY <1>1, <1>4, <1>5

\* RemoveMarket leaves nothing.
LEMMA RemoveMarketKeeps ==
  ASSUME NEW g, EntitiesInv(g), RemoveMarket PROVE EntitiesInv(g)'
<1>1. Living(g) /\ phase = "idle" /\ ~reported
  BY DEF EntitiesInv, RemoveMarket
<1>2. transitory = {} /\ deleted = <<>> /\ level = 0 /\ now \in Int /\ maxCount \in Releases
  BY <1>1, IdleFacts DEF Living, EntityShapes
<1>3. items' = <<>> /\ counts' = [l \in Levels |-> 0] /\ transitory' = {}
      /\ deleted' = <<>> /\ phase' = "idle" /\ level' = 0 /\ maxCount' \in Releases
      /\ emaState' = Null /\ filterState' = Nothing /\ now' \in Int /\ ~reported'
  BY <1>1, <1>2 DEF RemoveMarket
<1>4. Living(g)'
  <2>1. Emptied'
    BY <1>3 DEF Emptied
  <2>2. AnyLiving'
    BY <2>1, EmptyLivingNext
  <2> QED
    BY <2>2 DEF AnyLiving
<1> QED
  BY <1>3, <1>4 DEF EntitiesInv

\* Restart forgets only the indicators' states.
LEMMA RestartKeeps ==
  ASSUME NEW g, EntitiesInv(g), Restart PROVE EntitiesInv(g)'
<1>1. Living(g) /\ phase = "idle" /\ ~reported
  BY DEF EntitiesInv, Restart
<1>2. UNCHANGED <<items, counts, transitory, deleted, phase, level, now, seeded, reported>>
      /\ maxCount' \in Releases /\ emaState' = Null /\ filterState' = Nothing
  BY DEF Restart
<1>3. EntityShapes' /\ Fresh' = Fresh
  BY <1>1, <1>2 DEF Living, EntityShapes, Candles, IsCandle, LevelEnd, LevelStart, Fresh
<1>4. NewestIsTick' /\ AllSpanned'
  BY <1>1, <1>2, <1>3 DEF Living, NewestIsTick, AllSpanned, LevelStart
<1>5. Ordered(g)'
  BY <1>1, <1>2, <1>3 DEF Living, Ordered, LevelStart
<1>6. RecordsRight'
  BY <1>1, <1>2, <1>3 DEF Living, RecordsRight, LevelStart
<1>7. CandlesRight' /\ IndicatorsRight'
  BY <1>1, <1>2 DEF Living, CandlesRight, IndicatorsRight
<1>8. StatesRight'
  BY <1>2 DEF StatesRight
<1> QED
  BY <1>1, <1>2, <1>3, <1>4, <1>5, <1>6, <1>7, <1>8 DEF EntitiesInv, Living

\* NextLevel finds all changes below the next level.
LEMMA NextLevelKeeps ==
  ASSUME NEW g, EntitiesInv(g), NextLevel PROVE EntitiesInv(g)'
<1>1. Living(g) /\ phase = "aggregate" /\ ~reported /\ level < MaxLevel
  BY DEF EntitiesInv, NextLevel
<1>2. /\ UNCHANGED <<items, counts, transitory, deleted, maxCount, states, now, seeded,
                     reported>>
      /\ level' = level + 1
      /\ phase' = IF transitory = {} THEN "aggregate" ELSE "recalculate"
  BY DEF NextLevel
<1>a. UNCHANGED <<emaState, filterState>>
  BY <1>2 DEF states
<1>b. /\ EntityShapes /\ counts \in [Levels -> Nat] /\ level \in Levels /\ Len(items) = LevelEnd(0) - 1
      /\ items # <<>> /\ counts[0] > 0
  BY <1>1 DEF Living, EntityShapes, NewestIsTick
<1>c. /\ MaxLevel \in Nat /\ Levels = 0 .. MaxLevel /\ 0 \in Levels
      /\ \A l \in Levels : LevelStart(l) \in Nat \ {0} /\ counts[l] \in Nat
      /\ \A l \in Levels : l > 0 => LevelStart(l) + counts[l] <= LevelStart(0)
      /\ LevelEnd(0) = LevelStart(0) + counts[0]
  BY <1>b, LevelFacts
<1>d. /\ ~Fresh /\ ~Fresh' /\ level \in Nat /\ level' \in Levels
      /\ \A l : LevelStart(l)' = LevelStart(l)
  BY <1>1, <1>2, <1>b, <1>c DEF Fresh, LevelStart
<1>3. EntityShapes'
  BY <1>1, <1>2, <1>b, <1>d DEF EntityShapes, Candles, IsCandle, LevelEnd
<1>4. NewestIsTick' /\ AllSpanned'
  BY <1>1, <1>2, <1>d DEF Living, NewestIsTick, AllSpanned
<1>5. Ordered(g)'
  BY <1>1, <1>2, <1>d DEF Living, Ordered
<1>6. RecordsRight'
  <2>2. RecordsRight
    BY <1>1 DEF Living
  <2>3. /\ IsList(deleted)'
        /\ (\A k \in DOMAIN deleted : IsRecord(deleted[k], items, transitory))'
        /\ (\A j, k \in DOMAIN deleted : deleted[j].index = deleted[k].index => j = k)'
        /\ (transitory = {deleted[k].index : k \in DOMAIN deleted})'
    BY <1>2, <1>d, <2>2 DEF RecordsRight
  <2>4. /\ \A i \in transitory : i < LevelStart(level)
        /\ level = MaxLevel => transitory = {}
        /\ \A i \in transitory : i \in DOMAIN items
    BY <1>1, <1>d, <2>2 DEF RecordsRight, IsRecord
  <2>5. phase' \in {"aggregate", "recalculate"}
        /\ (phase' = "recalculate" => transitory # {})
        /\ (phase' = "aggregate" => transitory = {})
    BY <1>2
  <2>6. Len(items) \notin transitory
    <3>1. LevelStart(level) <= LevelStart(0)
      <4>1. CASE level = 0
        BY <4>1, <1>b, <1>c
      <4>2. CASE level > 0
        <5>1. /\ LevelStart(level) + counts[level] <= LevelStart(0)
              /\ LevelStart(level) \in Nat /\ counts[level] \in Nat /\ LevelStart(0) \in Nat
          BY <4>2, <1>b, <1>c
        <5> QED
          BY <5>1
      <4> QED
        BY <4>1, <4>2, <1>d
    <3> QED
      BY <3>1, <2>4, <1>b, <1>c
  <2> QED
    BY <1>2, <1>d, <2>3, <2>5, <2>6 DEF RecordsRight
<1>7. CandlesRight' /\ IndicatorsRight'
  BY <1>1, <1>2 DEF Living, CandlesRight, IndicatorsRight
<1>8. StatesRight'
  BY <1>1, <1>2, <1>a, <1>d DEF Living, StatesRight, Newest
<1> QED
  BY <1>1, <1>2, <1>3, <1>4, <1>5, <1>6, <1>7, <1>8 DEF EntitiesInv, Living

LEMMA EntitiesStutter ==
  ASSUME NEW g, EntitiesInv(g), UNCHANGED entityVars PROVE EntitiesInv(g)'
<1>1. UNCHANGED <<items, counts, transitory, deleted, phase, level, maxCount, emaState,
                  filterState, now, seeded, reported>>
  BY DEF entityVars, states
<1> SUFFICES ASSUME TRUE PROVE (phase # "ended" => Living(g))'
                               /\ (phase = "ended" => EntitiesTyped /\ EndsOnlyByClock)'
  BY <1>1 DEF EntitiesInv
<1>a. Fresh' = Fresh /\ \A l : LevelStart(l)' = LevelStart(l)
  BY <1>1 DEF Fresh, LevelStart
<1>2. ASSUME phase # "ended" PROVE Living(g)'
  <2>0. Living(g)
    BY <1>2 DEF EntitiesInv
  <2>1. EntityShapes'
    BY <1>1, <1>a, <2>0 DEF Living, EntityShapes, Candles, IsCandle, LevelEnd
  <2>2. NewestIsTick' /\ AllSpanned'
    BY <1>1, <1>a, <2>0 DEF Living, NewestIsTick, AllSpanned
  <2>3. Ordered(g)'
    BY <1>1, <1>a, <2>0 DEF Living, Ordered
  <2>4. RecordsRight'
    BY <1>1, <1>a, <2>0 DEF Living, RecordsRight
  <2>5. CandlesRight' /\ IndicatorsRight'
    BY <1>1, <2>0 DEF Living, CandlesRight, IndicatorsRight
  <2>6. StatesRight'
    BY <1>1, <1>a, <2>0 DEF Living, StatesRight, Newest
  <2> QED
    BY <2>1, <2>2, <2>3, <2>4, <2>5, <2>6 DEF Living
<1>3. ASSUME phase = "ended" PROVE EntitiesTyped' /\ EndsOnlyByClock'
  BY <1>1, <1>3 DEF EntitiesInv, EntitiesTyped, EndsOnlyByClock, LevelEnd, LevelStart
<1> QED
  BY <1>1, <1>2, <1>3

\* What holds of an item and the one before it holds wherever they are.
LEMMA CandleMoves ==
  ASSUME NEW a, NEW i, NEW b, NEW j, b[j] = a[i], b[j - 1] = a[i - 1],
         BehindAggregate(a, i) => BehindAggregate(b, j)
  PROVE  /\ SpeedOK(a, i) => SpeedOK(b, j)
         /\ AccelerationOK(a, i) => AccelerationOK(b, j)
BY DEF SpeedOK, AccelerationOK

\* The mean an EMA starts with is of the closes before it, of those that are
\* still there.
LEMMA SeededMoves ==
  ASSUME NEW a, NEW b, NEW i \in Nat \ {0}, NEW x \in Nat,
         \A j \in 1 .. i : b[j] = a[j + x],
         Seeded(a, i + x)
  PROVE  Seeded(b, i)
<1>0. Period \in Nat \ {0}
  BY RecalculationAssumption
<1>1. b[i] = a[i + x]
  OBVIOUS
<1>2. CASE a[i + x].ema = Null
  BY <1>0, <1>1, <1>2 DEF Seeded
<1>3. CASE a[i + x].ema # Null
  <2> DEFINE v == a[i + x].ema
  <2>1. IsSeed(v, a, i + x)
    BY <1>3 DEF Seeded
  <2> HIDE DEF v
  <2>2. PICK closes \in {v[2]} :
          /\ v = <<"seed", closes>> /\ DOMAIN closes = 1 .. Period
          /\ \A k \in 1 .. Period : (i + x) - Period + k > 0 =>
               closes[k] = a[(i + x) - Period + k].endedAt
    BY <2>1 DEF IsSeed
  <2>3. ASSUME NEW k \in 1 .. Period, i - Period + k > 0
        PROVE  closes[k] = b[i - Period + k].endedAt
    <3>1. /\ i - Period + k \in 1 .. i /\ (i + x) - Period + k > 0
          /\ (i - Period + k) + x = (i + x) - Period + k
      BY <1>0, <2>3
    <3>2. b[i - Period + k] = a[(i + x) - Period + k]
      BY <3>1
    <3> QED
      BY <2>2, <3>1, <3>2
  <2>4. IsSeed(v, b, i)
    BY <2>2, <2>3 DEF IsSeed
  <2> QED
    BY <1>1, <1>3, <2>4 DEF Seeded, v
<1> QED
  BY <1>2, <1>3

\* An EMA's value stays right when the oldest items go.
LEMMA EmaMoves ==
  ASSUME NEW a, NEW b, NEW i \in Nat, i > 1, NEW x \in Nat, NEW ticks, NEW more,
         ticks \subseteq more,
         \A j \in 1 .. i : b[j] = a[j + x],
         EmaOK(a, i + x, ticks)
  PROVE  EmaOK(b, i, more)
<1>1. b[i] = a[i + x]
  OBVIOUS
<1>2. b[i - 1] = a[i + x - 1]
  <2>1. i - 1 \in 1 .. i /\ (i - 1) + x = i + x - 1
    OBVIOUS
  <2> QED
    BY <2>1
<1>3. Seeded(a, i + x) => Seeded(b, i)
  BY SeededMoves
<1> QED
  BY <1>1, <1>2, <1>3 DEF EmaOK

\* What the steps need to know of the state.
LEMMA LivingFacts ==
  ASSUME NEW g, Living(g)
  PROVE  /\ IsList(items) /\ Len(items) \in Nat /\ DOMAIN items = 1 .. Len(items)
         /\ \A i \in 1 .. Len(items) : IsCandle(items[i]) /\ items[i] # Nothing
         /\ counts \in [Levels -> Nat] /\ Len(items) = LevelEnd(0) - 1
         /\ level \in Levels /\ maxCount \in Releases /\ now \in Int
         /\ transitory \subseteq 1 .. Len(items)
         /\ items # <<>> => Len(items) > 0
<1>1. EntityShapes /\ RecordsRight
  BY DEF Living
<1>2. /\ IsList(items) /\ \A i \in DOMAIN items : IsCandle(items[i])
      /\ counts \in [Levels -> Nat] /\ Len(items) = LevelEnd(0) - 1
      /\ level \in Levels /\ maxCount \in Releases /\ now \in Int
  BY <1>1 DEF EntityShapes, Candles
<1>3. Len(items) \in Nat /\ DOMAIN items = 1 .. Len(items)
  BY <1>2, ListFacts
<1>4. \A i \in 1 .. Len(items) : IsCandle(items[i]) /\ items[i] # Nothing
  BY <1>2, <1>3, ItemIsSomething
<1>5. transitory \subseteq 1 .. Len(items)
  <2>1. CASE Fresh
    <3>1. transitory = {Len(items)} /\ items # <<>>
      BY <1>1, <2>1 DEF RecordsRight, EntityShapes, Fresh
    <3>2. Len(items) # 0
      <4>1. items \in Seq(Range(items))
        BY <1>2 DEF IsList
      <4> QED
        BY <3>1, <4>1
    <3> QED
      BY <3>1, <3>2, <1>3
  <2>2. CASE ~Fresh
    <3>1. \A k \in DOMAIN deleted : deleted[k].index \in DOMAIN items
      BY <1>1 DEF RecordsRight, IsRecord
    <3> QED
      BY <1>1, <1>3, <2>2, <3>1 DEF RecordsRight
  <2> QED
    BY <2>1, <2>2
<1>6. items # <<>> => Len(items) > 0
  <2>1. items \in Seq(Range(items))
    BY <1>2 DEF IsList
  <2> QED
    BY <1>3, <2>1
<1> QED
  BY <1>2, <1>3, <1>4, <1>5, <1>6

\* A candle as a tick makes it.
LEMMA TickIs ==
  ASSUME NEW t \in Int, NEW p
  PROVE  LET r == Item(t, t, t, p)
         IN  /\ IsCandle(r) /\ Spanned(r) /\ r.startedAt = t /\ r.endedAt = t
             /\ r.receivedAt = t /\ r.price = p /\ r.filter = Null
BY DEF IsCandle, Spanned, Item

\* ReceiveTick adds the newest item, the only change there is then.
LEMMA ReceiveTickKeeps ==
  ASSUME NEW g, LevelZeroFits(g), EntitiesInv(g), NEW gap \in Gaps, ReceiveTick(gap) PROVE EntitiesInv(g)'
<1> DEFINE N == Len(items)
<1>1. Living(g) /\ phase = "idle" /\ ~reported
  BY DEF EntitiesInv, ReceiveTick
<1>2. ~Fresh /\ transitory = {} /\ deleted = <<>> /\ level = 0
  BY <1>1, IdleFacts
<1>3. /\ IsList(items) /\ N \in Nat /\ DOMAIN items = 1 .. N
      /\ \A i \in 1 .. N : IsCandle(items[i])
      /\ counts \in [Levels -> Nat] /\ N = LevelEnd(0) - 1
      /\ level \in Levels /\ maxCount \in Releases /\ now \in Int
      /\ items # <<>> => N > 0
  BY <1>1, LivingFacts
<1>4. /\ now' = now + gap /\ gap \in Int /\ now' \in Int
      /\ UNCHANGED <<deleted, level, maxCount, emaState, filterState, seeded, reported>>
  BY <1>3, RecalculationAssumption DEF ReceiveTick, states
<1>5. CASE items # <<>> /\ Last(items).endedAt = now'
  <2>1. UNCHANGED <<items, counts, transitory, phase>>
    BY <1>5 DEF ReceiveTick
  <2>2. Fresh' = Fresh /\ \A l : LevelStart(l)' = LevelStart(l)
    BY <1>4, <2>1 DEF Fresh, LevelStart
  <2>3. EntityShapes'
    BY <1>1, <1>4, <2>1, <2>2 DEF Living, EntityShapes, Candles, IsCandle, LevelEnd
  <2>4. NewestIsTick' /\ AllSpanned'
    <3>1. items[N].endedAt = now'
      BY <1>5 DEF Last
    <3> QED
      BY <1>1, <1>4, <2>1, <2>2, <3>1 DEF Living, NewestIsTick, AllSpanned
  <2>5. Ordered(g)'
    BY <1>1, <2>1, <2>2 DEF Living, Ordered
  <2>6. RecordsRight'
    BY <1>1, <1>4, <2>1, <2>2 DEF Living, RecordsRight
  <2>7. CandlesRight' /\ IndicatorsRight'
    BY <1>1, <1>4, <2>1 DEF Living, CandlesRight, IndicatorsRight
  <2>8. StatesRight'
    BY <1>1, <1>4, <2>1, <2>2 DEF Living, StatesRight, Newest
  <2> QED
    BY <1>1, <1>4, <2>1, <2>3, <2>4, <2>5, <2>6, <2>7, <2>8 DEF EntitiesInv, Living
<1>6. CASE ~(items # <<>> /\ Last(items).endedAt = now')
  <2> DEFINE t == Item(now', now', now', <<"price", now'>>)
  <2>1. /\ items' = Append(items, t) /\ counts' = [counts EXCEPT ![0] = @ + 1]
        /\ transitory' = {Len(items')} /\ phase' = "recalculate"
    BY <1>6 DEF ReceiveTick
  <2>2. /\ IsCandle(t) /\ Spanned(t) /\ t.startedAt = now' /\ t.endedAt = now'
        /\ t.receivedAt = now' /\ t.price = <<"price", now'>> /\ t.filter = Null
    BY <1>4, TickIs
  <2> HIDE DEF t
  <2>3. /\ IsList(items') /\ Len(items') = N + 1 /\ DOMAIN items' = 1 .. N + 1
        /\ \A i \in 1 .. N : items'[i] = items[i]
        /\ items'[N + 1] = t
    BY <1>3, <2>1, AppendIs
  <2>4. /\ 0 \in Levels /\ MaxLevel \in Nat /\ Levels = 0 .. MaxLevel
        /\ counts' \in [Levels -> Nat] /\ counts'[0] = counts[0] + 1
        /\ LevelEnd(0) = LevelStart(0) + counts[0] /\ counts[0] \in Nat
        /\ LevelStart(0) \in Nat \ {0}
    BY <1>3, <2>1, LevelFacts
  <2>5. LevelStart(0)' = LevelStart(0)
    <3>1. StartOf(counts', MaxLevel) = StartOf(counts, MaxLevel) + 0
      BY <1>3, <2>4, StartOfIs
    <3>2. MaxLevel \in Levels /\ \A k \in 1 .. MaxLevel : counts'[k] = counts[k]
      BY <1>3, <2>1, <2>4
    <3>3. \A k \in 0 .. MaxLevel : StartOf(counts', k) = StartOf(counts, k) + 0
      BY <1>3, <2>4, <3>1, <3>2, StartsShift
    <3>4. StartOf(counts', 0) = StartOf(counts, 0)
      BY <3>3, <2>4 DEF LevelStart
    <3> QED
      BY <3>4 DEF LevelStart
  <2>6. Fresh' /\ level' = 0 /\ phase' = "recalculate"
    BY <1>2, <1>4, <2>1 DEF Fresh
  <2>7. items' # <<>>
    BY <2>3, <1>3
  <2>8. EntityShapes'
    <3>1. LevelEnd(0)' = LevelStart(0)' + counts'[0]
      BY DEF LevelEnd
    <3>2. Len(items') = LevelEnd(0)' - 1
      BY <1>3, <2>3, <2>4, <2>5, <3>1
    <3>3. \A i \in DOMAIN items' : IsCandle(items'[i])
      BY <1>3, <2>2, <2>3
    <3> QED
      BY <1>3, <1>4, <2>3, <2>4, <2>6, <2>7, <3>2, <3>3 DEF EntityShapes, Candles, IsCandle
  <2>9. NewestIsTick'
    <3>1. NewestIsTick
      BY <1>1 DEF Living
    <3>2. Len(items') > 1 => counts'[0] > 1
      <4>1. N > 0 => items # <<>>
        OBVIOUS
      <4> QED
        BY <3>1, <4>1, <2>3, <2>4, <1>3 DEF NewestIsTick
    <3>3. counts'[0] > 0 /\ items'[Len(items')].endedAt = now'
      BY <1>3, <2>2, <2>3, <2>4
    <3>4. \A i \in DOMAIN items' : i >= LevelStart(0)' => items'[i].startedAt = items'[i].endedAt
      BY <1>3, <2>2, <2>3, <2>5, <3>1 DEF NewestIsTick
    <3> QED
      BY <3>2, <3>3, <3>4 DEF NewestIsTick
  <2>10. AllSpanned'
    <3>1. \A i \in 1 .. N : Spanned(items[i])
      BY <1>1, <1>3 DEF Living, AllSpanned
    <3>2. \A i \in DOMAIN items' : Spanned(items'[i])
      BY <1>3, <2>2, <2>3, <3>1
    <3> QED
      BY <3>2 DEF AllSpanned, Spanned
  <2>11. Ordered(g)'
    <3> SUFFICES ASSUME NEW i \in 2 .. N + 1
                 PROVE  IF i = N + 1
                          THEN /\ items'[i].endedAt # items'[i - 1].endedAt
                               /\ items'[i].endedAt > items'[i - 1].endedAt =>
                                    items'[i].endedAt >= items'[i - 1].endedAt + g
                          ELSE /\ items'[i - 1].endedAt < items'[i].startedAt
                               /\ i > LevelStart(0)' =>
                                    items'[i].endedAt >= items'[i - 1].endedAt + g
      BY <2>3, <2>6 DEF Ordered
    <3>1. CASE i = N + 1
      <4>1. /\ N > 0 /\ i - 1 = N /\ items'[i - 1] = items[N] /\ items # <<>>
        BY <1>3, <2>3, <3>1
      <4>2. items[N].endedAt = now
        BY <1>1, <4>1 DEF Living, NewestIsTick
      <4>3. now # now'
        BY <1>6, <4>1, <4>2 DEF Last
      <4>4. now' > now => now' >= now + g
        BY <1>3, <1>4 DEF LevelZeroFits
      <4> QED
        BY <2>2, <2>3, <3>1, <4>1, <4>2, <4>3, <4>4
    <3>2. CASE i # N + 1
      <4>1. i \in 2 .. N /\ i - 1 \in 1 .. N /\ i \in 1 .. N
        BY <1>3, <3>2
      <4>2. /\ items[i - 1].endedAt < items[i].startedAt
            /\ i > LevelStart(0) => items[i].endedAt >= items[i - 1].endedAt + g
        BY <1>1, <1>2, <4>1 DEF Living, Ordered
      <4> QED
        BY <2>3, <2>5, <3>2, <4>1, <4>2
    <3> QED
      BY <3>1, <3>2
  <2>12. RecordsRight'
    <3>1. items'[Len(items')].price # NaN /\ items'[Len(items')].filter = Null
      BY <1>3, <2>2, <2>3 DEF NaN
    <3>2. deleted' = <<>> /\ DOMAIN deleted' = {} /\ IsList(deleted')
      BY <1>2, <1>4 DEF IsList
    <3> QED
      BY <2>1, <2>6, <3>1, <3>2 DEF RecordsRight, IsList
  <2>13. CandlesRight'
    <3>1. CandlesRight
      BY <1>1 DEF Living
    <3>2. ASSUME NEW i \in DOMAIN items', i \notin transitory'
          PROVE  items'[i].price # NaN /\ items'[i].speed # NaN
      <4>1. i \in 1 .. N
        BY <1>3, <2>1, <2>3, <3>2
      <4> QED
        BY <1>2, <1>3, <2>3, <3>1, <4>1 DEF CandlesRight
    <3>3. ASSUME NEW i \in 2 .. Len(items'), i \notin transitory'
          PROVE  SpeedOK(items', i) /\ AccelerationOK(items', i)
      <4>1. i \in 2 .. N /\ i \in 1 .. N /\ i - 1 \in 1 .. N /\ (i > 2 => i - 2 \in 1 .. N)
        BY <1>3, <2>1, <2>3, <3>3
      <4>2. /\ items'[i] = items[i] /\ items'[i - 1] = items[i - 1]
            /\ i > 2 => items'[i - 2] = items[i - 2]
        BY <2>3, <4>1
      <4>3. SpeedOK(items, i) /\ AccelerationOK(items, i)
        BY <1>2, <3>1, <4>1 DEF CandlesRight
      <4>4. BehindAggregate(items, i) => BehindAggregate(items', i)
        BY <4>2 DEF BehindAggregate
      <4> QED
        BY <4>2, <4>3, <4>4, CandleMoves
    <3> QED
      BY <3>2, <3>3 DEF CandlesRight
  <2>14. IndicatorsRight'
    <3>1. IndicatorsRight
      BY <1>1 DEF Living
    <3> SUFFICES ASSUME NEW i \in DOMAIN items', \A j \in transitory' : i < j
                 PROVE  /\ items'[i].filter # Null
                        /\ i > 1 =>
                             /\ EmaOK(items', i, seeded')
                             /\ items'[i].filter = NextFilter(FilterOf(items'[i - 1]), items'[i])
                             /\ items'[i].marketPhase = NextPhase(items'[i - 1], items'[i])
      BY DEF IndicatorsRight
    <3>2. i \in 1 .. N
      BY <1>3, <2>1, <2>3
    <3>3. /\ items[i].filter # Null
          /\ i > 1 =>
               /\ EmaOK(items, i, seeded)
               /\ items[i].filter = NextFilter(FilterOf(items[i - 1]), items[i])
               /\ items[i].marketPhase = NextPhase(items[i - 1], items[i])
      BY <1>2, <1>3, <3>1, <3>2 DEF IndicatorsRight
    <3>4. CASE i > 1
      <4>1. i - 1 \in 1 .. N
        BY <1>3, <3>2, <3>4
      <4>2. items'[i] = items[i] /\ items'[i - 1] = items[i - 1]
        BY <2>3, <3>2, <4>1
      <4>3. EmaOK(items', i, seeded')
        <5>1. \A j \in 1 .. i : items'[j] = items[j + 0]
          BY <1>3, <2>3, <3>2
        <5>2. EmaOK(items, i + 0, seeded) /\ i \in Nat /\ seeded \subseteq seeded'
          BY <1>3, <1>4, <3>2, <3>3, <3>4
        <5> HIDE DEF N
        <5> QED
          BY <3>4, <5>1, <5>2, EmaMoves
      <4> QED
        BY <3>3, <3>4, <4>2, <4>3
    <3>5. CASE ~(i > 1)
      BY <2>3, <3>2, <3>3, <3>5
    <3> QED
      BY <3>4, <3>5
  <2>15. StatesRight'
    <3>1. Newest = N /\ Newest' = N
      BY <1>2, <1>3, <2>3, <2>6 DEF Newest
    <3>2. StatesRight
      BY <1>1 DEF Living
    <3>3. N > 0 => items'[N] = items[N]
      BY <1>3, <2>3
    <3> QED
      BY <1>4, <3>1, <3>2, <3>3 DEF StatesRight
  <2> QED
    BY <1>1, <1>4, <2>6, <2>8, <2>9, <2>10, <2>11, <2>12, <2>13, <2>14, <2>15 DEF EntitiesInv, Living
<1> QED
  BY <1>5, <1>6

\* The oldest items are on the highest level, and the newest stays.
LEMMA ExcessIs ==
  ASSUME NEW g, Living(g), phase = "aggregate", level = MaxLevel,
         NEW excess \in Nat, excess = counts[MaxLevel] - maxCount[MaxLevel],
         NEW d \in [Levels -> Nat], d[MaxLevel] = counts[MaxLevel] - excess,
         \A l \in Levels : l # MaxLevel => d[l] = counts[l]
  PROVE  /\ excess < Len(items) /\ d[0] > 0
         /\ StartOf(d, 0) \in Int /\ StartOf(d, 0) >= LevelStart(0) - excess
         /\ Len(items) - excess = StartOf(d, 0) + d[0] - 1
<1>1. /\ Len(items) \in Nat /\ counts \in [Levels -> Nat] /\ Len(items) = LevelEnd(0) - 1
      /\ maxCount \in Releases
  BY LivingFacts
<1>2. /\ MaxLevel \in Nat /\ Levels = 0 .. MaxLevel /\ 0 \in Levels /\ MaxLevel \in Levels
      /\ \A l \in Levels : LevelStart(l) \in Nat \ {0} /\ counts[l] \in Nat
      /\ \A l \in Levels : l > 0 => LevelStart(l) + counts[l] <= LevelStart(0)
      /\ LevelEnd(0) = LevelStart(0) + counts[0]
  BY <1>1, LevelFacts
<1>3. maxCount[MaxLevel] \in Nat \ {0}
  BY <1>1, <1>2, RecalculationAssumption DEF Levels
<1>a. /\ counts[MaxLevel] \in Nat /\ counts[0] \in Nat /\ LevelStart(0) \in Nat \ {0}
      /\ maxCount[MaxLevel] \in Nat \ {0}
  BY <1>2, <1>3
<1>b. counts[MaxLevel] - excess = maxCount[MaxLevel] /\ counts[MaxLevel] - excess \in Nat \ {0}
  BY <1>a
<1>4. /\ d[MaxLevel] = counts[MaxLevel] - excess
      /\ d[MaxLevel] > 0 /\ \A l \in Levels : l # MaxLevel => d[l] = counts[l]
  BY <1>b
<1>5. LevelStart(MaxLevel) = 1 /\ StartOf(d, MaxLevel) = 1
  BY <1>1, <1>4, StartOfIs DEF LevelStart
<1>6. counts[0] > 0
  BY <1>1 DEF Living, NewestIsTick, EntityShapes
<1>7. CASE MaxLevel = 0
  <2>1. /\ LevelStart(0) = 1 /\ StartOf(d, 0) = 1 /\ d[0] = counts[0] - excess /\ d[0] > 0
        /\ counts[0] - excess = maxCount[0] /\ maxCount[0] \in Nat \ {0}
    BY <1>4, <1>5, <1>7, <1>a, <1>b
  <2>2. Len(items) = counts[0]
    BY <1>1, <1>2, <1>a, <2>1
  <2>3. excess < Len(items)
    BY <1>a, <2>1, <2>2
  <2>4. Len(items) - excess = StartOf(d, 0) + d[0] - 1
    BY <1>a, <2>1, <2>2
  <2> QED
    BY <2>1, <2>3, <2>4
<1>8. CASE MaxLevel > 0
  <2> DEFINE l == MaxLevel - 1
  <2>1. l \in Levels /\ l # MaxLevel /\ l + 1 = MaxLevel /\ 0 \in 0 .. l /\ 0 # MaxLevel
    BY <1>2, <1>8
  <2>2. /\ StartOf(counts, l) = 1 + counts[MaxLevel]
        /\ StartOf(d, l) = 1 + d[MaxLevel]
    <3>1. StartOf(counts, l) = StartOf(counts, l + 1) + counts[l + 1]
      BY <1>1, <2>1, StartOfIs
    <3>2. StartOf(d, l) = StartOf(d, l + 1) + d[l + 1]
      BY <1>4, <2>1, StartOfIs
    <3> QED
      BY <1>5, <2>1, <3>1, <3>2 DEF LevelStart
  <2>3. StartOf(d, l) = StartOf(counts, l) + (0 - excess)
    <3>1. d[MaxLevel] = counts[MaxLevel] - excess
      BY <1>4
    <3> QED
      BY <1>a, <2>2, <3>1
  <2>4. \A k \in 1 .. l : d[k] = counts[k]
    BY <1>2, <1>4
  <2> DEFINE y == 0 - excess
  <2>a. y \in Int /\ StartOf(d, l) = StartOf(counts, l) + y
    BY <2>3
  <2> HIDE DEF l, y
  <2>5. \A k \in 0 .. l : StartOf(d, k) = StartOf(counts, k) + y
    BY <1>1, <2>1, <2>4, <2>a, StartsShift
  <2>6. StartOf(d, 0) = LevelStart(0) + (0 - excess)
    BY <2>1, <2>5 DEF LevelStart, y
  <2>7. LevelStart(MaxLevel) + counts[MaxLevel] <= LevelStart(0)
    BY <1>2, <1>8
  <2>8. d[0] = counts[0] /\ LevelStart(0) \in Nat /\ counts[0] \in Nat /\ counts[MaxLevel] \in Nat
    BY <1>2, <1>4, <2>1
  <2>9. excess < counts[MaxLevel]
    BY <1>3, <2>8
  <2> QED
    <3>1. StartOf(d, 0) \in Int /\ StartOf(d, 0) >= LevelStart(0) - excess
      BY <2>6, <2>8
    <3>2. 1 + counts[MaxLevel] <= LevelStart(0) /\ Len(items) = LevelStart(0) + counts[0] - 1
      BY <1>1, <1>2, <1>5, <2>7
    <3>3. excess < Len(items)
      BY <1>6, <2>8, <2>9, <3>2
    <3>4. Len(items) - excess = StartOf(d, 0) + d[0] - 1
      BY <2>6, <2>8, <3>2
    <3> QED
      BY <1>4, <1>6, <2>8, <3>1, <3>3, <3>4
<1> QED
  BY <1>2, <1>7, <1>8

\* TrimMaxLevel takes the oldest items, and indexes move down.
LEMMA TrimMaxLevelKeeps ==
  ASSUME NEW g, EntitiesInv(g), TrimMaxLevel PROVE EntitiesInv(g)'
<1> DEFINE N == Len(items)
           excess == counts[MaxLevel] - maxCount[MaxLevel]
           x == IF excess <= 0 THEN 0 ELSE excess
<1>1. Living(g) /\ phase = "aggregate" /\ ~reported /\ level = MaxLevel
  BY DEF EntitiesInv, TrimMaxLevel
<1>2. /\ phase' = "idle" /\ level' = 0
      /\ UNCHANGED <<transitory, deleted, maxCount, emaState, filterState, now, seeded,
                     reported>>
  BY DEF TrimMaxLevel, states
<1>3. /\ IsList(items) /\ N \in Nat /\ DOMAIN items = 1 .. N
      /\ \A i \in 1 .. N : IsCandle(items[i])
      /\ counts \in [Levels -> Nat] /\ N = LevelEnd(0) - 1
      /\ level \in Levels /\ maxCount \in Releases /\ now \in Int
      /\ items # <<>>
  BY <1>1, LivingFacts DEF Living, EntityShapes
<1>4. ~Fresh /\ ~Fresh' /\ transitory = {} /\ IsList(deleted) /\ DOMAIN deleted = {}
  <2>1. ~Fresh /\ ~Fresh'
    BY <1>1, <1>2 DEF Fresh
  <2>2. transitory = {} /\ IsList(deleted) /\ transitory = {deleted[k].index : k \in DOMAIN deleted}
    BY <1>1, <2>1 DEF Living, RecordsRight
  <2> QED
    BY <2>1, <2>2
<1>5. /\ 0 \in Levels /\ MaxLevel \in Levels /\ LevelEnd(0) = LevelStart(0) + counts[0]
      /\ LevelStart(0) \in Nat \ {0} /\ counts[0] \in Nat /\ counts[MaxLevel] \in Nat
  BY <1>3, LevelFacts
<1>6. excess \in Int
  BY <1>3, <1>5, RecalculationAssumption DEF Levels
<1>7. /\ x \in Nat /\ x < N
      /\ IsList(items') /\ Len(items') = N - x
      /\ \A i \in 1 .. N - x : items'[i] = items[i + x]
      /\ counts' \in [Levels -> Nat] /\ counts'[0] > 0
      /\ LevelStart(0)' \in Int /\ LevelStart(0)' >= LevelStart(0) - x
      /\ N - x = LevelEnd(0)' - 1
  <2>1. CASE excess <= 0
    <3>1. items' = items /\ counts' = counts /\ x = 0
      BY <2>1 DEF TrimMaxLevel
    <3>2. LevelStart(0)' = LevelStart(0) /\ LevelEnd(0)' = LevelEnd(0)
      BY <3>1 DEF LevelStart, LevelEnd
    <3>3. counts[0] > 0 /\ N > 0
      BY <1>1, <1>3, LivingFacts DEF Living, NewestIsTick
    <3> QED
      BY <1>3, <1>5, <3>1, <3>2, <3>3
  <2>2. CASE ~(excess <= 0)
    <3>1. /\ items' = Without(items, 1, excess)
          /\ counts' = [counts EXCEPT ![MaxLevel] = @ - excess]
          /\ x = excess /\ excess \in Nat
      BY <1>6, <2>2 DEF TrimMaxLevel
    <3> HIDE DEF x
    <3>a. /\ counts'[MaxLevel] = counts[MaxLevel] - excess
          /\ \A l \in Levels : l # MaxLevel => counts'[l] = counts[l]
          /\ counts' = [l \in Levels |-> counts'[l]]
      BY <1>3, <1>5, <3>1
    <3>b. counts[MaxLevel] - excess \in Nat
      <4>1. maxCount[MaxLevel] \in Nat
        BY <1>3, <1>5, RecalculationAssumption DEF Levels
      <4> QED
        BY <4>1, <1>5 DEF excess
    <3>c. counts' \in [Levels -> Nat]
      <4>1. \A l \in Levels : counts'[l] \in Nat
        BY <1>3, <3>a, <3>b
      <4> QED
        BY <3>a, <4>1
    <3>2. /\ excess < N /\ counts'[0] > 0
          /\ StartOf(counts', 0) \in Int /\ StartOf(counts', 0) >= LevelStart(0) - excess
          /\ N - excess = StartOf(counts', 0) + counts'[0] - 1
      BY <1>1, <3>1, <3>a, <3>c, ExcessIs
    <3>3. LevelStart(0)' = StartOf(counts', 0) /\ LevelEnd(0)' = StartOf(counts', 0) + counts'[0]
      BY DEF LevelStart, LevelEnd
    <3> HIDE DEF excess
    <3>4. 1 \in 1 .. N + 1 /\ excess \in 0 .. N - 1 + 1
      BY <1>3, <3>1, <3>2
    <3>5. /\ IsList(items') /\ Len(items') = N - excess
          /\ \A i \in 1 .. N - excess :
               items'[i] = IF i < 1 THEN items[i] ELSE items[i + excess]
      BY <1>3, <3>1, <3>4, WithoutIs
    <3>6. \A i \in 1 .. N - excess : items'[i] = items[i + excess]
      BY <3>5
    <3>7. /\ x \in Nat /\ x < N /\ counts' \in [Levels -> Nat] /\ counts'[0] > 0
      BY <3>1, <3>2, <3>c
    <3>8. LevelStart(0)' \in Int /\ LevelStart(0)' >= LevelStart(0) - x
      BY <3>1, <3>2, <3>3
    <3>9. N - x = LevelEnd(0)' - 1
      <4>1. counts'[0] \in Nat
        BY <1>5, <3>c
      <4> QED
        BY <3>1, <3>2, <3>3, <4>1
    <3> QED
      BY <3>1, <3>5, <3>6, <3>7, <3>8, <3>9
  <2> QED
    BY <2>1, <2>2
<1> HIDE DEF x, excess
<1>8. /\ DOMAIN items' = 1 .. N - x
      /\ \A i \in 1 .. N - x : i + x \in 1 .. N
  BY <1>3, <1>7, ListFacts
<1>9. items' # <<>>
  BY <1>3, <1>7
<1>10. EntityShapes'
  <2>1. \A i \in DOMAIN items' : IsCandle(items'[i])
    BY <1>3, <1>7, <1>8
  <2> QED
    BY <1>2, <1>3, <1>5, <1>7, <1>9, <2>1 DEF EntityShapes, Candles, IsCandle
<1>11. NewestIsTick'
  <2>1. NewestIsTick
    BY <1>1 DEF Living
  <2>2. items'[Len(items')] = items[N]
    <3>1. N - x \in 1 .. N - x /\ (N - x) + x = N
      BY <1>3, <1>7
    <3> QED
      BY <1>7, <3>1
  <2>3. \A i \in DOMAIN items' : i >= LevelStart(0)' => items'[i].startedAt = items'[i].endedAt
    <3> TAKE i \in DOMAIN items'
    <3> HAVE i >= LevelStart(0)'
    <3>1. i \in 1 .. N - x /\ i + x \in 1 .. N /\ items'[i] = items[i + x]
      BY <1>7, <1>8
    <3>2. i + x >= LevelStart(0)
      BY <1>3, <1>5, <1>7, <3>1
    <3> QED
      BY <1>3, <2>1, <3>1, <3>2 DEF NewestIsTick
  <2>4. items'[Len(items')].endedAt = now' /\ counts'[0] > 0
    BY <1>2, <1>3, <1>7, <2>1, <2>2 DEF NewestIsTick
  <2> QED
    BY <1>4, <2>3, <2>4 DEF NewestIsTick
<1>12. AllSpanned'
  <2>1. \A i \in DOMAIN items' : Spanned(items'[i])
    BY <1>1, <1>3, <1>7, <1>8 DEF Living, AllSpanned
  <2> QED
    BY <2>1 DEF AllSpanned, Spanned
<1>13. ASSUME NEW i \in 2 .. N - x
       PROVE  /\ i \in 1 .. N - x /\ i - 1 \in 1 .. N - x
              /\ i + x \in 2 .. N /\ i + x \in 1 .. N /\ (i - 1) + x = (i + x) - 1
              /\ items'[i] = items[i + x] /\ items'[i - 1] = items[(i + x) - 1]
              /\ i > 2 => i + x > 2 /\ items'[i - 2] = items[(i + x) - 2]
  <2>1. /\ i \in 1 .. N - x /\ i - 1 \in 1 .. N - x
        /\ i + x \in 2 .. N /\ i + x \in 1 .. N /\ (i - 1) + x = (i + x) - 1
        /\ i > 2 => i + x > 2 /\ i - 2 \in 1 .. N - x /\ (i - 2) + x = (i + x) - 2
    BY <1>3, <1>7
  <2> QED
    BY <1>7, <2>1
<1>14. Ordered(g)'
  <2> SUFFICES ASSUME NEW i \in 2 .. N - x
               PROVE  /\ items'[i - 1].endedAt < items'[i].startedAt
                      /\ i > LevelStart(0)' => items'[i].endedAt >= items'[i - 1].endedAt + g
    BY <1>4, <1>7 DEF Ordered
  <2>1. /\ items[(i + x) - 1].endedAt < items[i + x].startedAt
        /\ i + x > LevelStart(0) => items[i + x].endedAt >= items[(i + x) - 1].endedAt + g
    <3>1. \A m \in 2 .. N :
            /\ items[m - 1].endedAt < items[m].startedAt
            /\ m > LevelStart(0) => items[m].endedAt >= items[m - 1].endedAt + g
      BY <1>1, <1>4 DEF Living, Ordered
    <3>2. i + x \in 2 .. N
      BY <1>13
    <3> QED
      BY <3>1, <3>2
  <2>2. i > LevelStart(0)' => i + x > LevelStart(0)
    BY <1>3, <1>5, <1>7
  <2> QED
    BY <1>13, <2>1, <2>2
<1>15. RecordsRight'
  <2>1. DOMAIN deleted' = {} /\ IsList(deleted') /\ transitory' = {}
    BY <1>2, <1>4
  <2> QED
    BY <1>2, <1>4, <2>1 DEF RecordsRight, IsList
<1>16. CandlesRight'
  <2>1. CandlesRight
    BY <1>1 DEF Living
  <2>2. \A i \in DOMAIN items' : items'[i].price # NaN /\ items'[i].speed # NaN
    BY <1>3, <1>4, <1>7, <1>8, <2>1 DEF CandlesRight
  <2>3. ASSUME NEW i \in 2 .. Len(items')
        PROVE  SpeedOK(items', i) /\ AccelerationOK(items', i)
    <3>1. SpeedOK(items, i + x) /\ AccelerationOK(items, i + x)
      BY <1>4, <1>7, <1>13, <2>1 DEF CandlesRight
    <3>2. BehindAggregate(items, i + x) => BehindAggregate(items', i)
      BY <1>7, <1>13 DEF BehindAggregate
    <3>3. items'[i] = items[i + x] /\ items'[i - 1] = items[(i + x) - 1]
      <4>1. i \in 2 .. N - x
        BY <1>7
      <4> QED
        BY <1>13, <4>1
    <3> QED
      BY <3>1, <3>2, <3>3, CandleMoves
  <2> QED
    BY <2>2, <2>3 DEF CandlesRight
<1>17. IndicatorsRight'
  <2>1. IndicatorsRight
    BY <1>1 DEF Living
  <2>2. \A i \in DOMAIN items' : items'[i].filter # Null
    BY <1>3, <1>4, <1>7, <1>8, <2>1 DEF IndicatorsRight
  <2>3. ASSUME NEW i \in DOMAIN items', i > 1
        PROVE  /\ EmaOK(items', i, seeded')
               /\ items'[i].filter = NextFilter(FilterOf(items'[i - 1]), items'[i])
               /\ items'[i].marketPhase = NextPhase(items'[i - 1], items'[i])
    <3>1. i \in 2 .. N - x /\ i \in Nat
      BY <1>3, <1>7, <1>8, <2>3
    <3>2. /\ EmaOK(items, i + x, seeded)
          /\ items[i + x].filter = NextFilter(FilterOf(items[(i + x) - 1]), items[i + x])
          /\ items[i + x].marketPhase = NextPhase(items[(i + x) - 1], items[i + x])
      <4>1. \A m \in 2 .. N :
              /\ EmaOK(items, m, seeded)
              /\ items[m].filter = NextFilter(FilterOf(items[m - 1]), items[m])
              /\ items[m].marketPhase = NextPhase(items[m - 1], items[m])
        BY <1>3, <1>4, <2>1 DEF IndicatorsRight
      <4>2. i + x \in 2 .. N
        BY <1>13, <3>1
      <4> QED
        BY <4>1, <4>2
    <3>3. \A j \in 1 .. i : items'[j] = items[j + x]
      BY <1>3, <1>7, <3>1
    <3>4. EmaOK(items', i, seeded')
      BY <1>2, <1>7, <2>3, <3>1, <3>2, <3>3, EmaMoves
    <3> QED
      BY <1>13, <3>1, <3>2, <3>4
  <2> QED
    BY <2>2, <2>3 DEF IndicatorsRight
<1>18. StatesRight'
  <2>1. StatesRight
    BY <1>1 DEF Living
  <2>2. Newest = N /\ Newest' = N - x
    BY <1>4, <1>7 DEF Newest
  <2>3. N - x > 0 /\ items'[N - x] = items[N]
    <3>1. N - x \in 1 .. N - x /\ (N - x) + x = N
      BY <1>3, <1>7
    <3> QED
      BY <1>7, <3>1
  <2> QED
    BY <1>2, <2>1, <2>2, <2>3 DEF StatesRight
<1> QED
  BY <1>1, <1>2, <1>10, <1>11, <1>12, <1>14, <1>15, <1>16, <1>17, <1>18 DEF EntitiesInv, Living

-----------------------------------------------------------------------------
(* Entities: a bucket becomes an item of the next level.                   *)

\* Where a level begins depends on the levels above it only.
LEMMA StartsSame ==
  ASSUME NEW c \in [Levels -> Nat], NEW d \in [Levels -> Nat], NEW l \in Levels,
         \A k \in Levels : k > l => d[k] = c[k]
  PROVE  StartOf(d, l) = StartOf(c, l)
<1> DEFINE M == MaxLevel
           G == {m \in Nat : m <= M - l => StartOf(d, M - m) = StartOf(c, M - m)}
<1>0. M \in Nat /\ Levels = 0 .. M
  BY RecalculationAssumption DEF Levels, MaxLevel
<1>a. /\ StartOf(c, M) = 1 /\ StartOf(d, M) = 1
      /\ \A i \in Levels : i # M => StartOf(c, i) = StartOf(c, i + 1) + c[i + 1]
      /\ \A i \in Levels : i # M => StartOf(d, i) = StartOf(d, i + 1) + d[i + 1]
  BY StartOfIs
<1> HIDE DEF M
<1>1. 0 \in G
  <2>1. M - 0 = M
    BY <1>0
  <2> QED
    BY <2>1, <1>a
<1>2. ASSUME NEW m \in G PROVE m + 1 \in G
  <2> SUFFICES ASSUME m + 1 <= M - l PROVE StartOf(d, M - (m + 1)) = StartOf(c, M - (m + 1))
    OBVIOUS
  <2>1. /\ M - (m + 1) \in Levels /\ M - (m + 1) # M /\ (M - (m + 1)) + 1 = M - m
        /\ M - m \in Levels /\ m <= M - l /\ M - m > l
    BY <1>0
  <2>2. StartOf(d, M - m) = StartOf(c, M - m) /\ d[M - m] = c[M - m]
    BY <2>1
  <2> QED
    BY <2>1, <2>2, <1>a
<1>3. G = Nat
  <2> HIDE DEF G
  <2>1. G \in SUBSET Nat
    BY DEF G
  <2> QED
    BY <1>1, <1>2, <2>1, SetInduction
<1>4. M - l \in Nat /\ M - l <= M - l /\ M - (M - l) = l
  BY <1>0
<1>5. M - l \in G
  <2> HIDE DEF G
  <2> QED
    BY <1>3, <1>4
<1> QED
  BY <1>4, <1>5

\* Where the levels begin when some items of one have become an item of the
\* next.
LEMMA BucketLevels ==
  ASSUME counts \in [Levels -> Nat], level \in Levels, level < MaxLevel,
         NEW count \in 1 .. counts[level], NEW d \in [Levels -> Nat],
         d[level] = counts[level] - count, d[level + 1] = counts[level + 1] + 1,
         \A l \in Levels : l # level /\ l # level + 1 => d[l] = counts[l]
  PROVE  /\ StartOf(d, level) = LevelStart(level) + 1
         /\ level = 0 => StartOf(d, 0) = LevelStart(0) + 1
         /\ level > 0 => StartOf(d, 0) = LevelStart(0) + (1 - count) /\ d[0] = counts[0]
<1>1. /\ MaxLevel \in Nat /\ Levels = 0 .. MaxLevel
      /\ level + 1 \in Levels /\ level # MaxLevel /\ level \in Nat
  <2>1. MaxLevel \in Nat /\ Levels = 0 .. MaxLevel
    BY LevelFacts
  <2> QED
    BY <2>1
<1>2. StartOf(d, level + 1) = StartOf(counts, level + 1)
  <2>1. \A k \in Levels : k > level + 1 => d[k] = counts[k]
    BY <1>1
  <2> QED
    BY <1>1, <2>1, StartsSame
<1>3. /\ StartOf(d, level) = StartOf(d, level + 1) + d[level + 1]
      /\ StartOf(counts, level) = StartOf(counts, level + 1) + counts[level + 1]
  BY <1>1, StartOfIs
<1>4. /\ StartOf(counts, level + 1) \in Nat /\ counts[level + 1] \in Nat
      /\ counts[level] \in Nat /\ StartOf(counts, level) \in Nat
  BY <1>1, StartOfType
<1>5. StartOf(d, level) = StartOf(counts, level) + 1
  BY <1>2, <1>3, <1>4
<1>6. CASE level = 0
  BY <1>5, <1>6 DEF LevelStart
<1>7. CASE level > 0
  <2> DEFINE k == level - 1
             y == 1 - count
  <2>1. k \in Levels /\ k # MaxLevel /\ k + 1 = level /\ 0 \in 0 .. k
    BY <1>1, <1>7
  <2>2. /\ StartOf(d, k) = StartOf(d, level) + d[level]
        /\ StartOf(counts, k) = StartOf(counts, level) + counts[level]
    BY <2>1, StartOfIs
  <2>3. StartOf(d, k) = StartOf(counts, k) + y /\ y \in Int
    BY <1>4, <1>5, <2>2
  <2>4. \A i \in 1 .. k : d[i] = counts[i]
    BY <1>1, <2>1
  <2> HIDE DEF k, y
  <2>5. \A i \in 0 .. k : StartOf(d, i) = StartOf(counts, i) + y
    BY <2>1, <2>3, <2>4, StartsShift
  <2>6. StartOf(d, 0) = LevelStart(0) + y
    BY <2>1, <2>5 DEF LevelStart
  <2>7. d[0] = counts[0]
    BY <1>1, <1>7
  <2> QED
    BY <1>5, <1>7, <2>6, <2>7 DEF LevelStart, y
<1> QED
  BY <1>1, <1>6, <1>7

\* How far the span of the first n items of the level misses the duration.
MissedBy(n) ==
  Distance(items[LevelStart(level) + n - 1].endedAt - items[LevelStart(level)].startedAt,
           Duration[level + 1])

\* The first bucket is no longer than any length that is not bettered by one
\* item more.
LEMMA BucketCountIs ==
  ASSUME counts[level] \in Nat \ {0}
  PROVE  /\ FirstBucketCount \in 1 .. counts[level]
         /\ \A m \in 1 .. counts[level] :
              MissedBy(m + 1) >= MissedBy(m) => FirstBucketCount <= m
<1> DEFINE S == {n \in 1 .. counts[level] :
                   n = counts[level] \/ MissedBy(n + 1) >= MissedBy(n)}
<1>1. FirstBucketCount = CHOOSE x \in S : \A y \in S : x <= y
  BY DEF FirstBucketCount, MissedBy, Min
<1>2. counts[level] \in S /\ S \in SUBSET Nat
  OBVIOUS
<1>3. \A m \in 1 .. counts[level] : MissedBy(m + 1) >= MissedBy(m) => m \in S
  OBVIOUS
<1>4. \A x \in S : x \in 1 .. counts[level]
  OBVIOUS
<1> HIDE DEF S
<1>5. \E x \in S : \A y \in S : x <= y
  BY <1>2, LeastOf
<1>6. FirstBucketCount \in S /\ \A y \in S : FirstBucketCount <= y
  BY <1>1, <1>5
<1> QED
  BY <1>3, <1>4, <1>6

\* A bucket of ticks is not all of them.
LEMMA BucketLeavesTick ==
  ASSUME NEW g, LevelZeroFits(g), Living(g), phase = "aggregate", level = 0,
         level < MaxLevel, counts[0] >= maxCount[0]
  PROVE  FirstBucketCount < counts[0]
<1> DEFINE L == LevelStart(0)
           c == counts[0]
           r == maxCount[0]
           D == Duration[1]
           S == items[L].startedAt
           N == Len(items)
<1>1. /\ N \in Nat /\ DOMAIN items = 1 .. N
      /\ counts \in [Levels -> Nat] /\ N = LevelEnd(0) - 1 /\ maxCount \in Releases
      /\ \A i \in 1 .. N : IsCandle(items[i])
  BY LivingFacts
<1>2. /\ L \in Nat \ {0} /\ c \in Nat /\ LevelEnd(0) = L + c
      /\ MaxLevel \in Nat /\ Levels = 0 .. MaxLevel
  BY <1>1, LevelFacts
<1>3. NumberOfLevels > 1 /\ 1 \in 0 .. NumberOfLevels - 1 /\ 0 \in 0 .. NumberOfLevels - 1
  BY RecalculationAssumption DEF MaxLevel
<1>4. r \in Nat \ {0} /\ D \in Nat /\ g \in Nat \ {0} /\ c >= r
  BY <1>1, <1>3, RecalculationAssumption DEF LevelZeroFits
<1>5. (r - 2) * g >= D
  BY <1>1, <1>3 DEF LevelZeroFits
<1>6. Ordered(g) /\ NewestIsTick /\ ~Fresh
  BY DEF Living, Fresh
<1>7. N = L + c - 1 /\ \A i \in 1 .. N : items[i].startedAt \in Int /\ items[i].endedAt \in Int
  BY <1>1, <1>2 DEF IsCandle
<1>8. \A i \in 2 .. N : i > L => items[i].endedAt >= items[i - 1].endedAt + g
  BY <1>6 DEF Ordered
<1>9. c > 0 => items[L].endedAt = S
  BY <1>1, <1>2, <1>6, <1>7 DEF NewestIsTick
<1> HIDE DEF L, c, r, D, N, S
<1>10. r >= 2
  BY <1>4, <1>5
<1> DEFINE G == {m \in Nat : m + 1 <= c => items[L + m].endedAt >= S + m * g}
<1>11. 0 \in G
  <2>1. L + 0 = L /\ 0 * g = 0 /\ L \in 1 .. N /\ c > 0
    BY <1>2, <1>4, <1>7, <1>10
  <2>2. items[L].endedAt \in Int /\ items[L].endedAt = S
    BY <1>7, <1>9, <2>1
  <2> QED
    BY <2>1, <2>2
<1>12. ASSUME NEW m \in G PROVE m + 1 \in G
  <2> SUFFICES ASSUME (m + 1) + 1 <= c PROVE items[L + (m + 1)].endedAt >= S + (m + 1) * g
    OBVIOUS
  <2>0. m \in Nat
    OBVIOUS
  <2> DEFINE i == L + (m + 1)
  <2>1. i \in 2 .. N /\ i > L /\ i - 1 = L + m /\ i \in 1 .. N /\ i - 1 \in 1 .. N /\ m + 1 <= c
    BY <1>2, <1>7, <2>0
  <2>2. items[i - 1].endedAt >= S + m * g
    BY <2>1
  <2> HIDE DEF i, G
  <2>3. items[i].endedAt >= items[i - 1].endedAt + g
    BY <1>8, <2>1
  <2>4. /\ items[i].endedAt \in Int /\ items[i - 1].endedAt \in Int
    BY <1>7, <2>1
  <2>5. S \in Int
    <3>1. L \in 1 .. N
      BY <1>1, <1>2, <2>1 DEF N
    <3> QED
      BY <1>7, <3>1 DEF S
  <2>6. (m + 1) * g = m * g + g /\ m * g \in Int
    BY <1>4, <2>0
  <2>7. items[i].endedAt >= S + (m + 1) * g
    BY <1>4, <2>2, <2>3, <2>4, <2>5, <2>6
  <2> QED
    BY <2>7 DEF i
<1>13. G = Nat
  <2> HIDE DEF G
  <2>1. G \in SUBSET Nat
    BY DEF G
  <2> QED
    BY <1>11, <1>12, <2>1, SetInduction
<1>14. /\ c - 2 \in Nat /\ (c - 2) + 1 <= c /\ c - 1 \in 1 .. c
       /\ L + (c - 2) \in 1 .. N /\ L + (c - 1) \in 1 .. N /\ L + (c - 1) \in 2 .. N
       /\ L + (c - 1) > L /\ (L + (c - 1)) - 1 = L + (c - 2) /\ L \in 1 .. N
  BY <1>2, <1>4, <1>7, <1>10
<1>15. items[L + (c - 2)].endedAt >= S + (c - 2) * g
  <2>1. c - 2 \in G
    <3> HIDE DEF G
    <3> QED
      BY <1>13, <1>14
  <2> QED
    BY <1>14, <2>1
<1> HIDE DEF G
<1>16. (c - 2) * g >= (r - 2) * g /\ (c - 2) * g \in Int
  <2>1. (c - 2) * g = (r - 2) * g + (c - r) * g
    BY <1>2, <1>4
  <2>2. c - r \in Nat /\ (c - r) * g >= 0 /\ (c - r) * g \in Int /\ (r - 2) * g \in Int
    BY <1>2, <1>4
  <2> QED
    BY <2>1, <2>2
<1>17. items[L + (c - 1)].endedAt >= items[L + (c - 2)].endedAt + g
  BY <1>8, <1>14
<1>18. /\ items[L + (c - 1)].endedAt \in Int /\ items[L + (c - 2)].endedAt \in Int
       /\ S \in Int
  BY <1>7, <1>14 DEF S
<1>19. /\ items[L + (c - 2)].endedAt - S >= D
       /\ items[L + (c - 1)].endedAt - S >= items[L + (c - 2)].endedAt - S
  BY <1>4, <1>5, <1>15, <1>16, <1>17, <1>18
<1>20. Distance(items[L + (c - 1)].endedAt - S, D) >= Distance(items[L + (c - 2)].endedAt - S, D)
  BY <1>4, <1>18, <1>19 DEF Distance
<1>21. MissedBy((c - 1) + 1) >= MissedBy(c - 1)
  <2>1. ((c - 1) + 1) - 1 = c - 1 /\ (c - 1) - 1 = c - 2 /\ 0 + 1 = 1
    BY <1>2
  <2>2. MissedBy((c - 1) + 1) = Distance(items[L + (c - 1)].endedAt - S, D)
    BY <2>1 DEF MissedBy, L, S, D
  <2>3. MissedBy(c - 1) = Distance(items[L + (c - 2)].endedAt - S, D)
    BY <2>1 DEF MissedBy, L, S, D
  <2> QED
    BY <1>20, <2>2, <2>3
<1>22. counts[level] = c /\ c \in Nat \ {0}
  BY <1>2, <1>4, <1>10 DEF c
<1>23. FirstBucketCount <= c - 1 /\ FirstBucketCount \in 1 .. c
  BY <1>14, <1>21, <1>22, BucketCountIs
<1> QED
  BY <1>22, <1>23 DEF c

\* The candle that stands for several has their span, and for one it is that.
LEMMA AggregateIs ==
  ASSUME NEW c, Candles(c), Len(c) > 0, \A j \in 1 .. Len(c) : Spanned(c[j]),
         Len(c) > 1 => c[1].startedAt < c[Len(c)].endedAt
  PROVE  LET a == Aggregate(c)
         IN  /\ IsCandle(a) /\ Spanned(a)
             /\ a.startedAt = c[1].startedAt /\ a.endedAt = c[Len(c)].endedAt
             /\ Len(c) = 1 => a.receivedAt = c[1].receivedAt /\ a.price = c[1].price
<1>1. /\ Len(c) \in Nat /\ DOMAIN c = 1 .. Len(c) /\ c \in Seq(Range(c))
      /\ \A j \in 1 .. Len(c) : IsCandle(c[j])
  BY ListFacts DEF Candles, IsList
<1>2. CASE Len(c) = 1
  <2> DEFINE r == c[1]
             i == Item(r.receivedAt, r.startedAt, r.endedAt, r.price)
             a == [i EXCEPT !.speed = r.speed, !.acceleration = r.acceleration]
  <2>1. Aggregate(c) = a
    BY <1>2 DEF Aggregate
  <2>2. IsCandle(r) /\ Spanned(r)
    BY <1>1, <1>2
  <2> HIDE DEF r
  <2>3. /\ IsCandle(i) /\ i.receivedAt = r.receivedAt /\ i.startedAt = r.startedAt
        /\ i.endedAt = r.endedAt /\ i.price = r.price
    BY <2>2 DEF IsCandle, Item
  <2>4. /\ IsCandle(a) /\ Spanned(a) /\ a.startedAt = r.startedAt /\ a.endedAt = r.endedAt
        /\ a.receivedAt = r.receivedAt /\ a.price = r.price
    <3>1. ASSUME NEW q, q = i, NEW t, t = a, NEW y, y = r.speed, NEW z, z = r.acceleration
          PROVE  /\ IsCandle(t) /\ t.startedAt = q.startedAt /\ t.endedAt = q.endedAt
                 /\ t.receivedAt = q.receivedAt /\ t.price = q.price
      <4>1. t = [q EXCEPT !.speed = y, !.acceleration = z]
        BY <3>1, Zenon
      <4>2. IsCandle(q)
        BY <2>3, <3>1
      <4> HIDE <3>1
      <4> DEFINE Names == {"receivedAt", "startedAt", "endedAt", "price", "speed",
                            "acceleration", "ema", "filter", "marketPhase"}
      <4>3. DOMAIN q = Names
        BY <4>2 DEF IsCandle
      <4>4. t = [k \in Names |-> t[k]]
        BY <4>1, <4>3
      <4>5. /\ t.startedAt = q.startedAt /\ t.endedAt = q.endedAt
            /\ t.receivedAt = q.receivedAt /\ t.price = q.price
        BY <4>1, <4>3
      <4>6. q.receivedAt \in Int /\ q.startedAt \in Int /\ q.endedAt \in Int
        BY <4>2 DEF IsCandle
      <4> QED
        BY <4>4, <4>5, <4>6 DEF IsCandle
    <3> HIDE DEF a, i
    <3>2. /\ IsCandle(a) /\ a.startedAt = i.startedAt /\ a.endedAt = i.endedAt
          /\ a.receivedAt = i.receivedAt /\ a.price = i.price
      BY <3>1
    <3> QED
      BY <2>2, <2>3, <3>2 DEF Spanned
  <2> QED
    BY <1>2, <2>1, <2>4 DEF r
<1>3. CASE Len(c) > 1
  <2> DEFINE from == c[1].startedAt
             to == c[Len(c)].endedAt
             at == from + (to - from + 1) \div 2
             a == Item(at, from, to, NaN)
  <2>1. c # <<>> /\ Head(c) = c[1] /\ Last(c) = c[Len(c)]
    BY <1>1, <1>3 DEF Last
  <2>2. Aggregate(c) = a
    BY <1>3, <2>1 DEF Aggregate
  <2>3. from \in Int /\ to \in Int /\ from < to
    BY <1>1, <1>3 DEF IsCandle
  <2> HIDE DEF from, to
  <2>4. at \in Int /\ from <= at /\ at <= to
    BY <2>3
  <2> HIDE DEF at
  <2>5. IsCandle(a) /\ Spanned(a) /\ a.startedAt = from /\ a.endedAt = to
    BY <2>3, <2>4 DEF IsCandle, Spanned, Item
  <2> QED
    BY <1>3, <2>2, <2>5 DEF from, to
<1> QED
  BY <1>1, <1>2, <1>3

\* Records before the place of a bucket stay as they are.
LEMMA RecordsStay ==
  ASSUME NEW rs, IsList(rs), NEW at \in Int, NEW count,
         \A k \in DOMAIN rs :
           /\ rs[k] = [index |-> rs[k].index, values |-> rs[k].values]
           /\ rs[k].index \in Int /\ rs[k].index <= at
  PROVE  DeletedAfterInsert(DeletedAfterDelete(rs, at, count), at) = rs
<1>1. \A k \in DOMAIN rs : [rs[k] EXCEPT !.index = rs[k].index] = rs[k]
  <2> TAKE k \in DOMAIN rs
  <2> DEFINE r == rs[k]
  <2>1. r = [index |-> r.index, values |-> r.values]
    OBVIOUS
  <2> HIDE DEF r
  <2>2. [r EXCEPT !.index = r.index] = r
    BY <2>1
  <2> QED
    BY <2>2 DEF r
<1>2. \A k \in DOMAIN rs : ~(rs[k].index > at)
  OBVIOUS
<1>3. rs = [k \in DOMAIN rs |-> rs[k]]
  <2>1. rs = [k \in 1 .. Len(rs) |-> rs[k]] /\ DOMAIN rs = 1 .. Len(rs)
    BY ListFacts
  <2> QED
    BY <2>1
<1>4. DeletedAfterDelete(rs, at, count) = rs
  <2>1. DeletedAfterDelete(rs, at, count) = [k \in DOMAIN rs |-> rs[k]]
    BY <1>1, <1>2 DEF DeletedAfterDelete
  <2> QED
    BY <1>3, <2>1
<1>5. DeletedAfterInsert(rs, at) = rs
  <2>1. DeletedAfterInsert(rs, at) = [k \in DOMAIN rs |-> rs[k]]
    BY <1>1, <1>2 DEF DeletedAfterInsert
  <2> QED
    BY <1>3, <2>1
<1> QED
  BY <1>4, <1>5

\* Items follow each other in time.
LEMMA OrderTransitive ==
  ASSUME NEW g, Living(g), ~Fresh, NEW a \in 1 .. Len(items), NEW b \in 1 .. Len(items), a < b
  PROVE  items[a].endedAt < items[b].startedAt
<1> DEFINE N == Len(items)
           G == {m \in Nat : a + (m + 1) <= N => items[a].endedAt < items[a + (m + 1)].startedAt}
<1>1. /\ N \in Nat /\ DOMAIN items = 1 .. N
      /\ \A i \in 1 .. N : items[i].startedAt \in Int /\ items[i].endedAt \in Int
  BY LivingFacts DEF IsCandle
<1>2. \A i \in 1 .. N : items[i].startedAt <= items[i].endedAt
  <2> TAKE i \in 1 .. N
  <2>1. Spanned(items[i]) /\ IsCandle(items[i])
    BY <1>1, LivingFacts DEF Living, AllSpanned
  <2> QED
    BY <2>1 DEF Spanned, IsCandle
<1>3. \A i \in 2 .. N : items[i - 1].endedAt < items[i].startedAt
  BY DEF Living, Ordered
<1> HIDE DEF N
<1>4. 0 \in G
  <2> SUFFICES ASSUME a + (0 + 1) <= N
               PROVE  items[a].endedAt < items[a + (0 + 1)].startedAt
    OBVIOUS
  <2>1. a + (0 + 1) \in 2 .. N /\ (a + (0 + 1)) - 1 = a
    BY <1>1 DEF N
  <2> QED
    BY <1>3, <2>1
<1>5. ASSUME NEW m \in G PROVE m + 1 \in G
  <2> SUFFICES ASSUME a + ((m + 1) + 1) <= N
               PROVE  items[a].endedAt < items[a + ((m + 1) + 1)].startedAt
    OBVIOUS
  <2>0. m \in Nat /\ (a + (m + 1) <= N => items[a].endedAt < items[a + (m + 1)].startedAt)
    OBVIOUS
  <2> HIDE DEF G
  <2> DEFINE i == a + ((m + 1) + 1)
  <2>1. /\ i \in 2 .. N /\ i \in 1 .. N /\ i - 1 = a + (m + 1) /\ i - 1 \in 1 .. N
        /\ a + (m + 1) <= N /\ a \in 1 .. N
    <3>1. a \in 1 .. N /\ N \in Nat /\ m \in Nat
      BY <1>1, <2>0 DEF N
    <3> QED
      BY <3>1
  <2>2. items[a].endedAt < items[i - 1].startedAt
    BY <2>0, <2>1
  <2> HIDE DEF i
  <2>3. items[i - 1].startedAt <= items[i - 1].endedAt /\ items[i - 1].endedAt < items[i].startedAt
    BY <1>2, <1>3, <2>1
  <2>4. items[a].endedAt < items[i].startedAt
    BY <1>1, <2>1, <2>2, <2>3
  <2> QED
    BY <2>4 DEF i
<1>6. G = Nat
  <2> HIDE DEF G
  <2>1. G \in SUBSET Nat
    BY DEF G
  <2> QED
    BY <1>4, <1>5, <2>1, SetInduction
<1>7. (b - a) - 1 \in Nat /\ a + (((b - a) - 1) + 1) = b /\ b <= N
  BY <1>1 DEF N
<1>8. (b - a) - 1 \in G
  <2> HIDE DEF G
  <2> QED
    BY <1>6, <1>7
<1> QED
  BY <1>7, <1>8

LEMMA AggregateBucketKeeps ==
  ASSUME NEW g, LevelZeroFits(g), EntitiesInv(g), AggregateBucket PROVE EntitiesInv(g)'
<1> DEFINE N == Len(items)
           start == LevelStart(level)
           count == FirstBucketCount
           last == start + count - 1
           candles == SubSeq(items, start, last)
           a == Aggregate(candles)
           record == [index |-> start, values |-> candles]
           M == N - count + 1
<1>1. Living(g) /\ phase = "aggregate" /\ ~reported /\ level < MaxLevel
      /\ counts[level] >= maxCount[level] /\ ~Fresh
  BY DEF EntitiesInv, AggregateBucket, Fresh
<1>2. /\ items' = InsertAt(Without(items, start, count), start, a)
      /\ counts' = [counts EXCEPT ![level] = @ - count, ![level + 1] = @ + 1]
      /\ transitory' = ChangedAfterInsert(ChangedAfterDelete(transitory, start, count), start)
      /\ deleted' = DeletedAfterInsert(
                      DeletedAfterDelete(Append(deleted, record), start, count), start)
      /\ UNCHANGED <<phase, level, maxCount, emaState, filterState, now, seeded, reported>>
  BY DEF AggregateBucket, states
<1>3. /\ IsList(items) /\ N \in Nat /\ DOMAIN items = 1 .. N
      /\ \A i \in 1 .. N : IsCandle(items[i])
      /\ counts \in [Levels -> Nat] /\ N = LevelEnd(0) - 1
      /\ level \in Levels /\ maxCount \in Releases /\ now \in Int
      /\ transitory \subseteq 1 .. N
  BY <1>1, LivingFacts
<1>4. /\ MaxLevel \in Nat /\ Levels = 0 .. MaxLevel /\ 0 \in Levels
      /\ start \in Nat \ {0} /\ counts[level] \in Nat /\ counts[0] \in Nat
      /\ LevelStart(0) \in Nat \ {0}
      /\ level > 0 => start + counts[level] <= LevelStart(0)
      /\ LevelEnd(0) = LevelStart(0) + counts[0]
  BY <1>3, LevelFacts
<1>5. /\ counts[0] > 0 /\ NewestIsTick /\ AllSpanned /\ Ordered(g) /\ RecordsRight
      /\ CandlesRight /\ IndicatorsRight /\ StatesRight
  <2>1. items # <<>>
    BY <1>1 DEF Living, EntityShapes
  <2> QED
    BY <1>1, <2>1 DEF Living, NewestIsTick
<1>6. counts[level] \in Nat \ {0}
  <2>1. maxCount[level] \in Nat \ {0}
    BY <1>3, RecalculationAssumption DEF Levels
  <2> QED
    BY <1>1, <1>4, <2>1
<1>7. count \in 1 .. counts[level] /\ (level = 0 => count < counts[0])
  BY <1>1, <1>6, BucketCountIs, BucketLeavesTick
<1> HIDE DEF count, start
<1>8. /\ count \in Nat \ {0} /\ start + count <= N /\ start \in 1 .. N
      /\ count \in 1 .. N - start + 1 /\ last \in start .. N /\ last + 1 \in 1 .. N
      /\ last \in Nat /\ (last - start) + 1 = count
      /\ M \in Nat /\ start < M /\ start \in 1 .. M /\ last \in 1 .. N
  <2>1. N = LevelStart(0) + counts[0] - 1
    BY <1>3, <1>4
  <2>2. start + count <= N
    <3>1. CASE level = 0
      BY <1>3, <1>4, <1>7, <2>1, <3>1 DEF start
    <3>2. CASE level > 0
      BY <1>3, <1>4, <1>5, <1>7, <2>1, <3>2
    <3> QED
      BY <1>3, <1>4, <3>1, <3>2
  <2> QED
    BY <1>3, <1>4, <1>7, <2>2
<1>a. /\ N \in Nat /\ count \in Nat \ {0} /\ start \in Nat \ {0} /\ start + count <= N
      /\ M = (N - count) + 1 /\ last = start + (count - 1)
  BY <1>3, <1>4, <1>8
<1>9. /\ IsList(items') /\ Len(items') = M /\ DOMAIN items' = 1 .. M
      /\ \A i \in 1 .. M :
           items'[i] = IF i < start THEN items[i] ELSE IF i = start THEN a
                       ELSE items[i + count - 1]
  <2>1. /\ IsList(items') /\ Len(items') = N - count + 1
        /\ \A i \in 1 .. N - count + 1 :
             items'[i] = IF i < start THEN items[i] ELSE IF i = start THEN a
                         ELSE items[i + count - 1]
    <3> HIDE DEF a, N
    <3>1. start \in 1 .. Len(items) /\ count \in 1 .. Len(items) - start + 1
      BY <1>8 DEF N
    <3>2. items' = InsertAt(Without(items, start, count), start, a)
      BY <1>2
    <3>3. LET r == InsertAt(Without(items, start, count), start, a)
          IN  /\ IsList(r) /\ Len(r) = Len(items) - count + 1
              /\ \A i \in 1 .. Len(items) - count + 1 :
                   r[i] = IF i < start THEN items[i] ELSE IF i = start THEN a
                          ELSE items[i + count - 1]
      BY <1>3, <3>1, BucketIs
    <3> QED
      BY <3>2, <3>3 DEF N
  <2> QED
    BY <2>1, ListFacts
<1>10. /\ Candles(candles) /\ Len(candles) = count /\ DOMAIN candles = 1 .. count
       /\ \A k \in 1 .. count : /\ candles[k] = items[start + k - 1]
                                /\ start + k - 1 \in start .. last
                                /\ start + k - 1 \in 1 .. N
       /\ candles[1] = items[start] /\ candles[count] = items[last]
  <2>1. start \in 1 .. Len(items) + 1 /\ last \in start - 1 .. Len(items)
    BY <1>3, <1>8
  <2>2. /\ IsList(candles) /\ Len(candles) = last - start + 1
        /\ DOMAIN candles = 1 .. last - start + 1
        /\ \A k \in 1 .. last - start + 1 : candles[k] = items[start + k - 1]
    <3> HIDE DEF last
    <3> QED
      BY <1>3, <2>1, SubSeqIs
  <2>3. \A k \in 1 .. count : start + k - 1 \in start .. last /\ start + k - 1 \in 1 .. N
    BY <1>4, <1>8
  <2> HIDE DEF candles
  <2>4. 1 \in 1 .. count /\ count \in 1 .. count /\ start + 1 - 1 = start
        /\ start + count - 1 = last
    BY <1>4, <1>8
  <2>5. \A k \in 1 .. count : candles[k] = items[start + k - 1]
    BY <1>8, <2>2
  <2>6. candles[1] = items[start] /\ candles[count] = items[last]
    BY <2>4, <2>5
  <2>7. \A k \in DOMAIN candles : IsCandle(candles[k])
    BY <1>3, <1>8, <2>2, <2>3, <2>5
  <2> QED
    BY <1>8, <2>2, <2>3, <2>5, <2>6, <2>7 DEF Candles
<1> HIDE DEF candles, M, last
<1>11. \A i \in transitory : i \in 1 .. N /\ i < start
  BY <1>1, <1>3, <1>5 DEF RecordsRight, start
<1>12. transitory' = transitory \cup {start}
  <2>1. ChangedAfterDelete(transitory, start, count) = transitory
    BY <1>3, <1>4, <1>8, <1>11 DEF ChangedAfterDelete
  <2> QED
    BY <1>2, <1>4, <1>11, <2>1 DEF ChangedAfterInsert, ShiftedIn
<1>13. /\ IsList(deleted) /\ Len(deleted) \in Nat /\ DOMAIN deleted = 1 .. Len(deleted)
       /\ \A k \in DOMAIN deleted : IsRecord(deleted[k], items, transitory) /\ deleted[k].index \in transitory
  BY <1>1, <1>5, ListFacts DEF RecordsRight
<1>14. /\ IsList(deleted') /\ DOMAIN deleted' = 1 .. Len(deleted) + 1
       /\ \A k \in DOMAIN deleted : deleted'[k] = deleted[k]
       /\ deleted'[Len(deleted) + 1] = record
  <2> DEFINE b == Append(deleted, record)
  <2>1. /\ IsList(b) /\ DOMAIN b = 1 .. Len(deleted) + 1
        /\ \A i \in 1 .. Len(deleted) + 1 :
             b[i] = IF i <= Len(deleted) THEN deleted[i] ELSE record
    <3> HIDE DEF record
    <3> QED
      BY <1>13, AppendIs
  <2>2. /\ \A k \in DOMAIN deleted : b[k] = deleted[k]
        /\ b[Len(deleted) + 1] = record
    BY <1>13, <2>1
  <2> HIDE DEF b
  <2>3. ASSUME NEW k \in DOMAIN b
        PROVE  /\ b[k] = [index |-> b[k].index, values |-> b[k].values]
               /\ b[k].index \in Int /\ b[k].index <= start
    <3>1. CASE k \in DOMAIN deleted
      <4>1. IsRecord(deleted[k], items, transitory) /\ deleted[k].index \in transitory /\ b[k] = deleted[k]
        BY <1>13, <2>2, <3>1
      <4>2. deleted[k] = [index |-> deleted[k].index, values |-> deleted[k].values]
        BY <4>1 DEF IsRecord
      <4> HIDE DEF record
      <4> QED
        BY <1>4, <1>11, <4>1, <4>2
    <3>2. CASE k = Len(deleted) + 1
      BY <1>4, <2>2, <3>2
    <3> QED
      BY <1>13, <2>1, <3>1, <3>2
  <2>4. deleted' = b
    <3>1. start \in Int
      BY <1>a
    <3>2. DeletedAfterInsert(DeletedAfterDelete(b, start, count), start) = b
      BY <2>1, <2>3, <3>1, RecordsStay
    <3> QED
      BY <1>2, <3>2 DEF b
  <2> QED
    BY <2>1, <2>2, <2>4
<1>15. /\ \A k \in 1 .. count : start + k - 1 \notin transitory
       /\ last \notin transitory /\ last + 1 \notin transitory
  BY <1>4, <1>8, <1>10, <1>11
<1>16. /\ \A k \in 1 .. count : candles[k].price # NaN /\ Spanned(candles[k])
       /\ candles[1].startedAt <= candles[count].startedAt
       /\ count > 1 => candles[1].startedAt < candles[count].endedAt
  <2>1. \A k \in 1 .. count : candles[k].price # NaN /\ Spanned(candles[k])
    BY <1>3, <1>5, <1>10, <1>15 DEF CandlesRight, AllSpanned
  <2>2. CASE count = 1
    <3>1. candles[1].startedAt \in Int
      BY <1>3, <1>8, <1>10 DEF IsCandle
    <3> QED
      BY <2>1, <2>2, <3>1
  <2>3. CASE count > 1
    <3>1. start < last
      BY <1>4, <1>8, <2>3
    <3>2. items[start].endedAt < items[last].startedAt
      BY <1>1, <1>8, <3>1, OrderTransitive
    <3>3. Spanned(items[start]) /\ Spanned(items[last]) /\ IsCandle(items[start])
          /\ IsCandle(items[last])
      BY <1>3, <1>5, <1>8 DEF AllSpanned
    <3>4. items[start].startedAt <= items[last].startedAt
          /\ items[start].startedAt < items[last].endedAt
      BY <3>2, <3>3 DEF Spanned, IsCandle
    <3> QED
      BY <1>10, <2>1, <3>4
  <2>4. count = 1 \/ count > 1
    BY <1>a
  <2> QED
    BY <2>2, <2>3, <2>4
<1>17. /\ IsCandle(a) /\ Spanned(a) /\ a.startedAt = items[start].startedAt
       /\ a.endedAt = items[last].endedAt
  <2>1. /\ Candles(candles) /\ Len(candles) > 0
        /\ \A j \in 1 .. Len(candles) : Spanned(candles[j])
        /\ Len(candles) > 1 => candles[1].startedAt < candles[Len(candles)].endedAt
    BY <1>a, <1>10, <1>16
  <2>2. /\ IsCandle(a) /\ Spanned(a) /\ a.startedAt = candles[1].startedAt
        /\ a.endedAt = candles[Len(candles)].endedAt
    BY <2>1, AggregateIs
  <2> QED
    BY <1>10, <2>2
<1> HIDE DEF a
<1>18. /\ counts' \in [Levels -> Nat] /\ counts'[0] > 0
       /\ LevelStart(level)' = start + 1
       /\ LevelStart(0)' \in Int /\ LevelStart(0)' >= start + 1
       /\ \A i \in Int : i > start =>
            /\ i >= LevelStart(0)' => i + count - 1 >= LevelStart(0)
            /\ i > LevelStart(0)' => i + count - 1 > LevelStart(0)
       /\ M = LevelEnd(0)' - 1
  <2>1. level + 1 \in Levels /\ level + 1 # level /\ level \in Nat
    BY <1>1, <1>3, <1>4
  <2>2. /\ counts'[level] = counts[level] - count /\ counts'[level + 1] = counts[level + 1] + 1
        /\ \A l \in Levels : l # level /\ l # level + 1 => counts'[l] = counts[l]
        /\ counts' = [l \in Levels |-> counts'[l]]
    BY <1>2, <1>3, <2>1
  <2>3. counts' \in [Levels -> Nat]
    <3>1. counts[level] - count \in Nat /\ counts[level + 1] + 1 \in Nat
      BY <1>3, <1>7, <1>4, <2>1
    <3>2. \A l \in Levels : counts'[l] \in Nat
      BY <1>3, <2>2, <3>1
    <3> QED
      BY <2>2, <3>2
  <2>4. /\ StartOf(counts', level) = start + 1
        /\ level = 0 => StartOf(counts', 0) = LevelStart(0) + 1
        /\ level > 0 => /\ StartOf(counts', 0) = LevelStart(0) + (1 - count)
                        /\ counts'[0] = counts[0]
    BY <1>1, <1>3, <1>7, <2>2, <2>3, BucketLevels DEF start
  <2>5. LevelStart(level)' = start + 1
    BY <1>2, <2>4 DEF LevelStart
  <2>6. LevelStart(0)' = StartOf(counts', 0) /\ LevelEnd(0)' = StartOf(counts', 0) + counts'[0]
    BY DEF LevelStart, LevelEnd
  <2>7. CASE level = 0
    <3>1. /\ start = LevelStart(0) /\ counts'[0] = counts[0] - count
          /\ LevelStart(0)' = start + 1 /\ LevelEnd(0)' = start + 1 + (counts[0] - count)
      BY <2>2, <2>4, <2>6, <2>7 DEF start
    <3>2. counts'[0] > 0
      BY <1>4, <1>7, <1>a, <2>7, <3>1
    <3>a. N = start + counts[0] - 1
      BY <1>3, <1>4, <3>1
    <3>b. start \in Int /\ counts[0] \in Int /\ count \in Int /\ M = N - count + 1
      BY <1>4, <1>a
    <3>3. M = LevelEnd(0)' - 1
      BY <3>a, <3>b, <3>1
    <3>4. \A i \in Int : i > start =>
            /\ i >= LevelStart(0)' => i + count - 1 >= LevelStart(0)
            /\ i > LevelStart(0)' => i + count - 1 > LevelStart(0)
      BY <1>4, <1>a, <3>1
    <3> QED
      BY <1>4, <2>3, <2>5, <3>1, <3>2, <3>3, <3>4
  <2>8. CASE level > 0
    <3>1. /\ counts'[0] = counts[0] /\ LevelStart(0)' = LevelStart(0) + (1 - count)
          /\ LevelEnd(0)' = LevelStart(0) + (1 - count) + counts[0]
      BY <2>4, <2>6, <2>8
    <3>2. LevelStart(0)' \in Int /\ LevelStart(0)' >= start + 1
      BY <1>4, <1>7, <1>8, <2>8, <3>1
    <3>a. N = LevelStart(0) + counts[0] - 1
      BY <1>3, <1>4
    <3>b. LevelStart(0) \in Int /\ counts[0] \in Int /\ count \in Int /\ M = N - count + 1
      BY <1>4, <1>a
    <3>3. M = LevelEnd(0)' - 1
      BY <3>a, <3>b, <3>1
    <3>4. \A i \in Int : i > start =>
            /\ i >= LevelStart(0)' => i + count - 1 >= LevelStart(0)
            /\ i > LevelStart(0)' => i + count - 1 > LevelStart(0)
      BY <1>4, <1>a, <3>1
    <3> QED
      BY <1>5, <2>3, <2>5, <3>1, <3>2, <3>3, <3>4
  <2> QED
    BY <2>1, <2>7, <2>8
<1>19. ~Fresh' /\ phase' = "aggregate" /\ level' = level /\ now' = now /\ seeded' = seeded
  BY <1>1, <1>2 DEF Fresh
\* Where the items behind the bucket come from.
<1>20. ASSUME NEW i \in 1 .. M, i > start
       PROVE  /\ items'[i] = items[i + count - 1] /\ i + count - 1 \in 1 .. N
              /\ i + count - 1 > last
              /\ i - 1 > start => /\ items'[i - 1] = items[(i + count - 1) - 1]
                                  /\ (i + count - 1) - 1 > last
              /\ i - 1 = start => (i + count - 1) - 1 = last
              /\ i - 1 \in 1 .. M /\ i + count - 1 \in 2 .. N
  <2>1. /\ i + count - 1 \in 1 .. N /\ i + count - 1 > last /\ i \in Nat
        /\ i - 1 \in 1 .. M /\ (i - 1) + count - 1 = (i + count - 1) - 1
        /\ i + count - 1 \in 2 .. N
        /\ i - 1 > start => (i + count - 1) - 1 > last
        /\ i - 1 = start => (i + count - 1) - 1 = last
    BY <1>a, <1>20
  <2>2. items'[i] = items[i + count - 1]
    BY <1>4, <1>9, <1>20, <2>1
  <2>3. i - 1 > start => items'[i - 1] = items[(i - 1) + count - 1]
    BY <1>4, <1>9, <2>1
  <2> QED
    BY <2>1, <2>2, <2>3
<1>21. ASSUME NEW i \in 1 .. M, i < start PROVE items'[i] = items[i] /\ i \in 1 .. N
  <2>1. i \in 1 .. N
    BY <1>a, <1>21
  <2>2. items'[i] = items[i]
    BY <1>9, <1>21
  <2> QED
    BY <2>1, <2>2
<1>22. items'[start] = a
  BY <1>8, <1>9
<1>23. items'[M] = items[N] /\ M > 0
  <2>1. M \in 1 .. M /\ M > start /\ M + count - 1 = N
    BY <1>a
  <2> QED
    BY <1>20, <2>1
<1>24. EntityShapes'
  <2>1. items' # <<>>
    BY <1>8, <1>9
  <2>2. \A i \in DOMAIN items' : IsCandle(items'[i])
    <3> TAKE i \in DOMAIN items'
    <3>1. i \in 1 .. M /\ (i < start \/ i = start \/ i > start)
      BY <1>4, <1>9
    <3>2. CASE i < start
      BY <1>3, <1>21, <3>1, <3>2
    <3>3. CASE i = start
      BY <1>17, <1>22, <3>3
    <3>4. CASE i > start
      BY <1>3, <1>20, <3>1, <3>4
    <3> QED
      BY <3>1, <3>2, <3>3, <3>4
  <2> QED
    BY <1>2, <1>3, <1>9, <1>18, <1>19, <2>1, <2>2 DEF EntityShapes, Candles, IsCandle
<1>25. NewestIsTick'
  <2>1. \A i \in DOMAIN items' : i >= LevelStart(0)' => items'[i].startedAt = items'[i].endedAt
    <3> TAKE i \in DOMAIN items'
    <3> HAVE i >= LevelStart(0)'
    <3>1. i \in 1 .. M /\ i > start /\ i \in Int
      BY <1>4, <1>9, <1>18
    <3>2. i + count - 1 \in 1 .. N /\ i + count - 1 >= LevelStart(0)
          /\ items'[i] = items[i + count - 1]
      BY <1>18, <1>20, <3>1
    <3> QED
      BY <1>3, <1>5, <3>2 DEF NewestIsTick
  <2>2. N > 0 /\ items # <<>>
    BY <1>1 DEF Living, EntityShapes
  <2>3. items'[Len(items')].endedAt = now'
    BY <1>5, <1>9, <1>19, <1>23, <2>2 DEF NewestIsTick
  <2> QED
    BY <1>18, <1>19, <2>1, <2>3 DEF NewestIsTick
<1>26. AllSpanned'
  <2>1. ASSUME NEW i \in DOMAIN items' PROVE Spanned(items'[i])
    <3>1. i \in 1 .. M /\ (i < start \/ i = start \/ i > start)
      BY <1>4, <1>9
    <3>2. CASE i < start
      BY <1>3, <1>5, <1>21, <3>1, <3>2 DEF AllSpanned
    <3>3. CASE i = start
      BY <1>17, <1>22, <3>3
    <3>4. CASE i > start
      BY <1>3, <1>5, <1>20, <3>1, <3>4 DEF AllSpanned
    <3> QED
      BY <3>1, <3>2, <3>3, <3>4
  <2> QED
    BY <2>1 DEF AllSpanned, Spanned
<1>27. Ordered(g)'
  <2> SUFFICES ASSUME NEW i \in 2 .. M
               PROVE  /\ items'[i - 1].endedAt < items'[i].startedAt
                      /\ i > LevelStart(0)' => items'[i].endedAt >= items'[i - 1].endedAt + g
    BY <1>9, <1>19 DEF Ordered
  <2>1. \A m \in 2 .. N :
          /\ items[m - 1].endedAt < items[m].startedAt
          /\ m > LevelStart(0) => items[m].endedAt >= items[m - 1].endedAt + g
    BY <1>1, <1>5 DEF Ordered
  <2>2. i \in 1 .. M /\ i - 1 \in 1 .. M /\ (i < start \/ i = start \/ i = start + 1 \/ i > start + 1)
    BY <1>4, <1>8
  <2>3. CASE i < start
    <3>1. i - 1 < start /\ i \in 2 .. N
      BY <1>4, <1>21, <2>2, <2>3
    <3>2. items'[i] = items[i] /\ items'[i - 1] = items[i - 1]
      BY <1>21, <2>2, <2>3, <3>1
    <3>3. ~(i > LevelStart(0)')
      BY <1>4, <1>18, <2>3
    <3> QED
      BY <2>1, <3>1, <3>2, <3>3
  <2>4. CASE i = start
    <3>1. i - 1 < start /\ i \in 2 .. N
      BY <1>4, <1>8, <2>4
    <3>2. items'[i] = a /\ items'[i - 1] = items[i - 1]
      BY <1>21, <1>22, <2>2, <2>4, <3>1
    <3>3. ~(i > LevelStart(0)')
      BY <1>4, <1>18, <2>4
    <3> QED
      BY <1>17, <2>1, <2>4, <3>1, <3>2, <3>3
  <2>5. CASE i = start + 1
    <3>1. i > start /\ i - 1 = start /\ ~(i > LevelStart(0)')
      BY <1>4, <1>18, <2>5
    <3>2. /\ items'[i] = items[i + count - 1] /\ (i + count - 1) - 1 = last
          /\ i + count - 1 \in 2 .. N /\ items'[i - 1] = a
      BY <1>20, <1>22, <2>2, <3>1
    <3>3. items[(i + count - 1) - 1].endedAt < items[i + count - 1].startedAt
      BY <2>1, <3>2
    <3> QED
      BY <1>17, <3>1, <3>2, <3>3
  <2>6. CASE i > start + 1
    <3>1. i > start /\ i - 1 > start /\ i \in Int
      BY <1>4, <2>6
    <3>2. /\ items'[i] = items[i + count - 1] /\ items'[i - 1] = items[(i + count - 1) - 1]
          /\ i + count - 1 \in 2 .. N
      BY <1>20, <2>2, <3>1
    <3>3. i > LevelStart(0)' => i + count - 1 > LevelStart(0)
      BY <1>18, <3>1
    <3> QED
      BY <2>1, <3>2, <3>3
  <2> QED
    BY <2>2, <2>3, <2>4, <2>5, <2>6
<1>28. RecordsRight'
  <2>1. ASSUME NEW k \in DOMAIN deleted 
        PROVE  IsRecord(deleted'[k], items', transitory')
    <3> DEFINE r == deleted[k]
               values == r.values
               index == r.index
    <3>1. IsRecord(r, items, transitory) /\ index \in transitory /\ index \in 1 .. N /\ index < start
      BY <1>11, <1>13
    <3> HIDE DEF r
    <3>2. /\ r = [index |-> index, values |-> values]
          /\ Candles(values) /\ values # <<>>
          /\ \A m \in DOMAIN values : values[m].price # NaN /\ Spanned(values[m])
          /\ values[1].startedAt <= values[Len(values)].startedAt
          /\ Len(values) > 1 => values[1].startedAt < values[Len(values)].endedAt
          /\ items[index] = Aggregate(values)
          /\ index + 1 \in DOMAIN items /\ index + 1 \notin transitory =>
               items[index + 1].speed
                 = Speed(values[Len(values)], items[index + 1], items[index + 1].price)
      BY <3>1 DEF IsRecord
    <3> HIDE DEF values, index
    <3>3. index \in 1 .. M /\ items'[index] = items[index]
      BY <1>4, <1>8, <1>21, <3>1
    <3>4. index + 1 \notin transitory' =>
            index + 1 \in 1 .. N /\ index + 1 \notin transitory /\ items'[index + 1] = items[index + 1]
      <4> SUFFICES ASSUME index + 1 \notin transitory'
                   PROVE  index + 1 \in 1 .. N /\ index + 1 \notin transitory
                          /\ items'[index + 1] = items[index + 1]
        OBVIOUS
      <4>1. index + 1 < start /\ index + 1 \in 1 .. M /\ index + 1 \notin transitory
        BY <1>4, <1>8, <1>12, <3>1
      <4> QED
        BY <1>21, <4>1
    <3>5. IsRecord(r, items', transitory')
      <4>1. index \in DOMAIN items' /\ DOMAIN items' = 1 .. M /\ items'[index] = Aggregate(values)
        BY <1>9, <3>2, <3>3
      <4>2. index + 1 \in DOMAIN items' /\ index + 1 \notin transitory' =>
              items'[index + 1].speed
                = Speed(values[Len(values)], items'[index + 1], items'[index + 1].price)
        BY <1>3, <3>2, <3>4
      <4>3. r.values = values /\ r.index = index
        BY DEF values, index
      <4> QED
        BY <3>2, <4>1, <4>2, <4>3 DEF IsRecord
    <3> QED
      BY <1>14, <3>5 DEF r
  <2>2. IsRecord(record, items', transitory')
    <3>1. record.index = start /\ record.values = candles
      OBVIOUS
    <3>2. start + 1 \in DOMAIN items' /\ start + 1 \notin transitory' =>
            items'[start + 1].speed
              = Speed(candles[Len(candles)], items'[start + 1], items'[start + 1].price)
      <4>1. start + 1 \in 1 .. M /\ start + 1 > start /\ (start + 1) - 1 = start
            /\ (start + 1) + count - 1 = last + 1
        BY <1>4, <1>8
      <4>2. items'[start + 1] = items[last + 1]
        BY <1>20, <4>1
      <4>3. SpeedOK(items, last + 1)
        <5>1. last + 1 \in 2 .. N /\ (last + 1) - 1 = last
          BY <1>3, <1>4, <1>8
        <5> QED
          BY <1>5, <1>15, <5>1 DEF CandlesRight
      <4>4. items[last + 1].speed = Speed(items[last], items[last + 1], items[last + 1].price)
        <5>1. (last + 1) - 1 = last
          BY <1>8
        <5> QED
          BY <4>3, <5>1 DEF SpeedOK
      <4> QED
        BY <1>10, <4>2, <4>4
    <3>3. /\ Candles(candles) /\ candles # <<>>
          /\ \A m \in DOMAIN candles : candles[m].price # NaN /\ Spanned(candles[m])
          /\ candles[1].startedAt <= candles[Len(candles)].startedAt
          /\ Len(candles) > 1 => candles[1].startedAt < candles[Len(candles)].endedAt
      BY <1>8, <1>10, <1>16
    <3>4. items'[start] = Aggregate(candles) /\ start \in DOMAIN items'
      BY <1>8, <1>9, <1>22 DEF a
    <3> QED
      BY <3>1, <3>2, <3>3, <3>4 DEF IsRecord
  <2>3. \A k \in DOMAIN deleted' : IsRecord(deleted'[k], items', transitory')
    <3>1. \A k \in DOMAIN deleted' : k \in DOMAIN deleted \/ k = Len(deleted) + 1
      BY <1>13, <1>14
    <3> HIDE DEF record
    <3> QED
      BY <1>14, <2>1, <2>2, <3>1
  <2>4. \A j, k \in DOMAIN deleted' : deleted'[j].index = deleted'[k].index => j = k
    <3>1. \A k \in DOMAIN deleted' :
            \/ k \in DOMAIN deleted /\ deleted'[k].index = deleted[k].index
               /\ deleted[k].index # start
            \/ k = Len(deleted) + 1 /\ deleted'[k].index = start
      BY <1>4, <1>11, <1>13, <1>14
    <3>2. \A j, k \in DOMAIN deleted : deleted[j].index = deleted[k].index => j = k
      BY <1>5 DEF RecordsRight
    <3> QED
      BY <3>1, <3>2
  <2>5. transitory' = {deleted'[k].index : k \in DOMAIN deleted'}
    <3>1. transitory = {deleted[k].index : k \in DOMAIN deleted}
      BY <1>1, <1>5 DEF RecordsRight
    <3>2. /\ \A k \in DOMAIN deleted : k \in DOMAIN deleted' /\ deleted'[k].index = deleted[k].index
          /\ Len(deleted) + 1 \in DOMAIN deleted' /\ deleted'[Len(deleted) + 1].index = start
          /\ \A k \in DOMAIN deleted' : k \in DOMAIN deleted \/ k = Len(deleted) + 1
      BY <1>13, <1>14
    <3>3. \A i : i \in transitory' <=> i \in {deleted'[k].index : k \in DOMAIN deleted'}
      BY <1>12, <3>1, <3>2
    <3> QED
      BY <3>3
  <2>6. /\ \A i \in transitory' : i < LevelStart(level)'
        /\ level' # MaxLevel
    BY <1>1, <1>3, <1>4, <1>11, <1>12, <1>18, <1>19
  <2> QED
    BY <1>14, <1>19, <2>3, <2>4, <2>5, <2>6 DEF RecordsRight
<1>29. CandlesRight'
  <2>1. ASSUME NEW i \in DOMAIN items', i \notin transitory'
        PROVE  items'[i].price # NaN /\ items'[i].speed # NaN
    <3>1. i \in 1 .. M /\ i # start /\ i \notin transitory /\ (i < start \/ i > start)
      BY <1>4, <1>9, <1>12, <2>1
    <3>2. CASE i < start
      BY <1>3, <1>5, <1>21, <3>1, <3>2 DEF CandlesRight
    <3>3. CASE i > start
      <4>1. /\ items'[i] = items[i + count - 1] /\ i + count - 1 \in 1 .. N
            /\ i + count - 1 > last
        BY <1>20, <3>1, <3>3
      <4>2. i + count - 1 \notin transitory
        BY <1>4, <1>8, <1>11, <4>1
      <4> QED
        BY <1>3, <1>5, <4>1, <4>2 DEF CandlesRight
    <3> QED
      BY <3>1, <3>2, <3>3
  <2>2. ASSUME NEW i \in 2 .. Len(items'), i \notin transitory', i - 1 \notin transitory'
        PROVE  SpeedOK(items', i) /\ AccelerationOK(items', i)
    <3>1. /\ i \in 1 .. M /\ i - 1 \in 1 .. M /\ i \notin transitory /\ i - 1 \notin transitory
          /\ (i < start \/ i - 1 > start)
      BY <1>4, <1>9, <1>12, <2>2
    <3>2. CASE i < start
      <4>1. i - 1 < start /\ i \in 2 .. N /\ (i > 2 => i - 2 \in 1 .. M /\ i - 2 < start)
        BY <1>4, <1>9, <1>21, <3>1, <3>2
      <4>2. /\ items'[i] = items[i] /\ items'[i - 1] = items[i - 1]
            /\ i > 2 => items'[i - 2] = items[i - 2]
        BY <1>21, <3>1, <3>2, <4>1
      <4>3. SpeedOK(items, i) /\ AccelerationOK(items, i)
        BY <1>5, <3>1, <4>1 DEF CandlesRight
      <4>4. BehindAggregate(items, i) => BehindAggregate(items', i)
        BY <4>2 DEF BehindAggregate
      <4> QED
        BY <4>2, <4>3, <4>4, CandleMoves
    <3>3. CASE i - 1 > start
      <4> DEFINE m == i + count - 1
      <4>1. i > start
        BY <1>4, <3>1, <3>3
      <4>2. /\ items'[i] = items[m] /\ m \in 2 .. N /\ m > last
            /\ items'[i - 1] = items[m - 1] /\ m - 1 > last
        BY <1>20, <3>1, <3>3, <4>1
      <4>3. m \notin transitory /\ m - 1 \notin transitory
        <5> HIDE DEF m
        <5>1. m > start /\ m - 1 > start
          BY <1>a, <1>8, <4>2
        <5> QED
          BY <1>a, <1>11, <5>1
      <4>4. SpeedOK(items, m) /\ AccelerationOK(items, m)
        <5> HIDE DEF m
        <5> QED
          BY <1>5, <4>2, <4>3 DEF CandlesRight
      <4>5. BehindAggregate(items, m) => BehindAggregate(items', i)
        <5>1. i > 2 /\ m > 2
          BY <1>4, <1>8, <3>1, <3>3, <4>2
        <5>2. CASE i - 2 > start
          <6>1. items'[i - 2] = items[m - 2]
            <7>1. i - 2 \in 1 .. M /\ (i - 2) + count - 1 = m - 2
              BY <1>4, <1>8, <3>1, <5>2
            <7> QED
              BY <1>20, <5>2, <7>1
          <6> QED
            BY <5>1, <6>1 DEF BehindAggregate
        <5>3. CASE i - 2 = start
          <6>1. m - 2 = last
            BY <1>4, <1>8, <3>1, <5>3
          <6>2. items'[i - 2] = a
            BY <1>22, <5>3
          <6>3. items[last].startedAt < items[last].endedAt => a.startedAt < a.endedAt
            <7>1. /\ a.startedAt = candles[1].startedAt
                  /\ items[last].startedAt = candles[count].startedAt
                  /\ a.endedAt = items[last].endedAt
                  /\ candles[1].startedAt <= candles[count].startedAt
              BY <1>10, <1>16, <1>17
            <7>2. /\ IsCandle(a) /\ IsCandle(items[last])
              BY <1>3, <1>8, <1>17
            <7> QED
              BY <7>1, <7>2 DEF IsCandle
          <6> HIDE DEF m
          <6> QED
            BY <5>1, <6>1, <6>2, <6>3 DEF BehindAggregate
        <5> QED
          BY <1>4, <3>1, <3>3, <5>2, <5>3
      <4> HIDE DEF m
      <4> QED
        BY <4>2, <4>4, <4>5, CandleMoves
    <3> QED
      BY <3>1, <3>2, <3>3
  <2> QED
    BY <2>1, <2>2 DEF CandlesRight
<1>30. IndicatorsRight'
  <2> SUFFICES ASSUME NEW i \in DOMAIN items', \A j \in transitory' : i < j
               PROVE  /\ items'[i].filter # Null
                      /\ i > 1 =>
                           /\ EmaOK(items', i, seeded')
                           /\ items'[i].filter = NextFilter(FilterOf(items'[i - 1]), items'[i])
                           /\ items'[i].marketPhase = NextPhase(items'[i - 1], items'[i])
    BY DEF IndicatorsRight
  <2>1. i \in 1 .. M /\ i < start /\ i \in 1 .. N /\ \A j \in transitory : i < j
    BY <1>9, <1>12, <1>21
  <2>2. /\ items[i].filter # Null
        /\ i > 1 =>
             /\ EmaOK(items, i, seeded)
             /\ items[i].filter = NextFilter(FilterOf(items[i - 1]), items[i])
             /\ items[i].marketPhase = NextPhase(items[i - 1], items[i])
    BY <1>3, <1>5, <2>1 DEF IndicatorsRight
  <2>3. \A j \in 1 .. i : items'[j] = items[j]
    BY <1>21, <1>a, <2>1
  <2>4. CASE i > 1
    <3>1. items'[i] = items[i] /\ items'[i - 1] = items[i - 1]
      BY <2>1, <2>3, <2>4
    <3>2. EmaOK(items', i, seeded')
      <4>1. /\ \A j \in 1 .. i : items'[j] = items[j + 0]
            /\ EmaOK(items, i + 0, seeded) /\ i \in Nat /\ seeded \subseteq seeded'
        BY <1>19, <2>1, <2>2, <2>3, <2>4
      <4> QED
        BY <2>4, <4>1, EmaMoves
    <3> QED
      BY <2>2, <2>4, <3>1, <3>2
  <2>5. CASE ~(i > 1)
    BY <2>1, <2>2, <2>3, <2>5
  <2> QED
    BY <2>4, <2>5
<1>31. StatesRight'
  <2>1. Newest = N /\ Newest' = M
    BY <1>1, <1>9, <1>19 DEF Newest
  <2> QED
    BY <1>2, <1>5, <1>23, <2>1 DEF StatesRight
<1> QED
  BY <1>1, <1>2, <1>19, <1>24, <1>25, <1>26, <1>27, <1>28, <1>29, <1>30, <1>31 DEF EntitiesInv, Living

-----------------------------------------------------------------------------
(* Entities: a recalculation leaves everything right.                      *)

\* What there is to calculate: the newest tick, or what the buckets changed.
LEMMA ChangedFacts ==
  ASSUME NEW g, Living(g), phase = "recalculate"
  PROVE  /\ Len(items) > 0 /\ transitory # {} /\ transitory \subseteq 1 .. Len(items)
         /\ OnlyNewest <=> Fresh
         /\ FirstAffected \in transitory /\ \A j \in transitory : FirstAffected <= j
         /\ \A i \in 1 .. Len(items) :
              i \in FiniteAffected(2) <=> i \in transitory \/ i - 1 \in transitory
         /\ ~Fresh => transitory = {deleted[k].index : k \in DOMAIN deleted}
         /\ Fresh => transitory = {Len(items)} /\ deleted = <<>>
<1>1. /\ IsList(items) /\ DOMAIN items = 1 .. Len(items)
      /\ transitory \subseteq 1 .. Len(items)
      /\ items # <<>> => Len(items) > 0
  BY LivingFacts
<1>2. transitory # {} /\ Len(items) > 0
  BY <1>1 DEF Living, RecordsRight, EntityShapes
<1>3. /\ Fresh => transitory = {Len(items)} /\ deleted = <<>>
      /\ ~Fresh => transitory = {deleted[k].index : k \in DOMAIN deleted}
  BY DEF Living, RecordsRight
<1>4. ~Fresh => level > 0
  <2>1. level \in Nat
    BY RecalculationAssumption DEF Living, EntityShapes, Levels
  <2> QED
    BY <2>1 DEF Fresh
<1>5. ~Fresh => Len(items) \notin transitory
  BY <1>4 DEF Living, RecordsRight
<1>6. OnlyNewest <=> Fresh
  BY <1>3, <1>5 DEF OnlyNewest
<1>7. FirstAffected \in transitory /\ \A j \in transitory : FirstAffected <= j
  BY <1>1, <1>2, FirstAffectedIs
<1>8. \A i \in 1 .. Len(items) :
        i \in FiniteAffected(2) <=> i \in transitory \/ i - 1 \in transitory
  BY <1>1, AffectedIs
<1> QED
  BY <1>1, <1>2, <1>3, <1>6, <1>7, <1>8

\* A price is there for every item, and only that of an aggregate is new.
LEMMA PriceIs ==
  ASSUME NEW g, Living(g), phase = "recalculate", NEW i \in 1 .. Len(items)
  PROVE  /\ Fresh \/ i \notin transitory =>
              /\ Records(i) = {} /\ items[i].price # NaN
              /\ \A p : Price(p, items[i], i) = items[i].price
         /\ ~Fresh /\ i \in transitory =>
              \E k \in DOMAIN deleted :
                /\ deleted[k].index = i /\ Records(i) = {k}
                /\ IsRecord(deleted[k], items, transitory)
                /\ \A p : Price(p, items[i], i) = AggregatedPrice(deleted[k].values, p)
         /\ \A p : Price(p, items[i], i) # NaN
<1>1. /\ transitory \subseteq 1 .. Len(items) /\ Len(items) > 0
      /\ ~Fresh => transitory = {deleted[k].index : k \in DOMAIN deleted}
      /\ Fresh => transitory = {Len(items)} /\ deleted = <<>>
  BY ChangedFacts
<1>2. CASE Fresh \/ i \notin transitory
  <2>1. Records(i) = {}
    <3>1. CASE Fresh
      <4>1. DOMAIN deleted = {}
        BY <1>1, <3>1
      <4> QED
        BY <4>1 DEF Records
    <3>2. CASE ~Fresh /\ i \notin transitory
      BY <1>1, <3>2 DEF Records
    <3> QED
      BY <1>2, <3>1, <3>2
  <2>2. items[i].price # NaN
    <3>1. CASE i \notin transitory
      <4>1. i \in DOMAIN items
        BY LivingFacts
      <4> QED
        BY <3>1, <4>1 DEF Living, CandlesRight
    <3>2. CASE Fresh /\ i \in transitory
      <4>1. i = Len(items)
        BY <1>1, <3>2
      <4> QED
        BY <3>2, <4>1 DEF Living, RecordsRight
    <3> QED
      BY <1>2, <3>1, <3>2
  <2> QED
    BY <1>2, <2>1, <2>2 DEF Price
<1>3. CASE ~Fresh /\ i \in transitory
  <2>1. PICK k \in DOMAIN deleted : deleted[k].index = i
    BY <1>1, <1>3
  <2>2. \A j \in DOMAIN deleted : deleted[j].index = i => j = k
    BY <2>1 DEF Living, RecordsRight
  <2>3. IsRecord(deleted[k], items, transitory)
    BY DEF Living, RecordsRight
  <2>4. Records(i) = {k}
    BY <2>1, <2>2 DEF Records
  <2>5. FirstRecord(i) = k
    <3>1. k \in Nat
      <4>1. IsList(deleted)
        BY DEF Living, RecordsRight
      <4>2. DOMAIN deleted = 1 .. Len(deleted)
        BY <4>1, ListFacts
      <4> QED
        BY <4>2
    <3> QED
      BY <2>4, <3>1 DEF FirstRecord
  <2>6. \A p : Price(p, items[i], i) = AggregatedPrice(deleted[k].values, p)
    BY <2>4, <2>5 DEF Price
  <2>7. \A p : AggregatedPrice(deleted[k].values, p) # NaN
    <3> DEFINE values == deleted[k].values
    <3>1. IsList(values) /\ values # <<>> /\ \A m \in DOMAIN values : values[m].price # NaN
      BY <2>3 DEF IsRecord, Candles
    <3> HIDE DEF values
    <3>2. \A p : AggregatedPrice(values, p) # NaN
      <4>1. CASE Len(values) = 1
        <5>1. 1 \in DOMAIN values
          BY <3>1, <4>1, ListFacts
        <5> QED
          BY <3>1, <4>1, <5>1 DEF AggregatedPrice
      <4>2. CASE Len(values) # 1
        BY <4>2 DEF AggregatedPrice, NaN
      <4> QED
        BY <4>1, <4>2
    <3> QED
      BY <3>2 DEF values
  <2> QED
    BY <1>3, <2>1, <2>3, <2>4, <2>6, <2>7
<1> QED
  BY <1>2, <1>3

\* The times of items, those of the tick just received left aside.
LEMMA TimesFollow ==
  ASSUME NEW g, Living(g), NEW i \in 2 .. Len(items), ~(Fresh /\ i = Len(items))
  PROVE  /\ items[i - 1].endedAt < items[i].startedAt
         /\ items[i - 1].receivedAt < items[i].receivedAt
         /\ i > LevelStart(0) => items[i].endedAt >= items[i - 1].endedAt + g
<1>1. /\ items[i - 1].endedAt < items[i].startedAt
      /\ i > LevelStart(0) => items[i].endedAt >= items[i - 1].endedAt + g
  BY DEF Living, Ordered
<1>2. i \in 1 .. Len(items) /\ i - 1 \in 1 .. Len(items)
  BY LivingFacts
<1>3. /\ Spanned(items[i]) /\ Spanned(items[i - 1]) /\ IsCandle(items[i])
      /\ IsCandle(items[i - 1])
  BY <1>2, LivingFacts DEF Living, AllSpanned
<1> QED
  BY <1>1, <1>3 DEF Spanned, IsCandle

\* The candles after their own calculation.
LEMMA CandlesKnown ==
  ASSUME NEW g, Living(g), phase = "recalculate", NEW i \in 1 .. Len(items)
  PROVE  LET c == WithCandles(items)
         IN  /\ c[i].price # NaN
             /\ c[i].receivedAt = items[i].receivedAt
             /\ i > 1 => Before(c, i) # Nothing /\ Before(c, i).receivedAt = items[i - 1].receivedAt
             /\ ~(i > 1) => Before(c, i) = Nothing
<1> DEFINE c == WithCandles(items)
<1>1. Candles(items) /\ Len(items) \in Nat
  BY LivingFacts DEF Living, EntityShapes
<1>2. /\ Candles(c) /\ Len(c) = Len(items)
      /\ \A j \in 1 .. Len(items) :
           /\ SameTimes(c[j], items[j])
           /\ IF j \in FiniteAffected(2)
                THEN c[j].price = Price(Before(c, j), items[j], j)
                ELSE c[j] = items[j]
  BY <1>1, CandlesStage
<1> HIDE DEF c
<1>3. c[i].price # NaN
  <2>1. CASE i \in FiniteAffected(2)
    BY <1>2, <2>1, PriceIs
  <2>2. CASE i \notin FiniteAffected(2)
    <3>1. i \notin transitory
      BY <2>2, ChangedFacts
    <3> QED
      BY <1>2, <2>2, <3>1, PriceIs
  <2> QED
    BY <2>1, <2>2
<1>4. /\ i > 1 => /\ Before(c, i) = c[i - 1] /\ i - 1 \in 1 .. Len(items)
                  /\ Before(c, i) # Nothing
      /\ ~(i > 1) => Before(c, i) = Nothing
  BY <1>2, BeforeIs
<1>5. \A j \in 1 .. Len(items) : c[j].receivedAt = items[j].receivedAt
  BY <1>2 DEF SameTimes
<1> QED
  BY <1>3, <1>4, <1>5 DEF c

\* The market phase throws only for a tick that is behind the item before it.
LEMMA ThrowsOnlyLate ==
  ASSUME NEW g, Living(g), phase = "recalculate",
         NEW i \in InfiniteAffected,
         ThrowsPhase(Before(WithCandles(items), i), WithCandles(items)[i])
  PROVE  i \in 2 .. Len(items) /\ items[i].startedAt < items[i - 1].endedAt
<1> DEFINE c == WithCandles(items)
<1>1. Len(items) \in Nat /\ \A j \in 1 .. Len(items) : IsCandle(items[j])
  BY LivingFacts
<1>2. i \in 1 .. Len(items)
  <2>1. FirstAffected \in 1 .. Len(items)
    BY ChangedFacts
  <2> QED
    BY <1>1, <2>1 DEF InfiniteAffected
<1>3. /\ c[i].price # NaN /\ c[i].receivedAt = items[i].receivedAt
      /\ i > 1 => Before(c, i) # Nothing /\ Before(c, i).receivedAt = items[i - 1].receivedAt
      /\ ~(i > 1) => Before(c, i) = Nothing
  BY <1>2, CandlesKnown
<1> HIDE DEF c
<1>4. Before(c, i) # Nothing /\ c[i].receivedAt < Before(c, i).receivedAt
  BY <1>3 DEF ThrowsPhase, c
<1>5. i > 1 /\ items[i].receivedAt < items[i - 1].receivedAt
  BY <1>3, <1>4
<1>6. i \in 2 .. Len(items) /\ i - 1 \in 1 .. Len(items)
  BY <1>1, <1>2, <1>5
<1>7. /\ Spanned(items[i]) /\ Spanned(items[i - 1]) /\ IsCandle(items[i])
      /\ IsCandle(items[i - 1])
  BY <1>1, <1>2, <1>6, LivingFacts DEF Living, AllSpanned
<1> QED
  BY <1>5, <1>6, <1>7 DEF Spanned, IsCandle

\* CandleEntity has nothing to report.
LEMMA ReportsNothing ==
  ASSUME NEW g, Living(g), phase = "recalculate"
  PROVE  ~CandlesReport
<1> SUFFICES ASSUME NEW i \in FiniteAffected(2), Reports(i) PROVE FALSE
  BY DEF CandlesReport
<1>1. /\ Len(items) \in Nat /\ DOMAIN items = 1 .. Len(items)
      /\ \A j \in 1 .. Len(items) : IsCandle(items[j])
  BY LivingFacts
<1>2. i \in 1 .. Len(items)
  BY <1>1 DEF FiniteAffected
<1>3. ~Fresh /\ i \in transitory
  <2>1. Fresh \/ i \notin transitory => Records(i) = {} /\ items[i].price # NaN
    BY <1>2, PriceIs
  <2> QED
    BY <2>1 DEF Reports
<1>4. PICK k \in DOMAIN deleted :
        deleted[k].index = i /\ Records(i) = {k} /\ IsRecord(deleted[k], items, transitory)
  BY <1>2, <1>3, PriceIs
<1> DEFINE values == deleted[k].values
<1>5. /\ Candles(values) /\ values # <<>> /\ items[i] = Aggregate(values)
      /\ \A m \in DOMAIN values : values[m].price # NaN /\ Spanned(values[m])
      /\ Len(values) > 1 => values[1].startedAt < values[Len(values)].endedAt
  BY <1>4 DEF IsRecord
<1>6. i > 1 /\ items[i - 1].receivedAt >= values[1].receivedAt
  BY <1>4, <1>5 DEF Reports
<1> HIDE DEF values
<1>7. /\ Len(values) \in Nat /\ DOMAIN values = 1 .. Len(values) /\ Len(values) > 0
      /\ 1 \in DOMAIN values
  <2>1. IsList(values) /\ values \in Seq(Range(values))
    BY <1>5 DEF Candles, IsList
  <2>2. Len(values) \in Nat /\ DOMAIN values = 1 .. Len(values)
    BY <2>1, ListFacts
  <2>3. Len(values) # 0
    BY <1>5, <2>1
  <2> QED
    BY <2>2, <2>3
<1>8. items[i].startedAt = values[1].startedAt
  BY <1>5, <1>7, AggregateIs
<1>9. i \in 2 .. Len(items) /\ i - 1 \in 1 .. Len(items)
  BY <1>1, <1>2, <1>6
<1>10. items[i - 1].endedAt < items[i].startedAt
  BY <1>3, <1>9, TimesFollow
<1>11. /\ IsCandle(values[1]) /\ Spanned(values[1])
       /\ IsCandle(items[i - 1]) /\ Spanned(items[i - 1]) /\ IsCandle(items[i])
  BY <1>1, <1>2, <1>5, <1>7, <1>9 DEF Living, AllSpanned, Candles
<1> QED
  BY <1>6, <1>8, <1>10, <1>11 DEF IsCandle, Spanned

\* The market phase throws for the clock alone.
LEMMA RecalculateThrowsKeeps ==
  ASSUME NEW g, EntitiesInv(g), RecalculateThrows PROVE EntitiesInv(g)'
<1>1. Living(g) /\ phase = "recalculate" /\ ~reported
  BY DEF EntitiesInv, RecalculateThrows
<1>2. /\ phase' = "ended" /\ reported' = (reported \/ CandlesReport)
      /\ UNCHANGED <<items, counts, transitory, deleted, level>>
  BY DEF RecalculateThrows
<1>3. ~reported'
  BY <1>1, <1>2, ReportsNothing
<1>4. /\ Len(items) = LevelEnd(0) - 1 /\ counts \in [Levels -> Nat] /\ level \in Levels
      /\ transitory \subseteq DOMAIN items
  BY <1>1, LivingFacts
<1>5. \A k \in DOMAIN deleted : deleted[k].index \in DOMAIN items
  BY <1>1 DEF Living, RecordsRight, IsRecord
<1>6. EntitiesTyped'
  <2>1. LevelEnd(0)' = LevelEnd(0)
    BY <1>2 DEF LevelEnd, LevelStart
  <2> QED
    BY <1>2, <1>4, <1>5, <2>1 DEF EntitiesTyped
<1>7. EndsOnlyByClock'
  <2>1. PICK i \in InfiniteAffected :
          ThrowsPhase(Before(WithCandles(items), i), WithCandles(items)[i])
    BY DEF RecalculateThrows
  <2>2. i \in 2 .. Len(items) /\ items[i].startedAt < items[i - 1].endedAt
    BY <1>1, <2>1, ThrowsOnlyLate
  <2> QED
    BY <1>2, <2>2 DEF EndsOnlyByClock
<1> QED
  BY <1>2, <1>3, <1>6, <1>7 DEF EntitiesInv

\* Where the market phase does not throw all items follow each other.
LEMMA AllInOrder ==
  ASSUME NEW g, Living(g), phase = "recalculate",
         \A i \in InfiniteAffected :
           ~ThrowsPhase(Before(WithCandles(items), i), WithCandles(items)[i]),
         NEW i \in 2 .. Len(items)
  PROVE  /\ items[i - 1].endedAt < items[i].startedAt
         /\ items[i - 1].receivedAt < items[i].receivedAt
         /\ i > LevelStart(0) => items[i].endedAt >= items[i - 1].endedAt + g
<1> DEFINE N == Len(items)
<1>1. CASE ~(Fresh /\ i = N)
  BY <1>1, TimesFollow
<1>2. CASE Fresh /\ i = N
  <2>1. /\ N \in Nat /\ DOMAIN items = 1 .. N /\ counts \in [Levels -> Nat] /\ N = LevelEnd(0) - 1
        /\ \A j \in 1 .. N : IsCandle(items[j])
    BY LivingFacts
  <2>2. /\ LevelEnd(0) = LevelStart(0) + counts[0] /\ LevelStart(0) \in Nat
        /\ counts[0] \in Nat
    BY <2>1, LevelFacts
  <2>3. counts[0] > 1
    BY <1>2, <2>1 DEF Living, NewestIsTick
  <2>4. i \in 1 .. N /\ i - 1 \in 1 .. N /\ i >= LevelStart(0) /\ i - 1 >= LevelStart(0) /\ i > 1
    BY <1>2, <2>1, <2>2, <2>3
  <2>5. /\ items[i].startedAt = items[i].endedAt /\ items[i - 1].startedAt = items[i - 1].endedAt
        /\ IsCandle(items[i]) /\ IsCandle(items[i - 1])
        /\ Spanned(items[i]) /\ Spanned(items[i - 1])
    BY <2>1, <2>4 DEF Living, NewestIsTick, AllSpanned
  <2>6. i \in InfiniteAffected
    <3>1. FirstAffected \in transitory /\ transitory = {N}
      BY <1>2, ChangedFacts
    <3> QED
      BY <1>2, <2>1, <3>1 DEF InfiniteAffected
  <2>7. ~(items[i].receivedAt < items[i - 1].receivedAt)
    <3> DEFINE c == WithCandles(items)
    <3>1. /\ c[i].receivedAt = items[i].receivedAt
          /\ Before(c, i) # Nothing /\ Before(c, i).receivedAt = items[i - 1].receivedAt
      BY <2>4, CandlesKnown
    <3>2. ~ThrowsPhase(Before(c, i), c[i])
      BY <2>6
    <3> HIDE DEF c
    <3> QED
      BY <3>1, <3>2 DEF ThrowsPhase
  <2>8. /\ items[i].endedAt # items[i - 1].endedAt
        /\ items[i].endedAt > items[i - 1].endedAt => items[i].endedAt >= items[i - 1].endedAt + g
    BY <1>2 DEF Living, Ordered
  <2>9. items[i].endedAt > items[i - 1].endedAt
    BY <2>5, <2>7, <2>8 DEF IsCandle, Spanned
  <2> QED
    BY <2>5, <2>8, <2>9 DEF IsCandle, Spanned
<1> QED
  BY <1>1, <1>2

\* A time that is not before the one of the item before gives an acceleration.
LEMMA AccelerationFacts ==
  ASSUME NEW p, IsCandle(p), NEW i, IsCandle(i), p.receivedAt < i.receivedAt,
         p.speed # NaN, NEW s
  PROVE  Acceleration(p, i, s)
           = <<"acceleration", p.receivedAt, p.speed, i.receivedAt, s>>
<1>1. p # Nothing
  BY ItemIsSomething
<1>2. ~(i.receivedAt <= p.receivedAt)
  BY DEF IsCandle
<1> QED
  BY <1>1, <1>2 DEF Acceleration

\* The acceleration of an item that stays, when the speed before it does not:
\* it is the one from the speed there was.
LEMMA AccelerationStays ==
  ASSUME NEW p, IsCandle(p), NEW q, IsCandle(q), q.receivedAt = p.receivedAt,
         NEW i, IsCandle(i), NEW j, IsCandle(j), j.receivedAt = i.receivedAt,
         j.speed = i.speed, j.acceleration = i.acceleration,
         p.receivedAt < i.receivedAt, p.speed # NaN,
         \/ i.acceleration = Acceleration(p, i, i.speed)
         \/ LateAcceleration(p, i)
  PROVE  LateAcceleration(q, j)
<1> DEFINE s == j.acceleration[3]
<1>1. CASE i.acceleration = Acceleration(p, i, i.speed)
  <2>1. i.acceleration = <<"acceleration", p.receivedAt, p.speed, i.receivedAt, i.speed>>
    BY <1>1, AccelerationFacts
  <2>2. s = p.speed /\ Len(j.acceleration) = 5
    BY <2>1
  <2> HIDE DEF s
  <2>3. ASSUME NEW t, t = [q EXCEPT !.speed = s]
        PROVE  IsCandle(t) /\ t.receivedAt = q.receivedAt /\ t.speed = s
    <3> DEFINE Names == {"receivedAt", "startedAt", "endedAt", "price", "speed",
                          "acceleration", "ema", "filter", "marketPhase"}
    <3>1. DOMAIN q = Names
      BY DEF IsCandle
    <3>2. t = [x \in Names |-> t[x]]
      BY <2>3, <3>1
    <3>3. /\ t.receivedAt = q.receivedAt /\ t.speed = s
          /\ t.startedAt = q.startedAt /\ t.endedAt = q.endedAt
      BY <2>3, <3>1
    <3>4. q.receivedAt \in Int /\ q.startedAt \in Int /\ q.endedAt \in Int
      BY DEF IsCandle
    <3> QED
      BY <3>2, <3>3, <3>4 DEF IsCandle
  <2> DEFINE t == [q EXCEPT !.speed = s]
  <2>4. IsCandle(t) /\ t.receivedAt = q.receivedAt /\ t.speed = s
    BY <2>3
  <2> HIDE DEF t
  <2>5. Acceleration(t, j, j.speed)
          = <<"acceleration", t.receivedAt, t.speed, j.receivedAt, j.speed>>
    BY <2>2, <2>4, AccelerationFacts
  <2> QED
    BY <2>1, <2>2, <2>4, <2>5 DEF LateAcceleration, t, s
<1>2. CASE LateAcceleration(p, i)
  <2>1. s = i.acceleration[3] /\ Len(j.acceleration) = 5
        /\ i.acceleration = Acceleration([p EXCEPT !.speed = s], i, i.speed)
    BY <1>2 DEF LateAcceleration
  <2> HIDE DEF s
  <2> DEFINE u == [p EXCEPT !.speed = s]
             t == [q EXCEPT !.speed = s]
  <2>2. /\ IsCandle(u) /\ IsCandle(t) /\ u.receivedAt = t.receivedAt /\ u.speed = t.speed
    <3>1. ASSUME NEW x, IsCandle(x), NEW y, y = [x EXCEPT !.speed = s]
          PROVE  IsCandle(y) /\ y.receivedAt = x.receivedAt /\ y.speed = s
      <4> DEFINE Names == {"receivedAt", "startedAt", "endedAt", "price", "speed",
                            "acceleration", "ema", "filter", "marketPhase"}
      <4>1. DOMAIN x = Names
        BY <3>1 DEF IsCandle
      <4>2. y = [k \in Names |-> y[k]]
        BY <3>1, <4>1
      <4>3. /\ y.receivedAt = x.receivedAt /\ y.speed = s
            /\ y.startedAt = x.startedAt /\ y.endedAt = x.endedAt
        BY <3>1, <4>1
      <4>4. x.receivedAt \in Int /\ x.startedAt \in Int /\ x.endedAt \in Int
        BY <3>1 DEF IsCandle
      <4> QED
        BY <4>2, <4>3, <4>4 DEF IsCandle
    <3> QED
      BY <3>1
  <2> HIDE DEF u, t
  <2>3. u # Nothing /\ t # Nothing
    BY <2>2, ItemIsSomething
  <2>4. Acceleration(t, j, j.speed) = Acceleration(u, i, i.speed)
    BY <2>2, <2>3 DEF Acceleration
  <2> QED
    BY <2>1, <2>4 DEF LateAcceleration, t, u, s
<1> QED
  BY <1>1, <1>2

\* The items as a recalculation that does not throw leaves them.
Orderly == \A i \in InfiniteAffected :
             ~ThrowsPhase(Before(WithCandles(items), i), WithCandles(items)[i])

\* No speed is ever the empty value.
LEMMA SpeedIsThere ==
  ASSUME NEW p, NEW c, NEW x PROVE Speed(p, c, x) # NaN
BY DEF Speed, NaN

\* What the list of items is after a recalculation, said of any item and the
\* one before it.
LEMMA AfterIs ==
  ASSUME NEW g, Living(g), phase = "recalculate", Orderly,
         NEW r, r = Recalculated, NEW i \in 1 .. Len(items)
  PROVE  /\ IsCandle(r[i]) /\ SameTimes(r[i], items[i]) /\ Len(r) = Len(items) /\ Candles(r)
         /\ DOMAIN r = 1 .. Len(items)
         /\ i > 1 => /\ i - 1 \in 1 .. Len(items) /\ Before(r, i) = r[i - 1]
                     /\ IsCandle(r[i - 1]) /\ SameTimes(r[i - 1], items[i - 1])
                     /\ r[i - 1] # Nothing /\ items[i - 1] # Nothing
                     /\ items[i - 1].receivedAt < items[i].receivedAt
         /\ ~(i > 1) => Before(r, i) = Nothing
<1>1. /\ Candles(items) /\ transitory \subseteq 1 .. Len(items) /\ transitory # {}
      /\ Len(items) \in Nat /\ \A j \in 1 .. Len(items) : items[j] # Nothing
  BY ChangedFacts, LivingFacts DEF Living, EntityShapes
<1>2. /\ Candles(r) /\ Len(r) = Len(items)
      /\ \A j \in 1 .. Len(items) : SameTimes(r[j], items[j])
  BY <1>1, RecalculatedIs
<1>3. DOMAIN r = 1 .. Len(items) /\ \A j \in 1 .. Len(items) : IsCandle(r[j])
  BY <1>2, ListFacts DEF Candles
<1>4. /\ i > 1 => /\ Before(r, i) = r[i - 1] /\ i - 1 \in 1 .. Len(items)
                  /\ Before(r, i) # Nothing
      /\ ~(i > 1) => Before(r, i) = Nothing
  BY <1>2, BeforeIs
<1>5. i > 1 => items[i - 1].receivedAt < items[i].receivedAt
  <2>1. i > 1 => i \in 2 .. Len(items)
    BY <1>1
  <2> QED
    BY <2>1, AllInOrder DEF Orderly
<1> QED
  BY <1>1, <1>2, <1>3, <1>4, <1>5

\* The candles: those a recalculation leaves alone are still what the formulas
\* give, all but the acceleration behind the item that follows an aggregate.
LEMMA CandlesAfter ==
  ASSUME NEW g, Living(g), phase = "recalculate", Orderly,
         NEW r, r = Recalculated, NEW i \in 1 .. Len(items)
  PROVE  /\ r[i].price # NaN /\ r[i].speed # NaN
         /\ i > 1 => SpeedOK(r, i) /\ AccelerationOK(r, i)
<1> DEFINE A == FiniteAffected(2)
           N == Len(items)
<1>0. N \in Nat /\ DOMAIN items = 1 .. N /\ \A j \in 1 .. N : IsCandle(items[j])
  BY LivingFacts
<1>1. \A j \in 1 .. N :
        IF j \in A
          THEN /\ r[j].price = Price(Before(r, j), items[j], j)
               /\ r[j].speed = Speed(Before(r, j), r[j], r[j].price)
               /\ r[j].acceleration = Acceleration(Before(r, j), r[j], r[j].speed)
          ELSE /\ r[j].price = items[j].price /\ r[j].speed = items[j].speed
               /\ r[j].acceleration = items[j].acceleration
  <2>1. Candles(items) /\ transitory \subseteq 1 .. N /\ transitory # {}
    BY ChangedFacts DEF Living, EntityShapes
  <2> QED
    BY <2>1, RecalculatedIs
<1>2. \A j \in 1 .. N : j \in A <=> j \in transitory \/ j - 1 \in transitory
  BY ChangedFacts
<1> HIDE DEF A
<1>3. CASE i \in A
  <2>1. r[i].price # NaN
    BY <1>1, <1>3, PriceIs
  <2>2. r[i].speed # NaN
    BY <1>1, <1>3, SpeedIsThere
  <2>3. i > 1 => Before(r, i) = r[i - 1]
    BY AfterIs
  <2>4. i > 1 => SpeedOK(r, i) /\ AccelerationOK(r, i)
    BY <1>1, <1>3, <2>3 DEF SpeedOK, AccelerationOK
  <2> QED
    BY <2>1, <2>2, <2>4
<1>4. CASE i \notin A
  <2>1. i \notin transitory /\ i - 1 \notin transitory
    BY <1>2, <1>4
  <2>2. /\ r[i].price = items[i].price /\ r[i].speed = items[i].speed
        /\ r[i].acceleration = items[i].acceleration
    BY <1>1, <1>4
  <2>3. items[i].price # NaN /\ items[i].speed # NaN
    BY <1>0, <2>1 DEF Living, CandlesRight
  <2>4. ASSUME i > 1 PROVE SpeedOK(r, i) /\ AccelerationOK(r, i)
    <3> DEFINE p == items[i - 1]
               q == r[i - 1]
    <3>1. /\ i - 1 \in 1 .. N /\ IsCandle(q) /\ SameTimes(q, p) /\ q # Nothing /\ p # Nothing
          /\ p.receivedAt < items[i].receivedAt
          /\ IsCandle(r[i]) /\ SameTimes(r[i], items[i]) /\ IsCandle(items[i]) /\ IsCandle(p)
      BY <1>0, <2>4, AfterIs
    <3>2. /\ q.receivedAt = p.receivedAt /\ r[i].receivedAt = items[i].receivedAt
      BY <3>1 DEF SameTimes
    <3>3. SpeedOK(items, i) /\ AccelerationOK(items, i) /\ p.speed # NaN
      <4>1. i \in 2 .. Len(items)
        BY <2>4
      <4> QED
        BY <1>0, <2>1, <3>1, <4>1 DEF Living, CandlesRight
    <3>4. q.price = p.price
      <4>1. CASE i - 1 \in A
        BY <1>1, <2>1, <3>1, <4>1, PriceIs
      <4>2. CASE i - 1 \notin A
        BY <1>1, <3>1, <4>2
      <4> QED
        BY <4>1, <4>2
    <3>5. SpeedOK(r, i)
      BY <2>2, <3>1, <3>2, <3>3, <3>4 DEF SpeedOK, Speed
    <3>6. items[i].acceleration = Acceleration(p, items[i], items[i].speed)
          \/ LateAcceleration(p, items[i])
      BY <3>3 DEF AccelerationOK
    <3>7. LateAcceleration(q, r[i])
      <4> HIDE DEF p, q
      <4>1. \A j : IsCandle(j) /\ j = r[i] => LateAcceleration(q, j)
        BY <2>2, <3>1, <3>2, <3>3, <3>6, AccelerationStays
      <4> QED
        BY <3>1, <4>1
    <3>8. AccelerationOK(r, i)
      <4>1. ASSUME q.speed = p.speed,
                   items[i].acceleration = Acceleration(p, items[i], items[i].speed)
            PROVE  r[i].acceleration = Acceleration(q, r[i], r[i].speed)
        BY <2>2, <3>1, <3>2, <4>1 DEF Acceleration
      <4>2. BehindAggregate(items, i) => BehindAggregate(r, i)
        <5>1. i > 2 => i - 2 \in 1 .. N
          BY <1>0
        <5>2. i > 2 => SameTimes(r[i - 2], items[i - 2])
          BY <5>1, AfterIs
        <5> QED
          BY <5>2 DEF BehindAggregate, SameTimes
      <4>3. q.speed = p.speed => AccelerationOK(r, i)
        BY <3>3, <3>7, <4>1, <4>2 DEF AccelerationOK
      <4>4. CASE i - 1 \notin A
        BY <1>1, <3>1, <4>3, <4>4
      <4>5. CASE i - 1 \in A
        <5>1. i - 1 - 1 \in transitory
          BY <1>2, <2>1, <3>1, <4>5
        <5>2. i - 2 \in transitory /\ i - 2 \in 1 .. N /\ i > 2 /\ i - 1 = (i - 2) + 1
          <6>1. i - 1 - 1 = i - 2
            BY <1>0
          <6>2. i - 2 \in 1 .. N
            BY <5>1, <6>1, ChangedFacts
          <6> QED
            BY <1>0, <5>1, <6>1, <6>2
        <5>3. ~Fresh
          <6>1. Fresh => transitory = {N}
            BY ChangedFacts
          <6> QED
            BY <1>0, <5>2, <6>1
        <5>4. PICK k \in DOMAIN deleted :
                /\ deleted[k].index = i - 2 /\ IsRecord(deleted[k], items, transitory)
                /\ \A x : Price(x, items[i - 2], i - 2) = AggregatedPrice(deleted[k].values, x)
          BY <5>2, <5>3, PriceIs
        <5> DEFINE values == deleted[k].values
        <5>5. /\ Candles(values) /\ values # <<>> /\ items[i - 2] = Aggregate(values)
              /\ \A m \in DOMAIN values : Spanned(values[m])
              /\ Len(values) > 1 => values[1].startedAt < values[Len(values)].endedAt
              /\ p.speed = Speed(values[Len(values)], p, p.price)
          BY <1>0, <2>1, <3>1, <5>2, <5>4 DEF IsRecord
        <5>6. r[i - 2].price = AggregatedPrice(values, Before(r, i - 2))
          BY <1>1, <1>2, <5>2, <5>4
        <5> HIDE DEF values
        <5>7. /\ Len(values) \in Nat /\ DOMAIN values = 1 .. Len(values) /\ Len(values) > 0
              /\ \A m \in 1 .. Len(values) : IsCandle(values[m])
          <6>1. IsList(values) /\ values \in Seq(Range(values))
            BY <5>5 DEF Candles, IsList
          <6>2. Len(values) \in Nat /\ DOMAIN values = 1 .. Len(values)
            BY <6>1, ListFacts
          <6>3. Len(values) # 0
            BY <5>5, <6>1
          <6> QED
            BY <5>5, <6>2, <6>3 DEF Candles
        <5>8. /\ items[i - 2].startedAt = values[1].startedAt
              /\ items[i - 2].endedAt = values[Len(values)].endedAt
              /\ Len(values) = 1 => items[i - 2].receivedAt = values[1].receivedAt
          BY <5>5, <5>7, AggregateIs
        <5>9. CASE Len(values) = 1
          <6>1. Before(r, i - 1) = r[i - 2] /\ r[i - 2] # Nothing /\ SameTimes(r[i - 2], items[i - 2])
            <7>1. i - 1 > 1 /\ (i - 1) - 1 = i - 2
              BY <1>0, <5>2
            <7> QED
              BY <3>1, <7>1, AfterIs
          <6>2. q.speed = Speed(r[i - 2], q, q.price)
            BY <1>1, <3>1, <4>5, <6>1
          <6>3. /\ r[i - 2].receivedAt = values[1].receivedAt
                /\ r[i - 2].price = values[1].price
            BY <5>6, <5>8, <5>9, <6>1 DEF AggregatedPrice, SameTimes
          <6>4. p.speed = Speed(values[1], p, p.price) /\ values[1] # Nothing
            BY <5>5, <5>7, <5>9, ItemIsSomething
          <6>5. q.speed = p.speed
            <7> HIDE DEF p, q
            <7>1. Speed(r[i - 2], q, q.price) = Speed(values[1], p, p.price)
              BY <3>2, <3>4, <6>1, <6>3, <6>4 DEF Speed
            <7> QED
              BY <6>2, <6>4, <7>1
          <6> QED
            BY <4>3, <6>5
        <5>10. CASE Len(values) > 1
          <6>1. BehindAggregate(items, i)
            BY <5>5, <5>8, <5>10 DEF BehindAggregate
          <6> QED
            BY <3>7, <4>2, <6>1 DEF AccelerationOK
        <5> QED
          BY <5>7, <5>9, <5>10
      <4> QED
        BY <4>4, <4>5
    <3> QED
      BY <3>5, <3>8
  <2> QED
    BY <2>2, <2>3, <2>4
<1> QED
  BY <1>3, <1>4

\* An EMA that starts does so with the mean of the closes, or not at all.
LEMMA SeedIsSeeded ==
  ASSUME NEW list, NEW i, list[i].ema = SeedAt(list, i) PROVE Seeded(list, i)
<1>1. CASE i < Period
  BY <1>1 DEF SeedAt, Seeded
<1>2. CASE ~(i < Period)
  <2> DEFINE closes == [k \in 1 .. Period |-> list[i - Period + k].endedAt]
  <2>1. list[i].ema = <<"seed", closes>>
    BY <1>2 DEF SeedAt
  <2>2. DOMAIN closes = 1 .. Period
    OBVIOUS
  <2>3. \A k \in 1 .. Period : closes[k] = list[i - Period + k].endedAt
    OBVIOUS
  <2> HIDE DEF closes
  <2>4. list[i].ema # Null /\ list[i].ema[2] = closes
    BY <2>1 DEF Null
  <2>5. IsSeed(list[i].ema, list, i)
    BY <2>1, <2>2, <2>3, <2>4 DEF IsSeed
  <2> QED
    BY <2>4, <2>5 DEF Seeded
<1> QED
  BY <1>1, <1>2

\* A recursive filter has a value for every candle that follows the one before.
LEMMA FilterIsThere ==
  ASSUME NEW p, NEW c, IsCandle(c), c.speed # NaN,
         p = Nothing \/ (p.receivedAt \in Int /\ p.receivedAt < c.receivedAt)
  PROVE  NextFilter(p, c) # Null
<1>1. p # Nothing => ~(c.receivedAt < p.receivedAt) /\ c.receivedAt # p.receivedAt
  BY DEF IsCandle
<1> QED
  BY <1>1 DEF NextFilter, Null

\* A filter's state, of an item, is there.
LEMMA StateIsSomething ==
  ASSUME NEW r PROVE FilterOf(r) # Nothing /\ FilterOf(r).receivedAt = r.receivedAt
<1>1. DOMAIN FilterOf(r) = {"value", "receivedAt"}
  BY DEF FilterOf
<1>2. DOMAIN Nothing = {"nothing"}
  BY DEF Nothing
<1>3. FilterOf(r).receivedAt = r.receivedAt
  BY DEF FilterOf
<1>4. "value" # "nothing" /\ "value" \in {"value", "receivedAt"}
  OBVIOUS
<1> QED
  BY <1>1, <1>2, <1>3, <1>4

\* The indicators' values, where only the newest item has changed.
LEMMA NewestAfter ==
  ASSUME NEW g, Living(g), phase = "recalculate", Orderly, Fresh,
         NEW r, r = Recalculated, NEW more, emaState = Null => items[Len(items)].endedAt \in more
  PROVE  LET N == Len(items)
         IN  /\ r[N].filter # Null
             /\ N > 1 => /\ EmaOK(r, N, more)
                         /\ r[N].filter = NextFilter(FilterOf(r[N - 1]), r[N])
             /\ filterState # Nothing => ~(r[N].receivedAt <= filterState.receivedAt)
<1> DEFINE N == Len(items)
<1>1. /\ Candles(items) /\ transitory \subseteq 1 .. N /\ transitory # {} /\ N > 0 /\ N \in Nat
      /\ OnlyNewest /\ transitory = {N} /\ FirstAffected = N /\ DOMAIN items = 1 .. N
  BY ChangedFacts, LivingFacts DEF Living, EntityShapes
<1>2. N \in 1 .. N /\ (N > 1 => N - 1 \in 1 .. N /\ N - 1 < N /\ N - 1 # N)
  BY <1>1
<1>3. /\ N > 1 => r[N - 1] = items[N - 1]
      /\ r[N].ema = SingleEma(r)
  BY <1>1, <1>2, RecalculatedIs
<1>4. /\ IsCandle(r[N]) /\ SameTimes(r[N], items[N]) /\ Len(r) = N
      /\ N > 1 => /\ IsCandle(r[N - 1]) /\ SameTimes(r[N - 1], items[N - 1])
                  /\ r[N - 1] # Nothing /\ items[N - 1].receivedAt < items[N].receivedAt
  BY <1>2, AfterIs
<1>5. r[N].speed # NaN
  BY <1>2, CandlesAfter
<1>6. items[N].filter = Null
  BY DEF Living, RecordsRight
<1>7. N > 1 => items[N - 1].filter # Null
  BY <1>1, <1>2 DEF Living, IndicatorsRight
<1>8. /\ emaState # Null => N > 1 /\ emaState = items[N - 1].ema
      /\ filterState # Nothing => N > 1 /\ filterState = FilterOf(items[N - 1])
  <2>1. Newest = N - 1 /\ (N - 1 > 0 => N > 1)
    BY <1>1 DEF Newest
  <2> QED
    BY <2>1 DEF Living, StatesRight
<1>9. /\ r[N].receivedAt = items[N].receivedAt /\ r[N].endedAt = items[N].endedAt
      /\ items[N].receivedAt \in Int
      /\ N > 1 => r[N - 1].receivedAt = items[N - 1].receivedAt /\ r[N - 1].receivedAt \in Int
  BY <1>4 DEF SameTimes, IsCandle
<1>10. N > 1 => FilterOf(r[N - 1]).receivedAt = r[N - 1].receivedAt
                /\ FilterOf(r[N - 1]) # Nothing
  BY StateIsSomething
<1>11. filterState # Nothing =>
         /\ filterState = FilterOf(r[N - 1]) /\ N > 1
         /\ ~(items[N].receivedAt <= filterState.receivedAt)
  BY <1>3, <1>4, <1>8, <1>9, <1>10
<1>12. r[N].filter = NextFilter(IF N > 1 THEN FilterOf(r[N - 1]) ELSE Nothing, r[N])
  <2>1. r[N].filter = NextFilter(IF filterState # Nothing THEN filterState
                                 ELSE IF N > 1 THEN FilterOf(items[N - 1]) ELSE Nothing, r[N])
    BY <1>1, <1>6, <1>7, <1>11, NewestFilterIs
  <2>2. (IF filterState # Nothing THEN filterState
         ELSE IF N > 1 THEN FilterOf(items[N - 1]) ELSE Nothing)
          = (IF N > 1 THEN FilterOf(r[N - 1]) ELSE Nothing)
    BY <1>3, <1>11
  <2> QED
    BY <2>1, <2>2
<1>13. r[N].filter # Null
  <2>1. CASE N > 1
    <3>1. NextFilter(FilterOf(r[N - 1]), r[N]) # Null
      BY <1>4, <1>5, <1>9, <1>10, <2>1, FilterIsThere
    <3> QED
      BY <1>12, <2>1, <3>1
  <2>2. CASE ~(N > 1)
    <3>1. NextFilter(Nothing, r[N]) # Null
      BY <1>4, <1>5, FilterIsThere
    <3> QED
      BY <1>12, <2>2, <3>1
  <2> QED
    BY <2>1, <2>2
<1>14. ASSUME N > 1 PROVE EmaOK(r, N, more)
  <2>1. Last(r) = r[N]
    BY <1>4 DEF Last
  <2>2. CASE emaState = Null
    <3>1. r[N].ema = SeedAt(r, N)
      BY <1>3, <1>4, <2>2 DEF SingleEma
    <3>2. Seeded(r, N)
      BY <3>1, SeedIsSeeded
    <3> QED
      BY <1>9, <2>2, <3>2 DEF EmaOK
  <2>3. CASE emaState # Null
    <3>1. r[N].ema = Ema(r[N - 1].ema, r[N]) /\ r[N - 1].ema # Null
      BY <1>3, <1>8, <1>14, <2>1, <2>3 DEF SingleEma
    <3> QED
      BY <3>1 DEF EmaOK
  <2> QED
    BY <2>2, <2>3
<1> QED
  BY <1>9, <1>11, <1>12, <1>13, <1>14

\* All of the indicators' values, after a recalculation.
LEMMA IndicatorsAfter ==
  ASSUME NEW g, Living(g), phase = "recalculate", Orderly,
         NEW r, r = Recalculated, NEW i \in 1 .. Len(items), NEW more, seeded \subseteq more,
         Fresh /\ emaState = Null => items[Len(items)].endedAt \in more
  PROVE  /\ r[i].filter # Null
         /\ i > 1 => /\ EmaOK(r, i, more)
                     /\ r[i].filter = NextFilter(FilterOf(r[i - 1]), r[i])
                     /\ r[i].marketPhase = NextPhase(r[i - 1], r[i])
<1> DEFINE N == Len(items)
           F == FirstAffected
<1>1. /\ Candles(items) /\ transitory \subseteq 1 .. N /\ transitory # {} /\ N > 0 /\ N \in Nat
      /\ OnlyNewest <=> Fresh /\ DOMAIN items = 1 .. N
      /\ F \in transitory /\ \A j \in transitory : F <= j
      /\ Fresh => transitory = {N}
  BY ChangedFacts, LivingFacts DEF Living, EntityShapes
<1>2. \A j \in 1 .. N :
        /\ j < F => r[j] = items[j]
        /\ j >= F =>
             /\ r[j].marketPhase = NextPhase(Before(r, j), r[j])
             /\ ~OnlyNewest =>
                  /\ r[j].ema = IF Before(r, j) = Nothing THEN SeedAt(r, j)
                                ELSE IF Before(r, j).ema = Null THEN SeedAt(r, j)
                                ELSE Ema(Before(r, j).ema, r[j])
                  /\ r[j].filter = NextFilter(IF Before(r, j) = Nothing THEN Nothing
                                              ELSE FilterOf(Before(r, j)), r[j])
  BY <1>1, RecalculatedIs
<1>3. /\ IsCandle(r[i]) /\ SameTimes(r[i], items[i])
      /\ i > 1 => /\ i - 1 \in 1 .. N /\ Before(r, i) = r[i - 1]
                  /\ IsCandle(r[i - 1]) /\ SameTimes(r[i - 1], items[i - 1])
                  /\ r[i - 1] # Nothing
                  /\ items[i - 1].receivedAt < items[i].receivedAt
      /\ ~(i > 1) => Before(r, i) = Nothing
  BY AfterIs
<1>4. F \in 1 .. N
  BY <1>1
<1> HIDE DEF F
<1>5. CASE i < F
  <2>1. \A j \in transitory : i < j
    BY <1>1, <1>4, <1>5
  <2>2. /\ items[i].filter # Null
        /\ i > 1 =>
             /\ EmaOK(items, i, seeded)
             /\ items[i].filter = NextFilter(FilterOf(items[i - 1]), items[i])
             /\ items[i].marketPhase = NextPhase(items[i - 1], items[i])
    BY <1>1, <2>1 DEF Living, IndicatorsRight
  <2>3. r[i] = items[i] /\ (i > 1 => r[i - 1] = items[i - 1])
    BY <1>2, <1>3, <1>4, <1>5
  <2>4. ASSUME i > 1 PROVE EmaOK(r, i, more)
    <3>1. \A j \in 1 .. i : r[j] = items[j + 0]
      <4> TAKE j \in 1 .. i
      <4>1. j \in 1 .. N /\ j < F /\ j + 0 = j
        BY <1>1, <1>4, <1>5
      <4> QED
        BY <1>2, <4>1
    <3>2. EmaOK(items, i + 0, seeded) /\ i \in Nat /\ 0 \in Nat
      BY <2>2, <2>4
    <3> HIDE DEF N
    <3> QED
      BY <2>4, <3>1, <3>2, EmaMoves
  <2> QED
    BY <2>2, <2>3, <2>4
<1>6. CASE ~(i < F)
  <2>0. i >= F
    BY <1>4, <1>6
  <2>1. i > 1 => r[i].marketPhase = NextPhase(r[i - 1], r[i])
    BY <1>2, <1>3, <2>0
  <2>2. CASE Fresh
    <3>1. i = N
      BY <1>1, <1>4, <2>0, <2>2
    <3> QED
      BY <2>1, <2>2, <3>1, NewestAfter
  <2>3. CASE ~Fresh
    <3>1. r[i].speed # NaN
      BY CandlesAfter
    <3>2. CASE i > 1
      <4>1. /\ r[i].filter = NextFilter(FilterOf(r[i - 1]), r[i])
            /\ r[i].ema = IF r[i - 1].ema = Null THEN SeedAt(r, i) ELSE Ema(r[i - 1].ema, r[i])
        BY <1>1, <1>2, <1>3, <2>0, <2>3, <3>2
      <4>2. FilterOf(r[i - 1]).receivedAt \in Int
            /\ FilterOf(r[i - 1]).receivedAt < r[i].receivedAt
        BY <1>3, <3>2, StateIsSomething DEF SameTimes, IsCandle
      <4>3. NextFilter(FilterOf(r[i - 1]), r[i]) # Null
        BY <1>3, <3>1, <4>2, FilterIsThere
      <4>4. EmaOK(r, i, more)
        <5>1. CASE r[i - 1].ema = Null
          BY <4>1, <5>1, SeedIsSeeded DEF EmaOK
        <5>2. CASE r[i - 1].ema # Null
          BY <4>1, <5>2 DEF EmaOK
        <5> QED
          BY <5>1, <5>2
      <4> QED
        BY <2>1, <4>1, <4>3, <4>4
    <3>3. CASE ~(i > 1)
      <4>1. r[i].filter = NextFilter(Nothing, r[i])
        BY <1>1, <1>2, <1>3, <2>0, <2>3, <3>3
      <4> QED
        BY <1>3, <3>1, <3>3, <4>1, FilterIsThere
    <3> QED
      BY <3>2, <3>3
  <2> QED
    BY <2>2, <2>3
<1> QED
  BY <1>5, <1>6

\* Recalculate leaves items in order, their values what the formulas give, and
\* nothing that is changed.
LEMMA RecalculateKeeps ==
  ASSUME NEW g, EntitiesInv(g), Recalculate PROVE EntitiesInv(g)'
<1> DEFINE N == Len(items)
           r == Recalculated
<1>1. Living(g) /\ phase = "recalculate" /\ ~reported /\ Orderly
  BY DEF EntitiesInv, Recalculate, Orderly
<1>2. /\ items' = r /\ emaState' = EmaStateAfter(r) /\ filterState' = FilterStateAfter(r)
      /\ seeded' = IF OnlyNewest /\ emaState = Null
                      THEN seeded \cup {Last(items).endedAt} ELSE seeded
      /\ reported' = (reported \/ CandlesReport) /\ phase' = "aggregate" /\ transitory' = {}
      /\ deleted' = <<>> /\ UNCHANGED <<counts, level, maxCount, now>>
  BY DEF Recalculate, Recalculated
<1>3. ~reported'
  BY <1>1, <1>2, ReportsNothing
<1> HIDE DEF r
<1>0. r = Recalculated
  BY DEF r
<1>4. /\ N \in Nat /\ N > 0 /\ DOMAIN items = 1 .. N /\ \A i \in 1 .. N : IsCandle(items[i])
      /\ counts \in [Levels -> Nat] /\ N = LevelEnd(0) - 1
      /\ level \in Levels /\ maxCount \in Releases /\ now \in Int
      /\ OnlyNewest <=> Fresh
  BY <1>1, LivingFacts, ChangedFacts
<1>5. \A i \in 1 .. N :
        /\ IsCandle(r[i]) /\ r[i].receivedAt = items[i].receivedAt
        /\ r[i].startedAt = items[i].startedAt /\ r[i].endedAt = items[i].endedAt
        /\ Len(r) = N /\ Candles(r) /\ DOMAIN r = 1 .. N
  BY <1>0, <1>1, AfterIs DEF SameTimes
<1>6. /\ N \in 1 .. N /\ Len(r) = N /\ DOMAIN r = 1 .. N /\ Candles(r) /\ r # <<>>
  <2>1. N \in 1 .. N
    BY <1>4
  <2>2. Len(r) = N /\ DOMAIN r = 1 .. N /\ Candles(r)
    BY <1>5, <2>1
  <2>3. r # <<>>
    BY <1>4, <2>2
  <2> QED
    BY <2>1, <2>2, <2>3
<1>7. ~Fresh' /\ LevelStart(0)' = LevelStart(0) /\ LevelEnd(0)' = LevelEnd(0)
  BY <1>2 DEF Fresh, LevelStart, LevelEnd
<1>8. EntityShapes'
  <2>1. Candles(items')
    BY <1>2, <1>6
  <2>2. Len(items') = LevelEnd(0)' - 1 /\ items' # <<>>
    BY <1>2, <1>4, <1>6, <1>7
  <2> QED
    BY <1>2, <1>4, <2>1, <2>2 DEF EntityShapes, Candles, IsCandle
<1>9. NewestIsTick'
  <2>1. NewestIsTick /\ items # <<>>
    BY <1>1 DEF Living, EntityShapes
  <2>2. counts'[0] > 0 /\ items'[Len(items')].endedAt = now'
    BY <1>2, <1>5, <1>6, <2>1 DEF NewestIsTick
  <2>3. \A i \in DOMAIN items' : i >= LevelStart(0)' => items'[i].startedAt = items'[i].endedAt
    BY <1>2, <1>4, <1>5, <1>6, <1>7, <2>1 DEF NewestIsTick
  <2> QED
    BY <1>7, <2>2, <2>3 DEF NewestIsTick
<1>10. AllSpanned'
  <2>1. \A i \in 1 .. N : Spanned(items[i])
    BY <1>1, <1>4 DEF Living, AllSpanned
  <2>2. \A i \in 1 .. N : Spanned(r[i])
    BY <1>5, <2>1 DEF Spanned
  <2> QED
    BY <1>2, <1>6, <2>2 DEF AllSpanned, Spanned
<1>11. Ordered(g)'
  <2>1. ASSUME NEW i \in 2 .. N
        PROVE  /\ r[i - 1].endedAt < r[i].startedAt
               /\ i > LevelStart(0) => r[i].endedAt >= r[i - 1].endedAt + g
    <3>1. i \in 1 .. N /\ i - 1 \in 1 .. N
      BY <1>4
    <3>2. /\ items[i - 1].endedAt < items[i].startedAt
          /\ i > LevelStart(0) => items[i].endedAt >= items[i - 1].endedAt + g
      BY <1>1, AllInOrder DEF Orderly
    <3> QED
      BY <1>5, <3>1, <3>2
  <2> QED
    BY <1>2, <1>6, <1>7, <2>1 DEF Ordered
<1>12. RecordsRight'
  <2>1. IsList(<<>>) /\ DOMAIN <<>> = {}
    BY DEF IsList
  <2> QED
    BY <1>2, <1>7, <2>1 DEF RecordsRight, IsList
<1>13. CandlesRight'
  <2>1. \A i \in 1 .. N : /\ r[i].price # NaN /\ r[i].speed # NaN
                          /\ i > 1 => SpeedOK(r, i) /\ AccelerationOK(r, i)
    BY <1>0, <1>1, CandlesAfter
  <2>2. \A i \in 2 .. N : i \in 1 .. N /\ i > 1
    BY <1>4
  <2> QED
    BY <1>2, <1>6, <2>1, <2>2 DEF CandlesRight
<1>14. \A i \in 1 .. N :
         /\ r[i].filter # Null
         /\ i > 1 => /\ EmaOK(r, i, seeded')
                     /\ r[i].filter = NextFilter(FilterOf(r[i - 1]), r[i])
                     /\ r[i].marketPhase = NextPhase(r[i - 1], r[i])
  <2>1. seeded \subseteq seeded'
    BY <1>2
  <2>2. Fresh /\ emaState = Null => items[N].endedAt \in seeded'
    <3>1. Last(items) = items[N]
      BY DEF Last
    <3> QED
      BY <1>2, <1>4, <3>1
  <2> QED
    BY <1>0, <1>1, <2>1, <2>2, IndicatorsAfter
<1>15. IndicatorsRight'
  BY <1>2, <1>6, <1>14 DEF IndicatorsRight
<1>16. StatesRight'
  <2>1. Newest' = N
    BY <1>2, <1>6, <1>7 DEF Newest
  <2>2. Last(r) = r[N]
    BY <1>6 DEF Last
  <2>3. emaState' = r[N].ema
    BY <1>2, <2>2 DEF EmaStateAfter
  <2>4. filterState' = FilterOf(r[N])
    <3>1. ~(OnlyNewest /\ filterState # Nothing /\ r[N].receivedAt <= filterState.receivedAt)
      <4>1. CASE Fresh
        <5>1. \E more : emaState = Null => items[N].endedAt \in more
          <6>1. items[N].endedAt \in {items[N].endedAt}
            OBVIOUS
          <6> QED
            BY <6>1
        <5> QED
          BY <1>0, <1>1, <4>1, <5>1, NewestAfter
      <4>2. CASE ~Fresh
        BY <1>4, <4>2
      <4> QED
        BY <4>1, <4>2
    <3>2. r[N].filter # Null
      BY <1>6, <1>14
    <3> QED
      BY <1>2, <2>2, <3>1, <3>2 DEF FilterStateAfter
  <2> QED
    BY <1>2, <1>4, <2>1, <2>3, <2>4 DEF StatesRight
<1> QED
  BY <1>2, <1>3, <1>8, <1>9, <1>10, <1>11, <1>12, <1>13, <1>15, <1>16 DEF EntitiesInv, Living

-----------------------------------------------------------------------------
(* Entities: what the invariant says of a state, and of every state.        *)

LEMMA EntitiesStep ==
  ASSUME NEW g, LevelZeroFits(g), EntitiesInv(g), NextEntities PROVE EntitiesInv(g)'
<1>1. ASSUME NEW gap \in Gaps, ReceiveTick(gap) PROVE EntitiesInv(g)'
  BY <1>1, ReceiveTickKeeps
<1>2. CASE Recalculate
  BY <1>2, RecalculateKeeps
<1>3. CASE RecalculateThrows
  BY <1>3, RecalculateThrowsKeeps
<1>4. CASE AggregateBucket
  BY <1>4, AggregateBucketKeeps
<1>5. CASE NextLevel
  BY <1>5, NextLevelKeeps
<1>6. CASE TrimMaxLevel
  BY <1>6, TrimMaxLevelKeeps
<1>7. CASE RemoveMarket
  BY <1>7, RemoveMarketKeeps
<1>8. CASE Restart
  BY <1>8, RestartKeeps
<1> QED
  BY <1>1, <1>2, <1>3, <1>4, <1>5, <1>6, <1>7, <1>8 DEF NextEntities

LEMMA RecordsAreRight ==
  ASSUME NEW g, EntitiesInv(g) PROVE DeletedAreOfTheirAggregate
<1> SUFFICES ASSUME phase = "recalculate"
             PROVE  /\ \A k \in DOMAIN deleted :
                         LET item == items[deleted[k].index]
                         IN  /\ item.startedAt = Head(deleted[k].values).startedAt
                             /\ item.endedAt = Last(deleted[k].values).endedAt
                    /\ \A j, k \in DOMAIN deleted :
                         deleted[j].index = deleted[k].index => j = k
                    /\ \A i \in DOMAIN items : items[i].price = NaN => Records(i) # {}
  BY DEF DeletedAreOfTheirAggregate
<1>1. Living(g)
  BY DEF EntitiesInv
<1>2. ASSUME NEW k \in DOMAIN deleted
      PROVE  LET item == items[deleted[k].index]
             IN  /\ item.startedAt = Head(deleted[k].values).startedAt
                 /\ item.endedAt = Last(deleted[k].values).endedAt
  <2> DEFINE values == deleted[k].values
  <2>1. IsRecord(deleted[k], items, transitory)
    BY <1>1 DEF Living, RecordsRight
  <2>2. /\ Candles(values) /\ values # <<>> /\ items[deleted[k].index] = Aggregate(values)
        /\ \A m \in DOMAIN values : Spanned(values[m])
        /\ Len(values) > 1 => values[1].startedAt < values[Len(values)].endedAt
    BY <2>1 DEF IsRecord
  <2> HIDE DEF values
  <2>3. /\ Len(values) \in Nat /\ DOMAIN values = 1 .. Len(values) /\ Len(values) > 0
        /\ Head(values) = values[1] /\ Last(values) = values[Len(values)]
    <3>1. IsList(values) /\ values \in Seq(Range(values))
      BY <2>2 DEF Candles, IsList
    <3>2. Len(values) \in Nat /\ DOMAIN values = 1 .. Len(values)
      BY <3>1, ListFacts
    <3>3. Len(values) # 0 /\ Head(values) = values[1]
      BY <2>2, <3>1
    <3> QED
      BY <3>2, <3>3 DEF Last
  <2>4. /\ Aggregate(values).startedAt = values[1].startedAt
        /\ Aggregate(values).endedAt = values[Len(values)].endedAt
    BY <2>2, <2>3, AggregateIs
  <2> QED
    BY <2>2, <2>3, <2>4 DEF values
<1>3. \A j, k \in DOMAIN deleted : deleted[j].index = deleted[k].index => j = k
  BY <1>1 DEF Living, RecordsRight
<1>4. ASSUME NEW i \in DOMAIN items, items[i].price = NaN PROVE Records(i) # {}
  <2>1. i \in 1 .. Len(items)
    BY <1>1, LivingFacts
  <2>2. ~(Fresh \/ i \notin transitory)
    BY <1>1, <1>4, <2>1, PriceIs
  <2>3. \E k \in DOMAIN deleted : deleted[k].index = i /\ Records(i) = {k}
    BY <1>1, <2>1, <2>2, PriceIs
  <2> QED
    BY <2>3
<1> QED
  BY <1>2, <1>3, <1>4

LEMMA ItemsAreInOrder ==
  ASSUME NEW g, EntitiesInv(g) PROVE OrderedOrEnded
<1>1. OrderedByTime
  <2> SUFFICES ASSUME phase = "idle", NEW i \in 2 .. Len(items)
               PROVE  items[i - 1].endedAt < items[i].startedAt
    BY DEF OrderedByTime
  <2>1. Living(g) /\ ~Fresh
    BY DEF EntitiesInv, Fresh
  <2> QED
    BY <2>1, TimesFollow
<1>2. EndsOnlyByClock
  BY DEF EntitiesInv, EndsOnlyByClock
<1> QED
  BY <1>1, <1>2 DEF OrderedOrEnded

LEMMA ValuesAreRight ==
  ASSUME NEW g, EntitiesInv(g) PROVE RecalculationComplete
<1>1. NothingReported
  BY DEF EntitiesInv, NothingReported
<1>2. EntitiesTyped
  <2>1. CASE phase = "ended"
    BY <2>1 DEF EntitiesInv
  <2>2. CASE phase # "ended"
    <3>1. Living(g)
      BY <2>2 DEF EntitiesInv
    <3>2. \A k \in DOMAIN deleted : deleted[k].index \in DOMAIN items
      BY <3>1 DEF Living, RecordsRight, IsRecord
    <3> QED
      BY <3>1, <3>2, LivingFacts DEF EntitiesTyped, Living, EntityShapes
  <2> QED
    BY <2>1, <2>2
<1>3. ASSUME phase = "idle"
      PROVE  /\ Len(items) \in Nat /\ DOMAIN items = 1 .. Len(items)
             /\ \A i \in 1 .. Len(items) :
                  items[i].price # NaN /\ items[i].speed # NaN /\ items[i].filter # Null
             /\ \A i \in 2 .. Len(items) :
                  /\ i \in 1 .. Len(items) /\ i > 1
                  /\ SpeedOK(items, i) /\ AccelerationOK(items, i) /\ EmaOK(items, i, seeded)
                  /\ items[i].filter = NextFilter(FilterOf(items[i - 1]), items[i])
                  /\ items[i].marketPhase = NextPhase(items[i - 1], items[i])
             /\ emaState # Null => items # <<>> /\ emaState = items[Len(items)].ema
             /\ filterState # Nothing =>
                  items # <<>> /\ filterState = FilterOf(items[Len(items)])
  <2>1. Living(g)
    BY <1>3 DEF EntitiesInv
  <2>2. ~Fresh /\ transitory = {}
    BY <1>3, <2>1, IdleFacts
  <2>3. Len(items) \in Nat /\ DOMAIN items = 1 .. Len(items)
    BY <2>1, LivingFacts
  <2>4. \A i \in 2 .. Len(items) : i \in DOMAIN items /\ i > 1
    BY <2>3
  <2>5. Newest = Len(items) /\ (Len(items) > 0 => items # <<>>)
    BY <2>2 DEF Newest
  <2> QED
    BY <2>1, <2>2, <2>3, <2>4, <2>5
       DEF Living, CandlesRight, IndicatorsRight, StatesRight
<1>4. SpeedsCurrent
  <2> SUFFICES ASSUME phase = "idle", NEW i \in DOMAIN items
               PROVE  /\ items[i].price # NaN
                      /\ i > 1 => items[i].speed = Speed(items[i - 1], items[i], items[i].price)
    BY DEF SpeedsCurrent
  <2>1. i > 1 => i \in 2 .. Len(items)
    BY <1>3
  <2> QED
    BY <1>3, <2>1 DEF SpeedOK
<1>5. AccelerationsCurrent
  BY <1>3 DEF AccelerationsCurrent, AccelerationOK, BehindAggregate, LateAcceleration
<1>6. EmaFollows
  BY <1>3 DEF EmaFollows, EmaOK
<1>7. FilterFollows /\ PhaseFollows
  BY <1>3 DEF FilterFollows, PhaseFollows
<1>8. StatesAreOfNewest
  BY <1>3 DEF StatesAreOfNewest, Last
<1> QED
  BY <1>1, <1>2, <1>4, <1>5, <1>6, <1>7, <1>8 DEF RecalculationComplete

LEMMA EntitiesInvariant ==
  ASSUME NEW g, LevelZeroFits(g) PROVE SpecEntities => []EntitiesInv(g)
<1>1. InitEntities => EntitiesInv(g)
  BY EntitiesInit
<1>2. EntitiesInv(g) /\ [NextEntities]_entityVars => EntitiesInv(g)'
  BY EntitiesStep, EntitiesStutter
<1> QED
  BY <1>1, <1>2, PTL DEF SpecEntities

\* When the candles are calculated, every record of deleted candles is at the
\* aggregate of just those, however many buckets were moved up since
\* (candle.ts, lazy-array.ts).
THEOREM DeletedAlwaysOfTheirAggregate ==
  ASSUME NEW g, LevelZeroFits(g) PROVE SpecEntities => []DeletedAreOfTheirAggregate
<1>1. EntitiesInv(g) => DeletedAreOfTheirAggregate
  BY RecordsAreRight
<1> QED
  BY <1>1, EntitiesInvariant, PTL

\* Between ticks the items follow each other in time, and the market phase ends
\* the process only for a clock that stepped back.
THEOREM AlwaysOrderedOrEnded ==
  ASSUME NEW g, LevelZeroFits(g) PROVE SpecEntities => []OrderedOrEnded
<1>1. EntitiesInv(g) => OrderedOrEnded
  BY ItemsAreInOrder
<1> QED
  BY <1>1, EntitiesInvariant, PTL

\* What a tick changed is all recalculated: between ticks every value of every
\* entity is the one its formula gives from the items as they are.
THEOREM RecalculationAlwaysComplete ==
  ASSUME NEW g, LevelZeroFits(g) PROVE SpecEntities => []RecalculationComplete
<1>1. EntitiesInv(g) => RecalculationComplete
  BY ValuesAreRight
<1> QED
  BY <1>1, EntitiesInvariant, PTL
=============================================================================
