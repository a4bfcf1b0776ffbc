----------------------- MODULE StorageStructureProofs -----------------------
(***************************************************************************)
(* Lemmas about the operators of StorageStructure: least and greatest      *)
(* elements, the partial sums of the chunk set sizes, and what adding and  *)
(* deleting items does to chunk sets, to their index metadata and to what  *)
(* is read by flat index.                                                  *)
(***************************************************************************)
EXTENDS StorageStructure, WellFoundedInduction, TLAPS

-----------------------------------------------------------------------------
(* The natural numbers are well ordered.                                   *)

\* A non-empty set of natural numbers has a least element.
LEMMA LeastElement ==
  ASSUME NEW S \in SUBSET Nat, S # {}
  PROVE  \E m \in S : \A x \in S : m <= x
<1> DEFINE R == OpToRel(<, Nat)
<1>1. IsWellFoundedOn(R, Nat)
  BY NatLessThanWellFounded
<1>2. \A a, b \in Nat : a < b => <<a, b>> \in R
  BY DEF OpToRel
<1> HIDE DEF R
<1>3. PICK m \in S : \A y \in S : ~ (<<y, m>> \in R)
  BY <1>1, WFMin
<1>4. \A x \in S : ~ (x < m)
  <2> TAKE x \in S
  <2>1. x \in Nat /\ m \in Nat
    OBVIOUS
  <2>2. QED
    BY <2>1, <1>2, <1>3, Zenon
<1>5. QED
  BY <1>4

\* Min is that element.
LEMMA MinIsLeast ==
  ASSUME NEW S \in SUBSET Nat, S # {}
  PROVE  Min(S) \in S /\ \A x \in S : Min(S) <= x
<1>1. \E m \in S : \A x \in S : m <= x
  BY LeastElement
<1>2. QED
  BY <1>1 DEF Min

\* A non-empty set of natural numbers below a bound has a greatest element,
\* and Max is it.
LEMMA MaxIsGreatest ==
  ASSUME NEW S \in SUBSET Nat, S # {}, NEW bound \in Nat, \A x \in S : x <= bound
  PROVE  Max(S) \in S /\ \A x \in S : x <= Max(S)
<1> DEFINE T == {bound - x : x \in S}
<1>0. \A x \in S : bound - x \in Nat
  OBVIOUS
<1>1. T \in SUBSET Nat /\ T # {}
  BY <1>0
<1>2. PICK m \in T : \A y \in T : m <= y
  BY <1>1, LeastElement
<1>3. PICK g \in S : m = bound - g
  OBVIOUS
<1>4. \A x \in S : x <= g
  <2> TAKE x \in S
  <2>1. bound - x \in T
    OBVIOUS
  <2>2. QED
    BY <2>1, <1>2, <1>3
<1>5. QED
  BY <1>4 DEF Max

\* Induction on the natural numbers, for a set of them.
LEMMA SetInduction ==
  ASSUME NEW S \in SUBSET Nat, 0 \in S, \A n \in S : n + 1 \in S
  PROVE  S = Nat
<1> SUFFICES ASSUME Nat \ S # {} PROVE FALSE
  OBVIOUS
<1>1. PICK m \in Nat \ S : \A x \in Nat \ S : m <= x
  BY LeastElement
<1>2. m - 1 \in S
  BY <1>1
<1>3. QED
  BY <1>1, <1>2

-----------------------------------------------------------------------------
(* Partial sums.                                                           *)


\* Every sequence of numbers has a function of partial sums.
LEMMA SumsExist ==
  ASSUME NEW N \in Nat, NEW a \in [1 .. N -> Nat]
  PROVE  \E f \in [0 .. N -> Nat] :
           f[0] = 0 /\ \A i \in 1 .. N : f[i] = f[i - 1] + a[i]
<1> DEFINE Sums(n, f) ==
             /\ f \in [0 .. n -> Nat]
             /\ f[0] = 0
             /\ \A i \in 1 .. n : f[i] = f[i - 1] + a[i]
           G == {n \in Nat : n <= N => \E f : Sums(n, f)}
<1>1. 0 \in G
  <2>1. Sums(0, [i \in 0 .. 0 |-> 0])
    OBVIOUS
  <2> HIDE DEF Sums
  <2>2. QED
    BY <2>1
<1>2. ASSUME NEW n \in G PROVE n + 1 \in G
  <2>0. n \in Nat /\ (n <= N => \E f : Sums(n, f))
    BY Zenon
  <2> SUFFICES ASSUME n + 1 <= N PROVE \E f : Sums(n + 1, f)
    <3> HIDE DEF Sums
    <3> QED BY <2>0
  <2>1. n <= N
    BY <2>0
  <2>2. PICK f : Sums(n, f)
    BY <2>0, <2>1, Zenon
  <2> DEFINE g == [i \in 0 .. n + 1 |-> IF i <= n THEN f[i] ELSE f[n] + a[n + 1]]
  <2>3. f \in [0 .. n -> Nat] /\ a[n + 1] \in Nat
    BY <2>0, <2>2
  <2>4. g \in [0 .. n + 1 -> Nat]
    BY <2>0, <2>3
  <2>5. g[0] = 0
    BY <2>0, <2>2
  <2>6. ASSUME NEW i \in 1 .. n + 1 PROVE g[i] = g[i - 1] + a[i]
    <3>1. /\ i \in Int /\ 1 <= i /\ i <= n + 1
          /\ i \in 0 .. n + 1 /\ i - 1 \in 0 .. n + 1 /\ i - 1 <= n
      BY <2>0
    <3>2. g[i - 1] = f[i - 1]
      BY <3>1
    <3>3. CASE i <= n
      <4>1. i \in 1 .. n /\ g[i] = f[i]
        BY <3>1, <3>3, <2>0
      <4>2. QED
        BY <4>1, <3>2, <2>2
    <3>4. CASE i = n + 1
      <4>1. g[n + 1] = f[n] + a[n + 1]
        BY <3>1, <2>0
      <4>2. i - 1 = n
        BY <3>4, <2>0
      <4>3. QED
        BY <4>1, <4>2, <3>2, <3>4
    <3>5. QED
      BY <3>1, <3>3, <3>4, <2>0
  <2>7. Sums(n + 1, g)
    BY <2>4, <2>5, <2>6
  <2> HIDE DEF Sums, g
  <2>8. QED
    BY <2>7, Zenon
<1>3. G = Nat
  <2> HIDE DEF G
  <2>1. G \in SUBSET Nat
    BY DEF G
  <2>2. QED
    BY <1>1, <1>2, <2>1, SetInduction
<1>4. N \in G
  BY <1>3
<1>5. \E f : Sums(N, f)
  <2> HIDE DEF Sums
  <2> QED BY <1>4
<1>6. QED
  BY <1>5

\* Two functions of partial sums of the same numbers are equal.
LEMMA SumsUnique ==
  ASSUME NEW N \in Nat, NEW a,
         NEW f \in [0 .. N -> Nat], NEW g \in [0 .. N -> Nat],
         f[0] = 0 /\ \A i \in 1 .. N : f[i] = f[i - 1] + a[i],
         g[0] = 0 /\ \A i \in 1 .. N : g[i] = g[i - 1] + a[i]
  PROVE  f = g
<1> DEFINE G == {n \in Nat : n <= N => f[n] = g[n]}
<1>1. 0 \in G
  OBVIOUS
<1>2. ASSUME NEW n \in G PROVE n + 1 \in G
  <2>1. n \in Nat /\ (n <= N => f[n] = g[n])
    OBVIOUS
  <2>2. ASSUME n + 1 <= N PROVE f[n + 1] = g[n + 1]
    <3>1. n + 1 \in 1 .. N /\ (n + 1) - 1 = n
      BY <2>1, <2>2
    <3>2. QED
      BY <3>1, <2>1, <2>2
  <2>3. QED
    BY <2>1, <2>2
<1>3. G = Nat
  <2> HIDE DEF G
  <2>1. G \in SUBSET Nat
    BY DEF G
  <2>2. QED
    BY <1>1, <1>2, <2>1, SetInduction
<1>4. \A i \in 0 .. N : f[i] = g[i]
  <2> TAKE i \in 0 .. N
  <2>1. i \in G
    <3> HIDE DEF G
    <3> QED BY <1>3
  <2>2. QED
    BY <2>1
<1>5. QED
  BY <1>4

\* Partial sums never decrease.
LEMMA SumsMonotone ==
  ASSUME NEW N \in Nat, NEW a \in [1 .. N -> Nat], NEW f \in [0 .. N -> Nat],
         \A i \in 1 .. N : f[i] = f[i - 1] + a[i],
         NEW i \in 0 .. N, NEW j \in i .. N
  PROVE  f[i] <= f[j]
<1> DEFINE G == {n \in Nat : i + n <= N => f[i] <= f[i + n]}
<1>1. 0 \in G
  OBVIOUS
<1>2. ASSUME NEW n \in G PROVE n + 1 \in G
  <2>1. n \in Nat /\ (i + n <= N => f[i] <= f[i + n])
    OBVIOUS
  <2>2. ASSUME i + (n + 1) <= N PROVE f[i] <= f[i + (n + 1)]
    <3> DEFINE k == i + (n + 1)
    <3>1. k \in 1 .. N /\ k - 1 = i + n /\ k - 1 \in 0 .. N
      BY <2>1, <2>2
    <3>2. f[k] = f[k - 1] + a[k] /\ a[k] \in Nat /\ f[k - 1] \in Nat
      BY <3>1
    <3>3. f[i] <= f[k - 1]
      BY <2>1, <3>1
    <3>4. f[i] \in Nat
      OBVIOUS
    <3> HIDE DEF k
    <3>5. f[i] <= f[k]
      BY <3>2, <3>3, <3>4
    <3>6. QED
      BY <3>5 DEF k
  <2>3. QED
    BY <2>1, <2>2
<1>3. G = Nat
  <2> HIDE DEF G
  <2>1. G \in SUBSET Nat
    BY DEF G
  <2>2. QED
    BY <1>1, <1>2, <2>1, SetInduction
<1>4. j - i \in Nat /\ i + (j - i) = j /\ j <= N
  OBVIOUS
<1>5. j - i \in G
  <2> HIDE DEF G
  <2> QED BY <1>3, <1>4
<1>6. i + (j - i) <= N => f[i] <= f[i + (j - i)]
  BY <1>5
<1>7. QED
  BY <1>4, <1>6

\* SizeSums satisfies its own recurrence.
LEMMA SizeSumsRecurrence ==
  ASSUME NEW T, NEW cs \in Seq(T), \A i \in 1 .. Len(cs) : cs[i].size \in Nat
  PROVE  /\ SizeSums(cs) \in [0 .. Len(cs) -> Nat]
         /\ SizeSums(cs)[0] = 0
         /\ \A i \in 1 .. Len(cs) :
              SizeSums(cs)[i] = SizeSums(cs)[i - 1] + cs[i].size
<1> DEFINE N == Len(cs)
           a == [i \in 1 .. N |-> cs[i].size]
           Rec(f) == f = [i \in 0 .. N |-> IF i = 0 THEN 0
                                                    ELSE f[i - 1] + cs[i].size]
<1>1. N \in Nat /\ a \in [1 .. N -> Nat]
  OBVIOUS
<1>2. PICK f \in [0 .. N -> Nat] :
        f[0] = 0 /\ \A i \in 1 .. N : f[i] = f[i - 1] + a[i]
  <2> HIDE DEF a, N
  <2> QED BY <1>1, SumsExist
<1>3. Rec(f)
  <2>1. \A i \in 0 .. N : f[i] = IF i = 0 THEN 0 ELSE f[i - 1] + cs[i].size
    BY <1>1, <1>2
  <2>2. QED
    BY <2>1, <1>2
<1>4. SizeSums(cs) = CHOOSE g : Rec(g)
  BY DEF SizeSums
<1>5. Rec(SizeSums(cs))
  <2> HIDE DEF Rec
  <2> QED BY <1>3, <1>4, Zenon
<1> DEFINE s == SizeSums(cs)
<1> HIDE DEF s
<1>6. s = [i \in 0 .. N |-> IF i = 0 THEN 0 ELSE s[i - 1] + cs[i].size]
  BY <1>5 DEF s
<1>7. s[0] = 0 /\ \A i \in 1 .. N : s[i] = s[i - 1] + cs[i].size
  BY <1>1, <1>6
<1>8. s \in [0 .. N -> Nat]
  <2> DEFINE G == {n \in Nat : n <= N => s[n] \in Nat}
  <2>1. 0 \in G
    BY <1>7
  <2>2. ASSUME NEW n \in G PROVE n + 1 \in G
    <3>1. n \in Nat /\ (n <= N => s[n] \in Nat)
      OBVIOUS
    <3>2. ASSUME n + 1 <= N PROVE s[n + 1] \in Nat
      <4>1. n + 1 \in 1 .. N /\ (n + 1) - 1 = n
        BY <3>1, <3>2, <1>1
      <4>2. s[n + 1] = s[n] + cs[n + 1].size /\ cs[n + 1].size \in Nat
        BY <4>1, <1>7
      <4>3. QED
        BY <4>2, <3>1, <4>1
    <3>3. QED
      BY <3>1, <3>2
  <2>3. G = Nat
    <3> HIDE DEF G
    <3>1. G \in SUBSET Nat
      BY DEF G
    <3>2. QED
      BY <2>1, <2>2, <3>1, SetInduction
  <2>4. \A i \in 0 .. N : s[i] \in Nat
    BY <2>3, <1>1
  <2>5. QED
    BY <2>4, <1>6
<1>9. QED
  BY <1>7, <1>8 DEF s

\* A function that satisfies the recurrence is SizeSums.
LEMMA SizeSumsIs ==
  ASSUME NEW T, NEW cs \in Seq(T), \A i \in 1 .. Len(cs) : cs[i].size \in Nat,
         NEW f \in [0 .. Len(cs) -> Nat], f[0] = 0,
         \A i \in 1 .. Len(cs) : f[i] = f[i - 1] + cs[i].size
  PROVE  SizeSums(cs) = f
<1> DEFINE a == [i \in 1 .. Len(cs) |-> cs[i].size]
           s == SizeSums(cs)
<1>1. /\ s \in [0 .. Len(cs) -> Nat]
      /\ s[0] = 0
      /\ \A i \in 1 .. Len(cs) : s[i] = s[i - 1] + cs[i].size
  BY SizeSumsRecurrence
<1> HIDE DEF s
<1>2. /\ \A i \in 1 .. Len(cs) : s[i] = s[i - 1] + a[i]
      /\ \A i \in 1 .. Len(cs) : f[i] = f[i - 1] + a[i]
  BY <1>1
<1>3. Len(cs) \in Nat
  OBVIOUS
<1> HIDE DEF a
<1>4. f \in [0 .. Len(cs) -> Nat] /\ f[0] = 0
  OBVIOUS
<1>5. s = f
  BY ONLY <1>1, <1>2, <1>3, <1>4, SumsUnique
<1>6. QED
  BY <1>5 DEF s

-----------------------------------------------------------------------------
(* The positions kept beside the chunk sets.                               *)

\* The chunk set at the insertion index is the first with a lower level.
LEMMA InsertionIndexIsFirst ==
  ASSUME NEW T, NEW cs \in Seq(T), NEW level
  PROVE  LET at == ChunkSetInsertionIndex(cs, level)
         IN  /\ at \in 1 .. Len(cs) + 1
             /\ \A j \in 1 .. at - 1 : ~ (cs[j].level < level)
             /\ at <= Len(cs) => cs[at].level < level
<1> DEFINE S == {i \in DOMAIN cs : cs[i].level < level} \cup {Len(cs) + 1}
           at == Min(S)
<1>1. DOMAIN cs = 1 .. Len(cs) /\ Len(cs) \in Nat
  OBVIOUS
<1>2. S \in SUBSET Nat /\ S # {}
  BY <1>1
<1>3. at \in S /\ \A x \in S : at <= x
  <2> HIDE DEF S
  <2> QED BY <1>2, MinIsLeast
<1> HIDE DEF at
<1>4. at \in 1 .. Len(cs) + 1
  BY <1>1, <1>3
<1>5. \A j \in 1 .. at - 1 : ~ (cs[j].level < level)
  BY <1>1, <1>3, <1>4
<1>6. at <= Len(cs) => cs[at].level < level
  BY <1>1, <1>3
<1>7. QED
  BY <1>4, <1>5, <1>6 DEF at, ChunkSetInsertionIndex

\* A position with that property is the insertion index.
LEMMA InsertionIndexIs ==
  ASSUME NEW T, NEW cs \in Seq(T), NEW level, NEW p \in 1 .. Len(cs) + 1,
         \A j \in 1 .. p - 1 : ~ (cs[j].level < level),
         p <= Len(cs) => cs[p].level < level
  PROVE  ChunkSetInsertionIndex(cs, level) = p
<1> DEFINE at == ChunkSetInsertionIndex(cs, level)
<1>1. /\ at \in 1 .. Len(cs) + 1
      /\ \A j \in 1 .. at - 1 : ~ (cs[j].level < level)
      /\ at <= Len(cs) => cs[at].level < level
  BY InsertionIndexIsFirst
<1> HIDE DEF at
<1>2. Len(cs) \in Nat
  OBVIOUS
<1>3. ~ (at < p)
  BY <1>1, <1>2
<1>4. ~ (p < at)
  BY <1>1, <1>2
<1>5. QED
  BY <1>1, <1>2, <1>3, <1>4 DEF at

\* Where the chunk sets of level 0 begin.
LEMMA StartLevel0IndexType ==
  ASSUME NEW T, NEW cs \in Seq(T)
  PROVE  StartLevel0Index(cs) \in 1 .. Len(cs) + 1
<1> DEFINE S == {i \in 1 .. Len(cs) + 1 :
                   \A j \in i .. Len(cs) : cs[j].level = 0}
<1>1. Len(cs) \in Nat
  OBVIOUS
<1>2. Len(cs) + 1 \in S
  BY <1>1
<1>3. S \in SUBSET Nat /\ S # {}
  BY <1>1, <1>2
<1>4. Min(S) \in S
  <2> HIDE DEF S
  <2> QED BY <1>3, MinIsLeast
<1>5. QED
  BY <1>4 DEF StartLevel0Index

\* From startLevel0Index on all chunk sets are of level 0, and the one before is
\* not.
LEMMA StartLevel0IndexIsFirst ==
  ASSUME NEW T, NEW cs \in Seq(T)
  PROVE  LET a == StartLevel0Index(cs)
         IN  /\ a \in 1 .. Len(cs) + 1
             /\ \A j \in 1 .. Len(cs) : a <= j => cs[j].level = 0
             /\ a > 1 => cs[a - 1].level # 0
<1> DEFINE S == {i \in 1 .. Len(cs) + 1 :
                   \A j \in i .. Len(cs) : cs[j].level = 0}
           a == StartLevel0Index(cs)
<1>1. Len(cs) \in Nat
  OBVIOUS
<1>2. Len(cs) + 1 \in S
  BY <1>1
<1>3. S \in SUBSET Nat /\ S # {}
  BY <1>1, <1>2
<1>4. a \in S /\ \A x \in S : a <= x
  <2>1. a = Min(S)
    BY DEF StartLevel0Index
  <2> HIDE DEF S, a
  <2>2. QED
    BY <1>3, <2>1, MinIsLeast
<1> HIDE DEF a
<1>5. a \in 1 .. Len(cs) + 1 /\ \A j \in a .. Len(cs) : cs[j].level = 0
  BY <1>4
<1>6. \A j \in 1 .. Len(cs) : a <= j => j \in a .. Len(cs)
  BY <1>1, <1>5
<1>7. ASSUME a > 1, cs[a - 1].level = 0 PROVE FALSE
  <2>1. a - 1 \in 1 .. Len(cs) + 1 /\ ~ (a <= a - 1)
    BY <1>1, <1>5, <1>7
  <2>2. \A j \in a - 1 .. Len(cs) : j = a - 1 \/ j \in a .. Len(cs)
    BY <1>1, <1>5
  <2>3. \A j \in a - 1 .. Len(cs) : cs[j].level = 0
    BY <1>5, <1>7, <2>2
  <2>4. a - 1 \in S
    BY <2>1, <2>3
  <2>5. QED
    BY <1>4, <2>1, <2>4
<1>8. QED
  BY <1>5, <1>6, <1>7 DEF a

\* What a rebuild computes depends on the levels and the sizes alone.
LEMMA RebuildSame ==
  ASSUME NEW T, NEW cs \in Seq(T), NEW ds \in Seq(T), Len(ds) = Len(cs),
         \A i \in 1 .. Len(cs) : /\ cs[i].size \in Nat
                                 /\ ds[i].size = cs[i].size
                                 /\ ds[i].level = cs[i].level
  PROVE  RebuildIndexMetadata(ds) =
           [RebuildIndexMetadata(cs) EXCEPT !.chunkSets = ds]
<1>1. DOMAIN cs = 1 .. Len(cs) /\ DOMAIN ds = 1 .. Len(cs) /\ Len(cs) \in Nat
  OBVIOUS
<1>2. SizeSums(ds) = SizeSums(cs)
  <2>1. /\ SizeSums(cs) \in [0 .. Len(cs) -> Nat]
        /\ SizeSums(cs)[0] = 0
        /\ \A i \in 1 .. Len(cs) :
             SizeSums(cs)[i] = SizeSums(cs)[i - 1] + cs[i].size
    BY SizeSumsRecurrence
  <2> HIDE DEF SizeSums
  <2>2. \A i \in 1 .. Len(ds) :
          /\ ds[i].size \in Nat
          /\ SizeSums(cs)[i] = SizeSums(cs)[i - 1] + ds[i].size
    BY <2>1
  <2>3. QED
    BY <2>1, <2>2, SizeSumsIs
<1>3. ASSUME NEW l PROVE ChunkSetInsertionIndex(ds, l) = ChunkSetInsertionIndex(cs, l)
  <2>1. {i \in DOMAIN ds : ds[i].level < l} = {i \in DOMAIN cs : cs[i].level < l}
    BY <1>1
  <2>2. QED
    BY <2>1 DEF ChunkSetInsertionIndex
<1>4. StartLevel0Index(ds) = StartLevel0Index(cs)
  <2>1. {i \in 1 .. Len(ds) + 1 : \A j \in i .. Len(ds) : ds[j].level = 0}
          = {i \in 1 .. Len(cs) + 1 : \A j \in i .. Len(cs) : cs[j].level = 0}
    BY <1>1
  <2>2. QED
    BY <2>1 DEF StartLevel0Index
<1> DEFINE FlatEnds(x) == [i \in DOMAIN x |-> SizeSums(x)[i]]
           Boundaries(x) ==
             [l \in Levels |->
                SizeSums(x)[ChunkSetInsertionIndex(x, l + 1) - 1]]
<1>5. FlatEnds(ds) = FlatEnds(cs)
  BY <1>1, <1>2
<1>6. Boundaries(ds) = Boundaries(cs)
  BY <1>2, <1>3
<1>7. ASSUME NEW x
      PROVE  RebuildIndexMetadata(x) =
               [ chunkSets  |-> x, flatEnds |-> FlatEnds(x),
                 boundaries |-> Boundaries(x),
                 startLevel0Index |-> StartLevel0Index(x) ]
  BY DEF RebuildIndexMetadata
<1>8. QED
  <2> HIDE DEF FlatEnds, Boundaries
  <2> QED BY <1>4, <1>5, <1>6, <1>7

-----------------------------------------------------------------------------
(* Adding an item.                                                         *)

\* The chunk sets after chunk set k got one item more.
Grown(cs, k, e) ==
  [cs EXCEPT ![k] = [cs[k] EXCEPT !.end = @ + 1, !.size = @ + 1,
                                  !.endedAt = e]]

\* The chunk sets after a new one took place at.
Inserted(cs, at, new) ==
  [i \in 1 .. Len(cs) + 1 |-> IF i < at THEN cs[i]
                              ELSE IF i = at THEN new ELSE cs[i - 1]]

\* What the lemmas below assume of a storage's chunk sets.
WellFormed(cs, Time, Value) ==
  /\ cs \in Seq(ChunkSetOf(Time, Value))
  /\ LevelsDescend(cs)
  /\ \A i \in DOMAIN cs : GeometryOK(cs[i])

\* Of the chunk sets of a level, only the first has lost items and only the last
\* has free slots.
Packed(cs) ==
  \A i \in 2 .. Len(cs) :
    cs[i - 1].level = cs[i].level
      => /\ cs[i].start = 0
         /\ i < Len(cs) /\ cs[i + 1].level = cs[i].level
              => cs[i].end = STORAGE_CHUNK_CAPACITY

\* The facts about well formed chunk sets that most steps need.
LEMMA ChunkSetFacts ==
  ASSUME NEW Time, NEW Value, NEW cs, WellFormed(cs, Time, Value)
  PROVE  /\ Len(cs) \in Nat /\ DOMAIN cs = 1 .. Len(cs)
         /\ \A i \in 1 .. Len(cs) :
              /\ cs[i] \in ChunkSetOf(Time, Value)
              /\ GeometryOK(cs[i])
              /\ cs[i].level \in Levels /\ cs[i].level \in Int
              /\ cs[i].size \in Nat /\ cs[i].size > 0
<1>1. Len(cs) \in Nat /\ DOMAIN cs = 1 .. Len(cs)
  BY DEF WellFormed
<1>2. ASSUME NEW i \in 1 .. Len(cs)
      PROVE  cs[i] \in ChunkSetOf(Time, Value) /\ GeometryOK(cs[i])
  BY <1>1 DEF WellFormed
<1>3. ASSUME NEW i \in 1 .. Len(cs)
      PROVE  /\ cs[i].level \in Levels /\ cs[i].level \in Int
             /\ cs[i].size \in Nat /\ cs[i].size > 0
  <2>1. /\ cs[i].level \in Levels
        /\ cs[i].size \in 0 .. STORAGE_CHUNK_CAPACITY
        /\ cs[i].start \in 0 .. STORAGE_CHUNK_CAPACITY
        /\ cs[i].end \in 0 .. STORAGE_CHUNK_CAPACITY
    BY <1>2 DEF ChunkSetOf
  <2>2. QED
    BY <2>1, <1>2, LevelsAssumption, CapacityAssumption
    DEF Levels, MaxLevel, GeometryOK
<1>4. QED
  BY <1>1, <1>2, <1>3

\* A chunk set with room gets one item more.
LEMMA AddWithRoom ==
  ASSUME NEW cs, NEW level, NEW s, NEW e,
         HasRoom(cs, ChunkSetInsertionIndex(cs, level) - 1, level)
  PROVE  AddToChunkSets(cs, level, s, e)
           = Grown(cs, ChunkSetInsertionIndex(cs, level) - 1, e)
BY DEF AddToChunkSets, Grown

\* Otherwise a new chunk set takes its place at the insertion index.
LEMMA AddWithoutRoom ==
  ASSUME NEW T, NEW cs \in Seq(T), NEW level, NEW s, NEW e,
         ~ HasRoom(cs, ChunkSetInsertionIndex(cs, level) - 1, level)
  PROVE  AddToChunkSets(cs, level, s, e)
           = Inserted(cs, ChunkSetInsertionIndex(cs, level),
                      NewChunkSet(level, s, e))
<1> DEFINE at  == ChunkSetInsertionIndex(cs, level)
           ds  == AddToChunkSets(cs, level, s, e)
           new == NewChunkSet(level, s, e)
<1>1. at \in 1 .. Len(cs) + 1
  BY InsertionIndexIsFirst
<1>2. ds = SubSeq(cs, 1, at - 1) \o <<new>> \o SubSeq(cs, at, Len(cs))
  BY DEF AddToChunkSets, InsertAt
<1> HIDE DEF at, ds, new
<1> DEFINE C == T \cup {new}
<1>3. cs \in Seq(C) /\ Len(cs) \in Nat
  OBVIOUS
<1> HIDE DEF C
<1> DEFINE before == SubSeq(cs, 1, at - 1)
           after  == SubSeq(cs, at, Len(cs))
<1>4. /\ before \in Seq(C) /\ Len(before) = at - 1
      /\ \A i \in 1 .. at - 1 : before[i] = cs[i]
  BY <1>1, <1>3
<1>5. /\ after \in Seq(C) /\ Len(after) = Len(cs) - at + 1
      /\ \A i \in 1 .. Len(cs) - at + 1 : after[i] = cs[at + i - 1]
  BY <1>1, <1>3
<1>6. <<new>> \in Seq(C)
  BY DEF C
<1> HIDE DEF before, after
<1> DEFINE both == before \o <<new>>
<1>7. /\ both \in Seq(C) /\ Len(both) = at
      /\ \A i \in 1 .. at - 1 : both[i] = cs[i]
      /\ both[at] = new
  BY <1>1, <1>3, <1>4, <1>6
<1>8. ds = both \o after
  BY <1>2 DEF before, after
<1> HIDE DEF both
<1>9. ds \in Seq(C) /\ Len(ds) = Len(both) + Len(after)
  BY <1>5, <1>7, <1>8
<1>10. Len(ds) = Len(cs) + 1
  BY <1>9, <1>1, <1>3, <1>5, <1>7
<1>11. ASSUME NEW i \in 1 .. at PROVE ds[i] = both[i]
  BY <1>1, <1>3, <1>5, <1>7, <1>8
<1>12. ASSUME NEW i \in at + 1 .. Len(cs) + 1 PROVE ds[i] = cs[i - 1]
  <2>1. ds[i] = after[i - at]
    BY <1>1, <1>3, <1>5, <1>7, <1>8
  <2>2. i - at \in 1 .. Len(cs) - at + 1 /\ at + (i - at) - 1 = i - 1
    BY <1>1, <1>3
  <2>3. QED
    BY <2>1, <2>2, <1>5
<1>13. ASSUME NEW i \in 1 .. Len(cs) + 1
       PROVE  ds[i] = IF i < at THEN cs[i] ELSE IF i = at THEN new ELSE cs[i - 1]
  BY <1>1, <1>3, <1>7, <1>11, <1>12
<1>14. ds = [i \in 1 .. Len(cs) + 1 |-> ds[i]]
  BY <1>9, <1>10
<1>15. ds = Inserted(cs, at, new)
  BY <1>13, <1>14 DEF Inserted
<1>16. QED
  BY <1>15 DEF at, ds, new

\* Adding keeps the chunk sets well formed.
LEMMA AddKeepsWellFormed ==
  ASSUME NEW Time, NEW Value, EmptyItem \in Value, NEW cs,
         WellFormed(cs, Time, Value),
         NEW level \in Levels, NEW s \in Time, NEW e \in Time
  PROVE  WellFormed(AddToChunkSets(cs, level, s, e), Time, Value)
<1> DEFINE at == ChunkSetInsertionIndex(cs, level)
           ds == AddToChunkSets(cs, level, s, e)
           C  == ChunkSetOf(Time, Value)
<1>1. cs \in Seq(C)
  BY DEF WellFormed
<1>2. /\ Len(cs) \in Nat /\ DOMAIN cs = 1 .. Len(cs)
      /\ \A i \in 1 .. Len(cs) :
           cs[i] \in C /\ GeometryOK(cs[i]) /\ cs[i].level \in Int
  BY ChunkSetFacts
<1>3. /\ at \in 1 .. Len(cs) + 1
      /\ \A j \in 1 .. at - 1 : ~ (cs[j].level < level)
      /\ at <= Len(cs) => cs[at].level < level
  BY <1>1, InsertionIndexIsFirst
<1>4. level \in Int
  BY LevelsAssumption DEF Levels, MaxLevel
<1>5. \A m, n \in 1 .. Len(cs) : m <= n => cs[m].level >= cs[n].level
  BY <1>2 DEF WellFormed, LevelsDescend
<1>6. CASE HasRoom(cs, at - 1, level)
  <2> DEFINE k   == at - 1
             new == [cs[k] EXCEPT !.end = @ + 1, !.size = @ + 1, !.endedAt = e]
  <2>1. ds = [cs EXCEPT ![k] = new]
    <3>1. ds = Grown(cs, k, e)
      BY <1>6, AddWithRoom
    <3>2. QED
      BY <3>1 DEF Grown
  <2>2. /\ k \in 1 .. Len(cs) /\ cs[k].end < STORAGE_CHUNK_CAPACITY
        /\ cs[k].start \in 0 .. STORAGE_CHUNK_CAPACITY
        /\ cs[k].end \in 0 .. STORAGE_CHUNK_CAPACITY
        /\ cs[k].size \in 0 .. STORAGE_CHUNK_CAPACITY
        /\ cs[k] \in C /\ GeometryOK(cs[k])
    BY <1>2, <1>6 DEF HasRoom, ChunkSetOf
  <2>3. /\ cs[k].end + 1 \in 0 .. STORAGE_CHUNK_CAPACITY
        /\ cs[k].size + 1 \in 0 .. STORAGE_CHUNK_CAPACITY
    BY <2>2, CapacityAssumption, SMTT(30) DEF GeometryOK
  <2>4. new \in C /\ new.level = cs[k].level
    BY <2>2, <2>3 DEF ChunkSetOf
  <2>5. GeometryOK(new)
    <3>1. new.start = cs[k].start /\ new.end = cs[k].end + 1
            /\ new.size = cs[k].size + 1
      BY <2>2 DEF ChunkSetOf
    <3>2. QED
      BY <3>1, <2>2, CapacityAssumption, SMTT(30) DEF GeometryOK
  <2> HIDE DEF ds, k, new, C
  <2>6. ds \in Seq(C) /\ Len(ds) = Len(cs)
    BY <2>1, <2>2, <2>4, <1>1
  <2>7. \A i \in 1 .. Len(cs) : GeometryOK(ds[i]) /\ ds[i].level = cs[i].level
    BY <2>1, <2>2, <2>4, <2>5, <1>1, <1>2
  <2>8. LevelsDescend(ds)
    BY <2>6, <2>7, <1>5, <1>2 DEF LevelsDescend
  <2>9. QED
    BY <2>6, <2>7, <2>8 DEF ds, C, WellFormed
<1>7. CASE ~ HasRoom(cs, at - 1, level)
  <2> DEFINE new == NewChunkSet(level, s, e)
  <2>1. ds = Inserted(cs, at, new)
    BY <1>1, <1>7, AddWithoutRoom
  <2>2. new \in C /\ GeometryOK(new) /\ new.level = level
    BY CapacityAssumption DEF NewChunkSet, ChunkSetOf, GeometryOK
  <2> HIDE DEF ds, at, new, C
  <2>3. /\ DOMAIN ds = 1 .. Len(cs) + 1
        /\ \A i \in 1 .. Len(cs) + 1 :
             ds[i] = IF i < at THEN cs[i] ELSE IF i = at THEN new ELSE cs[i - 1]
    BY <2>1 DEF Inserted
  <2>4. \A i \in 1 .. Len(cs) + 1 : ds[i] \in C /\ GeometryOK(ds[i])
    BY <2>3, <2>2, <1>2, <1>3
  <2>5. ds \in [1 .. Len(cs) + 1 -> C]
    BY <2>1, <2>3, <2>4 DEF Inserted
  <2>6. ds \in Seq(C)
    BY <2>5, <1>2
  <2>7. ASSUME NEW i \in 1 .. Len(cs) + 1, NEW j \in 1 .. Len(cs) + 1, i < j
        PROVE  ds[i].level >= ds[j].level
    <3>1. \A m \in 1 .. Len(cs) : m >= at => level >= cs[m].level
      BY <1>2, <1>3, <1>4, <1>5
    <3>2. \A m \in 1 .. at - 1 : cs[m].level >= level
      BY <1>2, <1>3, <1>4
    <3>3. CASE i < at /\ j < at
      BY <1>5, <3>3, <2>3, <2>7, <1>3, <1>2
    <3>4. CASE i < at /\ j = at
      BY <3>2, <3>4, <2>2, <2>3, <1>3, <1>2
    <3>5. CASE i < at /\ j > at
      <4>1. i \in 1 .. Len(cs) /\ j - 1 \in 1 .. Len(cs) /\ i <= j - 1
        BY <3>5, <1>2, <1>3
      <4>2. ds[i] = cs[i] /\ ds[j] = cs[j - 1]
        BY <3>5, <2>3, <1>2, <1>3
      <4>3. QED
        BY <4>1, <4>2, <1>5
    <3>6. CASE i = at
      <4>1. j - 1 \in 1 .. Len(cs) /\ j - 1 >= at
        BY <3>6, <2>7, <1>2, <1>3
      <4>2. ds[i] = new /\ ds[j] = cs[j - 1]
        BY <3>6, <2>3, <2>7, <1>2, <1>3
      <4>3. QED
        BY <4>1, <4>2, <3>1, <2>2
    <3>7. CASE i > at
      <4>1. i - 1 \in 1 .. Len(cs) /\ j - 1 \in 1 .. Len(cs) /\ i - 1 <= j - 1
        BY <3>7, <2>7, <1>2, <1>3
      <4>2. ds[i] = cs[i - 1] /\ ds[j] = cs[j - 1]
        BY <3>7, <2>3, <2>7, <1>2, <1>3
      <4>3. QED
        BY <4>1, <4>2, <1>5
    <3>8. QED
      BY <3>3, <3>4, <3>5, <3>6, <3>7, <1>2, <1>3
  <2>8. LevelsDescend(ds)
    BY <2>3, <2>7 DEF LevelsDescend
  <2>9. QED
    BY <2>3, <2>4, <2>6, <2>8 DEF ds, C, WellFormed
<1>8. QED
  BY <1>6, <1>7

\* A rebuild, field by field.
LEMMA RebuildFields ==
  ASSUME NEW cs
  PROVE  RebuildIndexMetadata(cs) =
           [ chunkSets        |-> cs,
             flatEnds         |-> [i \in DOMAIN cs |-> SizeSums(cs)[i]],
             boundaries       |->
               [l \in Levels |->
                  SizeSums(cs)[ChunkSetInsertionIndex(cs, l + 1) - 1]],
             startLevel0Index |-> StartLevel0Index(cs) ]
BY DEF RebuildIndexMetadata

\* The step by step update of the index metadata agrees with a rebuild.
LEMMA AddMetadata ==
  ASSUME NEW Time, NEW Value, EmptyItem \in Value, NEW cs,
         WellFormed(cs, Time, Value),
         NEW level \in Levels, NEW s \in Time, NEW e \in Time
  PROVE  AddItemStructure(RebuildIndexMetadata(cs), level, s, e)
           = RebuildIndexMetadata(AddToChunkSets(cs, level, s, e))
<1> DEFINE st  == RebuildIndexMetadata(cs)
           at  == ChunkSetInsertionIndex(cs, level)
           ds  == AddToChunkSets(cs, level, s, e)
           C   == ChunkSetOf(Time, Value)
           N   == Len(cs)
           S   == SizeSums(cs)
           fe  == AddToFlatEnds(st.flatEnds, cs, level)
           bd  == [l \in Levels |-> IF l < level THEN st.boundaries[l] + 1
                                                 ELSE st.boundaries[l]]
           p(l) == ChunkSetInsertionIndex(cs, l + 1)
           q(l) == ChunkSetInsertionIndex(ds, l + 1)
<1>1. cs \in Seq(C) /\ ds \in Seq(C)
  BY AddKeepsWellFormed DEF WellFormed
<1>2. /\ N \in Nat /\ DOMAIN cs = 1 .. N
      /\ \A i \in 1 .. N : cs[i] \in C /\ cs[i].level \in Int /\ cs[i].size \in Nat
  BY ChunkSetFacts
<1>3. \A i \in 1 .. Len(ds) : ds[i].level \in Int /\ ds[i].size \in Nat
  <2>1. WellFormed(ds, Time, Value)
    BY AddKeepsWellFormed
  <2>2. QED
    BY <2>1, ChunkSetFacts
<1>4. /\ at \in 1 .. N + 1
      /\ \A j \in 1 .. at - 1 : ~ (cs[j].level < level)
      /\ at <= N => cs[at].level < level
  BY <1>1, InsertionIndexIsFirst
<1>5. Levels \subseteq Int
  BY LevelsAssumption DEF Levels, MaxLevel
<1>6. /\ S \in [0 .. N -> Nat] /\ S[0] = 0
      /\ \A i \in 1 .. N : S[i] = S[i - 1] + cs[i].size
  BY <1>1, <1>2, SizeSumsRecurrence
<1>7. ASSUME NEW l \in Levels
      PROVE  /\ p(l) \in 1 .. N + 1
             /\ \A j \in 1 .. p(l) - 1 : ~ (cs[j].level < l + 1)
             /\ p(l) <= N => cs[p(l)].level < l + 1
  BY <1>1, InsertionIndexIsFirst
<1>8. /\ st.chunkSets = cs
      /\ st.flatEnds = [i \in 1 .. N |-> S[i]]
      /\ st.boundaries = [l \in Levels |-> S[p(l) - 1]]
  BY <1>2, RebuildFields
<1>9. AddItemStructure(st, level, s, e)
        = [ chunkSets |-> ds, flatEnds |-> fe, boundaries |-> bd,
            startLevel0Index |-> StartLevel0Index(ds) ]
  BY <1>8 DEF AddItemStructure
<1> DEFINE feDs == [i \in DOMAIN ds |-> SizeSums(ds)[i]]
           bdDs == [l \in Levels |-> SizeSums(ds)[q(l) - 1]]
<1>10. RebuildIndexMetadata(ds)
         = [ chunkSets |-> ds, flatEnds |-> feDs, boundaries |-> bdDs,
             startLevel0Index |-> StartLevel0Index(ds) ]
  BY RebuildFields
<1>11. CASE HasRoom(cs, at - 1, level)
  <2> DEFINE k == at - 1
             h == [i \in 0 .. N |-> IF i >= k THEN S[i] + 1 ELSE S[i]]
  <2>1. k \in 1 .. N /\ cs[k].level = level
    BY <1>2, <1>11 DEF HasRoom
  <2>2. ds = Grown(cs, k, e)
    BY <1>11, AddWithRoom
  <2>3. /\ DOMAIN ds = 1 .. N /\ Len(ds) = N
        /\ \A i \in 1 .. N :
             /\ ds[i].level = cs[i].level
             /\ ds[i].size = IF i = k THEN cs[i].size + 1 ELSE cs[i].size
    <3> HIDE DEF ds, k
    <3>1. DOMAIN ds = 1 .. N
      BY <1>2, <2>2 DEF Grown
    <3>2. Len(ds) = N
      BY <3>1, <1>1, <1>2
    <3>3. QED
      BY <3>1, <3>2, <1>2, <2>1, <2>2 DEF Grown, ChunkSetOf
  <2> HIDE DEF ds, S, k
  <2>4. h \in [0 .. Len(ds) -> Nat] /\ h[0] = 0
    BY <1>2, <1>6, <2>1, <2>3
  <2>5. ASSUME NEW i \in 1 .. Len(ds) PROVE h[i] = h[i - 1] + ds[i].size
    <3>1. /\ i \in 1 .. N /\ i \in 0 .. N /\ i - 1 \in 0 .. N
          /\ S[i] = S[i - 1] + cs[i].size
          /\ S[i] \in Nat /\ S[i - 1] \in Nat /\ cs[i].size \in Nat
      <4>1. i \in 1 .. N
        BY <2>3
      <4>2. i \in 0 .. N /\ i - 1 \in 0 .. N
        BY ONLY <4>1, <1>2
      <4>3. QED
        BY ONLY <4>1, <4>2, <1>2, <1>6
    <3>2. /\ h[i] = IF i >= k THEN S[i] + 1 ELSE S[i]
          /\ h[i - 1] = IF i - 1 >= k THEN S[i - 1] + 1 ELSE S[i - 1]
      BY <3>1
    <3>3. ds[i].size = IF i = k THEN cs[i].size + 1 ELSE cs[i].size
      BY <3>1, <2>3
    <3> HIDE DEF h
    <3>4. k \in Nat /\ i \in Nat
      BY <2>1, <3>1
    <3>5. CASE i < k
      BY <3>1, <3>2, <3>3, <3>4, <3>5
    <3>6. CASE i = k
      BY ONLY <3>1, <3>2, <3>3, <3>4, <3>6
    <3>7. CASE i > k
      BY <3>1, <3>2, <3>3, <3>4, <3>7
    <3>8. QED
      BY <3>4, <3>5, <3>6, <3>7
  <2>6. SizeSums(ds) = h
    <3> HIDE DEF h
    <3> QED BY <1>1, <1>3, <2>4, <2>5, SizeSumsIs
  <2>7. fe = feDs
    <3>1. fe = [i \in 1 .. N |-> IF i >= k THEN S[i] + 1 ELSE S[i]]
      <4> HIDE DEF st
      <4> QED BY <1>8, <1>11 DEF AddToFlatEnds, k
    <3>2. feDs = [i \in 1 .. N |-> h[i]]
      BY <2>3, <2>6
    <3>3. \A i \in 1 .. N : h[i] = IF i >= k THEN S[i] + 1 ELSE S[i]
      BY <1>2
    <3> HIDE DEF fe, feDs, h
    <3>4. QED
      BY <3>1, <3>2, <3>3
  <2>8. ASSUME NEW l \in Levels PROVE bd[l] = bdDs[l]
    <3>1. q(l) = p(l)
      <4>1. {i \in DOMAIN ds : ds[i].level < l + 1}
              = {i \in DOMAIN cs : cs[i].level < l + 1}
        BY <2>3, <1>2
      <4>2. QED
        BY <4>1, <2>3 DEF ChunkSetInsertionIndex
    <3>2. p(l) \in 1 .. N + 1 /\ p(l) - 1 \in 0 .. N
      BY <1>2, <1>7
    <3>3. bdDs[l] = IF p(l) - 1 >= k THEN S[p(l) - 1] + 1 ELSE S[p(l) - 1]
      <4> HIDE DEF p, q, h
      <4>1. bdDs[l] = h[p(l) - 1]
        BY <2>6, <3>1
      <4>2. QED
        BY <4>1, <3>2 DEF h
    <3>4. bd[l] = IF l < level THEN S[p(l) - 1] + 1 ELSE S[p(l) - 1]
      <4> HIDE DEF st, p
      <4> QED BY <1>8
    <3>5. p(l) - 1 >= k <=> l < level
      <4>1. \A j \in 1 .. p(l) - 1 : ~ (cs[j].level < l + 1)
        BY <1>7
      <4>2. p(l) <= N => cs[p(l)].level < l + 1
        BY <1>7
      <4> HIDE DEF p, at
      <4>3. \A j \in 1 .. N : j < at => ~ (cs[j].level < level)
        BY <1>4, <1>2
      <4>4. at = k + 1
        BY <1>4, <1>2 DEF k
      <4>5. p(l) > k => l < level
        BY <4>1, <2>1, <3>2, <1>5, <1>2, SMTT(30)
      <4>6. l < level => p(l) > k
        BY <4>2, <4>3, <4>4, <2>1, <3>2, <1>5, <1>2
      <4>7. QED
        BY <4>5, <4>6, <3>2, <2>1, <1>2
    <3> HIDE DEF bd, bdDs, p
    <3>6. QED
      BY <3>3, <3>4, <3>5
  <2>9. bd = bdDs
    <3>1. bd = [l \in Levels |-> bd[l]] /\ bdDs = [l \in Levels |-> bdDs[l]]
      OBVIOUS
    <3> HIDE DEF bd, bdDs
    <3>2. QED
      BY <3>1, <2>8
  <2>10. QED
    <3> HIDE DEF st, fe, bd, feDs, bdDs
    <3> QED BY <1>9, <1>10, <2>7, <2>9 DEF st, ds
<1>12. CASE ~ HasRoom(cs, at - 1, level)
  <2> DEFINE new == NewChunkSet(level, s, e)
             h   == [i \in 0 .. N + 1 |-> IF i >= at THEN S[i - 1] + 1 ELSE S[i]]
  <2>1. ds = Inserted(cs, at, new)
    BY <1>1, <1>12, AddWithoutRoom
  <2>2. new.size = 1 /\ new.level = level
    BY DEF NewChunkSet
  <2> HIDE DEF ds, S, at, new
  <2>3. /\ DOMAIN ds = 1 .. N + 1 /\ Len(ds) = N + 1
        /\ \A i \in 1 .. N + 1 :
             ds[i] = IF i < at THEN cs[i] ELSE IF i = at THEN new ELSE cs[i - 1]
    BY <2>1, <1>1, <1>2 DEF Inserted
  <2>4. h \in [0 .. Len(ds) -> Nat] /\ h[0] = 0
    <3>1. \A i \in 0 .. N + 1 : (i >= at => i - 1 \in 0 .. N)
                                /\ (~ (i >= at) => i \in 0 .. N)
      BY <1>2, <1>4
    <3>2. QED
      BY <3>1, <1>2, <1>4, <1>6, <2>3
  <2>5. ASSUME NEW i \in 1 .. Len(ds) PROVE h[i] = h[i - 1] + ds[i].size
    <3>1. i \in 1 .. N + 1 /\ i \in 0 .. N + 1 /\ i - 1 \in 0 .. N + 1
      BY <1>2, <2>3
    <3>2. /\ h[i] = IF i >= at THEN S[i - 1] + 1 ELSE S[i]
          /\ h[i - 1] = IF i - 1 >= at THEN S[(i - 1) - 1] + 1 ELSE S[i - 1]
      BY <3>1
    <3> HIDE DEF h
    <3>3. CASE i < at
      <4>1. ds[i] = cs[i] /\ i \in 1 .. N
        BY <3>1, <3>3, <2>3, <1>2, <1>4
      <4>2. QED
        BY <4>1, <3>2, <3>3, <1>2, <1>4, <1>6
    <3>4. CASE i = at
      <4>1. ds[i].size = 1
        BY <3>1, <3>4, <2>2, <2>3, <1>2, <1>4
      <4>2. QED
        BY <4>1, <3>2, <3>4, <1>2, <1>4, <1>6
    <3>5. CASE i > at
      <4>1. ds[i] = cs[i - 1] /\ i - 1 \in 1 .. N
        BY <3>1, <3>5, <2>3, <1>2, <1>4
      <4>2. S[i - 1] = S[(i - 1) - 1] + cs[i - 1].size
        BY <4>1, <1>6
      <4>3. S[(i - 1) - 1] \in Nat /\ cs[i - 1].size \in Nat
        <5>1. (i - 1) - 1 \in 0 .. N
          BY <4>1, <1>2
        <5>2. QED
          BY <5>1, <4>1, <1>2, <1>6
      <4>4. i >= at /\ i - 1 >= at
        BY <3>1, <3>5, <1>2, <1>4
      <4>5. QED
        BY <4>1, <4>2, <4>3, <4>4, <3>2
    <3>6. QED
      BY <3>1, <3>3, <3>4, <3>5, <1>4, <1>2
  <2>6. SizeSums(ds) = h
    <3> HIDE DEF h
    <3> QED BY <1>1, <1>3, <2>4, <2>5, SizeSumsIs
  <2>7. fe = feDs
    <3>1. /\ DOMAIN st.flatEnds = 1 .. N
          /\ \A i \in 1 .. N : st.flatEnds[i] = S[i]
      <4> HIDE DEF st
      <4> QED BY <1>8
    <3>2. Len(st.flatEnds) = N
      BY <3>1, <1>2
    <3>3. fe = [i \in 1 .. N + 1 |-> IF i < at THEN st.flatEnds[i]
                                     ELSE FlatEndAt(st.flatEnds, i - 1) + 1]
      <4> HIDE DEF st
      <4> QED BY <3>2, <1>12 DEF AddToFlatEnds, at
    <3>4. feDs = [i \in 1 .. N + 1 |-> h[i]]
      BY <2>3, <2>6
    <3>5. ASSUME NEW i \in 1 .. N + 1
          PROVE  h[i] = IF i < at THEN st.flatEnds[i]
                        ELSE FlatEndAt(st.flatEnds, i - 1) + 1
      <4>1. h[i] = IF i >= at THEN S[i - 1] + 1 ELSE S[i]
        BY <1>2
      <4>2. i - 1 \in 0 .. N /\ FlatEndAt(st.flatEnds, i - 1) = S[i - 1]
        <5> HIDE DEF st
        <5> QED BY <3>1, <1>2, <1>6 DEF FlatEndAt
      <4>3. i < at => i \in 1 .. N
        BY <1>2, <1>4
      <4> HIDE DEF h, st
      <4>4. QED
        BY <4>1, <4>2, <4>3, <3>1, <1>4, <1>2
    <3> HIDE DEF fe, feDs, h, st
    <3>6. QED
      BY <3>3, <3>4, <3>5
  <2>8. ASSUME NEW l \in Levels PROVE bd[l] = bdDs[l]
    <3>1. /\ p(l) \in 1 .. N + 1 /\ p(l) - 1 \in 0 .. N
          /\ \A j \in 1 .. N : j < p(l) => ~ (cs[j].level < l + 1)
          /\ p(l) <= N => cs[p(l)].level < l + 1
      BY <1>2, <1>7
    <3>2. \A j \in 1 .. N : j < at => ~ (cs[j].level < level)
      BY <1>4, <1>2
    <3> HIDE DEF p, h
    <3>3. l < level => p(l) >= at
      BY <3>1, <3>2, <1>5, <1>2, <1>4
    <3>4. ~ (l < level) => p(l) <= at
      BY <3>1, <1>4, <1>5, <1>2
    <3>5. CASE l < level
      <4>1. p(l) + 1 \in 1 .. Len(ds) + 1
        BY <3>1, <2>3, <1>2
      <4>2. ASSUME NEW j \in 1 .. (p(l) + 1) - 1 PROVE ~ (ds[j].level < l + 1)
        <5>1. j \in 1 .. N + 1
          BY <3>1, <1>2
        <5>2. CASE j < at
          <6>1. j \in 1 .. N /\ j < p(l)
            BY <5>1, <5>2, <3>1, <3>3, <3>5, <1>2, <1>4
          <6>2. ds[j] = cs[j]
            BY <5>1, <5>2, <2>3
          <6>3. QED
            BY <6>1, <6>2, <3>1
        <5>3. CASE j = at
          BY <5>1, <5>3, <2>2, <2>3, <3>5, <1>2, <1>4, <1>5
        <5>4. CASE j > at
          <6>1. ds[j] = cs[j - 1] /\ j - 1 \in 1 .. N /\ j - 1 < p(l)
            BY <5>1, <5>4, <2>3, <3>1, <1>2, <1>4
          <6>2. QED
            BY <6>1, <3>1
        <5>5. QED
          BY <5>1, <5>2, <5>3, <5>4, <1>4, <1>2
      <4>3. p(l) + 1 <= Len(ds) => ds[p(l) + 1].level < l + 1
        <5> SUFFICES ASSUME p(l) + 1 <= Len(ds)
                     PROVE  ds[p(l) + 1].level < l + 1
          OBVIOUS
        <5>1. p(l) <= N /\ p(l) + 1 \in 1 .. N + 1 /\ p(l) + 1 > at
          BY <2>3, <3>1, <3>3, <3>5, <1>2, <1>4
        <5>2. ds[p(l) + 1] = cs[p(l)]
          <6>1. (p(l) + 1) - 1 = p(l) /\ ~ (p(l) + 1 < at) /\ p(l) + 1 # at
            BY <5>1, <3>1, <1>4
          <6>2. ds[p(l) + 1] = cs[(p(l) + 1) - 1]
            BY <5>1, <6>1, <2>3
          <6>3. QED
            BY <6>1, <6>2
        <5>3. QED
          BY <5>1, <5>2, <3>1
      <4>4. q(l) = p(l) + 1
        BY <4>1, <4>2, <4>3, <1>1, InsertionIndexIs
      <4>5. bdDs[l] = h[p(l)]
        <5>1. (p(l) + 1) - 1 = p(l)
          BY <3>1
        <5> HIDE DEF q
        <5>2. QED
          BY <5>1, <4>4, <2>6
      <4>6. h[p(l)] = S[p(l) - 1] + 1
        BY <3>1, <3>3, <3>5, <1>2, <1>4 DEF h
      <4>7. bd[l] = S[p(l) - 1] + 1
        <5> HIDE DEF st
        <5> QED BY <1>8, <3>5
      <4>8. QED
        <5> HIDE DEF bd, bdDs
        <5> QED BY <4>5, <4>6, <4>7
    <3>6. CASE ~ (l < level)
      <4>1. p(l) \in 1 .. Len(ds) + 1
        BY <3>1, <2>3, <1>2
      <4>2. ASSUME NEW j \in 1 .. p(l) - 1 PROVE ~ (ds[j].level < l + 1)
        <5>1. j \in 1 .. N /\ j < at /\ j < p(l)
          BY <3>1, <3>4, <3>6, <1>2, <1>4
        <5>2. ds[j] = cs[j]
          BY <5>1, <2>3, <1>2
        <5>3. QED
          BY <5>1, <5>2, <3>1
      <4>3. p(l) <= Len(ds) => ds[p(l)].level < l + 1
        <5>1. CASE p(l) < at
          <6>1. ds[p(l)] = cs[p(l)] /\ p(l) <= N
            BY <5>1, <2>3, <3>1, <1>2, <1>4
          <6>2. QED
            BY <6>1, <3>1
        <5>2. CASE p(l) = at
          <6>1. ds[p(l)] = new
            BY <5>2, <2>3, <1>4
          <6>2. QED
            BY <6>1, <2>2, <3>6, <1>5
        <5>3. QED
          BY <5>1, <5>2, <3>1, <3>4, <3>6, <1>4, <1>2
      <4>4. q(l) = p(l)
        BY <4>1, <4>2, <4>3, <1>1, InsertionIndexIs
      <4>5. bdDs[l] = h[p(l) - 1]
        <5> HIDE DEF q
        <5> QED BY <4>4, <2>6
      <4>6. h[p(l) - 1] = S[p(l) - 1]
        BY <3>1, <3>4, <3>6, <1>2, <1>4 DEF h
      <4>7. bd[l] = S[p(l) - 1]
        <5> HIDE DEF st
        <5> QED BY <1>8, <3>6
      <4>8. QED
        <5> HIDE DEF bd, bdDs
        <5> QED BY <4>5, <4>6, <4>7
    <3>7. QED
      BY <3>5, <3>6
  <2>9. bd = bdDs
    <3>1. bd = [l \in Levels |-> bd[l]] /\ bdDs = [l \in Levels |-> bdDs[l]]
      OBVIOUS
    <3> HIDE DEF bd, bdDs
    <3>2. QED
      BY <3>1, <2>8
  <2>10. QED
    <3> HIDE DEF st, fe, bd, feDs, bdDs
    <3> QED BY <1>9, <1>10, <2>7, <2>9 DEF st, ds
<1>13. QED
  BY <1>11, <1>12

-----------------------------------------------------------------------------
(* Deleting items.                                                         *)

\* The chunk sets without those at the positions a .. r.
Without(cs, a, r) ==
  [i \in 1 .. Len(cs) - (r - a + 1) |-> IF i < a THEN cs[i]
                                                 ELSE cs[i + (r - a + 1)]]

\* What is before some chunk sets and what is behind them is all but them.
LEMMA WithoutIsConcatenation ==
  ASSUME NEW T, NEW cs \in Seq(T), NEW a \in 1 .. Len(cs),
         NEW r \in a - 1 .. Len(cs)
  PROVE  SubSeq(cs, 1, a - 1) \o SubSeq(cs, r + 1, Len(cs)) = Without(cs, a, r)
<1> DEFINE before == SubSeq(cs, 1, a - 1)
           after  == SubSeq(cs, r + 1, Len(cs))
           both   == before \o after
           gone   == r - a + 1
<1>1. Len(cs) \in Nat /\ a \in Nat /\ r \in Nat /\ gone \in Nat
  OBVIOUS
<1>2. /\ before \in Seq(T) /\ Len(before) = a - 1
      /\ \A i \in 1 .. a - 1 : before[i] = cs[i]
  OBVIOUS
<1>3. /\ after \in Seq(T) /\ Len(after) = Len(cs) - r
      /\ \A i \in 1 .. Len(cs) - r : after[i] = cs[r + i]
  BY <1>1
<1> HIDE DEF before, after
<1>4. both \in Seq(T) /\ Len(both) = Len(before) + Len(after)
  <2>1. before \in Seq(T) /\ after \in Seq(T)
    BY <1>2, <1>3
  <2>2. QED
    BY ONLY <2>1
<1>5. Len(both) = Len(cs) - gone
  BY <1>1, <1>2, <1>3, <1>4
<1>6. ASSUME NEW i \in 1 .. Len(both)
      PROVE  both[i] = IF i < a THEN cs[i] ELSE cs[i + gone]
  <2>1. CASE i < a
    BY <2>1, <1>1, <1>2, <1>3
  <2>2. CASE ~ (i < a)
    <3>1. both[i] = after[i - (a - 1)]
      BY <2>2, <1>1, <1>2, <1>3, <1>4
    <3>2. i - (a - 1) \in 1 .. Len(cs) - r /\ r + (i - (a - 1)) = i + gone
      BY <2>2, <1>1, <1>5
    <3>3. QED
      BY <3>1, <3>2, <2>2, <1>3
  <2>3. QED
    BY <2>1, <2>2
<1>7. both = [i \in 1 .. Len(both) |-> both[i]]
  <2> HIDE DEF both
  <2> QED BY <1>4
<1> HIDE DEF both
<1>8. both = [i \in 1 .. Len(cs) - gone |-> IF i < a THEN cs[i] ELSE cs[i + gone]]
  BY <1>5, <1>6, <1>7
<1>9. QED
  BY <1>8 DEF Without, both, before, after

\* Taking chunk sets out keeps the others well formed.
LEMMA WithoutKeepsWellFormed ==
  ASSUME NEW Time, NEW Value, NEW cs, WellFormed(cs, Time, Value),
         NEW a \in 1 .. Len(cs), NEW r \in a - 1 .. Len(cs)
  PROVE  WellFormed(Without(cs, a, r), Time, Value)
<1> DEFINE C    == ChunkSetOf(Time, Value)
           gone == r - a + 1
           N    == Len(cs)
           ds   == Without(cs, a, r)
<1>1. /\ N \in Nat /\ DOMAIN cs = 1 .. N
      /\ \A i \in 1 .. N : cs[i] \in C /\ GeometryOK(cs[i])
  BY ChunkSetFacts
<1>2. a \in Nat /\ r \in Nat /\ gone \in Nat /\ N - gone \in Nat
  BY <1>1
<1>3. /\ DOMAIN ds = 1 .. N - gone
      /\ \A i \in 1 .. N - gone : ds[i] = IF i < a THEN cs[i] ELSE cs[i + gone]
      /\ ds = [i \in 1 .. N - gone |-> ds[i]]
  BY DEF Without
<1>4. \A m, n \in 1 .. N : m <= n => cs[m].level >= cs[n].level
  <2>1. \A i \in 1 .. N : cs[i].level \in Int
    BY ChunkSetFacts
  <2>2. QED
    BY <1>1, <2>1 DEF WellFormed, LevelsDescend
<1> HIDE DEF ds, C
<1>5. \A i \in 1 .. N - gone : ds[i] \in C /\ GeometryOK(ds[i])
  BY <1>1, <1>2, <1>3, SMTT(30)
<1>6. ds \in [1 .. N - gone -> C]
  BY <1>3, <1>5
<1>7. ds \in Seq(C)
  BY <1>2, <1>6
<1>8. LevelsDescend(ds)
  <2> SUFFICES ASSUME NEW i \in 1 .. N - gone, NEW j \in 1 .. N - gone, i < j
               PROVE  ds[i].level >= ds[j].level
    BY <1>3 DEF LevelsDescend
  <2> DEFINE to(x) == IF x < a THEN x ELSE x + gone
  <2>1. to(i) \in 1 .. N /\ to(j) \in 1 .. N /\ to(i) <= to(j)
    BY <1>1, <1>2
  <2>2. ds[i] = cs[to(i)] /\ ds[j] = cs[to(j)]
    BY <1>3
  <2> HIDE DEF to
  <2>3. QED
    BY <2>1, <2>2, <1>4
<1>9. QED
  BY <1>3, <1>5, <1>7, <1>8 DEF WellFormed, ds, C

\* How a level lies in the chunk sets of a storage: it fills the positions
\* from the insertion index of the level above it up to its own, and its size
\* is the difference of two partial sums.
LEMMA LevelRange ==
  ASSUME NEW Time, NEW Value, NEW cs, WellFormed(cs, Time, Value),
         NEW level \in Levels
  PROVE  LET a == ChunkSetInsertionIndex(cs, level + 1)
             b == ChunkSetInsertionIndex(cs, level)
             S == SizeSums(cs)
         IN  /\ a \in 1 .. Len(cs) + 1 /\ b \in 1 .. Len(cs) + 1 /\ a <= b
             /\ \A i \in 1 .. Len(cs) :
                  cs[i].level = level <=> a <= i /\ i < b
             /\ LevelSize(RebuildIndexMetadata(cs), level)
                  = S[b - 1] - S[a - 1]
<1> DEFINE a  == ChunkSetInsertionIndex(cs, level + 1)
           b  == ChunkSetInsertionIndex(cs, level)
           S  == SizeSums(cs)
           N  == Len(cs)
           st == RebuildIndexMetadata(cs)
<1>1. /\ N \in Nat /\ DOMAIN cs = 1 .. N
      /\ cs \in Seq(ChunkSetOf(Time, Value))
      /\ \A i \in 1 .. N : cs[i].level \in Levels /\ cs[i].level \in Int
  BY ChunkSetFacts DEF WellFormed
<1>2. level \in Nat /\ Levels \subseteq Nat
  BY LevelsAssumption DEF Levels, MaxLevel
<1>3. /\ a \in 1 .. N + 1
      /\ \A j \in 1 .. a - 1 : ~ (cs[j].level < level + 1)
      /\ a <= N => cs[a].level < level + 1
  BY <1>1, InsertionIndexIsFirst
<1>4. /\ b \in 1 .. N + 1
      /\ \A j \in 1 .. b - 1 : ~ (cs[j].level < level)
      /\ b <= N => cs[b].level < level
  BY <1>1, InsertionIndexIsFirst
<1>5. \A m, n \in 1 .. N : m <= n => cs[m].level >= cs[n].level
  BY <1>1 DEF WellFormed, LevelsDescend
<1>6. LevelSize(st, level) = S[b - 1] - S[a - 1]
  <2>1. /\ st.flatEnds = [i \in 1 .. N |-> S[i]]
        /\ st.boundaries =
             [l \in Levels |-> S[ChunkSetInsertionIndex(cs, l + 1) - 1]]
    BY <1>1, RebuildFields
  <2> HIDE DEF st, S, a, b
  <2>2. st.boundaries[level] = S[a - 1]
    BY <2>1 DEF a
  <2>3. LevelEnd(st, level) = S[b - 1]
    <3>1. CASE level = 0
      <4>1. b = N + 1
        BY <3>1, <1>1, <1>2, <1>4
      <4>2. Len(st.flatEnds) = N
        BY <2>1, <1>1
      <4>3. LevelEnd(st, level) = IF N = 0 THEN 0 ELSE st.flatEnds[N]
        BY <3>1, <4>2 DEF LevelEnd, Size, FlatEndAt
      <4>4. S[0] = 0
        <5>1. \A i \in 1 .. Len(cs) : cs[i].size \in Nat
          BY ChunkSetFacts
        <5>2. QED
          BY <1>1, <5>1, SizeSumsRecurrence DEF S
      <4>5. N # 0 => st.flatEnds[N] = S[N]
        BY <2>1, <1>1
      <4>6. b - 1 = N
        BY <4>1, <1>1
      <4>7. QED
        BY <4>3, <4>4, <4>5, <4>6
    <3>2. CASE level # 0
      <4>1. level - 1 \in Levels /\ (level - 1) + 1 = level
        BY <3>2, <1>2, LevelsAssumption DEF Levels, MaxLevel
      <4>2. st.boundaries[level - 1] = S[ChunkSetInsertionIndex(cs, level) - 1]
        BY <2>1, <4>1
      <4>3. QED
        BY <4>2, <3>2 DEF LevelEnd, b
    <3>3. QED
      BY <3>1, <3>2
  <2>4. QED
    BY <2>2, <2>3 DEF LevelSize
<1> HIDE DEF a, b, S, st
<1>7. a <= b
  BY <1>1, <1>2, <1>3, <1>4
<1>8. ASSUME NEW i \in 1 .. N PROVE cs[i].level = level <=> a <= i /\ i < b
  <2>1. i < a => ~ (cs[i].level < level + 1)
    BY <1>1, <1>3
  <2>2. a <= i => cs[i].level < level + 1
    BY <1>1, <1>2, <1>3, <1>5
  <2>3. i < b => ~ (cs[i].level < level)
    BY <1>1, <1>4
  <2>4. b <= i => cs[i].level < level
    BY <1>1, <1>2, <1>4, <1>5
  <2>5. cs[i].level \in Int
    BY <1>1
  <2>6. QED
    BY <2>1, <2>2, <2>3, <2>4, <2>5, <1>2, <1>3, <1>4, <1>1
<1>9. QED
  BY <1>3, <1>4, <1>6, <1>7, <1>8 DEF a, b, S, st

\* The chunk sets after number a lost its first items.
Trimmed(cs, a, trim, t) ==
  [cs EXCEPT ![a] = [cs[a] EXCEPT !.start = @ + trim, !.size = @ - trim,
                                  !.startedAt = t]]

\* What a deletion does: it takes the chunk sets a .. r out of the level, and if
\* that is not enough, items from the front of the next one, which has more.
LEMMA DeletedRange ==
  ASSUME NEW Time, NEW Value, NEW cs, WellFormed(cs, Time, Value),
         NEW level \in Levels, NEW count \in Nat \ {0}, NEW t,
         count <= LevelSize(RebuildIndexMetadata(cs), level)
  PROVE  LET a    == ChunkSetInsertionIndex(cs, level + 1)
             r    == LastRemoved(cs, level, count)
             trim == TrimCount(cs, level, count)
             kept == Without(cs, a, r)
         IN  /\ a \in 1 .. Len(cs) /\ r \in a - 1 .. Len(cs)
             /\ r < ChunkSetInsertionIndex(cs, level)
             /\ trim \in Nat
             /\ trim = count - (SizeSums(cs)[r] - SizeSums(cs)[a - 1])
             /\ trim > 0 => r + 1 \in 1 .. Len(cs) /\ cs[r + 1].size > trim
             /\ DeleteFromChunkSets(cs, level, count, t)
                  = IF trim = 0 THEN kept ELSE Trimmed(kept, a, trim, t)
<1> DEFINE a  == ChunkSetInsertionIndex(cs, level + 1)
           b  == ChunkSetInsertionIndex(cs, level)
           S  == SizeSums(cs)
           N  == Len(cs)
           C  == ChunkSetOf(Time, Value)
           f  == FirstChunkSetIndex(cs, level)
           r  == LastRemoved(cs, level, count)
           tr == TrimCount(cs, level, count)
<1>1. /\ N \in Nat /\ DOMAIN cs = 1 .. N
      /\ cs \in Seq(C)
      /\ \A i \in 1 .. N : /\ cs[i] \in C /\ GeometryOK(cs[i])
                           /\ cs[i].level \in Int /\ cs[i].size \in Nat
  BY ChunkSetFacts DEF WellFormed
<1>2. /\ a \in 1 .. N + 1 /\ b \in 1 .. N + 1 /\ a <= b
      /\ \A i \in 1 .. N : cs[i].level = level <=> a <= i /\ i < b
      /\ LevelSize(RebuildIndexMetadata(cs), level) = S[b - 1] - S[a - 1]
  BY LevelRange
<1>3. /\ S \in [0 .. N -> Nat]
      /\ \A i \in 1 .. N : S[i] = S[i - 1] + cs[i].size
  BY <1>1, SizeSumsRecurrence
<1>4. f = Min({i \in DOMAIN cs : cs[i].level = level})
  BY DEF FirstChunkSetIndex
<1>5. r = Max({f - 1} \cup {i \in f .. N : /\ cs[i].level = level
                                          /\ S[i] - S[f - 1] <= count})
  BY DEF LastRemoved
<1>6. tr = count - (S[r] - S[f - 1])
  BY DEF TrimCount
<1> DEFINE kept == SubSeq(cs, 1, f - 1) \o SubSeq(cs, r + 1, N)
<1>7. DeleteFromChunkSets(cs, level, count, t)
        = IF tr = 0 THEN kept ELSE Trimmed(kept, f, tr, t)
  BY DEF DeleteFromChunkSets, Trimmed
<1> HIDE DEF a, b, S, f, r, tr, C
<1> HIDE DEF kept
<1>8. a < b
  <2>1. a - 1 \in 0 .. N /\ b - 1 \in 0 .. N
    BY <1>1, <1>2
  <2>2. S[a - 1] \in Nat /\ S[b - 1] \in Nat
    BY <2>1, <1>3
  <2>3. S[b - 1] - S[a - 1] > 0
    BY <2>2, <1>2
  <2>4. a # b
    BY <2>2, <2>3
  <2>5. QED
    BY <2>4, <1>1, <1>2
<1>9. f = a
  <2> DEFINE F == {i \in DOMAIN cs : cs[i].level = level}
  <2>1. F = a .. b - 1
    BY <1>1, <1>2
  <2>2. F \in SUBSET Nat /\ F # {}
    BY <2>1, <1>1, <1>2, <1>8
  <2>3. Min(F) \in F /\ \A x \in F : Min(F) <= x
    <3> HIDE DEF F
    <3> QED BY <2>2, MinIsLeast
  <2>4. a \in F
    BY <2>1, <1>1, <1>2, <1>8
  <2>5. f = Min(F)
    BY <1>4
  <2> HIDE DEF F
  <2>6. f \in a .. b - 1 /\ f <= a
    BY <2>1, <2>3, <2>4, <2>5
  <2>7. QED
    BY <2>6, <1>1, <1>2
<1> DEFINE R == {a - 1} \cup {i \in a .. N : /\ cs[i].level = level
                                            /\ S[i] - S[a - 1] <= count}
<1>10. /\ r \in R /\ \A x \in R : x <= r
  <2>1. R \in SUBSET Nat /\ R # {} /\ \A x \in R : x <= N
    BY <1>1, <1>2, <1>8
  <2>2. r = Max(R)
    BY <1>5, <1>9
  <2> HIDE DEF R
  <2>3. QED
    BY <2>1, <2>2, <1>1, MaxIsGreatest
<1>11. /\ r \in a - 1 .. b - 1
       /\ S[r] - S[a - 1] <= count
       /\ r < b - 1 => S[r + 1] - S[a - 1] > count
  <2>1. /\ a - 1 \in 0 .. N /\ S[a - 1] \in Nat
        /\ r \in a - 1 .. b - 1
    <3>1. a - 1 \in 0 .. N
      BY <1>1, <1>2
    <3>2. S[a - 1] \in Nat
      BY <3>1, <1>3
    <3>3. r = a - 1 \/ (r \in a .. N /\ cs[r].level = level)
      BY <1>10
    <3>4. r = a - 1 \/ r \in a .. b - 1
      BY <3>3, <1>1, <1>2
    <3>5. QED
      BY <3>1, <3>2, <3>4, <1>1, <1>2, <1>8
  <2>2. S[r] - S[a - 1] <= count
    BY <1>10, <2>1, <1>1
  <2>3. ASSUME r < b - 1 PROVE S[r + 1] - S[a - 1] > count
    <3>1. r + 1 \in a .. N /\ cs[r + 1].level = level
      BY <2>1, <2>3, <1>1, <1>2
    <3>2. r + 1 \notin R
      BY <2>1, <1>10, <1>2
    <3>3. S[r + 1] \in Nat
      BY <3>1, <1>2, <1>3, <1>1
    <3>4. ~ (S[r + 1] - S[a - 1] <= count)
      BY <3>1, <3>2
    <3>5. QED
      BY <3>3, <3>4, <2>1
  <2>4. QED
    BY <2>1, <2>2, <2>3
<1> HIDE DEF R
<1>12. /\ a \in 1 .. N /\ r \in a - 1 .. N /\ r \in 0 .. N
       /\ S[r] \in Nat /\ S[a - 1] \in Nat /\ S[b - 1] \in Nat
  <2>1. /\ a \in 1 .. N /\ r \in a - 1 .. N /\ r \in 0 .. N
        /\ a - 1 \in 0 .. N /\ b - 1 \in 0 .. N
    BY <1>1, <1>2, <1>8, <1>11
  <2>2. QED
    BY <2>1, <1>3
<1>13. kept = Without(cs, a, r)
  BY <1>1, <1>9, <1>12, WithoutIsConcatenation DEF kept
<1>14. tr \in Nat
  BY <1>6, <1>9, <1>11, <1>12
<1>15. ASSUME tr > 0 PROVE r + 1 \in 1 .. N /\ cs[r + 1].size > tr
  <2>1. r < b - 1
    <3>1. S[b - 1] - S[a - 1] >= count
      BY <1>2
    <3>2. r # b - 1
      BY <3>1, <1>15, <1>6, <1>9, <1>12
    <3>3. QED
      BY <3>2, <1>2, <1>11, <1>12, <1>1
  <2>2. r + 1 \in 1 .. N /\ (r + 1) - 1 = r
    <3>1. b \in 1 .. N + 1 /\ N \in Nat /\ r \in 0 .. N
      BY <1>1, <1>2, <1>12
    <3>2. QED
      BY ONLY <2>1, <3>1
  <2>3. S[r + 1] = S[r] + cs[r + 1].size /\ cs[r + 1].size \in Nat
    BY <2>2, <1>3, <1>1
  <2>4. S[r + 1] - S[a - 1] > count
    BY <2>1, <1>11
  <2>5. tr = count - (S[r] - S[a - 1]) /\ count \in Int
    BY <1>6, <1>9
  <2>6. \A after, before, from, size \in Int :
          after = before + size /\ after - from > count
            => size > count - (before - from)
    BY <2>5
  <2>7. S[r + 1] \in Int /\ S[r] \in Int /\ S[a - 1] \in Int
    BY ONLY <2>3, <1>12
  <2>8. cs[r + 1].size > count - (S[r] - S[a - 1])
    BY ONLY <2>3, <2>4, <2>6, <2>7
  <2>9. QED
    BY <2>2, <2>5, <2>8
<1>16. r < b
  BY <1>2, <1>11
<1>17. QED
  BY <1>6, <1>7, <1>9, <1>12, <1>13, <1>14, <1>15, <1>16 DEF a, b, r, tr, S

\* Deleting no more items than the level has leaves the chunk sets well
\* formed: the chunk set that loses a part of its items keeps at least one.
LEMMA DeleteKeepsWellFormed ==
  ASSUME NEW Time, NEW Value, NEW cs, WellFormed(cs, Time, Value),
         NEW level \in Levels, NEW count \in Nat \ {0}, NEW t,
         count <= LevelSize(RebuildIndexMetadata(cs), level),
         t \in Time \/ TrimCount(cs, level, count) = 0
  PROVE  WellFormed(DeleteFromChunkSets(cs, level, count, t), Time, Value)
<1> DEFINE a    == ChunkSetInsertionIndex(cs, level + 1)
           r    == LastRemoved(cs, level, count)
           tr   == TrimCount(cs, level, count)
           kept == Without(cs, a, r)
           N    == Len(cs)
           C    == ChunkSetOf(Time, Value)
<1>1. /\ N \in Nat /\ DOMAIN cs = 1 .. N
      /\ \A i \in 1 .. N : cs[i] \in C /\ GeometryOK(cs[i])
  BY ChunkSetFacts
<1>2. /\ a \in 1 .. N /\ r \in a - 1 .. N /\ tr \in Nat
      /\ tr > 0 => r + 1 \in 1 .. N /\ cs[r + 1].size > tr
      /\ DeleteFromChunkSets(cs, level, count, t)
           = IF tr = 0 THEN kept ELSE Trimmed(kept, a, tr, t)
  BY DeletedRange
<1> HIDE DEF a, r, tr, C
<1>3. WellFormed(kept, Time, Value)
  BY <1>2, WithoutKeepsWellFormed
<1> HIDE DEF kept
<1>4. CASE tr = 0
  BY <1>2, <1>3, <1>4
<1>5. CASE tr # 0
  <2>1. tr \in Nat /\ tr > 0 /\ t \in Time
    BY <1>2, <1>5 DEF tr
  <2>2. r + 1 \in 1 .. N /\ cs[r + 1].size > tr /\ a \in Nat /\ r \in Nat
    BY <1>1, <1>2, <2>1
  <2>3. a \in DOMAIN kept /\ kept[a] = cs[r + 1]
    <3>1. a \in 1 .. N - (r - a + 1) /\ a + (r - a + 1) = r + 1
      BY <2>2, <1>2, <1>1
    <3>2. QED
      BY <3>1 DEF Without, kept
  <2> DEFINE old == cs[r + 1]
             new == [old EXCEPT !.start = @ + tr, !.size = @ - tr, !.startedAt = t]
             ds  == [kept EXCEPT ![a] = new]
  <2>4. DeleteFromChunkSets(cs, level, count, t) = ds
    <3>1. DeleteFromChunkSets(cs, level, count, t)
            = [kept EXCEPT ![a] = [kept[a] EXCEPT !.start = @ + tr,
                                                  !.size = @ - tr,
                                                  !.startedAt = t]]
      BY <1>2, <1>5 DEF Trimmed
    <3>2. QED
      BY <3>1, <2>3
  <2>5. /\ old \in C /\ GeometryOK(old)
        /\ old.start \in 0 .. STORAGE_CHUNK_CAPACITY
        /\ old.end \in 0 .. STORAGE_CHUNK_CAPACITY
        /\ old.size \in 0 .. STORAGE_CHUNK_CAPACITY
    BY <2>2, <1>1 DEF C, ChunkSetOf
  <2>6. /\ old.start + tr \in 0 .. STORAGE_CHUNK_CAPACITY
        /\ old.size - tr \in 0 .. STORAGE_CHUNK_CAPACITY
        /\ old.start + tr < old.end
    <3>1. /\ 0 <= old.start /\ old.start < old.end
          /\ old.end <= STORAGE_CHUNK_CAPACITY
          /\ old.size = old.end - old.start
      BY <2>5 DEF GeometryOK
    <3>2. old.size > tr
      BY <2>2
    <3>3. STORAGE_CHUNK_CAPACITY \in Nat
      BY CapacityAssumption
    <3>4. /\ old.start \in 0 .. STORAGE_CHUNK_CAPACITY
          /\ old.end \in 0 .. STORAGE_CHUNK_CAPACITY
          /\ old.size \in 0 .. STORAGE_CHUNK_CAPACITY
      BY <2>5
    <3> HIDE DEF old
    <3>5. QED
      BY ONLY <2>1, <3>1, <3>2, <3>3, <3>4
  <2>7. new \in C /\ new.level = old.level
    BY <2>1, <2>5, <2>6 DEF C, ChunkSetOf
  <2>8. GeometryOK(new)
    <3>1. new.start = old.start + tr /\ new.end = old.end
            /\ new.size = old.size - tr
      BY <2>5 DEF C, ChunkSetOf
    <3>2. QED
      BY <3>1, <2>1, <2>5, <2>6, CapacityAssumption DEF GeometryOK
  <2> HIDE DEF old, new
  <2>9. /\ kept \in Seq(C) /\ Len(kept) \in Nat
        /\ DOMAIN kept = 1 .. Len(kept)
        /\ \A i \in 1 .. Len(kept) : GeometryOK(kept[i])
    BY <1>3, ChunkSetFacts DEF WellFormed, C
  <2>10. ds \in Seq(C) /\ DOMAIN ds = DOMAIN kept
    BY <2>3, <2>7, <2>9
  <2>11. \A i \in DOMAIN ds : GeometryOK(ds[i]) /\ ds[i].level = kept[i].level
    BY <2>3, <2>7, <2>8, <2>9 DEF old
  <2>12. LevelsDescend(ds)
    <3> HIDE DEF ds
    <3> QED BY <2>10, <2>11, <1>3 DEF WellFormed, LevelsDescend
  <2>13. WellFormed(ds, Time, Value)
    BY <2>10, <2>11, <2>12 DEF WellFormed, C
  <2>14. QED
    BY <2>4, <2>13
<1>6. QED
  BY <1>4, <1>5

-----------------------------------------------------------------------------
(* Items and snapshots.                                                    *)

\* A snapshot's chunk sets are well formed, with the same levels and sizes.
LEMMA SnapshotWellFormed ==
  ASSUME NEW Time, NEW Value, EmptyItem \in Value, NEW cs,
         WellFormed(cs, Time, Value)
  PROVE  WellFormed(Snapshot(cs), Time, Value)
<1> DEFINE C == ChunkSetOf(Time, Value)
           N == Len(cs)
           ds == Snapshot(cs)
<1>1. /\ N \in Nat /\ DOMAIN cs = 1 .. N
      /\ \A i \in 1 .. N : cs[i] \in C /\ GeometryOK(cs[i])
  BY ChunkSetFacts
<1>2. ASSUME NEW c \in C, GeometryOK(c)
      PROVE  /\ Compact(c) \in C /\ GeometryOK(Compact(c))
             /\ Compact(c).level = c.level
  <2> DEFINE items == [s \in Slots |-> IF s < c.size THEN c.items[c.start + s]
                                                     ELSE EmptyItem]
  <2>1. /\ c.start \in 0 .. STORAGE_CHUNK_CAPACITY
        /\ c.end \in 0 .. STORAGE_CHUNK_CAPACITY
        /\ c.size \in 0 .. STORAGE_CHUNK_CAPACITY
        /\ c.items \in [Slots -> Value]
    BY DEF ChunkSetOf
  <2>2. items \in [Slots -> Value]
    <3>1. ASSUME NEW s \in Slots, s < c.size PROVE c.start + s \in Slots
      BY <1>2, <2>1, <3>1, CapacityAssumption DEF Slots, GeometryOK
    <3>2. QED
      BY <3>1, <2>1
  <2> HIDE DEF items
  <2>3. Compact(c) = [c EXCEPT !.start = 0, !.end = c.size, !.items = items]
    BY DEF Compact, items
  <2>4. Compact(c) \in C /\ Compact(c).level = c.level
    <3>1. 0 \in 0 .. STORAGE_CHUNK_CAPACITY
      BY CapacityAssumption
    <3>2. c \in C
      OBVIOUS
    <3>3. QED
      BY ONLY <3>1, <3>2, <2>1, <2>2, <2>3 DEF ChunkSetOf
  <2>5. /\ Compact(c).start = 0 /\ Compact(c).end = c.size
        /\ Compact(c).size = c.size
    BY <2>3 DEF ChunkSetOf
  <2>6. GeometryOK(Compact(c))
    BY <1>2, <2>1, <2>5, CapacityAssumption DEF GeometryOK
  <2>7. QED
    BY <2>4, <2>6
<1>3. /\ DOMAIN ds = 1 .. N
      /\ \A i \in 1 .. N : ds[i] = Compact(cs[i])
      /\ ds = [i \in 1 .. N |-> ds[i]]
  BY <1>1 DEF Snapshot
<1> HIDE DEF ds, C
<1>4. \A i \in 1 .. N : /\ ds[i] \in C /\ GeometryOK(ds[i])
                        /\ ds[i].level = cs[i].level
  BY <1>1, <1>2, <1>3
<1>5. ds \in Seq(C)
  <2>1. ds \in [1 .. N -> C]
    BY <1>3, <1>4
  <2>2. QED
    BY <2>1, <1>1
<1>6. LevelsDescend(ds)
  BY <1>1, <1>3, <1>4 DEF WellFormed, LevelsDescend
<1>7. QED
  BY <1>3, <1>4, <1>5, <1>6 DEF WellFormed, ds, C

\* Writing an item changes no size and no level, whatever place the binary
\* search finds.
LEMMA SetItemWellFormed ==
  ASSUME NEW Time, NEW Value, NEW cs, WellFormed(cs, Time, Value),
         NEW flatIndex, NEW item \in Value
  PROVE  \E ds : /\ WellFormed(ds, Time, Value)
                 /\ Packed(cs) => Packed(ds)
                 /\ SetItem(RebuildIndexMetadata(cs), flatIndex, item)
                      = RebuildIndexMetadata(ds)
<1> DEFINE C  == ChunkSetOf(Time, Value)
           N  == Len(cs)
           st == RebuildIndexMetadata(cs)
           at == ChunkAndPos(st, flatIndex)
           k  == at.chunkSet
           p  == at.slot
           ds == [cs EXCEPT ![k].items[p] = item]
<1>1. /\ N \in Nat /\ DOMAIN cs = 1 .. N /\ cs \in Seq(C)
      /\ \A i \in 1 .. N : /\ cs[i] \in C /\ GeometryOK(cs[i])
                           /\ cs[i].size \in Nat
  BY ChunkSetFacts DEF WellFormed
<1>2. st.chunkSets = cs
  BY RebuildFields
<1>3. SetItem(st, flatIndex, item)
        = [st EXCEPT !.chunkSets[k].items[p] = item]
  BY DEF SetItem
<1> HIDE DEF st, k, p
<1>4. [st EXCEPT !.chunkSets[k].items[p] = item] = [st EXCEPT !.chunkSets = ds]
  BY <1>2
<1>5. ASSUME NEW c \in C
      PROVE  LET d == [c EXCEPT !.items[p] = item]
             IN  /\ d \in C /\ d.level = c.level /\ d.size = c.size
                 /\ d.start = c.start /\ d.end = c.end
  BY DEF ChunkSetOf
<1>6. ASSUME NEW i \in 1 .. N
      PROVE  /\ ds[i] \in C /\ ds[i].level = cs[i].level
             /\ ds[i].size = cs[i].size
             /\ ds[i].start = cs[i].start /\ ds[i].end = cs[i].end
  <2>1. ds[i] = IF i = k THEN [cs[i] EXCEPT !.items[p] = item] ELSE cs[i]
    BY <1>1
  <2> HIDE DEF ds, C
  <2>2. CASE i = k
    BY <2>1, <2>2, <1>1, <1>5
  <2>3. CASE i # k
    BY <2>1, <2>3, <1>1
  <2>4. QED
    BY <2>2, <2>3
<1>7. DOMAIN ds = 1 .. N /\ ds = [i \in 1 .. N |-> ds[i]]
  BY <1>1
<1> HIDE DEF ds, C
<1>8. ds \in Seq(C) /\ Len(ds) = N
  <2>1. ds \in [1 .. N -> C]
    BY <1>6, <1>7
  <2>2. QED
    BY <2>1, <1>1
<1>9. \A i \in 1 .. N : GeometryOK(ds[i])
  BY <1>1, <1>6 DEF GeometryOK
<1>10. LevelsDescend(ds)
  BY <1>1, <1>6, <1>7 DEF WellFormed, LevelsDescend
<1>11. WellFormed(ds, Time, Value)
  BY <1>7, <1>8, <1>9, <1>10 DEF WellFormed, C
<1>12. RebuildIndexMetadata(ds) = [st EXCEPT !.chunkSets = ds]
  <2>1. /\ cs \in Seq(C) /\ Len(ds) = Len(cs)
        /\ \A i \in 1 .. Len(cs) : /\ cs[i].size \in Nat
                                   /\ ds[i].size = cs[i].size
                                   /\ ds[i].level = cs[i].level
    BY <1>1, <1>6, <1>8
  <2>2. RebuildIndexMetadata(ds) = [RebuildIndexMetadata(cs) EXCEPT !.chunkSets = ds]
    BY ONLY <2>1, <1>8, RebuildSame
  <2>3. QED
    BY <2>2 DEF st
<1>13. ASSUME Packed(cs) PROVE Packed(ds)
  <2> SUFFICES ASSUME NEW i \in 2 .. N, ds[i - 1].level = ds[i].level
               PROVE  /\ ds[i].start = 0
                      /\ i < N /\ ds[i + 1].level = ds[i].level
                           => ds[i].end = STORAGE_CHUNK_CAPACITY
    BY <1>8 DEF Packed
  <2>1. /\ i - 1 \in 1 .. N /\ i \in 1 .. N
        /\ i < N => i + 1 \in 1 .. N
    BY <1>1
  <2>2. QED
    BY <1>6, <1>13, <2>1 DEF Packed
<1>14. QED
  BY <1>3, <1>4, <1>11, <1>12, <1>13 DEF st

\* Writing the item that is already there changes nothing.
LEMMA SetSameItem ==
  ASSUME NEW Time, NEW Value, NEW cs, WellFormed(cs, Time, Value), NEW flatIndex
  PROVE  LET st == RebuildIndexMetadata(cs)
         IN  SetItem(st, flatIndex, GetItem(st, flatIndex)) = st
<1> DEFINE st == RebuildIndexMetadata(cs)
           at == ChunkAndPos(st, flatIndex)
           k  == at.chunkSet
           p  == at.slot
           item == GetItem(st, flatIndex)
           C  == ChunkSetOf(Time, Value)
<1>1. /\ Len(cs) \in Nat /\ DOMAIN cs = 1 .. Len(cs) /\ cs \in Seq(C)
      /\ \A i \in 1 .. Len(cs) : cs[i] \in C
  BY ChunkSetFacts DEF WellFormed
<1>2. st.chunkSets = cs /\ st = [st EXCEPT !.chunkSets = cs]
  BY RebuildFields
<1>3. item = cs[k].items[p]
  BY <1>2 DEF GetItem
<1>4. SetItem(st, flatIndex, item)
        = [st EXCEPT !.chunkSets[k].items[p] = item]
  BY DEF SetItem
<1> HIDE DEF st, k, p, item
<1>5. [st EXCEPT !.chunkSets[k].items[p] = item]
        = [st EXCEPT !.chunkSets = [cs EXCEPT ![k].items[p] = item]]
  BY <1>2
<1>6. ASSUME NEW c \in C PROVE [c EXCEPT !.items[p] = c.items[p]] = c
  BY DEF ChunkSetOf
<1>7. [cs EXCEPT ![k].items[p] = item] = cs
  <2> DEFINE ds == [cs EXCEPT ![k].items[p] = item]
  <2>1. DOMAIN ds = DOMAIN cs
    OBVIOUS
  <2>2. ASSUME NEW i \in 1 .. Len(cs) PROVE ds[i] = cs[i]
    <3>1. ds[i] = IF i = k THEN [cs[i] EXCEPT !.items[p] = item] ELSE cs[i]
      BY <1>1
    <3> HIDE DEF ds, C
    <3>2. QED
      BY <3>1, <1>1, <1>3, <1>6
  <2>3. ds = [i \in DOMAIN ds |-> ds[i]]
    OBVIOUS
  <2> HIDE DEF ds, C
  <2>4. ds = cs
    BY <1>1, <2>1, <2>2, <2>3
  <2>5. QED
    BY <2>4 DEF ds
<1>8. QED
  BY <1>2, <1>4, <1>5, <1>7 DEF st, item

-----------------------------------------------------------------------------
(* Chunk sets are packed: only a level's first one has lost items, and only *)
(* its last one has free slots.                                            *)

\* Adding fills the level's last chunk set before it takes another.
LEMMA AddKeepsPacked ==
  ASSUME NEW Time, NEW Value, NEW cs, WellFormed(cs, Time, Value), Packed(cs),
         NEW level \in Levels, NEW s, NEW e
  PROVE  Packed(AddToChunkSets(cs, level, s, e))
<1> DEFINE at == ChunkSetInsertionIndex(cs, level)
           ds == AddToChunkSets(cs, level, s, e)
           N  == Len(cs)
           C  == ChunkSetOf(Time, Value)
<1>1. /\ N \in Nat /\ DOMAIN cs = 1 .. N /\ cs \in Seq(C)
      /\ \A i \in 1 .. N : cs[i] \in C /\ GeometryOK(cs[i]) /\ cs[i].level \in Int
  BY ChunkSetFacts DEF WellFormed
<1>2. /\ at \in 1 .. N + 1
      /\ at <= N => cs[at].level < level
  BY <1>1, InsertionIndexIsFirst
<1>3. level \in Int
  BY LevelsAssumption DEF Levels, MaxLevel
<1>4. at <= N => cs[at].level # level
  BY <1>1, <1>2, <1>3
<1>5. \A i \in 2 .. N :
        cs[i - 1].level = cs[i].level
          => /\ cs[i].start = 0
             /\ i < N /\ cs[i + 1].level = cs[i].level
                  => cs[i].end = STORAGE_CHUNK_CAPACITY
  BY DEF Packed
<1>6. CASE HasRoom(cs, at - 1, level)
  <2> DEFINE k == at - 1
  <2>1. ds = Grown(cs, k, e)
    BY <1>6, AddWithRoom
  <2>2. k \in 1 .. N /\ cs[k].level = level
    BY <1>1, <1>6 DEF HasRoom
  <2> DEFINE new == [cs[k] EXCEPT !.end = @ + 1, !.size = @ + 1, !.endedAt = e]
  <2>3. new.level = cs[k].level /\ new.start = cs[k].start
    <3>1. cs[k] \in C
      BY <1>1, <2>2
    <3>2. QED
      BY <3>1 DEF ChunkSetOf
  <2>4. ds = [cs EXCEPT ![k] = new]
    BY <2>1 DEF Grown
  <2>5. k + 1 = at
    BY <1>2
  <2> HIDE DEF new, ds, k, at, C
  <2>6. Len(ds) = N
    BY <1>1, <2>4
  <2>7. \A i \in 1 .. N : /\ ds[i].level = cs[i].level
                          /\ ds[i].start = cs[i].start
                          /\ i # k => ds[i].end = cs[i].end
    BY <1>1, <2>3, <2>4
  <2>8. ASSUME NEW i \in 2 .. N, ds[i - 1].level = ds[i].level
        PROVE  /\ ds[i].start = 0
               /\ i < N /\ ds[i + 1].level = ds[i].level
                    => ds[i].end = STORAGE_CHUNK_CAPACITY
    <3>1. i - 1 \in 1 .. N /\ i \in 1 .. N /\ (i < N => i + 1 \in 1 .. N)
      BY <1>1
    <3>2. cs[i - 1].level = cs[i].level
      BY <2>7, <2>8, <3>1
    <3>3. ds[i].start = 0
      BY <1>5, <2>7, <3>1, <3>2
    <3>4. ASSUME i < N, ds[i + 1].level = ds[i].level
          PROVE  ds[i].end = STORAGE_CHUNK_CAPACITY
      <4>1. cs[i + 1].level = cs[i].level
        BY <2>7, <3>1, <3>4
      <4>2. i # k
        BY <1>4, <2>2, <2>5, <3>4, <4>1, <1>1
      <4>3. QED
        BY <1>5, <2>7, <3>1, <3>2, <3>4, <4>1, <4>2
    <3>5. QED
      BY <3>3, <3>4
  <2>9. QED
    BY <2>6, <2>8 DEF Packed, ds
<1>7. CASE ~ HasRoom(cs, at - 1, level)
  <2> DEFINE new == NewChunkSet(level, s, e)
  <2>1. ds = Inserted(cs, at, new)
    BY <1>1, <1>7, AddWithoutRoom
  <2>2. new.level = level /\ new.start = 0
    BY DEF NewChunkSet
  <2>3. \A i \in 1 .. N : i = at - 1 /\ cs[i].level = level
                            => cs[i].end = STORAGE_CHUNK_CAPACITY
    <3>1. \A c \in C : c.end \in 0 .. STORAGE_CHUNK_CAPACITY
      BY DEF ChunkSetOf
    <3>2. \A i \in 1 .. N : cs[i].end \in 0 .. STORAGE_CHUNK_CAPACITY
      BY <1>1, <3>1
    <3>3. QED
      BY <1>1, <1>7, <3>2, CapacityAssumption DEF HasRoom
  <2> HIDE DEF ds, at, new, C
  <2>4. /\ Len(ds) = N + 1
        /\ \A i \in 1 .. N + 1 :
             ds[i] = IF i < at THEN cs[i] ELSE IF i = at THEN new ELSE cs[i - 1]
    BY <2>1, <1>1 DEF Inserted
  <2>5. ASSUME NEW i \in 2 .. N + 1, ds[i - 1].level = ds[i].level
        PROVE  /\ ds[i].start = 0
               /\ i < N + 1 /\ ds[i + 1].level = ds[i].level
                    => ds[i].end = STORAGE_CHUNK_CAPACITY
    <3>1. /\ i - 1 \in 1 .. N + 1 /\ i \in 1 .. N + 1
          /\ i < N + 1 => i + 1 \in 1 .. N + 1
      BY <1>1
    <3>2. CASE i < at
      <4>1. /\ ds[i - 1] = cs[i - 1] /\ ds[i] = cs[i] /\ i \in 2 .. N
            /\ i + 1 < at => ds[i + 1] = cs[i + 1]
            /\ i + 1 = at => ds[i + 1] = new
        BY <1>1, <1>2, <2>4, <3>1, <3>2
      <4>2. ds[i].start = 0
        BY <1>5, <2>5, <4>1
      <4>3. CASE i + 1 < at
        BY <1>1, <1>2, <1>5, <2>5, <4>1, <4>2, <4>3
      <4>4. CASE i + 1 = at
        <5>1. i = at - 1 /\ i \in 1 .. N
          BY <4>1, <4>4, <1>1
        <5>2. new.level = cs[i].level => cs[i].end = STORAGE_CHUNK_CAPACITY
          BY <2>2, <2>3, <5>1
        <5>3. QED
          BY <4>1, <4>2, <4>4, <5>2
      <4>5. QED
        BY <3>2, <4>3, <4>4, <1>2
    <3>3. CASE i = at
      <4>1. ds[i] = new /\ (i < N + 1 => ds[i + 1] = cs[at] /\ at <= N)
        BY <1>1, <1>2, <2>4, <3>1, <3>3
      <4>2. QED
        BY <1>4, <2>2, <4>1
    <3>4. CASE i = at + 1
      <4>1. ds[i - 1] = new /\ ds[i] = cs[at] /\ at <= N
        BY <1>1, <1>2, <2>4, <3>1, <3>4
      <4>2. QED
        BY <1>4, <2>2, <2>5, <4>1
    <3>5. CASE i > at + 1
      <4>1. /\ ds[i - 1] = cs[(i - 1) - 1] /\ ds[i] = cs[i - 1]
            /\ i < N + 1 => ds[i + 1] = cs[(i - 1) + 1] /\ i - 1 < N
            /\ i - 1 \in 2 .. N
        BY <1>1, <1>2, <2>4, <3>1, <3>5
      <4>2. QED
        BY <1>5, <2>5, <4>1
    <3>6. QED
      BY <1>1, <1>2, <3>2, <3>3, <3>4, <3>5
  <2>6. QED
    BY <2>4, <2>5 DEF Packed, ds
<1>8. QED
  BY <1>6, <1>7

\* Deleting takes items from the front of a level.
LEMMA DeleteKeepsPacked ==
  ASSUME NEW Time, NEW Value, NEW cs, WellFormed(cs, Time, Value), Packed(cs),
         NEW level \in Levels, NEW count \in Nat \ {0}, NEW t,
         count <= LevelSize(RebuildIndexMetadata(cs), level)
  PROVE  Packed(DeleteFromChunkSets(cs, level, count, t))
<1> DEFINE a    == ChunkSetInsertionIndex(cs, level + 1)
           r    == LastRemoved(cs, level, count)
           tr   == TrimCount(cs, level, count)
           kept == Without(cs, a, r)
           N    == Len(cs)
           gone == r - a + 1
           C    == ChunkSetOf(Time, Value)
<1>1. /\ N \in Nat /\ DOMAIN cs = 1 .. N /\ cs \in Seq(C)
      /\ \A i \in 1 .. N : cs[i] \in C /\ cs[i].level \in Int
  BY ChunkSetFacts DEF WellFormed
<1>2. /\ a \in 1 .. N /\ r \in a - 1 .. N
      /\ DeleteFromChunkSets(cs, level, count, t)
           = IF tr = 0 THEN kept ELSE Trimmed(kept, a, tr, t)
  BY DeletedRange
<1>3. \A j \in 1 .. N : a <= j /\ a > 1 => cs[a - 1].level # cs[j].level
  <2>1. /\ \A j \in 1 .. N : cs[j].level = level => a <= j
        /\ \A j \in 1 .. a - 1 : ~ (cs[j].level < level + 1)
        /\ a <= N => cs[a].level < level + 1
    BY <1>1, InsertionIndexIsFirst, LevelRange
  <2>2. level \in Int
    BY LevelsAssumption DEF Levels, MaxLevel
  <2>3. \A m, n \in 1 .. N : m <= n => cs[m].level >= cs[n].level
    BY <1>1 DEF WellFormed, LevelsDescend
  <2> HIDE DEF a, r, tr, kept, C
  <2> SUFFICES ASSUME NEW j \in 1 .. N, a <= j, a > 1
               PROVE  cs[a - 1].level # cs[j].level
    OBVIOUS
  <2>4. a \in 1 .. N /\ a - 1 \in 1 .. N /\ a - 1 \in 1 .. a - 1
    BY <1>1, <1>2
  <2>5. /\ ~ (cs[a - 1].level < level + 1) /\ cs[a].level < level + 1
        /\ cs[a].level >= cs[j].level
    BY <2>1, <2>3, <2>4
  <2>6. cs[a - 1].level \in Int /\ cs[a].level \in Int /\ cs[j].level \in Int
    BY <1>1, <2>4
  <2>7. QED
    BY ONLY <2>2, <2>5, <2>6
<1>4. \A i \in 2 .. N :
        cs[i - 1].level = cs[i].level
          => /\ cs[i].start = 0
             /\ i < N /\ cs[i + 1].level = cs[i].level
                  => cs[i].end = STORAGE_CHUNK_CAPACITY
  BY DEF Packed
<1> HIDE DEF a, r, tr, C
<1>5. a \in Nat /\ r \in Nat /\ gone \in Nat /\ N - gone \in Nat /\ a <= N
  BY <1>1, <1>2
<1>6. /\ Len(kept) = N - gone
      /\ \A i \in 1 .. N - gone : kept[i] = IF i < a THEN cs[i] ELSE cs[i + gone]
      /\ a + gone = r + 1
  BY <1>5 DEF Without
<1> HIDE DEF kept, gone
<1>7. \A i \in 1 .. N - gone : i + gone \in 1 .. N
  BY <1>1, <1>5
<1>8. \A i \in 2 .. N - gone : kept[i - 1].level = kept[i].level => i # a
  <2> SUFFICES ASSUME NEW i \in 2 .. N - gone, i = a
               PROVE  kept[i - 1].level # kept[i].level
    OBVIOUS
  <2>1. /\ i - 1 \in 1 .. N - gone /\ i \in 1 .. N - gone
        /\ kept[i - 1] = cs[a - 1] /\ kept[i] = cs[i + gone]
        /\ a > 1 /\ a <= i + gone
    BY <1>5, <1>6
  <2>2. QED
    BY <1>3, <1>7, <2>1
<1>9. ASSUME NEW i \in 2 .. N - gone, kept[i - 1].level = kept[i].level
      PROVE  /\ kept[i].start = 0
             /\ i < N - gone /\ kept[i + 1].level = kept[i].level
                  => kept[i].end = STORAGE_CHUNK_CAPACITY
  <2>1. /\ i - 1 \in 1 .. N - gone /\ i \in 1 .. N - gone
        /\ i < N - gone => i + 1 \in 1 .. N - gone
    BY <1>5
  <2>2. CASE i < a
    <3>1. /\ kept[i - 1] = cs[i - 1] /\ kept[i] = cs[i]
          /\ i \in 2 .. N /\ i < N /\ i + 1 <= a
      <4>1. i \in 2 .. N /\ i < N /\ i + 1 <= a /\ i - 1 < a
        BY <1>1, <1>5, <2>2
      <4>2. QED
        BY <1>6, <2>1, <2>2, <4>1
    <3>2. ASSUME i < N - gone, kept[i + 1].level = kept[i].level
          PROVE  cs[i + 1].level = cs[i].level
      <4>1. i + 1 \in 2 .. N - gone /\ (i + 1) - 1 = i
        BY <1>5, <3>2
      <4>2. i + 1 # a
        BY <1>8, <3>2, <4>1
      <4>3. i + 1 < a
        BY <1>5, <3>1, <4>2
      <4>4. kept[i + 1] = cs[i + 1]
        BY <1>6, <2>1, <3>2, <4>3
      <4>5. QED
        BY <3>1, <3>2, <4>4
    <3>3. QED
      BY <1>4, <1>9, <3>1, <3>2
  <2>3. CASE i > a
    <3>1. /\ kept[i - 1] = cs[(i + gone) - 1] /\ kept[i] = cs[i + gone]
          /\ i < N - gone => kept[i + 1] = cs[(i + gone) + 1] /\ i + gone < N
          /\ i + gone \in 2 .. N
      <4>0. ~ (i - 1 < a) /\ (i - 1) + gone = (i + gone) - 1
        BY <1>5, <2>3
      <4>1. kept[i - 1] = cs[(i - 1) + gone] /\ (i - 1) + gone = (i + gone) - 1
        BY <1>6, <2>1, <4>0
      <4>2. i < N - gone => /\ kept[i + 1] = cs[(i + 1) + gone]
                            /\ (i + 1) + gone = (i + gone) + 1
        BY <1>5, <1>6, <2>1, <2>3
      <4>3. QED
        BY <1>1, <1>5, <1>6, <2>1, <2>3, <4>1, <4>2
    <3>2. QED
      BY <1>4, <1>9, <3>1
  <2>4. i # a
    BY <1>8, <1>9
  <2>5. QED
    BY <1>5, <2>2, <2>3, <2>4
<1>10. CASE tr = 0
  BY <1>2, <1>6, <1>9, <1>10 DEF Packed
<1>11. CASE tr # 0
  <2> DEFINE ds  == Trimmed(kept, a, tr, t)
             new == [kept[a] EXCEPT !.start = @ + tr, !.size = @ - tr,
                                    !.startedAt = t]
  <2>1. ds = [kept EXCEPT ![a] = new]
    BY DEF Trimmed
  <2>2. kept \in Seq(C)
    <3>1. WellFormed(kept, Time, Value)
      BY <1>2, WithoutKeepsWellFormed DEF kept
    <3>2. QED
      BY <3>1 DEF WellFormed, C
  <2>3. a \in 1 .. N - gone => new.level = kept[a].level /\ new.end = kept[a].end
    <3>1. a \in 1 .. N - gone => kept[a] \in C
      BY <1>6, <2>2
    <3>2. QED
      BY <3>1 DEF ChunkSetOf, C
  <2> HIDE DEF ds, new
  <2>4. Len(ds) = N - gone /\ N - gone \in Nat
    BY <1>5, <1>6, <2>1, <2>2
  <2>5. \A i \in 1 .. N - gone : /\ ds[i].level = kept[i].level
                                 /\ ds[i].end = kept[i].end
                                 /\ i # a => ds[i].start = kept[i].start
    <3> SUFFICES ASSUME NEW i \in 1 .. N - gone
                 PROVE  /\ ds[i].level = kept[i].level
                        /\ ds[i].end = kept[i].end
                        /\ i # a => ds[i].start = kept[i].start
      OBVIOUS
    <3>1. DOMAIN kept = 1 .. N - gone
      BY <1>6, <2>2
    <3>2. ds[i] = IF i = a THEN new ELSE kept[i]
      BY <2>1, <3>1
    <3>3. QED
      BY <2>3, <3>2
  <2>6. ASSUME NEW i \in 2 .. N - gone, ds[i - 1].level = ds[i].level
        PROVE  /\ ds[i].start = 0
               /\ i < N - gone /\ ds[i + 1].level = ds[i].level
                    => ds[i].end = STORAGE_CHUNK_CAPACITY
    <3>1. /\ i - 1 \in 1 .. N - gone /\ i \in 1 .. N - gone
          /\ i < N - gone => i + 1 \in 1 .. N - gone
      BY <2>4
    <3>2. kept[i - 1].level = kept[i].level
      BY <2>5, <2>6, <3>1
    <3>3. QED
      BY <1>8, <1>9, <2>5, <3>1, <3>2
  <2>7. Packed(ds)
    BY <2>4, <2>6 DEF Packed
  <2>8. QED
    BY <1>2, <1>11, <2>7 DEF ds
<1>12. QED
  BY <1>10, <1>11

\* A snapshot's chunk sets start at slot 0; those that were full still are.
LEMMA SnapshotPacked ==
  ASSUME NEW Time, NEW Value, NEW cs, WellFormed(cs, Time, Value), Packed(cs)
  PROVE  Packed(Snapshot(cs))
<1> DEFINE C  == ChunkSetOf(Time, Value)
           N  == Len(cs)
           ds == Snapshot(cs)
<1>1. /\ N \in Nat /\ DOMAIN cs = 1 .. N
      /\ \A i \in 1 .. N : cs[i] \in C /\ GeometryOK(cs[i])
  BY ChunkSetFacts
<1>2. \A c \in C : /\ Compact(c).start = 0 /\ Compact(c).end = c.size
                   /\ Compact(c).level = c.level
                   /\ c.end \in 0 .. STORAGE_CHUNK_CAPACITY
  BY DEF Compact, ChunkSetOf
<1>3. Len(ds) = N /\ \A i \in 1 .. N : ds[i] = Compact(cs[i])
  BY <1>1 DEF Snapshot
<1> HIDE DEF ds, C
<1>4. \A i \in 1 .. N : /\ ds[i].start = 0 /\ ds[i].end = cs[i].size
                        /\ ds[i].level = cs[i].level
  BY <1>1, <1>2, <1>3
<1>5. ASSUME NEW i \in 2 .. N, ds[i - 1].level = ds[i].level
      PROVE  /\ ds[i].start = 0
             /\ i < N /\ ds[i + 1].level = ds[i].level
                  => ds[i].end = STORAGE_CHUNK_CAPACITY
  <2>1. /\ i - 1 \in 1 .. N /\ i \in 1 .. N
        /\ i < N => i + 1 \in 1 .. N
    BY <1>1
  <2>2. cs[i - 1].level = cs[i].level
    BY <1>4, <1>5, <2>1
  <2>3. cs[i].start = 0
    BY <2>2 DEF Packed
  <2>4. ASSUME i < N, ds[i + 1].level = ds[i].level
        PROVE  ds[i].end = STORAGE_CHUNK_CAPACITY
    <3>1. cs[i + 1].level = cs[i].level
      BY <1>4, <2>1, <2>4
    <3>2. cs[i].end = STORAGE_CHUNK_CAPACITY
      BY <2>2, <2>4, <3>1 DEF Packed
    <3>3. cs[i].size = cs[i].end - cs[i].start
      BY <1>1, <2>1 DEF GeometryOK
    <3>4. QED
      BY <1>4, <2>1, <2>3, <3>2, <3>3, CapacityAssumption
  <2>5. QED
    BY <1>4, <2>1, <2>4
<1>6. QED
  BY <1>3, <1>5 DEF Packed, ds

-----------------------------------------------------------------------------
(* Reading by flat index.                                                  *)

\* What the binary search does with bounds, written as the recurrence it is.
Searched(ends, flatIndex, g) ==
  g = [bounds \in (DOMAIN ends) \X (DOMAIN ends) |->
         LET left   == bounds[1]
             right  == bounds[2]
             middle == (left + right) \div 2
         IN  IF left >= right
               THEN left
               ELSE IF flatIndex < ends[middle]
                      THEN g[<<left, middle>>]
                      ELSE g[<<middle + 1, right>>]]

\* Position i, or the nearest to it inside the bounds.
Nearest(i, left, right) ==
  IF left >= right \/ i <= left THEN left ELSE IF i >= right THEN right ELSE i

\* The middle of two bounds lies between them, and the search goes on where i is.
LEMMA MiddleIsBetween ==
  ASSUME NEW left \in Nat, NEW right \in Nat, left < right, NEW i \in Nat
  PROVE  LET middle == (left + right) \div 2
         IN  /\ middle \in Nat /\ left <= middle /\ middle < right
             /\ i <= middle => Nearest(i, left, middle) = Nearest(i, left, right)
             /\ middle < i => Nearest(i, middle + 1, right) = Nearest(i, left, right)
<1> DEFINE middle == (left + right) \div 2
<1>1. middle \in Nat /\ left <= middle /\ middle < right
  OBVIOUS
<1> HIDE DEF middle
<1>2. i <= middle => Nearest(i, left, middle) = Nearest(i, left, right)
  BY <1>1 DEF Nearest
<1>3. middle < i => Nearest(i, middle + 1, right) = Nearest(i, left, right)
  BY <1>1 DEF Nearest
<1>4. QED
  BY <1>1, <1>2, <1>3 DEF middle

\* In flat ends that grow, the search finds the first one beyond the flat index.
LEMMA FindChunkSetIndexIs ==
  ASSUME NEW ends \in Seq(Nat), NEW flatIndex \in Nat, NEW i \in 1 .. Len(ends),
         \A j \in 1 .. Len(ends) : flatIndex < ends[j] <=> i <= j
  PROVE  FindChunkSetIndex(ends, flatIndex) = i
<1> DEFINE N == Len(ends)
           D == 1 .. N
           f == [bounds \in D \X D |-> Nearest(i, bounds[1], bounds[2])]
           g == CHOOSE g : Searched(ends, flatIndex, g)
<1>1. N \in Nat /\ DOMAIN ends = D /\ D \subseteq Nat /\ i \in D
  OBVIOUS
<1>2. ASSUME NEW left \in D, NEW right \in D, left < right
      PROVE  LET middle == (left + right) \div 2
             IN  /\ middle \in D /\ middle + 1 \in D /\ left <= middle /\ middle < right
                 /\ flatIndex < ends[middle] <=> i <= middle
                 /\ i <= middle => Nearest(i, left, middle) = Nearest(i, left, right)
                 /\ middle < i => Nearest(i, middle + 1, right) = Nearest(i, left, right)
  <2> DEFINE middle == (left + right) \div 2
  <2>1. left \in Nat /\ right \in Nat /\ i \in Nat
    BY <1>1
  <2>2. /\ middle \in Nat /\ left <= middle /\ middle < right
        /\ i <= middle => Nearest(i, left, middle) = Nearest(i, left, right)
        /\ middle < i => Nearest(i, middle + 1, right) = Nearest(i, left, right)
    BY <1>2, <2>1, MiddleIsBetween
  <2> HIDE DEF middle
  <2>3. middle \in D /\ middle + 1 \in D
    BY <1>1, <2>2
  <2>4. QED
    BY <2>2, <2>3 DEF middle
<1> HIDE DEF D, N
<1>3. Searched(ends, flatIndex, f)
  <2> DEFINE next(bounds) ==
               LET left   == bounds[1]
                   right  == bounds[2]
                   middle == (left + right) \div 2
               IN  IF left >= right
                     THEN left
                     ELSE IF flatIndex < ends[middle]
                            THEN f[<<left, middle>>]
                            ELSE f[<<middle + 1, right>>]
  <2>1. ASSUME NEW bounds \in D \X D
        PROVE  Nearest(i, bounds[1], bounds[2]) = next(bounds)
    <3> DEFINE left   == bounds[1]
               right  == bounds[2]
               middle == (left + right) \div 2
    <3>1. left \in D /\ right \in D /\ left \in Nat /\ right \in Nat
      BY <1>1
    <3> HIDE DEF left, right
    <3>2. CASE left >= right
      BY <3>2 DEF Nearest, left, right
    <3>3. CASE ~ (left >= right)
      <4>1. left < right
        BY <3>1, <3>3
      <4>2. /\ middle \in D /\ middle + 1 \in D
            /\ flatIndex < ends[middle] <=> i <= middle
            /\ i <= middle => Nearest(i, left, middle) = Nearest(i, left, right)
            /\ middle < i => Nearest(i, middle + 1, right) = Nearest(i, left, right)
        BY <1>2, <3>1, <4>1
      <4>3. next(bounds) = IF flatIndex < ends[middle]
                             THEN f[<<left, middle>>]
                             ELSE f[<<middle + 1, right>>]
        BY <3>3 DEF left, right
      <4> HIDE DEF next, middle
      <4>4. /\ f[<<left, middle>>] = Nearest(i, left, middle)
            /\ f[<<middle + 1, right>>] = Nearest(i, middle + 1, right)
        BY <3>1, <4>2
      <4>5. i <= middle \/ middle < i
        BY <1>1, <4>2
      <4>6. next(bounds) = Nearest(i, left, right)
        BY <4>2, <4>3, <4>4, <4>5
      <4>7. QED
        BY <4>6 DEF left, right
    <3>4. QED
      BY <3>2, <3>3
  <2> HIDE DEF next
  <2>2. f = [bounds \in D \X D |-> next(bounds)]
    BY <2>1
  <2>3. QED
    BY <1>1, <2>2 DEF next, Searched
<1>4. Searched(ends, flatIndex, g)
  <2> HIDE DEF f
  <2> QED BY <1>3, Zenon
<1>5. FindChunkSetIndex(ends, flatIndex) = g[<<1, N>>]
  BY DEF FindChunkSetIndex, Searched, N
<1> HIDE DEF f, g
<1> DEFINE P(n) == \A left, right \in D :
                     right - left <= n => g[<<left, right>>] = Nearest(i, left, right)
           G == {n \in Nat : P(n)}
<1>6. ASSUME NEW left \in D, NEW right \in D
      PROVE  g[<<left, right>>] =
               LET middle == (left + right) \div 2
               IN  IF left >= right
                     THEN left
                     ELSE IF flatIndex < ends[middle]
                            THEN g[<<left, middle>>]
                            ELSE g[<<middle + 1, right>>]
  <2>1. <<left, right>> \in D \X D /\ DOMAIN ends = D
    BY <1>1
  <2>2. QED
    BY <1>4, <2>1 DEF Searched
<1>7. P(0)
  <2> SUFFICES ASSUME NEW left \in D, NEW right \in D, right - left <= 0
               PROVE  g[<<left, right>>] = Nearest(i, left, right)
    OBVIOUS
  <2>1. left >= right
    BY <1>1
  <2>2. QED
    BY <1>6, <2>1 DEF Nearest
<1>8. ASSUME NEW n \in Nat, P(n) PROVE P(n + 1)
  <2> SUFFICES ASSUME NEW left \in D, NEW right \in D, right - left <= n + 1
               PROVE  g[<<left, right>>] = Nearest(i, left, right)
    OBVIOUS
  <2>1. CASE left >= right
    BY <1>6, <2>1 DEF Nearest
  <2>2. CASE left < right
    <3> DEFINE middle == (left + right) \div 2
    <3>1. /\ middle \in D /\ middle + 1 \in D /\ left <= middle /\ middle < right
          /\ flatIndex < ends[middle] <=> i <= middle
          /\ i <= middle => Nearest(i, left, middle) = Nearest(i, left, right)
          /\ middle < i => Nearest(i, middle + 1, right) = Nearest(i, left, right)
      BY <1>2, <2>2
    <3>2. g[<<left, right>>] = IF flatIndex < ends[middle]
                                 THEN g[<<left, middle>>]
                                 ELSE g[<<middle + 1, right>>]
      <4>1. ~ (left >= right)
        BY <1>1, <2>2
      <4>2. QED
        BY <1>6, <4>1
    <3> HIDE DEF middle
    <3>3. middle - left <= n /\ right - (middle + 1) <= n
      <4>1. left \in Nat /\ right \in Nat /\ middle \in Nat
        BY <1>1, <3>1
      <4>2. QED
        BY <3>1, <4>1
    <3>4. /\ g[<<left, middle>>] = Nearest(i, left, middle)
          /\ g[<<middle + 1, right>>] = Nearest(i, middle + 1, right)
      BY <1>8, <3>1, <3>3
    <3>5. i <= middle \/ middle < i
      BY <1>1, <3>1
    <3>6. QED
      BY <3>1, <3>2, <3>4, <3>5
  <2>3. QED
    BY <1>1, <2>1, <2>2
<1> HIDE DEF P
<1>9. G = Nat
  <2>1. G \in SUBSET Nat /\ 0 \in G /\ \A n \in G : n + 1 \in G
    BY <1>7, <1>8
  <2> HIDE DEF G
  <2>2. QED
    BY <2>1, SetInduction
<1>10. P(N)
  BY <1>1, <1>9
<1>11. 1 \in D /\ N \in D /\ N - 1 <= N /\ i >= 1 /\ i <= N
  BY <1>1 DEF D
<1>12. g[<<1, N>>] = Nearest(i, 1, N)
  BY <1>10, <1>11 DEF P
<1>13. Nearest(i, 1, N) = i
  <2>1. i \in Nat
    BY <1>1
  <2>2. QED
    BY <1>1, <1>11, <2>1 DEF Nearest
<1>14. QED
  BY <1>5, <1>12, <1>13

\* The sums of the sizes of chunk sets, none of them empty, grow.
LEMMA SizeSumsGrow ==
  ASSUME NEW Time, NEW Value, NEW cs, WellFormed(cs, Time, Value)
  PROVE  LET S == SizeSums(cs)
             N == Len(cs)
         IN  /\ S \in [0 .. N -> Nat] /\ S[0] = 0
             /\ \A i \in 1 .. N : S[i] = S[i - 1] + cs[i].size
             /\ \A i, j \in 0 .. N : i <= j => S[i] <= S[j]
             /\ \A i, j \in 0 .. N : i < j => S[i] < S[j]
<1> DEFINE S == SizeSums(cs)
           N == Len(cs)
           a == [i \in 1 .. N |-> cs[i].size]
<1>1. /\ N \in Nat /\ cs \in Seq(ChunkSetOf(Time, Value))
      /\ \A i \in 1 .. N : cs[i].size \in Nat /\ cs[i].size > 0
  BY ChunkSetFacts DEF WellFormed
<1>2. /\ S \in [0 .. N -> Nat] /\ S[0] = 0
      /\ \A i \in 1 .. N : S[i] = S[i - 1] + cs[i].size
  BY <1>1, SizeSumsRecurrence
<1>3. a \in [1 .. N -> Nat] /\ \A i \in 1 .. N : S[i] = S[i - 1] + a[i]
  BY <1>1, <1>2
<1> HIDE DEF a, S, N
<1>4. ASSUME NEW i \in 0 .. N, NEW j \in 0 .. N, i <= j PROVE S[i] <= S[j]
  <2>1. j \in i .. N
    BY <1>1, <1>4
  <2>2. QED
    BY <1>1, <1>2, <1>3, <2>1, SumsMonotone
<1>5. ASSUME NEW i \in 0 .. N, NEW j \in 0 .. N, i < j PROVE S[i] < S[j]
  <2>1. i + 1 \in 1 .. N /\ i + 1 \in 0 .. N /\ i + 1 <= j /\ (i + 1) - 1 = i
    BY <1>1, <1>5
  <2>2. S[i + 1] = S[i] + cs[i + 1].size /\ cs[i + 1].size \in Nat /\ cs[i + 1].size > 0
    BY <1>1, <1>2, <2>1
  <2>3. S[i + 1] <= S[j] /\ S[i] \in Nat /\ S[j] \in Nat
    BY <1>2, <1>4, <2>1
  <2>4. \A x, y, z, w \in Nat : y = x + z /\ z > 0 /\ y <= w => x < w
    OBVIOUS
  <2>5. S[i + 1] \in Nat
    BY <1>2, <2>1
  <2>6. QED
    BY <2>2, <2>3, <2>4, <2>5
<1>6. QED
  BY <1>2, <1>4, <1>5 DEF S, N

\* A flat index is the number of items in the chunk sets before its own, plus
\* the place it has there.
LEMMA FlatIndexIs ==
  ASSUME NEW Time, NEW Value, NEW cs, WellFormed(cs, Time, Value),
         NEW i \in 1 .. Len(cs), NEW s \in Nat, s < cs[i].size
  PROVE  LET flatIndex == SizeSums(cs)[i - 1] + s
             st == RebuildIndexMetadata(cs)
         IN  /\ flatIndex \in Nat
             /\ ChunkAndPos(st, flatIndex)
                  = [chunkSet |-> i, slot |-> cs[i].start + s]
             /\ GetItem(st, flatIndex) = cs[i].items[cs[i].start + s]
<1> DEFINE S == SizeSums(cs)
           N == Len(cs)
           st == RebuildIndexMetadata(cs)
           flatIndex == S[i - 1] + s
           ends == st.flatEnds
<1>1. /\ N \in Nat /\ DOMAIN cs = 1 .. N
      /\ \A j \in 1 .. N : /\ cs[j].size \in Nat /\ GeometryOK(cs[j])
                           /\ cs[j] \in ChunkSetOf(Time, Value)
  BY ChunkSetFacts
<1>2. /\ S \in [0 .. N -> Nat] /\ S[0] = 0
      /\ \A j \in 1 .. N : S[j] = S[j - 1] + cs[j].size
      /\ \A j, k \in 0 .. N : j <= k => S[j] <= S[k]
  BY SizeSumsGrow
<1>3. st.chunkSets = cs /\ ends = [j \in 1 .. N |-> S[j]]
  BY <1>1, RebuildFields
<1> HIDE DEF S, st, flatIndex, N, ends
<1>4. /\ i \in 1 .. N /\ i - 1 \in 0 .. N /\ i \in 0 .. N /\ s \in Nat /\ s < cs[i].size
      /\ i \in Nat
  BY <1>1 DEF N
<1>5. /\ S[i - 1] \in Nat /\ flatIndex \in Nat
      /\ S[i - 1] <= flatIndex /\ flatIndex < S[i]
      /\ flatIndex - S[i - 1] = s
  <2>1. S[i - 1] \in Nat /\ S[i] = S[i - 1] + cs[i].size /\ cs[i].size \in Nat
    BY <1>1, <1>2, <1>4
  <2>2. \A x, y, z \in Nat : z < y => x + z \in Nat /\ x <= x + z /\ x + z < x + y
                                      /\ (x + z) - x = z
    OBVIOUS
  <2>3. QED
    BY <1>4, <2>1, <2>2 DEF flatIndex
<1>6. ends \in Seq(Nat) /\ Len(ends) = N
  <2>1. \A j \in 1 .. N : S[j] \in Nat
    BY <1>2
  <2>2. QED
    BY <1>1, <1>3, <2>1
<1>7. ASSUME NEW j \in 1 .. N PROVE flatIndex < ends[j] <=> i <= j
  <2>1. ends[j] = S[j] /\ S[j] \in Nat /\ S[i] \in Nat /\ j \in 0 .. N /\ j \in Nat
    BY <1>1, <1>2, <1>3, <1>4
  <2>2. CASE i <= j
    <3>1. S[i] <= S[j]
      BY <1>2, <1>4, <2>1, <2>2
    <3>2. QED
      BY <1>5, <2>1, <2>2, <3>1
  <2>3. CASE ~ (i <= j)
    <3>1. j <= i - 1
      BY <1>4, <2>1, <2>3
    <3>2. S[j] <= S[i - 1]
      BY <1>2, <1>4, <2>1, <3>1
    <3>3. QED
      BY <1>5, <2>1, <2>3, <3>2
  <2>4. QED
    BY <2>2, <2>3
<1>8. FindChunkSetIndex(ends, flatIndex) = i
  BY <1>4, <1>5, <1>6, <1>7, FindChunkSetIndexIs
<1>9. FlatEndAt(ends, i - 1) = S[i - 1]
  <2>1. CASE i = 1
    BY <1>2, <2>1 DEF FlatEndAt
  <2>2. CASE i # 1
    <3>1. i - 1 # 0 /\ i - 1 \in 1 .. N
      BY <1>1, <1>4, <2>2
    <3>2. QED
      BY <1>3, <3>1 DEF FlatEndAt
  <2>3. QED
    BY <2>1, <2>2
<1>10. ChunkAndPos(st, flatIndex) = [chunkSet |-> i, slot |-> cs[i].start + s]
  BY <1>3, <1>5, <1>8, <1>9 DEF ChunkAndPos, ends
<1>11. GetItem(st, flatIndex) = cs[i].items[cs[i].start + s]
  BY <1>3, <1>10 DEF GetItem
<1>12. QED
  BY <1>5, <1>10, <1>11 DEF flatIndex, st, S

\* Every flat index below the size is such a number.
LEMMA FlatIndexHasPlace ==
  ASSUME NEW Time, NEW Value, NEW cs, WellFormed(cs, Time, Value),
         NEW flatIndex \in Nat, flatIndex < SizeSums(cs)[Len(cs)]
  PROVE  \E i \in 1 .. Len(cs) : \E s \in 0 .. cs[i].size - 1 :
           flatIndex = SizeSums(cs)[i - 1] + s
<1> DEFINE S == SizeSums(cs)
           N == Len(cs)
           B == {i \in 0 .. N : flatIndex < S[i]}
           i == Min(B)
<1>1. /\ N \in Nat
      /\ \A j \in 1 .. N : cs[j].size \in Nat
      /\ S \in [0 .. N -> Nat] /\ S[0] = 0
      /\ \A j \in 1 .. N : S[j] = S[j - 1] + cs[j].size
  BY ChunkSetFacts, SizeSumsGrow
<1>2. N \in B /\ B \in SUBSET Nat
  BY <1>1
<1>3. i \in B /\ \A x \in B : i <= x
  <2> HIDE DEF B
  <2> QED BY <1>2, MinIsLeast
<1> HIDE DEF i
<1>4. i \in 1 .. N /\ i - 1 \in 0 .. N /\ i \in 0 .. N /\ flatIndex < S[i]
  <2>1. i \in 0 .. N /\ flatIndex < S[i]
    BY <1>3
  <2>2. i # 0
    BY <1>1, <2>1
  <2>3. QED
    BY <1>1, <2>1, <2>2
<1>5. S[i - 1] <= flatIndex
  <2>1. i - 1 \notin B
    <3>1. ~ (i <= i - 1)
      BY <1>4
    <3>2. QED
      BY <1>3, <3>1
  <2>2. S[i - 1] \in Nat /\ ~ (flatIndex < S[i - 1])
    BY <1>1, <1>4, <2>1
  <2>3. QED
    BY <2>2
<1> DEFINE s == flatIndex - S[i - 1]
<1>6. s \in 0 .. cs[i].size - 1 /\ flatIndex = S[i - 1] + s
  <2>1. S[i] = S[i - 1] + cs[i].size /\ S[i - 1] \in Nat /\ cs[i].size \in Nat
    BY <1>1, <1>4
  <2>2. \A x, y, z \in Nat : x <= z /\ z < x + y => z - x \in 0 .. y - 1 /\ z = x + (z - x)
    OBVIOUS
  <2>3. QED
    BY <1>4, <1>5, <2>1, <2>2
<1>7. QED
  BY <1>4, <1>6

\* The size of a storage is the number of items in its chunk sets.
LEMMA SizeIs ==
  ASSUME NEW Time, NEW Value, NEW cs, WellFormed(cs, Time, Value)
  PROVE  Size(RebuildIndexMetadata(cs)) = SizeSums(cs)[Len(cs)]
<1> DEFINE S == SizeSums(cs)
           N == Len(cs)
           ends == RebuildIndexMetadata(cs).flatEnds
<1>1. N \in Nat /\ DOMAIN cs = 1 .. N /\ S \in [0 .. N -> Nat] /\ S[0] = 0
  BY ChunkSetFacts, SizeSumsGrow
<1>2. ends = [j \in 1 .. N |-> S[j]]
  BY <1>1, RebuildFields
<1> HIDE DEF S, ends, N
<1>3. Len(ends) = N
  BY <1>1, <1>2
<1>4. FlatEndAt(ends, N) = S[N]
  <2>1. CASE N = 0
    BY <1>1, <2>1 DEF FlatEndAt
  <2>2. CASE N # 0
    <3>1. N \in 1 .. N
      BY <1>1, <2>2
    <3>2. QED
      BY <1>2, <2>2, <3>1 DEF FlatEndAt
  <2>3. QED
    BY <2>1, <2>2
<1>5. QED
  BY <1>3, <1>4 DEF Size, S, ends, N

-----------------------------------------------------------------------------
(* What a change does to the reads by flat index.                          *)

\* The flat index from which on all items are of lower levels than the given one.
FlatStart(cs, level) == SizeSums(cs)[ChunkSetInsertionIndex(cs, level) - 1]

\* The boundaries of a storage, and its size, are such indexes.
LEMMA FlatStartFacts ==
  ASSUME NEW Time, NEW Value, NEW cs, WellFormed(cs, Time, Value)
  PROVE  LET st == RebuildIndexMetadata(cs)
         IN  /\ \A x \in 0 .. NumberOfLevels : FlatStart(cs, x) \in Nat
             /\ \A x, y \in 0 .. NumberOfLevels :
                  x <= y => FlatStart(cs, y) <= FlatStart(cs, x)
             /\ FlatStart(cs, 0) = SizeSums(cs)[Len(cs)]
             /\ \A l \in Levels : /\ st.boundaries[l] = FlatStart(cs, l + 1)
                                  /\ LevelEnd(st, l) = FlatStart(cs, l)
<1> DEFINE S  == SizeSums(cs)
           N  == Len(cs)
           st == RebuildIndexMetadata(cs)
           at(x) == ChunkSetInsertionIndex(cs, x)
<1>1. /\ N \in Nat /\ DOMAIN cs = 1 .. N /\ cs \in Seq(ChunkSetOf(Time, Value))
      /\ \A i \in 1 .. N : cs[i].level \in Levels /\ cs[i].level \in Int
  BY ChunkSetFacts DEF WellFormed
<1>2. /\ S \in [0 .. N -> Nat]
      /\ \A i, j \in 0 .. N : i <= j => S[i] <= S[j]
  BY SizeSumsGrow
<1>3. ASSUME NEW x
      PROVE  /\ at(x) \in 1 .. N + 1
             /\ \A j \in 1 .. at(x) - 1 : ~ (cs[j].level < x)
             /\ at(x) <= N => cs[at(x)].level < x
             /\ FlatStart(cs, x) = S[at(x) - 1]
  BY <1>1, InsertionIndexIsFirst DEF FlatStart
<1>4. NumberOfLevels \in Nat /\ \A l \in Levels : l \in Nat /\ l <= NumberOfLevels - 1
  BY LevelsAssumption DEF Levels, MaxLevel
<1>5. Size(st) = S[N]
  BY SizeIs
<1>6. st.boundaries = [l \in Levels |-> S[at(l + 1) - 1]]
  BY RebuildFields
<1> HIDE DEF S, st, at
<1>7. \A x \in 0 .. NumberOfLevels : FlatStart(cs, x) \in Nat
  <2> TAKE x \in 0 .. NumberOfLevels
  <2>1. at(x) - 1 \in 0 .. N /\ FlatStart(cs, x) = S[at(x) - 1]
    BY <1>1, <1>3
  <2>2. QED
    BY <1>2, <2>1
<1>8. \A x, y \in 0 .. NumberOfLevels :
        x <= y => FlatStart(cs, y) <= FlatStart(cs, x)
  <2> SUFFICES ASSUME NEW x \in 0 .. NumberOfLevels, NEW y \in 0 .. NumberOfLevels,
                      x <= y
               PROVE  FlatStart(cs, y) <= FlatStart(cs, x)
    OBVIOUS
  <2>1. /\ at(x) \in 1 .. N + 1 /\ at(y) \in 1 .. N + 1
        /\ x \in Int /\ y \in Int
    BY <1>3, <1>4
  <2>2. ASSUME at(x) < at(y) PROVE FALSE
    <3>1. at(x) <= N /\ at(x) \in 1 .. at(y) - 1 /\ at(x) \in 1 .. N
      BY <1>1, <2>1, <2>2
    <3>2. cs[at(x)].level < x /\ ~ (cs[at(x)].level < y) /\ cs[at(x)].level \in Int
      BY <1>1, <1>3, <3>1
    <3>3. QED
      BY <2>1, <3>2
  <2>3. at(y) - 1 \in 0 .. N /\ at(x) - 1 \in 0 .. N /\ at(y) - 1 <= at(x) - 1
    BY <1>1, <2>1, <2>2
  <2>4. S[at(y) - 1] <= S[at(x) - 1]
    BY <1>2, <2>3
  <2>5. QED
    BY <1>3, <2>4
<1>9. FlatStart(cs, 0) = S[N]
  <2>1. ASSUME at(0) <= N PROVE FALSE
    <3>1. at(0) \in 1 .. N /\ cs[at(0)].level < 0
      BY <1>1, <1>3, <2>1
    <3>2. QED
      BY <1>1, <1>4, <3>1
  <2>2. at(0) - 1 = N
    BY <1>1, <1>3, <2>1
  <2>3. QED
    BY <1>3, <2>2
<1>10. ASSUME NEW l \in Levels
       PROVE  /\ st.boundaries[l] = FlatStart(cs, l + 1)
              /\ LevelEnd(st, l) = FlatStart(cs, l)
  <2>1. st.boundaries[l] = FlatStart(cs, l + 1)
    BY <1>3, <1>6
  <2>2. CASE l = 0
    BY <1>5, <1>9, <2>1, <2>2 DEF LevelEnd
  <2>3. CASE l # 0
    <3>1. l - 1 \in Levels /\ (l - 1) + 1 = l
      BY <1>4, <2>3, LevelsAssumption DEF Levels, MaxLevel
    <3>2. st.boundaries[l - 1] = S[at(l) - 1]
      BY <1>6, <3>1
    <3>3. LevelEnd(st, l) = st.boundaries[l - 1]
      BY <2>3 DEF LevelEnd
    <3>4. QED
      BY <1>3, <2>1, <3>2, <3>3
  <2>4. QED
    BY <2>2, <2>3
<1>11. QED
  BY <1>7, <1>8, <1>9, <1>10 DEF S, st

\* Two storages read the same where the same item lies at the place found.
LEMMA ReadSame ==
  ASSUME NEW Time, NEW Value, NEW cs, NEW ds,
         WellFormed(cs, Time, Value), WellFormed(ds, Time, Value),
         NEW i \in 1 .. Len(cs), NEW s \in Nat, s < cs[i].size,
         NEW j \in 1 .. Len(ds), NEW z \in Nat, z < ds[j].size,
         ds[j].items[ds[j].start + z] = cs[i].items[cs[i].start + s],
         NEW f, f = SizeSums(cs)[i - 1] + s,
         NEW g, g = SizeSums(ds)[j - 1] + z
  PROVE  GetItem(RebuildIndexMetadata(ds), g) = GetItem(RebuildIndexMetadata(cs), f)
<1>1. LET flatIndex == SizeSums(cs)[i - 1] + s
          st == RebuildIndexMetadata(cs)
      IN  /\ flatIndex \in Nat
          /\ ChunkAndPos(st, flatIndex)
               = [chunkSet |-> i, slot |-> cs[i].start + s]
          /\ GetItem(st, flatIndex) = cs[i].items[cs[i].start + s]
  BY FlatIndexIs, SMTT(30)
<1>2. LET flatIndex == SizeSums(ds)[j - 1] + z
          st == RebuildIndexMetadata(ds)
      IN  /\ flatIndex \in Nat
          /\ ChunkAndPos(st, flatIndex)
               = [chunkSet |-> j, slot |-> ds[j].start + z]
          /\ GetItem(st, flatIndex) = ds[j].items[ds[j].start + z]
  BY FlatIndexIs
<1>3. QED
  BY <1>1, <1>2, Zenon

\* A write changes the read of its own flat index and no other.
LEMMA SetItemReads ==
  ASSUME NEW Time, NEW Value, NEW cs, WellFormed(cs, Time, Value), NEW item,
         NEW p \in Nat, p < SizeSums(cs)[Len(cs)],
         NEW f \in Nat, f < SizeSums(cs)[Len(cs)]
  PROVE  GetItem(SetItem(RebuildIndexMetadata(cs), p, item), f)
           = IF f = p THEN item ELSE GetItem(RebuildIndexMetadata(cs), f)
<1> DEFINE S  == SizeSums(cs)
           N  == Len(cs)
           C  == ChunkSetOf(Time, Value)
           st == RebuildIndexMetadata(cs)
           ts == SetItem(st, p, item)
<1>1. /\ N \in Nat /\ DOMAIN cs = 1 .. N /\ cs \in Seq(C)
      /\ \A i \in 1 .. N : cs[i] \in C /\ GeometryOK(cs[i]) /\ cs[i].size \in Nat
  BY ChunkSetFacts DEF WellFormed
<1>2. /\ \E i \in 1 .. N : \E s \in 0 .. cs[i].size - 1 : p = S[i - 1] + s
      /\ \E j \in 1 .. N : \E z \in 0 .. cs[j].size - 1 : f = S[j - 1] + z
  BY FlatIndexHasPlace
<1>3. PICK i \in 1 .. N : \E s \in 0 .. cs[i].size - 1 : p = S[i - 1] + s
  BY <1>2
<1>4. PICK s \in 0 .. cs[i].size - 1 : p = S[i - 1] + s
  BY <1>3
<1>5. PICK j \in 1 .. N : \E z \in 0 .. cs[j].size - 1 : f = S[j - 1] + z
  BY <1>2
<1>6. PICK z \in 0 .. cs[j].size - 1 : f = S[j - 1] + z
  BY <1>5
<1>7. /\ s \in Nat /\ s < cs[i].size /\ z \in Nat /\ z < cs[j].size
  BY <1>1
<1>8. ChunkAndPos(st, p) = [chunkSet |-> i, slot |-> cs[i].start + s]
  <2>1. LET flatIndex == SizeSums(cs)[i - 1] + s
        IN  /\ flatIndex \in Nat
            /\ ChunkAndPos(RebuildIndexMetadata(cs), flatIndex)
                 = [chunkSet |-> i, slot |-> cs[i].start + s]
            /\ GetItem(RebuildIndexMetadata(cs), flatIndex)
                 = cs[i].items[cs[i].start + s]
    BY <1>7, FlatIndexIs
  <2>2. QED
    BY <1>4, <2>1
<1>9. ChunkAndPos(st, f) = [chunkSet |-> j, slot |-> cs[j].start + z]
  <2>1. LET flatIndex == SizeSums(cs)[j - 1] + z
        IN  /\ flatIndex \in Nat
            /\ ChunkAndPos(RebuildIndexMetadata(cs), flatIndex)
                 = [chunkSet |-> j, slot |-> cs[j].start + z]
            /\ GetItem(RebuildIndexMetadata(cs), flatIndex)
                 = cs[j].items[cs[j].start + z]
    BY <1>7, FlatIndexIs
  <2>2. QED
    BY <1>6, <2>1
<1>10. st.chunkSets = cs /\ DOMAIN st = {"chunkSets", "flatEnds", "boundaries", "startLevel0Index"}
  BY RebuildFields
<1> HIDE DEF S, N, st
<1> DEFINE new == [cs[i] EXCEPT !.items[cs[i].start + s] = item]
           ds  == [cs EXCEPT ![i] = new]
<1>11. ts.chunkSets = ds /\ ts.flatEnds = st.flatEnds
  <2>1. ts = [st EXCEPT !.chunkSets[i].items[cs[i].start + s] = item]
    BY <1>8 DEF SetItem
  <2>2. QED
    BY <1>10, <2>1
<1>12. /\ cs[i].items \in [Slots -> Value] /\ cs[i].start + s \in Slots
       /\ new.start = cs[i].start
       /\ new.items = [cs[i].items EXCEPT ![cs[i].start + s] = item]
  <2>1. /\ cs[i] \in C /\ GeometryOK(cs[i])
    BY <1>1
  <2>2. /\ cs[i].items \in [Slots -> Value]
        /\ new.start = cs[i].start
        /\ new.items = [cs[i].items EXCEPT ![cs[i].start + s] = item]
        /\ cs[i].start \in 0 .. STORAGE_CHUNK_CAPACITY
        /\ cs[i].end \in 0 .. STORAGE_CHUNK_CAPACITY
    BY <2>1 DEF ChunkSetOf
  <2>3. /\ cs[i].start < cs[i].end /\ cs[i].end <= STORAGE_CHUNK_CAPACITY
        /\ cs[i].size = cs[i].end - cs[i].start
    BY <2>1 DEF GeometryOK
  <2>4. \A x, y, n \in Nat : n < y - x /\ y <= STORAGE_CHUNK_CAPACITY
                               => x + n \in 0 .. STORAGE_CHUNK_CAPACITY - 1
    BY CapacityAssumption
  <2>5. cs[i].start + s \in Slots
    BY <1>7, <2>2, <2>3, <2>4, SMTT(30) DEF Slots
  <2>6. QED
    BY <2>2, <2>5
<1> HIDE DEF new, C
<1>13. \A k \in 1 .. N : ds[k] = IF k = i THEN new ELSE cs[k]
  BY <1>1
<1> HIDE DEF ds, ts
<1>14. \A k \in 1 .. N : ds[k].start = cs[k].start
  BY <1>12, <1>13
<1>15. ChunkAndPos(ts, f) = [chunkSet |-> j, slot |-> cs[j].start + z]
  <2>1. FindChunkSetIndex(st.flatEnds, f) = j
    BY <1>9 DEF ChunkAndPos
  <2>2. ChunkAndPos(ts, f) = ChunkAndPos(st, f)
    BY <1>10, <1>11, <1>14, <2>1 DEF ChunkAndPos
  <2>3. QED
    BY <1>9, <2>2
<1>16. /\ GetItem(ts, f) = ds[j].items[cs[j].start + z]
       /\ GetItem(st, f) = cs[j].items[cs[j].start + z]
  BY <1>9, <1>10, <1>11, <1>15 DEF GetItem
<1>17. ASSUME f = p PROVE GetItem(ts, f) = item
  <2>1. j = i /\ cs[j].start + z = cs[i].start + s
    BY <1>8, <1>9, <1>17
  <2>2. ds[j].items = [cs[i].items EXCEPT ![cs[i].start + s] = item]
    BY <1>12, <1>13, <2>1
  <2>3. ds[j].items[cs[i].start + s] = item
    BY <1>12, <2>2
  <2>4. QED
    BY <1>16, <1>17, <2>1, <2>3
<1>18. ASSUME f # p PROVE GetItem(ts, f) = GetItem(st, f)
  <2>1. CASE j = i
    <3>1. s # z
      BY <1>4, <1>6, <1>18, <2>1
    <3>2. cs[j].start \in Int
      <4>1. cs[j] \in C
        BY <1>1
      <4>2. cs[j].start \in 0 .. STORAGE_CHUNK_CAPACITY
        BY <4>1 DEF C, ChunkSetOf
      <4>3. QED
        BY <4>2
    <3>3. cs[j].start + z # cs[i].start + s
      BY <1>7, <2>1, <3>1, <3>2
    <3>4. ds[j].items = [cs[i].items EXCEPT ![cs[i].start + s] = item]
      BY <1>12, <1>13, <2>1
    <3>5. ds[j].items[cs[j].start + z] = cs[j].items[cs[j].start + z]
      BY <1>12, <2>1, <3>3, <3>4
    <3>6. QED
      BY <1>16, <1>18, <3>5
  <2>2. CASE j # i
    BY <1>13, <1>16, <1>18, <2>2
  <2>3. QED
    BY <2>1, <2>2
<1>19. QED
  BY <1>17, <1>18 DEF ts, st

\* The partial sums after an addition: those from the touched chunk set on grow
\* by one.
LEMMA AddSums ==
  ASSUME NEW Time, NEW Value, EmptyItem \in Value, NEW cs,
         WellFormed(cs, Time, Value),
         NEW level \in Levels, NEW s \in Time, NEW e \in Time
  PROVE  LET at   == ChunkSetInsertionIndex(cs, level)
             ds   == AddToChunkSets(cs, level, s, e)
             room == HasRoom(cs, at - 1, level)
         IN  /\ room => /\ Len(ds) = Len(cs)
                        /\ at - 1 \in 1 .. Len(cs)
                        /\ \A i \in 0 .. Len(cs) :
                             SizeSums(ds)[i] = IF i >= at - 1 THEN SizeSums(cs)[i] + 1
                                                              ELSE SizeSums(cs)[i]
             /\ ~ room => /\ Len(ds) = Len(cs) + 1
                          /\ \A i \in 0 .. Len(cs) + 1 :
                               SizeSums(ds)[i] = IF i < at THEN SizeSums(cs)[i]
                                                 ELSE SizeSums(cs)[i - 1] + 1
<1> DEFINE at   == ChunkSetInsertionIndex(cs, level)
           ds   == AddToChunkSets(cs, level, s, e)
           S    == SizeSums(cs)
           T    == SizeSums(ds)
           N    == Len(cs)
           M    == Len(ds)
           fe   == RebuildIndexMetadata(cs).flatEnds
           fd   == RebuildIndexMetadata(ds).flatEnds
<1>1. WellFormed(ds, Time, Value)
  BY AddKeepsWellFormed
<1>2. /\ N \in Nat /\ DOMAIN cs = 1 .. N /\ cs \in Seq(ChunkSetOf(Time, Value))
  BY ChunkSetFacts DEF WellFormed
<1>3. /\ M \in Nat /\ DOMAIN ds = 1 .. M
  BY <1>1, ChunkSetFacts
<1>4. /\ S \in [0 .. N -> Nat] /\ S[0] = 0
  BY SizeSumsGrow
<1>5. /\ T \in [0 .. M -> Nat] /\ T[0] = 0
  BY <1>1, SizeSumsGrow
<1>6. at \in 1 .. N + 1
  BY <1>2, InsertionIndexIsFirst
<1>7. fe = [i \in 1 .. N |-> S[i]] /\ fd = [i \in 1 .. M |-> T[i]]
  BY <1>2, <1>3, RebuildFields
<1>8. fd = AddToFlatEnds(fe, cs, level)
  <2>1. AddItemStructure(RebuildIndexMetadata(cs), level, s, e)
          = RebuildIndexMetadata(ds)
    BY AddMetadata
  <2>2. RebuildIndexMetadata(cs).chunkSets = cs
    BY RebuildFields
  <2>3. AddItemStructure(RebuildIndexMetadata(cs), level, s, e).flatEnds
          = AddToFlatEnds(fe, cs, level)
    BY <2>2 DEF AddItemStructure
  <2>4. QED
    BY <2>1, <2>3
<1>9. DOMAIN fe = 1 .. N /\ Len(fe) = N /\ DOMAIN fd = 1 .. M /\ Len(fd) = M
  <2> HIDE DEF S, T, N, M
  <2> QED BY <1>2, <1>3, <1>7
<1> HIDE DEF at, ds, S, T, N, M, fe, fd
<1>10. ASSUME HasRoom(cs, at - 1, level)
       PROVE  /\ M = N /\ at - 1 \in 1 .. N
              /\ \A i \in 0 .. N : T[i] = IF i >= at - 1 THEN S[i] + 1 ELSE S[i]
  <2>1. at - 1 \in 1 .. N
    BY <1>2, <1>10 DEF HasRoom
  <2>2. fd = [i \in 1 .. N |-> IF i >= at - 1 THEN fe[i] + 1 ELSE fe[i]]
    BY <1>8, <1>9, <1>10 DEF AddToFlatEnds, at
  <2>3. M = N
    BY <1>2, <1>3, <1>9, <2>2
  <2>4. ASSUME NEW i \in 0 .. N
        PROVE  T[i] = IF i >= at - 1 THEN S[i] + 1 ELSE S[i]
    <3>1. CASE i = 0
      BY <1>4, <1>5, <2>1, <3>1
    <3>2. CASE i # 0
      <4>1. i \in 1 .. N
        BY <1>2, <3>2
      <4>2. fd[i] = T[i] /\ fe[i] = S[i]
        BY <1>7, <2>3, <4>1
      <4>3. fd[i] = IF i >= at - 1 THEN fe[i] + 1 ELSE fe[i]
        BY <2>2, <4>1
      <4>4. QED
        BY <4>2, <4>3
    <3>3. QED
      BY <3>1, <3>2
  <2>5. QED
    BY <2>1, <2>3, <2>4
<1>11. ASSUME ~ HasRoom(cs, at - 1, level)
       PROVE  /\ M = N + 1
              /\ \A i \in 0 .. N + 1 : T[i] = IF i < at THEN S[i] ELSE S[i - 1] + 1
  <2>1. fd = [i \in 1 .. N + 1 |-> IF i < at THEN fe[i] ELSE FlatEndAt(fe, i - 1) + 1]
    BY <1>8, <1>9, <1>11 DEF AddToFlatEnds, at
  <2>2. M = N + 1
    BY <1>2, <1>3, <1>9, <2>1
  <2>3. \A i \in 0 .. N : FlatEndAt(fe, i) = S[i]
    BY <1>2, <1>4, <1>7 DEF FlatEndAt
  <2>4. ASSUME NEW i \in 0 .. N + 1
        PROVE  T[i] = IF i < at THEN S[i] ELSE S[i - 1] + 1
    <3>1. CASE i = 0
      BY <1>4, <1>5, <1>6, <3>1
    <3>2. CASE i # 0
      <4>1. i \in 1 .. N + 1 /\ i - 1 \in 0 .. N /\ (i < at => i \in 1 .. N)
        BY <1>2, <1>6, <3>2
      <4>2. fd[i] = T[i] /\ (i < at => fe[i] = S[i]) /\ FlatEndAt(fe, i - 1) = S[i - 1]
        BY <1>7, <2>2, <2>3, <4>1
      <4>3. fd[i] = IF i < at THEN fe[i] ELSE FlatEndAt(fe, i - 1) + 1
        BY <2>1, <4>1
      <4>4. QED
        BY <4>2, <4>3
    <3>3. QED
      BY <3>1, <3>2
  <2>5. QED
    BY <2>2, <2>4
<1>12. QED
  BY <1>10, <1>11 DEF at, ds, S, T, N, M

\* An addition moves the starts of the lower levels by one.
LEMMA AddFlatStarts ==
  ASSUME NEW Time, NEW Value, EmptyItem \in Value, NEW cs,
         WellFormed(cs, Time, Value),
         NEW level \in Levels, NEW s \in Time, NEW e \in Time,
         NEW x \in 0 .. NumberOfLevels
  PROVE  FlatStart(AddToChunkSets(cs, level, s, e), x)
           = IF x <= level THEN FlatStart(cs, x) + 1 ELSE FlatStart(cs, x)
<1> DEFINE ds == AddToChunkSets(cs, level, s, e)
           st == RebuildIndexMetadata(cs)
           sd == RebuildIndexMetadata(ds)
<1>1. WellFormed(ds, Time, Value)
  BY AddKeepsWellFormed
<1>2. /\ FlatStart(cs, 0) = SizeSums(cs)[Len(cs)]
      /\ \A l \in Levels : st.boundaries[l] = FlatStart(cs, l + 1)
  BY FlatStartFacts
<1>3. /\ FlatStart(ds, 0) = SizeSums(ds)[Len(ds)]
      /\ \A l \in Levels : sd.boundaries[l] = FlatStart(ds, l + 1)
  BY <1>1, FlatStartFacts
<1>4. level \in Nat /\ NumberOfLevels \in Nat
  BY LevelsAssumption DEF Levels, MaxLevel
<1>5. Len(cs) \in Nat /\ cs \in Seq(ChunkSetOf(Time, Value))
  BY ChunkSetFacts DEF WellFormed
<1>6. CASE x = 0
  <2> DEFINE at == ChunkSetInsertionIndex(cs, level)
  <2>1. SizeSums(ds)[Len(ds)] = SizeSums(cs)[Len(cs)] + 1
    <3>1. at \in 1 .. Len(cs) + 1
      BY <1>5, InsertionIndexIsFirst
    <3>2. /\ HasRoom(cs, at - 1, level) =>
               /\ Len(ds) = Len(cs) /\ at - 1 \in 1 .. Len(cs)
               /\ \A i \in 0 .. Len(cs) :
                    SizeSums(ds)[i] = IF i >= at - 1 THEN SizeSums(cs)[i] + 1
                                                     ELSE SizeSums(cs)[i]
          /\ ~ HasRoom(cs, at - 1, level) =>
               /\ Len(ds) = Len(cs) + 1
               /\ \A i \in 0 .. Len(cs) + 1 :
                    SizeSums(ds)[i] = IF i < at THEN SizeSums(cs)[i]
                                      ELSE SizeSums(cs)[i - 1] + 1
      BY AddSums
    <3> HIDE DEF ds, at
    <3>3. CASE HasRoom(cs, at - 1, level)
      BY <1>5, <3>1, <3>2, <3>3
    <3>4. CASE ~ HasRoom(cs, at - 1, level)
      <4>1. /\ Len(cs) + 1 \in 0 .. Len(cs) + 1 /\ ~ (Len(cs) + 1 < at)
            /\ (Len(cs) + 1) - 1 = Len(cs)
        BY <1>5, <3>1
      <4>2. QED
        BY <3>2, <3>4, <4>1
    <3>5. QED
      BY <3>3, <3>4
  <2>2. QED
    BY <1>2, <1>3, <1>4, <1>6, <2>1
<1>7. CASE x # 0
  <2>1. x - 1 \in Levels /\ (x - 1) + 1 = x
    BY <1>4, <1>7 DEF Levels, MaxLevel
  <2>2. sd.boundaries = [l \in Levels |-> IF l < level THEN st.boundaries[l] + 1
                                                       ELSE st.boundaries[l]]
    <3>1. AddItemStructure(st, level, s, e) = sd
      BY AddMetadata
    <3>2. AddItemStructure(st, level, s, e).boundaries
            = [l \in Levels |-> IF l < level THEN st.boundaries[l] + 1
                                             ELSE st.boundaries[l]]
      BY DEF AddItemStructure
    <3>3. QED
      BY <3>1, <3>2
  <2> HIDE DEF st, sd, ds
  <2>3. sd.boundaries[x - 1] = IF x - 1 < level THEN st.boundaries[x - 1] + 1
                                                ELSE st.boundaries[x - 1]
    BY <2>1, <2>2
  <2>4. x - 1 < level <=> x <= level
    BY <1>4
  <2>5. sd.boundaries[x - 1] = FlatStart(ds, x) /\ st.boundaries[x - 1] = FlatStart(cs, x)
    BY <1>2, <1>3, <2>1
  <2>6. QED
    BY <2>3, <2>4, <2>5 DEF ds
<1>8. QED
  BY <1>6, <1>7

\* The structure an addition makes room in reads the same before the new place,
\* and the items after it are found one further on.
LEMMA AddReads ==
  ASSUME NEW Time, NEW Value, EmptyItem \in Value, NEW cs,
         WellFormed(cs, Time, Value),
         NEW level \in Levels, NEW s \in Time, NEW e \in Time,
         NEW f \in Nat, f < SizeSums(cs)[Len(cs)]
  PROVE  GetItem(RebuildIndexMetadata(cs), f)
           = GetItem(RebuildIndexMetadata(AddToChunkSets(cs, level, s, e)),
                     IF f < FlatStart(cs, level) THEN f ELSE f + 1)
<1> DEFINE at == ChunkSetInsertionIndex(cs, level)
           ds == AddToChunkSets(cs, level, s, e)
           S  == SizeSums(cs)
           T  == SizeSums(ds)
           N  == Len(cs)
           C  == ChunkSetOf(Time, Value)
           p  == FlatStart(cs, level)
           g  == IF f < p THEN f ELSE f + 1
<1>1. WellFormed(ds, Time, Value)
  BY AddKeepsWellFormed
<1>2. /\ N \in Nat /\ DOMAIN cs = 1 .. N /\ cs \in Seq(C)
      /\ \A i \in 1 .. N : cs[i] \in C /\ cs[i].size \in Nat
  BY ChunkSetFacts DEF WellFormed
<1>3. at \in 1 .. N + 1 /\ p = S[at - 1]
  BY <1>2, InsertionIndexIsFirst DEF FlatStart
<1>4. /\ S \in [0 .. N -> Nat]
      /\ \A i, j \in 0 .. N : i <= j => S[i] <= S[j]
      /\ \A i \in 1 .. N : S[i] = S[i - 1] + cs[i].size
  BY SizeSumsGrow
<1>5. \E i \in 1 .. N : \E z \in 0 .. cs[i].size - 1 : f = S[i - 1] + z
  BY FlatIndexHasPlace
<1>6. /\ HasRoom(cs, at - 1, level) =>
           /\ Len(ds) = N /\ at - 1 \in 1 .. N
           /\ \A i \in 0 .. N : T[i] = IF i >= at - 1 THEN S[i] + 1 ELSE S[i]
      /\ ~ HasRoom(cs, at - 1, level) =>
           /\ Len(ds) = N + 1
           /\ \A i \in 0 .. N + 1 : T[i] = IF i < at THEN S[i] ELSE S[i - 1] + 1
  BY AddSums
<1>7. PICK i \in 1 .. N : \E z \in 0 .. cs[i].size - 1 : f = S[i - 1] + z
  BY <1>5
<1>8. PICK z \in 0 .. cs[i].size - 1 : f = S[i - 1] + z
  BY <1>7
<1>9. z \in Nat /\ z < cs[i].size
  BY <1>2
\* the chunk sets before the insertion index hold the items before p
<1>10. f < p <=> i < at
  <2> HIDE DEF S, p, at, N, g, ds, T
  <2>1. /\ i \in 0 .. N /\ i - 1 \in 0 .. N /\ at - 1 \in 0 .. N
        /\ S[i - 1] \in Nat /\ S[i] \in Nat /\ S[at - 1] \in Nat
    <3>1. i \in 0 .. N /\ i - 1 \in 0 .. N /\ at - 1 \in 0 .. N
      BY <1>2, <1>3
    <3>2. QED
      BY <1>4, <3>1
  <2>2. S[i - 1] <= f /\ f < S[i]
    <3>1. S[i] = S[i - 1] + cs[i].size
      BY <1>4
    <3>2. cs[i].size \in Nat
      BY <1>2
    <3>3. QED
      BY <1>8, <1>9, <2>1, <3>1, <3>2, SMTT(30)
  <2>3. CASE i < at
    <3>1. i <= at - 1
      BY <1>2, <1>3, <2>3
    <3>2. S[i] <= S[at - 1]
      BY <1>4, <2>1, <3>1
    <3>3. QED
      BY <1>3, <2>1, <2>2, <2>3, <3>2
  <2>4. CASE ~ (i < at)
    <3>1. at - 1 <= i - 1
      BY <1>2, <1>3, <2>4
    <3>2. S[at - 1] <= S[i - 1]
      BY <1>4, <2>1, <3>1
    <3>3. QED
      BY <1>3, <2>1, <2>2, <2>4, <3>2
  <2>5. QED
    BY <2>3, <2>4
<1>11. S[i - 1] \in Nat /\ f = S[i - 1] + z /\ f + 1 = (S[i - 1] + 1) + z
  <2>1. i - 1 \in 0 .. N
    BY <1>2
  <2>2. S[i - 1] \in Nat
    BY <1>4, <2>1
  <2> HIDE DEF S
  <2>3. QED
    BY <1>8, <1>9, <2>2
<1>12. \E j \in 1 .. Len(ds) : /\ g = T[j - 1] + z /\ z < ds[j].size
                               /\ ds[j].start = cs[i].start
                               /\ \A k : ds[j].items[k] = cs[i].items[k]
  <2>1. CASE HasRoom(cs, at - 1, level)
    <3> DEFINE k   == at - 1
               new == [cs[k] EXCEPT !.end = @ + 1, !.size = @ + 1, !.endedAt = e]
    <3>1. ds = [cs EXCEPT ![k] = new] /\ Len(ds) = N /\ k \in 1 .. N
      <4>1. ds = Grown(cs, k, e)
        BY <2>1, AddWithRoom
      <4>2. QED
        BY <1>6, <2>1, <4>1 DEF Grown
    <3>2. /\ new.size = cs[k].size + 1 /\ new.start = cs[k].start
          /\ new.items = cs[k].items
      <4>1. cs[k] \in C
        BY <1>2, <3>1
      <4>2. QED
        BY <4>1 DEF ChunkSetOf
    <3> HIDE DEF new, k, C
    <3>3. ds[i] = IF i = k THEN new ELSE cs[i]
      BY <1>2, <3>1
    <3>4. ds[i].start = cs[i].start /\ ds[i].items = cs[i].items
      BY <3>2, <3>3
    <3>5. z < ds[i].size
      BY <1>2, <1>9, <3>2, <3>3
    <3>6. T[i - 1] = IF i - 1 >= at - 1 THEN S[i - 1] + 1 ELSE S[i - 1]
      <4>1. i - 1 \in 0 .. N
        BY <1>2
      <4>2. QED
        BY <1>6, <2>1, <4>1
    <3>7. i < at <=> ~ (i - 1 >= at - 1)
      BY <1>2, <1>3
    <3>8. g = T[i - 1] + z
      BY <1>10, <1>11, <3>6, <3>7
    <3>9. i \in 1 .. Len(ds)
      BY <3>1
    <3> HIDE DEF ds, g, T
    <3>10. QED
      BY <3>4, <3>5, <3>8, <3>9
  <2>2. CASE ~ HasRoom(cs, at - 1, level)
    <3> DEFINE new == NewChunkSet(level, s, e)
    <3>1. ds = Inserted(cs, at, new)
      BY <1>2, <2>2, AddWithoutRoom
    <3> HIDE DEF new
    <3>2. /\ Len(ds) = N + 1
          /\ \A j \in 1 .. N + 1 :
               ds[j] = IF j < at THEN cs[j] ELSE IF j = at THEN new ELSE cs[j - 1]
      BY <1>6, <2>2, <3>1 DEF Inserted
    <3> HIDE DEF ds, T, S, p, at, N
    <3>3. CASE i < at
      <4>1. i \in 1 .. N + 1 /\ i - 1 \in 0 .. N + 1 /\ i - 1 < at
        BY <1>2, <1>3, <3>3
      <4>2. ds[i] = cs[i] /\ T[i - 1] = S[i - 1]
        BY <1>6, <2>2, <3>2, <3>3, <4>1
      <4>3. g = f
        BY <1>10, <3>3
      <4>4. i \in 1 .. Len(ds) /\ g = T[i - 1] + z /\ z < ds[i].size
        BY <1>9, <1>11, <3>2, <4>1, <4>2, <4>3
      <4> HIDE DEF g
      <4>5. QED
        BY <4>2, <4>4
    <3>4. CASE ~ (i < at)
      <4>1. /\ i + 1 \in 1 .. N + 1 /\ (i + 1) - 1 = i /\ i \in 0 .. N + 1
            /\ ~ (i + 1 < at) /\ i + 1 # at
        BY <1>2, <1>3, <3>4
      <4>2. ds[i + 1] = cs[i] /\ T[i] = S[i - 1] + 1
        BY <1>6, <2>2, <3>2, <3>4, <4>1
      <4>3. g = f + 1
        BY <1>10, <3>4
      <4>4. i + 1 \in 1 .. Len(ds) /\ g = T[(i + 1) - 1] + z /\ z < ds[i + 1].size
        BY <1>9, <1>11, <3>2, <4>1, <4>2, <4>3
      <4> HIDE DEF g
      <4>5. QED
        BY <4>2, <4>4
    <3>5. QED
      BY <3>3, <3>4
  <2>3. QED
    BY <2>1, <2>2
<1> HIDE DEF ds, S, T, p, g, at, N, C
<1>13. PICK j \in 1 .. Len(ds) : /\ g = T[j - 1] + z /\ z < ds[j].size
                                 /\ ds[j].start = cs[i].start
                                 /\ \A k : ds[j].items[k] = cs[i].items[k]
  BY <1>12
<1>14. ds[j].items[ds[j].start + z] = cs[i].items[cs[i].start + z]
  BY <1>13
<1>15. GetItem(RebuildIndexMetadata(ds), g) = GetItem(RebuildIndexMetadata(cs), f)
  BY <1>1, <1>8, <1>9, <1>13, <1>14, ReadSame, SMTT(30) DEF S, T, N
<1>16. QED
  BY <1>15 DEF ds, g, p

\* The partial sums after a deletion.
LEMMA DeleteSums ==
  ASSUME NEW Time, NEW Value, NEW cs, WellFormed(cs, Time, Value),
         NEW level \in Levels, NEW count \in Nat \ {0}, NEW t,
         count <= LevelSize(RebuildIndexMetadata(cs), level),
         t \in Time \/ TrimCount(cs, level, count) = 0
  PROVE  LET a    == ChunkSetInsertionIndex(cs, level + 1)
             r    == LastRemoved(cs, level, count)
             gone == r - a + 1
             ds   == DeleteFromChunkSets(cs, level, count, t)
         IN  /\ Len(ds) = Len(cs) - gone
             /\ \A i \in 0 .. Len(ds) :
                  SizeSums(ds)[i] = IF i < a THEN SizeSums(cs)[i]
                                    ELSE SizeSums(cs)[i + gone] - count
<1> DEFINE a    == ChunkSetInsertionIndex(cs, level + 1)
           r    == LastRemoved(cs, level, count)
           tr   == TrimCount(cs, level, count)
           gone == r - a + 1
           kept == Without(cs, a, r)
           ds   == DeleteFromChunkSets(cs, level, count, t)
           S    == SizeSums(cs)
           N    == Len(cs)
           C    == ChunkSetOf(Time, Value)
           T    == [i \in 0 .. N - gone |-> IF i < a THEN S[i] ELSE S[i + gone] - count]
<1>1. /\ N \in Nat /\ DOMAIN cs = 1 .. N /\ cs \in Seq(C)
      /\ \A i \in 1 .. N : cs[i] \in C /\ cs[i].size \in Nat
  BY ChunkSetFacts DEF WellFormed
<1>2. /\ a \in 1 .. N /\ r \in a - 1 .. N /\ tr \in Nat
      /\ tr = count - (S[r] - S[a - 1])
      /\ tr > 0 => r + 1 \in 1 .. N /\ cs[r + 1].size > tr
      /\ ds = IF tr = 0 THEN kept ELSE Trimmed(kept, a, tr, t)
  BY DeletedRange
<1>3. /\ S \in [0 .. N -> Nat] /\ S[0] = 0
      /\ \A i, j \in 0 .. N : i <= j => S[i] <= S[j]
      /\ \A i \in 1 .. N : S[i] = S[i - 1] + cs[i].size
  BY SizeSumsGrow
<1>4. WellFormed(ds, Time, Value) /\ WellFormed(kept, Time, Value)
  BY <1>2, DeleteKeepsWellFormed, WithoutKeepsWellFormed
<1>5. /\ ds \in Seq(C) /\ \A i \in 1 .. Len(ds) : ds[i].size \in Nat
  BY <1>4, ChunkSetFacts DEF WellFormed
<1>6. /\ a \in Nat /\ r \in Nat /\ gone \in Nat /\ N - gone \in Nat /\ a - 1 \in 0 .. N
      /\ r \in 0 .. N /\ S[r] \in Nat /\ S[a - 1] \in Nat /\ a + gone = r + 1
  <2>1. /\ a \in Nat /\ r \in Nat /\ gone \in Nat /\ N - gone \in Nat /\ a - 1 \in 0 .. N
        /\ r \in 0 .. N /\ a + gone = r + 1
    BY <1>1, <1>2, SMTT(30)
  <2> HIDE DEF S
  <2>2. QED
    BY <1>3, <2>1
<1>7. /\ kept = [i \in 1 .. N - gone |-> IF i < a THEN cs[i] ELSE cs[i + gone]]
      /\ Len(kept) = N - gone
  BY <1>6 DEF Without
<1>8. /\ Len(ds) = N - gone
      /\ \A i \in 1 .. N - gone : ds[i].size = IF i = a THEN kept[i].size - tr
                                                        ELSE kept[i].size
  <2>1. CASE tr = 0
    <3>1. \A i \in 1 .. N - gone : kept[i].size \in Nat
      BY <1>4, <1>7, ChunkSetFacts
    <3>2. \A i \in 1 .. N - gone : kept[i].size - tr = kept[i].size
      BY <2>1, <3>1
    <3>3. ds = kept
      BY <1>2, <2>1
    <3> HIDE DEF kept, ds, tr
    <3>4. QED
      BY <1>7, <3>2, <3>3
  <2>2. CASE tr # 0
    <3> DEFINE new == [kept[a] EXCEPT !.start = @ + tr, !.size = @ - tr,
                                      !.startedAt = t]
    <3>1. ds = [kept EXCEPT ![a] = new]
      BY <1>2, <2>2 DEF Trimmed
    <3>2. /\ \A i \in 1 .. N - gone : kept[i] \in C
          /\ DOMAIN kept = 1 .. N - gone
      BY <1>4, <1>7, ChunkSetFacts
    <3>3. a \in 1 .. N - gone => new.size = kept[a].size - tr
      BY <3>2 DEF ChunkSetOf
    <3> HIDE DEF kept, new, ds, tr, a, gone, N
    <3>4. \A i \in 1 .. N - gone : ds[i] = IF i = a THEN new ELSE kept[i]
      BY <3>1, <3>2
    <3>5. Len(ds) = N - gone
      BY <1>6, <3>1, <3>2
    <3>6. QED
      BY <3>3, <3>4, <3>5
  <2>3. QED
    BY <2>1, <2>2
<1> HIDE DEF a, r, tr, gone, ds, S, N, C, T
<1>9. \A i \in 1 .. N - gone : i + gone \in 1 .. N
  BY <1>1, <1>6
<1>10. \A i \in 0 .. N - gone : T[i] = IF i < a THEN S[i] ELSE S[i + gone] - count
  BY DEF T
<1>11. S[a - 1] = S[r] + tr - count
  BY <1>2, <1>6
<1>12. T \in [0 .. N - gone -> Nat]
  <2>1. ASSUME NEW i \in 0 .. N - gone
        PROVE  (IF i < a THEN S[i] ELSE S[i + gone] - count) \in Nat
    <3>1. CASE i < a
      <4>1. i \in 0 .. N
        BY <1>1, <1>6
      <4>2. QED
        BY <1>3, <3>1, <4>1
    <3>2. CASE ~ (i < a)
      <4>1. i + gone \in 0 .. N /\ r + 1 <= i + gone /\ r + 1 \in 0 .. N
        BY <1>1, <1>6, <3>2
      <4>2. S[r + 1] <= S[i + gone] /\ S[i + gone] \in Nat /\ S[r + 1] \in Nat
        BY <1>3, <4>1
      <4>3. r + 1 \in 1 .. N /\ (r + 1) - 1 = r
        BY <1>6, <4>1
      <4>4. S[r + 1] = S[r] + cs[r + 1].size /\ cs[r + 1].size \in Nat
        BY <1>1, <1>3, <4>3
      <4>5. cs[r + 1].size >= tr
        BY <1>2, <4>4
      <4>6. S[r] + tr = S[a - 1] + count
        BY <1>2, <1>6
      <4>7. \A x, y, z, size, w \in Nat :
              /\ y <= x /\ y = z + size /\ size >= tr /\ z + tr = w + count
              => x - count \in Nat
        BY <1>2
      <4>8. S[i + gone] - count \in Nat
        BY ONLY <1>6, <4>2, <4>4, <4>5, <4>6, <4>7
      <4>9. QED
        BY <3>2, <4>8
    <3>3. QED
      BY <3>1, <3>2
  <2>2. QED
    BY <2>1 DEF T
<1>13. T[0] = 0
  <2>1. 0 < a /\ 0 \in 0 .. N - gone
    BY <1>2, <1>6
  <2>2. QED
    BY <1>3, <1>10, <2>1
<1>14. ASSUME NEW i \in 1 .. N - gone PROVE T[i] = T[i - 1] + ds[i].size
  <2>1. i \in 0 .. N - gone /\ i - 1 \in 0 .. N - gone /\ i \in Nat
    BY <1>6
  <2>2. CASE i < a
    <3>1. i \in 1 .. N /\ i - 1 < a /\ i # a
      BY <1>1, <1>6, <2>2
    <3>2. ds[i].size = cs[i].size
      BY <1>7, <1>8, <2>2, <3>1
    <3>3. T[i] = S[i] /\ T[i - 1] = S[i - 1]
      BY <1>10, <2>1, <2>2, <3>1
    <3>4. QED
      BY <1>3, <3>1, <3>2, <3>3
  <2>3. CASE i = a
    <3>1. i + gone = r + 1 /\ r + 1 \in 1 .. N /\ (r + 1) - 1 = r /\ a - 1 < a
      BY <1>6, <1>9, <2>3
    <3>2. ds[i].size = cs[r + 1].size - tr
      BY <1>7, <1>8, <2>3, <3>1
    <3>3. T[i] = S[r + 1] - count /\ T[i - 1] = S[a - 1]
      BY <1>6, <1>10, <2>1, <2>3, <3>1
    <3>4. S[r + 1] = S[r] + cs[r + 1].size /\ cs[r + 1].size \in Nat
      BY <1>1, <1>3, <3>1
    <3>5. QED
      BY <1>2, <1>6, <1>11, <3>2, <3>3, <3>4
  <2>4. CASE i > a
    <3>1. /\ i + gone \in 1 .. N /\ (i + gone) - 1 = (i - 1) + gone
          /\ ~ (i - 1 < a) /\ ~ (i < a) /\ i # a
      BY <1>6, <1>9, <2>1, <2>4
    <3>2. ds[i].size = cs[i + gone].size
      BY <1>7, <1>8, <3>1
    <3>3. T[i] = S[i + gone] - count /\ T[i - 1] = S[(i + gone) - 1] - count
      BY <1>10, <2>1, <3>1
    <3>4. /\ S[i + gone] = S[(i + gone) - 1] + cs[i + gone].size
          /\ cs[i + gone].size \in Nat
      BY <1>1, <1>3, <3>1
    <3>5. S[(i + gone) - 1] \in Nat
      <4>1. (i + gone) - 1 \in 0 .. N
        BY <1>1, <3>1
      <4>2. QED
        BY <1>3, <4>1
    <3>6. QED
      BY <3>2, <3>3, <3>4, <3>5
  <2>5. QED
    BY <1>6, <2>1, <2>2, <2>3, <2>4
<1>15. SizeSums(ds) = T
  <2>1. /\ Len(ds) = N - gone
        /\ T \in [0 .. Len(ds) -> Nat]
        /\ \A i \in 1 .. Len(ds) : T[i] = T[i - 1] + ds[i].size
    BY <1>8, <1>12, <1>14
  <2>2. QED
    BY <1>5, <1>13, <2>1, SizeSumsIs
<1>16. QED
  BY <1>8, <1>10, <1>15 DEF a, r, gone, ds, S, N

\* A deletion brings the starts of the lower levels nearer by count.
LEMMA DeleteFlatStarts ==
  ASSUME NEW Time, NEW Value, NEW cs, WellFormed(cs, Time, Value),
         NEW level \in Levels, NEW count \in Nat \ {0}, NEW t,
         count <= LevelSize(RebuildIndexMetadata(cs), level),
         t \in Time \/ TrimCount(cs, level, count) = 0,
         NEW x \in 0 .. NumberOfLevels
  PROVE  FlatStart(DeleteFromChunkSets(cs, level, count, t), x)
           = IF x <= level THEN FlatStart(cs, x) - count ELSE FlatStart(cs, x)
<1> DEFINE a    == ChunkSetInsertionIndex(cs, level + 1)
           b    == ChunkSetInsertionIndex(cs, level)
           p    == ChunkSetInsertionIndex(cs, x)
           r    == LastRemoved(cs, level, count)
           tr   == TrimCount(cs, level, count)
           gone == r - a + 1
           kept == Without(cs, a, r)
           ds   == DeleteFromChunkSets(cs, level, count, t)
           S    == SizeSums(cs)
           T    == SizeSums(ds)
           N    == Len(cs)
           C    == ChunkSetOf(Time, Value)
<1>1. /\ N \in Nat /\ DOMAIN cs = 1 .. N /\ cs \in Seq(C)
      /\ \A i \in 1 .. N : cs[i] \in C /\ cs[i].level \in Int
  BY ChunkSetFacts DEF WellFormed
<1>2. /\ a \in 1 .. N /\ r \in a - 1 .. N /\ tr \in Nat /\ r < b
      /\ tr = count - (S[r] - S[a - 1])
      /\ tr > 0 => r + 1 \in 1 .. N /\ cs[r + 1].size > tr
      /\ ds = IF tr = 0 THEN kept ELSE Trimmed(kept, a, tr, t)
  BY DeletedRange
<1>3. /\ S \in [0 .. N -> Nat]
      /\ \A i, j \in 0 .. N : i <= j => S[i] <= S[j]
  BY SizeSumsGrow
<1>4. WellFormed(ds, Time, Value) /\ WellFormed(kept, Time, Value)
  BY <1>2, DeleteKeepsWellFormed, WithoutKeepsWellFormed
<1>5. ds \in Seq(C)
  BY <1>4 DEF WellFormed
<1>6. /\ Len(ds) = N - gone
      /\ \A i \in 0 .. N - gone : T[i] = IF i < a THEN S[i] ELSE S[i + gone] - count
  BY DeleteSums
<1>7. /\ a \in Nat /\ r \in Nat /\ gone \in Nat /\ N - gone \in Nat /\ a + gone = r + 1
  BY <1>1, <1>2
<1>8. \A i \in 1 .. N - gone :
        ds[i].level = IF i < a THEN cs[i].level ELSE cs[i + gone].level
  <2>1. /\ kept = [i \in 1 .. N - gone |-> IF i < a THEN cs[i] ELSE cs[i + gone]]
        /\ Len(kept) = N - gone
    BY <1>7 DEF Without
  <2>2. CASE tr = 0
    <3>1. ds = kept
      BY <1>2, <2>2
    <3> HIDE DEF kept, ds
    <3>2. QED
      BY <2>1, <3>1
  <2>3. CASE tr # 0
    <3> DEFINE new == [kept[a] EXCEPT !.start = @ + tr, !.size = @ - tr,
                                      !.startedAt = t]
    <3>1. ds = [kept EXCEPT ![a] = new]
      BY <1>2, <2>3 DEF Trimmed
    <3>2. /\ \A i \in 1 .. N - gone : kept[i] \in C
          /\ DOMAIN kept = 1 .. N - gone
      BY <1>4, <2>1, ChunkSetFacts
    <3>3. a \in 1 .. N - gone => new.level = kept[a].level
      BY <3>2 DEF ChunkSetOf
    <3> HIDE DEF kept, new, ds, tr, a, gone, N
    <3>4. \A i \in 1 .. N - gone : ds[i].level = kept[i].level
      BY <3>1, <3>2, <3>3
    <3>5. QED
      BY <2>1, <3>4
  <2>4. QED
    BY <2>2, <2>3
<1>9. level \in Nat /\ x \in Nat
  BY LevelsAssumption DEF Levels, MaxLevel
<1>10. /\ p \in 1 .. N + 1
       /\ \A j \in 1 .. p - 1 : ~ (cs[j].level < x)
       /\ p <= N => cs[p].level < x
       /\ b \in 1 .. N + 1
       /\ \A j \in 1 .. b - 1 : ~ (cs[j].level < level)
       /\ b <= N => cs[b].level < level
       /\ \A j \in 1 .. a - 1 : ~ (cs[j].level < level + 1)
       /\ a <= N => cs[a].level < level + 1
  BY <1>1, InsertionIndexIsFirst
<1>11. \A m, n \in 1 .. N : m <= n => cs[m].level >= cs[n].level
  BY <1>1 DEF WellFormed, LevelsDescend
<1>12. FlatStart(cs, x) = S[p - 1]
  BY DEF FlatStart
<1> HIDE DEF a, b, p, r, tr, gone, kept, ds, S, T, N, C
<1>13. \A i \in 1 .. N - gone : i + gone \in 1 .. N
  BY <1>1, <1>7
<1>14. CASE x > level
  <2>1. p <= a
    <3>1. ASSUME p > a PROVE FALSE
      <4>1. a \in 1 .. p - 1 /\ a <= N /\ a \in 1 .. N
        BY <1>1, <1>2, <1>10, <3>1
      <4>2. ~ (cs[a].level < x) /\ cs[a].level < level + 1 /\ cs[a].level \in Int
        BY <1>1, <1>10, <4>1
      <4>3. QED
        BY <1>9, <1>14, <4>2
    <3>2. QED
      BY <1>1, <1>2, <1>10, <3>1
  <2>2. p \in 1 .. Len(ds) + 1
    <3>1. a <= N - gone + 1
      BY <1>1, <1>2, <1>7
    <3>2. QED
      BY <1>6, <1>7, <1>10, <2>1, <3>1
  <2>3. \A j \in 1 .. p - 1 : ~ (ds[j].level < x)
    <3> TAKE j \in 1 .. p - 1
    <3>1. j \in 1 .. N - gone /\ j < a
      BY <1>6, <1>7, <1>10, <2>1, <2>2
    <3>2. QED
      BY <1>8, <1>10, <3>1
  <2>4. p <= Len(ds) => ds[p].level < x
    <3> SUFFICES ASSUME p <= N - gone PROVE ds[p].level < x
      BY <1>6
    <3>1. p \in 1 .. N - gone
      BY <1>7, <1>10
    <3>2. CASE p < a
      BY <1>1, <1>2, <1>8, <1>10, <3>1, <3>2
    <3>3. CASE p = a
      <4>1. ds[p].level = cs[a + gone].level /\ a + gone \in 1 .. N /\ a <= a + gone
        BY <1>7, <1>8, <1>13, <3>1, <3>3
      <4>2. cs[a].level >= cs[a + gone].level
        BY <1>2, <1>11, <4>1
      <4>3. cs[a].level < x /\ cs[a].level \in Int /\ cs[a + gone].level \in Int
        BY <1>1, <1>2, <1>10, <3>3, <4>1
      <4>4. QED
        BY <1>9, <4>1, <4>2, <4>3
    <3>4. QED
      BY <1>7, <2>1, <3>1, <3>2, <3>3
  <2>5. ChunkSetInsertionIndex(ds, x) = p
    BY <1>5, <2>2, <2>3, <2>4, InsertionIndexIs
  <2>6. FlatStart(ds, x) = T[p - 1]
    BY <2>5 DEF FlatStart, T
  <2>7. T[p - 1] = S[p - 1]
    <3>1. p - 1 \in 0 .. N - gone /\ p - 1 < a
      BY <1>6, <1>7, <2>1, <2>2
    <3>2. QED
      BY <1>6, <3>1
  <2>8. QED
    BY <1>9, <1>12, <1>14, <2>6, <2>7 DEF ds
<1>15. CASE x <= level
  <2>1. b <= p
    <3>1. ASSUME p < b PROVE FALSE
      <4>1. p \in 1 .. b - 1 /\ p <= N /\ p \in 1 .. N
        BY <1>1, <1>10, <3>1
      <4>2. cs[p].level < x /\ ~ (cs[p].level < level) /\ cs[p].level \in Int
        BY <1>1, <1>10, <4>1
      <4>3. QED
        BY <1>9, <1>15, <4>2
    <3>2. QED
      BY <1>1, <1>10, <3>1
  <2> DEFINE q == p - gone
  <2>2. /\ q \in 1 .. N - gone + 1 /\ q >= a /\ q + gone = p
    <3>1. p \in 1 .. N + 1 /\ r < p /\ N \in Nat /\ a \in Nat \ {0}
      BY <1>1, <1>2, <1>10, <2>1
    <3>2. QED
      BY ONLY <1>7, <3>1 DEF q
  <2> HIDE DEF q
  <2>3. \A j \in 1 .. q - 1 : ~ (ds[j].level < x)
    <3> TAKE j \in 1 .. q - 1
    <3>1. j \in 1 .. N - gone /\ j \in 1 .. p - 1 /\ j + gone \in 1 .. p - 1
      BY <1>7, <1>10, <2>2
    <3>2. QED
      BY <1>8, <1>10, <3>1
  <2>4. q <= N - gone => ds[q].level < x
    <3> SUFFICES ASSUME q <= N - gone PROVE ds[q].level < x
      OBVIOUS
    <3>1. q \in 1 .. N - gone /\ ~ (q < a) /\ p <= N
      BY <1>1, <1>7, <2>2
    <3>2. QED
      BY <1>8, <1>10, <2>2, <3>1
  <2>5. ChunkSetInsertionIndex(ds, x) = q
    <3>1. /\ q \in 1 .. Len(ds) + 1
          /\ q <= Len(ds) => ds[q].level < x
      BY <1>6, <2>2, <2>4
    <3>2. QED
      BY <1>5, <2>3, <3>1, InsertionIndexIs
  <2>6. FlatStart(ds, x) = T[q - 1]
    BY <2>5 DEF FlatStart, T
  <2>7. T[q - 1] = S[p - 1] - count
    <3>1. q - 1 \in 0 .. N - gone /\ (q - 1) + gone = p - 1
      BY <1>7, <2>2
    <3>2. CASE q > a
      <4>1. ~ (q - 1 < a)
        BY <1>7, <2>2, <3>2
      <4>2. QED
        BY <1>6, <3>1, <4>1
    \* the level is emptied, and nothing is trimmed
    <3>3. CASE q = a
      <4>1. q - 1 < a /\ p - 1 = r /\ p = r + 1
        BY <1>7, <2>2, <3>3
      <4>2. b = p
        BY <1>2, <1>7, <1>10, <2>1, <4>1
      <4>3. tr = 0
        <5>1. count <= S[b - 1] - S[a - 1]
          BY LevelRange DEF a, b, S
        <5>2. b - 1 = r
          BY <1>7, <4>1, <4>2
        <5>3. a - 1 \in 0 .. N /\ r \in 0 .. N
          BY <1>1, <1>2
        <5>4. S[a - 1] \in Nat /\ S[r] \in Nat
          BY <1>3, <5>3
        <5>5. count <= S[r] - S[a - 1] /\ tr = count - (S[r] - S[a - 1]) /\ tr \in Nat
          BY <1>2, <5>1, <5>2
        <5>6. \A z, w \in Nat : count <= z - w /\ tr = count - (z - w) => tr = 0
          BY <5>5
        <5>7. QED
          BY ONLY <5>4, <5>5, <5>6
      <4>4. S[a - 1] = S[r] - count
        <5>1. a - 1 \in 0 .. N /\ r \in 0 .. N
          BY <1>1, <1>2
        <5>2. S[a - 1] \in Nat /\ S[r] \in Nat
          BY <1>3, <5>1
        <5>3. QED
          BY <1>2, <4>3, <5>2
      <4>5. QED
        BY <1>6, <3>1, <3>3, <4>1, <4>4
    <3>4. QED
      BY <1>7, <2>2, <3>2, <3>3
  <2>8. QED
    BY <1>12, <1>15, <2>6, <2>7 DEF ds
<1>16. QED
  BY <1>9, <1>14, <1>15

\* After a deletion the items behind the deleted ones are found count places
\* nearer; the chunk set that lost some of its items starts later by as many.
LEMMA DeleteReads ==
  ASSUME NEW Time, NEW Value, NEW cs, WellFormed(cs, Time, Value),
         NEW level \in Levels, NEW count \in Nat \ {0}, NEW t,
         count <= LevelSize(RebuildIndexMetadata(cs), level),
         t \in Time \/ TrimCount(cs, level, count) = 0,
         NEW f \in Nat, f < SizeSums(cs)[Len(cs)],
         f < FlatStart(cs, level + 1) \/ f >= FlatStart(cs, level + 1) + count
  PROVE  GetItem(RebuildIndexMetadata(cs), f)
           = GetItem(RebuildIndexMetadata(DeleteFromChunkSets(cs, level, count, t)),
                     IF f < FlatStart(cs, level + 1) THEN f ELSE f - count)
<1> DEFINE a    == ChunkSetInsertionIndex(cs, level + 1)
           r    == LastRemoved(cs, level, count)
           tr   == TrimCount(cs, level, count)
           gone == r - a + 1
           kept == Without(cs, a, r)
           ds   == DeleteFromChunkSets(cs, level, count, t)
           S    == SizeSums(cs)
           T    == SizeSums(ds)
           N    == Len(cs)
           C    == ChunkSetOf(Time, Value)
           q    == FlatStart(cs, level + 1)
           g    == IF f < q THEN f ELSE f - count
<1>1. /\ N \in Nat /\ DOMAIN cs = 1 .. N /\ cs \in Seq(C)
      /\ \A i \in 1 .. N : cs[i] \in C /\ cs[i].size \in Nat
  BY ChunkSetFacts DEF WellFormed
<1>2. /\ a \in 1 .. N /\ r \in a - 1 .. N /\ tr \in Nat
      /\ tr = count - (S[r] - S[a - 1])
      /\ tr > 0 => r + 1 \in 1 .. N /\ cs[r + 1].size > tr
      /\ ds = IF tr = 0 THEN kept ELSE Trimmed(kept, a, tr, t)
  BY DeletedRange
<1>3. /\ S \in [0 .. N -> Nat]
      /\ \A i, j \in 0 .. N : i <= j => S[i] <= S[j]
      /\ \A i \in 1 .. N : S[i] = S[i - 1] + cs[i].size
  BY SizeSumsGrow
<1>4. WellFormed(ds, Time, Value) /\ WellFormed(kept, Time, Value)
  BY <1>2, DeleteKeepsWellFormed, WithoutKeepsWellFormed
<1>5. /\ Len(ds) = N - gone
      /\ \A i \in 0 .. N - gone : T[i] = IF i < a THEN S[i] ELSE S[i + gone] - count
  BY DeleteSums
<1>6. /\ a \in Nat /\ r \in Nat /\ gone \in Nat /\ N - gone \in Nat /\ a + gone = r + 1
      /\ a - 1 \in 0 .. N /\ r \in 0 .. N /\ S[r] \in Nat /\ S[a - 1] \in Nat
  <2>1. /\ a \in Nat /\ r \in Nat /\ gone \in Nat /\ N - gone \in Nat /\ a + gone = r + 1
        /\ a - 1 \in 0 .. N /\ r \in 0 .. N
    BY <1>1, <1>2, SMTT(30)
  <2> HIDE DEF S
  <2>2. QED
    BY <1>3, <2>1
<1>7. q = S[a - 1]
  BY DEF FlatStart
<1>8. /\ kept = [i \in 1 .. N - gone |-> IF i < a THEN cs[i] ELSE cs[i + gone]]
      /\ Len(kept) = N - gone
  BY <1>6 DEF Without
<1>9. \A i \in 1 .. N - gone :
        /\ \A k : ds[i].items[k] = kept[i].items[k]
        /\ ds[i].start = IF i = a THEN kept[i].start + tr ELSE kept[i].start
        /\ ds[i].size = IF i = a THEN kept[i].size - tr ELSE kept[i].size
        /\ kept[i].start \in Nat
  <2>1. /\ \A i \in 1 .. N - gone : kept[i] \in C
        /\ DOMAIN kept = 1 .. N - gone
    BY <1>4, <1>8, ChunkSetFacts
  <2>2. \A c \in C : c.start \in Nat /\ c.size \in Nat
    BY CapacityAssumption DEF ChunkSetOf
  <2>3. CASE tr = 0
    <3>1. ds = kept
      BY <1>2, <2>3
    <3> HIDE DEF kept, ds, C, tr, a, gone, N
    <3>2. \A i \in 1 .. N - gone : kept[i].start \in Nat /\ kept[i].size \in Nat
      BY <2>1, <2>2
    <3>3. QED
      BY <2>3, <3>1, <3>2
  <2>4. CASE tr # 0
    <3> DEFINE new == [kept[a] EXCEPT !.start = @ + tr, !.size = @ - tr,
                                      !.startedAt = t]
    <3>1. ds = [kept EXCEPT ![a] = new]
      BY <1>2, <2>4 DEF Trimmed
    <3>2. a \in 1 .. N - gone => /\ new.size = kept[a].size - tr
                                 /\ new.start = kept[a].start + tr
                                 /\ new.items = kept[a].items
      BY <2>1 DEF ChunkSetOf
    <3> HIDE DEF kept, new, ds, tr, a, gone, N, C
    <3>3. \A i \in 1 .. N - gone : ds[i] = IF i = a THEN new ELSE kept[i]
      BY <2>1, <3>1
    <3>4. \A i \in 1 .. N - gone : kept[i].start \in Nat
      BY <2>1, <2>2
    <3>5. QED
      BY <3>2, <3>3, <3>4
  <2>5. QED
    BY <2>3, <2>4
<1>10. \E i \in 1 .. N : \E z \in 0 .. cs[i].size - 1 : f = S[i - 1] + z
  BY FlatIndexHasPlace
<1>11. PICK i \in 1 .. N : \E z \in 0 .. cs[i].size - 1 : f = S[i - 1] + z
  BY <1>10
<1>12. PICK z \in 0 .. cs[i].size - 1 : f = S[i - 1] + z
  BY <1>11
<1>13. z \in Nat /\ z < cs[i].size
  BY <1>1
<1> HIDE DEF a, r, tr, gone, ds, S, T, N, C, q, g, kept
<1>14. /\ i \in 0 .. N /\ i - 1 \in 0 .. N
       /\ S[i - 1] \in Nat /\ S[i] \in Nat /\ S[i] = S[i - 1] + cs[i].size
       /\ S[i - 1] <= f /\ f < S[i] /\ cs[i].size \in Nat
  <2>1. i \in 0 .. N /\ i - 1 \in 0 .. N
    BY <1>1
  <2>2. S[i - 1] \in Nat /\ S[i] \in Nat /\ S[i] = S[i - 1] + cs[i].size
    BY <1>3, <2>1
  <2>3. cs[i].size \in Nat
    BY <1>1
  <2>4. QED
    BY <1>12, <1>13, <2>1, <2>2, <2>3, SMTT(30)
<1>15. \A j \in 1 .. N - gone : j + gone \in 1 .. N
  BY <1>1, <1>6
<1>16. \E j \in 1 .. Len(ds), y \in Nat :
         /\ y < ds[j].size /\ g = T[j - 1] + y
         /\ ds[j].items[ds[j].start + y] = cs[i].items[cs[i].start + z]
  <2>1. CASE f < q
    <3>1. i < a
      <4>1. ASSUME a <= i PROVE FALSE
        <5>1. a - 1 <= i - 1
          BY <1>1, <1>6, <4>1
        <5>2. S[a - 1] <= S[i - 1]
          BY <1>3, <1>6, <1>14, <5>1
        <5>3. \A x, y \in Nat : x <= y /\ y <= f /\ f < x => FALSE
          OBVIOUS
        <5>4. S[a - 1] \in Nat /\ S[i - 1] \in Nat /\ S[i - 1] <= f /\ f < S[a - 1]
          BY <1>6, <1>7, <1>14, <2>1
        <5>5. QED
          BY ONLY <5>2, <5>3, <5>4
      <4>2. QED
        BY <1>1, <1>6, <4>1
    <3>2. i \in 1 .. N - gone /\ i - 1 \in 0 .. N - gone /\ i - 1 < a /\ i # a
      BY <1>1, <1>2, <1>6, <3>1
    <3>3. kept[i] = cs[i] /\ T[i - 1] = S[i - 1]
      BY <1>5, <1>8, <3>1, <3>2
    <3>4. /\ ds[i].size = cs[i].size /\ ds[i].start = cs[i].start
          /\ \A k : ds[i].items[k] = cs[i].items[k]
      BY <1>9, <3>2, <3>3
    <3>5. g = T[i - 1] + z
      BY <1>12, <2>1, <3>3 DEF g
    <3>6. i \in 1 .. Len(ds)
      BY <1>5, <3>2
    <3>7. z < ds[i].size
      BY <1>13, <3>4
    <3>8. ds[i].items[ds[i].start + z] = cs[i].items[cs[i].start + z]
      BY <3>4
    <3>9. QED
      BY <1>13, <3>5, <3>6, <3>7, <3>8
  <2>2. CASE ~ (f < q)
    <3>1. f >= S[a - 1] + count
      BY <1>6, <1>7, <2>2 DEF q
    <3>2. S[a - 1] + count = S[r] + tr
      <4>1. \A x, w, c \in Int : tr = c - (x - w) => w + c = x + tr
        BY <1>2
      <4>2. tr = count - (S[r] - S[a - 1]) /\ S[r] \in Int /\ S[a - 1] \in Int
        BY <1>2, <1>6
      <4>3. count \in Int
        OBVIOUS
      <4>4. QED
        BY ONLY <4>1, <4>2, <4>3
    <3>3. f >= S[r] + tr
      BY <3>1, <3>2
    <3>4. r < i
      <4>1. ASSUME i <= r PROVE FALSE
        <5>1. S[i] <= S[r]
          BY <1>3, <1>6, <1>14, <4>1
        <5>2. \A x, y \in Nat : x <= y /\ f < x /\ f >= y + tr => FALSE
          BY <1>2
        <5>3. QED
          BY ONLY <1>6, <1>14, <3>3, <5>1, <5>2
      <4>2. QED
        BY <1>1, <1>6, <4>1
    <3> DEFINE j == i - gone
    <3>5. /\ j \in 1 .. N - gone /\ j >= a /\ j + gone = i /\ j - 1 \in 0 .. N - gone
          /\ (j - 1) + gone = i - 1 /\ (j = a <=> i = r + 1) /\ ~ (j < a)
      BY <1>1, <1>2, <1>6, <3>4
    <3> HIDE DEF j
    <3>6. kept[j] = cs[i] /\ j \in 1 .. Len(ds)
      BY <1>5, <1>8, <3>5
    <3>7. g = f - count
      BY <2>2 DEF g
    <3>8. CASE j # a
      <4>1. ~ (j - 1 < a)
        BY <1>6, <3>5, <3>8
      <4>2. T[j - 1] = S[i - 1] - count
        BY <1>5, <3>5, <4>1
      <4>3. g = T[j - 1] + z
        <5>1. \A x, y, c \in Int : f = x + y => f - c = (x - c) + y
          OBVIOUS
        <5>2. S[i - 1] \in Int /\ z \in Int /\ count \in Int /\ f = S[i - 1] + z
          BY <1>12, <1>13, <1>14
        <5>3. f - count = (S[i - 1] - count) + z
          BY ONLY <5>1, <5>2
        <5>4. QED
          BY <3>7, <4>2, <5>3
      <4>4. /\ ds[j].size = cs[i].size /\ ds[j].start = cs[i].start
            /\ \A k : ds[j].items[k] = cs[i].items[k]
        <5>1. j \in 1 .. N - gone
          BY <3>5
        <5>2. QED
          BY <1>9, <3>6, <3>8, <5>1
      <4>5. z < ds[j].size
        BY <1>13, <4>4
      <4>6. ds[j].items[ds[j].start + z] = cs[i].items[cs[i].start + z]
        BY <4>4
      <4>7. QED
        BY <1>13, <3>6, <4>3, <4>5, <4>6
    <3>9. CASE j = a
      <4> DEFINE y == z - tr
      <4>1. i - 1 = r
        BY <1>6, <3>5, <3>9
      <4>2. f = S[r] + z
        BY <1>12, <4>1
      <4>3. y \in Nat
        <5>1. \A x \in Nat : f = x + z /\ f >= x + tr => z - tr \in Nat
          BY <1>2, <1>13
        <5>2. QED
          BY <1>6, <3>3, <4>2, <5>1
      <4>4. T[j - 1] = S[a - 1]
        <5>1. j - 1 < a /\ j - 1 = a - 1
          BY <1>6, <3>9
        <5>2. QED
          BY <1>5, <3>5, <5>1
      <4>5. g = T[j - 1] + y
        <5>1. \A at, from, slot, start, gap, less \in Int :
                at = from + slot /\ start + gap = from + less
                  => at - gap = start + (slot - less)
          OBVIOUS
        <5>2. tr \in Int /\ z \in Int /\ f \in Int /\ count \in Int
              /\ S[r] \in Int /\ S[a - 1] \in Int
          BY <1>2, <1>6, <1>13
        <5>3. f - count = S[a - 1] + (z - tr)
          BY ONLY <3>2, <4>2, <5>1, <5>2
        <5>4. QED
          BY <3>7, <4>4, <5>3
      <4>6. /\ ds[j].size = cs[i].size - tr /\ ds[j].start = cs[i].start + tr
            /\ cs[i].start \in Nat
            /\ \A k : ds[j].items[k] = cs[i].items[k]
        BY <1>9, <3>5, <3>6, <3>9
      <4>7. y < ds[j].size
        <5>1. \A x \in Nat : z < x => z - tr < x - tr
          BY <1>2, <1>13
        <5>2. QED
          BY <1>13, <1>14, <4>6, <5>1
      <4>8. ds[j].start + y = cs[i].start + z
        BY <1>2, <1>13, <4>6
      <4>9. ds[j].items[ds[j].start + y] = cs[i].items[cs[i].start + z]
        BY <4>6, <4>8
      <4> HIDE DEF y
      <4>10. QED
        BY <3>6, <4>3, <4>5, <4>7, <4>9
    <3>10. QED
      BY <3>8, <3>9
  <2>3. QED
    BY <2>1, <2>2
<1>17. PICK j \in 1 .. Len(ds), y \in Nat :
         /\ y < ds[j].size /\ g = T[j - 1] + y
         /\ ds[j].items[ds[j].start + y] = cs[i].items[cs[i].start + z]
  BY <1>16
<1>18. GetItem(RebuildIndexMetadata(ds), g) = GetItem(RebuildIndexMetadata(cs), f)
  <2>1. /\ WellFormed(cs, Time, Value) /\ WellFormed(ds, Time, Value)
        /\ i \in 1 .. Len(cs) /\ j \in 1 .. Len(ds) /\ y \in Nat
        /\ f = SizeSums(cs)[i - 1] + z /\ g = SizeSums(ds)[j - 1] + y
    BY <1>4, <1>12, <1>17 DEF S, T, N
  <2>2. /\ z \in Nat /\ z < cs[i].size /\ y < ds[j].size
        /\ ds[j].items[ds[j].start + y] = cs[i].items[cs[i].start + z]
    BY <1>13, <1>17
  <2>3. LET flatIndex == SizeSums(cs)[i - 1] + z
            st == RebuildIndexMetadata(cs)
        IN  /\ flatIndex \in Nat
            /\ ChunkAndPos(st, flatIndex)
                 = [chunkSet |-> i, slot |-> cs[i].start + z]
            /\ GetItem(st, flatIndex) = cs[i].items[cs[i].start + z]
    BY ONLY <2>1, <2>2, FlatIndexIs
  <2>4. LET flatIndex == SizeSums(ds)[j - 1] + y
            st == RebuildIndexMetadata(ds)
        IN  /\ flatIndex \in Nat
            /\ ChunkAndPos(st, flatIndex)
                 = [chunkSet |-> j, slot |-> ds[j].start + y]
            /\ GetItem(st, flatIndex) = ds[j].items[ds[j].start + y]
    BY ONLY <2>1, <2>2, FlatIndexIs
  <2>5. QED
    BY ONLY <2>1, <2>2, <2>3, <2>4, Zenon
<1>19. QED
  BY <1>18 DEF ds, g, q

\* A snapshot reads as the chunk sets it is taken of.
LEMMA SnapshotReads ==
  ASSUME NEW Time, NEW Value, EmptyItem \in Value, NEW cs,
         WellFormed(cs, Time, Value)
  PROVE  /\ \A x : FlatStart(Snapshot(cs), x) = FlatStart(cs, x)
         /\ \A f \in Nat :
              f < SizeSums(cs)[Len(cs)]
                => GetItem(RebuildIndexMetadata(Snapshot(cs)), f)
                     = GetItem(RebuildIndexMetadata(cs), f)
<1> DEFINE ds == Snapshot(cs)
           S  == SizeSums(cs)
           N  == Len(cs)
           C  == ChunkSetOf(Time, Value)
<1>1. /\ N \in Nat /\ DOMAIN cs = 1 .. N /\ cs \in Seq(C)
      /\ \A i \in 1 .. N : cs[i] \in C /\ GeometryOK(cs[i]) /\ cs[i].size \in Nat
  BY ChunkSetFacts DEF WellFormed
<1>2. WellFormed(ds, Time, Value)
  BY SnapshotWellFormed
<1>3. ds \in Seq(C)
  BY <1>2 DEF WellFormed
<1>4. Len(ds) = N /\ \A i \in 1 .. N : ds[i] = Compact(cs[i])
  BY <1>1 DEF Snapshot
<1>5. \A c \in C : /\ Compact(c).start = 0 /\ Compact(c).size = c.size
                   /\ Compact(c).level = c.level
                   /\ \A k \in Slots : k < c.size
                        => Compact(c).items[k] = c.items[c.start + k]
  BY DEF Compact, ChunkSetOf
<1>6. \A i \in 1 .. N : /\ ds[i].start = 0 /\ ds[i].size = cs[i].size
                        /\ ds[i].level = cs[i].level
                        /\ \A k \in Slots : k < cs[i].size
                             => ds[i].items[k] = cs[i].items[cs[i].start + k]
  <2> HIDE DEF ds, C
  <2>1. QED
    BY <1>1, <1>4, <1>5
<1>7. /\ S \in [0 .. N -> Nat] /\ S[0] = 0
      /\ \A i \in 1 .. N : S[i] = S[i - 1] + cs[i].size
  BY SizeSumsGrow
<1> HIDE DEF ds, S, N, C
<1>8. SizeSums(ds) = S
  <2>1. /\ S \in [0 .. Len(ds) -> Nat]
        /\ \A i \in 1 .. Len(ds) : ds[i].size \in Nat /\ S[i] = S[i - 1] + ds[i].size
    BY <1>1, <1>4, <1>6, <1>7
  <2>2. QED
    BY <1>3, <1>7, <2>1, SizeSumsIs
<1>9. ASSUME NEW x PROVE FlatStart(ds, x) = FlatStart(cs, x)
  <2>1. DOMAIN ds = 1 .. N
    BY <1>3, <1>4
  <2>2. {i \in DOMAIN ds : ds[i].level < x} = {i \in DOMAIN cs : cs[i].level < x}
    BY <1>1, <1>6, <2>1
  <2>3. ChunkSetInsertionIndex(ds, x) = ChunkSetInsertionIndex(cs, x)
    BY <1>4, <2>2 DEF ChunkSetInsertionIndex, N
  <2>4. QED
    BY <1>8, <2>3 DEF FlatStart, S
<1>10. ASSUME NEW f \in Nat, f < S[N]
       PROVE  GetItem(RebuildIndexMetadata(ds), f) = GetItem(RebuildIndexMetadata(cs), f)
  <2>1. \E i \in 1 .. N : \E z \in 0 .. cs[i].size - 1 : f = S[i - 1] + z
    BY <1>10, FlatIndexHasPlace DEF S, N
  <2>2. PICK i \in 1 .. N : \E z \in 0 .. cs[i].size - 1 : f = S[i - 1] + z
    BY <2>1
  <2>3. PICK z \in 0 .. cs[i].size - 1 : f = S[i - 1] + z
    BY <2>2
  <2>4. z \in Nat /\ z < cs[i].size /\ z \in Slots
    <3>1. cs[i].size \in 0 .. STORAGE_CHUNK_CAPACITY
      <4>1. \A c \in C : c.size \in 0 .. STORAGE_CHUNK_CAPACITY
        BY DEF C, ChunkSetOf
      <4>2. QED
        BY <1>1, <4>1
    <3>2. QED
      BY <3>1, CapacityAssumption DEF Slots
  <2>5. /\ i \in 1 .. Len(ds) /\ z < ds[i].size
        /\ ds[i].items[ds[i].start + z] = cs[i].items[cs[i].start + z]
    BY <1>4, <1>6, <2>4
  <2>6. QED
    BY <1>2, <1>8, <2>3, <2>4, <2>5, ReadSame DEF S, N
<1>11. QED
  BY <1>9, <1>10 DEF ds, S, N

-----------------------------------------------------------------------------
(* The queues of a storage as parts of what is read from it.               *)

\* The part of a list of reads from one index up to, not including, another.
Cut(reads, from, to) == [k \in 1 .. to - from |-> reads[from + k - 1]]

\* The three changes of a queue, named so that lemmas about them can be cited.
Appended(q, item) == Append(q, item)
Dropped(q, count) == SubSeq(q, count + 1, Len(q))
Rewritten(q, i, item) == [q EXCEPT ![i] = item]

\* A cut of a numbering is a sequence of its values.
LEMMA CutType ==
  ASSUME NEW R, NEW from \in Nat, NEW to \in Nat, from <= to
  PROVE  /\ Cut(R, from, to) \in Seq({R[f] : f \in Nat})
         /\ Len(Cut(R, from, to)) = to - from
<1> DEFINE V == {R[f] : f \in Nat}
<1>1. to - from \in Nat
  OBVIOUS
<1>2. ASSUME NEW k \in 1 .. to - from PROVE R[from + k - 1] \in V
  <2>1. from + k - 1 \in Nat
    OBVIOUS
  <2>2. QED
    BY <2>1
<1> HIDE DEF V
<1>3. Cut(R, from, to) \in [1 .. to - from -> V]
  BY <1>2 DEF Cut
<1>4. QED
  BY <1>1, <1>3 DEF V

\* Reads that moved together.
LEMMA CutSame ==
  ASSUME NEW R, NEW Q, NEW from, NEW to, NEW start, NEW end,
         from \in Nat, to \in Nat, start \in Nat, end \in Nat,
         end - start = to - from,
         \A k \in 1 .. to - from : Q[start + k - 1] = R[from + k - 1]
  PROVE  Cut(Q, start, end) = Cut(R, from, to)
BY DEF Cut

\* One more read at the end.
LEMMA CutAppend ==
  ASSUME NEW R, NEW Q, NEW from, NEW to, NEW end, NEW item,
         from \in Nat, to \in Nat, end \in Nat, from <= to, end - to = 1,
         \A k \in 1 .. to - from : Q[from + k - 1] = R[from + k - 1],
         Q[to] = item
  PROVE  Cut(Q, from, end) = Appended(Cut(R, from, to), item)
<1> DEFINE A == Cut(R, from, to)
           n == to - from
           X == {R[f] : f \in Nat} \cup {item}
<1>1. n \in Nat /\ end - from = n + 1 /\ from + (n + 1) - 1 = to
  OBVIOUS
<1>2. A \in Seq(X) /\ Len(A) = n
  <2>1. A \in Seq({R[f] : f \in Nat})
    BY CutType
  <2>2. QED
    BY <2>1, CutType
<1>3. \A k \in 1 .. n : A[k] = R[from + k - 1]
  BY DEF Cut
<1> HIDE DEF A, X
<1>4. /\ Append(A, item) \in Seq(X) /\ Len(Append(A, item)) = n + 1
      /\ \A k \in 1 .. n : Append(A, item)[k] = A[k]
      /\ Append(A, item)[n + 1] = item
  <2>1. item \in X
    BY DEF X
  <2> HIDE DEF n
  <2>2. QED
    BY <1>1, <1>2, <2>1
<1>5. Append(A, item) = [k \in 1 .. n + 1 |-> Append(A, item)[k]]
  <2> DEFINE B == Append(A, item)
             m == n + 1
  <2>1. B \in Seq(X) /\ Len(B) = m /\ m \in Nat
    BY <1>1, <1>4
  <2> HIDE DEF B, m
  <2>2. B = [k \in 1 .. m |-> B[k]]
    BY <2>1
  <2>3. QED
    BY <2>2 DEF B, m
<1>6. ASSUME NEW k \in 1 .. n + 1 PROVE Append(A, item)[k] = Q[from + k - 1]
  <2>1. CASE k = n + 1
    BY <1>1, <1>4, <2>1
  <2>2. CASE k # n + 1
    <3>1. k \in 1 .. n
      BY <1>1, <2>2
    <3>2. QED
      BY <1>3, <1>4, <3>1
  <2>3. QED
    BY <2>1, <2>2
<1>7. Cut(Q, from, end) = [k \in 1 .. n + 1 |-> Q[from + k - 1]]
  BY <1>1 DEF Cut
<1> HIDE DEF n
<1>8. QED
  BY <1>5, <1>6, <1>7 DEF A, Appended

\* Reads gone at the front.
LEMMA CutConsume ==
  ASSUME NEW R, NEW Q, NEW from, NEW to, NEW end, NEW count,
         from \in Nat, to \in Nat, end \in Nat, count \in Nat,
         from + count <= to, end - from = (to - from) - count,
         \A k \in 1 .. end - from : Q[from + k - 1] = R[from + (count + k) - 1]
  PROVE  Cut(Q, from, end)
           = Dropped(Cut(R, from, to), count)
<1> DEFINE A == Cut(R, from, to)
           n == to - from
<1>1. n \in Nat /\ count <= n /\ end - from = n - count /\ from <= to
  OBVIOUS
<1>2. A \in Seq({R[f] : f \in Nat}) /\ Len(A) = n
  BY <1>1, CutType
<1>3. \A k \in 1 .. n : A[k] = R[from + k - 1]
  BY DEF Cut
<1> HIDE DEF A
<1>4. SubSeq(A, count + 1, n) = [k \in 1 .. n - count |-> A[count + k]]
  <2> HIDE DEF n
  <2> QED BY <1>1, <1>2
<1>5. ASSUME NEW k \in 1 .. n - count PROVE A[count + k] = Q[from + k - 1]
  <2>1. count + k \in 1 .. n
    BY <1>1
  <2>2. QED
    BY <1>1, <1>3, <2>1
<1>6. Cut(Q, from, end) = [k \in 1 .. n - count |-> Q[from + k - 1]]
  BY <1>1 DEF Cut
<1> HIDE DEF n
<1>7. SubSeq(A, count + 1, n) = Cut(Q, from, end)
  BY <1>4, <1>5, <1>6
<1>8. QED
  BY <1>2, <1>7 DEF A, Dropped

\* One read changed.
LEMMA CutRewrite ==
  ASSUME NEW R, NEW Q, NEW from, NEW to, NEW item, NEW i,
         from \in Nat, to \in Nat,
         \A k \in 1 .. to - from :
           Q[from + k - 1] = IF k = i THEN item ELSE R[from + k - 1]
  PROVE  Cut(Q, from, to) = Rewritten(Cut(R, from, to), i, item)
BY DEF Cut, Rewritten

Reads(st) == [f \in Nat |-> GetItem(st, f)]

\* The levels as parts of the reads.
QueuesOf(st) ==
  [l \in Levels |-> Cut(Reads(st), st.boundaries[l], LevelEnd(st, l))]

\* The queue of a level, item by item, is the cut between its boundaries.
LEMMA QueuesAre ==
  ASSUME NEW st, \A l \in Levels : st.boundaries[l] \in Nat
  PROVE  [l \in Levels |-> [k \in 1 .. LevelSize(st, l) |->
                              GetItem(st, st.boundaries[l] + k - 1)]]
           = QueuesOf(st)
<1>1. ASSUME NEW l \in Levels
      PROVE  [k \in 1 .. LevelSize(st, l) |-> GetItem(st, st.boundaries[l] + k - 1)]
               = Cut(Reads(st), st.boundaries[l], LevelEnd(st, l))
  <2>1. \A k \in 1 .. LevelSize(st, l) : st.boundaries[l] + k - 1 \in Nat
    <3> DEFINE b == st.boundaries[l]
               n == LevelSize(st, l)
    <3>1. b \in Nat
      OBVIOUS
    <3> HIDE DEF b, n
    <3>2. \A k \in 1 .. n : b + k - 1 \in Nat
      BY <3>1
    <3>3. QED
      BY <3>2 DEF b, n
  <2>2. \A k \in 1 .. LevelSize(st, l) :
          Reads(st)[st.boundaries[l] + k - 1] = GetItem(st, st.boundaries[l] + k - 1)
    BY <2>1 DEF Reads
  <2>3. Cut(Reads(st), st.boundaries[l], LevelEnd(st, l))
          = [k \in 1 .. LevelSize(st, l) |-> Reads(st)[st.boundaries[l] + k - 1]]
    BY DEF Cut, LevelSize
  <2>4. QED
    BY <2>2, <2>3
<1>2. QED
  BY <1>1 DEF QueuesOf

\* A write leaves the index metadata alone.
LEMMA SetItemStarts ==
  ASSUME NEW cs, NEW p, NEW item
  PROVE  LET st == RebuildIndexMetadata(cs)
             ts == SetItem(st, p, item)
         IN  /\ ts.boundaries = st.boundaries
             /\ \A l : LevelEnd(ts, l) = LevelEnd(st, l)
<1> DEFINE st == RebuildIndexMetadata(cs)
           ts == SetItem(st, p, item)
<1>1. ts.boundaries = st.boundaries /\ ts.flatEnds = st.flatEnds
  BY DEF SetItem, RebuildIndexMetadata
<1> HIDE DEF st, ts
<1>2. Size(ts) = Size(st)
  BY <1>1 DEF Size
<1>3. \A l : LevelEnd(ts, l) = LevelEnd(st, l)
  BY <1>1, <1>2 DEF LevelEnd
<1>4. QED
  BY <1>1, <1>3 DEF st, ts

\* An addition appends to the queue of its level.
LEMMA QueuesAfterAdd ==
  ASSUME NEW Time, NEW V, EmptyItem \in V, NEW cs, WellFormed(cs, Time, V),
         NEW level \in Levels, NEW s \in Time, NEW e \in Time, NEW item
  PROVE  LET st == RebuildIndexMetadata(cs)
             ds == AddToChunkSets(cs, level, s, e)
             ts == SetItem(RebuildIndexMetadata(ds), LevelEnd(st, level), item)
         IN  QueuesOf(ts) = [QueuesOf(st) EXCEPT ![level] = Appended(@, item)]
<1> DEFINE st == RebuildIndexMetadata(cs)
           ds == AddToChunkSets(cs, level, s, e)
           sd == RebuildIndexMetadata(ds)
           p  == LevelEnd(st, level)
           ts == SetItem(sd, p, item)
           F(x) == FlatStart(cs, x)
           G(x) == FlatStart(ds, x)
           R  == Reads(st)
           Q  == Reads(ts)
           n  == SizeSums(cs)[Len(cs)]
           m  == SizeSums(ds)[Len(ds)]
<1>1. WellFormed(ds, Time, V)
  BY AddKeepsWellFormed
<1>2. /\ \A x \in 0 .. NumberOfLevels : F(x) \in Nat
      /\ \A x, y \in 0 .. NumberOfLevels : x <= y => F(y) <= F(x)
      /\ F(0) = n
      /\ \A l \in Levels : st.boundaries[l] = F(l + 1) /\ LevelEnd(st, l) = F(l)
  BY FlatStartFacts
<1>3. /\ G(0) = m
      /\ \A l \in Levels : sd.boundaries[l] = G(l + 1) /\ LevelEnd(sd, l) = G(l)
  BY <1>1, FlatStartFacts
<1>4. \A x \in 0 .. NumberOfLevels : G(x) = IF x <= level THEN F(x) + 1 ELSE F(x)
  BY AddFlatStarts
<1>5. /\ ts.boundaries = sd.boundaries
      /\ \A l : LevelEnd(ts, l) = LevelEnd(sd, l)
  BY SetItemStarts
<1>6. /\ level \in Nat /\ 0 \in 0 .. NumberOfLevels
      /\ \A l \in Levels : /\ l \in 0 .. NumberOfLevels
                           /\ l + 1 \in 0 .. NumberOfLevels
                           /\ l <= l + 1 /\ l \in Nat
  BY LevelsAssumption DEF Levels, MaxLevel
<1>7. p = F(level) /\ p \in Nat /\ p <= n /\ n \in Nat /\ m = n + 1
  <2>1. p = F(level) /\ p \in Nat /\ n \in Nat /\ 0 <= level
    BY <1>2, <1>6
  <2>2. p <= n
    BY <1>2, <1>6, <2>1
  <2>3. m = n + 1
    BY <1>2, <1>3, <1>4, <1>6, <2>1
  <2>4. QED
    BY <2>1, <2>2, <2>3
<1>8. \A f \in Nat : f < m => GetItem(ts, f) = IF f = p THEN item ELSE GetItem(sd, f)
  <2>1. p < m
    BY ONLY <1>7
  <2>2. SUFFICES ASSUME NEW f \in Nat, f < m
                 PROVE  GetItem(ts, f) = IF f = p THEN item ELSE GetItem(sd, f)
    OBVIOUS
  <2>3. QED
    BY <1>1, <1>7, <2>1, <2>2, SetItemReads
<1>9. \A f \in Nat : f < n => GetItem(st, f) = GetItem(sd, IF f < F(level) THEN f ELSE f + 1)
  BY AddReads
<1> HIDE DEF st, ds, sd, p, ts, F, G, n, m
<1>10. Q[p] = item
  <2>1. p < m
    BY ONLY <1>7
  <2>2. QED
    BY <1>7, <1>8, <2>1 DEF Reads
<1>11. \A f \in Nat : f < n /\ f < p => Q[f] = R[f]
  <2> SUFFICES ASSUME NEW f \in Nat, f < n, f < p PROVE Q[f] = R[f]
    OBVIOUS
  <2>1. f < m /\ f # p
    BY ONLY <1>7, f \in Nat, f < n, f < p
  <2>2. QED
    BY <1>7, <1>8, <1>9, <2>1 DEF Reads
<1>12. \A f \in Nat : f < n /\ f >= p => Q[f + 1] = R[f]
  <2> SUFFICES ASSUME NEW f \in Nat, f < n, f >= p PROVE Q[f + 1] = R[f]
    OBVIOUS
  <2>1. f + 1 \in Nat /\ f + 1 < m /\ f + 1 # p /\ ~ (f < p)
    BY ONLY <1>7, f \in Nat, f < n, f >= p
  <2>2. QED
    BY <1>7, <1>8, <1>9, <2>1 DEF Reads
<1> HIDE DEF Q, R
<1>13. ASSUME NEW l \in Levels, l # level
       PROVE  Cut(Q, G(l + 1), G(l)) = Cut(R, F(l + 1), F(l))
  <2>1. F(l) \in Nat /\ F(l + 1) \in Nat /\ F(l) <= n
    BY <1>2, <1>6
  <2>2. CASE l < level
    <3>1. G(l) = F(l) + 1 /\ G(l + 1) = F(l + 1) + 1 /\ F(level) <= F(l + 1)
      <4>1. l + 1 <= level /\ l <= level
        BY <1>6, <2>2
      <4>2. QED
        BY <1>2, <1>4, <1>6, <4>1
    <3>2. ASSUME NEW k \in 1 .. F(l) - F(l + 1)
          PROVE  Q[F(l + 1) + 1 + k - 1] = R[F(l + 1) + k - 1]
      <4>1. /\ F(l + 1) + k - 1 \in Nat /\ F(l + 1) + k - 1 < n
            /\ F(l + 1) + k - 1 >= p
            /\ F(l + 1) + 1 + k - 1 = (F(l + 1) + k - 1) + 1
        BY ONLY <1>7, <2>1, <3>1, k \in 1 .. F(l) - F(l + 1)
      <4>2. QED
        BY <1>12, <4>1
    <3>3. /\ F(l + 1) + 1 \in Nat /\ F(l) + 1 \in Nat
          /\ (F(l) + 1) - (F(l + 1) + 1) = F(l) - F(l + 1)
      BY <2>1
    <3>4. Cut(Q, F(l + 1) + 1, F(l) + 1) = Cut(R, F(l + 1), F(l))
      BY <2>1, <3>2, <3>3, CutSame
    <3>5. QED
      BY <3>1, <3>4
  <2>3. CASE level < l
    <3>1. G(l) = F(l) /\ G(l + 1) = F(l + 1) /\ F(l) <= F(level)
      <4>1. ~ (l + 1 <= level) /\ ~ (l <= level) /\ level <= l
        BY <1>6, <2>3
      <4>2. G(l) = F(l) /\ G(l + 1) = F(l + 1)
        BY <1>4, <1>6, <4>1
      <4>3. QED
        BY <1>2, <1>6, <2>1, <4>1, <4>2
    <3>2. ASSUME NEW k \in 1 .. F(l) - F(l + 1)
          PROVE  Q[F(l + 1) + k - 1] = R[F(l + 1) + k - 1]
      <4>1. /\ F(l + 1) + k - 1 \in Nat /\ F(l + 1) + k - 1 < n
            /\ F(l + 1) + k - 1 < p
        BY ONLY <1>7, <2>1, <3>1, k \in 1 .. F(l) - F(l + 1)
      <4>2. QED
        BY <1>11, <4>1
    <3>3. Cut(Q, F(l + 1), F(l)) = Cut(R, F(l + 1), F(l))
      BY <2>1, <3>2, CutSame
    <3>4. QED
      BY <3>1, <3>3
  <2>4. QED
    BY <1>6, <1>13, <2>2, <2>3
<1>14. Cut(Q, G(level + 1), G(level)) = Appended(Cut(R, F(level + 1), F(level)), item)
  <2>1. F(level) \in Nat /\ F(level + 1) \in Nat /\ F(level + 1) <= F(level)
    BY <1>2, <1>6
  <2>2. G(level) = F(level) + 1 /\ G(level + 1) = F(level + 1)
    <3>1. ~ (level + 1 <= level) /\ level <= level
      BY <1>6
    <3>2. QED
      BY <1>4, <1>6, <3>1
  <2>3. ASSUME NEW k \in 1 .. F(level) - F(level + 1)
        PROVE  Q[F(level + 1) + k - 1] = R[F(level + 1) + k - 1]
    <3>1. /\ F(level + 1) + k - 1 \in Nat /\ F(level + 1) + k - 1 < n
          /\ F(level + 1) + k - 1 < p
      BY ONLY <1>7, <2>1, k \in 1 .. F(level) - F(level + 1)
    <3>2. QED
      BY <1>11, <3>1
  <2>4. Q[F(level)] = item
    BY <1>7, <1>10
  <2>5. Cut(Q, F(level + 1), F(level) + 1)
          = Appended(Cut(R, F(level + 1), F(level)), item)
    <3> DEFINE from == F(level + 1)
               to   == F(level)
               end  == to + 1
    <3>1. /\ from \in Nat /\ to \in Nat /\ end \in Nat
          /\ from <= to /\ end - to = 1
      BY <2>1
    <3>2. /\ \A k \in 1 .. to - from : Q[from + k - 1] = R[from + k - 1]
          /\ Q[to] = item
      BY <2>3, <2>4
    <3> HIDE DEF from, to, end
    <3>3. Cut(Q, from, end) = Appended(Cut(R, from, to), item)
      BY <3>1, <3>2, CutAppend
    <3>4. QED
      BY <3>3 DEF from, to, end
  <2>6. QED
    BY <2>2, <2>5
<1>15. QueuesOf(ts) = [l \in Levels |-> Cut(Q, G(l + 1), G(l))]
  BY <1>3, <1>5 DEF QueuesOf, Q
<1>16. QueuesOf(st) = [l \in Levels |-> Cut(R, F(l + 1), F(l))]
  BY <1>2 DEF QueuesOf, R
<1>17. QueuesOf(ts) = [QueuesOf(st) EXCEPT ![level] = Appended(@, item)]
  BY <1>13, <1>14, <1>15, <1>16
<1>18. QED
  BY <1>17 DEF st, ds, sd, p, ts

\* A deletion drops the first items of the queue of its level.
LEMMA QueuesAfterDelete ==
  ASSUME NEW Time, NEW V, NEW cs, WellFormed(cs, Time, V),
         NEW level \in Levels, NEW count \in Nat \ {0}, NEW t,
         count <= LevelSize(RebuildIndexMetadata(cs), level),
         t \in Time \/ TrimCount(cs, level, count) = 0
  PROVE  LET st == RebuildIndexMetadata(cs)
             ts == RebuildIndexMetadata(DeleteFromChunkSets(cs, level, count, t))
         IN  /\ count \in 1 .. Len(QueuesOf(st)[level])
             /\ QueuesOf(ts) = [QueuesOf(st) EXCEPT ![level] = Dropped(@, count)]
<1> DEFINE st == RebuildIndexMetadata(cs)
           ds == DeleteFromChunkSets(cs, level, count, t)
           ts == RebuildIndexMetadata(ds)
           F(x) == FlatStart(cs, x)
           G(x) == FlatStart(ds, x)
           q  == F(level + 1)
           R  == Reads(st)
           Q  == Reads(ts)
           n  == SizeSums(cs)[Len(cs)]
<1>1. WellFormed(ds, Time, V)
  BY DeleteKeepsWellFormed
<1>2. /\ \A x \in 0 .. NumberOfLevels : F(x) \in Nat
      /\ \A x, y \in 0 .. NumberOfLevels : x <= y => F(y) <= F(x)
      /\ F(0) = n
      /\ \A l \in Levels : st.boundaries[l] = F(l + 1) /\ LevelEnd(st, l) = F(l)
  BY FlatStartFacts
<1>3. \A l \in Levels : ts.boundaries[l] = G(l + 1) /\ LevelEnd(ts, l) = G(l)
  BY <1>1, FlatStartFacts
<1>4. \A x \in 0 .. NumberOfLevels : G(x) = IF x <= level THEN F(x) - count ELSE F(x)
  BY DeleteFlatStarts
<1>5. \A f \in Nat : f < n /\ (f < F(level + 1) \/ f >= F(level + 1) + count)
        => GetItem(st, f) = GetItem(ts, IF f < F(level + 1) THEN f ELSE f - count)
  BY DeleteReads
<1>6. /\ level \in Nat /\ 0 \in 0 .. NumberOfLevels
      /\ \A l \in Levels : /\ l \in 0 .. NumberOfLevels
                           /\ l + 1 \in 0 .. NumberOfLevels
                           /\ l <= l + 1 /\ l \in Nat
  BY LevelsAssumption DEF Levels, MaxLevel
<1>7. /\ F(level) \in Nat /\ F(level + 1) \in Nat /\ count \in Nat /\ n \in Nat
      /\ F(level + 1) + count <= F(level)
  <2>1. F(level) \in Nat /\ F(level + 1) \in Nat /\ count \in Nat /\ n \in Nat
    BY <1>2, <1>6
  <2>2. count <= F(level) - F(level + 1)
    BY <1>2 DEF LevelSize
  <2>3. QED
    BY ONLY <2>1, <2>2
<1> HIDE DEF st, ds, ts, F, G, n
<1>8. \A f \in Nat : f < n /\ f < q => Q[f] = R[f]
  BY <1>5 DEF Reads
<1>9. \A f \in Nat : f < n /\ f >= q + count => Q[f - count] = R[f]
  <2> SUFFICES ASSUME NEW f \in Nat, f < n, f >= q + count PROVE Q[f - count] = R[f]
    OBVIOUS
  <2>1. f - count \in Nat /\ ~ (f < q)
    BY ONLY <1>7, f \in Nat, f >= q + count
  <2>2. QED
    BY <1>5, <2>1 DEF Reads
<1> HIDE DEF Q, R
<1>10. ASSUME NEW l \in Levels, l # level
       PROVE  Cut(Q, G(l + 1), G(l)) = Cut(R, F(l + 1), F(l))
  <2>1. F(l) \in Nat /\ F(l + 1) \in Nat /\ F(l) <= n
    BY <1>2, <1>6
  <2>2. CASE l < level
    <3>1. /\ G(l) = F(l) - count /\ G(l + 1) = F(l + 1) - count
          /\ F(level) <= F(l + 1) /\ F(level) <= F(l)
      <4>1. l + 1 <= level /\ l <= level
        BY <1>6, <2>2
      <4>2. QED
        BY <1>2, <1>4, <1>6, <4>1
    <3>2. ASSUME NEW k \in 1 .. F(l) - F(l + 1)
          PROVE  Q[G(l + 1) + k - 1] = R[F(l + 1) + k - 1]
      <4>1. /\ F(l + 1) + k - 1 \in Nat /\ F(l + 1) + k - 1 < n
            /\ F(l + 1) + k - 1 >= q + count
            /\ G(l + 1) + k - 1 = (F(l + 1) + k - 1) - count
        BY ONLY <1>7, <2>1, <3>1, k \in 1 .. F(l) - F(l + 1)
      <4>2. QED
        BY <1>9, <4>1
    <3>3. /\ G(l + 1) \in Nat /\ G(l) \in Nat
          /\ G(l) - G(l + 1) = F(l) - F(l + 1)
      BY ONLY <1>7, <2>1, <3>1
    <3>4. QED
      BY <2>1, <3>2, <3>3, CutSame
  <2>3. CASE level < l
    <3>1. G(l) = F(l) /\ G(l + 1) = F(l + 1) /\ F(l) <= F(level + 1)
      <4>1. ~ (l + 1 <= level) /\ ~ (l <= level) /\ level + 1 <= l
        BY <1>6, <2>3
      <4>2. G(l) = F(l) /\ G(l + 1) = F(l + 1)
        BY <1>4, <1>6, <4>1
      <4>3. QED
        BY <1>2, <1>6, <2>1, <4>1, <4>2
    <3>2. ASSUME NEW k \in 1 .. F(l) - F(l + 1)
          PROVE  Q[F(l + 1) + k - 1] = R[F(l + 1) + k - 1]
      <4>1. /\ F(l + 1) + k - 1 \in Nat /\ F(l + 1) + k - 1 < n
            /\ F(l + 1) + k - 1 < q
        BY ONLY <1>7, <2>1, <3>1, k \in 1 .. F(l) - F(l + 1)
      <4>2. QED
        BY <1>8, <4>1
    <3>3. Cut(Q, F(l + 1), F(l)) = Cut(R, F(l + 1), F(l))
      BY <2>1, <3>2, CutSame
    <3>4. QED
      BY <3>1, <3>3
  <2>4. QED
    BY <1>6, <1>10, <2>2, <2>3
<1>11. Cut(Q, G(level + 1), G(level)) = Dropped(Cut(R, F(level + 1), F(level)), count)
  <2> DEFINE from == F(level + 1)
             to   == F(level)
             end  == G(level)
  <2>1. G(level) = F(level) - count /\ G(level + 1) = F(level + 1)
    <3>1. ~ (level + 1 <= level) /\ level <= level
      BY <1>6
    <3>2. QED
      BY <1>4, <1>6, <3>1
  <2>2. /\ from \in Nat /\ to \in Nat /\ end \in Nat /\ count \in Nat
        /\ from + count <= to /\ end - from = (to - from) - count
    BY ONLY <1>7, <2>1
  <2>3. to <= n
    BY <1>2, <1>6
  <2>4. from = q
    OBVIOUS
  <2> HIDE DEF from, to, end
  <2>5. ASSUME NEW k \in 1 .. end - from
        PROVE  Q[from + k - 1] = R[from + (count + k) - 1]
    <3>1. /\ from + (count + k) - 1 \in Nat /\ from + (count + k) - 1 < n
          /\ from + (count + k) - 1 >= from + count
          /\ from + k - 1 = (from + (count + k) - 1) - count
      BY ONLY <1>7, <2>2, <2>3, k \in 1 .. end - from
    <3>2. QED
      BY <1>9, <2>4, <3>1
  <2>6. Cut(Q, from, end) = Dropped(Cut(R, from, to), count)
    BY ONLY <2>2, <2>5, CutConsume
  <2>7. QED
    BY <2>1, <2>6 DEF from, to, end
<1>12. QueuesOf(ts) = [l \in Levels |-> Cut(Q, G(l + 1), G(l))]
  BY <1>3 DEF QueuesOf, Q
<1>13. QueuesOf(st) = [l \in Levels |-> Cut(R, F(l + 1), F(l))]
  BY <1>2 DEF QueuesOf, R
<1>14. QueuesOf(ts) = [QueuesOf(st) EXCEPT ![level] = Dropped(@, count)]
  BY <1>10, <1>11, <1>12, <1>13
<1>15. count \in 1 .. Len(QueuesOf(st)[level])
  <2>1. F(level + 1) <= F(level) /\ count \in 1 .. F(level) - F(level + 1)
    BY ONLY <1>7, count \in Nat \ {0}
  <2>2. Len(Cut(R, F(level + 1), F(level))) = F(level) - F(level + 1)
    BY <1>7, <2>1, CutType
  <2>3. QED
    BY <1>13, <2>1, <2>2
<1>16. QED
  BY <1>14, <1>15 DEF st, ds, ts
\* Every flat index below the size is of one level.
LEMMA FlatIndexHasLevel ==
  ASSUME NEW Time, NEW V, NEW cs, WellFormed(cs, Time, V),
         NEW p \in Nat, p < SizeSums(cs)[Len(cs)]
  PROVE  \E l \in Levels : FlatStart(cs, l + 1) <= p /\ p < FlatStart(cs, l)
<1> DEFINE F(x) == FlatStart(cs, x)
           B == {x \in 0 .. NumberOfLevels : F(x) <= p}
           x == Min(B)
<1>1. NumberOfLevels \in Nat /\ NumberOfLevels \in 0 .. NumberOfLevels
  BY LevelsAssumption
<1>2. /\ \A y \in 0 .. NumberOfLevels : F(y) \in Nat
      /\ p < F(0)
  BY FlatStartFacts
<1>3. F(NumberOfLevels) = 0
  <2>1. /\ cs \in Seq(ChunkSetOf(Time, V)) /\ Len(cs) \in Nat
        /\ \A i \in 1 .. Len(cs) : cs[i].level \in Levels
    BY ChunkSetFacts DEF WellFormed
  <2>2. 1 \in 1 .. Len(cs) + 1 /\ \A j \in 1 .. 1 - 1 : ~ (cs[j].level < NumberOfLevels)
    BY <2>1
  <2>3. 1 <= Len(cs) => cs[1].level < NumberOfLevels
    BY <1>1, <2>1 DEF Levels, MaxLevel
  <2>4. ChunkSetInsertionIndex(cs, NumberOfLevels) = 1
    BY <2>1, <2>2, <2>3, InsertionIndexIs
  <2>5. SizeSums(cs)[0] = 0
    BY SizeSumsGrow
  <2>6. QED
    BY <2>4, <2>5 DEF FlatStart
<1> HIDE DEF F
<1>4. NumberOfLevels \in B /\ B \in SUBSET Nat
  BY <1>1, <1>3
<1>5. x \in B /\ \A y \in B : x <= y
  <2> HIDE DEF B
  <2> QED BY <1>4, MinIsLeast
<1> HIDE DEF x
<1>6. x # 0 /\ x \in 1 .. NumberOfLevels /\ x - 1 \in 0 .. NumberOfLevels
  <2>1. x \in 0 .. NumberOfLevels /\ F(x) <= p
    BY <1>5
  <2>2. x # 0
    BY <1>2, <2>1
  <2>3. QED
    BY <1>1, <2>1, <2>2
<1>7. F(x) <= p /\ p < F(x - 1)
  <2>1. F(x) <= p
    BY <1>5
  <2>2. x - 1 \notin B
    BY <1>5, <1>6
  <2>3. F(x - 1) \in Nat /\ ~ (F(x - 1) <= p)
    BY <1>2, <1>6, <2>2
  <2>4. QED
    BY <2>1, <2>3
<1>8. x - 1 \in Levels /\ (x - 1) + 1 = x
  BY <1>1, <1>6 DEF Levels, MaxLevel
<1>9. QED
  BY <1>7, <1>8 DEF F

\* A write changes one item of one queue.
LEMMA QueuesAfterSet ==
  ASSUME NEW Time, NEW V, NEW cs, WellFormed(cs, Time, V),
         NEW p \in Nat, p < SizeSums(cs)[Len(cs)], NEW item
  PROVE  LET st == RebuildIndexMetadata(cs)
             ts == SetItem(st, p, item)
         IN  \E level \in Levels : \E i \in 1 .. Len(QueuesOf(st)[level]) :
               QueuesOf(ts) = [QueuesOf(st) EXCEPT ![level] = Rewritten(@, i, item)]
<1> DEFINE st == RebuildIndexMetadata(cs)
           ts == SetItem(st, p, item)
           F(x) == FlatStart(cs, x)
           R  == Reads(st)
           Q  == Reads(ts)
           n  == SizeSums(cs)[Len(cs)]
<1>1. /\ \A x \in 0 .. NumberOfLevels : F(x) \in Nat
      /\ \A x, y \in 0 .. NumberOfLevels : x <= y => F(y) <= F(x)
      /\ F(0) = n
      /\ \A l \in Levels : st.boundaries[l] = F(l + 1) /\ LevelEnd(st, l) = F(l)
  BY FlatStartFacts
<1>2. /\ ts.boundaries = st.boundaries
      /\ \A l : LevelEnd(ts, l) = LevelEnd(st, l)
  BY SetItemStarts
<1>3. \A f \in Nat : f < n => GetItem(ts, f) = IF f = p THEN item ELSE GetItem(st, f)
  BY SetItemReads
<1>4. \E l \in Levels : F(l + 1) <= p /\ p < F(l)
  BY FlatIndexHasLevel
<1>5. /\ 0 \in 0 .. NumberOfLevels
      /\ \A l \in Levels : /\ l \in 0 .. NumberOfLevels
                           /\ l + 1 \in 0 .. NumberOfLevels
                           /\ l <= l + 1 /\ l \in Nat /\ 0 <= l
  BY LevelsAssumption DEF Levels, MaxLevel
<1> HIDE DEF st, ts, F, n
<1>6. \A f \in Nat : f < n => Q[f] = IF f = p THEN item ELSE R[f]
  BY <1>3 DEF Reads
<1> HIDE DEF Q, R
<1>7. \A l \in Levels : /\ F(l) \in Nat /\ F(l + 1) \in Nat
                        /\ F(l + 1) <= F(l) /\ F(l) <= n
  BY <1>1, <1>5
<1>8. n \in Nat
  BY <1>1, <1>5
<1>9. PICK level \in Levels : F(level + 1) <= p /\ p < F(level)
  BY <1>4
<1>10. ASSUME NEW l \in Levels, l # level
       PROVE  Cut(Q, F(l + 1), F(l)) = Cut(R, F(l + 1), F(l))
  <2>1. F(l) \in Nat /\ F(l + 1) \in Nat /\ F(l) <= n
    BY <1>7
  <2>2. F(l) <= p \/ p < F(l + 1)
    <3>1. level \in Nat /\ l \in Nat
      BY <1>5
    <3>2. CASE l < level
      <4>1. l + 1 <= level
        BY <3>1, <3>2
      <4>2. F(level) <= F(l + 1) /\ F(level) \in Nat
        BY <1>1, <1>5, <4>1
      <4>3. QED
        BY ONLY <1>9, <2>1, <4>2, p \in Nat
    <3>3. CASE level < l
      <4>1. level + 1 <= l
        BY <3>1, <3>3
      <4>2. F(l) <= F(level + 1) /\ F(level + 1) \in Nat
        BY <1>1, <1>5, <4>1
      <4>3. QED
        BY ONLY <1>9, <2>1, <4>2, p \in Nat
    <3>4. QED
      BY <1>10, <3>1, <3>2, <3>3
  <2>3. ASSUME NEW k \in 1 .. F(l) - F(l + 1)
        PROVE  Q[F(l + 1) + k - 1] = R[F(l + 1) + k - 1]
    <3>1. /\ F(l + 1) + k - 1 \in Nat /\ F(l + 1) + k - 1 < n
          /\ F(l + 1) + k - 1 # p
      BY ONLY <1>8, <2>1, <2>2, p \in Nat, k \in 1 .. F(l) - F(l + 1)
    <3>2. QED
      BY <1>6, <3>1
  <2>4. QED
    BY <2>1, <2>3, CutSame
<1> DEFINE from == F(level + 1)
           to   == F(level)
           i    == (p - from) + 1
<1>11. /\ from \in Nat /\ to \in Nat /\ from <= to /\ to <= n
       /\ from <= p /\ p < to
  BY <1>7, <1>9
<1>12. i \in 1 .. to - from /\ i \in Nat /\ i - 1 = p - from
  <2> HIDE DEF from, to
  <2> QED BY ONLY <1>11, p \in Nat
<1>13. Cut(Q, F(level + 1), F(level)) = Rewritten(Cut(R, F(level + 1), F(level)), i, item)
  <2> HIDE DEF from, to, i
  <2>1. ASSUME NEW k \in 1 .. to - from
        PROVE  Q[from + k - 1] = IF k = i THEN item ELSE R[from + k - 1]
    <3>1. /\ from + k - 1 \in Nat /\ from + k - 1 < n
          /\ from + k - 1 = p <=> k = i
      BY ONLY <1>8, <1>11, <1>12, p \in Nat, k \in 1 .. to - from
    <3>2. QED
      BY <1>6, <3>1
  <2>2. Cut(Q, from, to) = Rewritten(Cut(R, from, to), i, item)
    BY ONLY <1>11, <2>1, CutRewrite
  <2>3. QED
    BY <2>2 DEF from, to
<1> HIDE DEF i
<1>14. QueuesOf(ts) = [l \in Levels |-> Cut(Q, F(l + 1), F(l))]
  BY <1>1, <1>2 DEF QueuesOf, Q
<1>15. QueuesOf(st) = [l \in Levels |-> Cut(R, F(l + 1), F(l))]
  BY <1>1 DEF QueuesOf, R
<1>16. QueuesOf(ts) = [QueuesOf(st) EXCEPT ![level] = Rewritten(@, i, item)]
  BY <1>10, <1>13, <1>14, <1>15
<1>17. i \in 1 .. Len(QueuesOf(st)[level])
  <2>1. Len(Cut(R, F(level + 1), F(level))) = F(level) - F(level + 1)
    BY <1>11, CutType
  <2>2. QED
    BY <1>12, <1>15, <2>1
<1>18. QED
  BY <1>16, <1>17 DEF st, ts

\* A snapshot holds the same queues.
LEMMA QueuesOfSnapshot ==
  ASSUME NEW Time, NEW V, EmptyItem \in V, NEW cs, WellFormed(cs, Time, V)
  PROVE  QueuesOf(RebuildIndexMetadata(Snapshot(cs))) = QueuesOf(RebuildIndexMetadata(cs))
<1> DEFINE st == RebuildIndexMetadata(cs)
           ds == Snapshot(cs)
           ts == RebuildIndexMetadata(ds)
           F(x) == FlatStart(cs, x)
           G(x) == FlatStart(ds, x)
           R  == Reads(st)
           Q  == Reads(ts)
           n  == SizeSums(cs)[Len(cs)]
<1>1. WellFormed(ds, Time, V)
  BY SnapshotWellFormed
<1>2. /\ \A x \in 0 .. NumberOfLevels : F(x) \in Nat
      /\ \A x, y \in 0 .. NumberOfLevels : x <= y => F(y) <= F(x)
      /\ F(0) = n
      /\ \A l \in Levels : st.boundaries[l] = F(l + 1) /\ LevelEnd(st, l) = F(l)
  BY FlatStartFacts
<1>3. \A l \in Levels : ts.boundaries[l] = G(l + 1) /\ LevelEnd(ts, l) = G(l)
  BY <1>1, FlatStartFacts
<1>4. /\ \A x : G(x) = F(x)
      /\ \A f \in Nat : f < n => GetItem(ts, f) = GetItem(st, f)
  BY SnapshotReads
<1>5. /\ 0 \in 0 .. NumberOfLevels
      /\ \A l \in Levels : /\ l \in 0 .. NumberOfLevels
                           /\ l + 1 \in 0 .. NumberOfLevels /\ 0 <= l
  BY LevelsAssumption DEF Levels, MaxLevel
<1> HIDE DEF st, ds, ts, F, G, n
<1>6. \A f \in Nat : f < n => Q[f] = R[f]
  BY <1>4 DEF Reads
<1> HIDE DEF Q, R
<1>7. \A l \in Levels : F(l) \in Nat /\ F(l + 1) \in Nat /\ F(l) <= n /\ n \in Nat
  BY <1>2, <1>5
<1>8. ASSUME NEW l \in Levels
      PROVE  Cut(Q, F(l + 1), F(l)) = Cut(R, F(l + 1), F(l))
  <2>1. F(l) \in Nat /\ F(l + 1) \in Nat /\ F(l) <= n /\ n \in Nat
    BY <1>7
  <2>2. ASSUME NEW k \in 1 .. F(l) - F(l + 1)
        PROVE  Q[F(l + 1) + k - 1] = R[F(l + 1) + k - 1]
    <3>1. F(l + 1) + k - 1 \in Nat /\ F(l + 1) + k - 1 < n
      BY ONLY <2>1, k \in 1 .. F(l) - F(l + 1)
    <3>2. QED
      BY <1>6, <3>1
  <2>3. QED
    BY <2>1, <2>2, CutSame
<1>9. QueuesOf(ts) = [l \in Levels |-> Cut(Q, F(l + 1), F(l))]
  BY <1>3, <1>4 DEF QueuesOf, Q
<1>10. QueuesOf(st) = [l \in Levels |-> Cut(R, F(l + 1), F(l))]
  BY <1>2 DEF QueuesOf, R
<1>11. QueuesOf(ts) = QueuesOf(st)
  BY <1>8, <1>9, <1>10
<1>12. QED
  BY <1>11 DEF st, ts, ds
=============================================================================
