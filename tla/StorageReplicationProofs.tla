----------------------- MODULE StorageReplicationProofs -----------------------
(***************************************************************************)
(* Proofs about TickAggregation and about StorageReplication, which is     *)
(* TickAggregation with a client.                                          *)
(*                                                                         *)
(* The server: after every step of a tick, of its recalculation, of its    *)
(* aggregation through the levels and of a restart the storage is sound,   *)
(* and its candles account for every accepted tick.  The operations of a   *)
(* storage are lifted in three steps: what each does to the list of items  *)
(* read by flat index (Added, Deleted, Moved), what that list keeps when   *)
(* it does so (InTime), and what a whole storage keeps (Sound).  The       *)
(* invariant TickInv is made of the last.                                  *)
(*                                                                         *)
(* The replica: its chunk sets look like the server's (SameShape), so the  *)
(* same change does the same to both, and reads the same but for the items *)
(* the next delta will carry (Alike).  The invariant ReplicaInv follows    *)
(* the replica through the messages on their way.  It needs the chunk sets *)
(* the levels grow in to be whole when a client subscribes (GrowingWhole), *)
(* because a snapshot moves items to the front of their chunk set; levels  *)
(* that are large enough for their ticks (BucketsFit) see to that.         *)
(***************************************************************************)
EXTENDS StorageReplication, StorageStructureProofs

-----------------------------------------------------------------------------
(* Storages that hold candles.                                             *)

\* What a market's storage holds, and what an empty place of a chunk reads as.
Candles == [startedAt : Nat, endedAt : Nat, value : {0, 1}]
Values == Candles \cup {EmptyItem}

\* The number of items of a storage made of these chunk sets.
Count(cs) == SizeSums(cs)[Len(cs)]

\* The header of every chunk set has the times of the first and the last item
\* read from it.
HeadersRead(cs) ==
  \A i \in 1 .. Len(cs) :
    /\ cs[i].startedAt = Reads(RebuildIndexMetadata(cs))[SizeSums(cs)[i - 1]].startedAt
    /\ cs[i].endedAt = Reads(RebuildIndexMetadata(cs))[SizeSums(cs)[i] - 1].endedAt

\* Partial sums as numbers.
LEMMA SumFacts ==
  ASSUME NEW cs, WellFormed(cs, Nat, Values)
  PROVE  /\ Len(cs) \in Nat /\ Count(cs) \in Nat
         /\ SizeSums(cs)[0] = 0
         /\ \A i \in 0 .. Len(cs) : SizeSums(cs)[i] \in Nat /\ SizeSums(cs)[i] <= Count(cs)
         /\ \A i, j \in 0 .. Len(cs) : i < j => SizeSums(cs)[i] < SizeSums(cs)[j]
         /\ cs = <<>> <=> Count(cs) = 0
<1> DEFINE S == SizeSums(cs)
           N == Len(cs)
<1>1. /\ S \in [0 .. N -> Nat] /\ S[0] = 0
      /\ \A i, j \in 0 .. N : i <= j => S[i] <= S[j]
      /\ \A i, j \in 0 .. N : i < j => S[i] < S[j]
  BY SizeSumsGrow
<1>2. cs \in Seq(ChunkSetOf(Nat, Values)) /\ N \in Nat
  BY DEF WellFormed
<1>3. cs = <<>> <=> N = 0
  BY <1>2
<1> HIDE DEF S, N
<1>4. Count(cs) = S[N]
  BY DEF Count, S, N
<1>5. 0 \in 0 .. N /\ N \in 0 .. N
  BY <1>2
<1>6. S[N] \in Nat
  BY <1>1, <1>5
<1>7. N = 0 <=> S[N] = 0
  BY <1>1, <1>2, <1>5
<1>8. \A i \in 0 .. N : S[i] \in Nat /\ S[i] <= S[N]
  BY <1>1, <1>2, <1>5
<1>9. QED
  BY <1>1, <1>2, <1>3, <1>4, <1>6, <1>7, <1>8 DEF S, N

\* Chunk sets with the same levels and sizes have the same partial sums.
LEMMA SameSums ==
  ASSUME NEW cs, WellFormed(cs, Nat, Values), NEW ds, WellFormed(ds, Nat, Values),
         Len(ds) = Len(cs),
         \A i \in 1 .. Len(cs) : ds[i].size = cs[i].size
  PROVE  SizeSums(ds) = SizeSums(cs) /\ Count(ds) = Count(cs)
<1>1. /\ SizeSums(cs) \in [0 .. Len(cs) -> Nat] /\ SizeSums(cs)[0] = 0
      /\ \A i \in 1 .. Len(cs) : SizeSums(cs)[i] = SizeSums(cs)[i - 1] + cs[i].size
  BY SizeSumsGrow
<1>2. \A i \in 1 .. Len(cs) : cs[i].size \in Nat
  BY ChunkSetFacts
<1>3. ds \in Seq(ChunkSetOf(Nat, Values))
  BY DEF WellFormed
<1> DEFINE S == SizeSums(cs)
<1> HIDE DEF S
<1>4. /\ S \in [0 .. Len(ds) -> Nat] /\ S[0] = 0
      /\ \A i \in 1 .. Len(ds) : ds[i].size \in Nat
      /\ \A i \in 1 .. Len(ds) : S[i] = S[i - 1] + ds[i].size
  BY <1>1, <1>2 DEF S
<1>5. SizeSums(ds) = S
  BY <1>3, <1>4, SizeSumsIs
<1>6. QED
  BY <1>5 DEF Count, S

-----------------------------------------------------------------------------
(* Rewriting an item.                                                      *)

\* A write changes no header.
LEMMA SetItemHeaders ==
  ASSUME NEW cs, WellFormed(cs, Nat, Values), NEW p, NEW item \in Values
  PROVE  LET ds == SetItem(RebuildIndexMetadata(cs), p, item).chunkSets
         IN  /\ WellFormed(ds, Nat, Values)
             /\ SetItem(RebuildIndexMetadata(cs), p, item) = RebuildIndexMetadata(ds)
             /\ Len(ds) = Len(cs)
             /\ \A i \in 1 .. Len(cs) : /\ ds[i].startedAt = cs[i].startedAt
                                        /\ ds[i].endedAt = cs[i].endedAt
                                        /\ ds[i].size = cs[i].size
             /\ SizeSums(ds) = SizeSums(cs) /\ Count(ds) = Count(cs)
             /\ \A x \in 0 .. NumberOfLevels : FlatStart(ds, x) = FlatStart(cs, x)
<1> DEFINE st == RebuildIndexMetadata(cs)
           ts == SetItem(st, p, item)
           ds == ts.chunkSets
<1>1. WellFormed(ds, Nat, Values) /\ ts = RebuildIndexMetadata(ds)
  <2>1. \E es : WellFormed(es, Nat, Values) /\ ts = RebuildIndexMetadata(es)
    BY SetItemWellFormed
  <2>2. PICK es : WellFormed(es, Nat, Values) /\ ts = RebuildIndexMetadata(es)
    BY <2>1
  <2>3. ts.chunkSets = es
    BY <2>2, RebuildFields
  <2>4. QED
    BY <2>2, <2>3
<1>2. /\ Len(cs) \in Nat /\ DOMAIN cs = 1 .. Len(cs) /\ cs \in Seq(ChunkSetOf(Nat, Values))
      /\ \A i \in 1 .. Len(cs) : cs[i] \in ChunkSetOf(Nat, Values)
  BY ChunkSetFacts DEF WellFormed
<1> DEFINE at == ChunkAndPos(st, p)
           k  == at.chunkSet
           q  == at.slot
           es == [cs EXCEPT ![k].items[q] = item]
<1>3. ds = es
  <2>1. st.chunkSets = cs /\ DOMAIN st = {"chunkSets", "flatEnds", "boundaries", "startLevel0Index"}
    BY RebuildFields
  <2>2. ts = [st EXCEPT !.chunkSets[k].items[q] = item]
    BY DEF SetItem
  <2> HIDE DEF st, k, q
  <2>3. QED
    BY <2>1, <2>2
<1> HIDE DEF k, q
<1>4. DOMAIN ds = 1 .. Len(cs)
  BY <1>2, <1>3
<1>5. Len(ds) = Len(cs)
  <2>1. ds \in Seq(ChunkSetOf(Nat, Values))
    BY <1>1 DEF WellFormed
  <2> HIDE DEF ds
  <2>2. QED
    BY <1>2, <1>4, <2>1
<1>6. ASSUME NEW i \in 1 .. Len(cs)
      PROVE  /\ ds[i].startedAt = cs[i].startedAt
             /\ ds[i].endedAt = cs[i].endedAt
             /\ ds[i].size = cs[i].size
  <2>1. ds[i] = IF i = k THEN [cs[i] EXCEPT !.items[q] = item] ELSE cs[i]
    BY <1>2, <1>3
  <2>2. cs[i] \in ChunkSetOf(Nat, Values)
    BY <1>2
  <2>3. QED
    BY <2>1, <2>2 DEF ChunkSetOf
<1>7. SizeSums(ds) = SizeSums(cs) /\ Count(ds) = Count(cs)
  <2> HIDE DEF ds
  <2>1. QED
    BY <1>1, <1>5, <1>6, SameSums
<1>8. ASSUME NEW x \in 0 .. NumberOfLevels PROVE FlatStart(ds, x) = FlatStart(cs, x)
  <2>1. /\ FlatStart(cs, 0) = Count(cs)
        /\ \A l \in Levels : st.boundaries[l] = FlatStart(cs, l + 1)
    BY FlatStartFacts DEF Count
  <2>2. ts.boundaries = st.boundaries
    BY SetItemStarts
  <2>3. /\ FlatStart(ds, 0) = Count(ds)
        /\ \A l \in Levels : ts.boundaries[l] = FlatStart(ds, l + 1)
    <3> HIDE DEF ds, ts
    <3>1. QED
      BY <1>1, FlatStartFacts DEF Count
  <2>4. x = 0 \/ (x - 1 \in Levels /\ (x - 1) + 1 = x)
    BY LevelsAssumption DEF Levels, MaxLevel
  <2> HIDE DEF ds, ts, st
  <2>5. CASE x = 0
    BY <1>7, <2>1, <2>3, <2>5
  <2>6. CASE x # 0
    <3> DEFINE l == x - 1
    <3>1. l \in Levels /\ l + 1 = x
      BY <2>4, <2>6
    <3> HIDE DEF l
    <3>2. QED
      BY <2>1, <2>2, <2>3, <3>1
  <2>7. QED
    BY <2>5, <2>6
<1>9. QED
  BY <1>1, <1>5, <1>6, <1>7, <1>8

-----------------------------------------------------------------------------
(* Adding an item.                                                         *)

\* What an addition does: the item is put at the end of its level, everything
\* behind it moves up by one, and headers are those of the structure.
Added(cs, lv, s, e, item) ==
  LET st == RebuildIndexMetadata(cs)
      ts == AddItem(st, lv, s, e, item)
      ds == ts.chunkSets
      es == AddToChunkSets(cs, lv, s, e)
      p  == FlatStart(cs, lv)
  IN  /\ WellFormed(ds, Nat, Values) /\ ts = RebuildIndexMetadata(ds)
      /\ p \in 0 .. Count(cs) /\ Count(ds) = Count(cs) + 1
      /\ \A x \in 0 .. NumberOfLevels :
           FlatStart(ds, x) = IF x <= lv THEN FlatStart(cs, x) + 1
                                         ELSE FlatStart(cs, x)
      /\ \A f \in 0 .. Count(cs) :
           Reads(ts)[f] = IF f < p THEN Reads(st)[f]
                          ELSE IF f = p THEN item ELSE Reads(st)[f - 1]
      /\ Len(ds) = Len(es) /\ SizeSums(ds) = SizeSums(es)
      /\ \A i \in 1 .. Len(es) : /\ ds[i].startedAt = es[i].startedAt
                                 /\ ds[i].endedAt = es[i].endedAt

\* addItem does what Added says.
LEMMA AddedItem ==
  ASSUME NEW cs, WellFormed(cs, Nat, Values), NEW lv \in Levels,
         NEW s \in Nat, NEW e \in Nat, NEW item \in Values
  PROVE  Added(cs, lv, s, e, item)
<1> DEFINE st == RebuildIndexMetadata(cs)
           ts == AddItem(st, lv, s, e, item)
           ds == ts.chunkSets
           es == AddToChunkSets(cs, lv, s, e)
           su == RebuildIndexMetadata(es)
           p  == FlatStart(cs, lv)
           n  == Count(cs)
<1>1. WellFormed(es, Nat, Values) /\ EmptyItem \in Values
  BY AddKeepsWellFormed DEF Values
<1>2. /\ lv \in 0 .. NumberOfLevels /\ 0 \in 0 .. NumberOfLevels /\ lv \in Nat
      /\ 0 <= lv
  BY LevelsAssumption DEF Levels, MaxLevel
<1>3. /\ \A x \in 0 .. NumberOfLevels : FlatStart(cs, x) \in Nat
      /\ \A x, y \in 0 .. NumberOfLevels : x <= y => FlatStart(cs, y) <= FlatStart(cs, x)
      /\ FlatStart(cs, 0) = n
      /\ LevelEnd(st, lv) = p
  BY FlatStartFacts DEF Count
<1>4. p \in 0 .. n /\ n \in Nat
  BY <1>2, <1>3
<1>5. \A x \in 0 .. NumberOfLevels :
        FlatStart(es, x) = IF x <= lv THEN FlatStart(cs, x) + 1 ELSE FlatStart(cs, x)
  BY <1>1, AddFlatStarts
<1>6. Count(es) = n + 1
  <2>1. FlatStart(es, 0) = Count(es)
    BY <1>1, FlatStartFacts DEF Count
  <2>2. QED
    BY <1>2, <1>3, <1>5, <2>1
<1>7. ts = SetItem(su, p, item)
  <2>1. AddItemStructure(st, lv, s, e) = su
    BY <1>1, AddMetadata
  <2>2. QED
    BY <1>3, <2>1 DEF AddItem
<1>8. /\ WellFormed(ds, Nat, Values) /\ ts = RebuildIndexMetadata(ds)
      /\ Len(ds) = Len(es)
      /\ \A i \in 1 .. Len(es) : /\ ds[i].startedAt = es[i].startedAt
                                 /\ ds[i].endedAt = es[i].endedAt
      /\ SizeSums(ds) = SizeSums(es) /\ Count(ds) = Count(es)
      /\ \A x \in 0 .. NumberOfLevels : FlatStart(ds, x) = FlatStart(es, x)
  <2> HIDE DEF es, p
  <2>1. LET dd == SetItem(su, p, item).chunkSets
        IN  /\ WellFormed(dd, Nat, Values)
            /\ SetItem(su, p, item) = RebuildIndexMetadata(dd)
            /\ Len(dd) = Len(es)
            /\ \A i \in 1 .. Len(es) : /\ dd[i].startedAt = es[i].startedAt
                                       /\ dd[i].endedAt = es[i].endedAt
                                       /\ dd[i].size = es[i].size
            /\ SizeSums(dd) = SizeSums(es) /\ Count(dd) = Count(es)
            /\ \A x \in 0 .. NumberOfLevels : FlatStart(dd, x) = FlatStart(es, x)
    BY <1>1, SetItemHeaders
  <2> HIDE DEF ts
  <2>2. QED
    BY <1>7, <2>1
<1>9. ASSUME NEW f \in 0 .. n
      PROVE  Reads(ts)[f] = IF f < p THEN Reads(st)[f]
                            ELSE IF f = p THEN item ELSE Reads(st)[f - 1]
  <2>1. p < SizeSums(es)[Len(es)] /\ f < SizeSums(es)[Len(es)] /\ p \in Nat /\ f \in Nat
    BY <1>4, <1>6 DEF Count
  <2>2. GetItem(ts, f) = IF f = p THEN item ELSE GetItem(su, f)
    <3> HIDE DEF p, es, ts
    <3>1. QED
      BY <1>1, <1>7, <2>1, SetItemReads
  <2>3. Reads(ts)[f] = GetItem(ts, f)
    BY <2>1 DEF Reads
  <2> HIDE DEF ts
  <2>4. CASE f = p
    BY <2>2, <2>3, <2>4, <1>4
  <2>5. CASE f < p
    <3>1. f < SizeSums(cs)[Len(cs)]
      BY <1>4, <2>5 DEF Count
    <3>2. GetItem(st, f) = GetItem(su, IF f < p THEN f ELSE f + 1)
      BY <1>1, <2>1, <3>1, AddReads
    <3>3. Reads(st)[f] = GetItem(st, f)
      BY <2>1 DEF Reads
    <3> HIDE DEF st, su, p
    <3>4. QED
      BY <2>1, <2>2, <2>3, <2>5, <3>2, <3>3
  <2>6. CASE f > p
    <3> DEFINE g == f - 1
    <3>1. g \in Nat /\ g < SizeSums(cs)[Len(cs)] /\ ~ (g < p) /\ g + 1 = f
      BY <1>4, <2>1, <2>6 DEF Count
    <3> HIDE DEF g
    <3>2. GetItem(st, g) = GetItem(su, IF g < p THEN g ELSE g + 1)
      BY <1>1, <3>1, AddReads
    <3>3. Reads(st)[g] = GetItem(st, g)
      BY <3>1 DEF Reads
    <3> HIDE DEF st, su, p
    <3>4. Reads(ts)[f] = Reads(st)[g]
      BY <2>1, <2>2, <2>3, <2>6, <3>1, <3>2, <3>3
    <3>5. QED
      BY <2>1, <2>6, <3>4, <1>4 DEF g
  <2>7. QED
    BY <1>4, <2>1, <2>4, <2>5, <2>6
<1>10. QED
  BY <1>4, <1>5, <1>6, <1>8, <1>9 DEF Added

\* The partial sums after an addition, for the last chunk set grown by one and
\* for a new chunk set.
LEMMA SumsWithRoom ==
  ASSUME NEW cs, WellFormed(cs, Nat, Values), NEW lv \in Levels,
         NEW s \in Nat, NEW e \in Nat,
         HasRoom(cs, ChunkSetInsertionIndex(cs, lv) - 1, lv)
  PROVE  LET at == ChunkSetInsertionIndex(cs, lv)
             es == AddToChunkSets(cs, lv, s, e)
         IN  /\ Len(es) = Len(cs) /\ at - 1 \in 1 .. Len(cs)
             /\ \A i \in 0 .. Len(cs) :
                  SizeSums(es)[i] = IF i >= at - 1 THEN SizeSums(cs)[i] + 1
                                                   ELSE SizeSums(cs)[i]
<1> DEFINE Time == Nat
<1>1. EmptyItem \in Values
  BY DEF Values
<1>2. WellFormed(cs, Time, Values) /\ s \in Time /\ e \in Time
  OBVIOUS
<1>3. HasRoom(cs, ChunkSetInsertionIndex(cs, lv) - 1, lv) /\ lv \in Levels
  OBVIOUS
<1> HIDE DEF Time
<1>4. QED
  BY ONLY <1>1, <1>2, <1>3, AddSums, SMTT(30)

\* The partial sums of the sizes when the addition starts a chunk set.
LEMMA SumsWithoutRoom ==
  ASSUME NEW cs, WellFormed(cs, Nat, Values), NEW lv \in Levels,
         NEW s \in Nat, NEW e \in Nat,
         ~ HasRoom(cs, ChunkSetInsertionIndex(cs, lv) - 1, lv)
  PROVE  LET at == ChunkSetInsertionIndex(cs, lv)
             es == AddToChunkSets(cs, lv, s, e)
         IN  /\ Len(es) = Len(cs) + 1
             /\ \A i \in 0 .. Len(cs) + 1 :
                  SizeSums(es)[i] = IF i < at THEN SizeSums(cs)[i]
                                              ELSE SizeSums(cs)[i - 1] + 1
<1> DEFINE Time == Nat
<1>1. EmptyItem \in Values
  BY DEF Values
<1>2. WellFormed(cs, Time, Values) /\ s \in Time /\ e \in Time
  OBVIOUS
<1>3. ~ HasRoom(cs, ChunkSetInsertionIndex(cs, lv) - 1, lv) /\ lv \in Levels
  OBVIOUS
<1> HIDE DEF Time
<1>4. QED
  BY ONLY <1>1, <1>2, <1>3, AddSums, SMTT(30)

\* An item added under its own times keeps headers and items together.
LEMMA AddHeaders ==
  ASSUME NEW cs, WellFormed(cs, Nat, Values), NEW lv \in Levels,
         NEW item \in Candles, HeadersRead(cs)
  PROVE  HeadersRead(AddItem(RebuildIndexMetadata(cs), lv, item.startedAt,
                             item.endedAt, item).chunkSets)
<1> DEFINE s  == item.startedAt
           e  == item.endedAt
           st == RebuildIndexMetadata(cs)
           ts == AddItem(st, lv, s, e, item)
           ds == ts.chunkSets
           es == AddToChunkSets(cs, lv, s, e)
           p  == FlatStart(cs, lv)
           R  == Reads(st)
           Q  == Reads(ts)
           S  == SizeSums(cs)
           T  == SizeSums(ds)
           N  == Len(cs)
           at == ChunkSetInsertionIndex(cs, lv)
           room == HasRoom(cs, at - 1, lv)
           n  == Count(cs)
<1>1. s \in Nat /\ e \in Nat /\ item \in Values /\ EmptyItem \in Values
  BY DEF Candles, Values
<1> HIDE DEF s, e
<1>2. /\ ts = RebuildIndexMetadata(ds) /\ p \in 0 .. n
      /\ \A f \in 0 .. n : Q[f] = IF f < p THEN R[f]
                                  ELSE IF f = p THEN item ELSE R[f - 1]
      /\ Len(ds) = Len(es) /\ T = SizeSums(es)
      /\ \A i \in 1 .. Len(es) : /\ ds[i].startedAt = es[i].startedAt
                                 /\ ds[i].endedAt = es[i].endedAt
  <2>1. Added(cs, lv, s, e, item)
    BY <1>1, AddedItem
  <2>2. QED
    BY <2>1 DEF Added
<1>3. /\ room => /\ Len(es) = N /\ at - 1 \in 1 .. N
                 /\ \A i \in 0 .. N : SizeSums(es)[i] = IF i >= at - 1 THEN S[i] + 1 ELSE S[i]
      /\ ~ room => /\ Len(es) = N + 1
                   /\ \A i \in 0 .. N + 1 :
                        SizeSums(es)[i] = IF i < at THEN S[i] ELSE S[i - 1] + 1
  <2>1. CASE room
    BY <1>1, <2>1, SumsWithRoom
  <2>2. CASE ~ room
    BY <1>1, <2>2, SumsWithoutRoom
  <2>3. QED
    BY <2>1, <2>2
<1>4. /\ N \in Nat /\ n \in Nat /\ S[0] = 0
      /\ \A i \in 0 .. N : S[i] \in Nat /\ S[i] <= n
      /\ \A i, j \in 0 .. N : i < j => S[i] < S[j]
  BY SumFacts
<1>5. /\ cs \in Seq(ChunkSetOf(Nat, Values)) /\ DOMAIN cs = 1 .. N
      /\ \A i \in 1 .. N : cs[i] \in ChunkSetOf(Nat, Values)
  BY ChunkSetFacts DEF WellFormed
<1>6. at \in 1 .. N + 1
  BY <1>5, InsertionIndexIsFirst
<1>7. p = S[at - 1]
  BY DEF FlatStart
<1>8. \A i \in 1 .. N : cs[i].startedAt = R[S[i - 1]].startedAt
                        /\ cs[i].endedAt = R[S[i] - 1].endedAt
  BY DEF HeadersRead
<1>9. HeadersRead(ds) <=>
        \A i \in 1 .. Len(es) : /\ es[i].startedAt = Q[T[i - 1]].startedAt
                                /\ es[i].endedAt = Q[T[i] - 1].endedAt
  <2>1. RebuildIndexMetadata(ds) = ts
    BY <1>2
  <2> HIDE DEF ds, ts
  <2>2. QED
    BY <1>2, <2>1 DEF HeadersRead
<1>10. e = item.endedAt /\ s = item.startedAt
  BY DEF e, s
<1>11. CASE room
  <2>1. es = Grown(cs, at - 1, e)
    BY <1>11, AddWithRoom
  <2>2. \A i \in 1 .. N : /\ es[i].startedAt = cs[i].startedAt
                          /\ es[i].endedAt = IF i = at - 1 THEN e ELSE cs[i].endedAt
    <3>1. ASSUME NEW i \in 1 .. N
          PROVE  /\ es[i].startedAt = cs[i].startedAt
                 /\ es[i].endedAt = IF i = at - 1 THEN e ELSE cs[i].endedAt
      <4>1. es[i] = IF i = at - 1
                      THEN [cs[i] EXCEPT !.end = @ + 1, !.size = @ + 1, !.endedAt = e]
                      ELSE cs[i]
        <5> HIDE DEF es, at
        <5>1. QED
          BY <1>5, <2>1 DEF Grown
      <4>2. cs[i] \in ChunkSetOf(Nat, Values)
        BY <1>5
      <4> HIDE DEF es, at
      <4>3. QED
        BY <4>1, <4>2 DEF ChunkSetOf
    <3>2. QED
      BY <3>1
  <2>3. /\ Len(es) = N /\ at - 1 \in 1 .. N
        /\ \A i \in 0 .. N : T[i] = IF i >= at - 1 THEN S[i] + 1 ELSE S[i]
    BY <1>2, <1>3, <1>11
  <2> DEFINE k == at - 1
  <2>4. k \in 1 .. N /\ p = S[k]
    BY <1>7, <2>3
  <2>5. ASSUME NEW i \in 1 .. N
        PROVE  /\ es[i].startedAt = Q[T[i - 1]].startedAt
               /\ es[i].endedAt = Q[T[i] - 1].endedAt
    <3> DEFINE h == i - 1
    <3>1. h \in 0 .. N /\ i \in 0 .. N /\ h < i /\ k \in 0 .. N /\ h \in Int /\ k \in Int
      BY <1>4, <2>4
    <3>2. /\ T[h] = IF h >= k THEN S[h] + 1 ELSE S[h]
          /\ T[i] = IF i >= k THEN S[i] + 1 ELSE S[i]
      BY <2>3, <3>1
    <3>3. /\ S[h] \in Nat /\ S[i] \in Nat /\ S[k] \in Nat /\ S[h] < S[i] /\ S[i] <= n
          /\ h < k => S[h] < S[k]
          /\ k < h => S[k] < S[h]
          /\ i < k => S[i] < S[k]
          /\ k < i => S[k] < S[i]
      BY <1>4, <3>1
    <3>4. cs[i].startedAt = R[S[h]].startedAt /\ cs[i].endedAt = R[S[i] - 1].endedAt
      BY <1>8
    <3>5. /\ es[i].startedAt = cs[i].startedAt
          /\ es[i].endedAt = IF i = k THEN e ELSE cs[i].endedAt
      BY <2>2
    <3> HIDE DEF h, k, es, S, T, Q, R, n, p, N
    <3>6. Q[T[h]].startedAt = R[S[h]].startedAt
      <4> DEFINE f == T[h]
      <4>1. f \in 0 .. n /\ (h < k => f = S[h] /\ f < p) /\ (~ (h < k) => f = S[h] + 1 /\ f > p)
        <5>1. h = k \/ h < k \/ k < h
          BY <3>1
        <5>2. QED
          BY <2>4, <3>1, <3>2, <3>3, <5>1, <1>4
      <4> HIDE DEF f
      <4>2. Q[f] = IF f < p THEN R[f] ELSE IF f = p THEN item ELSE R[f - 1]
        BY <1>2, <4>1
      <4>3. Q[f] = R[S[h]]
        BY <4>1, <4>2, <2>4, <3>3
      <4>4. QED
        BY <4>3 DEF f
    <3>7. Q[T[i] - 1].endedAt = IF i = k THEN e ELSE R[S[i] - 1].endedAt
      <4> DEFINE f == T[i] - 1
      <4>1. /\ f \in 0 .. n
            /\ i < k => f = S[i] - 1 /\ f < p
            /\ i = k => f = p
            /\ i > k => f = S[i] /\ f > p
        BY <2>4, <3>1, <3>2, <3>3, <1>4
      <4> HIDE DEF f
      <4>2. Q[f] = IF f < p THEN R[f] ELSE IF f = p THEN item ELSE R[f - 1]
        BY <1>2, <4>1
      <4>3. i < k \/ i = k \/ i > k
        BY <3>1
      <4>4. Q[f] = IF i = k THEN item ELSE R[S[i] - 1]
        BY <4>1, <4>2, <4>3, <2>4, <3>1, <3>3
      <4>5. QED
        BY <4>4, <1>10 DEF f
    <3>8. QED
      BY <3>4, <3>5, <3>6, <3>7 DEF h
  <2>6. \A i \in 1 .. Len(es) : /\ es[i].startedAt = Q[T[i - 1]].startedAt
                                /\ es[i].endedAt = Q[T[i] - 1].endedAt
    <3> HIDE DEF es, Q, T, N
    <3>1. QED
      BY <2>3, <2>5
  <2>7. HeadersRead(ds)
    BY <1>9, <2>6
  <2>8. QED
    BY <2>7 DEF s, e
<1>12. CASE ~ room
  <2> DEFINE new == NewChunkSet(lv, s, e)
  <2>1. es = Inserted(cs, at, new)
    BY <1>5, <1>12, AddWithoutRoom
  <2>2. /\ Len(es) = N + 1
        /\ \A i \in 0 .. N + 1 : T[i] = IF i < at THEN S[i] ELSE S[i - 1] + 1
    BY <1>2, <1>3, <1>12
  <2>3. \A i \in 1 .. N + 1 : es[i] = IF i < at THEN cs[i]
                                      ELSE IF i = at THEN new ELSE cs[i - 1]
    <3> HIDE DEF es, new, at
    <3>1. QED
      BY <2>1 DEF Inserted
  <2>4. new.startedAt = s /\ new.endedAt = e
    BY DEF NewChunkSet
  <2> HIDE DEF new
  <2>5. ASSUME NEW i \in 1 .. N + 1
        PROVE  /\ es[i].startedAt = Q[T[i - 1]].startedAt
               /\ es[i].endedAt = Q[T[i] - 1].endedAt
    <3> DEFINE h == i - 1
               k == at - 1
    <3>1. h \in 0 .. N /\ i \in 0 .. N + 1 /\ h \in 0 .. N + 1 /\ k \in 0 .. N
      BY <1>4, <1>6
    <3>2. /\ T[h] = IF h < at THEN S[h] ELSE S[h - 1] + 1
          /\ T[i] = IF i < at THEN S[i] ELSE S[h] + 1
      BY <2>2, <3>1
    <3>3. p = S[k] /\ S[k] \in Nat /\ S[h] \in Nat /\ S[h] <= n /\ S[k] <= n
      BY <1>7, <1>4, <3>1
    <3>4. es[i] = IF i < at THEN cs[i] ELSE IF i = at THEN new ELSE cs[h]
      BY <2>3
    <3>5. CASE i < at
      <4>1. i \in 1 .. N /\ i \in 0 .. N /\ h < i /\ h < k /\ i <= k
        BY <1>4, <1>6, <3>1, <3>5
      <4>2. S[h] < S[i] /\ S[h] < S[k] /\ S[i] <= S[k] /\ S[i] \in Nat
        <5>1. S[h] < S[i] /\ S[h] < S[k] /\ S[i] \in Nat /\ (i < k => S[i] < S[k])
          BY <1>4, <3>1, <4>1
        <5>2. i = k \/ i < k
          BY <4>1, <3>1
        <5>3. QED
          BY <5>1, <5>2, <3>3
      <4>3. T[h] = S[h] /\ T[i] = S[i]
        BY <3>2, <3>5, <3>1, <1>6
      <4>4. cs[i].startedAt = R[S[h]].startedAt /\ cs[i].endedAt = R[S[i] - 1].endedAt
        BY <1>8, <4>1
      <4> DEFINE f == S[i] - 1
      <4>5. f \in 0 .. n /\ f < p /\ S[h] \in 0 .. n /\ S[h] < p
        BY <3>3, <4>2, <1>4
      <4> HIDE DEF f, S, Q, R, T, n, p, N, es, at, h, k
      <4>6. Q[f] = R[f] /\ Q[S[h]] = R[S[h]]
        BY <1>2, <4>5
      <4>7. QED
        BY <3>4, <3>5, <4>3, <4>4, <4>6 DEF h, f
    <3>6. CASE i = at
      <4>1. h = k /\ T[h] = p /\ T[i] = p + 1
        BY <3>2, <3>3, <3>6, <3>1, <1>6
      <4>2. p \in 0 .. n /\ (p + 1) - 1 = p
        BY <1>2, <1>4
      <4>3. Q[p] = item
        <5> HIDE DEF S, Q, R, T, n, p, N, es, at, h, k
        <5>1. Q[p] = IF p < p THEN R[p] ELSE IF p = p THEN item ELSE R[p - 1]
          BY <1>2, <4>2
        <5>2. QED
          BY <5>1, <4>2
      <4> HIDE DEF S, Q, R, T, n, p, N, es, at
      <4>4. QED
        BY <3>4, <3>6, <4>1, <4>2, <4>3, <2>4, <1>10
    <3>7. CASE i > at
      <4> DEFINE g == h - 1
      <4>1. /\ h \in 1 .. N /\ g \in 0 .. N /\ g < h /\ k < h /\ g >= k
            /\ ~ (h < at) /\ ~ (i < at)
        BY <1>4, <1>6, <3>1, <3>7
      <4>2. S[g] < S[h] /\ S[g] >= S[k] /\ S[h] > S[k] /\ S[g] \in Nat
        <5>1. S[g] < S[h] /\ S[k] < S[h] /\ S[g] \in Nat /\ (k < g => S[k] < S[g])
          BY <1>4, <3>1, <4>1
        <5>2. g = k \/ k < g
          BY <4>1, <3>1
        <5>3. QED
          BY <5>1, <5>2, <3>3
      <4>3. T[h] = S[g] + 1 /\ T[i] = S[h] + 1
        BY <3>2, <4>1
      <4>4. cs[h].startedAt = R[S[g]].startedAt /\ cs[h].endedAt = R[S[h] - 1].endedAt
        BY <1>8, <4>1
      <4> DEFINE f == S[g] + 1
                 j == S[h]
      <4>5. /\ f \in 0 .. n /\ f > p /\ f - 1 = S[g]
            /\ j \in 0 .. n /\ j > p /\ j - 1 = S[h] - 1 /\ T[i] - 1 = j
        BY <3>3, <4>2, <4>3, <1>4
      <4>6. es[i] = cs[h]
        BY <3>4, <3>7, <4>1
      <4>7. T[h] = f
        BY <4>3
      <4> HIDE DEF f, j, S, Q, R, T, n, p, N, es, at, h, k, g
      <4>8. Q[f] = R[f - 1] /\ Q[j] = R[j - 1]
        <5>1. /\ Q[f] = IF f < p THEN R[f] ELSE IF f = p THEN item ELSE R[f - 1]
              /\ Q[j] = IF j < p THEN R[j] ELSE IF j = p THEN item ELSE R[j - 1]
          BY <1>2, <4>5
        <5>2. f \in Int /\ j \in Int /\ p \in Int
          BY <4>5, <1>2
        <5>3. QED
          BY <5>1, <5>2, <4>5
      <4>9. QED
        BY <4>4, <4>5, <4>6, <4>7, <4>8 DEF h
    <3>8. QED
      BY <3>5, <3>6, <3>7, <1>6
  <2>6. \A i \in 1 .. Len(es) : /\ es[i].startedAt = Q[T[i - 1]].startedAt
                                /\ es[i].endedAt = Q[T[i] - 1].endedAt
    <3> HIDE DEF es, Q, T, N
    <3>1. QED
      BY <2>2, <2>5
  <2>7. HeadersRead(ds)
    BY <1>9, <2>6
  <2>8. QED
    BY <2>7 DEF s, e
<1>13. QED
  BY <1>11, <1>12 DEF s, e

-----------------------------------------------------------------------------
(* Deleting items.                                                         *)

\* When all items of a level go, no chunk set is left with a part of them.
LEMMA WholeLevelGoes ==
  ASSUME NEW cs, WellFormed(cs, Nat, Values), NEW lv \in Levels,
         NEW count \in Nat \ {0}, count = LevelSize(RebuildIndexMetadata(cs), lv)
  PROVE  TrimCount(cs, lv, count) = 0
<1> DEFINE a  == ChunkSetInsertionIndex(cs, lv + 1)
           b  == ChunkSetInsertionIndex(cs, lv)
           r  == LastRemoved(cs, lv, count)
           tr == TrimCount(cs, lv, count)
           S  == SizeSums(cs)
           N  == Len(cs)
<1>1. count <= LevelSize(RebuildIndexMetadata(cs), lv)
  OBVIOUS
<1>2. /\ a \in 1 .. N /\ r \in a - 1 .. N /\ r < b /\ tr \in Nat
      /\ tr = count - (S[r] - S[a - 1])
      /\ tr > 0 => r + 1 \in 1 .. N /\ cs[r + 1].size > tr
  BY <1>1, DeletedRange
<1>3. b \in 1 .. N + 1 /\ count = S[b - 1] - S[a - 1]
  BY LevelRange
<1>4. /\ N \in Nat /\ \A i \in 1 .. N : cs[i].size \in Nat
      /\ S \in [0 .. N -> Nat]
      /\ \A i \in 1 .. N : S[i] = S[i - 1] + cs[i].size
      /\ \A i, j \in 0 .. N : i <= j => S[i] <= S[j]
  BY ChunkSetFacts, SizeSumsGrow
<1> HIDE DEF a, b, r, tr, S, N
<1>5. SUFFICES ASSUME tr > 0 PROVE FALSE
  BY <1>2 DEF tr
<1> DEFINE k == r + 1
           c == b - 1
           z == a - 1
<1>6. k \in 1 .. N /\ k - 1 = r /\ c \in 0 .. N /\ r \in 0 .. N /\ r <= c
      /\ k \in 0 .. N /\ z \in 0 .. N
  BY <1>2, <1>3, <1>4, <1>5
<1>7. S[k] = S[r] + cs[k].size /\ cs[k].size > tr /\ cs[k].size \in Nat
  BY <1>2, <1>4, <1>5, <1>6
<1>8. S[c] = S[r] + tr /\ S[r] \in Nat /\ S[c] \in Nat
  <2>1. S[c] \in Nat /\ S[r] \in Nat /\ S[z] \in Nat
    BY <1>4, <1>6
  <2>2. tr = count - (S[r] - S[z]) /\ count = S[c] - S[z]
    BY <1>2, <1>3
  <2> HIDE DEF c, z
  <2>3. QED
    BY <2>1, <2>2
<1>9. CASE r = c
  BY <1>2, <1>5, <1>8, <1>9
<1>10. CASE r # c
  <2>1. k <= c
    BY <1>6, <1>10
  <2> HIDE DEF k, c
  <2>2. S[k] <= S[c]
    BY <1>4, <1>6, <2>1
  <2>3. QED
    BY <1>2, <1>7, <1>8, <2>2
<1>11. QED
  BY <1>9, <1>10

\* What a deletion does: the first items of the level go, and everything behind
\* them moves down.
Deleted(cs, lv, count, t) ==
  LET st == RebuildIndexMetadata(cs)
      ds == DeleteFromChunkSets(cs, lv, count, t)
      ts == RebuildIndexMetadata(ds)
      p  == FlatStart(cs, lv + 1)
  IN  /\ WellFormed(ds, Nat, Values)
      /\ DeleteNItems(st, lv, count, t) = ts
      /\ p \in Nat /\ p + count <= Count(cs) /\ Count(ds) = Count(cs) - count
      /\ \A x \in 0 .. NumberOfLevels :
           FlatStart(ds, x) = IF x <= lv THEN FlatStart(cs, x) - count
                                         ELSE FlatStart(cs, x)
      /\ \A f \in 0 .. Count(cs) - count - 1 :
           Reads(ts)[f] = IF f < p THEN Reads(st)[f] ELSE Reads(st)[f + count]

\* deleteNItems does what Deleted says.
LEMMA DeletedItems ==
  ASSUME NEW cs, WellFormed(cs, Nat, Values), NEW lv \in Levels,
         NEW count \in Nat \ {0}, NEW t,
         count <= LevelSize(RebuildIndexMetadata(cs), lv),
         t \in Nat \/ TrimCount(cs, lv, count) = 0
  PROVE  Deleted(cs, lv, count, t)
<1> DEFINE st == RebuildIndexMetadata(cs)
           ds == DeleteFromChunkSets(cs, lv, count, t)
           ts == RebuildIndexMetadata(ds)
           p  == FlatStart(cs, lv + 1)
           n  == Count(cs)
<1>1. WellFormed(ds, Nat, Values)
  BY DeleteKeepsWellFormed
<1>2. DeleteNItems(st, lv, count, t) = ts
  <2>1. st.chunkSets = cs /\ count # 0
    BY RebuildFields
  <2>2. QED
    BY <2>1 DEF DeleteNItems
<1>3. /\ lv \in 0 .. NumberOfLevels /\ 0 \in 0 .. NumberOfLevels /\ lv \in Nat
      /\ 0 <= lv /\ lv + 1 \in 0 .. NumberOfLevels
  BY LevelsAssumption DEF Levels, MaxLevel
<1>4. /\ \A x \in 0 .. NumberOfLevels : FlatStart(cs, x) \in Nat
      /\ \A x, y \in 0 .. NumberOfLevels : x <= y => FlatStart(cs, y) <= FlatStart(cs, x)
      /\ FlatStart(cs, 0) = n
      /\ LevelSize(st, lv) = FlatStart(cs, lv) - p
  BY FlatStartFacts DEF Count, LevelSize
<1>5. p \in Nat /\ p + count <= n /\ n \in Nat
  <2>1. p \in Nat /\ FlatStart(cs, lv) \in Nat /\ FlatStart(cs, lv) <= n /\ n \in Nat
    BY <1>3, <1>4
  <2>2. count <= FlatStart(cs, lv) - p
    BY <1>4
  <2> HIDE DEF p, n
  <2>3. QED
    BY <2>1, <2>2
<1>6. \A x \in 0 .. NumberOfLevels :
        FlatStart(ds, x) = IF x <= lv THEN FlatStart(cs, x) - count ELSE FlatStart(cs, x)
  BY DeleteFlatStarts
<1>7. Count(ds) = n - count
  <2>1. FlatStart(ds, 0) = Count(ds)
    BY <1>1, FlatStartFacts DEF Count
  <2>2. QED
    BY <1>3, <1>4, <1>6, <2>1
<1>8. ASSUME NEW f \in 0 .. n - count - 1
      PROVE  Reads(ts)[f] = IF f < p THEN Reads(st)[f] ELSE Reads(st)[f + count]
  <2> DEFINE g == IF f < p THEN f ELSE f + count
  <2>1. g \in Nat /\ f \in Nat /\ g < n /\ (g < p \/ g >= p + count)
        /\ (IF g < p THEN g ELSE g - count) = f
    BY <1>5
  <2> HIDE DEF g
  <2>2. g < SizeSums(cs)[Len(cs)]
    BY <2>1 DEF Count
  <2>3. GetItem(st, g) = GetItem(ts, IF g < p THEN g ELSE g - count)
    BY <2>1, <2>2, DeleteReads
  <2>4. GetItem(st, g) = GetItem(ts, f)
    BY <2>1, <2>3
  <2>5. Reads(ts)[f] = Reads(st)[g]
    BY <2>1, <2>4 DEF Reads
  <2>6. QED
    BY <2>5 DEF g
<1>9. QED
  BY <1>1, <1>2, <1>5, <1>6, <1>7, <1>8 DEF Deleted

\* A deletion told the time of the first item it leaves in the level keeps
\* headers and items together.
LEMMA DeleteHeaders ==
  ASSUME NEW cs, WellFormed(cs, Nat, Values), HeadersRead(cs), NEW lv \in Levels,
         NEW count \in Nat \ {0}, NEW t,
         count <= LevelSize(RebuildIndexMetadata(cs), lv),
         t \in Nat \/ TrimCount(cs, lv, count) = 0,
         TrimCount(cs, lv, count) # 0
           => t = Reads(RebuildIndexMetadata(cs))[FlatStart(cs, lv + 1) + count].startedAt
  PROVE  HeadersRead(DeleteFromChunkSets(cs, lv, count, t))
<1> DEFINE st == RebuildIndexMetadata(cs)
           ds == DeleteFromChunkSets(cs, lv, count, t)
           ts == RebuildIndexMetadata(ds)
           p  == FlatStart(cs, lv + 1)
           n  == Count(cs)
           R  == Reads(st)
           Q  == Reads(ts)
           S  == SizeSums(cs)
           T  == SizeSums(ds)
           N  == Len(cs)
           M  == Len(ds)
           a  == ChunkSetInsertionIndex(cs, lv + 1)
           r  == LastRemoved(cs, lv, count)
           tr == TrimCount(cs, lv, count)
           gone == r - a + 1
           kept == Without(cs, a, r)
<1>1. /\ a \in 1 .. N /\ r \in a - 1 .. N /\ tr \in Nat
      /\ tr = count - (S[r] - S[a - 1])
      /\ tr > 0 => r + 1 \in 1 .. N
      /\ ds = IF tr = 0 THEN kept ELSE Trimmed(kept, a, tr, t)
  BY DeletedRange
<1>2. /\ M = N - gone
      /\ \A i \in 0 .. M : T[i] = IF i < a THEN S[i] ELSE S[i + gone] - count
  BY DeleteSums
<1>3. /\ WellFormed(ds, Nat, Values)
      /\ p \in Nat /\ p + count <= n
      /\ Count(ds) = n - count
      /\ \A f \in 0 .. n - count - 1 : Q[f] = IF f < p THEN R[f] ELSE R[f + count]
  <2>1. Deleted(cs, lv, count, t)
    BY DeletedItems
  <2>2. QED
    BY <2>1 DEF Deleted
<1>4. /\ N \in Nat /\ n \in Nat /\ S[0] = 0
      /\ \A i \in 0 .. N : S[i] \in Nat /\ S[i] <= n
      /\ \A i, j \in 0 .. N : i < j => S[i] < S[j]
  BY SumFacts
<1>5. /\ M \in Nat
      /\ \A i \in 0 .. M : T[i] \in Nat /\ T[i] <= n - count
      /\ \A i, j \in 0 .. M : i < j => T[i] < T[j]
  <2> HIDE DEF ds
  <2>1. QED
    BY <1>3, SumFacts
<1>6. p = S[a - 1]
  BY DEF FlatStart
<1>7. \A i \in 1 .. N : /\ cs[i].startedAt = R[S[i - 1]].startedAt
                        /\ cs[i].endedAt = R[S[i] - 1].endedAt
  BY DEF HeadersRead
<1>8. \A i \in 1 .. N : cs[i] \in ChunkSetOf(Nat, Values)
  BY ChunkSetFacts
<1>9. \A i \in 1 .. M :
        LET j == IF i < a THEN i ELSE i + gone
        IN  /\ ds[i].endedAt = cs[j].endedAt
            /\ ds[i].startedAt = IF i = a /\ tr # 0 THEN t ELSE cs[j].startedAt
  <2>1. DOMAIN kept = 1 .. M /\ \A i \in 1 .. M : kept[i] = IF i < a THEN cs[i] ELSE cs[i + gone]
    BY <1>2 DEF Without
  <2>2. ASSUME NEW i \in 1 .. M
        PROVE  (IF i < a THEN i ELSE i + gone) \in 1 .. N
    <3> HIDE DEF ds, M, N, a, r
    <3>1. QED
      BY <1>1, <1>2, <1>4, <1>5
  <2> HIDE DEF kept, gone, a, r, tr, M, N, ds
  <2>3. ASSUME NEW i \in 1 .. M
        PROVE  LET j == IF i < a THEN i ELSE i + gone
               IN  /\ ds[i].endedAt = cs[j].endedAt
                   /\ ds[i].startedAt = IF i = a /\ tr # 0 THEN t ELSE cs[j].startedAt
    <3> DEFINE j == IF i < a THEN i ELSE i + gone
    <3>1. kept[i] = cs[j] /\ cs[j] \in ChunkSetOf(Nat, Values)
      BY <1>8, <2>1, <2>2
    <3> HIDE DEF j
    <3>2. CASE tr = 0
      BY <1>1, <3>1, <3>2 DEF j
    <3>3. CASE tr # 0
      <4>1. ds = [kept EXCEPT ![a] = [kept[a] EXCEPT !.start = @ + tr, !.size = @ - tr,
                                                      !.startedAt = t]]
        BY <1>1, <3>3 DEF Trimmed
      <4>2. ds[i] = IF i = a THEN [kept[i] EXCEPT !.start = @ + tr, !.size = @ - tr,
                                                  !.startedAt = t]
                             ELSE kept[i]
        BY <2>1, <4>1
      <4>3. /\ ds[i].endedAt = cs[j].endedAt
            /\ ds[i].startedAt = IF i = a THEN t ELSE cs[j].startedAt
        BY <3>1, <4>2 DEF ChunkSetOf
      <4>4. QED
        BY <3>3, <4>3 DEF j
    <3>4. QED
      BY <3>2, <3>3
  <2>4. QED
    BY <2>3
<1>10. tr # 0 => t = R[p + count].startedAt
  OBVIOUS
<1> HIDE DEF st, ds, ts, p, n, R, Q, S, T, N, M, a, r, tr, kept
<1>11. ASSUME NEW i \in 1 .. M
       PROVE  /\ ds[i].startedAt = Q[T[i - 1]].startedAt
              /\ ds[i].endedAt = Q[T[i] - 1].endedAt
  <2> DEFINE h == i - 1
             z == a - 1
  <2>1. h \in 0 .. M /\ i \in 0 .. M /\ h < i /\ gone \in 0 .. N /\ z \in 0 .. N
    BY <1>1, <1>2, <1>4, <1>5
  <2>2. T[h] < T[i] /\ T[h] \in Nat /\ T[i] \in Nat /\ T[i] <= n - count
    BY <1>5, <2>1
  <2> DEFINE f == T[i] - 1
             e == T[h]
  <2>3. f \in 0 .. n - count - 1 /\ e \in 0 .. n - count - 1
    BY <1>4, <2>2
  <2>4. /\ Q[e] = IF e < p THEN R[e] ELSE R[e + count]
        /\ Q[f] = IF f < p THEN R[f] ELSE R[f + count]
    <3> HIDE DEF e, f
    <3>1. QED
      BY <1>3, <2>3
  <2>5. /\ T[h] = IF h < a THEN S[h] ELSE S[h + gone] - count
        /\ T[i] = IF i < a THEN S[i] ELSE S[i + gone] - count
    BY <1>2, <2>1
  <2>6. CASE i < a
    <3>1. i \in 1 .. N /\ i \in 0 .. N /\ i <= z /\ h < z /\ h \in 0 .. N /\ h < a
          /\ ~ (i = a)
      BY <1>1, <1>4, <1>5, <2>1, <2>6
    <3>2. S[i] <= S[z] /\ S[h] < S[z] /\ S[i] \in Nat /\ S[h] \in Nat
      <4>1. /\ S[i] \in Nat /\ S[h] \in Nat /\ S[z] \in Nat /\ S[h] < S[z]
            /\ i < z => S[i] < S[z]
        BY <1>4, <2>1, <3>1
      <4>2. i = z \/ i < z
        BY <1>4, <2>1, <3>1
      <4>3. QED
        BY <4>1, <4>2
    <3>3. e = S[h] /\ f = S[i] - 1 /\ e < p /\ f < p
      <4>1. T[h] = S[h] /\ T[i] = S[i] /\ p = S[z] /\ p \in Nat
        BY <1>3, <1>6, <2>5, <2>6, <3>1
      <4> HIDE DEF h, z
      <4>2. QED
        BY <3>2, <4>1
    <3>4. ds[i].endedAt = cs[i].endedAt /\ ds[i].startedAt = cs[i].startedAt
      BY <1>9, <2>6, <3>1
    <3>5. cs[i].startedAt = R[S[h]].startedAt /\ cs[i].endedAt = R[S[i] - 1].endedAt
      BY <1>7, <3>1
    <3>6. Q[e] = R[S[h]] /\ Q[f] = R[S[i] - 1]
      <4> HIDE DEF e, f, h, z
      <4>1. QED
        BY <2>4, <3>3
    <3>7. QED
      BY <3>4, <3>5, <3>6
  <2>7. CASE ~ (i < a)
    <3> DEFINE j == i + gone
               g == j - 1
    <3>1. j \in 1 .. N /\ j \in 0 .. N /\ g \in 0 .. N /\ g < j /\ g = h + gone /\ a <= i
      BY <1>1, <1>2, <1>4, <1>5, <2>1, <2>7
    <3>2. S[g] \in Nat /\ S[j] \in Nat /\ S[z] \in Nat
      BY <1>4, <2>1, <3>1
    <3>3. ds[i].endedAt = cs[j].endedAt
          /\ ds[i].startedAt = IF i = a /\ tr # 0 THEN t ELSE cs[j].startedAt
      BY <1>9, <2>7
    <3>4. cs[j].startedAt = R[S[g]].startedAt /\ cs[j].endedAt = R[S[j] - 1].endedAt
      BY <1>7, <3>1
    <3>5. T[i] = S[j] - count
      BY <2>5, <2>7
    <3>6. z < i /\ z \in 0 .. M /\ z < a /\ T[z] = p
      <4>1. z < i /\ z \in 0 .. M /\ z < a
        BY <1>1, <1>4, <1>5, <2>1, <3>1
      <4>2. QED
        BY <1>2, <1>6, <4>1
    <3>7. f = (S[j] - 1) - count /\ f >= p /\ f + count = S[j] - 1
      <4>1. T[z] < T[i] /\ T[z] \in Nat
        BY <1>5, <2>1, <3>6
      <4>2. count \in Nat
        OBVIOUS
      <4> HIDE DEF j, z
      <4>3. QED
        BY <4>1, <4>2, <3>2, <3>5, <3>6, <2>2
    <3>8. Q[f].endedAt = R[S[j] - 1].endedAt
      <4>1. f \in Int /\ p \in Int /\ ~ (f < p)
        BY <2>3, <1>3, <3>7
      <4> HIDE DEF f, j
      <4>2. QED
        BY <4>1, <2>4, <3>7
    <3>9. CASE i = a
      <4>1. e = p /\ g = r
        <5>1. h = z
          BY <3>9
        <5>2. g = r
          BY <1>1, <3>9
        <5>3. QED
          BY <3>6, <5>1, <5>2
      <4>2. Q[e] = R[p + count]
        <5>1. p \in Nat
          BY <1>3
        <5> HIDE DEF e
        <5>2. QED
          BY <4>1, <5>1, <2>4
      <4>3. tr = 0 => S[g] = p + count
        <5>1. tr = count - (S[g] - p) /\ p \in Nat
          BY <1>1, <1>3, <1>6, <4>1
        <5> HIDE DEF g
        <5>2. QED
          BY <5>1, <3>2
      <4>4. ds[i].startedAt = R[p + count].startedAt
        BY <1>10, <3>3, <3>4, <3>9, <4>3
      <4> HIDE DEF f, j, g
      <4>5. QED
        BY <3>3, <3>4, <3>8, <4>2, <4>4 DEF e, f, h
    <3>10. CASE i # a
      <4>1. ~ (h < a) /\ z < h
        BY <1>1, <2>1, <3>1, <3>10
      <4>2. e = S[g] - count
        BY <2>5, <3>1, <4>1
      <4>3. e > p
        <5>1. T[z] < T[h]
          BY <1>5, <2>1, <3>6, <4>1
        <5>2. QED
          BY <3>6, <5>1
      <4>4. Q[e] = R[S[g]]
        <5>1. e \in Int /\ p \in Int /\ ~ (e < p) /\ e + count = S[g]
          <6>1. e \in Nat /\ p \in Nat /\ S[g] \in Nat
            BY <1>3, <2>3, <3>2
          <6> HIDE DEF e, g
          <6>2. QED
            BY <6>1, <4>2, <4>3
        <5> HIDE DEF e, g
        <5>2. QED
          BY <5>1, <2>4
      <4>5. ds[i].startedAt = cs[j].startedAt
        BY <3>3, <3>10
      <4> HIDE DEF f, j, g
      <4>6. QED
        BY <3>3, <3>4, <3>8, <4>4, <4>5 DEF e, f, h
    <3>11. QED
      BY <3>9, <3>10
  <2>8. QED
    BY <2>6, <2>7
<1>12. QED
  BY <1>11 DEF HeadersRead, ds, Q, T, M, ts

-----------------------------------------------------------------------------
(* Snapshots, and what headers say of the items.                           *)

\* A snapshot keeps headers and what is read.
LEMMA SnapshotHeaders ==
  ASSUME NEW cs, WellFormed(cs, Nat, Values), HeadersRead(cs)
  PROVE  LET ds == Snapshot(cs)
         IN  /\ WellFormed(ds, Nat, Values) /\ HeadersRead(ds)
             /\ Count(ds) = Count(cs)
             /\ \A x : FlatStart(ds, x) = FlatStart(cs, x)
             /\ \A f \in 0 .. Count(cs) - 1 :
                  Reads(RebuildIndexMetadata(ds))[f] = Reads(RebuildIndexMetadata(cs))[f]
<1> DEFINE ds == Snapshot(cs)
           N  == Len(cs)
           S  == SizeSums(cs)
           R  == Reads(RebuildIndexMetadata(cs))
           Q  == Reads(RebuildIndexMetadata(ds))
           n  == Count(cs)
<1>1. EmptyItem \in Values
  BY DEF Values
<1>2. WellFormed(ds, Nat, Values)
  BY <1>1, SnapshotWellFormed
<1>3. /\ \A x : FlatStart(ds, x) = FlatStart(cs, x)
      /\ \A f \in Nat : f < SizeSums(cs)[Len(cs)]
           => GetItem(RebuildIndexMetadata(ds), f) = GetItem(RebuildIndexMetadata(cs), f)
  BY <1>1, SnapshotReads
<1>4. /\ N \in Nat /\ DOMAIN cs = 1 .. N
      /\ \A i \in 1 .. N : cs[i] \in ChunkSetOf(Nat, Values)
  BY ChunkSetFacts
<1>5. /\ n \in Nat /\ S[0] = 0
      /\ \A i \in 0 .. N : S[i] \in Nat /\ S[i] <= n
      /\ \A i, j \in 0 .. N : i < j => S[i] < S[j]
  BY SumFacts
<1>6. /\ Len(ds) = N
      /\ \A i \in 1 .. N : /\ ds[i].startedAt = cs[i].startedAt
                           /\ ds[i].endedAt = cs[i].endedAt
                           /\ ds[i].size = cs[i].size
  <2>1. DOMAIN ds = 1 .. N /\ \A i \in 1 .. N : ds[i] = Compact(cs[i])
    BY <1>4 DEF Snapshot
  <2>2. ds \in Seq(ChunkSetOf(Nat, Values))
    BY <1>2 DEF WellFormed
  <2>3. ASSUME NEW c \in ChunkSetOf(Nat, Values)
        PROVE  /\ Compact(c).startedAt = c.startedAt /\ Compact(c).endedAt = c.endedAt
               /\ Compact(c).size = c.size
    BY DEF Compact, ChunkSetOf
  <2> HIDE DEF ds
  <2>4. Len(ds) = N
    BY <1>4, <2>1, <2>2
  <2>5. QED
    BY <1>4, <2>1, <2>3, <2>4
<1>7. SizeSums(ds) = S /\ Count(ds) = n
  <2> HIDE DEF ds
  <2>1. QED
    BY <1>2, <1>6, SameSums
<1>8. \A f \in 0 .. n - 1 : Q[f] = R[f]
  <2>1. ASSUME NEW f \in 0 .. n - 1 PROVE Q[f] = R[f]
    <3>1. f \in Nat /\ f < SizeSums(cs)[Len(cs)]
      BY <1>5 DEF Count
    <3>2. QED
      BY <1>3, <3>1 DEF Reads
  <2>2. QED
    BY <2>1
<1>9. HeadersRead(ds)
  <2>1. \A i \in 1 .. N : /\ cs[i].startedAt = R[S[i - 1]].startedAt
                          /\ cs[i].endedAt = R[S[i] - 1].endedAt
    BY DEF HeadersRead
  <2> HIDE DEF ds, N, S, R, Q, n
  <2>2. ASSUME NEW i \in 1 .. N
        PROVE  /\ ds[i].startedAt = Q[S[i - 1]].startedAt
               /\ ds[i].endedAt = Q[S[i] - 1].endedAt
    <3>1. i - 1 \in 0 .. N /\ i \in 0 .. N /\ i - 1 < i
      BY <1>4
    <3>2. S[i - 1] < S[i] /\ S[i - 1] \in Nat /\ S[i] \in Nat /\ S[i] <= n
      BY <1>5, <3>1
    <3>3. S[i - 1] \in 0 .. n - 1 /\ S[i] - 1 \in 0 .. n - 1
      BY <1>5, <3>2
    <3>4. QED
      BY <1>6, <1>8, <2>1, <3>3
  <2>3. QED
    BY <1>6, <1>7, <2>2 DEF HeadersRead, Q
<1>10. QED
  BY <1>2, <1>3, <1>7, <1>8, <1>9

\* The times of a storage are those of its first and of its last item.
LEMMA EndsRead ==
  ASSUME NEW cs, WellFormed(cs, Nat, Values), HeadersRead(cs), cs # <<>>
  PROVE  LET st == RebuildIndexMetadata(cs)
         IN  /\ StartedAt(st) = Reads(st)[0].startedAt
             /\ EndedAt(st) = Reads(st)[Count(cs) - 1].endedAt
<1> DEFINE st == RebuildIndexMetadata(cs)
           N  == Len(cs)
<1>1. N \in Nat /\ SizeSums(cs)[0] = 0 /\ (cs = <<>> <=> Count(cs) = 0)
  BY SumFacts
<1>2. N # 0
  <2>1. N = 0 => Count(cs) = 0
    BY <1>1 DEF Count
  <2>2. QED
    BY <1>1, <2>1
<1>3. 1 \in 1 .. N /\ N \in 1 .. N /\ 1 - 1 = 0
  BY <1>1, <1>2
<1>4. st.chunkSets = cs
  BY RebuildFields
<1>5. /\ cs[1].startedAt = Reads(st)[SizeSums(cs)[0]].startedAt
      /\ cs[N].endedAt = Reads(st)[SizeSums(cs)[N] - 1].endedAt
  <2>1. /\ cs[1].startedAt = Reads(st)[SizeSums(cs)[1 - 1]].startedAt
        /\ cs[N].endedAt = Reads(st)[SizeSums(cs)[N] - 1].endedAt
    <3> HIDE DEF st, N
    <3>1. QED
      BY <1>3 DEF HeadersRead, st, N
  <2>2. QED
    BY <1>3, <2>1
<1> HIDE DEF st
<1>6. QED
  BY <1>1, <1>4, <1>5 DEF StartedAt, EndedAt, Count, st

\* The headers have the times of the items in the chunk set itself.
LEMMA HeadersHold ==
  ASSUME NEW cs, WellFormed(cs, Nat, Values), HeadersRead(cs), NEW i \in 1 .. Len(cs)
  PROVE  /\ cs[i].startedAt = cs[i].items[cs[i].start].startedAt
         /\ cs[i].endedAt = cs[i].items[cs[i].end - 1].endedAt
<1> DEFINE st == RebuildIndexMetadata(cs)
           S  == SizeSums(cs)
           z  == cs[i].size - 1
<1>1. /\ cs[i] \in ChunkSetOf(Nat, Values) /\ GeometryOK(cs[i])
      /\ cs[i].size \in Nat /\ cs[i].size > 0 /\ Len(cs) \in Nat
  BY ChunkSetFacts
<1>2. /\ S \in [0 .. Len(cs) -> Nat] /\ S[i] = S[i - 1] + cs[i].size
  BY SizeSumsGrow
<1>3. /\ cs[i].startedAt = Reads(st)[S[i - 1]].startedAt
      /\ cs[i].endedAt = Reads(st)[S[i] - 1].endedAt
  BY DEF HeadersRead
<1>4. S[i - 1] \in Nat
  BY <1>1, <1>2
<1>5. cs[i].start \in Nat /\ cs[i].end \in Nat
  BY <1>1 DEF ChunkSetOf
<1>6. cs[i].start + z = cs[i].end - 1 /\ z \in Nat /\ z < cs[i].size
      /\ cs[i].start + 0 = cs[i].start
  BY <1>1, <1>5 DEF GeometryOK
<1> HIDE DEF z
<1>7. ASSUME NEW s \in Nat, s < cs[i].size
      PROVE  GetItem(st, S[i - 1] + s) = cs[i].items[cs[i].start + s]
  <2>1. LET flatIndex == SizeSums(cs)[i - 1] + s
        IN  /\ flatIndex \in Nat
            /\ ChunkAndPos(RebuildIndexMetadata(cs), flatIndex)
                 = [chunkSet |-> i, slot |-> cs[i].start + s]
            /\ GetItem(RebuildIndexMetadata(cs), flatIndex)
                 = cs[i].items[cs[i].start + s]
    BY <1>7, FlatIndexIs
  <2>2. QED
    BY <2>1
<1>8. /\ GetItem(st, S[i - 1] + 0) = cs[i].items[cs[i].start + 0]
      /\ GetItem(st, S[i - 1] + z) = cs[i].items[cs[i].start + z]
  BY <1>1, <1>6, <1>7
<1>9. S[i - 1] + 0 = S[i - 1] /\ S[i - 1] + z = S[i] - 1 /\ S[i - 1] + z \in Nat
  BY <1>1, <1>2, <1>4, <1>6 DEF z
<1> HIDE DEF S, st
<1>10. Reads(st)[S[i - 1]] = cs[i].items[cs[i].start]
  BY <1>4, <1>6, <1>8, <1>9 DEF Reads
<1>11. Reads(st)[S[i] - 1] = cs[i].items[cs[i].end - 1]
  BY <1>6, <1>8, <1>9 DEF Reads
<1>12. QED
  BY <1>3, <1>10, <1>11

-----------------------------------------------------------------------------
(* Lists of candles in time.                                               *)

\* A candle that starts and ends at a tick.
IsCandle(c, ticks) ==
  c \in Candles /\ {c.startedAt, c.endedAt} \subseteq ticks /\ c.startedAt <= c.endedAt

\* One of the first n of a list has t in its time.
Covers(R, n, t) ==
  \E f \in 0 .. n - 1 : R[f].startedAt <= t /\ t <= R[f].endedAt

\* The first n of a list are candles between ticks, one after the other, and
\* no tick since the first of them is missing.
InTime(R, n, ticks) ==
  /\ \A f \in 0 .. n - 1 : IsCandle(R[f], ticks)
  /\ \A f, g \in 0 .. n - 1 : f < g => R[f].endedAt < R[g].startedAt
  /\ \A t \in ticks : n > 0 /\ t >= R[0].startedAt => Covers(R, n, t)

\* Each candle starts and ends no later than the ones behind it.
LEMMA CandleTimes ==
  ASSUME NEW n \in Nat, NEW R, NEW ticks, InTime(R, n, ticks)
  PROVE  \A f \in 0 .. n - 1 : /\ R[f].startedAt \in Nat /\ R[f].endedAt \in Nat
                               /\ R[f].startedAt <= R[f].endedAt
                               /\ R[f].startedAt \in ticks /\ R[f].endedAt \in ticks
                               /\ R[f] \in Candles
BY DEF InTime, IsCandle, Candles

\* A candle of a new tick at the end.
LEMMA AppendInTime ==
  ASSUME NEW n \in Nat, NEW R, NEW Q, NEW ticks \in SUBSET Nat, InTime(R, n, ticks),
         NEW time \in Nat, \A t \in ticks : t <= time,
         n > 0 => R[n - 1].endedAt # time,
         \A f \in 0 .. n - 1 : Q[f] = R[f], Q[n] = Candle(time, time)
  PROVE  InTime(Q, n + 1, ticks \cup {time})
<1> DEFINE T == ticks \cup {time}
           m == n + 1
           z == n - 1
<1>1. \A f \in 0 .. n - 1 : /\ R[f].startedAt \in Nat /\ R[f].endedAt \in Nat
                            /\ R[f].startedAt <= R[f].endedAt
                            /\ R[f].startedAt \in ticks /\ R[f].endedAt \in ticks
                            /\ R[f] \in Candles
  BY CandleTimes
<1>2. /\ Q[n].startedAt = time /\ Q[n].endedAt = time /\ Q[n] \in Candles
  BY DEF Candle, Candles
<1>3. \A f \in 0 .. m - 1 : f \in 0 .. n - 1 \/ f = n
  OBVIOUS
<1>4. \A f \in 0 .. m - 1 : IsCandle(Q[f], T)
  <2>1. ASSUME NEW f \in 0 .. m - 1 PROVE IsCandle(Q[f], T)
    <3>1. CASE f \in 0 .. n - 1
      BY <1>1, <3>1 DEF IsCandle
    <3>2. CASE f = n
      BY <1>2, <3>2 DEF IsCandle
    <3>3. QED
      BY <1>3, <3>1, <3>2
  <2>2. QED
    BY <2>1
<1>5. \A f, g \in 0 .. n - 1 : f < g => R[f].endedAt < R[g].startedAt
  BY DEF InTime
<1>6. \A f \in 0 .. n - 1 : R[f].endedAt < time
  <2>1. ASSUME NEW f \in 0 .. n - 1 PROVE R[f].endedAt < time
    <3>1. /\ R[f].endedAt \in Nat /\ R[f].endedAt <= time
          /\ z \in 0 .. n - 1 /\ R[z].startedAt <= time
          /\ R[z].startedAt \in Nat /\ R[z].endedAt # time
      BY <1>1
    <3>2. f = z \/ f < z
      OBVIOUS
    <3> HIDE DEF z
    <3>3. QED
      BY <1>5, <3>1, <3>2
  <2>2. QED
    BY <2>1
<1>7. \A f, g \in 0 .. m - 1 : f < g => Q[f].endedAt < Q[g].startedAt
  <2>1. ASSUME NEW f \in 0 .. m - 1, NEW g \in 0 .. m - 1, f < g
        PROVE  Q[f].endedAt < Q[g].startedAt
    <3>1. f \in 0 .. n - 1
      BY <2>1
    <3>2. CASE g = n
      BY <1>2, <1>6, <3>1, <3>2
    <3>3. CASE g \in 0 .. n - 1
      BY <1>5, <2>1, <3>1, <3>3
    <3>4. QED
      BY <1>3, <3>2, <3>3
  <2>2. QED
    BY <2>1
<1>8. ASSUME NEW t \in T, t >= Q[0].startedAt PROVE Covers(Q, m, t)
  <2>1. n \in 0 .. m - 1
    OBVIOUS
  <2>2. CASE t = time
    BY <1>2, <2>1, <2>2 DEF Covers
  <2>3. CASE t # time
    <3>1. t \in ticks /\ t < time /\ t \in Nat
      BY <2>3
    <3>2. n > 0
      BY <1>2, <1>8, <3>1
    <3>3. Q[0] = R[0]
      BY <3>2
    <3>4. Covers(R, n, t)
      BY <1>8, <3>1, <3>2, <3>3 DEF InTime
    <3>5. PICK f \in 0 .. n - 1 : R[f].startedAt <= t /\ t <= R[f].endedAt
      BY <3>4 DEF Covers
    <3>6. f \in 0 .. m - 1 /\ Q[f] = R[f]
      OBVIOUS
    <3>7. QED
      BY <3>5, <3>6 DEF Covers
  <2>4. QED
    BY <2>2, <2>3
<1> HIDE DEF T, m
<1>9. InTime(Q, m, T)
  BY <1>4, <1>7, <1>8 DEF InTime
<1>10. QED
  BY <1>9 DEF T, m

\* A list R of n with count neighbours at s joined to one candle, from the start
\* of the first to the end of the last, is Q.
JoinedTo(R, n, s, count, Q) ==
  /\ s \in Nat /\ count \in Nat /\ count >= 1 /\ s + count <= n
  /\ \A f \in 0 .. n - count : Q[f] = IF f < s THEN R[f]
                                     ELSE IF f = s THEN Q[s]
                                     ELSE R[f + count - 1]
  /\ Q[s] \in Candles
  /\ Q[s].startedAt = R[s].startedAt
  /\ Q[s].endedAt = R[s + count - 1].endedAt

\* Candles stay in time when neighbours become one that lasts as long as they did.
LEMMA JoinInTime ==
  ASSUME NEW n \in Nat, NEW R, NEW Q, NEW ticks \in SUBSET Nat, InTime(R, n, ticks),
         NEW s, NEW count, JoinedTo(R, n, s, count, Q)
  PROVE  InTime(Q, n - count + 1, ticks)
<1> DEFINE m == n - count + 1
           last == s + count - 1
<1>0. /\ s \in Nat /\ count \in Nat /\ count >= 1 /\ s + count <= n /\ m \in Nat
      /\ \A f \in 0 .. m - 1 : Q[f] = IF f < s THEN R[f]
                                        ELSE IF f = s THEN Q[s]
                                        ELSE R[f + count - 1]
      /\ Q[s] \in Candles
      /\ Q[s].startedAt = R[s].startedAt /\ Q[s].endedAt = R[last].endedAt
  BY DEF JoinedTo
<1> USE <1>0
<1> DEFINE Opens(f) == IF f <= s THEN f ELSE f + count - 1
           Closes(f)  == IF f < s THEN f ELSE f + count - 1
<1>1. \A f \in 0 .. n - 1 : /\ R[f].startedAt \in Nat /\ R[f].endedAt \in Nat
                            /\ R[f].startedAt <= R[f].endedAt
                            /\ R[f].startedAt \in ticks /\ R[f].endedAt \in ticks
                            /\ R[f] \in Candles
  BY CandleTimes
<1>2. \A f, g \in 0 .. n - 1 : f < g => R[f].endedAt < R[g].startedAt
  BY DEF InTime
<1>3. ASSUME NEW f \in 0 .. m - 1
      PROVE  /\ Opens(f) \in 0 .. n - 1 /\ Closes(f) \in 0 .. n - 1 /\ Opens(f) <= Closes(f)
             /\ Q[f].startedAt = R[Opens(f)].startedAt
             /\ Q[f].endedAt = R[Closes(f)].endedAt
             /\ Q[f] \in Candles
  <2>1. Opens(f) \in 0 .. n - 1 /\ Closes(f) \in 0 .. n - 1 /\ Opens(f) <= Closes(f)
    OBVIOUS
  <2>2. Q[f] = IF f < s THEN R[f] ELSE IF f = s THEN Q[s] ELSE R[f + count - 1]
    OBVIOUS
  <2>3. CASE f < s
    BY <1>1, <2>1, <2>2, <2>3
  <2>4. CASE f = s
    BY <2>1, <2>4
  <2>5. CASE f > s
    <3> DEFINE k == f + count - 1
    <3>1. Q[f] = R[k] /\ Opens(f) = k /\ Closes(f) = k
      BY <2>2, <2>5
    <3> HIDE DEF k, Opens, Closes
    <3>2. QED
      BY <1>1, <2>1, <3>1
  <2>6. QED
    BY <2>3, <2>4, <2>5
<1>4. ASSUME NEW f \in 0 .. m - 1, NEW g \in 0 .. m - 1, f < g
      PROVE  Closes(f) < Opens(g)
  BY <1>4
<1> HIDE DEF Opens, Closes
<1>5. ASSUME NEW f \in 0 .. m - 1 PROVE IsCandle(Q[f], ticks)
  <2>1. /\ R[Opens(f)].startedAt <= R[Closes(f)].endedAt
        /\ R[Opens(f)].startedAt \in ticks /\ R[Closes(f)].endedAt \in ticks
    <3>1. /\ R[Opens(f)].startedAt \in Nat /\ R[Opens(f)].endedAt \in Nat
          /\ R[Opens(f)].startedAt <= R[Opens(f)].endedAt
          /\ R[Closes(f)].startedAt \in Nat /\ R[Closes(f)].endedAt \in Nat
          /\ R[Closes(f)].startedAt <= R[Closes(f)].endedAt
          /\ R[Opens(f)].startedAt \in ticks /\ R[Closes(f)].endedAt \in ticks
      BY <1>1, <1>3
    <3>2. Opens(f) = Closes(f) \/ Opens(f) < Closes(f)
      BY <1>3
    <3>3. Opens(f) < Closes(f) => R[Opens(f)].endedAt < R[Closes(f)].startedAt
      BY <1>2, <1>3
    <3>4. QED
      BY <3>1, <3>2, <3>3
  <2>2. QED
    BY <1>3, <2>1 DEF IsCandle
<1>6. ASSUME NEW f \in 0 .. m - 1, NEW g \in 0 .. m - 1, f < g
      PROVE  Q[f].endedAt < Q[g].startedAt
  BY <1>2, <1>3, <1>4, <1>6
<1>7. ASSUME NEW t \in ticks, m > 0, t >= Q[0].startedAt PROVE Covers(Q, m, t)
  <2>1. n > 0 /\ t \in Nat
    BY <1>7
  <2>2. Q[0].startedAt = R[0].startedAt
    <3>1. 0 \in 0 .. m - 1 /\ Opens(0) = 0
      BY <1>7 DEF Opens
    <3>2. QED
      BY <1>3, <3>1
  <2>3. Covers(R, n, t)
    BY <1>7, <2>1, <2>2 DEF InTime
  <2>4. PICK g \in 0 .. n - 1 : R[g].startedAt <= t /\ t <= R[g].endedAt
    BY <2>3 DEF Covers
  <2> DEFINE f == IF g < s THEN g ELSE IF g > last THEN g - (count - 1) ELSE s
  <2>5. f \in 0 .. m - 1 /\ Opens(f) <= g /\ g <= Closes(f)
    BY DEF Opens, Closes
  <2> HIDE DEF f
  <2>6. /\ Opens(f) \in 0 .. n - 1 /\ Closes(f) \in 0 .. n - 1
        /\ Q[f].startedAt = R[Opens(f)].startedAt
        /\ Q[f].endedAt = R[Closes(f)].endedAt
    BY <1>3, <2>5
  <2>7. /\ R[Opens(f)].startedAt \in Nat /\ R[Opens(f)].endedAt \in Nat
        /\ R[Opens(f)].startedAt <= R[Opens(f)].endedAt
        /\ R[Closes(f)].startedAt \in Nat /\ R[Closes(f)].endedAt \in Nat
        /\ R[Closes(f)].startedAt <= R[Closes(f)].endedAt
        /\ R[g].startedAt \in Nat /\ R[g].endedAt \in Nat
    BY <1>1, <2>6
  <2>8. R[Opens(f)].startedAt <= t
    <3>1. Opens(f) = g \/ Opens(f) < g
      BY <2>5, <2>6
    <3>2. Opens(f) < g => R[Opens(f)].endedAt < R[g].startedAt
      BY <1>2, <2>6
    <3>3. QED
      BY <2>1, <2>4, <2>7, <3>1, <3>2
  <2>9. t <= R[Closes(f)].endedAt
    <3>1. Closes(f) = g \/ g < Closes(f)
      BY <2>5, <2>6
    <3>2. g < Closes(f) => R[g].endedAt < R[Closes(f)].startedAt
      BY <1>2, <2>6
    <3>3. QED
      BY <2>1, <2>4, <2>7, <3>1, <3>2
  <2>10. QED
    BY <2>5, <2>6, <2>8, <2>9 DEF Covers
<1>8. QED
  BY <1>5, <1>6, <1>7 DEF InTime

\* The first candles go.
LEMMA TrimInTime ==
  ASSUME NEW n \in Nat, NEW R, NEW Q, NEW ticks \in SUBSET Nat, InTime(R, n, ticks),
         NEW count \in Nat, NEW m \in Nat, m = n - count,
         \A f \in 0 .. m - 1 : Q[f] = R[f + count]
  PROVE  InTime(Q, m, ticks)
<1>1. \A f \in 0 .. n - 1 : /\ R[f].startedAt \in Nat /\ R[f].endedAt \in Nat
                            /\ R[f].startedAt <= R[f].endedAt
                            /\ IsCandle(R[f], ticks)
  BY CandleTimes DEF InTime
<1>2. \A f, g \in 0 .. n - 1 : f < g => R[f].endedAt < R[g].startedAt
  BY DEF InTime
<1>3. \A f \in 0 .. m - 1 : f + count \in 0 .. n - 1 /\ Q[f] = R[f + count]
  OBVIOUS
<1>4. \A f \in 0 .. m - 1 : IsCandle(Q[f], ticks)
  BY <1>1, <1>3
<1>5. ASSUME NEW f \in 0 .. m - 1, NEW g \in 0 .. m - 1, f < g
      PROVE  Q[f].endedAt < Q[g].startedAt
  <2>1. f + count < g + count
    BY <1>5
  <2>2. QED
    BY <1>2, <1>3, <2>1
<1>6. ASSUME NEW t \in ticks, m > 0, t >= Q[0].startedAt PROVE Covers(Q, m, t)
  <2>1. Q[0] = R[count] /\ count \in 0 .. n - 1 /\ 0 \in 0 .. n - 1 /\ t \in Nat
    BY <1>3, <1>6
  <2>2. t >= R[0].startedAt
    <3>1. 0 = count \/ 0 < count
      OBVIOUS
    <3>2. 0 < count => R[0].endedAt < R[count].startedAt
      BY <1>2, <2>1
    <3>3. QED
      BY <1>1, <1>6, <2>1, <3>1, <3>2
  <2>3. Covers(R, n, t)
    BY <2>1, <2>2 DEF InTime
  <2>4. PICK g \in 0 .. n - 1 : R[g].startedAt <= t /\ t <= R[g].endedAt
    BY <2>3 DEF Covers
  <2>5. g >= count
    <3>1. g < count => R[g].endedAt < R[count].startedAt
      BY <1>2, <2>1
    <3>2. QED
      BY <1>1, <1>6, <2>1, <2>4, <3>1
  <2> DEFINE f == g - count
  <2>6. f \in 0 .. m - 1 /\ f + count = g
    BY <2>5
  <2> HIDE DEF f
  <2>7. Q[f] = R[g]
    BY <1>3, <2>6
  <2>8. QED
    BY <2>4, <2>6, <2>7 DEF Covers
<1>7. QED
  BY <1>4, <1>5, <1>6 DEF InTime

\* What is not a time of a candle does not matter.
LEMMA SameInTime ==
  ASSUME NEW n \in Nat, NEW R, NEW Q, NEW ticks, InTime(R, n, ticks),
         \A f \in 0 .. n - 1 : /\ Q[f] \in Candles
                               /\ Q[f].startedAt = R[f].startedAt
                               /\ Q[f].endedAt = R[f].endedAt
  PROVE  InTime(Q, n, ticks)
<1>1. \A f \in 0 .. n - 1 : IsCandle(Q[f], ticks)
  BY DEF InTime, IsCandle
<1>2. \A f, g \in 0 .. n - 1 : f < g => Q[f].endedAt < Q[g].startedAt
  BY DEF InTime
<1>3. ASSUME NEW t \in ticks, n > 0, t >= Q[0].startedAt PROVE Covers(Q, n, t)
  <2>1. 0 \in 0 .. n - 1
    BY <1>3
  <2>2. Covers(R, n, t)
    BY <1>3, <2>1 DEF InTime
  <2>3. QED
    BY <2>2 DEF Covers
<1>4. QED
  BY <1>1, <1>2, <1>3 DEF InTime

-----------------------------------------------------------------------------
(* Sound storages.                                                         *)

\* A storage with its own metadata, true headers, and its candles in time.
Sound(st, ticks) ==
  /\ WellFormed(st.chunkSets, Nat, Values)
  /\ st = RebuildIndexMetadata(st.chunkSets)
  /\ HeadersRead(st.chunkSets)
  /\ InTime(Reads(st), Size(st), ticks)

\* Sizes and places in terms of flat starts.
LEMMA SoundFacts ==
  ASSUME NEW st, NEW ticks, Sound(st, ticks)
  PROVE  LET cs == st.chunkSets
         IN  /\ Size(st) = Count(cs) /\ Size(st) \in Nat
             /\ FlatStart(cs, 0) = Size(st) /\ FlatStart(cs, NumberOfLevels) = 0
             /\ \A l \in Levels :
                  /\ FlatStart(cs, l) \in Nat /\ FlatStart(cs, l + 1) \in Nat
                  /\ FlatStart(cs, l + 1) <= FlatStart(cs, l)
                  /\ FlatStart(cs, l) <= Size(st)
                  /\ st.boundaries[l] = FlatStart(cs, l + 1)
                  /\ LevelEnd(st, l) = FlatStart(cs, l)
                  /\ LevelSize(st, l) = FlatStart(cs, l) - FlatStart(cs, l + 1)
                  /\ LevelSize(st, l) \in Nat
             /\ cs = <<>> <=> Size(st) = 0
             /\ cs # <<>> => /\ StartedAt(st) = Reads(st)[0].startedAt
                             /\ EndedAt(st) = Reads(st)[Size(st) - 1].endedAt
<1> DEFINE cs == st.chunkSets
           re == RebuildIndexMetadata(cs)
<1>1. st = re /\ WellFormed(cs, Nat, Values) /\ HeadersRead(cs)
  BY DEF Sound
<1> HIDE DEF cs
<1>2. /\ \A x \in 0 .. NumberOfLevels : FlatStart(cs, x) \in Nat
      /\ \A x, y \in 0 .. NumberOfLevels : x <= y => FlatStart(cs, y) <= FlatStart(cs, x)
      /\ FlatStart(cs, 0) = Count(cs)
      /\ \A l \in Levels : /\ re.boundaries[l] = FlatStart(cs, l + 1)
                           /\ LevelEnd(re, l) = FlatStart(cs, l)
  BY <1>1, FlatStartFacts DEF Count
<1>3. Size(re) = Count(cs)
  BY <1>1, SizeIs DEF Count
<1>4. Count(cs) \in Nat /\ (cs = <<>> <=> Count(cs) = 0) /\ SizeSums(cs)[0] = 0
  BY <1>1, SumFacts
<1>5. FlatStart(cs, NumberOfLevels) = 0
  <2>1. ChunkSetInsertionIndex(cs, NumberOfLevels) = 1
    <3> DEFINE T == ChunkSetOf(Nat, Values)
    <3>1. cs \in Seq(T) /\ \A i \in 1 .. Len(cs) : cs[i].level \in Levels
      BY <1>1, ChunkSetFacts DEF WellFormed
    <3> HIDE DEF T
    <3>2. Len(cs) \in Nat /\ 1 \in 1 .. Len(cs) + 1
      BY <3>1
    <3>3. \A j \in 1 .. 1 - 1 : ~ (cs[j].level < NumberOfLevels)
      OBVIOUS
    <3>4. 1 <= Len(cs) => cs[1].level < NumberOfLevels
      BY <3>1, <3>2, LevelsAssumption DEF Levels, MaxLevel
    <3> DEFINE one == 1
    <3>5. /\ one \in 1 .. Len(cs) + 1
          /\ \A j \in 1 .. one - 1 : ~ (cs[j].level < NumberOfLevels)
          /\ one <= Len(cs) => cs[one].level < NumberOfLevels
      BY <3>2, <3>3, <3>4
    <3> HIDE DEF one
    <3>6. ChunkSetInsertionIndex(cs, NumberOfLevels) = one
      BY <3>1, <3>5, InsertionIndexIs
    <3>7. QED
      BY <3>6 DEF one
  <2>2. QED
    BY <1>4, <2>1 DEF FlatStart
<1>6. ASSUME NEW l \in Levels
      PROVE  /\ FlatStart(cs, l) \in Nat /\ FlatStart(cs, l + 1) \in Nat
             /\ FlatStart(cs, l + 1) <= FlatStart(cs, l)
             /\ FlatStart(cs, l) <= Count(cs)
             /\ re.boundaries[l] = FlatStart(cs, l + 1)
             /\ LevelEnd(re, l) = FlatStart(cs, l)
             /\ LevelSize(re, l) = FlatStart(cs, l) - FlatStart(cs, l + 1)
             /\ LevelSize(re, l) \in Nat
  <2>1. /\ l \in 0 .. NumberOfLevels /\ l + 1 \in 0 .. NumberOfLevels
        /\ 0 \in 0 .. NumberOfLevels /\ l <= l + 1 /\ 0 <= l
    BY LevelsAssumption DEF Levels, MaxLevel
  <2>2. /\ FlatStart(cs, l) \in Nat /\ FlatStart(cs, l + 1) \in Nat
        /\ FlatStart(cs, l + 1) <= FlatStart(cs, l)
        /\ FlatStart(cs, l) <= Count(cs)
    BY <1>2, <2>1
  <2>3. LevelSize(re, l) = FlatStart(cs, l) - FlatStart(cs, l + 1)
    BY <1>2 DEF LevelSize
  <2>4. QED
    BY <1>2, <2>2, <2>3
<1>7. ASSUME cs # <<>>
      PROVE  /\ StartedAt(re) = Reads(re)[0].startedAt
             /\ EndedAt(re) = Reads(re)[Count(cs) - 1].endedAt
  BY <1>1, <1>7, EndsRead
<1> HIDE DEF re
<1>8. QED
  BY <1>1, <1>2, <1>3, <1>4, <1>5, <1>6, <1>7 DEF cs

\* The empty storage.
LEMMA SoundEmpty ==
  /\ Sound(EmptyStorage, {})
  /\ Size(EmptyStorage) = 0
  /\ \A l \in Levels : LevelSize(EmptyStorage, l) = 0
<1> DEFINE cs == <<>>
           T  == ChunkSetOf(Nat, Values)
           re == RebuildIndexMetadata(cs)
<1>1. cs \in Seq(T) /\ Len(cs) = 0 /\ DOMAIN cs = {}
  OBVIOUS
<1>2. WellFormed(cs, Nat, Values) /\ HeadersRead(cs)
  <2>1. WellFormed(cs, Nat, Values)
    BY <1>1 DEF WellFormed, LevelsDescend
  <2>2. HeadersRead(cs)
    BY <1>1 DEF HeadersRead
  <2>3. QED
    BY <2>1, <2>2
<1> HIDE DEF cs, T
<1>3. SizeSums(cs)[0] = 0
  BY <1>2, SumFacts
<1>4. \A x : ChunkSetInsertionIndex(cs, x) = 1
  <2>1. ASSUME NEW x PROVE ChunkSetInsertionIndex(cs, x) = 1
    <3>1. ChunkSetInsertionIndex(cs, x) \in 1 .. Len(cs) + 1
      BY <1>1, InsertionIndexIsFirst
    <3>2. QED
      BY <1>1, <3>1
  <2>2. QED
    BY <2>1
<1>5. StartLevel0Index(cs) = 1
  <2>1. StartLevel0Index(cs) \in 1 .. Len(cs) + 1
    BY <1>1, StartLevel0IndexType
  <2>2. QED
    BY <1>1, <2>1
<1>6. re = EmptyStorage
  <2>1. re = [ chunkSets |-> cs, flatEnds |-> [i \in DOMAIN cs |-> SizeSums(cs)[i]],
               boundaries |->
                 [l \in Levels |-> SizeSums(cs)[ChunkSetInsertionIndex(cs, l + 1) - 1]],
               startLevel0Index |-> StartLevel0Index(cs) ]
    BY RebuildFields
  <2>2. [i \in DOMAIN cs |-> SizeSums(cs)[i]] = <<>>
    BY <1>1
  <2>3. [l \in Levels |-> SizeSums(cs)[ChunkSetInsertionIndex(cs, l + 1) - 1]]
          = [l \in Levels |-> 0]
    BY <1>3, <1>4
  <2>4. QED
    BY <1>5, <2>1, <2>2, <2>3 DEF EmptyStorage, cs
<1>7. Size(EmptyStorage) = 0
  BY DEF EmptyStorage, Size, FlatEndAt
<1>8. InTime(Reads(EmptyStorage), 0, {})
  BY DEF InTime
<1>9. Sound(EmptyStorage, {})
  <2>1. EmptyStorage.chunkSets = cs
    BY DEF EmptyStorage, cs
  <2>2. QED
    BY <1>2, <1>6, <1>7, <1>8, <2>1 DEF Sound
<1>10. ASSUME NEW l \in Levels PROVE LevelSize(EmptyStorage, l) = 0
  <2>1. LevelSize(EmptyStorage, l) \in Nat
    BY <1>9, SoundFacts
  <2>2. /\ LevelEnd(EmptyStorage, l) <= Size(EmptyStorage)
        /\ LevelEnd(EmptyStorage, l) \in Nat
        /\ EmptyStorage.boundaries[l] \in Nat
        /\ LevelSize(EmptyStorage, l) = LevelEnd(EmptyStorage, l) - EmptyStorage.boundaries[l]
    BY <1>9, SoundFacts DEF LevelSize
  <2>3. QED
    BY <1>7, <2>1, <2>2
<1>11. QED
  BY <1>7, <1>9, <1>10

\* A tick later than the last item becomes a candle of level 0.
LEMMA SoundTick ==
  ASSUME NEW ticks \in SUBSET Nat, NEW st, Sound(st, ticks),
         NEW time \in Nat, \A t \in ticks : t <= time, EndedAt(st) # time
  PROVE  LET ts == AddItem(st, 0, time, time, Candle(time, time))
         IN  /\ Sound(ts, ticks \cup {time})
             /\ Size(ts) = Size(st) + 1
             /\ \A l \in Levels :
                  LevelSize(ts, l) = IF l = 0 THEN LevelSize(st, l) + 1
                                              ELSE LevelSize(st, l)
<1> DEFINE cs == st.chunkSets
           c  == Candle(time, time)
           ts == AddItem(st, 0, time, time, c)
           ds == ts.chunkSets
           n  == Size(st)
<1>1. /\ n = Count(cs) /\ n \in Nat /\ FlatStart(cs, 0) = n
      /\ cs = <<>> <=> n = 0
      /\ cs # <<>> => EndedAt(st) = Reads(st)[n - 1].endedAt
  BY SoundFacts
<1>2. WellFormed(cs, Nat, Values) /\ st = RebuildIndexMetadata(cs)
      /\ HeadersRead(cs) /\ InTime(Reads(st), n, ticks)
  BY DEF Sound
<1>3. c \in Candles /\ c \in Values /\ c.startedAt = time /\ c.endedAt = time
      /\ 0 \in Levels
  BY LevelsAssumption DEF Candle, Candles, Values, Levels, MaxLevel
<1> HIDE DEF c, cs
<1>4. /\ WellFormed(ds, Nat, Values) /\ ts = RebuildIndexMetadata(ds)
      /\ Count(ds) = Count(cs) + 1
      /\ \A x \in 0 .. NumberOfLevels :
           FlatStart(ds, x) = IF x <= 0 THEN FlatStart(cs, x) + 1 ELSE FlatStart(cs, x)
      /\ \A f \in 0 .. Count(cs) :
           Reads(ts)[f] = IF f < FlatStart(cs, 0) THEN Reads(st)[f]
                          ELSE IF f = FlatStart(cs, 0) THEN c ELSE Reads(st)[f - 1]
  <2>1. Added(cs, 0, time, time, c)
    BY <1>2, <1>3, AddedItem
  <2>2. RebuildIndexMetadata(cs) = st
    BY <1>2
  <2>3. QED
    BY <2>1, <2>2 DEF Added
<1>5. HeadersRead(ds)
  <2>1. HeadersRead(AddItem(RebuildIndexMetadata(cs), 0, c.startedAt, c.endedAt,
                            c).chunkSets)
    BY <1>2, <1>3, AddHeaders
  <2>2. QED
    BY <1>2, <1>3, <2>1
<1> HIDE DEF ts
<1>6. Size(ts) = n + 1
  BY <1>1, <1>4, SizeIs DEF Count
<1>7. InTime(Reads(ts), n + 1, ticks \cup {time})
  <2> DEFINE R == Reads(st)
             Q == Reads(ts)
  <2>1. /\ \A f \in 0 .. n - 1 : Q[f] = R[f]
        /\ Q[n] = Candle(time, time)
    BY <1>1, <1>4 DEF c
  <2>2. n > 0 => R[n - 1].endedAt # time
    BY <1>1
  <2> HIDE DEF R, Q, n
  <2>3. n \in Nat /\ InTime(R, n, ticks)
    BY <1>1, <1>2 DEF R, n
  <2>4. InTime(Q, n + 1, ticks \cup {time})
    BY <2>1, <2>2, <2>3, AppendInTime
  <2>5. QED
    BY <2>4 DEF Q, n
<1>8. Sound(ts, ticks \cup {time})
  BY <1>4, <1>5, <1>6, <1>7 DEF Sound
<1>9. ASSUME NEW l \in Levels
      PROVE  LevelSize(ts, l) = IF l = 0 THEN LevelSize(st, l) + 1 ELSE LevelSize(st, l)
  <2> DEFINE k == l + 1
  <2>1. l \in 0 .. NumberOfLevels /\ k \in 0 .. NumberOfLevels /\ l \in Nat
    BY LevelsAssumption DEF Levels, MaxLevel
  <2>2. /\ LevelSize(ts, l) = FlatStart(ds, l) - FlatStart(ds, l + 1)
        /\ LevelSize(st, l) = FlatStart(cs, l) - FlatStart(cs, l + 1)
        /\ FlatStart(cs, l) \in Nat /\ FlatStart(cs, l + 1) \in Nat
    BY <1>8, SoundFacts DEF cs
  <2>3. /\ FlatStart(ds, l) = IF l <= 0 THEN FlatStart(cs, l) + 1 ELSE FlatStart(cs, l)
        /\ FlatStart(ds, k) = IF k <= 0 THEN FlatStart(cs, k) + 1 ELSE FlatStart(cs, k)
    <3> HIDE DEF k, ds
    <3>1. QED
      BY <1>4, <2>1
  <2> HIDE DEF ds
  <2>4. QED
    BY <2>1, <2>2, <2>3
<1>10. QED
  BY <1>6, <1>8, <1>9 DEF ts, c

\* A write of another value leaves the times as they are.
LEMMA SoundRewrite ==
  ASSUME NEW ticks, NEW st, Sound(st, ticks), NEW p \in 0 .. Size(st) - 1
  PROVE  LET ts == SetItem(st, p, [GetItem(st, p) EXCEPT !.value = 1 - @])
         IN  /\ Sound(ts, ticks)
             /\ Size(ts) = Size(st)
             /\ \A l \in Levels : LevelSize(ts, l) = LevelSize(st, l)
<1> DEFINE cs   == st.chunkSets
           item == [GetItem(st, p) EXCEPT !.value = 1 - @]
           ts   == SetItem(st, p, item)
           ds   == ts.chunkSets
           n    == Size(st)
<1>1. n = Count(cs) /\ n \in Nat
  BY SoundFacts
<1>2. WellFormed(cs, Nat, Values) /\ st = RebuildIndexMetadata(cs)
      /\ HeadersRead(cs) /\ InTime(Reads(st), n, ticks)
  BY DEF Sound
<1>3. \A f \in 0 .. n - 1 : Reads(st)[f] = GetItem(st, f) /\ Reads(st)[f] \in Candles
  BY <1>1, <1>2, CandleTimes DEF Reads
<1>4. /\ item \in Candles /\ item \in Values
      /\ item.startedAt = GetItem(st, p).startedAt
      /\ item.endedAt = GetItem(st, p).endedAt
  <2>1. GetItem(st, p) \in Candles
    BY <1>1, <1>3
  <2>2. QED
    BY <2>1 DEF Candles, Values
<1> HIDE DEF item, cs
<1>5. /\ WellFormed(ds, Nat, Values) /\ ts = RebuildIndexMetadata(ds)
      /\ Len(ds) = Len(cs)
      /\ \A i \in 1 .. Len(cs) : /\ ds[i].startedAt = cs[i].startedAt
                                 /\ ds[i].endedAt = cs[i].endedAt
      /\ SizeSums(ds) = SizeSums(cs) /\ Count(ds) = Count(cs)
      /\ \A x \in 0 .. NumberOfLevels : FlatStart(ds, x) = FlatStart(cs, x)
  BY <1>2, <1>4, SetItemHeaders
<1>6. \A f \in 0 .. n - 1 : Reads(ts)[f] = IF f = p THEN item ELSE Reads(st)[f]
  <2>1. ASSUME NEW f \in 0 .. n - 1
        PROVE  Reads(ts)[f] = IF f = p THEN item ELSE Reads(st)[f]
    <3>1. /\ f \in Nat /\ p \in Nat /\ f < SizeSums(cs)[Len(cs)] /\ p < SizeSums(cs)[Len(cs)]
      BY <1>1 DEF Count
    <3>2. GetItem(ts, f) = IF f = p THEN item ELSE GetItem(st, f)
      BY <1>2, <3>1, SetItemReads
    <3> HIDE DEF ts
    <3>3. QED
      BY <3>1, <3>2 DEF Reads
  <2>2. QED
    BY <2>1
<1> HIDE DEF ts
<1>7. \A f \in 0 .. n - 1 : /\ Reads(ts)[f] \in Candles
                            /\ Reads(ts)[f].startedAt = Reads(st)[f].startedAt
                            /\ Reads(ts)[f].endedAt = Reads(st)[f].endedAt
  BY <1>3, <1>4, <1>6
<1>8. HeadersRead(ds)
  <2>1. /\ Len(cs) \in Nat
        /\ \A i \in 0 .. Len(cs) : SizeSums(cs)[i] \in Nat /\ SizeSums(cs)[i] <= n
        /\ \A i, j \in 0 .. Len(cs) : i < j => SizeSums(cs)[i] < SizeSums(cs)[j]
    BY <1>1, <1>2, SumFacts
  <2>2. ASSUME NEW i \in 1 .. Len(cs)
        PROVE  /\ ds[i].startedAt = Reads(ts)[SizeSums(cs)[i - 1]].startedAt
               /\ ds[i].endedAt = Reads(ts)[SizeSums(cs)[i] - 1].endedAt
    <3> DEFINE h == i - 1
               S == SizeSums(cs)
    <3>1. h \in 0 .. Len(cs) /\ i \in 0 .. Len(cs) /\ h < i
      BY <2>1
    <3>2. S[h] \in 0 .. n - 1 /\ S[i] - 1 \in 0 .. n - 1
      <4>1. S[h] \in Nat /\ S[i] \in Nat /\ S[h] < S[i] /\ S[i] <= n
        BY <2>1, <3>1
      <4>2. QED
        BY <1>1, <4>1
    <3>3. /\ cs[i].startedAt = Reads(st)[S[h]].startedAt
          /\ cs[i].endedAt = Reads(st)[S[i] - 1].endedAt
      BY <1>2 DEF HeadersRead
    <3> HIDE DEF S, h
    <3>4. QED
      BY <1>5, <1>7, <3>2, <3>3 DEF S, h
  <2>3. QED
    BY <1>5, <2>2 DEF HeadersRead
<1>9. Size(ts) = n
  BY <1>1, <1>5, SizeIs DEF Count
<1>10. InTime(Reads(ts), n, ticks)
  <2> DEFINE R == Reads(st)
             Q == Reads(ts)
  <2> HIDE DEF R, Q, n
  <2>1. QED
    BY <1>1, <1>2, <1>7, SameInTime DEF R, Q, n
<1>11. Sound(ts, ticks)
  BY <1>5, <1>8, <1>9, <1>10 DEF Sound
<1>12. ASSUME NEW l \in Levels PROVE LevelSize(ts, l) = LevelSize(st, l)
  <2> DEFINE k == l + 1
  <2>1. l \in 0 .. NumberOfLevels /\ k \in 0 .. NumberOfLevels
    BY LevelsAssumption DEF Levels, MaxLevel
  <2>2. /\ LevelSize(ts, l) = FlatStart(ds, l) - FlatStart(ds, l + 1)
        /\ LevelSize(st, l) = FlatStart(cs, l) - FlatStart(cs, l + 1)
    BY <1>11, SoundFacts DEF cs
  <2>3. FlatStart(ds, l) = FlatStart(cs, l) /\ FlatStart(ds, k) = FlatStart(cs, k)
    <3> HIDE DEF k, ds
    <3>1. QED
      BY <1>5, <2>1
  <2>4. QED
    BY <2>2, <2>3
<1>13. QED
  BY <1>9, <1>11, <1>12 DEF ts, item

\* A restart reads back the same candles.
LEMMA SoundRestart ==
  ASSUME NEW ticks, NEW st, Sound(st, ticks)
  PROVE  LET ts == FromSnapshot(Snapshot(st.chunkSets))
         IN  /\ Sound(ts, ticks)
             /\ Size(ts) = Size(st)
             /\ \A l \in Levels : LevelSize(ts, l) = LevelSize(st, l)
<1> DEFINE cs == st.chunkSets
           ds == Snapshot(cs)
           ts == RebuildIndexMetadata(ds)
           n  == Size(st)
<1>1. n = Count(cs) /\ n \in Nat
  BY SoundFacts
<1>2. WellFormed(cs, Nat, Values) /\ st = RebuildIndexMetadata(cs)
      /\ HeadersRead(cs) /\ InTime(Reads(st), n, ticks)
  BY DEF Sound
<1> HIDE DEF cs
<1>3. /\ WellFormed(ds, Nat, Values) /\ HeadersRead(ds)
      /\ Count(ds) = Count(cs)
      /\ \A x : FlatStart(ds, x) = FlatStart(cs, x)
      /\ \A f \in 0 .. Count(cs) - 1 : Reads(ts)[f] = Reads(st)[f]
  BY <1>2, SnapshotHeaders
<1> HIDE DEF ds
<1>4. ts.chunkSets = ds
  BY RebuildFields
<1>5. Size(ts) = n
  BY <1>1, <1>3, SizeIs DEF Count
<1>6. InTime(Reads(ts), n, ticks)
  <2> DEFINE R == Reads(st)
             Q == Reads(ts)
  <2>1. InTime(R, n, ticks) /\ \A f \in 0 .. n - 1 : R[f] \in Candles
    BY <1>1, <1>2, CandleTimes
  <2>2. \A f \in 0 .. n - 1 : Q[f] = R[f]
    BY <1>1, <1>3
  <2> HIDE DEF R, Q, n
  <2>3. n \in Nat
    BY <1>1 DEF n
  <2>4. InTime(Q, n, ticks)
    BY <2>1, <2>2, <2>3, SameInTime
  <2>5. QED
    BY <2>4 DEF Q, n
<1>7. Sound(ts, ticks)
  <2> HIDE DEF ts
  <2>1. ts = RebuildIndexMetadata(ds)
    BY DEF ts
  <2>2. QED
    BY <1>3, <1>4, <1>5, <1>6, <2>1 DEF Sound
<1>8. ASSUME NEW l \in Levels PROVE LevelSize(ts, l) = LevelSize(st, l)
  <2> HIDE DEF ts
  <2>1. /\ LevelSize(ts, l) = FlatStart(ds, l) - FlatStart(ds, l + 1)
        /\ LevelSize(st, l) = FlatStart(cs, l) - FlatStart(cs, l + 1)
    BY <1>4, <1>7, SoundFacts DEF cs
  <2>2. QED
    BY <1>3, <2>1
<1>9. QED
  BY <1>5, <1>7, <1>8 DEF FromSnapshot, cs, ds

\* The item a level begins with after a deletion gives the deletion its time.
LEMMA SoundDelete ==
  ASSUME NEW ticks, NEW st, Sound(st, ticks), NEW lv \in Levels,
         NEW count \in Nat \ {0}, count <= LevelSize(st, lv)
  PROVE  LET t  == StartedAtAfterDelete(st, lv, count)
             ds == DeleteFromChunkSets(st.chunkSets, lv, count, t)
         IN  /\ Deleted(st.chunkSets, lv, count, t)
             /\ HeadersRead(ds)
             /\ DeleteNItems(st, lv, count, t) = RebuildIndexMetadata(ds)
<1> DEFINE cs   == st.chunkSets
           t    == StartedAtAfterDelete(st, lv, count)
           re   == RebuildIndexMetadata(cs)
           next == st.boundaries[lv] + count
           p    == FlatStart(cs, lv + 1)
           R    == Reads(st)
           n    == Size(st)
<1>1. /\ n \in Nat /\ p \in Nat /\ st.boundaries[lv] = p
      /\ LevelEnd(st, lv) \in Nat /\ LevelEnd(st, lv) <= n
      /\ LevelSize(st, lv) = LevelEnd(st, lv) - p
  BY SoundFacts DEF LevelSize
<1>2. WellFormed(cs, Nat, Values) /\ st = re /\ HeadersRead(cs) /\ InTime(R, n, ticks)
  BY DEF Sound
<1> HIDE DEF p, n, R
<1>3. CASE next < LevelEnd(st, lv)
  <2>1. next \in 0 .. n - 1 /\ next = p + count /\ next \in Nat
    BY <1>1, <1>3
  <2>2. t = R[next].startedAt
    <3>1. t = GetItem(st, next).startedAt
      BY <1>3 DEF StartedAtAfterDelete
    <3>2. QED
      BY <2>1, <3>1 DEF Reads, R
  <2>3. R[next].startedAt \in Nat
    BY <1>1, <1>2, <2>1, CandleTimes
  <2> HIDE DEF next, t, cs
  <2>4. t \in Nat /\ t = R[p + count].startedAt
    BY <2>1, <2>2, <2>3
  <2>5. Deleted(cs, lv, count, t)
    <3>1. count <= LevelSize(re, lv)
      BY <1>2
    <3>2. QED
      BY <1>2, <2>4, <3>1, DeletedItems
  <2>6. HeadersRead(DeleteFromChunkSets(cs, lv, count, t))
    <3>1. /\ count <= LevelSize(RebuildIndexMetadata(cs), lv)
          /\ t = Reads(RebuildIndexMetadata(cs))[FlatStart(cs, lv + 1) + count].startedAt
      BY <1>2, <2>4 DEF R, p
    <3>2. QED
      BY <1>2, <2>4, <3>1, DeleteHeaders
  <2>7. QED
    BY <1>2, <2>5, <2>6 DEF Deleted, cs, t
<1>4. CASE ~ (next < LevelEnd(st, lv))
  <2>1. count = LevelSize(st, lv)
    BY <1>1, <1>4
  <2> HIDE DEF next, t, cs
  <2>2. count = LevelSize(re, lv) /\ count <= LevelSize(re, lv)
    BY <1>2, <2>1
  <2>3. TrimCount(cs, lv, count) = 0
    BY <1>2, <2>2, WholeLevelGoes
  <2>4. Deleted(cs, lv, count, t)
    BY <1>2, <2>2, <2>3, DeletedItems
  <2>5. HeadersRead(DeleteFromChunkSets(cs, lv, count, t))
    BY <1>2, <2>2, <2>3, DeleteHeaders
  <2>6. QED
    BY <1>2, <2>4, <2>5 DEF Deleted, cs, t
<1>5. QED
  BY <1>3, <1>4

\* The highest level loses its oldest items.
LEMMA SoundTrim ==
  ASSUME NEW ticks \in SUBSET Nat, NEW st, Sound(st, ticks),
         NEW count \in Nat \ {0}, count <= LevelSize(st, MaxLevel)
  PROVE  LET t  == StartedAtAfterDelete(st, MaxLevel, count)
             ts == DeleteNItems(st, MaxLevel, count, t)
         IN  /\ Sound(ts, ticks)
             /\ st.boundaries[MaxLevel] = 0
             /\ count <= Size(st) /\ Size(ts) = Size(st) - count
             /\ \A l \in Levels :
                  LevelSize(ts, l) = IF l = MaxLevel THEN LevelSize(st, l) - count
                                                     ELSE LevelSize(st, l)
<1> DEFINE lv == MaxLevel
           cs == st.chunkSets
           t  == StartedAtAfterDelete(st, lv, count)
           ds == DeleteFromChunkSets(cs, lv, count, t)
           ts == DeleteNItems(st, lv, count, t)
           n  == Size(st)
           m  == n - count
           R  == Reads(st)
           Q  == Reads(ts)
<1>1. lv \in Levels /\ lv + 1 = NumberOfLevels /\ lv \in Nat
  BY LevelsAssumption DEF Levels, MaxLevel
<1>2. /\ n = Count(cs) /\ n \in Nat
      /\ FlatStart(cs, lv + 1) = 0 /\ st.boundaries[lv] = 0
  BY <1>1, SoundFacts
<1>3. WellFormed(cs, Nat, Values) /\ st = RebuildIndexMetadata(cs) /\ InTime(R, n, ticks)
  BY DEF Sound
<1> HIDE DEF lv
<1>4. Deleted(cs, lv, count, t) /\ HeadersRead(ds) /\ ts = RebuildIndexMetadata(ds)
  BY <1>1, SoundDelete DEF lv
<1> HIDE DEF t
<1>5. /\ WellFormed(ds, Nat, Values)
      /\ count <= n /\ Count(ds) = m
      /\ \A x \in 0 .. NumberOfLevels :
           FlatStart(ds, x) = IF x <= lv THEN FlatStart(cs, x) - count ELSE FlatStart(cs, x)
      /\ \A f \in 0 .. m - 1 : Q[f] = R[f + count]
  <2>1. /\ WellFormed(ds, Nat, Values)
        /\ 0 + count <= Count(cs) /\ Count(ds) = Count(cs) - count
        /\ \A x \in 0 .. NumberOfLevels :
             FlatStart(ds, x) = IF x <= lv THEN FlatStart(cs, x) - count
                                           ELSE FlatStart(cs, x)
        /\ \A f \in 0 .. Count(cs) - count - 1 :
             Q[f] = IF f < 0 THEN R[f] ELSE R[f + count]
    BY <1>2, <1>3, <1>4 DEF Deleted
  <2> HIDE DEF ds, ts, cs, Q, R
  <2>2. QED
    BY <1>2, <2>1
<1>6. m \in Nat
  BY <1>2, <1>5
<1> HIDE DEF ds, ts
<1>7. Size(ts) = m /\ ts.chunkSets = ds
  BY <1>4, <1>5, SizeIs, RebuildFields DEF Count
<1>8. InTime(Q, m, ticks)
  <2> HIDE DEF Q, R, n
  <2>1. n \in Nat /\ count \in Nat
    BY <1>2
  <2>2. m = n - count
    OBVIOUS
  <2> HIDE DEF m
  <2>3. QED
    BY <1>3, <1>5, <1>6, <2>1, <2>2, TrimInTime
<1>9. Sound(ts, ticks)
  BY <1>4, <1>5, <1>7, <1>8 DEF Sound
<1>10. ASSUME NEW l \in Levels
       PROVE  LevelSize(ts, l) = IF l = lv THEN LevelSize(st, l) - count
                                           ELSE LevelSize(st, l)
  <2> DEFINE k == l + 1
  <2>1. /\ l \in 0 .. NumberOfLevels /\ k \in 0 .. NumberOfLevels
        /\ l <= lv /\ l \in Nat /\ (k <= lv <=> l # lv)
    BY <1>1, LevelsAssumption DEF Levels, MaxLevel
  <2>2. /\ LevelSize(ts, l) = FlatStart(ds, l) - FlatStart(ds, l + 1)
        /\ LevelSize(st, l) = FlatStart(cs, l) - FlatStart(cs, l + 1)
        /\ FlatStart(cs, l) \in Nat /\ FlatStart(cs, l + 1) \in Nat
    BY <1>7, <1>9, SoundFacts
  <2>3. /\ FlatStart(ds, l) = IF l <= lv THEN FlatStart(cs, l) - count ELSE FlatStart(cs, l)
        /\ FlatStart(ds, k) = IF k <= lv THEN FlatStart(cs, k) - count ELSE FlatStart(cs, k)
    <3> HIDE DEF k, cs
    <3>1. QED
      BY <1>5, <2>1
  <2> HIDE DEF cs
  <2>4. QED
    BY <2>1, <2>2, <2>3
<1>11. QED
  BY <1>2, <1>5, <1>7, <1>9, <1>10 DEF ts, t, lv

\* Where the items are when the first ones of a level have gone up as one.
Moved(st, lv, count, candle) ==
  LET cs    == st.chunkSets
      start == st.boundaries[lv]
      t     == StartedAtAfterDelete(st, lv, count)
      left  == DeleteNItems(st, lv, count, t)
      ts    == AddItem(left, lv + 1, candle.startedAt, candle.endedAt, candle)
      es    == ts.chunkSets
  IN  /\ WellFormed(es, Nat, Values) /\ ts = RebuildIndexMetadata(es) /\ HeadersRead(es)
      /\ start \in Nat /\ start + count <= Size(st)
      /\ LevelEnd(left, lv + 1) = start
      /\ Size(ts) = Size(st) - count + 1
      /\ JoinedTo(Reads(st), Size(st), start, count, Reads(ts))
      /\ \A x \in 0 .. NumberOfLevels :
           FlatStart(es, x) = IF x <= lv THEN (FlatStart(cs, x) - count) + 1
                              ELSE IF x <= lv + 1 THEN FlatStart(cs, x) + 1
                              ELSE FlatStart(cs, x)

\* aggregateLevel moves the items of a bucket as Moved says.
LEMMA BucketMoves ==
  ASSUME NEW ticks \in SUBSET Nat, NEW st, Sound(st, ticks),
         NEW lv \in Levels, lv # MaxLevel,
         NEW count \in Nat \ {0}, count <= LevelSize(st, lv),
         NEW candle \in Candles,
         candle.startedAt = GetItem(st, st.boundaries[lv]).startedAt,
         candle.endedAt = GetItem(st, st.boundaries[lv] + count - 1).endedAt
  PROVE  Moved(st, lv, count, candle)
<1> DEFINE cs    == st.chunkSets
           start == st.boundaries[lv]
           last  == start + count - 1
           t     == StartedAtAfterDelete(st, lv, count)
           up    == lv + 1
           ds    == DeleteFromChunkSets(cs, lv, count, t)
           left  == DeleteNItems(st, lv, count, t)
           s     == candle.startedAt
           e     == candle.endedAt
           ts    == AddItem(left, up, s, e, candle)
           es    == ts.chunkSets
           n     == Size(st)
           m     == n - count + 1
           R     == Reads(st)
           P     == Reads(left)
           Q     == Reads(ts)
<1>1. lv \in Nat /\ up \in Levels /\ up \in 0 .. NumberOfLevels
  BY LevelsAssumption DEF Levels, MaxLevel
<1>2. n = Count(cs) /\ n \in Nat /\ FlatStart(cs, up) = start /\ start \in Nat
  BY SoundFacts
<1>3. WellFormed(cs, Nat, Values) /\ st = RebuildIndexMetadata(cs) /\ InTime(R, n, ticks)
  BY DEF Sound
<1>4. candle \in Values /\ s \in Nat /\ e \in Nat
  BY DEF Candles, Values
<1>5. Deleted(cs, lv, count, t) /\ HeadersRead(ds) /\ left = RebuildIndexMetadata(ds)
  BY SoundDelete
<1> HIDE DEF t, s, e
<1>6. /\ WellFormed(ds, Nat, Values)
      /\ start + count <= n /\ Count(ds) = n - count
      /\ \A x \in 0 .. NumberOfLevels :
           FlatStart(ds, x) = IF x <= lv THEN FlatStart(cs, x) - count ELSE FlatStart(cs, x)
      /\ \A f \in 0 .. n - count - 1 : P[f] = IF f < start THEN R[f] ELSE R[f + count]
  BY <1>2, <1>3, <1>5 DEF Deleted
<1> HIDE DEF ds, left
<1>7. FlatStart(ds, up) = start
  <2>1. ~ (up <= lv)
    BY <1>1
  <2> HIDE DEF up, start
  <2>2. QED
    BY <1>1, <1>2, <1>6, <2>1
<1>8. LevelEnd(left, up) = start
  BY <1>1, <1>5, <1>6, <1>7, FlatStartFacts
<1> HIDE DEF up
<1>9. Added(ds, up, s, e, candle)
  BY <1>1, <1>4, <1>6, AddedItem
<1>10. /\ WellFormed(es, Nat, Values) /\ ts = RebuildIndexMetadata(es)
       /\ Count(es) = m
       /\ \A x \in 0 .. NumberOfLevels :
            FlatStart(es, x) = IF x <= up THEN FlatStart(ds, x) + 1 ELSE FlatStart(ds, x)
       /\ \A f \in 0 .. n - count : Q[f] = IF f < start THEN P[f]
                                           ELSE IF f = start THEN candle ELSE P[f - 1]
  <2> HIDE DEF start, n
  <2>1. QED
    BY <1>5, <1>6, <1>7, <1>9 DEF Added
<1>11. HeadersRead(es)
  <2>1. HeadersRead(AddItem(RebuildIndexMetadata(ds), up, candle.startedAt,
                            candle.endedAt, candle).chunkSets)
    BY <1>1, <1>5, <1>6, AddHeaders
  <2>2. QED
    BY <1>5, <2>1 DEF s, e
<1> HIDE DEF ts
<1>12. Size(ts) = m
  BY <1>10, SizeIs DEF Count
<1>13. \A f \in 0 .. m - 1 : Q[f] = IF f < start THEN R[f]
                                    ELSE IF f = start THEN Q[start]
                                    ELSE R[f + count - 1]
  <2>1. ASSUME NEW f \in 0 .. m - 1
        PROVE  Q[f] = IF f < start THEN R[f]
                      ELSE IF f = start THEN Q[start] ELSE R[f + count - 1]
    <3>1. Q[f] = IF f < start THEN P[f] ELSE IF f = start THEN candle ELSE P[f - 1]
      BY <1>2, <1>6, <1>10
    <3> HIDE DEF P, Q, R, start, n
    <3>2. CASE f < start
      <4>1. f \in 0 .. n - count - 1
        BY <1>2, <1>6, <3>2
      <4>2. QED
        BY <1>6, <3>1, <3>2, <4>1
    <3>3. CASE f = start
      BY <1>2, <3>3
    <3>4. CASE f > start
      <4> DEFINE g == f - 1
      <4>1. g \in 0 .. n - count - 1 /\ ~ (g < start) /\ g + count = f + count - 1
        BY <1>2, <1>6, <3>4
      <4>2. Q[f] = P[g]
        BY <1>2, <3>1, <3>4
      <4> HIDE DEF g
      <4>3. P[g] = R[g + count]
        BY <1>6, <4>1
      <4>4. QED
        BY <1>2, <3>4, <4>1, <4>2, <4>3
    <3>5. QED
      BY <1>2, <3>2, <3>3, <3>4
  <2>2. QED
    BY <2>1
<1>14. /\ Q[start] = candle
       /\ R[start].startedAt = candle.startedAt /\ R[last].endedAt = candle.endedAt
  <2>1. start \in 0 .. n - count /\ start \in Nat /\ last \in Nat
    BY <1>2, <1>6
  <2>2. Q[start] = candle
    <3> HIDE DEF Q, P, start, n
    <3>1. QED
      BY <1>2, <1>10, <2>1
  <2>3. R[start] = GetItem(st, start) /\ R[last] = GetItem(st, last)
    <3> HIDE DEF start, last
    <3>1. QED
      BY <2>1 DEF Reads
  <2>4. QED
    BY <2>2, <2>3
<1>15. JoinedTo(R, n, start, count, Q)
  <2>1. count \in Nat /\ count >= 1 /\ m - 1 = n - count
    BY <1>2, <1>6
  <2> HIDE DEF Q, R, start, n
  <2>2. \A f \in 0 .. n - count : Q[f] = IF f < start THEN R[f]
                                         ELSE IF f = start THEN Q[start]
                                         ELSE R[f + count - 1]
    BY <1>13, <2>1
  <2>3. QED
    BY <1>2, <1>6, <1>14, <2>1, <2>2 DEF JoinedTo
<1>16. \A x \in 0 .. NumberOfLevels :
         FlatStart(es, x) = IF x <= lv THEN (FlatStart(cs, x) - count) + 1
                            ELSE IF x <= up THEN FlatStart(cs, x) + 1
                            ELSE FlatStart(cs, x)
  <2>1. \A x \in 0 .. NumberOfLevels : x <= lv => x <= up
    BY <1>1 DEF up
  <2> HIDE DEF cs, es
  <2>2. QED
    BY <1>6, <1>10, <2>1
<1>17. QED
  BY <1>2, <1>6, <1>8, <1>10, <1>11, <1>12, <1>15, <1>16 DEF Moved, ts, left, t, s, e, up

\* The first items of a level go up as one.
LEMMA SoundBucket ==
  ASSUME NEW ticks \in SUBSET Nat, NEW st, Sound(st, ticks),
         NEW lv \in Levels, lv # MaxLevel,
         NEW count \in Nat \ {0}, count <= LevelSize(st, lv),
         NEW candle \in Candles,
         candle.startedAt = GetItem(st, st.boundaries[lv]).startedAt,
         candle.endedAt = GetItem(st, st.boundaries[lv] + count - 1).endedAt
  PROVE  LET start == st.boundaries[lv]
             t     == StartedAtAfterDelete(st, lv, count)
             left  == DeleteNItems(st, lv, count, t)
             ts    == AddItem(left, lv + 1, candle.startedAt, candle.endedAt, candle)
         IN  /\ Sound(ts, ticks)
             /\ start \in Nat /\ start + count <= Size(st)
             /\ LevelEnd(left, lv + 1) = start
             /\ Size(ts) = Size(st) - count + 1
             /\ \A l \in Levels : l < lv => LevelSize(ts, l) = LevelSize(st, l)
<1> DEFINE cs    == st.chunkSets
           start == st.boundaries[lv]
           t     == StartedAtAfterDelete(st, lv, count)
           left  == DeleteNItems(st, lv, count, t)
           ts    == AddItem(left, lv + 1, candle.startedAt, candle.endedAt, candle)
           es    == ts.chunkSets
           n     == Size(st)
           m     == n - count + 1
           R     == Reads(st)
           Q     == Reads(ts)
<1>1. /\ WellFormed(es, Nat, Values) /\ ts = RebuildIndexMetadata(es) /\ HeadersRead(es)
      /\ start \in Nat /\ start + count <= n
      /\ LevelEnd(left, lv + 1) = start
      /\ Size(ts) = m
      /\ JoinedTo(R, n, start, count, Q)
      /\ \A x \in 0 .. NumberOfLevels :
           FlatStart(es, x) = IF x <= lv THEN (FlatStart(cs, x) - count) + 1
                              ELSE IF x <= lv + 1 THEN FlatStart(cs, x) + 1
                              ELSE FlatStart(cs, x)
  <2>1. Moved(st, lv, count, candle)
    BY BucketMoves
  <2>2. QED
    BY <2>1 DEF Moved
<1> HIDE DEF ts, left
<1>2. n \in Nat /\ InTime(R, n, ticks)
  BY SoundFacts DEF Sound
<1>3. InTime(Q, m, ticks)
  <2>1. JoinedTo(R, n, start, count, Q)
    BY <1>1
  <2> HIDE DEF Q, R, start, n
  <2>2. QED
    BY <1>2, <2>1, JoinInTime
<1>4. Sound(ts, ticks)
  BY <1>1, <1>3 DEF Sound
<1>5. ASSUME NEW l \in Levels, l < lv PROVE LevelSize(ts, l) = LevelSize(st, l)
  <2> DEFINE k == l + 1
  <2>1. l \in 0 .. NumberOfLevels /\ k \in 0 .. NumberOfLevels /\ l <= lv /\ k <= lv
    BY <1>5, LevelsAssumption DEF Levels, MaxLevel
  <2>2. /\ LevelSize(ts, l) = FlatStart(es, l) - FlatStart(es, l + 1)
        /\ LevelSize(st, l) = FlatStart(cs, l) - FlatStart(cs, l + 1)
        /\ FlatStart(cs, l) \in Nat /\ FlatStart(cs, l + 1) \in Nat
    BY <1>4, SoundFacts
  <2>3. /\ FlatStart(es, l) = (FlatStart(cs, l) - count) + 1
        /\ FlatStart(es, k) = (FlatStart(cs, k) - count) + 1
    <3> HIDE DEF k, cs, es
    <3>1. QED
      BY <1>1, <2>1
  <2> HIDE DEF cs, es
  <2>4. QED
    BY <2>2, <2>3
<1>6. QED
  BY <1>1, <1>4, <1>5 DEF ts, left

\* Candles in time make chunk sets that a snapshot may have.
LEMMA SnapshotsAccepted ==
  ASSUME NEW ticks \in SUBSET Nat, NEW cs, WellFormed(cs, Nat, Values), HeadersRead(cs),
         InTime(Reads(RebuildIndexMetadata(cs)), Count(cs), ticks)
  PROVE  SnapshotOK(cs)
<1> DEFINE N == Len(cs)
           S == SizeSums(cs)
           R == Reads(RebuildIndexMetadata(cs))
           n == Count(cs)
<1>1. /\ N \in Nat /\ DOMAIN cs = 1 .. N
      /\ \A i \in 1 .. N : GeometryOK(cs[i]) /\ cs[i].level \in Int
      /\ \A i, j \in 1 .. N : i < j => cs[i].level >= cs[j].level
  BY ChunkSetFacts DEF WellFormed, LevelsDescend
<1>2. /\ n \in Nat
      /\ \A i \in 0 .. N : S[i] \in Nat /\ S[i] <= n
      /\ \A i, j \in 0 .. N : i < j => S[i] < S[j]
  BY SumFacts
<1>3. \A i \in 1 .. N : /\ cs[i].startedAt = R[S[i - 1]].startedAt
                        /\ cs[i].endedAt = R[S[i] - 1].endedAt
  BY DEF HeadersRead
<1>4. /\ \A f \in 0 .. n - 1 : /\ R[f].startedAt \in Nat /\ R[f].endedAt \in Nat
                               /\ R[f].startedAt <= R[f].endedAt
      /\ \A f, g \in 0 .. n - 1 : f < g => R[f].endedAt < R[g].startedAt
  BY <1>2, CandleTimes DEF InTime
<1> HIDE DEF N, S, R, n
<1>5. ASSUME NEW i \in 1 .. N
      PROVE  /\ S[i - 1] \in 0 .. n - 1 /\ S[i] - 1 \in 0 .. n - 1
             /\ S[i - 1] <= S[i] - 1
  <2>1. i - 1 \in 0 .. N /\ i \in 0 .. N /\ i - 1 < i
    BY <1>1
  <2>2. S[i - 1] \in Nat /\ S[i] \in Nat /\ S[i - 1] < S[i] /\ S[i] <= n
    BY <1>2, <2>1
  <2>3. QED
    BY <1>2, <2>2
<1>6. ASSUME NEW i \in 1 .. N
      PROVE  /\ cs[i].startedAt <= cs[i].endedAt
             /\ cs[i].startedAt \in Nat /\ cs[i].endedAt \in Nat
  <2> DEFINE f == S[i - 1]
             g == S[i] - 1
  <2>1. f \in 0 .. n - 1 /\ g \in 0 .. n - 1 /\ f <= g
    BY <1>5
  <2>2. cs[i].startedAt = R[f].startedAt /\ cs[i].endedAt = R[g].endedAt
    BY <1>3
  <2> HIDE DEF f, g
  <2>3. f = g \/ f < g
    BY <2>1
  <2>4. QED
    BY <1>4, <2>1, <2>2, <2>3
<1>7. ASSUME NEW i \in 2 .. N
      PROVE  /\ cs[i].level <= cs[i - 1].level
             /\ cs[i].startedAt > cs[i - 1].startedAt
             /\ cs[i].startedAt > cs[i - 1].endedAt
  <2> DEFINE h == i - 1
  <2>1. i \in 1 .. N /\ h \in 1 .. N /\ h < i
    BY <1>1
  <2> HIDE DEF h
  <2>2. cs[i].level <= cs[h].level
    BY <1>1, <2>1
  <2>3. cs[i].startedAt > cs[h].endedAt
    <3> DEFINE f == S[h] - 1
               g == S[i - 1]
    <3>1. f \in 0 .. n - 1 /\ g \in 0 .. n - 1 /\ f < g
      <4>1. S[h] - 1 \in 0 .. n - 1 /\ S[i - 1] \in 0 .. n - 1
        BY <1>5, <2>1
      <4>2. S[i - 1] = S[h]
        BY DEF h
      <4>3. QED
        BY <1>2, <4>1, <4>2
    <3>2. cs[i].startedAt = R[g].startedAt /\ cs[h].endedAt = R[f].endedAt
      BY <1>3, <2>1
    <3> HIDE DEF f, g
    <3>3. R[f].endedAt < R[g].startedAt
      BY <1>4, <3>1
    <3>4. R[f].endedAt \in Nat /\ R[g].startedAt \in Nat
      BY <1>4, <3>1
    <3>5. QED
      BY <3>2, <3>3, <3>4
  <2>4. cs[h].startedAt <= cs[h].endedAt
    BY <1>6, <2>1
  <2>5. /\ cs[h].startedAt \in Nat /\ cs[h].endedAt \in Nat /\ cs[i].startedAt \in Nat
    BY <1>6, <2>1
  <2>6. QED
    BY <2>2, <2>3, <2>4, <2>5 DEF h
<1>8. QED
  BY <1>1, <1>6, <1>7 DEF SnapshotOK, ChunkSetOrderOK, N

\* What the runs check of a storage.
LEMMA SoundMeans ==
  ASSUME Sound(storage, accepted), accepted \subseteq Nat
  PROVE  /\ TicksAccountedFor
         /\ HeadersMatchItems
         /\ SnapshotOK(Snapshot(storage.chunkSets))
         /\ MetadataCurrent
<1> DEFINE cs == storage.chunkSets
           n  == Size(storage)
           R  == Reads(storage)
           items == Items(storage)
<1>1. /\ WellFormed(cs, Nat, Values) /\ storage = RebuildIndexMetadata(cs)
      /\ HeadersRead(cs) /\ InTime(R, n, accepted)
  BY DEF Sound
<1>2. /\ n = Count(cs) /\ n \in Nat
      /\ cs = <<>> <=> n = 0
      /\ cs # <<>> => StartedAt(storage) = R[0].startedAt
  BY SoundFacts
<1>3. DOMAIN items = 1 .. n /\ \A i \in 1 .. n : i - 1 \in 0 .. n - 1 /\ items[i] = R[i - 1]
  BY <1>2 DEF Items, Reads
<1>4. TicksAccountedFor
  <2> HIDE DEF items, n, R, cs
  <2>1. \A f \in 0 .. n - 1 : R[f].startedAt \in accepted /\ R[f].endedAt \in accepted
    BY <1>1, <1>2, CandleTimes
  <2>2. \A f, g \in 0 .. n - 1 : f < g => R[f].endedAt < R[g].startedAt
    BY <1>1 DEF InTime
  <2>3. \A i \in DOMAIN items : {items[i].startedAt, items[i].endedAt} \subseteq accepted
    BY <1>3, <2>1
  <2>4. ASSUME NEW i \in DOMAIN items, NEW j \in DOMAIN items, i < j
        PROVE  items[i].endedAt < items[j].startedAt
    <3> DEFINE f == i - 1
               g == j - 1
    <3>1. f \in 0 .. n - 1 /\ g \in 0 .. n - 1 /\ f < g /\ items[i] = R[f] /\ items[j] = R[g]
      BY <1>2, <1>3, <2>4
    <3> HIDE DEF f, g
    <3>2. QED
      BY <2>2, <3>1
  <2>5. ASSUME NEW t \in accepted, cs # <<>>, t >= StartedAt(storage)
        PROVE  \E i \in DOMAIN items : items[i].startedAt <= t /\ t <= items[i].endedAt
    <3>1. n > 0 /\ t >= R[0].startedAt
      BY <1>2, <2>5
    <3>2. Covers(R, n, t)
      BY <1>1, <3>1 DEF InTime
    <3>3. PICK f \in 0 .. n - 1 : R[f].startedAt <= t /\ t <= R[f].endedAt
      BY <3>2 DEF Covers
    <3> DEFINE i == f + 1
    <3>4. i \in 1 .. n /\ i - 1 = f
      BY <1>2
    <3> HIDE DEF i
    <3>5. i \in DOMAIN items /\ items[i] = R[f]
      BY <1>3, <3>4
    <3>6. QED
      BY <3>3, <3>5
  <2>6. QED
    BY <2>3, <2>4, <2>5 DEF TicksAccountedFor, items, cs
<1>5. HeadersMatchItems
  <2>1. DOMAIN cs = 1 .. Len(cs)
    BY <1>1, ChunkSetFacts
  <2> HIDE DEF cs
  <2>2. ASSUME NEW i \in DOMAIN cs
        PROVE  /\ cs[i].startedAt = cs[i].items[cs[i].start].startedAt
               /\ cs[i].endedAt = cs[i].items[cs[i].end - 1].endedAt
    BY <1>1, <2>1, HeadersHold
  <2>3. QED
    BY <2>2 DEF HeadersMatchItems, cs
<1>6. SnapshotOK(Snapshot(cs))
  <2> DEFINE ds == Snapshot(cs)
             Q  == Reads(RebuildIndexMetadata(ds))
  <2> HIDE DEF cs
  <2>1. /\ WellFormed(ds, Nat, Values) /\ HeadersRead(ds) /\ Count(ds) = Count(cs)
        /\ \A f \in 0 .. Count(cs) - 1 : Q[f] = Reads(RebuildIndexMetadata(cs))[f]
    BY <1>1, SnapshotHeaders
  <2> HIDE DEF ds
  <2>2. InTime(Q, n, accepted)
    <3>1. \A f \in 0 .. n - 1 : Q[f] = R[f] /\ R[f] \in Candles
      BY <1>1, <1>2, <2>1, CandleTimes
    <3> HIDE DEF Q, R, n
    <3>2. n \in Nat
      BY <1>2
    <3>3. QED
      BY <1>1, <3>1, <3>2, SameInTime
  <2>3. QED
    BY <1>2, <2>1, <2>2, SnapshotsAccepted DEF ds
<1>7. MetadataCurrent
  BY <1>1 DEF MetadataCurrent
<1>8. QED
  BY <1>4, <1>5, <1>6, <1>7

-----------------------------------------------------------------------------
(* Changed items.                                                          *)

\* Indexes of a list that loses count items at index.
LEMMA ShiftedDown ==
  ASSUME NEW n \in Nat, NEW S \in SUBSET (0 .. n - 1), NEW index \in Nat,
         NEW count \in Nat, index + count <= n
  PROVE  CS!ShiftDown(S, index, count) \subseteq 0 .. n - count - 1
BY DEF CS!ShiftDown

\* Indexes of a list that gets an item at index.
LEMMA ShiftedUp ==
  ASSUME NEW n \in Nat, NEW S \in SUBSET (0 .. n - 1), NEW at \in 0 .. n
  PROVE  CS!ShiftUp(S, at) \cup {at} \subseteq 0 .. n
BY DEF CS!ShiftUp

\* A bucket has at least one item and no more than its level.
LEMMA BucketInLevel ==
  ASSUME NEW st, NEW start, NEW count \in Nat \ {0}, NEW duration
  PROVE  FirstBucketCount(st, start, count, duration) \in 1 .. count
<1> DEFINE startedAt == GetItem(st, start).startedAt
           Missed(b) == Distance(GetItem(st, start + b - 1).endedAt - startedAt, duration)
           S == {b \in 1 .. count : b = count \/ Missed(b + 1) >= Missed(b)}
<1>1. S \in SUBSET Nat /\ S # {} /\ S \subseteq 1 .. count
  OBVIOUS
<1>2. FirstBucketCount(st, start, count, duration) = Min(S)
  BY DEF FirstBucketCount
<1> HIDE DEF S
<1>3. Min(S) \in S
  BY <1>1, MinIsLeast
<1>4. QED
  BY <1>1, <1>2, <1>3

-----------------------------------------------------------------------------
(* The invariant.                                                          *)

\* The values the variables can have: an interval of changed items is one of
\* the storage's.
Shapes ==
  /\ phase \in {"idle", "recalculate", "aggregate", "emit"}
  /\ level \in Levels
  /\ aggregated \in BOOLEAN
  /\ now \in Nat \ {0}
  /\ accepted \subseteq 1 .. MaxTime
  /\ \A t \in accepted : t <= now
  /\ changed \subseteq 0 .. Size(storage) - 1

\* Below the level aggregation is at no level is full, and when the highest
\* has had its turn none holds too much.
Settled ==
  /\ \A l \in Levels :
       l # MaxLevel /\ (l < level \/ phase \in {"emit", "idle"})
         => LevelSize(storage, l) < MaxCount[l]
  /\ phase \in {"emit", "idle"} => LevelSize(storage, MaxLevel) <= MaxCount[MaxLevel]

\* The inductive invariant.
TickInv ==
  /\ Shapes
  /\ Sound(storage, accepted)
  /\ Settled

\* The invariant has what the run checks.
LEMMA TickInvImplies ==
  ASSUME TickInv
  PROVE  StorageSound /\ TicksAccountedFor
<1>1. Sound(storage, accepted) /\ accepted \subseteq Nat
  BY MaxTimeAssumption DEF TickInv, Shapes
<1>2. /\ TicksAccountedFor /\ HeadersMatchItems
      /\ SnapshotOK(Snapshot(storage.chunkSets)) /\ MetadataCurrent
  BY <1>1, SoundMeans
<1>3. TypeOK
  BY DEF TickInv, Shapes, TypeOK
<1>4. LevelsBounded
  BY DEF TickInv, Settled, LevelsBounded
<1>5. QED
  BY <1>2, <1>3, <1>4 DEF StorageSound, SnapshotAccepted

\* An empty storage has the invariant.
LEMMA TickInvInit ==
  ASSUME Init
  PROVE  TickInv
<1>1. Shapes
  <2>1. 0 \in Levels
    BY LevelsAssumption DEF Levels, MaxLevel
  <2>2. phase = "idle" /\ level = 0 /\ aggregated = FALSE /\ now = 1
    BY DEF Init
  <2>3. accepted = {} /\ changed = {}
    BY DEF Init
  <2>4. now \in Nat \ {0} /\ accepted \subseteq 1 .. MaxTime
        /\ \A t \in accepted : t <= now
    BY <2>2, <2>3
  <2>5. changed \subseteq 0 .. Size(storage) - 1
    BY <2>3
  <2>6. QED
    BY <2>1, <2>2, <2>4, <2>5 DEF Shapes
<1>2. Sound(storage, accepted)
  BY SoundEmpty DEF Init
<1>3. Settled
  <2>1. MaxLevel \in Levels
    BY LevelsAssumption DEF Levels, MaxLevel
  <2>2. \A l \in Levels : LevelSize(storage, l) = 0 /\ MaxCount[l] \in Nat \ {0}
    BY SoundEmpty, MaxCountAssumption DEF Init
  <2>3. QED
    BY <2>1, <2>2 DEF Settled
<1>4. QED
  BY <1>1, <1>2, <1>3 DEF TickInv

\* A tick is added, or dropped as a duplicate.
LEMMA ReceiveTickKeeps ==
  ASSUME TickInv, NEW gap \in Gaps, ReceiveTick(gap)
  PROVE  TickInv'
<1> DEFINE time == now + gap
<1>1. /\ phase = "idle" /\ now' = time /\ time <= MaxTime
      /\ time \in Nat \ {0} /\ now <= time /\ time \in 1 .. MaxTime
  <2>1. gap \in Nat /\ now \in Nat \ {0} /\ MaxTime \in Nat
    BY GapsAssumption, MaxTimeAssumption DEF TickInv, Shapes
  <2>2. phase = "idle" /\ now' = time /\ time <= MaxTime
    BY DEF ReceiveTick
  <2>3. QED
    BY <2>1, <2>2
<1>2. /\ accepted \subseteq 1 .. MaxTime /\ \A t \in accepted : t \in Nat /\ t <= now
      /\ level \in Levels /\ aggregated \in BOOLEAN
      /\ changed \subseteq 0 .. Size(storage) - 1
      /\ now \in Nat /\ Sound(storage, accepted) /\ Settled
  BY MaxTimeAssumption DEF TickInv, Shapes
<1> HIDE DEF time
<1>3. CASE EndedAt(storage) = time
  <2>1. UNCHANGED <<storage, phase, level, aggregated, deltaVars, accepted>>
    BY <1>1, <1>3 DEF ReceiveTick
  <2>2. Shapes'
    BY <1>1, <1>2, <2>1 DEF Shapes, deltaVars
  <2>3. Sound(storage, accepted)' /\ Settled'
    BY <1>2, <2>1 DEF Settled
  <2>4. QED
    BY <2>2, <2>3 DEF TickInv
<1>4. CASE EndedAt(storage) # time
  <2>1. /\ storage' = AddItem(storage, 0, time, time, Candle(time, time))
        /\ changed' = {Size(storage)} /\ phase' = "recalculate" /\ level' = 0
        /\ aggregated' = FALSE /\ accepted' = accepted \cup {time}
    BY <1>1, <1>4 DEF ReceiveTick
  <2>2. /\ Sound(storage', accepted \cup {time})
        /\ Size(storage') = Size(storage) + 1
    <3> DEFINE c  == Candle(time, time)
               ts == AddItem(storage, 0, time, time, c)
    <3>1. accepted \in SUBSET Nat /\ \A t \in accepted : t <= time
      BY <1>1, <1>2
    <3>2. Sound(ts, accepted \cup {time}) /\ Size(ts) = Size(storage) + 1
      BY <1>1, <1>2, <1>4, <3>1, SoundTick
    <3>3. QED
      BY <2>1, <3>2
  <2>3. Size(storage) \in Nat
    BY <1>2, SoundFacts
  <2>4. Shapes'
    <3>1. changed' \subseteq 0 .. Size(storage') - 1
      BY <2>1, <2>2, <2>3
    <3>2. 0 \in Levels
      BY LevelsAssumption DEF Levels, MaxLevel
    <3>3. accepted' \subseteq 1 .. MaxTime /\ \A t \in accepted' : t <= time
      BY <1>1, <1>2, <2>1
    <3>4. QED
      BY <1>1, <2>1, <3>1, <3>2, <3>3 DEF Shapes
  <2>5. Settled'
    <3>1. \A l \in Levels : ~ (l < 0)
      BY DEF Levels
    <3>2. QED
      BY <2>1, <3>1 DEF Settled
  <2>6. QED
    BY <2>1, <2>2, <2>4, <2>5 DEF TickInv
<1>5. QED
  BY <1>3, <1>4

\* Recalculation goes on to aggregation, with at most one value rewritten.
LEMMA RecalculationKeeps ==
  ASSUME TickInv,
         RecalculateNothing \/ \E i \in 0 .. Size(storage) - 1 : RecalculateItem(i)
  PROVE  TickInv'
<1>1. /\ Shapes /\ Sound(storage, accepted) /\ Settled
      /\ phase = "recalculate" /\ phase' = "aggregate"
      /\ level' = level /\ aggregated' = aggregated /\ now' = now /\ accepted' = accepted
  BY DEF TickInv, RecalculateNothing, RecalculateItem, Recalculate
<1>2. /\ Sound(storage', accepted) /\ Size(storage') = Size(storage)
      /\ \A l \in Levels : LevelSize(storage', l) = LevelSize(storage, l)
      /\ changed' \subseteq 0 .. Size(storage) - 1
  <2>1. CASE RecalculateNothing
    BY <1>1, <2>1 DEF RecalculateNothing, Shapes
  <2>2. ASSUME NEW i \in 0 .. Size(storage) - 1, RecalculateItem(i)
        PROVE  /\ Sound(storage', accepted) /\ Size(storage') = Size(storage)
               /\ \A l \in Levels : LevelSize(storage', l) = LevelSize(storage, l)
               /\ changed' \subseteq 0 .. Size(storage) - 1
    <3> DEFINE ts == SetItem(storage, i, [GetItem(storage, i) EXCEPT !.value = 1 - @])
    <3>1. storage' = ts /\ changed' = changed \cup {i}
      BY <2>2 DEF RecalculateItem
    <3>2. /\ Sound(ts, accepted) /\ Size(ts) = Size(storage)
          /\ \A l \in Levels : LevelSize(ts, l) = LevelSize(storage, l)
      BY <1>1, SoundRewrite
    <3> HIDE DEF ts
    <3>3. QED
      BY <1>1, <3>1, <3>2 DEF Shapes
  <2>3. QED
    BY <2>1, <2>2
<1>3. Shapes'
  BY <1>1, <1>2 DEF Shapes
<1>4. Settled'
  <2>1. \A l \in Levels : l # MaxLevel /\ l < level => LevelSize(storage, l) < MaxCount[l]
    BY <1>1 DEF Settled
  <2>2. QED
    BY <1>1, <1>2, <2>1 DEF Settled
<1>5. QED
  BY <1>1, <1>2, <1>3, <1>4 DEF TickInv

\* A full level gives up a bucket.
LEMMA AggregateBucketKeeps ==
  ASSUME TickInv, AggregateBucket
  PROVE  TickInv'
<1> DEFINE st     == storage
           n      == Size(st)
           size   == LevelSize(st, level)
           start  == st.boundaries[level]
           bucket == FirstBucketCount(st, start, size, Duration[level + 1])
           from   == GetItem(st, start).startedAt
           to     == GetItem(st, start + bucket - 1).endedAt
           candle == IF bucket = 1 THEN [GetItem(st, start) EXCEPT !.value = 0]
                                   ELSE Candle(from, to)
           t      == StartedAtAfterDelete(st, level, bucket)
           left   == DeleteNItems(st, level, bucket, t)
           at     == LevelEnd(left, level + 1)
           ts     == AddItem(left, level + 1, from, to, candle)
<1>1. /\ Shapes /\ Sound(st, accepted) /\ Settled
      /\ accepted \in SUBSET Nat
  BY MaxTimeAssumption DEF TickInv, Shapes
<1>2. /\ phase = "aggregate" /\ level < MaxLevel /\ size >= MaxCount[level]
      /\ storage' = ts
      /\ changed' = CS!ShiftUp(CS!ShiftDown(changed, start, bucket), at) \cup {at}
      /\ aggregated' = TRUE /\ phase' = phase /\ level' = level
      /\ now' = now /\ accepted' = accepted
  BY DEF AggregateBucket
<1>3. level \in Levels /\ level # MaxLevel /\ level \in Nat
  BY <1>1, <1>2, LevelsAssumption DEF Shapes, Levels, MaxLevel
<1>4. /\ n \in Nat /\ start \in Nat /\ size \in Nat /\ start + size <= n
      /\ size \in Nat \ {0}
  <2>1. /\ n \in Nat /\ start \in Nat /\ size \in Nat
        /\ LevelEnd(st, level) \in Nat /\ LevelEnd(st, level) <= n
        /\ size = LevelEnd(st, level) - start
    BY <1>1, <1>3, SoundFacts DEF LevelSize
  <2>2. MaxCount[level] \in Nat \ {0}
    BY <1>3, MaxCountAssumption
  <2> HIDE DEF n, start, size
  <2>3. QED
    BY <1>2, <2>1, <2>2
<1>5. bucket \in 1 .. size
  <2> HIDE DEF start, size
  <2>1. QED
    BY <1>4, BucketInLevel
<1> HIDE DEF bucket
<1>6. bucket \in Nat \ {0} /\ bucket <= size /\ start + bucket <= n
  <2> HIDE DEF start, size, n
  <2>1. QED
    BY <1>4, <1>5
<1>7. candle \in Candles /\ candle.startedAt = from /\ candle.endedAt = to
  <2>1. start \in 0 .. n - 1 /\ start + bucket - 1 \in 0 .. n - 1
    <3> HIDE DEF start, size, n
    <3>1. QED
      BY <1>4, <1>6
  <2>2. \A f \in 0 .. n - 1 : GetItem(st, f) \in Candles
    <3>1. \A f \in 0 .. n - 1 : Reads(st)[f] \in Candles
      BY <1>1, <1>4, CandleTimes DEF Sound
    <3>2. \A f \in 0 .. n - 1 : Reads(st)[f] = GetItem(st, f)
      BY <1>4 DEF Reads
    <3>3. QED
      BY <3>1, <3>2
  <2>3. GetItem(st, start) \in Candles /\ GetItem(st, start + bucket - 1) \in Candles
    <3> HIDE DEF start, n, st
    <3>1. QED
      BY <2>1, <2>2
  <2> DEFINE first == GetItem(st, start)
  <2>4. bucket = 1 => start + bucket - 1 = start
    <3> HIDE DEF start
    <3>1. QED
      BY <1>4
  <2>5. CASE bucket = 1
    <3>1. candle = [first EXCEPT !.value = 0] /\ to = first.endedAt /\ from = first.startedAt
      BY <2>4, <2>5
    <3> HIDE DEF candle, from, to, first
    <3>2. first \in Candles
      BY <2>3 DEF first
    <3>3. QED
      BY <3>1, <3>2 DEF Candles
  <2>6. CASE bucket # 1
    <3>1. candle = Candle(from, to) /\ from \in Nat /\ to \in Nat
      BY <2>3, <2>6 DEF Candles
    <3> HIDE DEF candle, from, to
    <3>2. QED
      BY <3>1 DEF Candle, Candles
  <2>7. QED
    BY <2>5, <2>6
<1>8. /\ Sound(ts, accepted)
      /\ at = start /\ Size(ts) = n - bucket + 1
      /\ \A l \in Levels : l < level => LevelSize(ts, l) = LevelSize(st, l)
  <2> HIDE DEF candle
  <2>1. /\ candle.startedAt = GetItem(st, st.boundaries[level]).startedAt
        /\ candle.endedAt = GetItem(st, st.boundaries[level] + bucket - 1).endedAt
    BY <1>7
  <2> DEFINE us == AddItem(left, level + 1, candle.startedAt, candle.endedAt, candle)
  <2>2. /\ Sound(us, accepted)
        /\ at = start /\ Size(us) = n - bucket + 1
        /\ \A l \in Levels : l < level => LevelSize(us, l) = LevelSize(st, l)
    BY <1>1, <1>3, <1>6, <1>7, <2>1, SoundBucket
  <2>3. us = ts
    BY <1>7
  <2> HIDE DEF us, ts
  <2>4. QED
    BY <2>2, <2>3
<1>9. changed' \subseteq 0 .. Size(ts) - 1
  <2> DEFINE S == CS!ShiftDown(changed, start, bucket)
             m == n - bucket
  <2>1. changed \in SUBSET (0 .. n - 1)
    BY <1>1 DEF Shapes
  <2>2. changed' = CS!ShiftUp(S, start) \cup {start}
    BY <1>2, <1>8
  <2> HIDE DEF start, n
  <2>3. S \subseteq 0 .. n - bucket - 1
    BY <1>4, <1>6, <2>1, ShiftedDown
  <2>4. m \in Nat /\ S \in SUBSET (0 .. m - 1) /\ start \in 0 .. m
    BY <1>4, <1>6, <2>3
  <2>5. Size(ts) - 1 = m
    BY <1>4, <1>6, <1>8
  <2> HIDE DEF S, m, ts
  <2>6. CS!ShiftUp(S, start) \cup {start} \subseteq 0 .. m
    BY <2>4, ShiftedUp
  <2>7. QED
    BY <2>2, <2>5, <2>6
<1> HIDE DEF ts
<1>10. Shapes'
  BY <1>1, <1>2, <1>9 DEF Shapes
<1>11. Settled'
  <2>1. \A l \in Levels : l # MaxLevel /\ l < level => LevelSize(st, l) < MaxCount[l]
    BY <1>1 DEF Settled
  <2>2. QED
    BY <1>2, <1>8, <2>1 DEF Settled
<1>12. QED
  BY <1>2, <1>8, <1>10, <1>11 DEF TickInv

\* The next level has its turn.
LEMMA NextLevelKeeps ==
  ASSUME TickInv, NextLevel
  PROVE  TickInv'
<1>1. /\ Shapes /\ Sound(storage, accepted) /\ Settled
      /\ phase = "aggregate" /\ level < MaxLevel
      /\ LevelSize(storage, level) < MaxCount[level]
      /\ level' = level + 1 /\ phase' \in {"recalculate", "aggregate"}
      /\ aggregated' = FALSE
      /\ storage' = storage /\ changed' = changed /\ now' = now /\ accepted' = accepted
  BY DEF TickInv, NextLevel, deltaVars
<1>2. level' \in Levels /\ level \in Nat
  BY <1>1, LevelsAssumption DEF Shapes, Levels, MaxLevel
<1>3. Shapes'
  BY <1>1, <1>2 DEF Shapes
<1>4. Settled'
  <2>1. \A l \in Levels : l # MaxLevel /\ l < level => LevelSize(storage, l) < MaxCount[l]
    BY <1>1 DEF Settled
  <2>2. \A l \in Levels : l < level + 1 => l < level \/ l = level
    BY <1>2 DEF Levels
  <2>3. QED
    BY <1>1, <2>1, <2>2 DEF Settled
<1>5. QED
  BY <1>1, <1>3, <1>4 DEF TickInv

\* The highest level is cut to its maximum.
LEMMA TrimMaxLevelKeeps ==
  ASSUME TickInv, TrimMaxLevel
  PROVE  TickInv'
<1> DEFINE excess == LevelSize(storage, MaxLevel) - MaxCount[MaxLevel]
           start  == storage.boundaries[MaxLevel]
           t      == StartedAtAfterDelete(storage, MaxLevel, excess)
           ts     == DeleteNItems(storage, MaxLevel, excess, t)
           n      == Size(storage)
<1>1. /\ Shapes /\ Sound(storage, accepted) /\ Settled /\ accepted \in SUBSET Nat
      /\ phase = "aggregate" /\ phase' = "emit" /\ level = MaxLevel /\ level' = level
      /\ aggregated' = aggregated /\ now' = now /\ accepted' = accepted
  BY MaxTimeAssumption DEF TickInv, Shapes, TrimMaxLevel
<1>2. /\ MaxLevel \in Levels /\ n \in Nat
      /\ LevelSize(storage, MaxLevel) \in Nat /\ MaxCount[MaxLevel] \in Nat \ {0}
  <2>1. MaxLevel \in Levels
    BY LevelsAssumption DEF Levels, MaxLevel
  <2>2. QED
    BY <1>1, <2>1, SoundFacts, MaxCountAssumption
<1>3. \A l \in Levels : l # MaxLevel => LevelSize(storage, l) < MaxCount[l]
  <2>1. \A l \in Levels : l # MaxLevel => l < level
    BY <1>1, LevelsAssumption DEF Levels, MaxLevel
  <2>2. QED
    BY <1>1, <2>1 DEF Settled
<1>4. CASE excess <= 0
  <2>1. storage' = storage /\ changed' = changed
    BY <1>4 DEF TrimMaxLevel
  <2>2. LevelSize(storage, MaxLevel) <= MaxCount[MaxLevel]
    BY <1>2, <1>4
  <2>3. Shapes' /\ Settled'
    BY <1>1, <1>3, <2>1, <2>2 DEF Shapes, Settled
  <2>4. QED
    BY <1>1, <2>1, <2>3 DEF TickInv
<1>5. CASE ~ (excess <= 0)
  <2>1. storage' = ts /\ changed' = CS!ShiftDown(changed, start, excess)
    BY <1>5 DEF TrimMaxLevel
  <2>2. excess \in Nat \ {0} /\ excess <= LevelSize(storage, MaxLevel)
    BY <1>2, <1>5
  <2>3. LevelSize(storage, MaxLevel) - excess = MaxCount[MaxLevel]
    BY <1>2
  <2> HIDE DEF excess
  <2>4. /\ Sound(ts, accepted) /\ start = 0
        /\ excess <= n /\ Size(ts) = n - excess
        /\ \A l \in Levels :
             LevelSize(ts, l) = IF l = MaxLevel THEN LevelSize(storage, l) - excess
                                                ELSE LevelSize(storage, l)
    BY <1>1, <2>2, SoundTrim
  <2>5. changed' \subseteq 0 .. Size(ts) - 1
    <3>1. changed \in SUBSET (0 .. n - 1)
      BY <1>1 DEF Shapes
    <3>2. start \in Nat /\ excess \in Nat /\ start + excess <= n
      <4> HIDE DEF start, n
      <4>1. QED
        BY <1>2, <2>2, <2>4
    <3> HIDE DEF ts, start, n
    <3>3. CS!ShiftDown(changed, start, excess) \subseteq 0 .. n - excess - 1
      BY <1>2, <3>1, <3>2, ShiftedDown
    <3>4. QED
      BY <2>1, <2>4, <3>3
  <2> HIDE DEF ts
  <2>6. Shapes'
    BY <1>1, <2>1, <2>5 DEF Shapes
  <2>7. Settled'
    <3>1. LevelSize(ts, MaxLevel) <= MaxCount[MaxLevel]
      BY <1>2, <2>3, <2>4
    <3>2. \A l \in Levels : l # MaxLevel => LevelSize(ts, l) < MaxCount[l]
      BY <1>3, <2>4
    <3>3. QED
      BY <1>1, <2>1, <3>1, <3>2 DEF Settled
  <2>8. QED
    BY <1>1, <2>1, <2>4, <2>6, <2>7 DEF TickInv
<1>6. QED
  BY <1>4, <1>5

\* The delta is sent and the tick is done.
LEMMA EmitDeltaKeeps ==
  ASSUME TickInv, EmitDelta
  PROVE  TickInv'
<1>1. /\ Shapes /\ Sound(storage, accepted) /\ Settled
      /\ phase = "emit" /\ phase' = "idle" /\ changed' = {} /\ level' = 0
      /\ aggregated' = FALSE
      /\ storage' = storage /\ now' = now /\ accepted' = accepted
  BY DEF TickInv, EmitDelta
<1>2. 0 \in Levels
  BY LevelsAssumption DEF Levels, MaxLevel
<1>3. Shapes' /\ Settled'
  BY <1>1, <1>2 DEF Shapes, Settled
<1>4. QED
  BY <1>1, <1>3 DEF TickInv

\* The server restarts from a snapshot.
LEMMA RestartKeeps ==
  ASSUME TickInv, Restart
  PROVE  TickInv'
<1> DEFINE ts == FromSnapshot(Snapshot(storage.chunkSets))
<1>1. /\ Shapes /\ Sound(storage, accepted) /\ Settled
      /\ phase' = phase /\ changed' = changed /\ level' = level
      /\ aggregated' = aggregated /\ storage' = ts /\ now' = now /\ accepted' = accepted
  BY DEF TickInv, Restart, deltaVars
<1>2. /\ Sound(ts, accepted) /\ Size(ts) = Size(storage)
      /\ \A l \in Levels : LevelSize(ts, l) = LevelSize(storage, l)
  BY <1>1, SoundRestart
<1> HIDE DEF ts
<1>3. Shapes'
  BY <1>1, <1>2 DEF Shapes
<1>4. Settled'
  <2>1. MaxLevel \in Levels
    BY LevelsAssumption DEF Levels, MaxLevel
  <2>2. QED
    BY <1>1, <1>2, <2>1 DEF Settled
<1>5. QED
  BY <1>1, <1>2, <1>3, <1>4 DEF TickInv

\* No step takes a storage out of the invariant.
LEMMA TickInvStep ==
  ASSUME TickInv, [Next]_aggregationVars
  PROVE  TickInv'
<1>1. ASSUME NEW gap \in Gaps, ReceiveTick(gap) PROVE TickInv'
  BY <1>1, ReceiveTickKeeps
<1>2. CASE RecalculateNothing
  BY <1>2, RecalculationKeeps
<1>3. ASSUME NEW i \in 0 .. Size(storage) - 1, RecalculateItem(i) PROVE TickInv'
  BY <1>3, RecalculationKeeps
<1>4. CASE AggregateBucket
  BY <1>4, AggregateBucketKeeps
<1>5. CASE NextLevel
  BY <1>5, NextLevelKeeps
<1>6. CASE TrimMaxLevel
  BY <1>6, TrimMaxLevelKeeps
<1>7. CASE EmitDelta
  BY <1>7, EmitDeltaKeeps
<1>8. CASE Restart
  BY <1>8, RestartKeeps
<1>9. CASE UNCHANGED aggregationVars
  <2>1. Shapes'
    BY <1>9 DEF TickInv, Shapes, aggregationVars, deltaVars
  <2>2. Sound(storage, accepted)' /\ Settled'
    BY <1>9 DEF TickInv, Settled, aggregationVars
  <2>3. QED
    BY <2>1, <2>2 DEF TickInv
<1>10. QED
  BY <1>1, <1>2, <1>3, <1>4, <1>5, <1>6, <1>7, <1>8, <1>9 DEF Next, ProcessTick

\* Every state the program reaches has the invariant.
LEMMA TickInvAlways == Spec => []TickInv
<1>1. Init => TickInv
  BY TickInvInit
<1>2. TickInv /\ [Next]_aggregationVars => TickInv'
  BY TickInvStep
<1>3. QED
  BY <1>1, <1>2, PTL DEF Spec

\* Whatever processTick and aggregateLevel did to a storage (storage-aggregation.ts),
\* its metadata is what a rebuild would give, its headers have the times of its
\* items, no level is over its size between ticks, and applySnapshot would
\* accept a snapshot of it: for every number of levels, chunk size, level size
\* and bucket duration.
THEOREM StorageAlwaysSound == Spec => []StorageSound
<1>1. TickInv => StorageSound
  BY TickInvImplies
<1>2. QED
  BY <1>1, TickInvAlways, PTL

\* Aggregation (aggregateLevel) loses, duplicates and reorders nothing: items
\* follow each other in time, and every tick processTick added since the oldest
\* item is in the time of one of them.
THEOREM TicksAlwaysAccountedFor == Spec => []TicksAccountedFor
<1>1. TickInv => TicksAccountedFor
  BY TickInvImplies
<1>2. QED
  BY <1>1, TickInvAlways, PTL

-----------------------------------------------------------------------------
(* Chunk sets that look alike.                                             *)

\* The last chunk set of its level: the one the level grows in.
LastOfLevel(cs, i) == i = Len(cs) \/ cs[i + 1].level # cs[i].level

\* Two lists of chunk sets with the same headers.  Where the items begin may
\* differ, but not in a chunk set its level still grows in: whether that has
\* room is decided by where its items end.
SameShape(ds, cs) ==
  /\ Len(ds) = Len(cs)
  /\ \A i \in 1 .. Len(cs) :
       /\ ds[i].level = cs[i].level
       /\ ds[i].size = cs[i].size
       /\ ds[i].startedAt = cs[i].startedAt
       /\ ds[i].endedAt = cs[i].endedAt
       /\ LastOfLevel(cs, i) => ds[i].start = cs[i].start

\* Two lists of chunk sets of the same shape that read alike but for some
\* flat indexes.
Alike(ds, cs, S) ==
  /\ WellFormed(ds, Nat, Values) /\ WellFormed(cs, Nat, Values)
  /\ SameShape(ds, cs)
  /\ \A f \in (0 .. Count(cs) - 1) \ S :
       Reads(RebuildIndexMetadata(ds))[f] = Reads(RebuildIndexMetadata(cs))[f]

\* All that is computed from headers is the same.
LEMMA SameShapeFacts ==
  ASSUME NEW cs, WellFormed(cs, Nat, Values), NEW ds, WellFormed(ds, Nat, Values),
         SameShape(ds, cs)
  PROVE  /\ SizeSums(ds) = SizeSums(cs) /\ Count(ds) = Count(cs)
         /\ RebuildIndexMetadata(ds) = [RebuildIndexMetadata(cs) EXCEPT !.chunkSets = ds]
         /\ \A x : ChunkSetInsertionIndex(ds, x) = ChunkSetInsertionIndex(cs, x)
         /\ \A x : FlatStart(ds, x) = FlatStart(cs, x)
         /\ \A x, n : (\E i \in 1 .. Len(cs) : cs[i].level = x)
              => /\ LastRemoved(ds, x, n) = LastRemoved(cs, x, n)
                 /\ TrimCount(ds, x, n) = TrimCount(cs, x, n)
<1> DEFINE T == ChunkSetOf(Nat, Values)
           N == Len(cs)
<1>1. /\ cs \in Seq(T) /\ ds \in Seq(T) /\ Len(ds) = N /\ N \in Nat
      /\ DOMAIN cs = 1 .. N /\ DOMAIN ds = 1 .. N
      /\ \A i \in 1 .. N : /\ cs[i].size \in Nat
                           /\ ds[i].size = cs[i].size
                           /\ ds[i].level = cs[i].level
  <2>1. cs \in Seq(T) /\ ds \in Seq(T)
    BY DEF WellFormed
  <2>2. /\ N \in Nat /\ DOMAIN cs = 1 .. N /\ DOMAIN ds = 1 .. Len(ds)
        /\ \A i \in 1 .. N : cs[i].size \in Nat
    BY ChunkSetFacts
  <2> HIDE DEF T
  <2>3. QED
    BY <2>1, <2>2 DEF SameShape
<1> HIDE DEF T, N
<1>2. SizeSums(ds) = SizeSums(cs) /\ Count(ds) = Count(cs)
  BY <1>1, SameSums DEF N
<1>3. RebuildIndexMetadata(ds) = [RebuildIndexMetadata(cs) EXCEPT !.chunkSets = ds]
  BY <1>1, RebuildSame DEF N
<1>4. ASSUME NEW x PROVE ChunkSetInsertionIndex(ds, x) = ChunkSetInsertionIndex(cs, x)
  <2>1. {i \in DOMAIN ds : ds[i].level < x} = {i \in DOMAIN cs : cs[i].level < x}
    BY <1>1
  <2>2. QED
    BY <1>1, <2>1 DEF ChunkSetInsertionIndex, N
<1>5. ASSUME NEW x PROVE FlatStart(ds, x) = FlatStart(cs, x)
  BY <1>2, <1>4 DEF FlatStart
<1>6. ASSUME NEW x PROVE FirstChunkSetIndex(ds, x) = FirstChunkSetIndex(cs, x)
  <2>1. {i \in DOMAIN ds : ds[i].level = x} = {i \in DOMAIN cs : cs[i].level = x}
    BY <1>1
  <2>2. QED
    BY <2>1 DEF FirstChunkSetIndex
<1>7. ASSUME NEW x, NEW n, \E i \in 1 .. N : cs[i].level = x
      PROVE  /\ LastRemoved(ds, x, n) = LastRemoved(cs, x, n)
             /\ TrimCount(ds, x, n) = TrimCount(cs, x, n)
  <2> DEFINE first == FirstChunkSetIndex(cs, x)
             sums  == SizeSums(cs)
             A == {i \in first .. N : ds[i].level = x /\ sums[i] - sums[first - 1] <= n}
             B == {i \in first .. N : cs[i].level = x /\ sums[i] - sums[first - 1] <= n}
             F == {i \in DOMAIN cs : cs[i].level = x}
  <2>1. first \in 1 .. N
    <3>1. F \in SUBSET Nat /\ F # {} /\ F \subseteq 1 .. N
      BY <1>1, <1>7
    <3>2. first = Min(F)
      BY DEF FirstChunkSetIndex
    <3> HIDE DEF F, first
    <3>3. first \in F
      BY <3>1, <3>2, MinIsLeast
    <3>4. QED
      BY <3>1, <3>3
  <2>2. A = B
    <3> HIDE DEF first, sums
    <3>1. QED
      BY <1>1, <2>1
  <2>3. LastRemoved(ds, x, n) = LastRemoved(cs, x, n)
    <3>1. LastRemoved(ds, x, n) = Max({first - 1} \cup A)
      <4>1. FirstChunkSetIndex(ds, x) = first /\ SizeSums(ds) = sums /\ Len(ds) = N
        BY <1>1, <1>2, <1>6
      <4> HIDE DEF first, sums
      <4>2. QED
        BY <4>1 DEF LastRemoved
    <3>2. LastRemoved(cs, x, n) = Max({first - 1} \cup B)
      BY DEF LastRemoved, N
    <3> HIDE DEF A, B, first
    <3>3. QED
      BY <2>2, <3>1, <3>2
  <2>4. QED
    BY <1>2, <1>6, <2>3 DEF TrimCount
<1>8. QED
  BY <1>2, <1>3, <1>4, <1>5, <1>7 DEF N

\* A level grows in the same chunk set of two lists of the same shape.
LEMMA SameLast ==
  ASSUME NEW cs, NEW ds, SameShape(ds, cs), Len(cs) \in Nat, NEW i \in 1 .. Len(cs)
  PROVE  LastOfLevel(ds, i) <=> LastOfLevel(cs, i)
<1>1. i # Len(cs) => i + 1 \in 1 .. Len(cs)
  OBVIOUS
<1>2. QED
  BY <1>1 DEF SameShape, LastOfLevel

\* Being of the same shape carries over.
LEMMA ShapeTransitive ==
  ASSUME NEW cs, NEW ds, NEW es, Len(cs) \in Nat, SameShape(ds, cs), SameShape(es, ds)
  PROVE  SameShape(es, cs)
<1>1. Len(ds) = Len(cs)
  BY DEF SameShape
<1>2. \A i \in 1 .. Len(cs) : LastOfLevel(ds, i) <=> LastOfLevel(cs, i)
  BY SameLast
<1>3. QED
  BY <1>1, <1>2 DEF SameShape

\* A write leaves the shape as it is.
LEMMA SetItemShape ==
  ASSUME NEW cs, WellFormed(cs, Nat, Values), NEW p, NEW item
  PROVE  LET ds == SetItem(RebuildIndexMetadata(cs), p, item).chunkSets
         IN  Len(ds) = Len(cs) => SameShape(ds, cs) /\ SameShape(cs, ds)
<1> DEFINE st == RebuildIndexMetadata(cs)
           ts == SetItem(st, p, item)
           ds == ts.chunkSets
           at == ChunkAndPos(st, p)
           k  == at.chunkSet
           q  == at.slot
           es == [cs EXCEPT ![k].items[q] = item]
<1>1. ds = es
  <2>1. st.chunkSets = cs /\ DOMAIN st = {"chunkSets", "flatEnds", "boundaries", "startLevel0Index"}
    BY RebuildFields
  <2>2. ts = [st EXCEPT !.chunkSets[k].items[q] = item]
    BY DEF SetItem
  <2> HIDE DEF st, k, q
  <2>3. QED
    BY <2>1, <2>2
<1>2. /\ DOMAIN cs = 1 .. Len(cs) /\ Len(cs) \in Nat
      /\ \A i \in 1 .. Len(cs) : cs[i] \in ChunkSetOf(Nat, Values)
  BY ChunkSetFacts
<1> HIDE DEF k, q
<1>3. ASSUME NEW i \in 1 .. Len(cs)
      PROVE  /\ ds[i].level = cs[i].level /\ ds[i].size = cs[i].size
             /\ ds[i].startedAt = cs[i].startedAt /\ ds[i].endedAt = cs[i].endedAt
             /\ ds[i].start = cs[i].start
  <2>1. ds[i] = IF i = k THEN [cs[i] EXCEPT !.items[q] = item] ELSE cs[i]
    BY <1>1, <1>2
  <2>2. cs[i] \in ChunkSetOf(Nat, Values)
    BY <1>2
  <2>3. QED
    BY <2>1, <2>2 DEF ChunkSetOf
<1> HIDE DEF ds
<1>4. ASSUME Len(ds) = Len(cs) PROVE SameShape(ds, cs) /\ SameShape(cs, ds)
  <2>1. SameShape(ds, cs)
    BY <1>3, <1>4 DEF SameShape
  <2>2. SameShape(cs, ds)
    BY <1>3, <1>4 DEF SameShape
  <2>3. QED
    BY <2>1, <2>2
<1>5. QED
  BY <1>4 DEF ds

-----------------------------------------------------------------------------
(* Structural changes keep lists of chunk sets alike.                      *)

\* An addition finds room in both lists or in neither.
LEMMA AddShape ==
  ASSUME NEW cs, WellFormed(cs, Nat, Values), NEW ds, WellFormed(ds, Nat, Values),
         SameShape(ds, cs), NEW lv \in Levels, NEW s, NEW e
  PROVE  SameShape(AddToChunkSets(ds, lv, s, e), AddToChunkSets(cs, lv, s, e))
<1> DEFINE N  == Len(cs)
           at == ChunkSetInsertionIndex(cs, lv)
           T == ChunkSetOf(Nat, Values)
<1>1. /\ N \in Nat /\ DOMAIN cs = 1 .. N /\ DOMAIN ds = 1 .. N /\ Len(ds) = N
      /\ cs \in Seq(T) /\ ds \in Seq(T)
      /\ \A i \in 1 .. N : /\ cs[i] \in T /\ GeometryOK(cs[i])
                           /\ ds[i] \in T /\ GeometryOK(ds[i])
  BY ChunkSetFacts DEF SameShape, WellFormed
<1>2. ChunkSetInsertionIndex(ds, lv) = at
  BY SameShapeFacts
<1>3. /\ at \in 1 .. N + 1
      /\ \A j \in 1 .. at - 1 : ~ (cs[j].level < lv)
      /\ at <= N => cs[at].level < lv
  BY <1>1, InsertionIndexIsFirst
<1>4. /\ \A i \in 1 .. N : /\ ds[i].level = cs[i].level /\ ds[i].size = cs[i].size
                           /\ ds[i].startedAt = cs[i].startedAt
                           /\ ds[i].endedAt = cs[i].endedAt
                           /\ LastOfLevel(cs, i) => ds[i].start = cs[i].start
                           /\ cs[i].size = cs[i].end - cs[i].start
                           /\ ds[i].size = ds[i].end - ds[i].start
                           /\ cs[i].end \in Nat /\ ds[i].end \in Nat
                           /\ cs[i].start \in Nat /\ ds[i].start \in Nat
  BY <1>1 DEF SameShape, GeometryOK, ChunkSetOf
<1> HIDE DEF T, N, at
<1>5. at - 1 \in 1 .. N /\ cs[at - 1].level = lv => LastOfLevel(cs, at - 1)
  <2>1. ASSUME at - 1 \in 1 .. N, cs[at - 1].level = lv, at - 1 # N
        PROVE  cs[(at - 1) + 1].level # lv
    <3>1. at <= N /\ (at - 1) + 1 = at
      BY <1>1, <1>3, <2>1
    <3>2. cs[at].level < lv /\ lv \in Int
      BY <1>3, <3>1 DEF Levels
    <3>3. QED
      BY <3>1, <3>2, <1>1
  <2>2. QED
    BY <2>1 DEF LastOfLevel, N
<1>6. HasRoom(ds, at - 1, lv) <=> HasRoom(cs, at - 1, lv)
  <2> DEFINE k == at - 1
  <2> HIDE DEF k
  <2>1. k \in 1 .. N /\ cs[k].level = lv => LastOfLevel(cs, k)
    BY <1>5 DEF k
  <2>2. ASSUME k \in 1 .. N, cs[k].level = lv PROVE cs[k].end = ds[k].end
    BY <1>4, <2>1, <2>2
  <2>3. HasRoom(ds, k, lv) <=> HasRoom(cs, k, lv)
    BY <1>1, <1>4, <2>2 DEF HasRoom
  <2>4. QED
    BY <2>3 DEF k
<1>7. CASE HasRoom(cs, at - 1, lv)
  <2> DEFINE k == at - 1
  <2>1. /\ AddToChunkSets(cs, lv, s, e) = Grown(cs, k, e)
        /\ AddToChunkSets(ds, lv, s, e) = Grown(ds, k, e)
    BY <1>2, <1>6, <1>7, AddWithRoom DEF at
  <2>2. k \in 1 .. N /\ cs[k].level = lv
    BY <1>1, <1>7 DEF HasRoom
  <2> HIDE DEF k
  <2>3. Len(Grown(cs, k, e)) = N /\ Len(Grown(ds, k, e)) = N
    BY <1>1 DEF Grown, N
  <2>4. ASSUME NEW i \in 1 .. N
        PROVE  /\ Grown(cs, k, e)[i].level = cs[i].level
               /\ Grown(cs, k, e)[i].start = cs[i].start
               /\ Grown(cs, k, e)[i].startedAt = cs[i].startedAt
               /\ Grown(cs, k, e)[i].size = IF i = k THEN cs[i].size + 1 ELSE cs[i].size
               /\ Grown(cs, k, e)[i].endedAt = IF i = k THEN e ELSE cs[i].endedAt
               /\ Grown(ds, k, e)[i].level = ds[i].level
               /\ Grown(ds, k, e)[i].start = ds[i].start
               /\ Grown(ds, k, e)[i].startedAt = ds[i].startedAt
               /\ Grown(ds, k, e)[i].size = IF i = k THEN ds[i].size + 1 ELSE ds[i].size
               /\ Grown(ds, k, e)[i].endedAt = IF i = k THEN e ELSE ds[i].endedAt
    BY <1>1, <2>2 DEF Grown, T, ChunkSetOf
  <2>5. \A i \in 1 .. N : LastOfLevel(Grown(cs, k, e), i) => LastOfLevel(cs, i)
    <3>1. \A i \in 1 .. N : i # N => i + 1 \in 1 .. N
      BY <1>1
    <3>2. QED
      BY <2>3, <2>4, <3>1 DEF LastOfLevel, N
  <2>6. SameShape(Grown(ds, k, e), Grown(cs, k, e))
    <3> DEFINE C == Grown(cs, k, e)
               D == Grown(ds, k, e)
    <3> HIDE DEF C, D
    <3>1. Len(C) = N /\ Len(D) = N
      BY <2>3 DEF C, D
    <3>2. ASSUME NEW i \in 1 .. N
          PROVE  /\ D[i].level = C[i].level /\ D[i].size = C[i].size
                 /\ D[i].startedAt = C[i].startedAt /\ D[i].endedAt = C[i].endedAt
                 /\ LastOfLevel(C, i) => D[i].start = C[i].start
      BY <1>4, <2>4, <2>5 DEF C, D
    <3>3. SameShape(D, C)
      BY <3>1, <3>2 DEF SameShape
    <3>4. QED
      BY <3>3 DEF C, D
  <2>7. QED
    BY <2>1, <2>6
<1>8. CASE ~ HasRoom(cs, at - 1, lv)
  <2> DEFINE new == NewChunkSet(lv, s, e)
             C == Inserted(cs, at, new)
             D == Inserted(ds, at, new)
  <2>1. AddToChunkSets(cs, lv, s, e) = C /\ AddToChunkSets(ds, lv, s, e) = D
    BY <1>1, <1>2, <1>6, <1>8, AddWithoutRoom DEF at
  <2>2. /\ Len(C) = N + 1 /\ Len(D) = N + 1
        /\ \A i \in 1 .. N + 1 : /\ C[i] = IF i < at THEN cs[i]
                                           ELSE IF i = at THEN new ELSE cs[i - 1]
                                 /\ D[i] = IF i < at THEN ds[i]
                                           ELSE IF i = at THEN new ELSE ds[i - 1]
    BY <1>1 DEF Inserted, N
  <2>3. new.level = lv
    BY DEF NewChunkSet
  <2> HIDE DEF C, D, new
  <2>4. ASSUME NEW i \in 1 .. N + 1, LastOfLevel(C, i), i # at
        PROVE  LastOfLevel(cs, IF i < at THEN i ELSE i - 1)
    <3>1. CASE i < at
      <4>1. i \in 1 .. N /\ i + 1 \in 1 .. N + 1 /\ i # N + 1
        BY <1>1, <1>3, <3>1
      <4>2. C[i + 1].level # C[i].level /\ C[i] = cs[i]
        BY <2>2, <2>4, <3>1, <4>1 DEF LastOfLevel
      <4>3. CASE i + 1 < at
        BY <2>2, <3>1, <4>1, <4>2, <4>3 DEF LastOfLevel
      <4>4. CASE i + 1 = at /\ at <= N
        <5>1. cs[at].level < lv /\ C[at] = new
          BY <1>3, <2>2, <4>1, <4>4
        <5>2. cs[i].level # lv /\ ~ (cs[i].level < lv)
          BY <1>3, <2>3, <3>1, <4>1, <4>2, <4>4, <5>1
        <5>3. cs[i].level \in Int /\ cs[at].level \in Int /\ lv \in Int
          <6>1. at \in 1 .. N
            BY <1>3, <4>4
          <6>2. \A j \in 1 .. N : cs[j].level \in Int
            BY ChunkSetFacts DEF N
          <6>3. QED
            BY <4>1, <6>1, <6>2 DEF Levels
        <5>4. cs[i + 1].level # cs[i].level
          BY <4>4, <5>1, <5>2, <5>3
        <5>5. QED
          BY <3>1, <5>4 DEF LastOfLevel
      <4>5. CASE i + 1 = at /\ at = N + 1
        <5>1. i = N
          BY <1>1, <3>1, <4>1, <4>5
        <5>2. QED
          BY <3>1, <5>1 DEF LastOfLevel, N
      <4>6. QED
        BY <1>1, <1>3, <3>1, <4>1, <4>3, <4>4, <4>5
    <3>2. CASE i > at
      <4>1. i - 1 \in 1 .. N
        BY <1>1, <1>3, <3>2
      <4>2. CASE i = N + 1
        <5>1. i - 1 = N /\ ~ (i < at)
          BY <1>1, <1>3, <3>2, <4>2
        <5>2. QED
          BY <5>1 DEF LastOfLevel, N
      <4>3. CASE i # N + 1
        <5>1. i + 1 \in 1 .. N + 1 /\ i + 1 > at /\ (i + 1) - 1 = i /\ (i - 1) + 1 = i
          BY <1>1, <1>3, <3>2, <4>3
        <5>2. C[i + 1].level # C[i].level
          BY <2>2, <2>4, <4>3 DEF LastOfLevel
        <5>3. C[i + 1] = cs[i] /\ C[i] = cs[i - 1]
          BY <1>3, <2>2, <3>2, <5>1
        <5>4. QED
          BY <1>3, <3>2, <5>1, <5>2, <5>3 DEF LastOfLevel
      <4>4. QED
        BY <4>2, <4>3
    <3>3. QED
      BY <1>1, <1>3, <2>4, <3>1, <3>2
  <2>5. ASSUME NEW i \in 1 .. N + 1
        PROVE  /\ D[i].level = C[i].level /\ D[i].size = C[i].size
               /\ D[i].startedAt = C[i].startedAt /\ D[i].endedAt = C[i].endedAt
               /\ LastOfLevel(C, i) => D[i].start = C[i].start
    <3>1. CASE i = at
      BY <1>1, <1>3, <2>2, <3>1
    <3>2. CASE i < at
      <4>1. i \in 1 .. N
        BY <1>1, <1>3, <3>2
      <4>2. QED
        BY <1>4, <2>2, <2>4, <3>2, <4>1, <1>3
    <3>3. CASE i > at
      <4> DEFINE j == i - 1
      <4>1. j \in 1 .. N
        BY <1>1, <1>3, <3>3
      <4>2. C[i] = cs[j] /\ D[i] = ds[j]
        BY <1>3, <2>2, <3>3
      <4>3. LastOfLevel(C, i) => LastOfLevel(cs, j)
        BY <1>3, <2>4, <3>3
      <4> HIDE DEF j
      <4>4. QED
        BY <1>4, <4>1, <4>2, <4>3
    <3>4. QED
      BY <1>1, <1>3, <3>1, <3>2, <3>3
  <2>6. SameShape(D, C)
    BY <2>2, <2>5 DEF SameShape
  <2>7. QED
    BY <2>1, <2>6
<1>9. QED
  BY <1>7, <1>8

\* What is left when the same chunk sets of one level are taken out has the
\* same shape.
LEMMA WithoutShape ==
  ASSUME NEW cs, WellFormed(cs, Nat, Values), NEW ds, WellFormed(ds, Nat, Values),
         SameShape(ds, cs), NEW a \in 1 .. Len(cs), NEW r \in a - 1 .. Len(cs),
         a > 1 => cs[a - 1].level # cs[a].level
  PROVE  SameShape(Without(ds, a, r), Without(cs, a, r))
<1> DEFINE N == Len(cs)
           g == r - a + 1
           M == N - g
           C == Without(cs, a, r)
           D == Without(ds, a, r)
           From(i) == IF i < a THEN i ELSE i + g
<1>1. /\ N \in Nat /\ Len(ds) = N
      /\ \A i \in 1 .. N : /\ ds[i].level = cs[i].level /\ ds[i].size = cs[i].size
                           /\ ds[i].startedAt = cs[i].startedAt
                           /\ ds[i].endedAt = cs[i].endedAt
                           /\ LastOfLevel(cs, i) => ds[i].start = cs[i].start
  BY ChunkSetFacts DEF SameShape
<1>2. a \in 1 .. N /\ r \in Int /\ g \in Nat /\ M \in Nat /\ a + g <= N + 1 /\ a - 1 <= M
  BY <1>1
<1>3. \A i \in 1 .. M : From(i) \in 1 .. N
  BY <1>1, <1>2
<1>4. /\ Len(C) = M /\ Len(D) = M
      /\ \A i \in 1 .. M : C[i] = cs[From(i)] /\ D[i] = ds[From(i)]
  BY <1>1, <1>2 DEF Without
<1>5. ASSUME NEW i \in 1 .. M, LastOfLevel(C, i) PROVE LastOfLevel(cs, From(i))
  <2>1. CASE i = a - 1
    <3>1. From(i) = a - 1 /\ (a - 1) + 1 = a /\ a > 1
      BY <1>2, <2>1
    <3>2. QED
      BY <3>1 DEF LastOfLevel
  <2>2. CASE i # a - 1 /\ i < a
    <3>1. i + 1 \in 1 .. M /\ From(i) = i /\ From(i + 1) = i + 1 /\ i # M
      BY <1>2, <2>2
    <3>2. C[i + 1].level # C[i].level
      BY <1>4, <1>5, <3>1 DEF LastOfLevel
    <3>3. C[i + 1] = cs[i + 1] /\ C[i] = cs[i]
      BY <1>4, <3>1
    <3>4. QED
      BY <3>1, <3>2, <3>3 DEF LastOfLevel
  <2>3. CASE i >= a /\ i = M
    <3>1. From(i) = N
      BY <1>1, <1>2, <2>3
    <3>2. QED
      BY <3>1 DEF LastOfLevel
  <2>4. CASE i >= a /\ i # M
    <3>1. i + 1 \in 1 .. M /\ From(i + 1) = From(i) + 1
      BY <1>1, <1>2, <2>4
    <3>2. C[i + 1].level # C[i].level
      BY <1>4, <1>5, <2>4 DEF LastOfLevel
    <3>3. C[i + 1] = cs[From(i) + 1] /\ C[i] = cs[From(i)]
      <4>1. C[i + 1] = cs[From(i + 1)]
        <5> HIDE DEF From
        <5>1. QED
          BY <1>4, <3>1
      <4>2. QED
        BY <1>4, <3>1, <4>1
    <3> HIDE DEF From
    <3>4. QED
      BY <3>2, <3>3 DEF LastOfLevel
  <2>5. QED
    BY <1>2, <2>1, <2>2, <2>3, <2>4
<1>6. ASSUME NEW i \in 1 .. M
      PROVE  /\ D[i].level = C[i].level /\ D[i].size = C[i].size
             /\ D[i].startedAt = C[i].startedAt /\ D[i].endedAt = C[i].endedAt
             /\ LastOfLevel(C, i) => D[i].start = C[i].start
  <2> HIDE DEF From, C, D
  <2>1. QED
    BY <1>1, <1>3, <1>4, <1>5
<1>7. QED
  <2> HIDE DEF C, D, M
  <2>1. SameShape(D, C)
    BY <1>4, <1>6 DEF SameShape
  <2>2. QED
    BY <2>1 DEF C, D

\* A deletion takes the same from two lists of the same shape.
LEMMA DeleteShape ==
  ASSUME NEW cs, WellFormed(cs, Nat, Values), NEW ds, WellFormed(ds, Nat, Values),
         SameShape(ds, cs), NEW lv \in Levels, NEW count \in Nat \ {0}, NEW t,
         count <= LevelSize(RebuildIndexMetadata(cs), lv)
  PROVE  /\ count <= LevelSize(RebuildIndexMetadata(ds), lv)
         /\ TrimCount(ds, lv, count) = TrimCount(cs, lv, count)
         /\ SameShape(DeleteFromChunkSets(ds, lv, count, t),
                      DeleteFromChunkSets(cs, lv, count, t))
<1> DEFINE N == Len(cs)
           S == SizeSums(cs)
           a == ChunkSetInsertionIndex(cs, lv + 1)
           b == ChunkSetInsertionIndex(cs, lv)
           r == LastRemoved(cs, lv, count)
           trim == TrimCount(cs, lv, count)
           C == Without(cs, a, r)
           D == Without(ds, a, r)
<1>1. LevelSize(RebuildIndexMetadata(ds), lv) = LevelSize(RebuildIndexMetadata(cs), lv)
  <2>1. RebuildIndexMetadata(ds) = [RebuildIndexMetadata(cs) EXCEPT !.chunkSets = ds]
    BY SameShapeFacts
  <2>2. RebuildIndexMetadata(cs) = [ chunkSets        |-> cs,
             flatEnds         |-> [i \in DOMAIN cs |-> SizeSums(cs)[i]],
             boundaries       |->
               [l \in Levels |->
                  SizeSums(cs)[ChunkSetInsertionIndex(cs, l + 1) - 1]],
             startLevel0Index |-> StartLevel0Index(cs) ]
    BY RebuildFields
  <2>3. /\ RebuildIndexMetadata(ds).flatEnds = RebuildIndexMetadata(cs).flatEnds
        /\ RebuildIndexMetadata(ds).boundaries = RebuildIndexMetadata(cs).boundaries
    BY <2>1, <2>2
  <2>4. QED
    BY <2>3 DEF LevelSize, LevelEnd, Size
<1>2. /\ a \in 1 .. N /\ r \in a - 1 .. N
      /\ trim \in Nat
      /\ trim > 0 => r + 1 \in 1 .. N /\ cs[r + 1].size > trim
      /\ DeleteFromChunkSets(cs, lv, count, t)
           = IF trim = 0 THEN C ELSE Trimmed(C, a, trim, t)
  BY DeletedRange
<1>3. /\ N \in Nat /\ b \in 1 .. N + 1
      /\ \A i \in 1 .. N : cs[i].level = lv <=> a <= i /\ i < b
      /\ count <= S[b - 1] - S[a - 1]
      /\ \A i \in 0 .. N : S[i] \in Nat
  <2>1. \A i \in 0 .. N : S[i] \in Nat
    BY SizeSumsGrow
  <2>2. N \in Nat
    BY ChunkSetFacts
  <2>3. /\ b \in 1 .. N + 1
        /\ \A i \in 1 .. N : cs[i].level = lv <=> a <= i /\ i < b
        /\ LevelSize(RebuildIndexMetadata(cs), lv) = S[b - 1] - S[a - 1]
    BY LevelRange
  <2> HIDE DEF S, a, b, N
  <2>4. QED
    BY <2>1, <2>2, <2>3
<1>4. a < b
  <2>1. CASE b = a
    <3>1. S[a - 1] \in Nat
      BY <1>2, <1>3
    <3>2. S[b - 1] = S[a - 1]
      BY <2>1
    <3> HIDE DEF S, a, b
    <3>3. QED
      BY <1>3, <3>1, <3>2
  <2>2. a <= b
    BY LevelRange
  <2> HIDE DEF a, b
  <2>3. QED
    BY <1>2, <1>3, <2>1, <2>2
<1>5. \E i \in 1 .. N : cs[i].level = lv
  BY <1>2, <1>3, <1>4
<1>6. /\ ChunkSetInsertionIndex(ds, lv + 1) = a
      /\ LastRemoved(ds, lv, count) = r
      /\ TrimCount(ds, lv, count) = trim
  BY <1>5, SameShapeFacts
<1>7. DeleteFromChunkSets(ds, lv, count, t)
           = IF trim = 0 THEN D ELSE Trimmed(D, a, trim, t)
  <2>1. LET aa   == ChunkSetInsertionIndex(ds, lv + 1)
            rr   == LastRemoved(ds, lv, count)
            tt == TrimCount(ds, lv, count)
            kept == Without(ds, aa, rr)
        IN  DeleteFromChunkSets(ds, lv, count, t)
                  = IF tt = 0 THEN kept ELSE Trimmed(kept, aa, tt, t)
    BY <1>1, DeletedRange
  <2>2. QED
    BY <1>6, <2>1
<1>8. a > 1 => cs[a - 1].level # cs[a].level
  <2> HIDE DEF a, b
  <2>1. QED
    BY <1>2, <1>3, <1>4
<1>9. SameShape(D, C)
  <2> HIDE DEF a, r
  <2>1. QED
    BY <1>2, <1>8, WithoutShape
<1>10. ASSUME trim # 0 PROVE SameShape(Trimmed(D, a, trim, t), Trimmed(C, a, trim, t))
  <2> DEFINE M == N - (r - a + 1)
  <2>1. /\ C \in Seq(ChunkSetOf(Nat, Values)) /\ D \in Seq(ChunkSetOf(Nat, Values))
        /\ Len(C) = M /\ Len(D) = M /\ M \in Nat /\ a \in 1 .. M
    <3>1. WellFormed(C, Nat, Values)
      <4> HIDE DEF a, r
      <4>1. QED
        BY <1>2, WithoutKeepsWellFormed
    <3>2. WellFormed(D, Nat, Values)
      <4> HIDE DEF a, r
      <4>1. Len(ds) = N
        BY DEF SameShape
      <4>2. QED
        BY <1>2, <4>1, WithoutKeepsWellFormed
    <3>3. M \in Nat /\ a \in 1 .. M
      <4> HIDE DEF a, r, trim
      <4>1. QED
        BY <1>2, <1>3, <1>10
    <3>4. Len(C) = M /\ Len(D) = M
      <4>1. Len(ds) = N
        BY DEF SameShape
      <4> HIDE DEF a, r
      <4>2. QED
        BY <3>3, <4>1 DEF Without
    <3>5. QED
      BY <3>1, <3>2, <3>3, <3>4 DEF WellFormed
  <2> HIDE DEF C, D, M, a, trim
  <2> DEFINE E == Trimmed(C, a, trim, t)
             F == Trimmed(D, a, trim, t)
  <2>2. /\ DOMAIN C = 1 .. M /\ DOMAIN D = 1 .. M
        /\ \A i \in 1 .. M : /\ C[i] \in ChunkSetOf(Nat, Values)
                             /\ D[i] \in ChunkSetOf(Nat, Values)
    BY <2>1
  <2>3. Len(E) = M /\ Len(F) = M
    BY <2>1, <2>2 DEF Trimmed
  <2>4. ASSUME NEW i \in 1 .. M
        PROVE  /\ E[i].level = C[i].level /\ F[i].level = D[i].level
               /\ E[i].start = IF i = a THEN C[i].start + trim ELSE C[i].start
               /\ F[i].start = IF i = a THEN D[i].start + trim ELSE D[i].start
               /\ E[i].size = IF i = a THEN C[i].size - trim ELSE C[i].size
               /\ F[i].size = IF i = a THEN D[i].size - trim ELSE D[i].size
               /\ E[i].startedAt = IF i = a THEN t ELSE C[i].startedAt
               /\ F[i].startedAt = IF i = a THEN t ELSE D[i].startedAt
               /\ E[i].endedAt = C[i].endedAt /\ F[i].endedAt = D[i].endedAt
    BY <2>1, <2>2 DEF Trimmed, ChunkSetOf
  <2> HIDE DEF E, F
  <2>5. \A i \in 1 .. M : LastOfLevel(E, i) => LastOfLevel(C, i)
    <3>1. \A i \in 1 .. M : i # M => i + 1 \in 1 .. M
      BY <2>1
    <3>2. QED
      BY <2>1, <2>3, <2>4, <3>1 DEF LastOfLevel
  <2>6. \A i \in 1 .. M : /\ D[i].level = C[i].level /\ D[i].size = C[i].size
                          /\ D[i].startedAt = C[i].startedAt /\ D[i].endedAt = C[i].endedAt
                          /\ LastOfLevel(C, i) => D[i].start = C[i].start
    BY <1>9, <2>1 DEF SameShape
  <2>7. ASSUME NEW i \in 1 .. M
        PROVE  /\ F[i].level = E[i].level /\ F[i].size = E[i].size
               /\ F[i].startedAt = E[i].startedAt /\ F[i].endedAt = E[i].endedAt
               /\ LastOfLevel(E, i) => F[i].start = E[i].start
    BY <2>4, <2>5, <2>6
  <2>8. SameShape(F, E)
    BY <2>3, <2>7 DEF SameShape
  <2>9. QED
    BY <2>8 DEF E, F
<1>11. SameShape(DeleteFromChunkSets(ds, lv, count, t), DeleteFromChunkSets(cs, lv, count, t))
  <2> HIDE DEF C, D, a, trim
  <2>1. QED
    BY <1>2, <1>7, <1>9, <1>10
<1>12. QED
  BY <1>1, <1>6, <1>11

\* An addition to a storage and to a replica that is like it but for some
\* items: the replica has no value yet for the new item.
LEMMA AddAlike ==
  ASSUME NEW cs, NEW ds, NEW S, Alike(ds, cs, S), NEW lv \in Levels,
         NEW s \in Nat, NEW e \in Nat, NEW item \in Values
  PROVE  LET es == AddToChunkSets(ds, lv, s, e)
             ts == AddItem(RebuildIndexMetadata(cs), lv, s, e, item)
             p  == FlatStart(cs, lv)
         IN  /\ AddItemStructure(RebuildIndexMetadata(ds), lv, s, e)
                  = RebuildIndexMetadata(es)
             /\ ts = RebuildIndexMetadata(ts.chunkSets)
             /\ Alike(es, ts.chunkSets, CS!ShiftUp(S, p) \cup {p})
<1> DEFINE es == AddToChunkSets(ds, lv, s, e)
           fs == AddToChunkSets(cs, lv, s, e)
           st == RebuildIndexMetadata(cs)
           rt == RebuildIndexMetadata(ds)
           ts == AddItem(st, lv, s, e, item)
           us == RebuildIndexMetadata(es)
           cc == ts.chunkSets
           p  == FlatStart(cs, lv)
           n  == Count(cs)
           U  == CS!ShiftUp(S, p) \cup {p}
<1>1. /\ WellFormed(cs, Nat, Values) /\ WellFormed(ds, Nat, Values)
      /\ SameShape(ds, cs) /\ EmptyItem \in Values
      /\ \A f \in (0 .. n - 1) \ S : Reads(rt)[f] = Reads(st)[f]
  BY DEF Alike, Values
<1>2. /\ WellFormed(cc, Nat, Values) /\ ts = RebuildIndexMetadata(cc)
      /\ p \in 0 .. n /\ Count(cc) = n + 1
      /\ \A f \in 0 .. n :
           Reads(ts)[f] = IF f < p THEN Reads(st)[f]
                          ELSE IF f = p THEN item ELSE Reads(st)[f - 1]
      /\ Len(cc) = Len(fs)
  <2>1. Added(cs, lv, s, e, item)
    BY <1>1, AddedItem
  <2>2. QED
    BY <2>1 DEF Added
<1>3. WellFormed(es, Nat, Values) /\ WellFormed(fs, Nat, Values) /\ SameShape(es, fs)
  BY <1>1, AddKeepsWellFormed, AddShape
<1>4. SameShape(cc, fs) /\ SameShape(fs, cc)
  <2>1. ts = SetItem(RebuildIndexMetadata(fs), LevelEnd(st, lv), item)
    BY <1>1, AddMetadata DEF AddItem
  <2>2. QED
    BY <1>2, <1>3, <2>1, SetItemShape
<1>5. SameShape(es, cc)
  <2> HIDE DEF cc, es, fs
  <2>1. Len(cc) \in Nat
    BY <1>2, ChunkSetFacts
  <2>2. QED
    BY <1>3, <1>4, <2>1, ShapeTransitive
<1>6. n \in Nat /\ p \in Nat
  BY <1>1, <1>2, SumFacts
<1>7. ASSUME NEW f \in 0 .. n, f \notin U PROVE Reads(us)[f] = Reads(ts)[f]
  <2>1. f # p /\ (\A i \in S : (IF i < p THEN i ELSE i + 1) # f)
    BY <1>7 DEF CS!ShiftUp
  <2> DEFINE g == IF f < p THEN f ELSE f - 1
  <2>2. /\ g \in 0 .. n - 1 /\ g \in Nat /\ f \in Nat
        /\ f = (IF g < p THEN g ELSE g + 1) /\ g \notin S
    BY <1>2, <1>6, <2>1
  <2>3. Reads(ts)[f] = Reads(st)[g]
    BY <1>2, <2>1, <1>6
  <2>4. Reads(rt)[g] = Reads(st)[g]
    BY <1>1, <2>2
  <2>5. g < SizeSums(ds)[Len(ds)] /\ FlatStart(ds, lv) = p
    <3>1. Count(ds) = n /\ FlatStart(ds, lv) = p
      BY <1>1, SameShapeFacts
    <3>2. QED
      BY <1>6, <2>2, <3>1 DEF Count
  <2> HIDE DEF g, p
  <2>6. GetItem(rt, g) = GetItem(us, IF g < p THEN g ELSE g + 1)
    <3>1. GetItem(RebuildIndexMetadata(ds), g)
            = GetItem(RebuildIndexMetadata(AddToChunkSets(ds, lv, s, e)),
                      IF g < FlatStart(ds, lv) THEN g ELSE g + 1)
      BY <1>1, <2>2, <2>5, AddReads
    <3>2. QED
      BY <2>5, <3>1
  <2>7. GetItem(rt, g) = GetItem(us, f)
    BY <2>2, <2>6
  <2>8. Reads(us)[f] = Reads(rt)[g]
    BY <2>2, <2>7 DEF Reads
  <2>9. QED
    BY <2>3, <2>4, <2>8
<1>8. Alike(es, cc, U)
  <2>1. (0 .. Count(cc) - 1) \ U = (0 .. n) \ U
    BY <1>2, <1>6
  <2>2. \A f \in (0 .. Count(cc) - 1) \ U : Reads(us)[f] = Reads(RebuildIndexMetadata(cc))[f]
    <3> HIDE DEF us, cc, ts, U, n
    <3>1. QED
      BY <1>2, <1>7, <2>1
  <2> HIDE DEF es, cc, U
  <2>3. QED
    BY <1>2, <1>3, <1>5, <2>2 DEF Alike
<1>9. AddItemStructure(rt, lv, s, e) = us
  BY <1>1, AddMetadata
<1>10. QED
  <2> HIDE DEF es, cc, U, us
  <2>1. QED
    BY <1>2, <1>8, <1>9 DEF us, cc, U, es

\* A deletion from both.
LEMMA DeleteAlike ==
  ASSUME NEW cs, NEW ds, NEW S, Alike(ds, cs, S), S \subseteq Nat, NEW lv \in Levels,
         NEW count \in Nat \ {0}, NEW t,
         count <= LevelSize(RebuildIndexMetadata(cs), lv),
         t \in Nat \/ TrimCount(cs, lv, count) = 0
  PROVE  LET es == DeleteFromChunkSets(ds, lv, count, t)
             fs == DeleteFromChunkSets(cs, lv, count, t)
             p  == FlatStart(cs, lv + 1)
         IN  /\ DeleteNItems(RebuildIndexMetadata(ds), lv, count, t)
                  = RebuildIndexMetadata(es)
             /\ count <= LevelSize(RebuildIndexMetadata(ds), lv)
             /\ TrimCount(ds, lv, count) = TrimCount(cs, lv, count)
             /\ DeleteNItems(RebuildIndexMetadata(cs), lv, count, t)
                  = RebuildIndexMetadata(fs)
             /\ Alike(es, fs, CS!ShiftDown(S, p, count))
<1> DEFINE es == DeleteFromChunkSets(ds, lv, count, t)
           fs == DeleteFromChunkSets(cs, lv, count, t)
           st == RebuildIndexMetadata(cs)
           rt == RebuildIndexMetadata(ds)
           ts == RebuildIndexMetadata(fs)
           us == RebuildIndexMetadata(es)
           p  == FlatStart(cs, lv + 1)
           n  == Count(cs)
           U  == CS!ShiftDown(S, p, count)
<1>1. /\ WellFormed(cs, Nat, Values) /\ WellFormed(ds, Nat, Values)
      /\ SameShape(ds, cs)
      /\ \A f \in (0 .. n - 1) \ S : Reads(rt)[f] = Reads(st)[f]
  BY DEF Alike
<1>2. /\ count <= LevelSize(rt, lv)
      /\ TrimCount(ds, lv, count) = TrimCount(cs, lv, count)
      /\ SameShape(es, fs)
  BY <1>1, DeleteShape
<1>3. /\ WellFormed(fs, Nat, Values)
      /\ DeleteNItems(st, lv, count, t) = ts
      /\ p \in Nat /\ p + count <= n /\ Count(fs) = n - count
      /\ \A f \in 0 .. n - count - 1 :
           Reads(ts)[f] = IF f < p THEN Reads(st)[f] ELSE Reads(st)[f + count]
  <2>1. Deleted(cs, lv, count, t)
    BY <1>1, DeletedItems
  <2>2. QED
    BY <2>1 DEF Deleted
<1>4. Count(ds) = n /\ FlatStart(ds, lv + 1) = p /\ n \in Nat
  BY <1>1, SameShapeFacts, SumFacts
<1>5. /\ WellFormed(es, Nat, Values)
      /\ DeleteNItems(rt, lv, count, t) = us
      /\ \A f \in 0 .. n - count - 1 :
           Reads(us)[f] = IF f < p THEN Reads(rt)[f] ELSE Reads(rt)[f + count]
  <2>1. Deleted(ds, lv, count, t)
    BY <1>1, <1>2, DeletedItems
  <2>2. QED
    BY <1>4, <2>1 DEF Deleted
<1> HIDE DEF es, fs, st, rt, ts, us, p, n
<1>6. ASSUME NEW f \in 0 .. n - count - 1, f \notin U PROVE Reads(us)[f] = Reads(ts)[f]
  <2> DEFINE g == IF f < p THEN f ELSE f + count
  <2>1. g \in 0 .. n - 1 /\ (g < p \/ g >= p + count)
        /\ f = (IF g < p THEN g ELSE g - count)
    BY <1>3, <1>4
  <2>2. g \notin S
    <3>1. ASSUME g \in S PROVE f \in U
      <4>1. g \in {j \in S : j < p \/ j >= p + count}
        BY <2>1, <3>1
      <4> HIDE DEF g
      <4>2. QED
        BY <2>1, <4>1 DEF U, CS!ShiftDown
    <3>2. QED
      BY <1>6, <3>1
  <2>3. Reads(rt)[g] = Reads(st)[g]
    <3> HIDE DEF g
    <3>1. QED
      BY <1>1, <2>1, <2>2
  <2>4. QED
    BY <1>3, <1>5, <2>3
<1>7. Alike(es, fs, U)
  <2>1. \A f \in (0 .. Count(fs) - 1) \ U :
          Reads(RebuildIndexMetadata(es))[f] = Reads(RebuildIndexMetadata(fs))[f]
    <3> HIDE DEF U
    <3>1. QED
      BY <1>3, <1>4, <1>6 DEF us, ts
  <2> HIDE DEF U
  <2>2. QED
    BY <1>2, <1>3, <1>5, <2>1 DEF Alike
<1>8. QED
  BY <1>2, <1>3, <1>5, <1>7 DEF es, fs, st, rt, ts, us, p

\* A write to the storage that the replica does not have.
LEMMA SetAlike ==
  ASSUME NEW cs, NEW ds, NEW S, Alike(ds, cs, S), NEW p \in 0 .. Count(cs) - 1,
         NEW item \in Values
  PROVE  LET ts == SetItem(RebuildIndexMetadata(cs), p, item)
         IN  /\ ts = RebuildIndexMetadata(ts.chunkSets)
             /\ Alike(ds, ts.chunkSets, S \cup {p})
<1> DEFINE st == RebuildIndexMetadata(cs)
           ts == SetItem(st, p, item)
           cc == ts.chunkSets
           n  == Count(cs)
<1>1. /\ WellFormed(cs, Nat, Values) /\ WellFormed(ds, Nat, Values)
      /\ SameShape(ds, cs)
      /\ \A f \in (0 .. n - 1) \ S : Reads(RebuildIndexMetadata(ds))[f] = Reads(st)[f]
  BY DEF Alike
<1>2. /\ WellFormed(cc, Nat, Values) /\ ts = RebuildIndexMetadata(cc)
      /\ Len(cc) = Len(cs) /\ Count(cc) = n
  BY <1>1, SetItemHeaders
<1>3. SameShape(ds, cc)
  <2>1. SameShape(cs, cc)
    BY <1>1, <1>2, SetItemShape
  <2> HIDE DEF cc
  <2>2. Len(cc) \in Nat
    BY <1>2, ChunkSetFacts
  <2>3. QED
    BY <1>1, <2>1, <2>2, ShapeTransitive
<1>4. ASSUME NEW f \in 0 .. n - 1, f \notin S, f # p
      PROVE  Reads(RebuildIndexMetadata(ds))[f] = Reads(ts)[f]
  <2>1. n \in Nat /\ p \in Nat /\ f \in Nat /\ p < n /\ f < n
    BY <1>1, SumFacts
  <2>2. GetItem(ts, f) = GetItem(st, f)
    <3>1. p < SizeSums(cs)[Len(cs)] /\ f < SizeSums(cs)[Len(cs)]
      BY <2>1 DEF Count
    <3>2. GetItem(SetItem(RebuildIndexMetadata(cs), p, item), f)
           = IF f = p THEN item ELSE GetItem(RebuildIndexMetadata(cs), f)
      BY <1>1, <2>1, <3>1, SetItemReads
    <3>3. QED
      BY <1>4, <3>2
  <2>3. Reads(ts)[f] = Reads(st)[f]
    BY <2>1, <2>2 DEF Reads
  <2>4. QED
    BY <1>1, <1>4, <2>3
<1>5. Alike(ds, cc, S \cup {p})
  <2>1. \A f \in (0 .. Count(cc) - 1) \ (S \cup {p}) :
          Reads(RebuildIndexMetadata(ds))[f] = Reads(RebuildIndexMetadata(cc))[f]
    <3> HIDE DEF cc, ts, n
    <3>1. QED
      BY <1>2, <1>4
  <2> HIDE DEF cc
  <2>2. QED
    BY <1>1, <1>2, <1>3, <2>1 DEF Alike
<1>6. QED
  BY <1>2, <1>5

-----------------------------------------------------------------------------
(* The values a delta carries.                                             *)

\* The changes of the items of the storage that are noted as changed.
ChangedItems == {ItemChange(i) : i \in changed}

\* A place of a chunk set has one flat index.
LEMMA PlaceOfItem ==
  ASSUME NEW cs, WellFormed(cs, Nat, Values), NEW f \in 0 .. Count(cs) - 1
  PROVE  \E i \in 1 .. Len(cs) : \E s \in Nat :
           /\ s < cs[i].size /\ f = SizeSums(cs)[i - 1] + s
           /\ ChunkAndPos(RebuildIndexMetadata(cs), f) = [chunkSet |-> i, slot |-> cs[i].start + s]
           /\ GetItem(RebuildIndexMetadata(cs), f) = cs[i].items[cs[i].start + s]
           /\ cs[i].start + s \in Slots
           /\ GetItem(RebuildIndexMetadata(cs), f) \in Values
<1>1. f \in Nat /\ f < SizeSums(cs)[Len(cs)]
  BY SumFacts DEF Count
<1>2. PICK i \in 1 .. Len(cs) : \E s \in 0 .. cs[i].size - 1 : f = SizeSums(cs)[i - 1] + s
  BY <1>1, FlatIndexHasPlace
<1>3. PICK s \in 0 .. cs[i].size - 1 : f = SizeSums(cs)[i - 1] + s
  BY <1>2
<1>4. cs[i] \in ChunkSetOf(Nat, Values) /\ GeometryOK(cs[i]) /\ cs[i].size \in Nat
  BY ChunkSetFacts
<1>5. s \in Nat /\ s < cs[i].size
  BY <1>3, <1>4
<1>6. /\ ChunkAndPos(RebuildIndexMetadata(cs), f) = [chunkSet |-> i, slot |-> cs[i].start + s]
      /\ GetItem(RebuildIndexMetadata(cs), f) = cs[i].items[cs[i].start + s]
  <2>1. LET flatIndex == SizeSums(cs)[i - 1] + s
             st == RebuildIndexMetadata(cs)
         IN  /\ flatIndex \in Nat
             /\ ChunkAndPos(st, flatIndex)
                  = [chunkSet |-> i, slot |-> cs[i].start + s]
             /\ GetItem(st, flatIndex) = cs[i].items[cs[i].start + s]
    BY <1>5, FlatIndexIs
  <2>2. QED
    BY <1>3, <2>1
<1>7. cs[i].start + s \in Slots
  BY <1>4, <1>5, CapacityAssumption DEF GeometryOK, ChunkSetOf, Slots
<1>8. cs[i].items[cs[i].start + s] \in Values
  BY <1>4, <1>7 DEF ChunkSetOf
<1>9. QED
  BY <1>3, <1>5, <1>6, <1>7, <1>8

\* A changed item is addressed by its chunk set and its place there.
LEMMA ItemChangeIs ==
  ASSUME WellFormed(storage.chunkSets, Nat, Values),
         storage = RebuildIndexMetadata(storage.chunkSets),
         NEW f \in 0 .. Count(storage.chunkSets) - 1
  PROVE  LET cs == storage.chunkSets
         IN  \E i \in 1 .. Len(cs) : \E s \in Nat :
               /\ s < cs[i].size /\ f = SizeSums(cs)[i - 1] + s
               /\ ItemChange(f) = [ chunkSetIndex |-> i, startItemIndex |-> s,
                                    item |-> GetItem(storage, f) ]
               /\ GetItem(storage, f) \in Values
<1> DEFINE cs == storage.chunkSets
<1>1. PICK i \in 1 .. Len(cs) : \E s \in Nat :
           /\ s < cs[i].size /\ f = SizeSums(cs)[i - 1] + s
           /\ ChunkAndPos(RebuildIndexMetadata(cs), f) = [chunkSet |-> i, slot |-> cs[i].start + s]
           /\ GetItem(RebuildIndexMetadata(cs), f) \in Values
  BY PlaceOfItem
<1>2. PICK s \in Nat :
           /\ s < cs[i].size /\ f = SizeSums(cs)[i - 1] + s
           /\ ChunkAndPos(RebuildIndexMetadata(cs), f) = [chunkSet |-> i, slot |-> cs[i].start + s]
           /\ GetItem(RebuildIndexMetadata(cs), f) \in Values
  BY <1>1
<1>3. ChunkAndPos(storage, f) = [chunkSet |-> i, slot |-> cs[i].start + s]
  BY <1>2
<1>4. cs[i].start \in Nat
  BY ChunkSetFacts DEF ChunkSetOf
<1>5. ItemChange(f) = [ chunkSetIndex |-> i, startItemIndex |-> s,
                        item |-> GetItem(storage, f) ]
  BY <1>2, <1>3, <1>4 DEF ItemChange
<1>6. GetItem(storage, f) \in Values
  BY <1>2
<1>7. QED
  BY <1>2, <1>5, <1>6

\* The structure of the replica is that of the storage when the values are
\* written: every address exists, and afterwards the two read alike.
LEMMA WrittenAlike ==
  ASSUME NEW ds, Alike(ds, storage.chunkSets, changed),
         storage = RebuildIndexMetadata(storage.chunkSets),
         changed \subseteq 0 .. Count(storage.chunkSets) - 1
  PROVE  LET rt == RebuildIndexMetadata(ds)
             ws == WriteItems(rt, ChangedItems)
         IN  /\ AddressesOK(rt, ChangedItems)
             /\ Alike(ws, storage.chunkSets, {})
             /\ SameShape(ws, ds)
             /\ \A f \in (0 .. Count(ds) - 1) \ changed :
                  Reads(RebuildIndexMetadata(ws))[f] = Reads(rt)[f]
<1> DEFINE cs == storage.chunkSets
           N  == Len(cs)
           S  == SizeSums(cs)
           n  == Count(cs)
           rt == RebuildIndexMetadata(ds)
           ws == WriteItems(rt, ChangedItems)
           E  == ChangedItems
<1>1. /\ WellFormed(cs, Nat, Values) /\ WellFormed(ds, Nat, Values)
      /\ SameShape(ds, cs)
      /\ \A f \in (0 .. n - 1) \ changed : Reads(rt)[f] = Reads(storage)[f]
  BY DEF Alike
<1>2. /\ N \in Nat /\ Len(ds) = N /\ DOMAIN ds = 1 .. N /\ DOMAIN cs = 1 .. N
      /\ \A i \in 1 .. N : /\ ds[i].size = cs[i].size /\ cs[i].size \in Nat
                           /\ ds[i] \in ChunkSetOf(Nat, Values)
                           /\ GeometryOK(ds[i])
  BY <1>1, ChunkSetFacts DEF SameShape
<1>3. SizeSums(ds) = S /\ Count(ds) = n /\ n \in Nat
  BY <1>1, SameShapeFacts, SumFacts
<1>4. rt.chunkSets = ds
  BY RebuildFields
<1>5. ASSUME NEW f \in changed
      PROVE  \E i \in 1 .. N : \E s \in Nat :
               /\ s < cs[i].size /\ f = S[i - 1] + s
               /\ ItemChange(f) = [ chunkSetIndex |-> i, startItemIndex |-> s,
                                    item |-> GetItem(storage, f) ]
               /\ GetItem(storage, f) \in Values
  BY <1>1, ItemChangeIs
<1>6. ASSUME NEW c \in E
      PROVE  \E f \in changed : \E i \in 1 .. N : \E s \in Nat :
               /\ s < cs[i].size /\ f = S[i - 1] + s
               /\ c = [ chunkSetIndex |-> i, startItemIndex |-> s,
                        item |-> GetItem(storage, f) ]
               /\ GetItem(storage, f) \in Values
  <2>1. PICK f \in changed : c = ItemChange(f)
    BY DEF ChangedItems
  <2> HIDE DEF S, cs, N
  <2>2. QED
    BY <1>5, <2>1
<1> HIDE DEF S, N, n, cs
<1>7. AddressesOK(rt, E)
  <2>1. ASSUME NEW c \in E
        PROVE  c.chunkSetIndex \in DOMAIN ds /\ c.startItemIndex < ds[c.chunkSetIndex].size
    BY <1>2, <1>6
  <2> HIDE DEF E
  <2>2. QED
    BY <1>4, <2>1 DEF AddressesOK
<1> DEFINE W(i, slot) == WrittenItem(rt, E, i, slot)
<1>8. ASSUME NEW i \in 1 .. N, NEW slot \in Slots PROVE W(i, slot) \in Values
  <2> DEFINE here == {c \in E : c.chunkSetIndex = i /\ ds[i].start + c.startItemIndex = slot}
  <2>1. W(i, slot) = IF here = {} THEN ds[i].items[slot] ELSE (CHOOSE c \in here : TRUE).item
    <3> HIDE DEF E
    <3>1. QED
      BY <1>4 DEF WrittenItem
  <2>2. CASE here = {}
    BY <1>2, <2>1, <2>2 DEF ChunkSetOf
  <2>3. CASE here # {}
    <3>1. (CHOOSE c \in here : TRUE) \in here
      BY <2>3
    <3>2. (CHOOSE c \in here : TRUE) \in E
      BY <3>1
    <3>3. (CHOOSE c \in here : TRUE).item \in Values
      <4> DEFINE d == CHOOSE c \in here : TRUE
      <4> HIDE DEF d
      <4>1. d \in E
        BY <3>2 DEF d
      <4> HIDE DEF E
      <4>2. d.item \in Values
        BY <1>6, <4>1
      <4>3. QED
        BY <4>2 DEF d
    <3> HIDE DEF here
    <3>4. QED
      BY <2>1, <2>3, <3>3
  <2>4. QED
    BY <2>2, <2>3
<1>9. ws = [i \in 1 .. N |-> [ds[i] EXCEPT !.items = [slot \in Slots |-> W(i, slot)]]]
  BY <1>2, <1>4 DEF WriteItems
<1> HIDE DEF W, ws
<1>10. ASSUME NEW i \in 1 .. N
       PROVE  /\ ws[i] \in ChunkSetOf(Nat, Values)
              /\ ws[i].level = ds[i].level /\ ws[i].size = ds[i].size
              /\ ws[i].start = ds[i].start /\ ws[i].end = ds[i].end
              /\ ws[i].startedAt = ds[i].startedAt /\ ws[i].endedAt = ds[i].endedAt
              /\ ws[i].items = [slot \in Slots |-> W(i, slot)]
  <2> DEFINE X == [slot \in Slots |-> W(i, slot)]
  <2>1. X \in [Slots -> Values]
    BY <1>8
  <2>2. ws[i] = [ds[i] EXCEPT !.items = X]
    BY <1>9
  <2> HIDE DEF X
  <2>3. /\ ws[i] \in ChunkSetOf(Nat, Values)
        /\ ws[i].level = ds[i].level /\ ws[i].size = ds[i].size
        /\ ws[i].start = ds[i].start /\ ws[i].end = ds[i].end
        /\ ws[i].startedAt = ds[i].startedAt /\ ws[i].endedAt = ds[i].endedAt
        /\ ws[i].items = X
    BY <1>2, <2>1, <2>2 DEF ChunkSetOf
  <2>4. QED
    BY <2>3 DEF X
<1>11. /\ ws \in Seq(ChunkSetOf(Nat, Values)) /\ Len(ws) = N /\ DOMAIN ws = 1 .. N
  <2>1. \A i \in 1 .. N : ws[i] \in ChunkSetOf(Nat, Values)
    BY <1>10
  <2>2. DOMAIN ws = 1 .. N
    BY <1>9
  <2>3. ws = [i \in 1 .. N |-> ws[i]]
    BY <1>9
  <2> DEFINE T == ChunkSetOf(Nat, Values)
  <2> HIDE DEF T
  <2>4. ws \in [1 .. N -> T]
    BY <2>1, <2>3 DEF T
  <2>5. ws \in Seq(T)
    BY <1>2, <2>4
  <2>6. QED
    BY <1>2, <2>2, <2>5 DEF T
<1>12. WellFormed(ws, Nat, Values)
  <2>1. LevelsDescend(ws)
    <3>1. LevelsDescend(ds)
      BY <1>1 DEF WellFormed
    <3>2. QED
      BY <1>2, <1>10, <1>11, <3>1 DEF LevelsDescend
  <2>2. \A i \in DOMAIN ws : GeometryOK(ws[i])
    BY <1>2, <1>10, <1>11 DEF GeometryOK
  <2>3. QED
    BY <1>11, <2>1, <2>2 DEF WellFormed
<1>13. SameShape(ws, ds)
  BY <1>2, <1>10, <1>11 DEF SameShape
<1>14. SizeSums(ws) = S /\ SameShape(ws, cs)
  BY <1>1, <1>2, <1>3, <1>12, <1>13, SameShapeFacts, ShapeTransitive DEF N
<1> DEFINE us == RebuildIndexMetadata(ws)
<1>15. ASSUME NEW f \in 0 .. n - 1
       PROVE  Reads(us)[f] = IF f \in changed THEN GetItem(storage, f) ELSE Reads(rt)[f]
  <2>1. PICK i \in 1 .. N : \E s \in Nat :
           /\ s < ds[i].size /\ f = S[i - 1] + s
           /\ GetItem(rt, f) = ds[i].items[ds[i].start + s]
           /\ ds[i].start + s \in Slots
    BY <1>1, <1>2, <1>3, PlaceOfItem DEF N
  <2>2. PICK s \in Nat :
           /\ s < ds[i].size /\ f = S[i - 1] + s
           /\ GetItem(rt, f) = ds[i].items[ds[i].start + s]
           /\ ds[i].start + s \in Slots
    BY <2>1
  <2> DEFINE q == ds[i].start + s
  <2>3. GetItem(us, f) = W(i, q)
    <3>1. i \in 1 .. Len(ws) /\ s < ws[i].size
      BY <1>10, <1>11, <2>2
    <3>2. LET flatIndex == SizeSums(ws)[i - 1] + s
              st == RebuildIndexMetadata(ws)
          IN  /\ flatIndex \in Nat
              /\ ChunkAndPos(st, flatIndex)
                  = [chunkSet |-> i, slot |-> ws[i].start + s]
              /\ GetItem(st, flatIndex) = ws[i].items[ws[i].start + s]
      BY <1>12, <3>1, FlatIndexIs
    <3>3. GetItem(us, f) = ws[i].items[ws[i].start + s]
      BY <1>14, <2>2, <3>2
    <3>4. ws[i].items = [slot \in Slots |-> W(i, slot)] /\ ws[i].start + s = q
      BY <1>10
    <3>5. QED
      BY <2>2, <3>3, <3>4
  <2> DEFINE here == {c \in E : c.chunkSetIndex = i /\ ds[i].start + c.startItemIndex = q}
  <2>4. W(i, q) = IF here = {} THEN ds[i].items[q] ELSE (CHOOSE c \in here : TRUE).item
    <3> HIDE DEF E
    <3>1. QED
      BY <1>4 DEF W, WrittenItem
  <2>5. ds[i].start \in Nat
    BY <1>2 DEF ChunkSetOf
  <2>6. \A c \in here : f \in changed /\ c.item = GetItem(storage, f)
    <3> SUFFICES ASSUME NEW c \in here PROVE f \in changed /\ c.item = GetItem(storage, f)
      OBVIOUS
    <3>1. c \in E /\ c.chunkSetIndex = i /\ ds[i].start + c.startItemIndex = ds[i].start + s
      OBVIOUS
    <3>2. PICK g \in changed : \E j \in 1 .. N : \E z \in Nat :
               /\ z < cs[j].size /\ g = S[j - 1] + z
               /\ c = [ chunkSetIndex |-> j, startItemIndex |-> z,
                        item |-> GetItem(storage, g) ]
      BY <1>6, <3>1
    <3>3. PICK j \in 1 .. N : \E z \in Nat :
               /\ z < cs[j].size /\ g = S[j - 1] + z
               /\ c = [ chunkSetIndex |-> j, startItemIndex |-> z,
                        item |-> GetItem(storage, g) ]
      BY <3>2
    <3>4. PICK z \in Nat :
               /\ z < cs[j].size /\ g = S[j - 1] + z
               /\ c = [ chunkSetIndex |-> j, startItemIndex |-> z,
                        item |-> GetItem(storage, g) ]
      BY <3>3
    <3>5. j = i /\ z = s
      BY <2>5, <3>1, <3>4
    <3>6. g = f
      BY <2>2, <3>4, <3>5
    <3>7. QED
      BY <3>2, <3>4, <3>6
  <2>7. ASSUME f \in changed PROVE here # {}
    <3>1. PICK j \in 1 .. N : \E z \in Nat :
               /\ z < cs[j].size /\ f = S[j - 1] + z
               /\ ItemChange(f) = [ chunkSetIndex |-> j, startItemIndex |-> z,
                                    item |-> GetItem(storage, f) ]
      BY <1>5, <2>7
    <3>2. PICK z \in Nat :
               /\ z < cs[j].size /\ f = S[j - 1] + z
               /\ ItemChange(f) = [ chunkSetIndex |-> j, startItemIndex |-> z,
                                    item |-> GetItem(storage, f) ]
      BY <3>1
    <3>3. j = i /\ z = s
      <4>1. ChunkAndPos(rt, f) = [chunkSet |-> i, slot |-> ds[i].start + s]
        <5>1. i \in 1 .. Len(ds) /\ SizeSums(ds) = S
          BY <1>2, <1>3
        <5>2. LET flatIndex == SizeSums(ds)[i - 1] + s
                  st == RebuildIndexMetadata(ds)
              IN  /\ flatIndex \in Nat
                  /\ ChunkAndPos(st, flatIndex)
                      = [chunkSet |-> i, slot |-> ds[i].start + s]
                  /\ GetItem(st, flatIndex) = ds[i].items[ds[i].start + s]
          BY <1>1, <2>2, <5>1, FlatIndexIs
        <5>3. QED
          BY <2>2, <5>1, <5>2
      <4>2. ChunkAndPos(rt, f) = [chunkSet |-> j, slot |-> ds[j].start + z]
        <5>1. j \in 1 .. Len(ds) /\ SizeSums(ds) = S /\ z < ds[j].size
          BY <1>2, <1>3, <3>2
        <5>2. LET flatIndex == SizeSums(ds)[j - 1] + z
                  st == RebuildIndexMetadata(ds)
              IN  /\ flatIndex \in Nat
                  /\ ChunkAndPos(st, flatIndex)
                      = [chunkSet |-> j, slot |-> ds[j].start + z]
                  /\ GetItem(st, flatIndex) = ds[j].items[ds[j].start + z]
          BY <1>1, <3>2, <5>1, FlatIndexIs
        <5>3. QED
          BY <3>2, <5>1, <5>2
      <4>3. j = i
        BY <4>1, <4>2
      <4>4. ds[i].start + z = ds[i].start + s
        BY <4>1, <4>2, <4>3
      <4>5. QED
        BY <2>5, <4>3, <4>4
    <3>4. ItemChange(f) \in E
      BY <2>7 DEF ChangedItems
    <3>5. ItemChange(f) \in here
      BY <3>2, <3>3, <3>4
    <3>6. QED
      BY <3>5
  <2>8. Reads(us)[f] = GetItem(us, f) /\ Reads(rt)[f] = GetItem(rt, f)
    BY <1>3 DEF Reads
  <2>9. CASE f \in changed
    <3>1. (CHOOSE c \in here : TRUE) \in here
      BY <2>7, <2>9
    <3>2. (CHOOSE c \in here : TRUE).item = GetItem(storage, f)
      <4> DEFINE d == CHOOSE c \in here : TRUE
      <4> HIDE DEF d, here
      <4>1. d \in here
        BY <3>1 DEF d
      <4>2. QED
        BY <2>6, <4>1 DEF d
    <3> HIDE DEF here, us, rt
    <3>3. QED
      BY <2>3, <2>4, <2>7, <2>8, <2>9, <3>2
  <2>10. CASE f \notin changed
    <3>1. here = {}
      BY <2>6, <2>10
    <3> HIDE DEF here, us, rt
    <3>2. QED
      BY <2>2, <2>3, <2>4, <2>8, <2>10, <3>1
  <2>11. QED
    BY <2>9, <2>10
<1>16. \A f \in 0 .. n - 1 : Reads(us)[f] = Reads(storage)[f]
  <2>1. ASSUME NEW f \in 0 .. n - 1 PROVE Reads(storage)[f] = GetItem(storage, f)
    BY <1>3 DEF Reads
  <2> HIDE DEF us, rt
  <2>2. QED
    BY <1>1, <1>15, <2>1
<1>17. Alike(ws, cs, {})
  <2>1. \A f \in (0 .. Count(cs) - 1) \ {} :
          Reads(RebuildIndexMetadata(ws))[f] = Reads(RebuildIndexMetadata(cs))[f]
    <3>1. RebuildIndexMetadata(cs) = storage /\ Count(cs) = n
      BY DEF cs, n
    <3> HIDE DEF us
    <3>2. QED
      BY <1>16, <3>1 DEF us
  <2> HIDE DEF us, rt
  <2>2. QED
    BY <1>1, <1>12, <1>14, <2>1 DEF Alike
<1>18. \A f \in (0 .. Count(ds) - 1) \ changed : Reads(us)[f] = Reads(rt)[f]
  <2> HIDE DEF us, rt
  <2>1. QED
    BY <1>3, <1>15
<1>19. QED
  BY <1>7, <1>13, <1>17, <1>18 DEF ws, cs

-----------------------------------------------------------------------------
(* Snapshots, and what alike means to a reader.                            *)

\* The chunk sets the levels grow in have not lost items at their front.
GrowingWhole(cs) == \A i \in 1 .. Len(cs) : LastOfLevel(cs, i) => cs[i].start = 0

\* A snapshot moves the items of each chunk set to its front; where that is so
\* already in the chunk sets the levels grow in, the snapshot is like the
\* storage.
LEMMA SnapshotAlike ==
  ASSUME NEW cs, WellFormed(cs, Nat, Values), GrowingWhole(cs)
  PROVE  Alike(Snapshot(cs), cs, {})
<1> DEFINE ds == Snapshot(cs)
           n == Count(cs)
<1>1. /\ Len(cs) \in Nat /\ DOMAIN cs = 1 .. Len(cs)
      /\ \A i \in 1 .. Len(cs) : cs[i] \in ChunkSetOf(Nat, Values)
  BY ChunkSetFacts
<1>2. WellFormed(ds, Nat, Values)
  BY SnapshotWellFormed DEF Values
<1>3. Len(ds) = Len(cs)
  BY <1>1 DEF Snapshot
<1>4. ASSUME NEW i \in 1 .. Len(cs)
      PROVE  /\ ds[i].level = cs[i].level /\ ds[i].size = cs[i].size
             /\ ds[i].startedAt = cs[i].startedAt /\ ds[i].endedAt = cs[i].endedAt
             /\ ds[i].start = 0
  BY <1>1 DEF Snapshot, Compact, ChunkSetOf
<1>5. SameShape(ds, cs)
  <2> HIDE DEF ds
  <2>1. QED
    BY <1>3, <1>4 DEF SameShape, GrowingWhole
<1>6. \A f \in 0 .. n - 1 : Reads(RebuildIndexMetadata(ds))[f] = Reads(RebuildIndexMetadata(cs))[f]
  <2> HIDE DEF ds
  <2>1. ASSUME NEW f \in 0 .. n - 1
        PROVE  Reads(RebuildIndexMetadata(ds))[f] = Reads(RebuildIndexMetadata(cs))[f]
    <3>1. PICK i \in 1 .. Len(cs) : \E s \in Nat :
             /\ s < cs[i].size /\ f = SizeSums(cs)[i - 1] + s
             /\ GetItem(RebuildIndexMetadata(cs), f) = cs[i].items[cs[i].start + s]
             /\ cs[i].start + s \in Slots
      BY PlaceOfItem
    <3>2. PICK s \in Nat :
             /\ s < cs[i].size /\ f = SizeSums(cs)[i - 1] + s
             /\ GetItem(RebuildIndexMetadata(cs), f) = cs[i].items[cs[i].start + s]
             /\ cs[i].start + s \in Slots
      BY <3>1
    <3>3. i \in 1 .. Len(ds) /\ s < ds[i].size /\ SizeSums(ds) = SizeSums(cs)
      BY <1>2, <1>3, <1>4, <1>5, <3>2, SameShapeFacts
    <3>4. LET flatIndex == SizeSums(ds)[i - 1] + s
              st == RebuildIndexMetadata(ds)
          IN  /\ flatIndex \in Nat
              /\ ChunkAndPos(st, flatIndex) = [chunkSet |-> i, slot |-> ds[i].start + s]
              /\ GetItem(st, flatIndex) = ds[i].items[ds[i].start + s]
      BY <1>2, <3>3, FlatIndexIs
    <3>5. GetItem(RebuildIndexMetadata(ds), f) = ds[i].items[s] /\ f \in Nat
      <4>1. ds[i].start + s = s
        BY <1>4
      <4>2. QED
        BY <3>2, <3>3, <3>4, <4>1
    <3>6. ds[i].items[s] = cs[i].items[cs[i].start + s]
      <4>1. s \in Slots
        <5>1. cs[i].size \in 0 .. STORAGE_CHUNK_CAPACITY
          BY <1>1 DEF ChunkSetOf
        <5>2. QED
          BY <3>2, <5>1, CapacityAssumption DEF Slots
      <4>2. ds[i] = Compact(cs[i])
        BY <1>1 DEF ds, Snapshot
      <4>3. cs[i] \in ChunkSetOf(Nat, Values)
        BY <1>1
      <4>4. QED
        BY <3>2, <4>1, <4>2, <4>3 DEF Compact, ChunkSetOf
    <3>7. QED
      BY <3>2, <3>5, <3>6 DEF Reads
  <2>2. QED
    BY <2>1
<1>7. QED
  <2> HIDE DEF ds
  <2>1. QED
    <3>1. \A f \in (0 .. Count(cs) - 1) \ {} :
            Reads(RebuildIndexMetadata(ds))[f] = Reads(RebuildIndexMetadata(cs))[f]
      BY <1>6
    <3>2. Alike(ds, cs, {})
      BY <1>2, <1>5, <3>1 DEF Alike
    <3>3. QED
      BY <3>2 DEF ds

\* The params of a delta are the same for both.
LEMMA SameShapeParams ==
  ASSUME NEW cs, WellFormed(cs, Nat, Values), NEW ds, WellFormed(ds, Nat, Values),
         SameShape(ds, cs)
  PROVE  /\ Params(RebuildIndexMetadata(ds)) = Params(RebuildIndexMetadata(cs))
         /\ RebuildIndexMetadata(ds).boundaries = RebuildIndexMetadata(cs).boundaries
         /\ Size(RebuildIndexMetadata(ds)) = Count(cs)
         /\ Size(RebuildIndexMetadata(cs)) = Count(cs)
<1> DEFINE st == RebuildIndexMetadata(cs)
           rt == RebuildIndexMetadata(ds)
           N == Len(cs)
<1>1. /\ rt = [st EXCEPT !.chunkSets = ds]
      /\ rt.chunkSets = ds /\ st.chunkSets = cs
      /\ DOMAIN st = {"chunkSets", "flatEnds", "boundaries", "startLevel0Index"}
  BY SameShapeFacts, RebuildFields
<1>2. rt.flatEnds = st.flatEnds /\ rt.boundaries = st.boundaries
  BY <1>1
<1>3. Size(rt) = Size(st) /\ Size(st) = Count(cs)
  BY <1>2, SizeIs DEF Size, Count
<1>4. /\ N \in Nat /\ Len(ds) = N
      /\ cs \in Seq(ChunkSetOf(Nat, Values)) /\ ds \in Seq(ChunkSetOf(Nat, Values))
      /\ \A i \in 1 .. N : ds[i].startedAt = cs[i].startedAt /\ ds[i].endedAt = cs[i].endedAt
  BY ChunkSetFacts DEF SameShape, WellFormed
<1>5. ds = <<>> <=> cs = <<>>
  BY <1>4
<1>6. cs # <<>> => N \in 1 .. N /\ 1 \in 1 .. N
  BY <1>4
<1>7. StartedAt(rt) = StartedAt(st) /\ EndedAt(rt) = EndedAt(st)
  <2> HIDE DEF rt, st, N
  <2>1. QED
    BY <1>1, <1>4, <1>5, <1>6 DEF StartedAt, EndedAt, N
<1>8. QED
  BY <1>2, <1>3, <1>7 DEF Params

\* A reader cannot tell two storages apart that are alike in every item.
LEMMA AlikeViews ==
  ASSUME NEW cs, NEW ds, Alike(ds, cs, {})
  PROVE  View(RebuildIndexMetadata(ds)) = View(RebuildIndexMetadata(cs))
<1> DEFINE st == RebuildIndexMetadata(cs)
           rt == RebuildIndexMetadata(ds)
           n == Count(cs)
<1>1. /\ WellFormed(cs, Nat, Values) /\ WellFormed(ds, Nat, Values) /\ SameShape(ds, cs)
      /\ \A f \in 0 .. n - 1 : Reads(rt)[f] = Reads(st)[f]
  BY DEF Alike
<1>2. /\ rt.boundaries = st.boundaries
      /\ Size(rt) = n /\ Size(st) = n /\ n \in Nat
  BY <1>1, SameShapeParams, SumFacts
<1>3. ASSUME NEW i \in 1 .. n PROVE GetItem(rt, i - 1) = GetItem(st, i - 1)
  <2>1. i - 1 \in 0 .. n - 1 /\ i - 1 \in Nat
    BY <1>2
  <2>2. QED
    BY <1>1, <2>1 DEF Reads
<1>4. Items(rt) = Items(st)
  <2> HIDE DEF rt, st, n
  <2>1. QED
    BY <1>2, <1>3 DEF Items
<1>5. QED
  BY <1>2, <1>4 DEF View

\* Adding an item at the end and writing only that one leaves all that was
\* there before.
LEMMA AppendedOnly ==
  ASSUME NEW ds, WellFormed(ds, Nat, Values), NEW s \in Nat, NEW e \in Nat,
         NEW es, es = AddToChunkSets(ds, 0, s, e),
         NEW ws, WellFormed(ws, Nat, Values), SameShape(ws, es),
         \A f \in 0 .. Count(ds) - 1 :
           Reads(RebuildIndexMetadata(ws))[f] = Reads(RebuildIndexMetadata(es))[f]
  PROVE  LET rt == RebuildIndexMetadata(ds)
             us == RebuildIndexMetadata(ws)
         IN  Front(Items(us)) = Items(rt) /\ us.boundaries = rt.boundaries
<1> DEFINE rt == RebuildIndexMetadata(ds)
           vs == RebuildIndexMetadata(es)
           us == RebuildIndexMetadata(ws)
           n == Count(ds)
<1>1. /\ 0 \in Levels /\ EmptyItem \in Values /\ 0 \in 0 .. NumberOfLevels
  BY LevelsAssumption DEF Levels, MaxLevel, Values
<1>2. WellFormed(es, Nat, Values)
  BY <1>1, AddKeepsWellFormed
<1>3. n \in Nat /\ Count(es) = n + 1 /\ FlatStart(ds, 0) = n
  <2>1. FlatStart(ds, 0) = n /\ FlatStart(es, 0) = Count(es)
    BY <1>2, FlatStartFacts DEF Count
  <2>2. FlatStart(es, 0) = FlatStart(ds, 0) + 1
    BY <1>1, AddFlatStarts
  <2>3. QED
    BY <2>1, <2>2, SumFacts
<1>4. Size(rt) = n /\ Size(us) = n + 1 /\ us.boundaries = vs.boundaries
  BY <1>2, <1>3, SameShapeParams, SizeIs DEF Count
<1>5. vs.boundaries = rt.boundaries
  <2>1. vs = AddItemStructure(rt, 0, s, e)
    BY <1>1, AddMetadata
  <2>2. rt.boundaries \in [Levels -> Nat]
    <3>1. rt.boundaries = [l \in Levels |-> FlatStart(ds, l + 1)]
      BY RebuildFields DEF FlatStart
    <3>2. \A l \in Levels : l + 1 \in 0 .. NumberOfLevels
      BY LevelsAssumption DEF Levels, MaxLevel
    <3>3. \A x \in 0 .. NumberOfLevels : FlatStart(ds, x) \in Nat
      BY FlatStartFacts
    <3>4. QED
      BY <3>1, <3>2, <3>3
  <2>3. \A l \in Levels : ~ (l < 0)
    BY DEF Levels
  <2>4. vs.boundaries = [l \in Levels |-> IF l < 0 THEN rt.boundaries[l] + 1 ELSE rt.boundaries[l]]
    BY <2>1 DEF AddItemStructure
  <2> HIDE DEF vs, rt
  <2>5. QED
    BY <2>2, <2>3, <2>4
<1>6. ASSUME NEW i \in 1 .. n PROVE GetItem(us, i - 1) = GetItem(rt, i - 1)
  <2> DEFINE f == i - 1
  <2>1. f \in 0 .. n - 1 /\ f \in Nat /\ f < SizeSums(ds)[Len(ds)] /\ f < n
    BY <1>3 DEF Count
  <2> HIDE DEF f
  <2>2. GetItem(rt, f) = GetItem(RebuildIndexMetadata(AddToChunkSets(ds, 0, s, e)),
                                 IF f < FlatStart(ds, 0) THEN f ELSE f + 1)
    BY <1>1, <2>1, AddReads
  <2>3. GetItem(rt, f) = GetItem(vs, f)
    <3> HIDE DEF rt
    <3>1. QED
      BY <1>3, <2>1, <2>2
  <2>4. Reads(us)[f] = Reads(vs)[f]
    BY <2>1
  <2>5. GetItem(us, f) = GetItem(vs, f)
    <3> HIDE DEF us, vs
    <3>1. QED
      BY <2>1, <2>4 DEF Reads
  <2>6. QED
    BY <2>3, <2>5 DEF f
<1> HIDE DEF us, rt, vs, n
<1>7. Front(Items(us)) = Items(rt)
  <2>1. /\ Items(us) = [i \in 1 .. n + 1 |-> GetItem(us, i - 1)]
        /\ Items(rt) = [i \in 1 .. n |-> GetItem(rt, i - 1)]
    BY <1>4 DEF Items
  <2>2. Len(Items(us)) = n + 1
    BY <1>3, <2>1
  <2>3. Front(Items(us)) = [i \in 1 .. n |-> Items(us)[i]]
    <3>1. (n + 1) - 1 = n
      BY <1>3
    <3>2. Front(Items(us)) = SubSeq(Items(us), 1, n)
      BY <2>2, <3>1 DEF Front
    <3>3. Items(us) \in Seq({GetItem(us, i - 1) : i \in 1 .. n + 1})
      <4> DEFINE V == {GetItem(us, i - 1) : i \in 1 .. n + 1}
      <4>1. \A i \in 1 .. n + 1 : GetItem(us, i - 1) \in V
        OBVIOUS
      <4> HIDE DEF V
      <4>2. Items(us) \in [1 .. n + 1 -> V]
        BY <2>1, <4>1
      <4>3. n + 1 \in Nat
        BY <1>3
      <4>4. Items(us) \in Seq(V)
        BY <4>2, <4>3
      <4>5. QED
        BY <4>4 DEF V
    <3>4. QED
      BY <1>3, <2>2, <3>2, <3>3
  <2>4. ASSUME NEW i \in 1 .. n PROVE Items(us)[i] = GetItem(rt, i - 1)
    <3>1. i \in 1 .. n + 1
      BY <1>3
    <3>2. Items(us)[i] = GetItem(us, i - 1)
      BY <2>1, <3>1
    <3>3. QED
      BY <1>6, <3>2
  <2>5. QED
    BY <2>1, <2>3, <2>4
<1>8. QED
  BY <1>4, <1>5, <1>7 DEF us, rt

-----------------------------------------------------------------------------
(* The storages between the structural changes of a delta.                 *)

\* Each is the one before it with the next change applied.
LEMMA StructuresAre ==
  ASSUME NEW st, NEW changes, Len(changes) \in Nat
  PROVE  LET F == Structures(st, changes)
         IN  F[0] = st /\ \A n \in 1 .. Len(changes) :
                            F[n] = ApplyStructuralChange(F[n - 1], changes[n])
<1> DEFINE N == Len(changes)
           Next1(x, n) == ApplyStructuralChange(x, changes[n])
           Rec(f, m) == f = [n \in 0 .. m |-> IF n = 0 THEN st ELSE Next1(f[n - 1], n)]
           G == {m \in Nat : m <= N => \E f : Rec(f, m)}
<1>0. N \in Nat
  OBVIOUS
<1> HIDE DEF N, Next1
<1>1. 0 \in G
  <2>1. Rec([n \in 0 .. 0 |-> st], 0)
    OBVIOUS
  <2> HIDE DEF Rec
  <2>2. QED
    BY <2>1
<1>2. ASSUME NEW m \in G PROVE m + 1 \in G
  <2>0. m \in Nat /\ (m <= N => \E f : Rec(f, m))
    BY Zenon
  <2> SUFFICES ASSUME m + 1 <= N PROVE \E f : Rec(f, m + 1)
    <3> HIDE DEF Rec
    <3> QED BY <2>0
  <2>1. m <= N
    BY <1>0, <2>0
  <2>2. PICK f : Rec(f, m)
    BY <2>0, <2>1, Zenon
  <2> DEFINE g == [n \in 0 .. m + 1 |-> IF n <= m THEN f[n] ELSE Next1(f[m], m + 1)]
  <2>3. ASSUME NEW n \in 0 .. m + 1
        PROVE  g[n] = IF n = 0 THEN st ELSE Next1(g[n - 1], n)
    <3>1. CASE n = 0
      BY <2>0, <2>2, <3>1
    <3>2. CASE n \in 1 .. m
      <4>1. n \in 0 .. m /\ n \in 0 .. m + 1 /\ n - 1 \in 0 .. m + 1 /\ n <= m /\ n - 1 <= m /\ n # 0
        BY <2>0, <3>2
      <4>2. g[n] = f[n] /\ g[n - 1] = f[n - 1]
        BY <4>1
      <4>3. f[n] = Next1(f[n - 1], n)
        BY <2>2, <4>1
      <4>4. QED
        BY <4>1, <4>2, <4>3
    <3>3. CASE n = m + 1
      <4>1. n \in 0 .. m + 1 /\ n - 1 = m /\ m \in 0 .. m + 1 /\ ~ (n <= m) /\ n # 0 /\ m <= m
        BY <2>0, <3>3
      <4>2. g[n] = Next1(f[m], n) /\ g[n - 1] = f[m]
        BY <3>3, <4>1
      <4>3. QED
        BY <4>1, <4>2
    <3>4. QED
      BY <2>0, <3>1, <3>2, <3>3
  <2>4. Rec(g, m + 1)
    BY <2>3
  <2> HIDE DEF Rec, g
  <2>5. QED
    BY <2>4, Zenon
<1>3. G = Nat
  <2> HIDE DEF G
  <2>1. G \in SUBSET Nat
    BY DEF G
  <2>2. QED
    BY <1>1, <1>2, <2>1, SetInduction
<1>4. \E f : Rec(f, N)
  <2>1. N \in G
    BY <1>0, <1>3
  <2> HIDE DEF Rec
  <2>2. QED
    BY <1>0, <2>1
<1>5. Structures(st, changes) = CHOOSE f : Rec(f, N)
  BY DEF Structures, N, Next1
<1>6. Rec(Structures(st, changes), N)
  <2> HIDE DEF Rec
  <2>1. QED
    BY <1>4, <1>5, Zenon
<1> DEFINE F == Structures(st, changes)
<1> HIDE DEF F
<1>7. F = [n \in 0 .. N |-> IF n = 0 THEN st ELSE Next1(F[n - 1], n)]
  BY <1>6 DEF F
<1>8. F[0] = st /\ \A n \in 1 .. N : F[n] = Next1(F[n - 1], n)
  BY <1>0, <1>7
<1>9. QED
  BY <1>8 DEF F, N, Next1

\* One change more leaves the storages before it as they were.
LEMMA OneMoreChange ==
  ASSUME NEW st, NEW T, NEW changes \in Seq(T), NEW c \in T
  PROVE  LET more == Append(changes, c)
             F == Structures(st, changes)
             H == Structures(st, more)
             n == Len(changes)
         IN  /\ \A m \in 0 .. n : H[m] = F[m]
             /\ H[n + 1] = ApplyStructuralChange(F[n], c)
             /\ StructuralChangesOK(st, changes)
                  /\ (c.type = "deleteItems"
                        => CanDelete(F[n], c.level, c.count, c.newStartedAt))
                => StructuralChangesOK(st, more)
<1> DEFINE more == Append(changes, c)
           F == Structures(st, changes)
           H == Structures(st, more)
           n == Len(changes)
<1>1. /\ n \in Nat /\ more \in Seq(T) /\ Len(more) = n + 1 /\ more[n + 1] = c
      /\ \A m \in 1 .. n : more[m] = changes[m]
  OBVIOUS
<1>2. /\ F[0] = st
      /\ \A m \in 1 .. n : F[m] = ApplyStructuralChange(F[m - 1], changes[m])
  <2>1. Len(changes) \in Nat
    BY <1>1
  <2>2. QED
    BY <2>1, StructuresAre
<1>3. /\ H[0] = st
      /\ \A m \in 1 .. n + 1 : H[m] = ApplyStructuralChange(H[m - 1], more[m])
  <2>1. Len(more) \in Nat
    BY <1>1
  <2> HIDE DEF more
  <2>2. LET FF == Structures(st, more)
        IN  FF[0] = st /\ \A m \in 1 .. Len(more) :
                            FF[m] = ApplyStructuralChange(FF[m - 1], more[m])
    BY <2>1, StructuresAre
  <2>3. QED
    BY <1>1, <2>2
<1> HIDE DEF F, H, n, more
<1>4. \A m \in 0 .. n : H[m] = F[m]
  <2> DEFINE G == {m \in Nat : m <= n => H[m] = F[m]}
  <2>1. 0 \in G
    BY <1>2, <1>3
  <2>2. ASSUME NEW m \in G PROVE m + 1 \in G
    <3>1. m \in Nat /\ (m <= n => H[m] = F[m])
      OBVIOUS
    <3>2. ASSUME m + 1 <= n PROVE H[m + 1] = F[m + 1]
      <4>1. /\ m + 1 \in 1 .. n /\ m + 1 \in 1 .. n + 1 /\ (m + 1) - 1 = m /\ m <= n
        BY <1>1, <3>1, <3>2
      <4>2. /\ H[m + 1] = ApplyStructuralChange(H[m], more[m + 1])
            /\ F[m + 1] = ApplyStructuralChange(F[m], changes[m + 1])
            /\ more[m + 1] = changes[m + 1]
        BY <1>1, <1>2, <1>3, <4>1
      <4>3. QED
        BY <3>1, <4>1, <4>2
    <3>3. QED
      BY <3>1, <3>2
  <2>3. G = Nat
    <3> HIDE DEF G
    <3>1. G \in SUBSET Nat
      BY DEF G
    <3>2. QED
      BY <2>1, <2>2, <3>1, SetInduction
  <2>4. QED
    BY <1>1, <2>3
<1>5. H[n + 1] = ApplyStructuralChange(F[n], c)
  <2>1. n + 1 \in 1 .. n + 1 /\ (n + 1) - 1 = n /\ n \in 0 .. n
    BY <1>1
  <2>2. QED
    BY <1>1, <1>3, <1>4, <2>1
<1>6. ASSUME StructuralChangesOK(st, changes),
             c.type = "deleteItems"
               => CanDelete(F[n], c.level, c.count, c.newStartedAt)
      PROVE  StructuralChangesOK(st, more)
  <2>1. ASSUME NEW m \in 1 .. n, changes[m].type = "deleteItems"
        PROVE  CanDelete(F[m - 1], changes[m].level, changes[m].count,
                         changes[m].newStartedAt)
    BY <1>6, <2>1 DEF StructuralChangesOK, F, n
  <2>2. ASSUME NEW m \in 1 .. n + 1, more[m].type = "deleteItems"
        PROVE  CanDelete(H[m - 1], more[m].level, more[m].count, more[m].newStartedAt)
    <3>1. CASE m = n + 1
      <4>1. m - 1 = n /\ n \in 0 .. n /\ more[m] = c
        BY <1>1, <3>1
      <4>2. H[m - 1] = F[n]
        BY <1>4, <4>1
      <4>3. QED
        BY <1>6, <2>2, <4>1, <4>2
    <3>2. CASE m \in 1 .. n
      <4>1. m - 1 \in 0 .. n /\ more[m] = changes[m]
        BY <1>1, <3>2
      <4>2. H[m - 1] = F[m - 1]
        BY <1>4, <4>1
      <4>3. QED
        BY <2>1, <2>2, <3>2, <4>1, <4>2
    <3>3. QED
      BY <1>1, <3>1, <3>2
  <2>3. QED
    BY <1>1, <2>2 DEF StructuralChangesOK, H
<1>7. QED
  BY <1>4, <1>5, <1>6 DEF F, H, n, more

-----------------------------------------------------------------------------
(* The replica that is yet to come.                                        *)

\* What structuralChanges holds.
Changes ==
  [type : {"addItem"}, level : Levels, startedAt : Nat, endedAt : Nat]
    \cup [type : {"deleteItems"}, level : Levels, count : Nat, newStartedAt : Nat \cup {Null}]

\* A message makes one storage of another, without an exception; one that is
\* flagged append-only leaves what was there.
Arrives(m, st, ts) ==
  \/ /\ m.type = "snapshot"
     /\ SnapshotOK(m.chunkSets)
     /\ ts = FromSnapshot(m.chunkSets)
  \/ /\ m.type = "delta"
     /\ DeltaError(st, m) = Null
     /\ ts = ApplyDelta(st, m)
     /\ m.appendOnly => Front(Items(ts)) = Items(st) /\ ts.boundaries = st.boundaries

\* What the replica will be when all messages on their way have arrived.
OnItsWay(last) ==
  \E M, trail :
    /\ channel \in Seq(M)
    /\ trail[0] = replica
    /\ trail[Len(channel)] = last
    /\ \A k \in 1 .. Len(channel) : Arrives(channel[k], trail[k - 1], trail[k])

\* Repeating structural changes in a storage gives one that is like these chunk
\* sets but for some items.
Repeats(st, changes, cs, S) ==
  /\ changes \in Seq(Changes)
  /\ StructuralChangesOK(st, changes)
  /\ \E ds : /\ Structures(st, changes)[Len(changes)] = RebuildIndexMetadata(ds)
             /\ Alike(ds, cs, S)

\* That replica is like the storage between ticks.  During a tick it is the
\* one the delta starts from: with the structural changes so far it has the
\* structure of the storage, and differs from it in items noted as changed.
Awaits(last) ==
  /\ WellFormed(last.chunkSets, Nat, Values)
  /\ last = RebuildIndexMetadata(last.chunkSets)
  /\ phase = "idle" => Alike(last.chunkSets, storage.chunkSets, {})
  /\ phase # "idle" =>
       /\ deltaStart = Params(last)
       /\ Repeats(last, structural, storage.chunkSets, changed)

\* A deletion is told a time, unless it empties the level.
LEMMA DeletionTime ==
  ASSUME NEW ticks, NEW st, Sound(st, ticks), NEW lv \in Levels,
         NEW count \in Nat \ {0}, count <= LevelSize(st, lv)
  PROVE  LET t == StartedAtAfterDelete(st, lv, count)
         IN  /\ t \in Nat \/ TrimCount(st.chunkSets, lv, count) = 0
             /\ t \in Nat \cup {Null}
<1> DEFINE cs   == st.chunkSets
           t    == StartedAtAfterDelete(st, lv, count)
           re   == RebuildIndexMetadata(cs)
           next == st.boundaries[lv] + count
           R    == Reads(st)
           n    == Size(st)
<1>1. /\ n \in Nat /\ st.boundaries[lv] \in Nat
      /\ LevelEnd(st, lv) \in Nat /\ LevelEnd(st, lv) <= n
      /\ LevelSize(st, lv) = LevelEnd(st, lv) - st.boundaries[lv]
  BY SoundFacts DEF LevelSize
<1>2. WellFormed(cs, Nat, Values) /\ st = re /\ InTime(R, n, ticks)
  BY DEF Sound
<1> HIDE DEF n, R
<1>3. CASE next < LevelEnd(st, lv)
  <2>1. next \in 0 .. n - 1 /\ next \in Nat
    BY <1>1, <1>3
  <2>2. t = R[next].startedAt
    <3>1. t = GetItem(st, next).startedAt
      BY <1>3 DEF StartedAtAfterDelete
    <3>2. QED
      BY <2>1, <3>1 DEF Reads, R
  <2>3. R[next].startedAt \in Nat
    BY <1>1, <1>2, <2>1, CandleTimes
  <2> HIDE DEF next, t, cs
  <2>4. t \in Nat
    BY <2>2, <2>3
  <2>5. QED
    BY <2>4 DEF t
<1>4. CASE ~ (next < LevelEnd(st, lv))
  <2>1. count = LevelSize(st, lv)
    BY <1>1, <1>4
  <2>2. t = Null
    BY <1>4 DEF StartedAtAfterDelete
  <2> HIDE DEF next, t, cs
  <2>3. count = LevelSize(re, lv)
    BY <1>2, <2>1
  <2>4. TrimCount(cs, lv, count) = 0
    BY <1>2, <2>3, WholeLevelGoes
  <2>5. QED
    BY <2>2, <2>4 DEF cs, t
<1>5. QED
  BY <1>3, <1>4

\* The next change, told of in structuralChanges, made in the storage and to
\* be made in the replica.
LEMMA NextChange ==
  ASSUME NEW last, NEW changes \in Seq(Changes), StructuralChangesOK(last, changes),
         NEW rt, Structures(last, changes)[Len(changes)] = rt,
         NEW c \in Changes, NEW us, ApplyStructuralChange(rt, c) = us,
         c.type = "deleteItems" => CanDelete(rt, c.level, c.count, c.newStartedAt)
  PROVE  LET more == Append(changes, c)
         IN  /\ more \in Seq(Changes) /\ StructuralChangesOK(last, more)
             /\ Structures(last, more)[Len(more)] = us
<1> DEFINE more == Append(changes, c)
           T == Changes
<1> HIDE DEF T
<1>1. changes \in Seq(T) /\ c \in T
  BY DEF T
<1>2. more \in Seq(T) /\ Len(more) = Len(changes) + 1
  BY <1>1
<1>3. /\ Structures(last, more)[Len(changes) + 1]
           = ApplyStructuralChange(Structures(last, changes)[Len(changes)], c)
      /\ StructuralChangesOK(last, more)
  BY <1>1, OneMoreChange
<1>4. QED
  BY <1>2, <1>3 DEF T

\* A deletion made in the storage can be made in the replica.
LEMMA DeletionFollows ==
  ASSUME Sound(storage, accepted), changed \subseteq 0 .. Size(storage) - 1,
         NEW last, Repeats(last, structural, storage.chunkSets, changed),
         NEW lv \in Levels, NEW count \in Nat \ {0}, count <= LevelSize(storage, lv)
  PROVE  LET t  == StartedAtAfterDelete(storage, lv, count)
             cc == DeleteFromChunkSets(storage.chunkSets, lv, count, t)
         IN  /\ DeleteNItems(storage, lv, count, t) = RebuildIndexMetadata(cc)
             /\ Repeats(last, Append(structural, DeleteChange(lv, count, t)), cc,
                        CS!ShiftDown(changed, storage.boundaries[lv], count))
<1>0. PICK ds : /\ Structures(last, structural)[Len(structural)] = RebuildIndexMetadata(ds)
                /\ Alike(ds, storage.chunkSets, changed)
  BY DEF Repeats
<1> DEFINE cs   == storage.chunkSets
           t    == StartedAtAfterDelete(storage, lv, count)
           c    == DeleteChange(lv, count, t)
           cc   == DeleteFromChunkSets(cs, lv, count, t)
           es   == DeleteFromChunkSets(ds, lv, count, t)
           rt   == RebuildIndexMetadata(ds)
           p    == FlatStart(cs, lv + 1)
<1>1. /\ storage = RebuildIndexMetadata(cs) /\ storage.boundaries[lv] = p
      /\ Size(storage) \in Nat /\ changed \subseteq Nat
  BY SoundFacts DEF Sound
<1>2. (t \in Nat \/ TrimCount(cs, lv, count) = 0) /\ t \in Nat \cup {Null}
  BY DeletionTime
<1>3. rt.chunkSets = ds
  BY RebuildFields
<1> HIDE DEF t
<1>4. /\ DeleteNItems(rt, lv, count, t) = RebuildIndexMetadata(es)
      /\ count <= LevelSize(rt, lv)
      /\ TrimCount(ds, lv, count) = TrimCount(cs, lv, count)
      /\ DeleteNItems(storage, lv, count, t) = RebuildIndexMetadata(cc)
      /\ Alike(es, cc, CS!ShiftDown(changed, p, count))
  <2>1. count <= LevelSize(RebuildIndexMetadata(cs), lv)
    BY <1>1
  <2>2. /\ DeleteNItems(rt, lv, count, t) = RebuildIndexMetadata(es)
        /\ count <= LevelSize(rt, lv)
        /\ TrimCount(ds, lv, count) = TrimCount(cs, lv, count)
        /\ DeleteNItems(RebuildIndexMetadata(cs), lv, count, t) = RebuildIndexMetadata(cc)
        /\ Alike(es, cc, CS!ShiftDown(changed, p, count))
    BY <1>0, <1>1, <1>2, <2>1, DeleteAlike
  <2>3. QED
    BY <1>1, <2>2
<1>5. c \in Changes
  BY <1>2 DEF DeleteChange, Changes
<1>6. CanDelete(rt, lv, count, t)
  BY <1>2, <1>3, <1>4, NullAssumption DEF CanDelete
<1>7. ApplyStructuralChange(rt, c) = RebuildIndexMetadata(es)
  BY <1>4 DEF ApplyStructuralChange, DeleteChange
<1>8. c.type = "deleteItems" => CanDelete(rt, c.level, c.count, c.newStartedAt)
  BY <1>6 DEF DeleteChange
<1> HIDE DEF c, rt, es, cc
<1>9. LET more == Append(structural, c)
      IN  /\ more \in Seq(Changes) /\ StructuralChangesOK(last, more)
          /\ Structures(last, more)[Len(more)] = RebuildIndexMetadata(es)
  <2>1. structural \in Seq(Changes) /\ StructuralChangesOK(last, structural)
    BY DEF Repeats
  <2>2. QED
    BY <1>0, <1>5, <1>7, <1>8, <2>1, NextChange DEF rt
<1> DEFINE S == CS!ShiftDown(changed, storage.boundaries[lv], count)
<1>10. Alike(es, cc, S)
  BY <1>1, <1>4
<1> HIDE DEF S
<1>11. Repeats(last, Append(structural, c), cc, S)
  BY <1>9, <1>10 DEF Repeats
<1>12. QED
  BY <1>4, <1>11 DEF c, cc, t, S

\* An addition made in a storage, followed by the replica.
LEMMA AdditionFollows ==
  ASSUME NEW last, NEW cs, NEW S, NEW changes, Repeats(last, changes, cs, S),
         NEW lv \in Levels, NEW s \in Nat, NEW e \in Nat, NEW item \in Values
  PROVE  LET st == RebuildIndexMetadata(cs)
             p  == LevelEnd(st, lv)
         IN  Repeats(last, Append(changes, AddChange(lv, s, e)),
                     AddItem(st, lv, s, e, item).chunkSets, CS!ShiftUp(S, p) \cup {p})
<1>0. PICK ds : /\ Structures(last, changes)[Len(changes)] = RebuildIndexMetadata(ds)
                /\ Alike(ds, cs, S)
  BY DEF Repeats
<1> DEFINE c  == AddChange(lv, s, e)
           rt == RebuildIndexMetadata(ds)
           es == AddToChunkSets(ds, lv, s, e)
           ts == AddItem(RebuildIndexMetadata(cs), lv, s, e, item)
           p  == LevelEnd(RebuildIndexMetadata(cs), lv)
           U  == CS!ShiftUp(S, p) \cup {p}
<1>1. /\ AddItemStructure(rt, lv, s, e) = RebuildIndexMetadata(es)
      /\ Alike(es, ts.chunkSets, U)
  <2>1. WellFormed(cs, Nat, Values)
    BY <1>0 DEF Alike
  <2>2. p = FlatStart(cs, lv)
    BY <2>1, FlatStartFacts
  <2> DEFINE q == FlatStart(cs, lv)
  <2>3. /\ AddItemStructure(rt, lv, s, e) = RebuildIndexMetadata(es)
        /\ ts = RebuildIndexMetadata(ts.chunkSets)
        /\ Alike(es, ts.chunkSets, CS!ShiftUp(S, q) \cup {q})
    BY ONLY <1>0, lv \in Levels, s \in Nat, e \in Nat, item \in Values, AddAlike
  <2>4. QED
    BY <2>2, <2>3
<1>2. c \in Changes /\ c.type # "deleteItems"
  BY DEF AddChange, Changes
<1>3. ApplyStructuralChange(rt, c) = RebuildIndexMetadata(es)
  BY <1>1 DEF ApplyStructuralChange, AddChange
<1> HIDE DEF c, rt, es, ts, U
<1>4. LET more == Append(changes, c)
      IN  /\ more \in Seq(Changes) /\ StructuralChangesOK(last, more)
          /\ Structures(last, more)[Len(more)] = RebuildIndexMetadata(es)
  <2>1. changes \in Seq(Changes) /\ StructuralChangesOK(last, changes)
    BY DEF Repeats
  <2>2. QED
    BY <1>0, <1>2, <1>3, <2>1, NextChange DEF rt
<1>5. Repeats(last, Append(changes, c), ts.chunkSets, U)
  BY <1>1, <1>4 DEF Repeats
<1>6. QED
  BY <1>5 DEF c, ts, U

\* A tick is added: the delta starts from the replica as it then is.
LEMMA ReceiveTickFollowed ==
  ASSUME TickInv, NEW gap \in Gaps, ReceiveTick(gap), NEW last, Awaits(last)
  PROVE  Awaits(last)'
<1> DEFINE time == now + gap
           cs == storage.chunkSets
           ds == last.chunkSets
           c  == Candle(time, time)
           ts == AddItem(storage, 0, time, time, c)
           a  == AddChange(0, time, time)
<1>1. /\ Sound(storage, accepted) /\ phase = "idle" /\ now \in Nat /\ time \in Nat
      /\ now' = time
  BY GapsAssumption DEF TickInv, Shapes, ReceiveTick
<1>2. /\ storage = RebuildIndexMetadata(cs) /\ WellFormed(cs, Nat, Values)
      /\ Size(storage) = LevelEnd(storage, 0)
  BY <1>1 DEF Sound, LevelEnd
<1>3. /\ WellFormed(ds, Nat, Values) /\ last = RebuildIndexMetadata(ds)
      /\ Alike(ds, cs, {})
  BY <1>1 DEF Awaits
<1>4. CASE EndedAt(storage) = time
  <2>1. UNCHANGED <<storage, phase, deltaVars>>
    BY <1>1, <1>4 DEF ReceiveTick
  <2>2. QED
    BY <1>1, <1>3, <2>1 DEF Awaits, deltaVars
<1>5. CASE EndedAt(storage) # time
  <2>1. /\ deltaStart' = Params(storage) /\ storage' = ts
        /\ structural' = <<a>> /\ changed' = {Size(storage)}
        /\ phase' = "recalculate"
    BY <1>1, <1>5 DEF ReceiveTick
  <2>2. deltaStart' = Params(last)
    <3>1. SameShape(ds, cs)
      BY <1>3 DEF Alike
    <3>2. Params(RebuildIndexMetadata(ds)) = Params(RebuildIndexMetadata(cs))
      BY <1>2, <1>3, <3>1, SameShapeParams
    <3>3. QED
      BY <1>2, <1>3, <2>1, <3>2
  <2>3. Repeats(last, <<>>, cs, {})
    <3>1. Len(<<>>) = 0 /\ Len(<<>>) \in Nat
      OBVIOUS
    <3>2. Structures(last, <<>>)[0] = last
      BY <3>1, StructuresAre
    <3>3. StructuralChangesOK(last, <<>>)
      BY <3>1 DEF StructuralChangesOK
    <3>4. <<>> \in Seq(Changes)
      OBVIOUS
    <3> DEFINE none == {}
    <3> HIDE DEF ds, cs, none
    <3>5. Structures(last, <<>>)[Len(<<>>)] = RebuildIndexMetadata(ds) /\ Alike(ds, cs, none)
      BY <1>3, <3>1, <3>2 DEF none
    <3>6. Repeats(last, <<>>, cs, none)
      BY <3>3, <3>4, <3>5 DEF Repeats
    <3>7. QED
      BY <3>6 DEF none
  <2>4. 0 \in Levels /\ c \in Values
    BY <1>1, LevelsAssumption DEF Levels, MaxLevel, Candle, Values, Candles
  <2> DEFINE empty == <<>>
             none  == {}
             p     == LevelEnd(storage, 0)
  <2> HIDE DEF c, cs, time, empty, none
  <2>5. Repeats(last, Append(empty, a), ts.chunkSets, CS!ShiftUp(none, p) \cup {p})
    <3>1. Repeats(last, empty, cs, none)
      BY <2>3 DEF empty, none
    <3>2. LET st == RebuildIndexMetadata(cs)
              pp == LevelEnd(st, 0)
          IN  Repeats(last, Append(empty, AddChange(0, time, time)),
                      AddItem(st, 0, time, time, c).chunkSets, CS!ShiftUp(none, pp) \cup {pp})
      BY <1>1, <2>4, <3>1, AdditionFollows
    <3>3. QED
      BY <1>2, <3>2
  <2>6. Append(empty, a) = <<a>>
    BY DEF empty
  <2>7. CS!ShiftUp(none, p) \cup {p} = {Size(storage)}
    BY <1>2 DEF CS!ShiftUp, none
  <2>8. Repeats(last, structural', storage'.chunkSets, changed')
    BY <2>1, <2>5, <2>6, <2>7
  <2>9. QED
    BY <1>3, <2>1, <2>2, <2>8 DEF Awaits
<1>6. QED
  BY <1>4, <1>5

\* Recalculation notes the item it writes.
LEMMA RecalculationFollowed ==
  ASSUME TickInv, NEW last, Awaits(last),
         RecalculateNothing \/ \E i \in 0 .. Size(storage) - 1 : RecalculateItem(i)
  PROVE  Awaits(last)'
<1>1. /\ Sound(storage, accepted) /\ phase = "recalculate" /\ phase' = "aggregate"
      /\ deltaStart' = deltaStart /\ structural' = structural
  BY DEF TickInv, RecalculateNothing, RecalculateItem, Recalculate
<1>2. /\ WellFormed(last.chunkSets, Nat, Values)
      /\ last = RebuildIndexMetadata(last.chunkSets)
      /\ deltaStart = Params(last)
      /\ Repeats(last, structural, storage.chunkSets, changed)
  BY <1>1 DEF Awaits
<1>3. PICK ds : /\ Structures(last, structural)[Len(structural)] = RebuildIndexMetadata(ds)
                /\ Alike(ds, storage.chunkSets, changed)
  BY <1>2 DEF Repeats
<1>4. Alike(ds, storage'.chunkSets, changed')
  <2>1. CASE RecalculateNothing
    BY <1>3, <2>1 DEF RecalculateNothing
  <2>2. ASSUME NEW i \in 0 .. Size(storage) - 1, RecalculateItem(i)
        PROVE  Alike(ds, storage'.chunkSets, changed')
    <3> DEFINE item == [GetItem(storage, i) EXCEPT !.value = 1 - @]
               cs   == storage.chunkSets
               ts   == SetItem(storage, i, item)
    <3>1. storage' = ts /\ changed' = changed \cup {i}
      BY <2>2 DEF RecalculateItem
    <3>2. /\ storage = RebuildIndexMetadata(cs) /\ Size(storage) = Count(cs)
          /\ Size(storage) \in Nat /\ InTime(Reads(storage), Size(storage), accepted)
      BY <1>1, SoundFacts DEF Sound
    <3>3. item \in Values
      <4>1. Reads(storage)[i] \in Candles /\ i \in Nat
        BY <3>2, CandleTimes
      <4>2. GetItem(storage, i) \in Candles
        BY <4>1 DEF Reads
      <4> DEFINE g == GetItem(storage, i)
      <4> HIDE DEF g
      <4>3. [g EXCEPT !.value = 1 - @] \in Candles
        BY <4>2 DEF Candles, g
      <4>4. QED
        BY <4>3 DEF Values, g
    <3> HIDE DEF item
    <3>4. Alike(ds, ts.chunkSets, changed \cup {i})
      <4>1. i \in 0 .. Count(cs) - 1
        BY <3>2
      <4>2. Alike(ds, SetItem(RebuildIndexMetadata(cs), i, item).chunkSets, changed \cup {i})
        BY <1>3, <3>3, <4>1, SetAlike
      <4>3. QED
        BY <3>2, <4>2
    <3>5. QED
      BY <3>1, <3>4
  <2>3. QED
    BY <2>1, <2>2
<1>5. Repeats(last, structural, storage.chunkSets, changed)'
  BY <1>1, <1>2, <1>3, <1>4 DEF Repeats
<1>6. QED
  BY <1>1, <1>2, <1>5 DEF Awaits

\* A bucket goes up: one deletion and one addition more.
LEMMA AggregateBucketFollowed ==
  ASSUME TickInv, NEW last, Awaits(last), AggregateBucket
  PROVE  Awaits(last)'
<1> DEFINE st     == storage
           n      == Size(st)
           size   == LevelSize(st, level)
           start  == st.boundaries[level]
           bucket == FirstBucketCount(st, start, size, Duration[level + 1])
           from   == GetItem(st, start).startedAt
           to     == GetItem(st, start + bucket - 1).endedAt
           candle == IF bucket = 1 THEN [GetItem(st, start) EXCEPT !.value = 0]
                                   ELSE Candle(from, to)
           t      == StartedAtAfterDelete(st, level, bucket)
           left   == DeleteNItems(st, level, bucket, t)
           at     == LevelEnd(left, level + 1)
           ts     == AddItem(left, level + 1, from, to, candle)
           d      == DeleteChange(level, bucket, t)
           a      == AddChange(level + 1, from, to)
<1>1. /\ Sound(st, accepted) /\ level \in Levels /\ changed \subseteq 0 .. n - 1
  BY DEF TickInv, Shapes
<1>2. /\ phase = "aggregate" /\ level < MaxLevel /\ size >= MaxCount[level]
      /\ storage' = ts
      /\ structural' = structural \o <<d, a>>
      /\ changed' = CS!ShiftUp(CS!ShiftDown(changed, start, bucket), at) \cup {at}
      /\ phase' = phase /\ deltaStart' = deltaStart
  BY DEF AggregateBucket
<1>3. level # MaxLevel /\ level \in Nat /\ level + 1 \in Levels
  BY <1>1, <1>2, LevelsAssumption DEF Levels, MaxLevel
<1>4. /\ n \in Nat /\ start \in Nat /\ size \in Nat \ {0} /\ start + size <= n
  <2>1. /\ n \in Nat /\ start \in Nat /\ size \in Nat
        /\ LevelEnd(st, level) \in Nat /\ LevelEnd(st, level) <= n
        /\ size = LevelEnd(st, level) - start
    BY <1>1, SoundFacts DEF LevelSize
  <2>2. MaxCount[level] \in Nat \ {0}
    BY <1>1, MaxCountAssumption
  <2>3. size >= MaxCount[level]
    BY <1>2
  <2> HIDE DEF n, start, size
  <2>4. QED
    BY <2>1, <2>2, <2>3
<1>5. bucket \in 1 .. size
  <2> HIDE DEF start, size
  <2>1. QED
    BY <1>4, BucketInLevel
<1> HIDE DEF bucket
<1>6. bucket \in Nat \ {0} /\ bucket <= size
  <2> HIDE DEF start, size, n
  <2>1. QED
    BY <1>4, <1>5
<1>7. candle \in Values /\ from \in Nat /\ to \in Nat
  <2>1. start \in 0 .. n - 1 /\ start + bucket - 1 \in 0 .. n - 1
    <3> HIDE DEF start, size, n
    <3>1. QED
      BY <1>4, <1>5
  <2>2. \A f \in 0 .. n - 1 : GetItem(st, f) \in Candles
    <3>1. \A f \in 0 .. n - 1 : Reads(st)[f] \in Candles
      BY <1>1, <1>4, CandleTimes DEF Sound
    <3>2. \A f \in 0 .. n - 1 : Reads(st)[f] = GetItem(st, f)
      BY <1>4 DEF Reads
    <3>3. QED
      BY <3>1, <3>2
  <2>3. GetItem(st, start) \in Candles /\ GetItem(st, start + bucket - 1) \in Candles
    <3> HIDE DEF start, n, st
    <3>1. QED
      BY <2>1, <2>2
  <2> DEFINE first == GetItem(st, start)
             final == GetItem(st, start + bucket - 1)
  <2> HIDE DEF first, final
  <2>4. from \in Nat /\ to \in Nat
    BY <2>3 DEF Candles
  <2>5. Candle(from, to) \in Candles
    BY <2>4 DEF Candle, Candles
  <2>6. [first EXCEPT !.value = 0] \in Candles
    BY <2>3 DEF Candles, first
  <2>7. QED
    BY <2>4, <2>5, <2>6 DEF Values, first
<1>8. /\ WellFormed(last.chunkSets, Nat, Values)
      /\ last = RebuildIndexMetadata(last.chunkSets)
      /\ deltaStart = Params(last)
      /\ Repeats(last, structural, storage.chunkSets, changed)
  BY <1>2 DEF Awaits
<1> DEFINE S    == CS!ShiftDown(changed, start, bucket)
           mid  == Append(structural, d)
           more == Append(mid, a)
           cc   == DeleteFromChunkSets(st.chunkSets, level, bucket, t)
<1>10. left = RebuildIndexMetadata(cc) /\ Repeats(last, mid, cc, S)
  BY <1>1, <1>6, <1>8, DeletionFollows
<1> HIDE DEF candle, from, to, t, cc, mid, S, at, left, d
<1>11. Repeats(last, more, ts.chunkSets, CS!ShiftUp(S, at) \cup {at})
  <2> DEFINE lv == level + 1
             us == AddItem(RebuildIndexMetadata(cc), lv, from, to, candle)
             p  == LevelEnd(RebuildIndexMetadata(cc), lv)
  <2>1. us = ts /\ p = at
    BY <1>10 DEF at
  <2>2. lv \in Levels
    BY <1>3
  <2> HIDE DEF lv
  <2>3. Repeats(last, Append(mid, AddChange(lv, from, to)), us.chunkSets,
                CS!ShiftUp(S, p) \cup {p})
    BY <1>7, <1>10, <2>2, AdditionFollows
  <2>4. AddChange(lv, from, to) = a
    BY DEF lv
  <2> HIDE DEF us, p, ts, a
  <2>5. QED
    BY <2>1, <2>3, <2>4
<1>12. structural' = more
  <2> DEFINE T == Changes
  <2>1. structural \in Seq(T) /\ d \in T /\ a \in T
    <3>1. a \in Changes
      BY <1>3, <1>7 DEF AddChange, Changes
    <3>2. d \in Changes
      <4>1. t \in Nat \cup {Null}
        BY <1>1, <1>6, DeletionTime DEF t
      <4>2. QED
        BY <1>1, <1>6, <4>1 DEF d, DeleteChange, Changes
    <3>3. QED
      BY <1>8, <3>1, <3>2 DEF Repeats
  <2> HIDE DEF T, a
  <2>2. structural \o <<d, a>> = Append(Append(structural, d), a)
    BY <2>1
  <2>3. QED
    BY <1>2, <2>2 DEF mid
<1> HIDE DEF more, ts
<1>13. QED
  BY <1>2, <1>8, <1>11, <1>12 DEF Awaits, S

\* The next level's turn changes nothing.
LEMMA NextLevelFollowed ==
  ASSUME NEW last, Awaits(last), NextLevel
  PROVE  Awaits(last)'
<1>1. /\ storage' = storage /\ deltaStart' = deltaStart /\ structural' = structural
      /\ changed' = changed /\ phase = "aggregate" /\ phase' # "idle"
  BY DEF NextLevel, deltaVars
<1>2. QED
  BY <1>1 DEF Awaits, Repeats

\* The trim of the highest level is one deletion more.
LEMMA TrimMaxLevelFollowed ==
  ASSUME TickInv, NEW last, Awaits(last), TrimMaxLevel
  PROVE  Awaits(last)'
<1> DEFINE excess == LevelSize(storage, MaxLevel) - MaxCount[MaxLevel]
           start  == storage.boundaries[MaxLevel]
           t      == StartedAtAfterDelete(storage, MaxLevel, excess)
           ts     == DeleteNItems(storage, MaxLevel, excess, t)
           cc     == DeleteFromChunkSets(storage.chunkSets, MaxLevel, excess, t)
           d      == DeleteChange(MaxLevel, excess, t)
<1>1. /\ Sound(storage, accepted) /\ changed \subseteq 0 .. Size(storage) - 1
      /\ phase = "aggregate" /\ phase' = "emit" /\ deltaStart' = deltaStart
  BY DEF TickInv, Shapes, TrimMaxLevel
<1>2. /\ WellFormed(last.chunkSets, Nat, Values)
      /\ last = RebuildIndexMetadata(last.chunkSets)
      /\ deltaStart = Params(last)
      /\ Repeats(last, structural, storage.chunkSets, changed)
  BY <1>1 DEF Awaits
<1>3. CASE excess <= 0
  <2>1. UNCHANGED <<storage, structural, changed>>
    BY <1>3 DEF TrimMaxLevel
  <2>2. QED
    BY <1>1, <1>2, <2>1 DEF Awaits, Repeats
<1>4. CASE ~ (excess <= 0)
  <2>1. /\ storage' = ts /\ structural' = Append(structural, d)
        /\ changed' = CS!ShiftDown(changed, start, excess)
    BY <1>4 DEF TrimMaxLevel
  <2>2. excess \in Nat \ {0} /\ excess <= LevelSize(storage, MaxLevel)
    <3>1. LevelSize(storage, MaxLevel) \in Nat /\ MaxCount[MaxLevel] \in Nat \ {0}
      BY <1>1, SoundFacts, MaxCountAssumption, LevelsAssumption DEF Levels, MaxLevel
    <3>2. QED
      BY <1>4, <3>1
  <2>3. MaxLevel \in Levels
    BY LevelsAssumption DEF Levels, MaxLevel
  <2> HIDE DEF excess
  <2>4. /\ ts = RebuildIndexMetadata(cc)
        /\ Repeats(last, Append(structural, d), cc, CS!ShiftDown(changed, start, excess))
    BY <1>1, <1>2, <2>2, <2>3, DeletionFollows
  <2> HIDE DEF cc, d, start, ts
  <2>5. storage'.chunkSets = cc
    BY <2>1, <2>4, RebuildFields
  <2>6. Repeats(last, structural, storage.chunkSets, changed)'
    BY <2>1, <2>4, <2>5 DEF Repeats
  <2>7. QED
    BY <1>1, <1>2, <2>6 DEF Awaits
<1>5. QED
  BY <1>3, <1>4

\* The server's steps up to the delta keep what the replica waits for.
LEMMA ServerTickFollowed ==
  ASSUME TickInv, NEW last, Awaits(last), ServerTick
  PROVE  Awaits(last)'
<1>1. ASSUME NEW gap \in Gaps, ReceiveTick(gap) PROVE Awaits(last)'
  BY <1>1, ReceiveTickFollowed
<1>2. CASE RecalculateNothing \/ \E i \in 0 .. Size(storage) - 1 : RecalculateItem(i)
  BY <1>2, RecalculationFollowed
<1>3. CASE AggregateBucket
  BY <1>3, AggregateBucketFollowed
<1>4. CASE NextLevel
  BY <1>4, NextLevelFollowed
<1>5. CASE TrimMaxLevel
  BY <1>5, TrimMaxLevelFollowed
<1>6. QED
  BY <1>1, <1>2, <1>3, <1>4, <1>5 DEF ServerTick

-----------------------------------------------------------------------------
(* Sending and receiving.                                                  *)

\* The delta of a tick is accepted by the replica it starts from, and makes it
\* like the storage.
LEMMA DeltaArrives ==
  ASSUME TickInv, NEW last, Awaits(last), phase = "emit"
  PROVE  LET ts == ApplyDelta(last, BinaryDelta)
         IN  /\ Arrives(BinaryDelta, last, ts)
             /\ WellFormed(ts.chunkSets, Nat, Values)
             /\ ts = RebuildIndexMetadata(ts.chunkSets)
             /\ Alike(ts.chunkSets, storage.chunkSets, {})
<1> DEFINE cs    == storage.chunkSets
           after == Structures(last, structural)[Len(structural)]
           d     == BinaryDelta
<1>1. /\ Sound(storage, accepted) /\ changed \subseteq 0 .. Size(storage) - 1
      /\ deltaStart = Params(last)
      /\ WellFormed(last.chunkSets, Nat, Values)
      /\ last = RebuildIndexMetadata(last.chunkSets)
      /\ Repeats(last, structural, cs, changed)
  BY DEF TickInv, Shapes, Awaits
<1>2. /\ storage = RebuildIndexMetadata(cs) /\ WellFormed(cs, Nat, Values)
      /\ Size(storage) = Count(cs)
  BY <1>1, SoundFacts DEF Sound
<1>3. structural \in Seq(Changes) /\ StructuralChangesOK(last, structural)
  BY <1>1 DEF Repeats
<1>4. PICK ds : after = RebuildIndexMetadata(ds) /\ Alike(ds, cs, changed)
  BY <1>1 DEF Repeats
<1>5. WellFormed(ds, Nat, Values) /\ SameShape(ds, cs) /\ after.chunkSets = ds
  BY <1>4, RebuildFields DEF Alike
<1> DEFINE ws == WriteItems(after, ChangedItems)
<1>6. /\ AddressesOK(after, ChangedItems)
      /\ Alike(ws, cs, {})
      /\ SameShape(ws, ds)
      /\ \A f \in (0 .. Count(ds) - 1) \ changed :
           Reads(RebuildIndexMetadata(ws))[f] = Reads(after)[f]
  BY <1>1, <1>2, <1>4, WrittenAlike
<1>7. /\ d.type = "delta" /\ d.startParams = deltaStart /\ d.endParams = Params(storage)
      /\ d.structuralChanges = structural /\ d.entityChanges = ChangedItems
      /\ d.appendOnly = AppendOnly
  BY DEF BinaryDelta, ChangedItems
<1>8. Params(after) = Params(storage)
  <2>1. Params(RebuildIndexMetadata(ds)) = Params(RebuildIndexMetadata(cs))
    BY <1>2, <1>5, SameShapeParams
  <2>2. QED
    BY <1>2, <1>4, <2>1
<1> HIDE DEF d, ws
<1>9. DeltaError(last, d) = Null
  <2>1. /\ Params(last) = d.startParams
        /\ StructuralChangesOK(last, d.structuralChanges)
    BY <1>1, <1>3, <1>7
  <2>2. Structures(last, d.structuralChanges)[Len(d.structuralChanges)] = after
    BY <1>7
  <2> HIDE DEF after
  <2>3. Params(after) = d.endParams /\ AddressesOK(after, d.entityChanges)
    BY <1>6, <1>7, <1>8
  <2>4. QED
    BY <2>1, <2>2, <2>3 DEF DeltaError
<1> DEFINE ts == RebuildIndexMetadata(ws)
<1>10. ApplyDelta(last, d) = ts /\ ts.chunkSets = ws
  BY <1>7, RebuildFields DEF ApplyDelta, ws
<1>11. WellFormed(ws, Nat, Values)
  BY <1>6 DEF Alike
<1>12. ASSUME AppendOnly PROVE Front(Items(ts)) = Items(last) /\ ts.boundaries = last.boundaries
  <2> DEFINE lc == last.chunkSets
             s  == structural[1].startedAt
             e  == structural[1].endedAt
  <2>1. /\ Len(structural) = 1 /\ structural[1].type = "addItem"
        /\ structural[1].level = 0 /\ changed \subseteq {Size(storage) - 1}
    BY <1>12 DEF AppendOnly
  <2>2. s \in Nat /\ e \in Nat
    <3>1. structural[1] \in Changes
      BY <1>3, <2>1
    <3>2. QED
      BY <2>1, <3>1 DEF Changes
  <2>3. after = AddItemStructure(last, 0, s, e)
    <3>1. 1 \in 1 .. Len(structural) /\ Len(structural) \in Nat
      BY <2>1
    <3>2. /\ Structures(last, structural)[0] = last
          /\ \A n \in 1 .. Len(structural) :
               Structures(last, structural)[n]
                 = ApplyStructuralChange(Structures(last, structural)[n - 1], structural[n])
      BY <3>1, StructuresAre
    <3>3. Structures(last, structural)[1]
            = ApplyStructuralChange(Structures(last, structural)[1 - 1], structural[1])
      BY <3>1, <3>2
    <3>4. after = ApplyStructuralChange(last, structural[1])
      BY <2>1, <3>2, <3>3
    <3>5. QED
      BY <2>1, <3>4 DEF ApplyStructuralChange
  <2> HIDE DEF s, e, after, lc
  <2>4. 0 \in Levels /\ EmptyItem \in Values
    BY LevelsAssumption DEF Levels, MaxLevel, Values
  <2>5. ds = AddToChunkSets(lc, 0, s, e)
    <3>1. after = RebuildIndexMetadata(AddToChunkSets(lc, 0, s, e))
      BY <1>1, <2>2, <2>3, <2>4, AddMetadata DEF lc
    <3>2. QED
      BY <1>5, <3>1, RebuildFields
  <2>6. Size(storage) = Count(lc) + 1 /\ Count(ds) = Count(lc) + 1 /\ Count(lc) \in Nat
    <3>1. Size(storage) = Size(last) + 1
      BY <1>1, <1>12 DEF AppendOnly, Params
    <3>2. Size(last) = Count(lc) /\ Count(lc) \in Nat
      BY <1>1, SizeIs, SumFacts DEF lc, Count
    <3>3. Count(ds) = Count(cs)
      BY <1>2, <1>5, SameShapeFacts
    <3>4. QED
      BY <1>2, <3>1, <3>2, <3>3
  <2>7. \A f \in 0 .. Count(lc) - 1 : Reads(ts)[f] = Reads(RebuildIndexMetadata(ds))[f]
    <3>1. \A f \in 0 .. Count(lc) - 1 : f \in (0 .. Count(ds) - 1) \ changed
      BY <2>1, <2>6
    <3>2. QED
      BY <1>4, <1>6, <3>1
  <2>8. LET rt == RebuildIndexMetadata(lc)
            us == RebuildIndexMetadata(ws)
        IN  Front(Items(us)) = Items(rt) /\ us.boundaries = rt.boundaries
    <3>1. WellFormed(lc, Nat, Values)
      BY <1>1 DEF lc
    <3>2. QED
      BY <1>6, <1>11, <2>2, <2>5, <2>7, <3>1, AppendedOnly
  <2>9. QED
    BY <1>1, <2>8 DEF lc
<1> HIDE DEF ts
<1>13. Arrives(d, last, ts)
  BY <1>7, <1>9, <1>10, <1>12 DEF Arrives
<1>14. QED
  BY <1>6, <1>10, <1>11, <1>13 DEF d, ts

\* A message put behind the others, which is accepted by the replica that is
\* to come.
LEMMA MessageSent ==
  ASSUME NEW last, OnItsWay(last), NEW m, NEW ts, Arrives(m, last, ts),
         channel' = Append(channel, m), replica' = replica
  PROVE  OnItsWay(ts)'
<1>1. PICK M, trail :
        /\ channel \in Seq(M)
        /\ trail[0] = replica
        /\ trail[Len(channel)] = last
        /\ \A k \in 1 .. Len(channel) : Arrives(channel[k], trail[k - 1], trail[k])
  BY DEF OnItsWay
<1> DEFINE n == Len(channel)
           K == M \cup {m}
           next == [k \in 0 .. n + 1 |-> IF k <= n THEN trail[k] ELSE ts]
<1>2. n \in Nat /\ channel \in Seq(K) /\ m \in K
  <2>1. n \in Nat /\ channel \in [1 .. n -> M]
    BY <1>1
  <2>2. channel \in [1 .. n -> K]
    <3> HIDE DEF n
    <3>1. QED
      BY <2>1
  <2>3. channel \in Seq(K)
    <3> HIDE DEF K
    <3>1. QED
      BY <2>1, <2>2
  <2>4. QED
    BY <2>1, <2>3
<1> HIDE DEF K
<1>3. /\ channel' \in Seq(K) /\ Len(channel') = n + 1
      /\ channel'[n + 1] = m
      /\ \A k \in 1 .. n : channel'[k] = channel[k]
  BY <1>2
<1>4. next[0] = replica' /\ next[n + 1] = ts
  BY <1>1, <1>2
<1>5. ASSUME NEW k \in 1 .. n + 1 PROVE Arrives(channel'[k], next[k - 1], next[k])
  <2>1. CASE k \in 1 .. n
    <3>1. next[k - 1] = trail[k - 1] /\ next[k] = trail[k]
      BY <1>2, <2>1
    <3> HIDE DEF next
    <3>2. QED
      BY <1>1, <1>3, <2>1, <3>1
  <2>2. CASE k = n + 1
    <3>1. next[k - 1] = last /\ next[k] = ts /\ channel'[k] = m
      BY <1>1, <1>2, <1>3, <2>2
    <3> HIDE DEF next
    <3>2. QED
      BY <3>1
  <2>3. QED
    BY <1>2, <2>1, <2>2
<1> HIDE DEF next, n
<1>6. QED
  BY <1>3, <1>4, <1>5 DEF OnItsWay

\* The first message is received: it is accepted, and those behind it are on
\* their way as before.
LEMMA MessageReceived ==
  ASSUME NEW last, OnItsWay(last), channel # <<>>
  PROVE  \E ts : /\ Arrives(Head(channel), replica, ts)
                 /\ (channel' = Tail(channel) /\ replica' = ts) => OnItsWay(last)'
<1>1. PICK M, trail :
        /\ channel \in Seq(M)
        /\ trail[0] = replica
        /\ trail[Len(channel)] = last
        /\ \A k \in 1 .. Len(channel) : Arrives(channel[k], trail[k - 1], trail[k])
  BY DEF OnItsWay
<1> DEFINE n == Len(channel)
           next == [k \in 0 .. n - 1 |-> trail[k + 1]]
<1>2. n \in Nat \ {0} /\ 1 \in 1 .. n /\ Head(channel) = channel[1]
  BY <1>1
<1>3. Arrives(Head(channel), replica, trail[1])
  BY <1>1, <1>2
<1>4. ASSUME channel' = Tail(channel), replica' = trail[1] PROVE OnItsWay(last)'
  <2>1. /\ channel' \in Seq(M) /\ Len(channel') = n - 1
        /\ \A k \in 1 .. n - 1 : channel'[k] = channel[k + 1]
    BY <1>1, <1>2, <1>4
  <2>2. next[0] = replica' /\ next[n - 1] = last
    BY <1>1, <1>2, <1>4
  <2>3. ASSUME NEW k \in 1 .. n - 1 PROVE Arrives(channel'[k], next[k - 1], next[k])
    <3>1. k + 1 \in 1 .. n /\ (k + 1) - 1 = k
      BY <1>2
    <3>2. next[k - 1] = trail[k] /\ next[k] = trail[k + 1]
      BY <1>2
    <3>3. Arrives(channel[k + 1], trail[k], trail[k + 1])
      BY <1>1, <3>1
    <3> HIDE DEF next
    <3>4. QED
      BY <2>1, <3>2, <3>3
  <2> HIDE DEF next, n
  <2>4. QED
    BY <2>1, <2>2, <2>3 DEF OnItsWay
<1>5. QED
  BY <1>3, <1>4

-----------------------------------------------------------------------------
(* The invariant of server, channel and client.                            *)

\* The chunk sets the storage's levels grow in begin with their first slot.
GrowingChunkSetsWhole == GrowingWhole(storage.chunkSets)

\* The server's storage is as in TickAggregation, nothing was thrown, and what
\* the messages on their way will make of the replica is what the running
\* tick, or the next one, starts from.
ReplicaInv ==
  /\ TickInv
  /\ thrown = Null
  /\ ~ subscribed => channel = <<>> /\ replica = Null
  /\ subscribed => \E last : OnItsWay(last) /\ Awaits(last)

\* No client, no snapshot.
LEMMA ReplicaInvInit ==
  ASSUME InitReplication
  PROVE  ReplicaInv
<1>1. TickInv
  BY TickInvInit DEF InitReplication
<1>2. QED
  BY <1>1 DEF InitReplication, ReplicaInv

\* Steps of the server during a tick.
LEMMA ServerTickKeeps ==
  ASSUME ReplicaInv, ServerTick, UNCHANGED clientVars
  PROVE  ReplicaInv'
<1>1. TickInv'
  <2>1. [Next]_aggregationVars
    BY DEF ServerTick, Next, ProcessTick
  <2>2. QED
    BY <2>1, TickInvStep DEF ReplicaInv
<1>2. /\ subscribed' = subscribed /\ channel' = channel /\ replica' = replica
      /\ thrown' = thrown
  BY DEF clientVars
<1>3. ASSUME subscribed PROVE (\E last : OnItsWay(last) /\ Awaits(last))'
  <2>1. PICK last : OnItsWay(last) /\ Awaits(last)
    BY <1>3 DEF ReplicaInv
  <2>2. OnItsWay(last)'
    BY <1>2, <2>1 DEF OnItsWay
  <2>3. Awaits(last)'
    BY <2>1, ServerTickFollowed DEF ReplicaInv
  <2>4. QED
    BY <2>2, <2>3
<1>4. QED
  BY <1>1, <1>2, <1>3 DEF ReplicaInv

\* The delta is sent.
LEMMA SendDeltaKeeps ==
  ASSUME ReplicaInv, SendDelta
  PROVE  ReplicaInv'
<1>1. TickInv'
  <2>1. [Next]_aggregationVars
    BY DEF SendDelta, Next, ProcessTick
  <2>2. QED
    BY <2>1, TickInvStep DEF ReplicaInv
<1>2. /\ channel' = IF subscribed THEN Append(channel, BinaryDelta) ELSE channel
      /\ subscribed' = subscribed /\ replica' = replica /\ thrown' = thrown
      /\ phase = "emit" /\ phase' = "idle" /\ storage' = storage
  BY DEF SendDelta, EmitDelta
<1>3. ASSUME subscribed PROVE (\E last : OnItsWay(last) /\ Awaits(last))'
  <2>1. PICK last : OnItsWay(last) /\ Awaits(last)
    BY <1>3 DEF ReplicaInv
  <2> DEFINE d  == BinaryDelta
             ts == ApplyDelta(last, d)
  <2>2. /\ Arrives(d, last, ts)
        /\ WellFormed(ts.chunkSets, Nat, Values)
        /\ ts = RebuildIndexMetadata(ts.chunkSets)
        /\ Alike(ts.chunkSets, storage.chunkSets, {})
    BY <1>2, <2>1, DeltaArrives DEF ReplicaInv
  <2>3. PICK m, us : m = d /\ us = ts
    OBVIOUS
  <2> HIDE DEF d, ts
  <2>4. channel' = Append(channel, m)
    BY <1>2, <1>3, <2>3 DEF d
  <2>5. OnItsWay(us)'
    BY <1>2, <2>1, <2>2, <2>3, <2>4, MessageSent
  <2>6. Awaits(us)'
    BY <1>2, <2>2, <2>3 DEF Awaits
  <2>7. QED
    BY <2>5, <2>6
<1>4. QED
  BY <1>1, <1>2, <1>3 DEF ReplicaInv

\* The snapshot a client gets is like the storage.
LEMMA SubscribeKeeps ==
  ASSUME ReplicaInv, GrowingChunkSetsWhole, Subscribe
  PROVE  ReplicaInv'
<1> DEFINE cs == storage.chunkSets
           ss == Snapshot(cs)
           m  == [type |-> "snapshot", chunkSets |-> ss]
           ts == FromSnapshot(ss)
<1>1. /\ ~ subscribed /\ phase = "idle" /\ subscribed' = TRUE /\ channel' = <<m>>
      /\ UNCHANGED aggregationVars /\ replica' = replica /\ thrown' = thrown
  BY DEF Subscribe
<1>2. TickInv'
  BY <1>1, TickInvStep DEF ReplicaInv
<1>3. /\ Sound(storage, accepted) /\ accepted \subseteq Nat
  BY MaxTimeAssumption DEF ReplicaInv, TickInv, Shapes
<1>4. /\ SnapshotOK(ss) /\ WellFormed(cs, Nat, Values)
      /\ ts = RebuildIndexMetadata(ss) /\ ts.chunkSets = ss
  BY <1>3, SoundMeans, RebuildFields DEF Sound, FromSnapshot
<1>5. Alike(ss, cs, {}) /\ WellFormed(ss, Nat, Values)
  <2>1. Alike(ss, cs, {})
    BY <1>4, SnapshotAlike DEF GrowingChunkSetsWhole
  <2>2. QED
    BY <2>1 DEF Alike
<1>6. PICK us, mm : us = ts /\ mm = m
  OBVIOUS
<1>7. Awaits(us)'
  <2>1. storage' = storage /\ phase' = "idle"
    BY <1>1 DEF aggregationVars
  <2>2. /\ WellFormed(us.chunkSets, Nat, Values)
        /\ us = RebuildIndexMetadata(us.chunkSets)
        /\ Alike(us.chunkSets, cs, {})
    BY <1>4, <1>5, <1>6
  <2>3. QED
    BY <2>1, <2>2 DEF Awaits
<1>8. OnItsWay(us)'
  <2>1. Arrives(mm, replica, us)
    BY <1>4, <1>6 DEF Arrives
  <2> HIDE DEF m, ts
  <2>2. /\ channel' \in Seq({mm}) /\ Len(channel') = 1 /\ channel'[1] = mm
        /\ replica' = replica
    BY <1>1, <1>6
  <2>3. PICK old : old = replica
    OBVIOUS
  <2> DEFINE trail == [k \in 0 .. 1 |-> IF k = 0 THEN old ELSE us]
  <2>4. trail[0] = old /\ trail[1] = us
    OBVIOUS
  <2>5. \A k \in 1 .. 1 : k = 1 /\ k - 1 = 0
    OBVIOUS
  <2> HIDE DEF trail
  <2>6. \A k \in 1 .. Len(channel') : Arrives(channel'[k], trail[k - 1], trail[k])
    BY <2>1, <2>2, <2>3, <2>4, <2>5
  <2>7. QED
    BY <2>2, <2>3, <2>4, <2>6 DEF OnItsWay
<1>9. QED
  BY <1>1, <1>2, <1>7, <1>8 DEF ReplicaInv

\* A message is received: it throws nothing.
LEMMA ReceiveKeeps ==
  ASSUME ReplicaInv, ReceiveSnapshot \/ ReceiveDelta
  PROVE  /\ ReplicaInv'
         /\ Arrives(Head(channel), replica, replica')
<1>1. /\ channel # <<>> /\ channel' = Tail(channel)
      /\ UNCHANGED aggregationVars /\ subscribed' = subscribed
  BY DEF ReceiveSnapshot, ReceiveDelta
<1>2. subscribed
  BY <1>1 DEF ReplicaInv
<1>3. TickInv'
  BY <1>1, TickInvStep DEF ReplicaInv
<1>4. PICK last : OnItsWay(last) /\ Awaits(last)
  BY <1>2 DEF ReplicaInv
<1>5. PICK ts : /\ Arrives(Head(channel), replica, ts)
                /\ (channel' = Tail(channel) /\ replica' = ts) => OnItsWay(last)'
  BY <1>1, <1>4, MessageReceived
<1>6. replica' = ts /\ thrown' = thrown
  <2>1. CASE ReceiveSnapshot
    BY <1>5, <2>1 DEF ReceiveSnapshot, Arrives
  <2>2. CASE ReceiveDelta
    <3>1. DeltaError(replica, Head(channel)) = Null /\ ts = ApplyDelta(replica, Head(channel))
      BY <1>5, <2>2 DEF ReceiveDelta, Arrives
    <3>2. QED
      BY <2>2, <3>1 DEF ReceiveDelta
  <2>3. QED
    BY <2>1, <2>2
<1>7. OnItsWay(last)'
  BY <1>1, <1>5, <1>6
<1>8. Awaits(last)'
  BY <1>1, <1>4 DEF Awaits, Repeats, aggregationVars, deltaVars
<1>9. ReplicaInv'
  BY <1>1, <1>2, <1>3, <1>6, <1>7, <1>8 DEF ReplicaInv
<1>10. QED
  BY <1>5, <1>6, <1>9

\* The client leaves, or the server restarts.
LEMMA LeaveKeeps ==
  ASSUME ReplicaInv, Unsubscribe \/ RestartServer
  PROVE  ReplicaInv'
<1>1. /\ subscribed' = FALSE /\ channel' = <<>> /\ replica' = Null /\ thrown' = Null
      /\ [Next]_aggregationVars
  BY DEF Unsubscribe, RestartServer, Next
<1>2. TickInv'
  BY <1>1, TickInvStep DEF ReplicaInv
<1>3. QED
  BY <1>1, <1>2 DEF ReplicaInv

\* No step breaks the invariant, as long as a client subscribes when the
\* chunk sets the levels grow in are whole.
LEMMA ReplicaInvStep ==
  ASSUME ReplicaInv, GrowingChunkSetsWhole, [NextReplication]_vars
  PROVE  ReplicaInv'
<1>1. CASE ServerTick /\ UNCHANGED clientVars
  BY <1>1, ServerTickKeeps
<1>2. CASE SendDelta
  BY <1>2, SendDeltaKeeps
<1>3. CASE RestartServer \/ Unsubscribe
  BY <1>3, LeaveKeeps
<1>4. CASE Subscribe
  BY <1>4, SubscribeKeeps
<1>5. CASE ReceiveSnapshot \/ ReceiveDelta
  BY <1>5, ReceiveKeeps
<1>6. CASE UNCHANGED vars
  <2>1. /\ UNCHANGED aggregationVars /\ subscribed' = subscribed /\ channel' = channel
        /\ replica' = replica /\ thrown' = thrown
    BY <1>6 DEF vars, aggregationVars
  <2>2. TickInv'
    BY <2>1, TickInvStep DEF ReplicaInv
  <2>3. ASSUME NEW last, OnItsWay(last), Awaits(last) PROVE OnItsWay(last)' /\ Awaits(last)'
    BY <2>1, <2>3 DEF OnItsWay, Awaits, Repeats, aggregationVars, deltaVars
  <2>4. QED
    BY <2>1, <2>2, <2>3 DEF ReplicaInv
<1>7. QED
  BY <1>1, <1>2, <1>3, <1>4, <1>5, <1>6 DEF NextReplication

\* The invariant says of a client that has applied everything what
\* ReplicaFollows says.
LEMMA ReplicaInvImplies ==
  ASSUME ReplicaInv
  PROVE  ReplicaFollows
<1>1. thrown = Null
  BY DEF ReplicaInv
<1>2. ASSUME replica # Null, channel = <<>>, phase = "idle"
      PROVE  View(replica) = View(storage)
  <2>1. subscribed
    BY <1>2 DEF ReplicaInv
  <2>2. PICK last : OnItsWay(last) /\ Awaits(last)
    BY <2>1 DEF ReplicaInv
  <2>3. replica = last
    BY <1>2, <2>2 DEF OnItsWay
  <2>4. /\ last = RebuildIndexMetadata(last.chunkSets)
        /\ Alike(last.chunkSets, storage.chunkSets, {})
    BY <1>2, <2>2 DEF Awaits
  <2>5. storage = RebuildIndexMetadata(storage.chunkSets)
    BY DEF ReplicaInv, TickInv, Sound
  <2>6. View(RebuildIndexMetadata(last.chunkSets))
          = View(RebuildIndexMetadata(storage.chunkSets))
    BY <2>4, AlikeViews
  <2>7. QED
    BY <2>3, <2>4, <2>5, <2>6
<1>3. QED
  BY <1>1, <1>2 DEF ReplicaFollows, NeverThrows

\* A delta flagged append-only adds to what the client had.
LEMMA ReplicaInvAppends ==
  ASSUME ReplicaInv, ReceiveDelta, Head(channel).appendOnly
  PROVE  /\ Front(Items(replica')) = Items(replica)
         /\ replica'.boundaries = replica.boundaries
<1>1. Arrives(Head(channel), replica, replica')
  BY ReceiveKeeps
<1>2. Head(channel).type = "delta"
  BY DEF ReceiveDelta
<1>3. QED
  BY <1>1, <1>2 DEF Arrives

\* A client that has applied the snapshot and the deltas of a market (applySnapshot
\* and applyDelta of shared/services/storage.ts) sees what the server has, and no
\* check of the decoder of delta-v1_0.ts ever throws: for every number of levels,
\* chunk size, level size, bucket duration and length of the channel, as long as
\* the chunk sets the levels grow in have lost no items at their front.
THEOREM ReplicaFollowsGrowing ==
  SpecReplication /\ []GrowingChunkSetsWhole => []ReplicaFollows
<1>1. InitReplication => ReplicaInv
  BY ReplicaInvInit
<1>2. ReplicaInv /\ GrowingChunkSetsWhole /\ [NextReplication]_vars => ReplicaInv'
  BY ReplicaInvStep
<1>3. ReplicaInv => ReplicaFollows
  BY ReplicaInvImplies
<1>4. QED
  BY <1>1, <1>2, <1>3, PTL DEF SpecReplication

\* Under the same condition a delta getBinaryDelta flags append-only adds one item
\* behind those the client has and leaves them and the levels as they are.
THEOREM AppendOnlyAppendsGrowing ==
  SpecReplication /\ []GrowingChunkSetsWhole => AppendOnlyAppends
<1>1. InitReplication => ReplicaInv
  BY ReplicaInvInit
<1>2. ReplicaInv /\ GrowingChunkSetsWhole /\ [NextReplication]_vars => ReplicaInv'
  BY ReplicaInvStep
<1>3. ReplicaInv /\ [NextReplication]_vars
        => [(ReceiveDelta /\ Head(channel).appendOnly /\ thrown' = Null) =>
              /\ Front(Items(replica')) = Items(replica)
              /\ replica'.boundaries = replica.boundaries]_vars
  BY ReplicaInvAppends
<1>4. QED
  BY <1>1, <1>2, <1>3, PTL DEF SpecReplication, AppendOnlyAppends

-----------------------------------------------------------------------------
(* Changes that keep the chunk sets the levels grow in whole.              *)

\* No chunk set has lost items at its front.
Whole(cs) == \A i \in 1 .. Len(cs) : cs[i].start = 0

\* Chunk sets of the same shape as whole ones are whole where levels grow.
LEMMA GrowingAsWhole ==
  ASSUME NEW cs, NEW ds, SameShape(ds, cs), Whole(ds)
  PROVE  GrowingWhole(cs)
BY DEF SameShape, Whole, GrowingWhole

\* A snapshot is such whole chunk sets.
LEMMA SnapshotWhole ==
  ASSUME NEW cs, WellFormed(cs, Nat, Values)
  PROVE  /\ WellFormed(Snapshot(cs), Nat, Values)
         /\ Whole(Snapshot(cs))
         /\ GrowingWhole(Snapshot(cs))
         /\ GrowingWhole(cs) => SameShape(Snapshot(cs), cs)
<1>1. DOMAIN cs = 1 .. Len(cs) /\ Len(cs) \in Nat
  BY ChunkSetFacts
<1>2. WellFormed(Snapshot(cs), Nat, Values)
  BY SnapshotWellFormed DEF Values
<1>3. Len(Snapshot(cs)) = Len(cs)
  BY <1>1 DEF Snapshot
<1>4. Whole(Snapshot(cs)) /\ GrowingWhole(Snapshot(cs))
  <2>1. \A i \in 1 .. Len(cs) : Snapshot(cs)[i].start = 0
    <3>1. \A i \in 1 .. Len(cs) : cs[i] \in ChunkSetOf(Nat, Values)
      BY ChunkSetFacts
    <3>2. QED
      BY <1>1, <3>1 DEF Snapshot, Compact, ChunkSetOf
  <2>2. QED
    BY <1>3, <2>1 DEF Whole, GrowingWhole
<1>5. GrowingWhole(cs) => SameShape(Snapshot(cs), cs)
  BY SnapshotAlike DEF Alike
<1>6. QED
  BY <1>2, <1>4, <1>5

\* A write moves nothing.
LEMMA SetKeepsGrowing ==
  ASSUME NEW cs, WellFormed(cs, Nat, Values), GrowingWhole(cs), NEW p, NEW item \in Values
  PROVE  GrowingWhole(SetItem(RebuildIndexMetadata(cs), p, item).chunkSets)
<1> DEFINE ds == SetItem(RebuildIndexMetadata(cs), p, item).chunkSets
<1>1. Len(ds) = Len(cs) /\ Len(cs) \in Nat
  BY SetItemHeaders, ChunkSetFacts
<1>2. SameShape(cs, ds)
  BY <1>1, SetItemShape
<1>3. SameShape(Snapshot(cs), cs) /\ Whole(Snapshot(cs))
  BY SnapshotWhole
<1> HIDE DEF ds
<1>4. SameShape(Snapshot(cs), ds)
  BY <1>1, <1>2, <1>3, ShapeTransitive
<1>5. GrowingWhole(ds)
  BY <1>3, <1>4, GrowingAsWhole
<1>6. QED
  BY <1>5 DEF ds

\* An addition puts its item behind the others of its chunk set.
LEMMA AddKeepsWhole ==
  ASSUME NEW cs, WellFormed(cs, Nat, Values), Whole(cs), NEW lv \in Levels, NEW s, NEW e
  PROVE  Whole(AddToChunkSets(cs, lv, s, e))
<1> DEFINE N  == Len(cs)
           at == ChunkSetInsertionIndex(cs, lv)
           T == ChunkSetOf(Nat, Values)
<1>1. /\ N \in Nat /\ DOMAIN cs = 1 .. N /\ cs \in Seq(T)
      /\ \A i \in 1 .. N : cs[i] \in T /\ cs[i].start = 0
  BY ChunkSetFacts DEF WellFormed, Whole
<1>2. at \in 1 .. N + 1
  BY <1>1, InsertionIndexIsFirst
<1> HIDE DEF T, N, at
<1>3. CASE HasRoom(cs, at - 1, lv)
  <2> DEFINE k == at - 1
  <2>1. AddToChunkSets(cs, lv, s, e) = Grown(cs, k, e)
    BY <1>3, AddWithRoom DEF at
  <2> HIDE DEF k
  <2>2. Len(Grown(cs, k, e)) = N
    BY <1>1 DEF Grown, N
  <2>3. \A i \in 1 .. N : Grown(cs, k, e)[i].start = 0
    BY <1>1 DEF Grown, T, ChunkSetOf
  <2>4. QED
    BY <2>1, <2>2, <2>3 DEF Whole
<1>4. CASE ~ HasRoom(cs, at - 1, lv)
  <2> DEFINE new == NewChunkSet(lv, s, e)
             C == Inserted(cs, at, new)
  <2>1. AddToChunkSets(cs, lv, s, e) = C
    BY <1>1, <1>4, AddWithoutRoom DEF at
  <2>2. /\ Len(C) = N + 1
        /\ \A i \in 1 .. N + 1 : C[i] = IF i < at THEN cs[i]
                                        ELSE IF i = at THEN new ELSE cs[i - 1]
    BY <1>1 DEF Inserted, N
  <2>3. new.start = 0
    BY DEF NewChunkSet
  <2> HIDE DEF C, new
  <2>4. \A i \in 1 .. N + 1 : C[i].start = 0
    BY <1>1, <1>2, <2>2, <2>3
  <2>5. QED
    BY <2>1, <2>2, <2>4 DEF Whole
<1>5. QED
  BY <1>3, <1>4

\* So it keeps the chunk sets the levels grow in whole.
LEMMA AddKeepsGrowing ==
  ASSUME NEW cs, WellFormed(cs, Nat, Values), GrowingWhole(cs), NEW lv \in Levels,
         NEW s \in Nat, NEW e \in Nat, NEW item \in Values
  PROVE  GrowingWhole(AddItem(RebuildIndexMetadata(cs), lv, s, e, item).chunkSets)
<1> DEFINE st == RebuildIndexMetadata(cs)
           ss == Snapshot(cs)
           es == AddToChunkSets(cs, lv, s, e)
<1>1. WellFormed(ss, Nat, Values) /\ Whole(ss) /\ SameShape(ss, cs)
  BY SnapshotWhole
<1> HIDE DEF ss
<1>2. SameShape(AddToChunkSets(ss, lv, s, e), es)
  BY <1>1, AddShape
<1>3. Whole(AddToChunkSets(ss, lv, s, e))
  BY <1>1, AddKeepsWhole
<1>4. GrowingWhole(es)
  BY <1>2, <1>3, GrowingAsWhole
<1>5. WellFormed(es, Nat, Values)
  BY AddKeepsWellFormed DEF Values
<1>6. AddItem(st, lv, s, e, item) = SetItem(RebuildIndexMetadata(es), LevelEnd(st, lv), item)
  <2>1. EmptyItem \in Values
    BY DEF Values
  <2>2. AddItemStructure(st, lv, s, e) = RebuildIndexMetadata(es)
    BY <2>1, AddMetadata
  <2>3. QED
    BY <2>2 DEF AddItem
<1> HIDE DEF es, st
<1>7. GrowingWhole(SetItem(RebuildIndexMetadata(es), LevelEnd(st, lv), item).chunkSets)
  BY <1>4, <1>5, SetKeepsGrowing
<1>8. QED
  BY <1>6, <1>7 DEF st

\* A deletion that leaves a chunk set full of items in its level does not take
\* items from the chunk set the level grows in.
LEMMA DeleteKeepsGrowing ==
  ASSUME NEW cs, WellFormed(cs, Nat, Values), GrowingWhole(cs), NEW lv \in Levels,
         NEW count \in Nat \ {0}, NEW t,
         count + STORAGE_CHUNK_CAPACITY <= LevelSize(RebuildIndexMetadata(cs), lv)
  PROVE  GrowingWhole(DeleteFromChunkSets(cs, lv, count, t))
<1> DEFINE N == Len(cs)
           S == SizeSums(cs)
           a == ChunkSetInsertionIndex(cs, lv + 1)
           b == ChunkSetInsertionIndex(cs, lv)
           r == LastRemoved(cs, lv, count)
           trim == TrimCount(cs, lv, count)
           g == r - a + 1
           M == N - g
           C == Without(cs, a, r)
           D == Without(Snapshot(cs), a, r)
           LS == LevelSize(RebuildIndexMetadata(cs), lv)
<1>1. /\ N \in Nat /\ b \in 1 .. N + 1 /\ a <= b
      /\ \A i \in 1 .. N : cs[i].level = lv <=> a <= i /\ i < b
      /\ LS = S[b - 1] - S[a - 1]
      /\ \A i \in 0 .. N : S[i] \in Nat
      /\ \A i \in 1 .. N : S[i] = S[i - 1] + cs[i].size
      /\ \A i \in 1 .. N : cs[i].size \in Nat /\ cs[i].size <= STORAGE_CHUNK_CAPACITY
  <2>1. \A i \in 0 .. N : S[i] \in Nat
    BY SizeSumsGrow
  <2>2. \A i \in 1 .. N : S[i] = S[i - 1] + cs[i].size
    BY SizeSumsGrow
  <2>3. N \in Nat /\ \A i \in 1 .. N : cs[i] \in ChunkSetOf(Nat, Values)
    BY ChunkSetFacts
  <2>4. \A i \in 1 .. N : cs[i].size \in Nat /\ cs[i].size <= STORAGE_CHUNK_CAPACITY
    BY <2>3, CapacityAssumption DEF ChunkSetOf
  <2>5. /\ b \in 1 .. N + 1 /\ a <= b
        /\ \A i \in 1 .. N : cs[i].level = lv <=> a <= i /\ i < b
        /\ LevelSize(RebuildIndexMetadata(cs), lv) = S[b - 1] - S[a - 1]
    BY LevelRange
  <2> HIDE DEF S, a, b, N
  <2>6. QED
    BY <2>1, <2>2, <2>3, <2>4, <2>5
<1>2. count <= LS /\ count \in Nat /\ LS - count >= STORAGE_CHUNK_CAPACITY
  <2>1. S[b - 1] \in Nat /\ S[a - 1] \in Nat
    <3>1. a \in 1 .. N + 1
      BY LevelRange
    <3> HIDE DEF S, a, b, N
    <3>2. QED
      BY <1>1, <3>1
  <2> HIDE DEF S, a, b, N
  <2>2. LS \in Int
    BY <1>1, <2>1
  <2> HIDE DEF LS
  <2>3. QED
    BY <2>2, CapacityAssumption DEF LS
<1>3. /\ a \in 1 .. N /\ r \in a - 1 .. N /\ r < b
      /\ trim \in Nat
      /\ trim = count - (S[r] - S[a - 1])
      /\ trim > 0 => r + 1 \in 1 .. N /\ cs[r + 1].size > trim
      /\ DeleteFromChunkSets(cs, lv, count, t)
           = IF trim = 0 THEN C ELSE Trimmed(C, a, trim, t)
  BY <1>2, DeletedRange
<1>4. a > 1 => cs[a - 1].level # cs[a].level
  <2>1. a < b
    <3>1. CASE a = b
      <4>1. S[a - 1] \in Nat /\ S[b - 1] = S[a - 1]
        <5> HIDE DEF S, a, b, r
        <5>1. QED
          BY <1>1, <1>3, <3>1
      <4> HIDE DEF S, a, b, LS
      <4>2. QED
        BY <1>1, <1>2, <4>1
    <3> HIDE DEF a, b
    <3>2. QED
      BY <1>1, <1>3, <3>1
  <2> HIDE DEF a, b
  <2>2. QED
    BY <1>1, <1>3, <2>1
<1>5. /\ WellFormed(Snapshot(cs), Nat, Values) /\ Whole(Snapshot(cs))
      /\ SameShape(Snapshot(cs), cs)
  BY SnapshotWhole
<1>6. SameShape(D, C)
  <2> HIDE DEF a, r
  <2>1. QED
    BY <1>3, <1>4, <1>5, WithoutShape
<1>7. g \in Nat /\ M \in Nat /\ a + g = r + 1
  <2> HIDE DEF a, r, N
  <2>1. QED
    BY <1>1, <1>3
<1>8. Len(C) = M /\ \A i \in 1 .. M : C[i] = IF i < a THEN cs[i] ELSE cs[i + g]
  <2> HIDE DEF a, r
  <2>1. QED
    BY <1>7 DEF Without
<1>9. GrowingWhole(C)
  <2>1. Whole(D)
    <3>1. Len(Snapshot(cs)) = N
      BY <1>5 DEF SameShape
    <3>2. Len(D) = M /\ \A i \in 1 .. M : D[i] = IF i < a THEN Snapshot(cs)[i] ELSE Snapshot(cs)[i + g]
      <4> HIDE DEF a, r, N
      <4>1. QED
        BY <1>7, <3>1 DEF Without
    <3>3. \A i \in 1 .. M : (i < a => i \in 1 .. N) /\ (i >= a => i + g \in 1 .. N)
      <4> HIDE DEF a, r, N
      <4>1. QED
        BY <1>1, <1>3, <1>7
    <3> HIDE DEF D, M, g, a, N
    <3>4. QED
      BY <1>5, <3>1, <3>2, <3>3, <1>3 DEF Whole
  <2> HIDE DEF C, D
  <2>2. QED
    BY <1>6, <2>1, GrowingAsWhole
<1>10. CASE trim = 0
  <2> HIDE DEF C, trim
  <2>1. QED
    BY <1>3, <1>9, <1>10
<1>11. CASE trim # 0
  <2>1. r + 2 \in 1 .. N /\ r + 2 < b /\ a + 1 \in 1 .. M
    <3>1. r + 1 \in 1 .. N /\ r + 1 <= b - 1
      <4>1. r + 1 \in 1 .. N
        <5> HIDE DEF trim
        <5>1. QED
          BY <1>3, <1>11
      <4>2. r \in Int /\ b \in Int /\ r < b
        <5> HIDE DEF r, a, b, N
        <5>1. a - 1 \in Int
          BY <1>3
        <5>2. QED
          BY <1>1, <1>3, <5>1
      <4>3. r # b - 1
        <5>1. ASSUME r = b - 1 PROVE FALSE
          <6>1. S[r] = S[b - 1]
            BY <5>1
          <6>2. trim = count - LS
            <7> HIDE DEF S, a, b, r, LS
            <7>1. QED
              BY <1>1, <1>3, <6>1
          <6>3. LS \in Int /\ LS - count >= STORAGE_CHUNK_CAPACITY
            <7>1. S[b - 1] \in Nat /\ S[a - 1] \in Nat
              <8> HIDE DEF S, a, b, N
              <8>1. QED
                BY <1>1, <1>3
            <7> HIDE DEF S, a, b, LS
            <7>2. QED
              BY <1>1, <1>2, <7>1
          <6> HIDE DEF LS, trim
          <6>4. QED
            BY <1>2, <1>3, <6>2, <6>3, CapacityAssumption
        <5>2. QED
          BY <5>1
      <4>4. r + 1 <= b - 1
        <5> HIDE DEF r, b
        <5>1. QED
          BY ONLY <4>2, <4>3
      <4>5. QED
        BY ONLY <4>1, <4>4
    <3> DEFINE x == S[r]
               y == S[r + 1]
               z == S[a - 1]
    <3>2. /\ x \in Nat /\ y \in Nat /\ z \in Nat
          /\ y <= x + STORAGE_CHUNK_CAPACITY
      <4>1. r \in 0 .. N /\ r + 1 \in 0 .. N /\ a - 1 \in 0 .. N /\ (r + 1) - 1 = r
        <5> HIDE DEF r, a, N
        <5>1. QED
          BY <1>1, <1>3, <3>1
      <4> DEFINE q == r + 1
      <4>2. y = S[q - 1] + cs[q].size /\ cs[q].size \in Nat /\ cs[q].size <= STORAGE_CHUNK_CAPACITY
        <5> HIDE DEF q, N, S
        <5>1. q \in 1 .. N
          BY <3>1 DEF q
        <5>2. QED
          BY <1>1, <5>1 DEF q
      <4>3. q - 1 = r
        BY <4>1
      <4> HIDE DEF q, N, S, a, r
      <4>4. S[r] \in Nat /\ S[r + 1] \in Nat /\ S[a - 1] \in Nat
        BY <1>1, <4>1
      <4>5. S[r + 1] = S[r] + cs[q].size
        BY <4>2, <4>3
      <4>6. QED
        BY <4>2, <4>4, <4>5, CapacityAssumption
    <3>3. CASE r + 1 = b - 1
      <4>1. S[b - 1] = y
        BY <3>3
      <4>2. LS = y - z /\ trim = count - (x - z)
        <5> HIDE DEF LS, S, b
        <5>1. QED
          BY <1>1, <1>3, <4>1
      <4> HIDE DEF x, y, z, LS, trim
      <4>3. QED
        BY <1>2, <1>3, <1>11, <3>2, <4>2, CapacityAssumption
    <3>4. CASE r + 1 # b - 1
      <4> HIDE DEF a, r, b, N
      <4>1. QED
        BY <1>1, <1>3, <3>1, <3>4
    <3>5. QED
      BY <3>3, <3>4
  <2>2. C[a + 1].level = C[a].level
    <3>1. C[a + 1] = cs[r + 2] /\ C[a] = cs[r + 1]
      <4>1. a \in 1 .. M /\ (a + 1) + g = r + 2 /\ a + g = r + 1
        <5> HIDE DEF a, r, N
        <5>1. QED
          BY <1>3, <1>7, <2>1
      <4> DEFINE q == a + 1
      <4>2. q \in 1 .. M /\ ~ (q < a)
        <5> HIDE DEF a, M
        <5>1. QED
          BY <1>3, <2>1
      <4>3. C[q] = cs[q + g] /\ C[a] = cs[a + g]
        <5> HIDE DEF C, M, g, a, q
        <5>1. ~ (a < a)
          BY <1>3
        <5>2. QED
          BY <1>8, <4>1, <4>2, <5>1
      <4>4. QED
        BY <4>1, <4>3
    <3>2. cs[r + 2].level = lv /\ cs[r + 1].level = lv
      <4> HIDE DEF a, r, b, N
      <4>1. r + 1 \in 1 .. N /\ a <= r + 1 /\ r + 1 < b /\ a <= r + 2
        BY <1>1, <1>3, <2>1
      <4>2. QED
        BY <1>1, <2>1, <4>1
    <3>3. QED
      BY <3>1, <3>2
  <2> DEFINE E == Trimmed(C, a, trim, t)
  <2>3. WellFormed(C, Nat, Values)
    <3> HIDE DEF a, r
    <3>1. QED
      BY <1>3, WithoutKeepsWellFormed
  <2> HIDE DEF C, M, a, trim
  <2>4. /\ DOMAIN C = 1 .. M
        /\ \A i \in 1 .. M : C[i] \in ChunkSetOf(Nat, Values)
    BY <1>8, <2>3, ChunkSetFacts
  <2>5. Len(E) = M /\ \A i \in 1 .. M : E[i].level = C[i].level /\ (i # a => E[i].start = C[i].start)
    BY <1>7, <1>8, <2>4 DEF Trimmed, ChunkSetOf
  <2> HIDE DEF E
  <2>6. ASSUME NEW i \in 1 .. M, LastOfLevel(E, i) PROVE E[i].start = 0
    <3>1. i # a
      BY <1>3, <2>1, <2>2, <2>5, <2>6 DEF LastOfLevel
    <3>2. LastOfLevel(C, i)
      <4>1. i # M => i + 1 \in 1 .. M
        BY <1>7
      <4>2. QED
        BY <1>8, <2>5, <2>6, <4>1 DEF LastOfLevel
    <3>3. QED
      BY <1>8, <1>9, <2>5, <3>1, <3>2 DEF GrowingWhole
  <2>7. GrowingWhole(E)
    BY <2>5, <2>6 DEF GrowingWhole
  <2>8. QED
    BY <1>3, <1>11, <2>7 DEF E
<1>12. QED
  BY <1>10, <1>11

-----------------------------------------------------------------------------
(* Buckets that leave a chunk set full of items.                           *)

\* Where the levels begin: an item of level l is at starts[l + 1] or behind it
\* and before starts[l].
Starts(cs) == [x \in 0 .. NumberOfLevels |-> FlatStart(cs, x)]

\* Ticks are g apart; from the start of any other item to the end of the item
\* behind it more time passes than the item should last.
SpacedReads(R, n, starts, g) ==
  \A l \in Levels, f \in Nat :
    starts[l + 1] <= f /\ f < starts[l] /\ f + 1 < n =>
      IF l = 0 THEN R[f].startedAt + g <= R[f + 1].startedAt
               ELSE R[f].startedAt + Duration[l] < R[f + 1].endedAt

\* The same of the items of a storage.
Spaced(st, g) == SpacedReads(Reads(st), Size(st), Starts(st.chunkSets), g)

\* Times that each come d after the one before come K * d apart in K steps.
LEMMA Strides ==
  ASSUME NEW d \in Nat, NEW K \in Nat, NEW U, \A k \in 0 .. K : U[k] \in Nat,
         \A k \in 0 .. K : k + 1 <= K => U[k] + d <= U[k + 1]
  PROVE  U[0] + K * d <= U[K]
<1> DEFINE S == {k \in Nat : k <= K => U[0] + k * d <= U[k]}
<1>1. 0 \in S
  <2>1. U[0] \in Nat /\ 0 * d = 0
    OBVIOUS
  <2>2. U[0] + 0 * d <= U[0]
    BY <2>1
  <2>3. QED
    BY <2>2
<1>2. ASSUME NEW k \in S PROVE k + 1 \in S
  <2>1. k \in Nat /\ (k <= K => U[0] + k * d <= U[k])
    OBVIOUS
  <2> DEFINE p == k * d
             q == (k + 1) * d
  <2>2. q = p + d /\ p \in Nat /\ q \in Nat
    BY <2>1
  <2>3. ASSUME k + 1 <= K PROVE U[0] + q <= U[k + 1]
    <3>1. /\ k \in 0 .. K /\ k + 1 \in 0 .. K /\ 0 \in 0 .. K /\ k <= K
      BY <2>1, <2>3
    <3> DEFINE m == k + 1
    <3> HIDE DEF p, q, m
    <3>2. U[k] + d <= U[m] /\ U[k] \in Nat /\ U[m] \in Nat /\ U[0] \in Nat
      BY <2>3, <3>1 DEF m
    <3>3. U[0] + p <= U[k]
      BY <2>1, <3>1 DEF p
    <3>4. U[0] + q <= U[m]
      BY <2>2, <3>2, <3>3
    <3>5. QED
      BY <3>4 DEF m
  <2>4. QED
    BY <2>1, <2>3
<1>3. S = Nat
  <2> HIDE DEF S
  <2>1. S \in SUBSET Nat
    BY DEF S
  <2>2. QED
    BY <1>1, <1>2, <2>1, SetInduction
<1>4. K \in S
  BY <1>3
<1>5. QED
  BY <1>4

\* A bucket is closed at the first item that ends late enough, and the item
\* behind it ends too late.
LEMMA BucketEnds ==
  ASSUME NEW st, NEW start, NEW count \in Nat \ {0}, NEW duration \in Nat,
         NEW from \in Nat, from = GetItem(st, start).startedAt,
         NEW E, \A b \in 1 .. count : /\ E[b] = GetItem(st, start + b - 1).endedAt
                                      /\ E[b] \in Nat /\ from <= E[b],
         \A b \in 1 .. count : b + 1 <= count => E[b] < E[b + 1]
  PROVE  LET bucket == FirstBucketCount(st, start, count, duration)
         IN  /\ bucket \in 1 .. count
             /\ \A m \in 1 .. count : m < count /\ from + duration <= E[m] => bucket <= m
             /\ bucket < count => from + duration < E[bucket + 1]
<1> DEFINE Missed(b) == Distance(GetItem(st, start + b - 1).endedAt - from, duration)
           S == {b \in 1 .. count : b = count \/ Missed(b + 1) >= Missed(b)}
           bucket == FirstBucketCount(st, start, count, duration)
<1>1. S \in SUBSET Nat /\ S # {} /\ S \subseteq 1 .. count
  OBVIOUS
<1>2. bucket = Min(S)
  BY DEF FirstBucketCount
<1>3. ASSUME NEW b \in 1 .. count
      PROVE  /\ Missed(b) = IF E[b] - from > duration THEN (E[b] - from) - duration
                                                      ELSE duration - (E[b] - from)
             /\ E[b] - from \in Nat
  <2>1. E[b] = GetItem(st, start + b - 1).endedAt /\ E[b] \in Nat /\ from <= E[b]
    OBVIOUS
  <2>2. QED
    BY <2>1 DEF Distance
<1>4. ASSUME NEW b \in 1 .. count, b < count
      PROVE  /\ from + duration <= E[b] => b \in S
             /\ b \in S => from + duration < E[b + 1]
  <2> DEFINE c == b + 1
  <2>1. c \in 1 .. count /\ E[b] < E[c]
    BY <1>4
  <2>2. b \in S <=> Missed(c) >= Missed(b)
    BY <1>4
  <2> HIDE DEF S, c
  <2> DEFINE x == Missed(b)
             y == Missed(c)
  <2>3. /\ x = IF E[b] - from > duration THEN (E[b] - from) - duration
                                         ELSE duration - (E[b] - from)
        /\ y = IF E[c] - from > duration THEN (E[c] - from) - duration
                                         ELSE duration - (E[c] - from)
    BY <1>3, <2>1
  <2> HIDE DEF x, y, Missed
  <2>4. E[b] \in Nat /\ E[c] \in Nat
    BY <2>1
  <2>5. (from + duration <= E[b] => y >= x) /\ (y >= x => from + duration < E[c])
    BY ONLY <2>1, <2>3, <2>4, duration \in Nat, from \in Nat
  <2>6. QED
    BY <2>2, <2>5 DEF x, y, c
<1> HIDE DEF S, bucket
<1>5. bucket \in S /\ \A b \in S : bucket <= b
  BY <1>1, <1>2, MinIsLeast
<1>6. bucket \in 1 .. count
  BY <1>1, <1>5
<1>7. \A m \in 1 .. count : m < count /\ from + duration <= E[m] => bucket <= m
  BY <1>4, <1>5
<1>8. bucket < count => from + duration < E[bucket + 1]
  BY <1>4, <1>5, <1>6
<1>9. QED
  BY <1>6, <1>7, <1>8 DEF bucket

\* How long the first m items of a level last.
LEMMA LevelSpan ==
  ASSUME NEW n \in Nat, NEW R, NEW ticks, InTime(R, n, ticks),
         NEW g \in Nat, NEW starts, SpacedReads(R, n, starts, g),
         NEW lv \in Levels, NEW s \in Nat, NEW size \in Nat,
         starts[lv + 1] = s, starts[lv] = s + size, s + size <= n,
         NEW m \in 1 .. size
  PROVE  R[s].startedAt + (IF lv = 0 THEN (m - 1) * g ELSE ((m - 1) \div 2) * Duration[lv])
           <= R[s + m - 1].endedAt
<1>1. \A f \in 0 .. n - 1 : /\ R[f].startedAt \in Nat /\ R[f].endedAt \in Nat
                            /\ R[f].startedAt <= R[f].endedAt
  BY CandleTimes
<1>2. \A f, h \in 0 .. n - 1 : f < h => R[f].endedAt < R[h].startedAt
  BY DEF InTime
<1>3. ASSUME NEW f \in Nat, s <= f, f < s + size, f + 1 < n
      PROVE  IF lv = 0 THEN R[f].startedAt + g <= R[f + 1].startedAt
                       ELSE R[f].startedAt + Duration[lv] < R[f + 1].endedAt
  BY <1>3 DEF SpacedReads
<1>4. CASE lv = 0
  <2> DEFINE K == m - 1
             U == [k \in 0 .. K |-> R[s + k].startedAt]
  <2>1. K \in Nat /\ 0 \in 0 .. K /\ K \in 0 .. K
    OBVIOUS
  <2>2. ASSUME NEW k \in 0 .. K
        PROVE  /\ U[k] = R[s + k].startedAt /\ U[k] \in Nat
               /\ k + 1 <= K => U[k] + g <= U[k + 1]
    <3>1. s + k \in Nat /\ s + k \in 0 .. n - 1 /\ s <= s + k /\ s + k < s + size
      OBVIOUS
    <3>2. U[k] = R[s + k].startedAt /\ U[k] \in Nat
      BY <1>1, <3>1
    <3>3. ASSUME k + 1 <= K PROVE U[k] + g <= U[k + 1]
      <4> DEFINE f == s + k
      <4>1. f \in Nat /\ s <= f /\ f < s + size /\ f + 1 < n
        BY <3>3
      <4>2. U[k + 1] = R[f + 1].startedAt
        <5>1. k + 1 \in 0 .. K /\ s + (k + 1) = (s + k) + 1
          BY <3>3
        <5>2. QED
          BY <5>1
      <4> HIDE DEF f, U, K
      <4>3. R[f].startedAt + g <= R[f + 1].startedAt
        BY <1>3, <1>4, <4>1
      <4>4. QED
        BY <3>2, <4>2, <4>3 DEF f
    <3>4. QED
      BY <3>2, <3>3
  <2>3. U[0] = R[s].startedAt
    <3>1. s + 0 = s
      OBVIOUS
    <3>2. QED
      BY <2>1, <2>2, <3>1
  <2>4. U[K] = R[s + m - 1].startedAt /\ s + m - 1 \in 0 .. n - 1
    <3>1. s + (m - 1) = s + m - 1
      OBVIOUS
    <3>2. QED
      BY <2>1, <2>2, <3>1
  <2> HIDE DEF K, U
  <2>5. U[0] + K * g <= U[K]
    BY <2>1, <2>2, Strides
  <2> DEFINE last == s + m - 1
             x == K * g
  <2>6. x \in Nat
    BY <2>1
  <2> HIDE DEF last, x
  <2>7. last \in 0 .. n - 1 /\ U[K] = R[last].startedAt
    BY <2>4 DEF last
  <2>8. U[0] + x <= R[last].endedAt
    <3>1. U[0] \in Nat /\ U[K] \in Nat
      BY <2>1, <2>2
    <3>2. U[K] <= R[last].endedAt /\ R[last].endedAt \in Nat
      BY <1>1, <2>7
    <3>3. U[0] + x <= U[K]
      BY <2>5 DEF x
    <3>4. QED
      BY ONLY <2>6, <3>1, <3>2, <3>3
  <2>9. QED
    BY <1>4, <2>3, <2>8 DEF x, K, last
<1>5. CASE lv # 0
  <2> DEFINE d == Duration[lv]
             K == (m - 1) \div 2
             U == [k \in 0 .. K |-> R[s + 2 * k].startedAt]
  <2>1. K \in Nat /\ 0 \in 0 .. K /\ K \in 0 .. K /\ 2 * K <= m - 1
    OBVIOUS
  <2>2. d \in Nat
    BY DurationAssumption
  <2> HIDE DEF d, K
  <2>3. ASSUME NEW k \in 0 .. K
        PROVE  /\ U[k] = R[s + 2 * k].startedAt /\ U[k] \in Nat
               /\ k + 1 <= K => U[k] + d <= U[k + 1]
    <3>1. s + 2 * k \in Nat /\ s + 2 * k \in 0 .. n - 1
      BY <2>1
    <3>2. U[k] = R[s + 2 * k].startedAt /\ U[k] \in Nat
      BY <1>1, <3>1
    <3>3. ASSUME k + 1 <= K PROVE U[k] + d <= U[k + 1]
      <4> DEFINE f == s + 2 * k
                 h == f + 1
                 i == f + 2
      <4>1. /\ f \in Nat /\ s <= f /\ f < s + size /\ f + 1 < n
            /\ f \in 0 .. n - 1 /\ h \in 0 .. n - 1 /\ i \in 0 .. n - 1 /\ h < i
        BY <2>1, <3>3
      <4>2. U[k + 1] = R[i].startedAt
        <5>1. k + 1 \in 0 .. K /\ s + 2 * (k + 1) = (s + 2 * k) + 2
          BY <2>1, <3>3
        <5>2. QED
          BY <5>1
      <4>3. R[f].startedAt + d < R[h].endedAt
        <5> HIDE DEF f
        <5>1. QED
          BY <1>3, <1>5, <4>1 DEF d
      <4>4. U[k] = R[f].startedAt
        BY <3>2
      <4> HIDE DEF f, h, i, U
      <4>5. R[h].endedAt < R[i].startedAt /\ R[i].startedAt \in Nat /\ R[h].endedAt \in Nat
            /\ R[f].startedAt \in Nat
        BY <1>1, <1>2, <4>1
      <4>6. QED
        BY ONLY <2>2, <4>2, <4>3, <4>4, <4>5
    <3>4. QED
      BY <3>2, <3>3
  <2>4. U[0] = R[s].startedAt
    <3>1. s + 2 * 0 = s
      OBVIOUS
    <3>2. QED
      BY <2>1, <2>3, <3>1
  <2> DEFINE last == s + m - 1
             mid  == s + 2 * K
             x    == K * d
  <2>5. U[K] = R[mid].startedAt
    BY <2>1, <2>3
  <2>6. last \in 0 .. n - 1 /\ mid \in 0 .. n - 1 /\ mid <= last /\ x \in Nat
    <3>1. last \in 0 .. n - 1 /\ mid \in 0 .. n - 1 /\ mid <= last
      BY <2>1
    <3>2. x \in Nat
      BY <2>1, <2>2
    <3>3. QED
      BY <3>1, <3>2
  <2> HIDE DEF U
  <2>7. U[0] + K * d <= U[K]
    BY <2>1, <2>2, <2>3, Strides
  <2> HIDE DEF last, mid, x
  <2>8. R[mid].startedAt <= R[last].endedAt /\ R[mid].startedAt \in Nat
        /\ R[last].endedAt \in Nat
    <3>1. CASE mid = last
      BY <1>1, <2>6, <3>1
    <3>2. CASE mid < last
      <4>1. /\ R[mid].endedAt < R[last].startedAt
            /\ R[mid].startedAt <= R[mid].endedAt /\ R[last].startedAt <= R[last].endedAt
            /\ R[mid].startedAt \in Nat /\ R[mid].endedAt \in Nat
            /\ R[last].startedAt \in Nat /\ R[last].endedAt \in Nat
        BY <1>1, <1>2, <2>6, <3>2
      <4>2. QED
        BY ONLY <4>1
    <3>3. QED
      BY <2>6, <3>1, <3>2
  <2>9. U[0] + x <= R[last].endedAt
    <3>1. U[0] \in Nat
      BY <2>1, <2>3
    <3>2. U[0] + x <= R[mid].startedAt
      BY <2>5, <2>7 DEF x
    <3>3. QED
      BY ONLY <2>6, <2>8, <3>1, <3>2
  <2>10. QED
    BY <1>5, <2>4, <2>9 DEF x, K, last, d
<1>6. QED
  BY <1>4, <1>5

\* The bucket of a full level leaves a chunk set full of items in it, and is
\* closed when with the next item it would last too long.
LEMMA BucketLeaves ==
  ASSUME NEW st, NEW ticks, Sound(st, ticks), NEW g, BucketsFit(g), Spaced(st, g),
         NEW lv \in Levels, lv # MaxLevel, LevelSize(st, lv) >= MaxCount[lv]
  PROVE  LET start  == st.boundaries[lv]
             size   == LevelSize(st, lv)
             bucket == FirstBucketCount(st, start, size, Duration[lv + 1])
         IN  /\ bucket \in 1 .. size
             /\ bucket + STORAGE_CHUNK_CAPACITY <= size
             /\ Reads(st)[start].startedAt + Duration[lv + 1] < Reads(st)[start + bucket].endedAt
<1> DEFINE cs       == st.chunkSets
           n        == Size(st)
           R        == Reads(st)
           F        == Starts(cs)
           start    == st.boundaries[lv]
           size     == LevelSize(st, lv)
           up       == lv + 1
           duration == Duration[up]
           bucket   == FirstBucketCount(st, start, size, duration)
           spare    == MaxCount[lv] - STORAGE_CHUNK_CAPACITY
           from     == GetItem(st, start).startedAt
           E        == [b \in 1 .. size |-> R[start + b - 1].endedAt]
<1>1. /\ n \in Nat /\ start \in Nat /\ size \in Nat
      /\ F[up] = start /\ F[lv] = start + size /\ start + size <= n
  <2>1. lv \in 0 .. NumberOfLevels /\ up \in 0 .. NumberOfLevels
    BY LevelsAssumption DEF Levels, MaxLevel
  <2>2. F[up] = FlatStart(cs, up) /\ F[lv] = FlatStart(cs, lv)
    <3> HIDE DEF up, cs
    <3>1. QED
      BY <2>1 DEF Starts
  <2>3. /\ n \in Nat
        /\ FlatStart(cs, lv) \in Nat /\ FlatStart(cs, up) \in Nat
        /\ FlatStart(cs, up) <= FlatStart(cs, lv) /\ FlatStart(cs, lv) <= n
        /\ start = FlatStart(cs, up) /\ size = FlatStart(cs, lv) - FlatStart(cs, up)
    BY SoundFacts
  <2> HIDE DEF up, cs, F, n, start, size
  <2>4. QED
    BY <2>2, <2>3
<1>2. InTime(R, n, ticks) /\ SpacedReads(R, n, F, g)
  BY DEF Sound, Spaced
<1>3. up \in Levels /\ duration \in Nat
  <2>1. up \in Levels
    BY LevelsAssumption DEF Levels, MaxLevel
  <2> HIDE DEF up
  <2>2. QED
    BY <2>1, DurationAssumption
<1> DEFINE span == IF lv = 0 THEN (spare - 1) * g ELSE ((spare - 1) \div 2) * Duration[lv]
<1>4. /\ g \in Nat /\ spare \in Nat \ {0} /\ duration <= span
      /\ spare + STORAGE_CHUNK_CAPACITY <= size
  <2>1. MaxCount[lv] \in Nat /\ STORAGE_CHUNK_CAPACITY \in Nat \ {0} /\ size >= MaxCount[lv]
    BY MaxCountAssumption, CapacityAssumption
  <2>2. g \in Nat /\ spare >= 1 /\ duration <= span
    BY DEF BucketsFit
  <2>3. size \in Nat
    BY <1>1
  <2> HIDE DEF size, duration, span
  <2>4. spare \in Nat \ {0} /\ spare + STORAGE_CHUNK_CAPACITY <= size
    BY <2>1, <2>2, <2>3
  <2>5. QED
    BY <2>2, <2>4
<1>5. spare \in 1 .. size /\ spare < size /\ size \in Nat \ {0}
  <2> HIDE DEF size, spare
  <2>1. QED
    BY <1>1, <1>4, CapacityAssumption
<1>6. span \in Nat
  <2> HIDE DEF spare
  <2>1. spare - 1 \in Nat /\ (spare - 1) \div 2 \in Nat
    BY <1>4
  <2>2. Duration[lv] \in Nat
    BY DurationAssumption
  <2> DEFINE x == spare - 1
             y == (spare - 1) \div 2
             d == Duration[lv]
  <2> HIDE DEF x, y, d
  <2>3. x * g \in Nat /\ y * d \in Nat
    BY <1>4, <2>1, <2>2 DEF x, y, d
  <2>4. QED
    BY <2>3 DEF x, y, d
<1>7. R[start].startedAt + span <= R[start + spare - 1].endedAt
  <2> HIDE DEF n, R, F, start, size, spare
  <2>1. F[lv + 1] = start
    BY <1>1
  <2>2. QED
    BY <1>1, <1>2, <1>4, <1>5, <2>1, LevelSpan
<1>8. \A f \in 0 .. n - 1 : /\ R[f].startedAt \in Nat /\ R[f].endedAt \in Nat
                            /\ R[f].startedAt <= R[f].endedAt
                            /\ R[f] = GetItem(st, f)
  <2>1. \A f \in 0 .. n - 1 : /\ R[f].startedAt \in Nat /\ R[f].endedAt \in Nat
                              /\ R[f].startedAt <= R[f].endedAt
    BY <1>1, <1>2, CandleTimes
  <2>2. \A f \in 0 .. n - 1 : R[f] = GetItem(st, f)
    BY <1>1 DEF Reads
  <2>3. QED
    BY <2>1, <2>2
<1>9. \A f, h \in 0 .. n - 1 : f < h => R[f].endedAt < R[h].startedAt
  BY <1>2 DEF InTime
<1>10. from = R[start].startedAt /\ from \in Nat
  <2>1. start \in 0 .. n - 1
    <3> HIDE DEF start, size, n
    <3>1. QED
      BY <1>1, <1>5
  <2> HIDE DEF start, n, R
  <2>2. QED
    BY <1>8, <2>1
<1>11. ASSUME NEW b \in 1 .. size
       PROVE  /\ E[b] = GetItem(st, start + b - 1).endedAt
              /\ E[b] = R[start + b - 1].endedAt
              /\ E[b] \in Nat /\ from <= E[b]
              /\ b + 1 <= size => E[b] < E[b + 1]
  <2> DEFINE f == start + b - 1
             h == start + (b + 1) - 1
  <2>1. start \in 0 .. n - 1 /\ f \in 0 .. n - 1 /\ start <= f
    <3> HIDE DEF start, size, n
    <3>1. QED
      BY <1>1
  <2>2. E[b] = R[f].endedAt
    OBVIOUS
  <2> HIDE DEF f
  <2>3. E[b] = GetItem(st, f).endedAt /\ E[b] \in Nat
    <3> HIDE DEF n, R, E
    <3>1. QED
      BY <1>8, <2>1, <2>2
  <2>4. from <= E[b]
    <3> HIDE DEF start, n, R, E, from
    <3>1. CASE start = f
      BY <1>8, <1>10, <2>1, <2>2, <3>1
    <3>2. CASE start < f
      <4>1. /\ R[start].endedAt < R[f].startedAt
            /\ R[start].startedAt <= R[start].endedAt /\ R[f].startedAt <= R[f].endedAt
            /\ R[start].startedAt \in Nat /\ R[start].endedAt \in Nat
            /\ R[f].startedAt \in Nat /\ R[f].endedAt \in Nat
        BY <1>8, <1>9, <2>1, <3>2
      <4>2. QED
        BY ONLY <1>10, <2>2, <4>1
    <3>3. QED
      BY <2>1, <3>1, <3>2
  <2>5. ASSUME b + 1 <= size PROVE E[b] < E[b + 1]
    <3>1. h \in 0 .. n - 1 /\ f < h /\ b + 1 \in 1 .. size
      <4> HIDE DEF start, size, n
      <4>1. QED
        BY <1>1, <2>5 DEF f
    <3>2. E[b + 1] = R[h].endedAt
      <4> DEFINE c == b + 1
      <4> HIDE DEF c
      <4>1. c \in 1 .. size
        BY <3>1 DEF c
      <4>2. E[c] = R[start + c - 1].endedAt
        BY <4>1
      <4>3. QED
        BY <4>2 DEF c
    <3> HIDE DEF h, start, n, R, E
    <3>3. /\ R[f].endedAt < R[h].startedAt /\ R[h].startedAt <= R[h].endedAt
          /\ R[f].endedAt \in Nat /\ R[h].startedAt \in Nat /\ R[h].endedAt \in Nat
      BY <1>8, <1>9, <2>1, <3>1
    <3>4. QED
      BY ONLY <2>2, <3>2, <3>3
  <2>6. QED
    BY <2>2, <2>3, <2>4, <2>5 DEF f
<1> HIDE DEF E
<1>12. /\ bucket \in 1 .. size
       /\ \A m \in 1 .. size : m < size /\ from + duration <= E[m] => bucket <= m
       /\ bucket < size => from + duration < E[bucket + 1]
  <2> HIDE DEF size, start, duration, from
  <2>1. from = GetItem(st, start).startedAt
    BY DEF from
  <2>2. /\ \A b \in 1 .. size : /\ E[b] = GetItem(st, start + b - 1).endedAt
                                /\ E[b] \in Nat /\ from <= E[b]
        /\ \A b \in 1 .. size : b + 1 <= size => E[b] < E[b + 1]
    BY <1>11
  <2>3. duration \in Nat /\ size \in Nat \ {0} /\ from \in Nat
    BY <1>3, <1>5, <1>10
  <2>4. QED
    BY <2>1, <2>2, <2>3, BucketEnds
<1> HIDE DEF bucket
<1>13. from + duration <= E[spare]
  <2>1. E[spare] = R[start + spare - 1].endedAt /\ E[spare] \in Nat
    <3> HIDE DEF size, start, spare, R
    <3>1. QED
      BY <1>5, <1>11
  <2> DEFINE e == E[spare]
  <2>2. e \in Nat /\ from + span <= e
    BY <1>7, <1>10, <2>1
  <2> HIDE DEF e, from, span, duration
  <2>3. from + duration <= e
    BY ONLY <1>3, <1>4, <1>6, <1>10, <2>2
  <2>4. QED
    BY <2>3 DEF e
<1>14. bucket <= spare /\ bucket < size
  <2> HIDE DEF size, spare, from, duration, E
  <2>1. bucket <= spare
    BY <1>5, <1>12, <1>13
  <2>2. QED
    BY <1>5, <1>12, <2>1
<1>15. bucket + STORAGE_CHUNK_CAPACITY <= size
  <2> HIDE DEF size, spare
  <2>1. QED
    BY <1>1, <1>4, <1>5, <1>12, <1>14, CapacityAssumption
<1>16. R[start].startedAt + duration < R[start + bucket].endedAt
  <2> DEFINE c == bucket + 1
  <2>1. c \in 1 .. size /\ start + c - 1 = start + bucket
    <3> HIDE DEF size, start
    <3>1. QED
      BY <1>1, <1>12, <1>14
  <2>2. E[c] = R[start + c - 1].endedAt /\ from + duration < E[c]
    <3> HIDE DEF size, start, R, from, duration
    <3>1. from + duration < E[bucket + 1]
      BY <1>12, <1>14
    <3>2. c \in 1 .. size
      BY <2>1
    <3> HIDE DEF c
    <3>3. E[c] = R[start + c - 1].endedAt
      BY <1>11, <3>2
    <3>4. QED
      BY <3>1, <3>3 DEF c
  <2> HIDE DEF c, start, R, from, duration
  <2>3. QED
    BY <1>10, <2>1, <2>2
<1>17. QED
  BY <1>12, <1>15, <1>16 DEF bucket

-----------------------------------------------------------------------------
(* What keeps items spaced.                                                *)

\* Rewriting values.
LEMMA SameSpaced ==
  ASSUME NEW n \in Nat, NEW R, NEW Q, NEW starts, NEW g, SpacedReads(R, n, starts, g),
         \A f \in 0 .. n - 1 : Q[f].startedAt = R[f].startedAt /\ Q[f].endedAt = R[f].endedAt
  PROVE  SpacedReads(Q, n, starts, g)
<1>1. \A f \in Nat : f + 1 < n => f \in 0 .. n - 1 /\ f + 1 \in 0 .. n - 1
  OBVIOUS
<1>2. QED
  BY <1>1 DEF SpacedReads

\* What the places of levels are.
Ordered(starts, n) ==
  /\ \A x \in 0 .. NumberOfLevels : starts[x] \in Nat
  /\ \A x, y \in 0 .. NumberOfLevels : x <= y => starts[y] <= starts[x]
  /\ starts[0] = n /\ starts[NumberOfLevels] = 0

\* A tick g or more behind the last one.
LEMMA TickSpaced ==
  ASSUME NEW n \in Nat, NEW R, NEW Q, NEW starts, NEW more, NEW g \in Nat, NEW time \in Nat,
         SpacedReads(R, n, starts, g), Ordered(starts, n),
         \A x \in 0 .. NumberOfLevels :
           more[x] = IF x <= 0 THEN starts[x] + 1 ELSE starts[x],
         \A f \in 0 .. n - 1 : Q[f] = R[f],
         Q[n].startedAt = time,
         n > 0 => starts[1] < n /\ R[n - 1].startedAt + g <= time
  PROVE  SpacedReads(Q, n + 1, more, g)
<1>1. SUFFICES ASSUME NEW l \in Levels, NEW f \in Nat,
                      more[l + 1] <= f, f < more[l], f + 1 < n + 1
               PROVE  IF l = 0 THEN Q[f].startedAt + g <= Q[f + 1].startedAt
                               ELSE Q[f].startedAt + Duration[l] < Q[f + 1].endedAt
  BY DEF SpacedReads
<1>2. /\ l \in 0 .. NumberOfLevels /\ l + 1 \in 0 .. NumberOfLevels /\ l \in Nat
      /\ 1 \in 0 .. NumberOfLevels /\ 0 \in 0 .. NumberOfLevels
  BY LevelsAssumption DEF Levels, MaxLevel
<1> DEFINE up == l + 1
<1> HIDE DEF up
<1>3. more[up] = starts[up] /\ more[l] = IF l = 0 THEN starts[l] + 1 ELSE starts[l]
  <2>1. up \in 0 .. NumberOfLevels /\ ~ (up <= 0)
    BY <1>2 DEF up
  <2>2. QED
    BY <1>2, <2>1
<1>4. starts[0] = n
  BY DEF Ordered
<1>5. CASE f + 1 < n
  <2>1. f \in 0 .. n - 1 /\ f + 1 \in 0 .. n - 1
    BY <1>5
  <2>2. starts[l + 1] <= f /\ f < starts[l]
    <3>1. more[up] <= f
      BY <1>1 DEF up
    <3>2. f < starts[l]
      BY <1>1, <1>3, <1>4, <1>5, <1>2
    <3>3. QED
      BY <1>3, <3>1, <3>2 DEF up
  <2>3. IF l = 0 THEN R[f].startedAt + g <= R[f + 1].startedAt
                 ELSE R[f].startedAt + Duration[l] < R[f + 1].endedAt
    BY <1>5, <2>2 DEF SpacedReads
  <2>4. Q[f] = R[f] /\ Q[f + 1] = R[f + 1]
    BY <2>1
  <2>5. QED
    BY <2>3, <2>4
<1>6. CASE f + 1 = n
  <2>1. f = n - 1 /\ n > 0 /\ f \in 0 .. n - 1
    BY <1>6
  <2>2. l = 0
    <3>1. CASE l # 0
      <4>1. 1 <= l /\ starts[l] <= starts[1]
        BY <1>2, <3>1 DEF Ordered
      <4>2. starts[l] \in Nat /\ starts[1] \in Nat
        BY <1>2 DEF Ordered
      <4>3. starts[1] < n /\ f < starts[l]
        BY <1>1, <1>3, <2>1, <3>1
      <4>4. QED
        BY ONLY <2>1, <4>1, <4>2, <4>3, n \in Nat
    <3>2. QED
      BY <3>1
  <2>3. Q[f] = R[n - 1] /\ Q[f + 1] = Q[n]
    BY <1>6, <2>1
  <2>4. QED
    BY <2>1, <2>2, <2>3
<1>7. QED
  BY <1>1, <1>5, <1>6

\* The oldest items gone.
LEMMA TrimSpaced ==
  ASSUME NEW n \in Nat, NEW R, NEW Q, NEW starts, NEW less, NEW g, NEW count \in Nat,
         count <= n,
         SpacedReads(R, n, starts, g), Ordered(starts, n),
         \A x \in 0 .. NumberOfLevels :
           less[x] = IF x <= MaxLevel THEN starts[x] - count ELSE starts[x],
         \A f \in 0 .. n - count - 1 : Q[f] = R[f + count]
  PROVE  SpacedReads(Q, n - count, less, g)
<1>1. SUFFICES ASSUME NEW l \in Levels, NEW f \in Nat,
                      less[l + 1] <= f, f < less[l], f + 1 < n - count
               PROVE  IF l = 0 THEN Q[f].startedAt + g <= Q[f + 1].startedAt
                               ELSE Q[f].startedAt + Duration[l] < Q[f + 1].endedAt
  BY DEF SpacedReads
<1>2. /\ l \in 0 .. NumberOfLevels /\ l + 1 \in 0 .. NumberOfLevels /\ l \in Nat
      /\ l <= MaxLevel /\ NumberOfLevels = MaxLevel + 1 /\ MaxLevel \in Nat
  BY LevelsAssumption DEF Levels, MaxLevel
<1> DEFINE h  == f + count
           up == l + 1
<1>3. /\ h \in Nat /\ f \in 0 .. n - count - 1 /\ f + 1 \in 0 .. n - count - 1
      /\ h + 1 < n /\ (f + 1) + count = h + 1 /\ count <= h
  BY <1>1
<1> HIDE DEF up
<1>4. /\ starts[l] \in Nat /\ starts[up] \in Nat /\ starts[NumberOfLevels] = 0
      /\ less[l] = starts[l] - count
      /\ less[up] = IF up <= MaxLevel THEN starts[up] - count ELSE starts[up]
  BY <1>2 DEF Ordered, up
<1>5. starts[up] <= h /\ h < starts[l]
  <2>1. less[up] <= f
    BY <1>1 DEF up
  <2>2. h < starts[l]
    BY <1>1, <1>4
  <2>3. CASE up <= MaxLevel
    BY <1>4, <2>1, <2>2, <2>3
  <2>4. CASE ~ (up <= MaxLevel)
    <3>1. up = NumberOfLevels
      BY <1>2, <2>4 DEF up
    <3>2. QED
      BY <1>3, <1>4, <2>2, <3>1
  <2>5. QED
    BY <2>3, <2>4
<1>6. Q[f] = R[h] /\ Q[f + 1] = R[h + 1]
  <2> DEFINE k == f + 1
  <2>1. k \in 0 .. n - count - 1 /\ k + count = h + 1
    BY <1>3
  <2> HIDE DEF k
  <2>2. Q[k] = R[k + count] /\ Q[f] = R[f + count]
    BY <1>3, <2>1
  <2>3. QED
    BY <2>1, <2>2 DEF k
<1> HIDE DEF h
<1>7. IF l = 0 THEN R[h].startedAt + g <= R[h + 1].startedAt
               ELSE R[h].startedAt + Duration[l] < R[h + 1].endedAt
  BY <1>3, <1>5 DEF SpacedReads, up
<1>8. QED
  BY <1>6, <1>7

\* The first items of a level joined to the last one of the level above.
LEMMA JoinSpaced ==
  ASSUME NEW n \in Nat, NEW R, NEW Q, NEW ticks, InTime(R, n, ticks),
         NEW starts, NEW others, NEW g, NEW s, NEW count, NEW lv \in Levels, lv # MaxLevel,
         SpacedReads(R, n, starts, g), Ordered(starts, n),
         JoinedTo(R, n, s, count, Q), starts[lv + 1] = s, s + count < starts[lv],
         R[s].startedAt + Duration[lv + 1] < R[s + count].endedAt,
         \A x \in 0 .. NumberOfLevels :
           others[x] = IF x <= lv THEN (starts[x] - count) + 1
                       ELSE IF x <= lv + 1 THEN starts[x] + 1 ELSE starts[x]
  PROVE  SpacedReads(Q, n - count + 1, others, g)
<1> DEFINE up == lv + 1
           m  == n - count + 1
<1>1. SUFFICES ASSUME NEW l \in Levels, NEW f \in Nat,
                      others[l + 1] <= f, f < others[l], f + 1 < m
               PROVE  IF l = 0 THEN Q[f].startedAt + g <= Q[f + 1].startedAt
                               ELSE Q[f].startedAt + Duration[l] < Q[f + 1].endedAt
  BY DEF SpacedReads
<1>2. /\ l \in 0 .. NumberOfLevels /\ l + 1 \in 0 .. NumberOfLevels /\ l \in Nat
      /\ lv \in 0 .. NumberOfLevels /\ up \in 0 .. NumberOfLevels /\ lv \in Nat
      /\ up \in Levels /\ up # 0
  BY LevelsAssumption DEF Levels, MaxLevel
<1>3. /\ s \in Nat /\ count \in Nat /\ count >= 1 /\ s + count <= n
      /\ \A k \in 0 .. n - count : Q[k] = IF k < s THEN R[k]
                                          ELSE IF k = s THEN Q[s] ELSE R[k + count - 1]
      /\ Q[s].startedAt = R[s].startedAt /\ Q[s].endedAt = R[s + count - 1].endedAt
  BY DEF JoinedTo
<1>4. /\ \A x \in 0 .. NumberOfLevels : starts[x] \in Nat
      /\ \A x, y \in 0 .. NumberOfLevels : x <= y => starts[y] <= starts[x]
  BY DEF Ordered
<1> DEFINE next == l + 1
<1>5. /\ others[l] = IF l <= lv THEN (starts[l] - count) + 1
                     ELSE IF l <= up THEN starts[l] + 1 ELSE starts[l]
      /\ others[next] = IF next <= lv THEN (starts[next] - count) + 1
                        ELSE IF next <= up THEN starts[next] + 1 ELSE starts[next]
      /\ starts[l] \in Nat /\ starts[next] \in Nat /\ starts[lv] \in Nat /\ starts[up] = s
      /\ next <= lv => starts[lv] <= starts[next]
      /\ l <= lv => starts[lv] <= starts[l]
      /\ up <= l => starts[l] <= s
      /\ up <= next => starts[next] <= s
  <2> HIDE DEF next, up
  <2>1. next \in 0 .. NumberOfLevels
    BY <1>2 DEF next
  <2>2. starts[up] = s
    BY DEF up
  <2>3. \A x \in 0 .. NumberOfLevels :
           others[x] = IF x <= lv THEN (starts[x] - count) + 1
                       ELSE IF x <= up THEN starts[x] + 1 ELSE starts[x]
    BY DEF up
  <2>4. QED
    BY <1>2, <1>4, <2>1, <2>2, <2>3
<1>6. f \in 0 .. n - count /\ f + 1 \in 0 .. n - count
  BY <1>1, <1>3
<1>7. /\ Q[f] = IF f < s THEN R[f] ELSE IF f = s THEN Q[s] ELSE R[f + count - 1]
      /\ Q[f + 1] = IF f + 1 < s THEN R[f + 1]
                    ELSE IF f + 1 = s THEN Q[s] ELSE R[(f + 1) + count - 1]
  <2> DEFINE k == f + 1
  <2> HIDE DEF k
  <2>1. k \in 0 .. n - count
    BY <1>6 DEF k
  <2>2. Q[k] = IF k < s THEN R[k] ELSE IF k = s THEN Q[s] ELSE R[k + count - 1]
    BY <1>3, <2>1
  <2>3. QED
    BY <1>3, <1>6, <2>2 DEF k
<1>8. others[next] <= f /\ f < others[l]
  BY <1>1
<1>9. CASE f < s
  <2>1. up <= l
    <3>1. ASSUME l <= lv PROVE FALSE
      <4>1. next <= up /\ s + count < starts[lv]
        BY <1>2, <3>1
      <4>2. CASE next <= lv
        <5> HIDE DEF next
        <5>1. others[next] = (starts[next] - count) + 1 /\ starts[lv] <= starts[next]
          BY <1>5, <4>2
        <5>2. QED
          BY <1>3, <1>5, <1>8, <1>9, <4>1, <5>1
      <4>3. CASE ~ (next <= lv)
        <5>1. next = up
          BY <1>2, <4>1, <4>3
        <5> HIDE DEF next, up
        <5>2. others[next] = s + 1
          BY <1>5, <4>1, <4>3, <5>1
        <5>3. QED
          BY <1>3, <1>8, <1>9, <5>2
      <4>4. QED
        BY <4>2, <4>3
    <3>2. QED
      BY <1>2, <3>1
  <2>2. l # 0 /\ ~ (l <= lv) /\ ~ (next <= lv) /\ ~ (next <= up)
    BY <1>2, <2>1
  <2>3. starts[l + 1] <= f /\ f < starts[l]
    <3>1. others[next] = starts[next] /\ others[l] = IF l <= up THEN starts[l] + 1 ELSE starts[l]
      <4> HIDE DEF next, up
      <4>1. QED
        BY <1>5, <2>2
    <3>2. f < starts[l]
      <4>1. CASE l <= up
        <5>1. l = up
          BY <1>2, <2>1, <4>1
        <5>2. starts[l] = s
          BY <1>5, <5>1
        <5>3. QED
          BY <1>9, <5>2
      <4>2. CASE ~ (l <= up)
        BY <1>8, <3>1, <4>2
      <4>3. QED
        BY <4>1, <4>2
    <3>3. QED
      BY <1>8, <3>1, <3>2
  <2>4. f + 1 < n
    BY <1>3, <1>9
  <2>5. R[f].startedAt + Duration[l] < R[f + 1].endedAt
    BY <2>2, <2>3, <2>4 DEF SpacedReads
  <2>6. Q[f] = R[f]
    BY <1>7, <1>9
  <2>7. CASE f + 1 < s
    BY <1>7, <2>2, <2>5, <2>6, <2>7
  <2>8. CASE f + 1 = s
    <3>1. Q[f + 1] = Q[s] /\ R[f + 1] = R[s]
      BY <2>8
    <3>2. R[s].endedAt <= R[s + count - 1].endedAt /\ R[s].endedAt \in Nat
          /\ R[s + count - 1].endedAt \in Nat
      <4> DEFINE last == s + count - 1
      <4>1. s \in 0 .. n - 1 /\ last \in 0 .. n - 1 /\ s <= last
        BY <1>3
      <4> HIDE DEF last
      <4>2. \A k \in 0 .. n - 1 : /\ R[k].startedAt \in Nat /\ R[k].endedAt \in Nat
                                  /\ R[k].startedAt <= R[k].endedAt
        BY CandleTimes
      <4>3. CASE s = last
        BY <4>1, <4>2, <4>3 DEF last
      <4>4. CASE s # last
        <5>1. R[s].endedAt < R[last].startedAt
          BY <4>1, <4>4 DEF InTime
        <5>2. R[s].endedAt <= R[last].endedAt /\ R[s].endedAt \in Nat /\ R[last].endedAt \in Nat
          BY <4>1, <4>2, <5>1
        <5>3. QED
          BY <5>2 DEF last
      <4>5. QED
        BY <4>3, <4>4
    <3>3. R[f].startedAt \in Nat /\ Duration[l] \in Nat
      <4>1. f \in 0 .. n - 1
        BY <1>3, <1>9
      <4>2. QED
        BY <4>1, CandleTimes, DurationAssumption
    <3> DEFINE x == R[f].startedAt
               y == Duration[l]
               z == R[s].endedAt
               w == R[s + count - 1].endedAt
    <3>4. x + y < z
      BY <2>5, <3>1
    <3> HIDE DEF x, y, z, w
    <3>5. x + y < w
      BY ONLY <3>2, <3>3, <3>4 DEF x, y, z, w
    <3>6. QED
      BY <1>3, <2>2, <2>6, <3>1, <3>5 DEF x, y, w
  <2>9. QED
    BY <1>3, <1>9, <2>7, <2>8
<1>10. CASE f = s
  <2>1. l = up
    <3>1. ASSUME l <= lv PROVE FALSE
      <4>1. next <= up
        BY <1>2, <3>1
      <4>2. CASE next <= lv
        <5> HIDE DEF next
        <5>1. others[next] = (starts[next] - count) + 1 /\ starts[lv] <= starts[next]
          BY <1>5, <4>2
        <5>2. QED
          BY <1>3, <1>5, <1>8, <1>10, <5>1
      <4>3. CASE ~ (next <= lv)
        <5>1. next = up
          BY <1>2, <4>1, <4>3
        <5> HIDE DEF next, up
        <5>2. others[next] = s + 1
          BY <1>5, <4>1, <4>3, <5>1
        <5>3. QED
          BY <1>3, <1>8, <1>10, <5>2
      <4>4. QED
        BY <4>2, <4>3
    <3>2. ASSUME l > up PROVE FALSE
      <4>1. ~ (l <= lv) /\ ~ (l <= up) /\ up <= l
        BY <1>2, <3>2
      <4> HIDE DEF up
      <4>2. others[l] = starts[l] /\ starts[l] <= s
        BY <1>5, <4>1
      <4>3. QED
        BY <1>3, <1>5, <1>8, <1>10, <4>2
    <3>3. QED
      BY <1>2, <3>1, <3>2
  <2>2. Q[f + 1] = R[s + count]
    <3>1. ~ (f + 1 < s) /\ f + 1 # s /\ (f + 1) + count - 1 = s + count
      BY <1>3, <1>10
    <3>2. QED
      BY <1>7, <3>1
  <2>3. QED
    BY <1>2, <1>3, <1>10, <2>1, <2>2
<1>11. CASE f > s
  <2>1. l <= lv
    <3>1. ASSUME up <= l PROVE FALSE
      <4>1. ~ (l <= lv)
        BY <1>2, <3>1
      <4> HIDE DEF up
      <4>2. others[l] <= s + 1
        BY <1>5, <3>1, <4>1, <1>3
      <4>3. QED
        BY <1>3, <1>5, <1>8, <1>11, <4>1, <4>2
    <3>2. QED
      BY <1>2, <3>1
  <2> DEFINE h == f + count - 1
  <2>2. h \in Nat /\ h + 1 < n /\ (f + 1) + count - 1 = h + 1 /\ h >= s
    BY <1>1, <1>3, <1>11
  <2>3. starts[l + 1] <= h /\ h < starts[l]
    <3>1. h < starts[l]
      BY <1>3, <1>5, <1>8, <2>1
    <3>2. CASE next <= lv
      <4>1. starts[next] <= h
        <5> HIDE DEF next
        <5>1. others[next] = (starts[next] - count) + 1
          BY <1>5, <3>2
        <5>2. QED
          BY <1>3, <1>5, <1>8, <5>1
      <4>2. QED
        BY <3>1, <4>1
    <3>3. CASE ~ (next <= lv)
      <4>1. next = up
        BY <1>2, <2>1, <3>3
      <4>2. starts[next] = s
        BY <1>5, <4>1
      <4>3. QED
        BY <2>2, <3>1, <4>2
    <3>4. QED
      BY <3>2, <3>3
  <2>4. Q[f] = R[h] /\ Q[f + 1] = R[h + 1]
    <3>1. ~ (f < s) /\ f # s /\ ~ (f + 1 < s) /\ f + 1 # s
      BY <1>3, <1>11
    <3>2. QED
      BY <1>7, <2>2, <3>1
  <2> HIDE DEF h
  <2>5. IF l = 0 THEN R[h].startedAt + g <= R[h + 1].startedAt
                 ELSE R[h].startedAt + Duration[l] < R[h + 1].endedAt
    BY <2>2, <2>3 DEF SpacedReads
  <2>6. QED
    BY <2>4, <2>5
<1>12. QED
  BY <1>3, <1>9, <1>10, <1>11

-----------------------------------------------------------------------------
(* Storages with room.                                                     *)

\* The chunk sets the levels grow in are whole, the items are spaced, and the
\* last one is the tick of that time.
Roomy(st, g, time) ==
  /\ GrowingWhole(st.chunkSets)
  /\ Spaced(st, g)
  /\ st.chunkSets # <<>> => LevelSize(st, 0) > 0 /\ EndedAt(st) = time

\* Where the levels of a sound storage begin.
LEMMA StartsFacts ==
  ASSUME NEW st, NEW ticks, Sound(st, ticks)
  PROVE  /\ Ordered(Starts(st.chunkSets), Size(st))
         /\ \A x \in 0 .. NumberOfLevels : Starts(st.chunkSets)[x] = FlatStart(st.chunkSets, x)
         /\ LevelSize(st, 0) = Starts(st.chunkSets)[0] - Starts(st.chunkSets)[1]
<1> DEFINE cs == st.chunkSets
           F  == Starts(cs)
<1>1. WellFormed(cs, Nat, Values)
  BY DEF Sound
<1>2. \A x \in 0 .. NumberOfLevels : F[x] = FlatStart(cs, x)
  BY DEF Starts
<1>3. 0 \in 0 .. NumberOfLevels /\ 1 \in 0 .. NumberOfLevels
      /\ NumberOfLevels \in 0 .. NumberOfLevels /\ 0 \in Levels /\ 0 + 1 = 1
  BY LevelsAssumption DEF Levels, MaxLevel
<1>4. /\ FlatStart(cs, 0) = Size(st) /\ FlatStart(cs, NumberOfLevels) = 0
      /\ LevelSize(st, 0) = FlatStart(cs, 0) - FlatStart(cs, 0 + 1)
  BY <1>3, SoundFacts
<1>5. /\ \A x \in 0 .. NumberOfLevels : FlatStart(cs, x) \in Nat
      /\ \A x, y \in 0 .. NumberOfLevels : x <= y => FlatStart(cs, y) <= FlatStart(cs, x)
  BY <1>1, FlatStartFacts
<1> HIDE DEF cs, F
<1>6. Ordered(F, Size(st))
  BY <1>2, <1>3, <1>4, <1>5 DEF Ordered
<1>7. LevelSize(st, 0) = F[0] - F[1]
  BY <1>2, <1>3, <1>4
<1>8. QED
  BY <1>2, <1>6, <1>7 DEF cs, F

\* Room is a matter of times and places only.
LEMMA SameRoom ==
  ASSUME NEW st, NEW ticks, Sound(st, ticks), NEW g, NEW time, Roomy(st, g, time),
         NEW ts, Sound(ts, ticks), Size(ts) = Size(st),
         GrowingWhole(ts.chunkSets),
         \A x \in 0 .. NumberOfLevels :
           FlatStart(ts.chunkSets, x) = FlatStart(st.chunkSets, x),
         \A f \in 0 .. Size(st) - 1 : /\ Reads(ts)[f].startedAt = Reads(st)[f].startedAt
                                      /\ Reads(ts)[f].endedAt = Reads(st)[f].endedAt
  PROVE  Roomy(ts, g, time)
<1> DEFINE n == Size(st)
           R == Reads(st)
           Q == Reads(ts)
           F == Starts(st.chunkSets)
<1>1. Starts(ts.chunkSets) = F
  BY DEF Starts
<1>2. /\ n \in Nat
      /\ st.chunkSets = <<>> <=> n = 0
      /\ ts.chunkSets = <<>> <=> n = 0
      /\ st.chunkSets # <<>> => EndedAt(st) = R[n - 1].endedAt
      /\ ts.chunkSets # <<>> => EndedAt(ts) = Q[n - 1].endedAt
  BY SoundFacts
<1>3. LevelSize(ts, 0) = LevelSize(st, 0)
  BY <1>1, StartsFacts
<1>4. Spaced(ts, g)
  <2>1. SpacedReads(R, n, F, g)
    BY DEF Roomy, Spaced
  <2> HIDE DEF R, Q, n, F
  <2>2. \A f \in 0 .. n - 1 : Q[f].startedAt = R[f].startedAt /\ Q[f].endedAt = R[f].endedAt
    BY DEF R, Q, n
  <2>3. SpacedReads(Q, n, F, g)
    BY <1>2, <2>1, <2>2, SameSpaced
  <2>4. QED
    BY <1>1, <2>3 DEF Spaced, Q, n
<1>5. ASSUME ts.chunkSets # <<>> PROVE LevelSize(ts, 0) > 0 /\ EndedAt(ts) = time
  <2>1. st.chunkSets # <<>> /\ n - 1 \in 0 .. n - 1
    <3> HIDE DEF n
    <3>1. n # 0 /\ st.chunkSets # <<>>
      BY <1>2, <1>5
    <3>2. QED
      BY <1>2, <3>1
  <2>2. LevelSize(st, 0) > 0 /\ EndedAt(st) = time
    BY <2>1 DEF Roomy
  <2>3. Q[n - 1].endedAt = R[n - 1].endedAt
    BY <2>1
  <2> HIDE DEF Q, R, n
  <2>4. QED
    BY <1>2, <1>3, <1>5, <2>1, <2>2, <2>3
<1>6. QED
  BY <1>4, <1>5 DEF Roomy

\* Recalculation writes no times.
LEMMA RewriteRoom ==
  ASSUME NEW st, NEW ticks, Sound(st, ticks), NEW g, NEW time, Roomy(st, g, time),
         NEW p \in 0 .. Size(st) - 1
  PROVE  Roomy(SetItem(st, p, [GetItem(st, p) EXCEPT !.value = 1 - @]), g, time)
<1> DEFINE cs   == st.chunkSets
           item == [GetItem(st, p) EXCEPT !.value = 1 - @]
           ts   == SetItem(st, p, item)
           n    == Size(st)
<1>1. Sound(ts, ticks) /\ Size(ts) = n
  BY SoundRewrite
<1>2. n = Count(cs) /\ n \in Nat
  BY SoundFacts
<1>3. WellFormed(cs, Nat, Values) /\ st = RebuildIndexMetadata(cs) /\ InTime(Reads(st), n, ticks)
  BY DEF Sound
<1>4. \A f \in 0 .. n - 1 : Reads(st)[f] = GetItem(st, f) /\ Reads(st)[f] \in Candles
  BY <1>2, <1>3, CandleTimes DEF Reads
<1>5. /\ item \in Values
      /\ item.startedAt = GetItem(st, p).startedAt
      /\ item.endedAt = GetItem(st, p).endedAt
  <2>1. GetItem(st, p) \in Candles
    BY <1>4
  <2>2. QED
    BY <2>1 DEF Candles, Values
<1> HIDE DEF item, cs
<1>6. \A x \in 0 .. NumberOfLevels : FlatStart(ts.chunkSets, x) = FlatStart(cs, x)
  BY <1>3, <1>5, SetItemHeaders
<1>7. \A f \in 0 .. n - 1 : Reads(ts)[f] = IF f = p THEN item ELSE Reads(st)[f]
  <2>1. ASSUME NEW f \in 0 .. n - 1
        PROVE  Reads(ts)[f] = IF f = p THEN item ELSE Reads(st)[f]
    <3>1. /\ f \in Nat /\ p \in Nat /\ f < SizeSums(cs)[Len(cs)] /\ p < SizeSums(cs)[Len(cs)]
      BY <1>2 DEF Count
    <3>2. GetItem(ts, f) = IF f = p THEN item ELSE GetItem(st, f)
      BY <1>3, <3>1, SetItemReads
    <3> HIDE DEF ts
    <3>3. QED
      BY <3>1, <3>2 DEF Reads
  <2>2. QED
    BY <2>1
<1>8. GrowingWhole(ts.chunkSets)
  <2>1. GrowingWhole(cs)
    BY DEF Roomy, cs
  <2>2. QED
    BY <1>3, <1>5, <2>1, SetKeepsGrowing
<1>9. \A f \in 0 .. n - 1 : /\ Reads(ts)[f].startedAt = Reads(st)[f].startedAt
                            /\ Reads(ts)[f].endedAt = Reads(st)[f].endedAt
  BY <1>4, <1>5, <1>7
<1> HIDE DEF ts
<1>10. Roomy(ts, g, time)
  BY <1>1, <1>6, <1>8, <1>9, SameRoom DEF cs
<1>11. QED
  BY <1>10 DEF ts, item

\* A restart finds the items where they were.
LEMMA RestartRoom ==
  ASSUME NEW st, NEW ticks, Sound(st, ticks), NEW g, NEW time, Roomy(st, g, time)
  PROVE  Roomy(FromSnapshot(Snapshot(st.chunkSets)), g, time)
<1> DEFINE cs == st.chunkSets
           ds == Snapshot(cs)
           ts == FromSnapshot(ds)
<1>1. Sound(ts, ticks) /\ Size(ts) = Size(st)
  BY SoundRestart
<1>2. Size(st) = Count(cs)
  BY SoundFacts
<1>3. WellFormed(cs, Nat, Values) /\ st = RebuildIndexMetadata(cs) /\ HeadersRead(cs)
  BY DEF Sound
<1>4. ts = RebuildIndexMetadata(ds) /\ ts.chunkSets = ds
  BY RebuildFields DEF FromSnapshot
<1> HIDE DEF cs, ts
<1>5. /\ \A x : FlatStart(ds, x) = FlatStart(cs, x)
      /\ \A f \in 0 .. Count(cs) - 1 : Reads(ts)[f] = Reads(st)[f]
  BY <1>3, <1>4, SnapshotHeaders
<1>6. GrowingWhole(ds)
  BY <1>3, SnapshotWhole
<1> HIDE DEF ds
<1>7. Roomy(ts, g, time)
  BY <1>1, <1>2, <1>4, <1>5, <1>6, SameRoom DEF cs
<1>8. QED
  BY <1>7 DEF ts, ds, cs

\* A tick of another time than the last.
LEMMA TickRoom ==
  ASSUME NEW ticks \in SUBSET Nat, NEW st, Sound(st, ticks), NEW g \in Nat,
         NEW time \in Nat, NEW last \in Nat, Roomy(st, g, last),
         \A t \in ticks : t <= time, EndedAt(st) # time,
         st.chunkSets # <<>> => last + g <= time
  PROVE  Roomy(AddItem(st, 0, time, time, Candle(time, time)), g, time)
<1> DEFINE cs == st.chunkSets
           c  == Candle(time, time)
           ts == AddItem(st, 0, time, time, c)
           ds == ts.chunkSets
           n  == Size(st)
           R  == Reads(st)
           Q  == Reads(ts)
           F  == Starts(cs)
           G  == Starts(ds)
<1>1. /\ Sound(ts, ticks \cup {time}) /\ Size(ts) = n + 1
      /\ LevelSize(ts, 0) = LevelSize(st, 0) + 1
  <2>1. 0 \in Levels
    BY LevelsAssumption DEF Levels, MaxLevel
  <2>2. QED
    BY <2>1, SoundTick
<1>2. /\ n = Count(cs) /\ n \in Nat /\ FlatStart(cs, 0) = n
      /\ cs = <<>> <=> n = 0
      /\ cs # <<>> => EndedAt(st) = R[n - 1].endedAt
      /\ LevelSize(st, 0) \in Nat
  <2>1. 0 \in Levels
    BY LevelsAssumption DEF Levels, MaxLevel
  <2>2. QED
    BY <2>1, SoundFacts
<1>3. WellFormed(cs, Nat, Values) /\ st = RebuildIndexMetadata(cs) /\ InTime(R, n, ticks)
  BY DEF Sound
<1>4. c \in Values /\ c.startedAt = time /\ c.endedAt = time /\ 0 \in Levels
  BY LevelsAssumption DEF Candle, Candles, Values, Levels, MaxLevel
<1> HIDE DEF c, cs
<1>5. /\ \A x \in 0 .. NumberOfLevels :
           FlatStart(ds, x) = IF x <= 0 THEN FlatStart(cs, x) + 1 ELSE FlatStart(cs, x)
      /\ \A f \in 0 .. n : Q[f] = IF f < n THEN R[f] ELSE IF f = n THEN c ELSE R[f - 1]
  <2>1. Added(cs, 0, time, time, c)
    BY <1>3, <1>4, AddedItem
  <2>2. QED
    BY <1>2, <1>3, <2>1 DEF Added
<1>6. GrowingWhole(ds)
  <2>1. GrowingWhole(cs)
    BY DEF Roomy, cs
  <2>2. QED
    BY <1>3, <1>4, <2>1, AddKeepsGrowing
<1>7. Ordered(F, n) /\ LevelSize(st, 0) = F[0] - F[1]
  BY StartsFacts DEF cs
<1>8. \A x \in 0 .. NumberOfLevels : G[x] = IF x <= 0 THEN F[x] + 1 ELSE F[x]
  <2>1. /\ \A x \in 0 .. NumberOfLevels : G[x] = FlatStart(ds, x)
        /\ \A x \in 0 .. NumberOfLevels : F[x] = FlatStart(cs, x)
    BY DEF Starts
  <2> HIDE DEF F, G, ds
  <2>2. QED
    BY <1>5, <2>1
<1>9. ASSUME n > 0 PROVE F[1] < n /\ R[n - 1].startedAt + g <= time
  <2>1. cs # <<>> /\ n - 1 \in 0 .. n - 1
    <3> HIDE DEF n
    <3>1. QED
      BY <1>2, <1>9
  <2>2. LevelSize(st, 0) > 0 /\ EndedAt(st) = last /\ last + g <= time
    BY <2>1 DEF Roomy, cs
  <2>3. F[1] < n
    <3>1. F[0] = n /\ F[1] \in Nat
      <4>1. 1 \in 0 .. NumberOfLevels
        BY LevelsAssumption
      <4>2. QED
        BY <1>7, <4>1 DEF Ordered
    <3> HIDE DEF F, n
    <3>2. QED
      BY <1>2, <1>7, <2>2, <3>1
  <2> DEFINE z == n - 1
  <2>4. R[z].startedAt <= R[z].endedAt /\ R[z].startedAt \in Nat /\ R[z].endedAt \in Nat
    <3> HIDE DEF n, R
    <3>1. QED
      BY <1>2, <1>3, <2>1, CandleTimes
  <2>5. R[z].endedAt = last
    BY <1>2, <2>1, <2>2
  <2> HIDE DEF z, R, n, F
  <2>6. R[z].startedAt + g <= time
    BY <2>2, <2>4, <2>5
  <2>7. QED
    BY <2>3, <2>6 DEF z
<1>10. Spaced(ts, g)
  <2>1. SpacedReads(R, n, F, g)
    BY DEF Roomy, Spaced, cs
  <2> HIDE DEF R, Q, n, F, G
  <2>2. /\ \A f \in 0 .. n - 1 : Q[f] = R[f]
        /\ Q[n].startedAt = time
    BY <1>2, <1>4, <1>5
  <2>3. SpacedReads(Q, n + 1, G, g)
    BY <1>2, <1>7, <1>8, <1>9, <2>1, <2>2, TickSpaced
  <2> HIDE DEF ts
  <2>4. QED
    BY <1>1, <2>3 DEF Spaced, Q, G
<1>11. EndedAt(ts) = time
  <2>1. /\ ds = <<>> <=> Size(ts) = 0
        /\ ds # <<>> => EndedAt(ts) = Q[Size(ts) - 1].endedAt
    BY <1>1, SoundFacts
  <2>2. Size(ts) # 0 /\ Size(ts) - 1 = n
    <3> HIDE DEF n, ts
    <3>1. QED
      BY <1>1, <1>2
  <2>3. Q[n] = c
    <3> HIDE DEF n, Q, R, ts
    <3>1. n \in 0 .. n /\ ~ (n < n)
      BY <1>2
    <3>2. QED
      BY <1>5, <3>1
  <2> HIDE DEF n, ts, Q
  <2>4. QED
    BY <1>4, <2>1, <2>2, <2>3
<1> HIDE DEF ts
<1>12. LevelSize(ts, 0) > 0
  BY <1>1, <1>2
<1>13. Roomy(ts, g, time)
  BY <1>6, <1>10, <1>11, <1>12 DEF Roomy
<1>14. QED
  BY <1>13 DEF ts, c

\* The highest level, cut to its maximum, keeps a chunk set full of items.
LEMMA TrimRoom ==
  ASSUME NEW ticks \in SUBSET Nat, NEW st, Sound(st, ticks), NEW g, BucketsFit(g),
         NEW time, Roomy(st, g, time),
         NEW count \in Nat \ {0}, LevelSize(st, MaxLevel) - count = MaxCount[MaxLevel]
  PROVE  Roomy(DeleteNItems(st, MaxLevel, count, StartedAtAfterDelete(st, MaxLevel, count)),
               g, time)
<1> DEFINE lv == MaxLevel
           cs == st.chunkSets
           t  == StartedAtAfterDelete(st, lv, count)
           ds == DeleteFromChunkSets(cs, lv, count, t)
           ts == DeleteNItems(st, lv, count, t)
           n  == Size(st)
           m  == n - count
           R  == Reads(st)
           Q  == Reads(ts)
           F  == Starts(cs)
           G  == Starts(ds)
           LS == LevelSize(st, lv)
<1>1. lv \in Levels /\ lv + 1 = NumberOfLevels /\ lv \in Nat /\ 0 \in Levels
  BY LevelsAssumption DEF Levels, MaxLevel
<1>2. /\ n = Count(cs) /\ n \in Nat /\ FlatStart(cs, lv + 1) = 0 /\ LS \in Nat
      /\ cs = <<>> <=> n = 0
      /\ cs # <<>> => EndedAt(st) = R[n - 1].endedAt
      /\ LevelSize(st, 0) \in Nat
  BY <1>1, SoundFacts
<1>3. WellFormed(cs, Nat, Values) /\ st = RebuildIndexMetadata(cs)
  BY DEF Sound
<1>4. /\ count <= LS /\ count + STORAGE_CHUNK_CAPACITY <= LS
      /\ LS - count \in Nat \ {0} /\ LS - count = MaxCount[lv]
  <2>1. MaxCount[lv] \in Nat \ {0} /\ STORAGE_CHUNK_CAPACITY <= MaxCount[lv]
    BY <1>1, MaxCountAssumption DEF BucketsFit
  <2>2. LS - count = MaxCount[lv]
    OBVIOUS
  <2> HIDE DEF LS, lv
  <2>3. QED
    BY <1>2, <2>1, <2>2, CapacityAssumption
<1> HIDE DEF lv
<1>5. Deleted(cs, lv, count, t) /\ ts = RebuildIndexMetadata(ds)
  BY <1>1, <1>4, SoundDelete
<1>6. /\ Sound(ts, ticks) /\ count <= n /\ Size(ts) = m
      /\ \A l \in Levels :
           LevelSize(ts, l) = IF l = lv THEN LevelSize(st, l) - count ELSE LevelSize(st, l)
  BY <1>4, SoundTrim DEF lv
<1> HIDE DEF t
<1>7. /\ count <= n
      /\ \A x \in 0 .. NumberOfLevels :
           FlatStart(ds, x) = IF x <= lv THEN FlatStart(cs, x) - count ELSE FlatStart(cs, x)
      /\ \A f \in 0 .. m - 1 : Q[f] = R[f + count]
  <2>1. /\ 0 + count <= Count(cs) /\ Count(ds) = Count(cs) - count
        /\ \A x \in 0 .. NumberOfLevels :
             FlatStart(ds, x) = IF x <= lv THEN FlatStart(cs, x) - count
                                           ELSE FlatStart(cs, x)
        /\ \A f \in 0 .. Count(cs) - count - 1 :
             Q[f] = IF f < 0 THEN R[f] ELSE R[f + count]
    BY <1>2, <1>3, <1>5 DEF Deleted
  <2> HIDE DEF ds, ts, cs, Q, R
  <2>2. QED
    BY <1>2, <2>1
<1>8. GrowingWhole(ds)
  <2>1. GrowingWhole(cs)
    BY DEF Roomy
  <2>2. count + STORAGE_CHUNK_CAPACITY <= LevelSize(RebuildIndexMetadata(cs), lv)
    BY <1>3, <1>4
  <2> HIDE DEF cs
  <2>3. QED
    BY <1>1, <1>3, <2>1, <2>2, DeleteKeepsGrowing
<1>9. ts.chunkSets = ds
  <2> HIDE DEF ts, ds
  <2>1. QED
    BY <1>5, RebuildFields
<1>10. /\ Ordered(F, n) /\ \A x \in 0 .. NumberOfLevels : F[x] = FlatStart(cs, x)
       /\ \A x \in 0 .. NumberOfLevels : G[x] = FlatStart(ds, x)
  <2>1. \A x \in 0 .. NumberOfLevels : G[x] = FlatStart(ds, x)
    BY DEF Starts
  <2>2. QED
    BY <2>1, StartsFacts
<1>11. \A x \in 0 .. NumberOfLevels : G[x] = IF x <= lv THEN F[x] - count ELSE F[x]
  <2> HIDE DEF F, G, cs, ds
  <2>1. QED
    BY <1>7, <1>10
<1> HIDE DEF ds, ts
<1>12. Spaced(ts, g)
  <2>1. SpacedReads(R, n, F, g)
    BY DEF Roomy, Spaced
  <2>2. g \in Nat /\ count \in Nat
    BY DEF BucketsFit
  <2> HIDE DEF R, Q, n, F, G
  <2>3. \A x \in 0 .. NumberOfLevels : G[x] = IF x <= MaxLevel THEN F[x] - count ELSE F[x]
    BY <1>11 DEF lv
  <2>4. \A f \in 0 .. n - count - 1 : Q[f] = R[f + count]
    BY <1>7
  <2>5. SpacedReads(Q, n - count, G, g)
    BY <1>2, <1>7, <1>10, <2>1, <2>2, <2>3, <2>4, TrimSpaced
  <2>6. QED
    BY <1>6, <1>9, <2>5 DEF Spaced, Q, G
<1>13. ASSUME ts.chunkSets # <<>> PROVE LevelSize(ts, 0) > 0 /\ EndedAt(ts) = time
  <2>1. /\ ts.chunkSets = <<>> <=> Size(ts) = 0
        /\ ts.chunkSets # <<>> => EndedAt(ts) = Q[Size(ts) - 1].endedAt
        /\ Size(ts) \in Nat
    BY <1>6, SoundFacts
  <2>2. m \in Nat \ {0}
    BY <1>2, <1>6, <1>13, <2>1
  <2>3. n # 0
    <3> HIDE DEF n
    <3>1. QED
      BY <1>2, <1>7, <2>2
  <2>4. LevelSize(st, 0) > 0 /\ EndedAt(st) = time /\ EndedAt(st) = R[n - 1].endedAt
    BY <1>2, <2>3 DEF Roomy
  <2>5. LevelSize(ts, 0) > 0
    <3>1. LevelSize(ts, 0) = IF 0 = lv THEN LevelSize(st, 0) - count ELSE LevelSize(st, 0)
      BY <1>1, <1>6
    <3>2. 0 = lv => LevelSize(st, 0) - count \in Nat \ {0}
      BY <1>4
    <3>3. QED
      BY <1>2, <2>4, <3>1, <3>2
  <2>6. Q[m - 1] = R[n - 1]
    <3> DEFINE z == m - 1
    <3>1. z \in 0 .. m - 1 /\ z + count = n - 1
      <4> HIDE DEF n
      <4>1. QED
        BY <1>2, <1>7, <2>2
    <3> HIDE DEF Q, R
    <3>2. Q[z] = R[z + count]
      BY <1>7, <3>1
    <3>3. QED
      BY <3>1, <3>2
  <2> HIDE DEF Q, R, n
  <2>7. QED
    BY <1>6, <1>13, <2>1, <2>4, <2>5, <2>6
<1>14. Roomy(ts, g, time)
  BY <1>8, <1>9, <1>12, <1>13 DEF Roomy
<1>15. QED
  BY <1>14 DEF ts, t, lv

\* A full level that gives up a bucket keeps a chunk set full of items.
LEMMA BucketRoom ==
  ASSUME NEW ticks \in SUBSET Nat, NEW st, Sound(st, ticks), NEW g, BucketsFit(g),
         NEW time, Roomy(st, g, time),
         NEW lv \in Levels, lv # MaxLevel,
         LevelSize(st, lv) >= MaxCount[lv],
         NEW count \in Nat \ {0},
         count = FirstBucketCount(st, st.boundaries[lv], LevelSize(st, lv), Duration[lv + 1]),
         NEW candle \in Candles,
         candle.startedAt = GetItem(st, st.boundaries[lv]).startedAt,
         candle.endedAt = GetItem(st, st.boundaries[lv] + count - 1).endedAt
  PROVE  LET t    == StartedAtAfterDelete(st, lv, count)
             left == DeleteNItems(st, lv, count, t)
         IN  Roomy(AddItem(left, lv + 1, candle.startedAt, candle.endedAt, candle), g, time)
<1> DEFINE cs    == st.chunkSets
           start == st.boundaries[lv]
           t     == StartedAtAfterDelete(st, lv, count)
           ds    == DeleteFromChunkSets(cs, lv, count, t)
           left  == DeleteNItems(st, lv, count, t)
           s     == candle.startedAt
           e     == candle.endedAt
           ts    == AddItem(left, lv + 1, s, e, candle)
           es    == ts.chunkSets
           n     == Size(st)
           R     == Reads(st)
           Q     == Reads(ts)
           F     == Starts(cs)
           G     == Starts(es)
           LS    == LevelSize(st, lv)
           over  == n - count
<1>1. lv \in Nat /\ lv + 1 \in Levels /\ 0 \in Levels /\ lv \in 0 .. NumberOfLevels
      /\ lv + 1 \in 0 .. NumberOfLevels
  BY LevelsAssumption DEF Levels, MaxLevel
<1>2. /\ n \in Nat /\ LS \in Nat /\ LevelSize(st, 0) \in Nat
      /\ start \in Nat /\ F[lv + 1] = start /\ F[lv] = start + LS /\ start + LS <= n
      /\ cs = <<>> <=> n = 0
      /\ cs # <<>> => EndedAt(st) = R[n - 1].endedAt
  <2>1. /\ n \in Nat /\ LevelSize(st, 0) \in Nat
        /\ cs = <<>> <=> n = 0
        /\ cs # <<>> => EndedAt(st) = R[n - 1].endedAt
    BY <1>1, SoundFacts
  <2>2. /\ FlatStart(cs, lv) \in Nat /\ FlatStart(cs, lv + 1) \in Nat
        /\ FlatStart(cs, lv + 1) <= FlatStart(cs, lv)
        /\ FlatStart(cs, lv) <= n
        /\ start = FlatStart(cs, lv + 1)
        /\ LS = FlatStart(cs, lv) - FlatStart(cs, lv + 1)
    BY SoundFacts
  <2>3. F[lv] = FlatStart(cs, lv) /\ F[lv + 1] = FlatStart(cs, lv + 1)
    BY <1>1 DEF Starts
  <2> HIDE DEF cs, F, start, LS, n
  <2>4. QED
    BY <2>1, <2>2, <2>3
<1>3. /\ count + STORAGE_CHUNK_CAPACITY <= LS
      /\ R[start].startedAt + Duration[lv + 1] < R[start + count].endedAt
  BY BucketLeaves DEF Roomy
<1>4. count < LS /\ count <= LS /\ start + count < start + LS /\ start + count < n
      /\ over \in Nat /\ start < over
  <2> HIDE DEF LS, start, n
  <2>1. QED
    BY <1>2, <1>3, CapacityAssumption
<1>5. Deleted(cs, lv, count, t) /\ left = RebuildIndexMetadata(ds)
  BY <1>4, SoundDelete
<1>6. WellFormed(cs, Nat, Values) /\ st = RebuildIndexMetadata(cs) /\ InTime(R, n, ticks)
  BY DEF Sound
<1>7. Moved(st, lv, count, candle)
  BY <1>4, BucketMoves
<1>8. /\ Sound(ts, ticks) /\ Size(ts) = over + 1
      /\ \A l \in Levels : l < lv => LevelSize(ts, l) = LevelSize(st, l)
  BY <1>4, SoundBucket
<1>9. /\ JoinedTo(R, n, start, count, Q)
      /\ \A x \in 0 .. NumberOfLevels :
           FlatStart(es, x) = IF x <= lv THEN (FlatStart(cs, x) - count) + 1
                              ELSE IF x <= lv + 1 THEN FlatStart(cs, x) + 1
                              ELSE FlatStart(cs, x)
  BY <1>7 DEF Moved
<1>10. GrowingWhole(es)
  <2>1. GrowingWhole(cs)
    BY DEF Roomy
  <2>2. count + STORAGE_CHUNK_CAPACITY <= LevelSize(RebuildIndexMetadata(cs), lv)
    BY <1>3, <1>6
  <2>3. WellFormed(ds, Nat, Values)
    BY <1>5 DEF Deleted
  <2>4. candle \in Values /\ s \in Nat /\ e \in Nat
    BY DEF Candles, Values
  <2> HIDE DEF cs, t, s, e
  <2>5. GrowingWhole(ds)
    BY <1>6, <2>1, <2>2, DeleteKeepsGrowing
  <2> DEFINE up == lv + 1
  <2>6. up \in Levels
    BY <1>1
  <2> HIDE DEF ds, up
  <2>7. GrowingWhole(AddItem(RebuildIndexMetadata(ds), up, s, e, candle).chunkSets)
    BY <2>3, <2>4, <2>5, <2>6, AddKeepsGrowing
  <2> HIDE DEF left
  <2>8. QED
    BY <1>5, <2>7 DEF up
<1> HIDE DEF ts, left, t
<1>11. /\ Ordered(F, n) /\ \A x \in 0 .. NumberOfLevels : F[x] = FlatStart(cs, x)
       /\ \A x \in 0 .. NumberOfLevels : G[x] = FlatStart(es, x)
       /\ LevelSize(st, 0) = F[0] - F[1]
       /\ LevelSize(ts, 0) = G[0] - G[1]
  BY <1>8, StartsFacts
<1>12. \A x \in 0 .. NumberOfLevels :
         G[x] = IF x <= lv THEN (F[x] - count) + 1
                ELSE IF x <= lv + 1 THEN F[x] + 1 ELSE F[x]
  <2> HIDE DEF F, G, cs, es
  <2>1. QED
    BY <1>9, <1>11
<1>13. Spaced(ts, g)
  <2>1. SpacedReads(R, n, F, g)
    BY DEF Roomy, Spaced
  <2>2. start + count < F[lv]
    BY <1>2, <1>4
  <2> HIDE DEF R, Q, n, F, G, start
  <2>3. SpacedReads(Q, n - count + 1, G, g)
    BY <1>2, <1>3, <1>6, <1>9, <1>11, <1>12, <2>1, <2>2, JoinSpaced
  <2>4. QED
    BY <1>8, <2>3 DEF Spaced, Q, G
<1>14. LevelSize(st, 0) > 0 /\ EndedAt(st) = time /\ EndedAt(st) = R[n - 1].endedAt
  <2>1. n # 0
    <3> HIDE DEF n, start
    <3>1. QED
      BY <1>2, <1>4
  <2>2. QED
    BY <1>2, <2>1 DEF Roomy
<1>15. LevelSize(ts, 0) > 0
  <2>1. CASE lv = 0
    <3>1. /\ 0 \in 0 .. NumberOfLevels /\ 1 \in 0 .. NumberOfLevels
          /\ 0 <= lv /\ ~ (1 <= lv) /\ 1 <= lv + 1
      BY <2>1, LevelsAssumption
    <3>2. G[0] = (F[0] - count) + 1 /\ G[1] = F[1] + 1
      <4> HIDE DEF F, G
      <4> DEFINE one == 1
      <4>1. one \in 0 .. NumberOfLevels /\ ~ (one <= lv) /\ one <= lv + 1
        BY <3>1
      <4> HIDE DEF one
      <4>2. G[one] = F[one] + 1 /\ G[0] = (F[0] - count) + 1
        BY <1>12, <3>1, <4>1
      <4>3. QED
        BY <4>2 DEF one
    <3>3. F[0] \in Nat /\ F[1] \in Nat /\ LS = F[0] - F[1]
      BY <1>11, <2>1, <3>1 DEF Ordered
    <3> HIDE DEF F, G, LS
    <3>4. QED
      BY <1>4, <1>11, <3>2, <3>3
  <2>2. CASE lv # 0
    <3>1. LevelSize(ts, 0) = LevelSize(st, 0)
      BY <1>1, <1>8, <2>2
    <3>2. QED
      BY <1>14, <3>1
  <2>3. QED
    BY <2>1, <2>2
<1>16. EndedAt(ts) = time
  <2>1. /\ es = <<>> <=> Size(ts) = 0
        /\ es # <<>> => EndedAt(ts) = Q[Size(ts) - 1].endedAt
    BY <1>8, SoundFacts
  <2>2. Q[over] = R[n - 1]
    <3>1. \A f \in 0 .. n - count : Q[f] = IF f < start THEN R[f]
                                           ELSE IF f = start THEN Q[start]
                                           ELSE R[f + count - 1]
      BY <1>9 DEF JoinedTo
    <3>2. over \in 0 .. n - count /\ ~ (over < start) /\ over # start
      <4>1. over \in 0 .. over
        BY <1>4
      <4> HIDE DEF start, n
      <4>2. QED
        BY <1>2, <1>4, <4>1
    <3>3. over + count - 1 = n - 1
      <4> HIDE DEF n
      <4>1. QED
        BY <1>2
    <3> HIDE DEF Q, R, start
    <3>4. Q[over] = R[over + count - 1]
      <4> HIDE DEF over
      <4>1. QED
        BY <3>1, <3>2
    <3>5. QED
      BY <3>3, <3>4
  <2>3. Size(ts) # 0 /\ Size(ts) - 1 = over
    <3> HIDE DEF over
    <3>1. QED
      BY <1>4, <1>8
  <2> HIDE DEF over, Q, R, n
  <2>4. QED
    BY <1>14, <2>1, <2>2, <2>3
<1>17. Roomy(ts, g, time)
  BY <1>10, <1>13, <1>15, <1>16 DEF Roomy
<1>18. QED
  BY <1>17 DEF ts, left, t

-----------------------------------------------------------------------------
(* Levels that always keep a chunk set full of items.                      *)

\* The invariant, when the levels are large enough for their ticks.
RoomyInv(g) ==
  /\ TickInv
  /\ Roomy(storage, g, now)

\* An empty storage has room.
LEMMA RoomyInvInit ==
  ASSUME NEW g, Init
  PROVE  RoomyInv(g)
<1>1. TickInv /\ storage = EmptyStorage
  BY TickInvInit DEF Init
<1>2. storage.chunkSets = <<>> /\ Sound(storage, accepted)
  BY <1>1, RebuildFields DEF EmptyStorage, TickInv
<1>3. Size(storage) = 0 /\ Ordered(Starts(storage.chunkSets), Size(storage))
  BY <1>2, SoundFacts, StartsFacts
<1>4. GrowingWhole(storage.chunkSets)
  BY <1>2 DEF GrowingWhole
<1>5. Spaced(storage, g)
  <2> DEFINE n == Size(storage)
  <2>1. \A l \in Levels : l \in 0 .. NumberOfLevels /\ 0 \in 0 .. NumberOfLevels /\ 0 <= l
    BY LevelsAssumption DEF Levels, MaxLevel
  <2>2. \A f \in Nat : ~ (f + 1 < n)
    BY <1>3
  <2> HIDE DEF n
  <2>3. QED
    BY <2>2 DEF Spaced, SpacedReads, n
<1>6. QED
  BY <1>1, <1>2, <1>4, <1>5 DEF RoomyInv, Roomy

\* A tick comes g or more after the last one, or is dropped.
LEMMA ReceiveTickRoom ==
  ASSUME NEW g, BucketsFit(g), RoomyInv(g), NEW gap \in Gaps, ReceiveTick(gap)
  PROVE  Roomy(storage, g, now)'
<1> DEFINE time == now + gap
<1>1. /\ Sound(storage, accepted) /\ Roomy(storage, g, now)
      /\ accepted \in SUBSET Nat /\ \A t \in accepted : t <= now
      /\ now \in Nat /\ gap \in Nat /\ g \in Nat
  BY GapsAssumption, MaxTimeAssumption DEF RoomyInv, TickInv, Shapes, BucketsFit
<1>2. now' = time /\ time \in Nat /\ now <= time
  BY <1>1 DEF ReceiveTick
<1> HIDE DEF time
<1>3. CASE EndedAt(storage) = time
  <2>1. storage' = storage
    BY <1>2, <1>3 DEF ReceiveTick
  <2>2. storage.chunkSets # <<>> => time = now
    BY <1>1, <1>3 DEF Roomy
  <2>3. Roomy(storage, g, time)
    BY <1>1, <2>2 DEF Roomy
  <2>4. QED
    BY <1>2, <2>1, <2>3
<1>4. CASE EndedAt(storage) # time
  <2>1. storage' = AddItem(storage, 0, time, time, Candle(time, time))
    BY <1>2, <1>4 DEF ReceiveTick
  <2>2. storage.chunkSets # <<>> => now + g <= time
    <3>1. storage.chunkSets # <<>> => time # now
      BY <1>1, <1>4 DEF Roomy
    <3>2. gap = 0 \/ g <= gap
      BY DEF BucketsFit
    <3>3. QED
      BY <1>1, <3>1, <3>2 DEF time
  <2>3. \A t \in accepted : t <= time
    BY <1>1, <1>2
  <2>4. Roomy(AddItem(storage, 0, time, time, Candle(time, time)), g, time)
    BY <1>1, <1>2, <1>4, <2>2, <2>3, TickRoom
  <2>5. QED
    BY <1>2, <2>1, <2>4
<1>5. QED
  BY <1>3, <1>4

\* A full level gives up a bucket.
LEMMA AggregateBucketRoom ==
  ASSUME NEW g, BucketsFit(g), RoomyInv(g), AggregateBucket
  PROVE  Roomy(storage, g, now)'
<1> DEFINE st     == storage
           n      == Size(st)
           size   == LevelSize(st, level)
           start  == st.boundaries[level]
           bucket == FirstBucketCount(st, start, size, Duration[level + 1])
           from   == GetItem(st, start).startedAt
           to     == GetItem(st, start + bucket - 1).endedAt
           candle == IF bucket = 1 THEN [GetItem(st, start) EXCEPT !.value = 0]
                                   ELSE Candle(from, to)
           t      == StartedAtAfterDelete(st, level, bucket)
           left   == DeleteNItems(st, level, bucket, t)
           ts     == AddItem(left, level + 1, from, to, candle)
<1>1. /\ Shapes /\ Sound(st, accepted) /\ Roomy(st, g, now)
      /\ accepted \in SUBSET Nat
  BY MaxTimeAssumption DEF RoomyInv, TickInv, Shapes
<1>2. /\ level < MaxLevel /\ size >= MaxCount[level]
      /\ storage' = ts /\ now' = now
  BY DEF AggregateBucket
<1>3. level \in Levels /\ level # MaxLevel /\ level \in Nat
  BY <1>1, <1>2, LevelsAssumption DEF Shapes, Levels, MaxLevel
<1>4. /\ n \in Nat /\ start \in Nat /\ size \in Nat /\ start + size <= n
  <2>1. /\ n \in Nat /\ start \in Nat /\ size \in Nat
        /\ LevelEnd(st, level) \in Nat /\ LevelEnd(st, level) <= n
        /\ size = LevelEnd(st, level) - start
    BY <1>1, <1>3, SoundFacts DEF LevelSize
  <2> HIDE DEF n, start, size
  <2>2. QED
    BY <2>1
<1>5. bucket \in 1 .. size
  BY <1>1, <1>2, <1>3, BucketLeaves DEF Roomy
<1> HIDE DEF bucket
<1>6. bucket \in Nat \ {0} /\ start + bucket <= n
  <2> HIDE DEF start, size, n
  <2>1. QED
    BY <1>4, <1>5
<1>7. candle \in Candles /\ candle.startedAt = from /\ candle.endedAt = to
  <2>1. start \in 0 .. n - 1 /\ start + bucket - 1 \in 0 .. n - 1
    <3> HIDE DEF start, size, n
    <3>1. QED
      BY <1>4, <1>6
  <2>2. \A f \in 0 .. n - 1 : GetItem(st, f) \in Candles
    <3>1. \A f \in 0 .. n - 1 : Reads(st)[f] \in Candles
      BY <1>1, <1>4, CandleTimes DEF Sound
    <3>2. \A f \in 0 .. n - 1 : Reads(st)[f] = GetItem(st, f)
      BY <1>4 DEF Reads
    <3>3. QED
      BY <3>1, <3>2
  <2>3. GetItem(st, start) \in Candles /\ GetItem(st, start + bucket - 1) \in Candles
    <3> HIDE DEF start, n, st
    <3>1. QED
      BY <2>1, <2>2
  <2> DEFINE first == GetItem(st, start)
  <2>4. bucket = 1 => start + bucket - 1 = start
    <3> HIDE DEF start
    <3>1. QED
      BY <1>4
  <2>5. CASE bucket = 1
    <3>1. candle = [first EXCEPT !.value = 0] /\ to = first.endedAt /\ from = first.startedAt
      BY <2>4, <2>5
    <3> HIDE DEF candle, from, to, first
    <3>2. first \in Candles
      BY <2>3 DEF first
    <3>3. QED
      BY <3>1, <3>2 DEF Candles
  <2>6. CASE bucket # 1
    <3>1. candle = Candle(from, to) /\ from \in Nat /\ to \in Nat
      BY <2>3, <2>6 DEF Candles
    <3> HIDE DEF candle, from, to
    <3>2. QED
      BY <3>1 DEF Candle, Candles
  <2>7. QED
    BY <2>5, <2>6
<1>8. Roomy(ts, g, now)
  <2>1. bucket = FirstBucketCount(st, st.boundaries[level], LevelSize(st, level),
                                  Duration[level + 1])
    BY DEF bucket
  <2> HIDE DEF candle
  <2>2. /\ candle.startedAt = GetItem(st, st.boundaries[level]).startedAt
        /\ candle.endedAt = GetItem(st, st.boundaries[level] + bucket - 1).endedAt
    BY <1>7
  <2> DEFINE us == AddItem(left, level + 1, candle.startedAt, candle.endedAt, candle)
  <2>3. Roomy(us, g, now)
    BY <1>1, <1>2, <1>3, <1>6, <1>7, <2>1, <2>2, BucketRoom
  <2>4. us = ts
    BY <1>7
  <2> HIDE DEF us, ts
  <2>5. QED
    BY <2>3, <2>4
<1> HIDE DEF ts
<1>9. QED
  BY <1>2, <1>8

\* The highest level is cut to its maximum.
LEMMA TrimMaxLevelRoom ==
  ASSUME NEW g, BucketsFit(g), RoomyInv(g), TrimMaxLevel
  PROVE  Roomy(storage, g, now)'
<1> DEFINE excess == LevelSize(storage, MaxLevel) - MaxCount[MaxLevel]
           t      == StartedAtAfterDelete(storage, MaxLevel, excess)
           ts     == DeleteNItems(storage, MaxLevel, excess, t)
<1>1. /\ Sound(storage, accepted) /\ Roomy(storage, g, now) /\ accepted \in SUBSET Nat
      /\ now' = now
  BY MaxTimeAssumption DEF RoomyInv, TickInv, Shapes, TrimMaxLevel
<1>2. LevelSize(storage, MaxLevel) \in Nat /\ MaxCount[MaxLevel] \in Nat \ {0}
  <2>1. MaxLevel \in Levels
    BY LevelsAssumption DEF Levels, MaxLevel
  <2>2. QED
    BY <1>1, <2>1, SoundFacts, MaxCountAssumption
<1>3. CASE excess <= 0
  <2>1. storage' = storage
    BY <1>3 DEF TrimMaxLevel
  <2>2. QED
    BY <1>1, <2>1
<1>4. CASE ~ (excess <= 0)
  <2>1. storage' = ts
    BY <1>4 DEF TrimMaxLevel
  <2>2. excess \in Nat \ {0} /\ LevelSize(storage, MaxLevel) - excess = MaxCount[MaxLevel]
    BY <1>2, <1>4
  <2> HIDE DEF excess
  <2>3. Roomy(ts, g, now)
    BY <1>1, <2>2, TrimRoom
  <2> HIDE DEF ts
  <2>4. QED
    BY <1>1, <2>1, <2>3
<1>5. QED
  BY <1>3, <1>4

\* No step takes the room away.
LEMMA RoomyInvStep ==
  ASSUME NEW g, BucketsFit(g), RoomyInv(g), [Next]_aggregationVars
  PROVE  RoomyInv(g)'
<1>1. TickInv' /\ Sound(storage, accepted) /\ Roomy(storage, g, now)
  BY TickInvStep DEF RoomyInv, TickInv
<1> SUFFICES Roomy(storage, g, now)'
  BY <1>1 DEF RoomyInv
<1>2. ASSUME NEW gap \in Gaps, ReceiveTick(gap) PROVE Roomy(storage, g, now)'
  BY <1>2, ReceiveTickRoom
<1>3. ASSUME NEW i \in 0 .. Size(storage) - 1, RecalculateItem(i)
      PROVE  Roomy(storage, g, now)'
  <2> DEFINE ts == SetItem(storage, i, [GetItem(storage, i) EXCEPT !.value = 1 - @])
  <2>1. storage' = ts /\ now' = now
    BY <1>3 DEF RecalculateItem, Recalculate
  <2>2. Roomy(ts, g, now)
    BY <1>1, RewriteRoom
  <2> HIDE DEF ts
  <2>3. QED
    BY <2>1, <2>2
<1>4. CASE AggregateBucket
  BY <1>4, AggregateBucketRoom
<1>5. CASE TrimMaxLevel
  BY <1>5, TrimMaxLevelRoom
<1>6. CASE Restart
  <2> DEFINE ts == FromSnapshot(Snapshot(storage.chunkSets))
  <2>1. storage' = ts /\ now' = now
    BY <1>6 DEF Restart
  <2>2. Roomy(ts, g, now)
    BY <1>1, RestartRoom
  <2> HIDE DEF ts
  <2>3. QED
    BY <2>1, <2>2
<1>7. CASE RecalculateNothing \/ NextLevel \/ EmitDelta \/ UNCHANGED aggregationVars
  <2>1. storage' = storage /\ now' = now
    BY <1>7 DEF RecalculateNothing, Recalculate, NextLevel, EmitDelta, aggregationVars
  <2>2. QED
    BY <1>1, <2>1
<1>8. QED
  BY <1>1, <1>2, <1>3, <1>4, <1>5, <1>6, <1>7 DEF Next, ProcessTick

\* A step of server, channel and client is one of the server's or none of it.
LEMMA ReplicationIsAggregation ==
  ASSUME [NextReplication]_vars
  PROVE  [Next]_aggregationVars
<1>1. CASE ServerTick
  BY <1>1 DEF ServerTick, Next, ProcessTick
<1>2. CASE SendDelta \/ RestartServer
  BY <1>2 DEF SendDelta, RestartServer, Next, ProcessTick
<1>3. CASE Subscribe \/ Unsubscribe \/ ReceiveSnapshot \/ ReceiveDelta
  BY <1>3 DEF Subscribe, Unsubscribe, ReceiveSnapshot, ReceiveDelta
<1>4. CASE UNCHANGED vars
  BY <1>4 DEF vars, aggregationVars
<1>5. QED
  BY <1>1, <1>2, <1>3, <1>4 DEF NextReplication

\* What the server does while it serves clients is what TickAggregation says,
\* with or without them: processTick does not wait for a client.
THEOREM ReplicationAggregates == SpecReplication => Spec
<1>1. InitReplication => Init
  BY DEF InitReplication
<1>2. [NextReplication]_vars => [Next]_aggregationVars
  BY ReplicationIsAggregation
<1>3. QED
  BY <1>1, <1>2, PTL DEF SpecReplication, Spec

\* In a configuration whose levels are large enough for their ticks, aggregateLevel
\* and trimMaxLevel never take items from the chunk set a level grows in: a bucket
\* leaves a chunk set full of items behind.
THEOREM GrowingChunkSetsAlwaysWhole ==
  ASSUME NEW CONSTANT g, BucketsFit(g)
  PROVE  Spec => []GrowingChunkSetsWhole
<1>1. Init => RoomyInv(g)
  BY RoomyInvInit
<1>2. RoomyInv(g) /\ [Next]_aggregationVars => RoomyInv(g)'
  BY RoomyInvStep
<1>3. RoomyInv(g) => GrowingChunkSetsWhole
  BY DEF RoomyInv, Roomy, GrowingChunkSetsWhole
<1>4. QED
  BY <1>1, <1>2, <1>3, PTL DEF Spec

\* The configuration of storage-config.ts, in milliseconds, is one of these when
\* ticks that are not dropped as duplicates come 19 ms or more apart.
THEOREM ConfiguredLevelsFit ==
  ASSUME NumberOfLevels = 5, STORAGE_CHUNK_CAPACITY = 64,
         MaxCount[0] = 610, MaxCount[1] = 486, MaxCount[2] = 340, MaxCount[3] = 114,
         MaxCount[4] = 312,
         Duration[1] = 10000, Duration[2] = 60000, Duration[3] = 600000,
         Duration[4] = 3600000,
         \A gap \in Gaps : gap = 0 \/ 19 <= gap
  PROVE  BucketsFit(19)
<1>1. MaxLevel = 4 /\ Levels = {0, 1, 2, 3, 4}
  BY DEF MaxLevel, Levels
<1>2. /\ Duration[1] <= (610 - 64 - 1) * 19
      /\ Duration[2] <= ((486 - 64 - 1) \div 2) * Duration[1]
      /\ Duration[3] <= ((340 - 64 - 1) \div 2) * Duration[2]
      /\ Duration[4] <= ((114 - 64 - 1) \div 2) * Duration[3]
  OBVIOUS
<1>3. ASSUME NEW l \in Levels \ {MaxLevel}
      PROVE  LET n == MaxCount[l] - STORAGE_CHUNK_CAPACITY
             IN  /\ n >= 1
                 /\ Duration[l + 1] <= IF l = 0 THEN (n - 1) * 19
                                                ELSE ((n - 1) \div 2) * Duration[l]
  <2>1. CASE l = 0
    BY <1>2, <2>1
  <2>2. CASE l = 1
    BY <1>2, <2>2
  <2>3. CASE l = 2
    BY <1>2, <2>3
  <2>4. CASE l = 3
    BY <1>2, <2>4
  <2>5. QED
    BY <1>1, <2>1, <2>2, <2>3, <2>4
<1>4. STORAGE_CHUNK_CAPACITY <= MaxCount[MaxLevel]
  BY <1>1
<1>5. QED
  BY <1>3, <1>4 DEF BucketsFit

\* A client that has applied the snapshot and the deltas of a market (applySnapshot
\* and applyDelta of shared/services/storage.ts) sees what the server has, however
\* ticks, recalculation, aggregation, trimming, restarts and the moment of the
\* snapshot fall together, and no check of the decoder of delta-v1_0.ts ever
\* throws: in every configuration whose levels are large enough for their ticks.
THEOREM ReplicaAlwaysFollows ==
  ASSUME NEW CONSTANT g, BucketsFit(g)
  PROVE  SpecReplication => []ReplicaFollows
<1>1. Spec => []GrowingChunkSetsWhole
  BY GrowingChunkSetsAlwaysWhole
<1>2. QED
  BY <1>1, ReplicationAggregates, ReplicaFollowsGrowing, PTL

\* In the same configurations a delta getBinaryDelta flags append-only adds one
\* item behind those the client has drawn and leaves them and the levels as they
\* are: MarketStatisticsController may draw just the new one.
THEOREM AppendOnlyAlwaysAppends ==
  ASSUME NEW CONSTANT g, BucketsFit(g)
  PROVE  SpecReplication => AppendOnlyAppends
<1>1. Spec => []GrowingChunkSetsWhole
  BY GrowingChunkSetsAlwaysWhole
<1>2. QED
  BY <1>1, ReplicationAggregates, AppendOnlyAppendsGrowing, PTL
=============================================================================
