--------------------------- MODULE StorageProofs ---------------------------
(***************************************************************************)
(* Theorems about Storage: in every reachable state the chunk sets are     *)
(* well formed and packed, the index metadata is what a rebuild from the   *)
(* chunk sets would give and a cached snapshot is the encoding of the      *)
(* content; and a storage implements the queues of its levels.             *)
(***************************************************************************)
EXTENDS Storage, StorageStructureProofs

Value == Item \cup {EmptyItem}

\* A storage with well formed and packed chunk sets and the metadata of a
\* rebuild.
StorageOK(st) ==
  \E cs : /\ WellFormed(cs, Times, Value) /\ Packed(cs)
          /\ st = RebuildIndexMetadata(cs)

\* The inductive invariant.  Its first conjunct carries Geometry and
\* MetadataCurrent together: a deletion leaves a well formed storage only
\* because the level sizes it is checked against, which are read from the
\* metadata, are the sums of the sizes of the chunk sets.
IInv ==
  /\ StorageOK(storage)
  /\ persistedMark \in BOOLEAN
  /\ SnapshotsCurrent
  /\ persisted = Null
       \/ persisted \in [active : Seq(ChunkSet), archive : Seq(ChunkSet)]

-----------------------------------------------------------------------------

\* The chunk sets of the storage are those of its level structure.
LEMMA ChunkSetIsChunkSetOf == ChunkSet = ChunkSetOf(Times, Value)
BY DEF ChunkSet, Value

\* What the invariant says of the storage itself.
LEMMA StorageFacts ==
  ASSUME StorageOK(storage)
  PROVE  /\ WellFormed(storage.chunkSets, Times, Value)
         /\ Packed(storage.chunkSets)
         /\ storage = RebuildIndexMetadata(storage.chunkSets)
<1>1. PICK cs : /\ WellFormed(cs, Times, Value) /\ Packed(cs)
                /\ storage = RebuildIndexMetadata(cs)
  BY DEF StorageOK
<1>2. storage.chunkSets = cs
  BY <1>1, RebuildFields
<1>3. QED
  BY <1>1, <1>2

\* A rebuild yields a record of the type of storages.
LEMMA RebuildType ==
  ASSUME NEW cs, WellFormed(cs, Times, Value)
  PROVE  RebuildIndexMetadata(cs) \in StorageType
<1> DEFINE S == SizeSums(cs)
           N == Len(cs)
           p(l) == ChunkSetInsertionIndex(cs, l + 1)
<1>1. /\ N \in Nat /\ DOMAIN cs = 1 .. N /\ cs \in Seq(ChunkSet)
      /\ \A i \in 1 .. N : cs[i].size \in Nat
  BY ChunkSetFacts, ChunkSetIsChunkSetOf DEF WellFormed
<1>2. S \in [0 .. N -> Nat]
  BY <1>1, SizeSumsRecurrence
<1>3. [i \in DOMAIN cs |-> S[i]] \in Seq(Nat)
  <2> HIDE DEF S
  <2>1. [i \in 1 .. N |-> S[i]] \in [1 .. N -> Nat]
    BY <1>1, <1>2
  <2>2. QED
    BY <2>1, <1>1
<1>4. [l \in Levels |-> S[p(l) - 1]] \in [Levels -> Nat]
  <2>1. ASSUME NEW l \in Levels PROVE p(l) \in 1 .. N + 1
    BY <1>1, InsertionIndexIsFirst
  <2> HIDE DEF S, p
  <2>2. ASSUME NEW l \in Levels PROVE S[p(l) - 1] \in Nat
    BY <2>1, <1>1, <1>2
  <2>3. QED
    BY <2>2
<1>5. StartLevel0Index(cs) \in Nat
  BY <1>1, StartLevel0IndexType
<1>6. QED
  BY <1>1, <1>3, <1>4, <1>5, RebuildFields DEF StorageType

\* Snapshots are sequences of chunk sets too.
LEMMA SnapshotType ==
  ASSUME NEW cs, WellFormed(cs, Times, Value)
  PROVE  Snapshot(cs) \in Seq(ChunkSet)
<1>1. EmptyItem \in Value
  BY DEF Value
<1>2. WellFormed(Snapshot(cs), Times, Value)
  BY <1>1, SnapshotWellFormed
<1>3. QED
  BY <1>2, ChunkSetIsChunkSetOf DEF WellFormed

\* The chunk sets of an archive are well formed like those they are taken of.
LEMMA Level0WellFormed ==
  ASSUME WellFormed(storage.chunkSets, Times, Value),
         storage = RebuildIndexMetadata(storage.chunkSets),
         storage.chunkSets # <<>>
  PROVE  WellFormed(Level0ChunkSets, Times, Value)
<1> DEFINE cs == storage.chunkSets
           a  == storage.startLevel0Index
           C  == ChunkSetOf(Times, Value)
<1>1. cs \in Seq(C) /\ Len(cs) \in Nat /\ Len(cs) # 0
  BY DEF WellFormed
<1>2. a \in 1 .. Len(cs) + 1
  <2>1. a = StartLevel0Index(cs)
    BY RebuildFields
  <2>2. QED
    BY <2>1, <1>1, StartLevel0IndexType
<1> HIDE DEF cs, a, C
<1>3. 1 \in 1 .. Len(cs) /\ a - 1 \in 1 - 1 .. Len(cs)
  BY <1>1, <1>2
<1>4. WellFormed(Without(cs, 1, a - 1), Times, Value)
  BY <1>3, WithoutKeepsWellFormed DEF cs
<1>5. SubSeq(cs, 1, 1 - 1) \o SubSeq(cs, (a - 1) + 1, Len(cs))
        = Without(cs, 1, a - 1)
  BY <1>1, <1>3, WithoutIsConcatenation
<1>6. SubSeq(cs, 1, 1 - 1) = <<>> /\ (a - 1) + 1 = a
  BY <1>1, <1>2
<1>7. SubSeq(cs, a, Len(cs)) \in Seq(C)
  BY <1>1, <1>2
<1>8. <<>> \o SubSeq(cs, a, Len(cs)) = SubSeq(cs, a, Len(cs))
  BY <1>7
<1>9. SubSeq(cs, a, Len(cs)) = Without(cs, 1, a - 1)
  BY <1>5, <1>6, <1>8
<1>10. QED
  BY <1>4, <1>9 DEF Level0ChunkSets, cs, a

\* startLevel0Index is where level 0 begins, and a snapshot of the chunk sets
\* from there on is that part of the snapshot.
LEMMA ArchiveIsLevel0 ==
  ASSUME WellFormed(storage.chunkSets, Times, Value),
         storage = RebuildIndexMetadata(storage.chunkSets)
  PROVE  IsLevel0(Snapshot(Level0ChunkSets), Snapshot(storage.chunkSets))
<1> DEFINE cs == storage.chunkSets
           N  == Len(cs)
           a  == storage.startLevel0Index
           C  == ChunkSetOf(Times, Value)
<1>1. /\ N \in Nat /\ DOMAIN cs = 1 .. N /\ cs \in Seq(C)
      /\ \A i \in 1 .. N : cs[i] \in C /\ cs[i].level \in Nat
      /\ LevelsDescend(cs)
  BY ChunkSetFacts DEF WellFormed, Levels, MaxLevel
<1>2. a = StartLevel0Index(cs)
  BY RebuildFields
<1> HIDE DEF cs, a
<1>3. /\ a \in 1 .. N + 1
      /\ \A j \in 1 .. N : a <= j => cs[j].level = 0
      /\ a > 1 => cs[a - 1].level # 0
  BY <1>1, <1>2, StartLevel0IndexIsFirst
<1>4. \A i \in 1 .. N : cs[i].level = 0 <=> i > a - 1
  <2> SUFFICES ASSUME NEW i \in 1 .. N PROVE cs[i].level = 0 <=> i > a - 1
    OBVIOUS
  <2>1. CASE a <= i
    BY <1>1, <1>3, <2>1
  <2>2. CASE i < a
    <3>1. a - 1 \in 1 .. N /\ (i = a - 1 \/ i < a - 1) /\ a > 1
      BY <1>1, <1>3, <2>2
    <3>2. cs[i].level >= cs[a - 1].level
      BY <1>1, <3>1 DEF LevelsDescend
    <3>3. cs[i].level \in Nat /\ cs[a - 1].level \in Nat /\ cs[a - 1].level # 0
      BY <1>1, <1>3, <3>1
    <3>4. cs[i].level # 0
      BY ONLY <3>2, <3>3
    <3>5. ~ (i > a - 1)
      BY <1>1, <1>3, <2>2
    <3>6. QED
      BY <3>4, <3>5
  <2>3. QED
    BY <1>1, <1>3, <2>1, <2>2
<1> DEFINE active  == Snapshot(cs)
           archive == Snapshot(SubSeq(cs, a, N))
           rest    == SubSeq(active, (a - 1) + 1, Len(active))
<1>5. /\ DOMAIN active = 1 .. N /\ Len(active) = N
      /\ \A i \in 1 .. N : active[i] = Compact(cs[i])
      /\ active \in Seq({Compact(cs[i]) : i \in 1 .. N})
  BY <1>1 DEF Snapshot
<1>6. \A i \in 1 .. N : active[i].level = cs[i].level
  BY <1>1, <1>5 DEF Compact, ChunkSetOf
<1>7. archive = rest
  <2>1. /\ SubSeq(cs, a, N) \in Seq(C) /\ Len(SubSeq(cs, a, N)) = N - a + 1
        /\ \A i \in 1 .. N - a + 1 : SubSeq(cs, a, N)[i] = cs[a + i - 1]
    BY <1>1, <1>3
  <2>2. \A i \in 1 .. N - a + 1 : a + i - 1 \in 1 .. N
    BY <1>1, <1>3
  <2>3. archive = [i \in 1 .. N - a + 1 |-> Compact(cs[a + i - 1])]
    BY <2>1 DEF Snapshot
  <2> HIDE DEF archive, active
  <2>4. (a - 1) + 1 = a /\ Len(active) = N
    BY <1>3, <1>5
  <2>5. rest = [i \in 1 .. N - a + 1 |-> active[a + i - 1]]
    BY <1>1, <1>3, <1>5, <2>4
  <2>6. QED
    BY <1>5, <2>2, <2>3, <2>5
<1>8. a - 1 \in 0 .. Len(active)
  BY <1>1, <1>3, <1>5
<1> HIDE DEF active, archive
<1>9. IsLevel0(archive, active)
  BY <1>4, <1>5, <1>6, <1>7, <1>8 DEF IsLevel0
<1>10. QED
  BY <1>9 DEF Level0ChunkSets, cs, active, archive, a

\* Packed chunk sets are full between the first and the last of their level.
LEMMA PackedIsFull ==
  ASSUME WellFormed(storage.chunkSets, Times, Value), Packed(storage.chunkSets)
  PROVE  InteriorChunkSetsFull
<1> DEFINE cs == storage.chunkSets
<1>1. Len(cs) \in Nat /\ \A i \in 1 .. Len(cs) : GeometryOK(cs[i])
  BY ChunkSetFacts
<1> SUFFICES ASSUME NEW i \in 2 .. Len(cs) - 1,
                    cs[i - 1].level = cs[i].level, cs[i + 1].level = cs[i].level
             PROVE  cs[i].size = STORAGE_CHUNK_CAPACITY
  BY DEF InteriorChunkSetsFull
<1>2. i \in 2 .. Len(cs) /\ i \in 1 .. Len(cs) /\ i < Len(cs)
  BY <1>1
<1>3. cs[i].start = 0 /\ cs[i].end = STORAGE_CHUNK_CAPACITY
  BY <1>2 DEF Packed
<1>4. cs[i].size = cs[i].end - cs[i].start
  BY <1>1, <1>2 DEF GeometryOK
<1>5. QED
  BY <1>3, <1>4, CapacityAssumption

\* With the metadata of a rebuild a read finds the slot its flat index counts to.
LEMMA RebuildReadsInOrder ==
  ASSUME WellFormed(storage.chunkSets, Times, Value),
         storage = RebuildIndexMetadata(storage.chunkSets)
  PROVE  ReadsInOrder
<1> DEFINE cs == storage.chunkSets
           S  == SizeSums(cs)
<1>1. Len(cs) \in Nat /\ DOMAIN cs = 1 .. Len(cs) /\ (Len(cs) + 1) - 1 = Len(cs)
  BY ChunkSetFacts
<1>2. Size(storage) = S[Len(cs)]
  BY SizeIs
<1>3. ASSUME NEW i \in 1 .. Len(cs), NEW s \in 0 .. cs[i].size - 1
      PROVE  GetItem(storage, S[i - 1] + s) = cs[i].items[cs[i].start + s]
  <2>1. s \in Nat /\ s < cs[i].size
    BY ChunkSetFacts
  <2>2. LET flatIndex == SizeSums(cs)[i - 1] + s
            st == RebuildIndexMetadata(cs)
        IN  /\ flatIndex \in Nat
            /\ ChunkAndPos(st, flatIndex)
                 = [chunkSet |-> i, slot |-> cs[i].start + s]
            /\ GetItem(st, flatIndex) = cs[i].items[cs[i].start + s]
    BY <2>1, FlatIndexIs
  <2>3. QED
    BY <2>2
<1> HIDE DEF S
<1>4. QED
  BY <1>1, <1>2, <1>3 DEF ReadsInOrder, S

\* The invariant implies the type invariant and the safety invariants that its
\* conjuncts carry.
LEMMA InvariantImplies ==
  IInv => ChunkSetsSound /\ MetadataCurrent /\ SnapshotsCurrent
<1> SUFFICES ASSUME IInv
             PROVE  ChunkSetsSound /\ MetadataCurrent /\ SnapshotsCurrent
  OBVIOUS
<1>1. /\ WellFormed(storage.chunkSets, Times, Value)
      /\ Packed(storage.chunkSets)
      /\ storage = RebuildIndexMetadata(storage.chunkSets)
  BY StorageFacts DEF IInv
<1>2. storage \in StorageType
  BY <1>1, RebuildType
<1>3. snapshot = Null \/ snapshot \in Seq(ChunkSet)
  BY <1>1, SnapshotType DEF IInv, SnapshotsCurrent, SnapshotFresh
<1>4. Geometry
  BY <1>1 DEF Geometry, WellFormed
<1>5. MetadataCurrent
  BY <1>1 DEF MetadataCurrent
<1>6. InteriorChunkSetsFull /\ ReadsInOrder
  BY <1>1, PackedIsFull, RebuildReadsInOrder
<1>7. QED
  BY <1>2, <1>3, <1>4, <1>5, <1>6 DEF IInv, TypeOK, ChunkSetsSound

-----------------------------------------------------------------------------

\* The empty storage satisfies the invariant.
LEMMA InitInvariant == Init => IInv
<1> SUFFICES ASSUME Init PROVE IInv
  OBVIOUS
<1>1. WellFormed(<<>>, Times, Value) /\ Packed(<<>>)
  BY DEF WellFormed, LevelsDescend, Packed
<1>2. EmptyStorage = RebuildIndexMetadata(<<>>)
  <2> DEFINE S == SizeSums(<<>>)
  <2>1. S[0] = 0
    <3>1. <<>> \in Seq(Nat) /\ Len(<<>>) = 0
      OBVIOUS
    <3>2. \A i \in 1 .. Len(<<>>) : <<>>[i].size \in Nat
      OBVIOUS
    <3>3. QED
      BY <3>1, <3>2, SizeSumsRecurrence
  <2>2. ASSUME NEW l PROVE ChunkSetInsertionIndex(<<>>, l) = 1
    <3>1. <<>> \in Seq(Nat) /\ Len(<<>>) = 0
      OBVIOUS
    <3>2. ChunkSetInsertionIndex(<<>>, l) \in 1 .. 0 + 1
      BY <3>1, InsertionIndexIsFirst
    <3>3. QED
      BY <3>2
  <2>3. StartLevel0Index(<<>>) = 1
    <3>1. <<>> \in Seq(Nat) /\ Len(<<>>) = 0
      OBVIOUS
    <3>2. StartLevel0Index(<<>>) \in 1 .. 0 + 1
      BY <3>1, StartLevel0IndexType
    <3>3. QED
      BY <3>2
  <2>4. [l \in Levels |-> S[ChunkSetInsertionIndex(<<>>, l + 1) - 1]]
          = [l \in Levels |-> 0]
    <3> HIDE DEF S
    <3>1. ASSUME NEW l \in Levels
          PROVE  S[ChunkSetInsertionIndex(<<>>, l + 1) - 1] = 0
      BY <2>1, <2>2
    <3>2. QED
      BY <3>1
  <2>5. [i \in DOMAIN <<>> |-> S[i]] = <<>>
    <3> HIDE DEF S
    <3> QED OBVIOUS
  <2>6. QED
    BY <2>3, <2>4, <2>5, RebuildFields DEF EmptyStorage
<1>3. StorageOK(storage)
  BY <1>1, <1>2 DEF Init, StorageOK
<1>4. QED
  BY <1>3 DEF Init, IInv, SnapshotsCurrent, SnapshotFresh, PersistedUpToDate

\* A change of the storage that leaves it sound keeps the invariant, because
\* it drops the caches.
LEMMA InvalidateKeepsInvariant ==
  ASSUME StorageOK(storage'), InvalidateSnapshot
  PROVE  IInv'
BY DEF IInv, InvalidateSnapshot, SnapshotsCurrent, SnapshotFresh, PersistedUpToDate

\* Every step preserves the invariant.
LEMMA NextInvariant == IInv /\ [Next]_vars => IInv'
<1> SUFFICES ASSUME IInv, [Next]_vars PROVE IInv'
  OBVIOUS
<1> DEFINE cs == storage.chunkSets
<1>1. /\ WellFormed(cs, Times, Value) /\ Packed(cs)
      /\ storage = RebuildIndexMetadata(cs)
  BY StorageFacts DEF IInv
<1>2. EmptyItem \in Value /\ Item \subseteq Value
  BY DEF Value
<1>3. CurrentSnapshot = Snapshot(cs)
  BY DEF IInv, SnapshotsCurrent, SnapshotFresh, CurrentSnapshot
<1> HIDE DEF cs
<1>4. ASSUME NEW level \in Levels, NEW s \in Times, NEW e \in Times,
             NEW item \in Item, Add(level, s, e, item)
      PROVE  IInv'
  <2> DEFINE ds == AddToChunkSets(cs, level, s, e)
             flatIndex == LevelEnd(storage, level)
  <2>1. storage' = SetItem(AddItemStructure(storage, level, s, e), flatIndex, item)
    BY <1>4 DEF Add, AddItem
  <2>2. WellFormed(ds, Times, Value) /\ Packed(ds)
    BY <1>1, <1>2, AddKeepsWellFormed, AddKeepsPacked
  <2>3. AddItemStructure(storage, level, s, e) = RebuildIndexMetadata(ds)
    BY <1>1, <1>2, AddMetadata
  <2> HIDE DEF ds, flatIndex
  <2>4. StorageOK(storage')
    <3>1. item \in Value
      BY <1>2
    <3>2. PICK x : /\ WellFormed(x, Times, Value) /\ Packed(x)
                   /\ SetItem(RebuildIndexMetadata(ds), flatIndex, item)
                        = RebuildIndexMetadata(x)
      BY <2>2, <3>1, SetItemWellFormed
    <3>3. QED
      BY <2>1, <2>3, <3>2 DEF StorageOK
  <2>5. InvalidateSnapshot
    BY <1>4 DEF Add
  <2>6. QED
    BY <2>4, <2>5, InvalidateKeepsInvariant
<1>5. ASSUME NEW level \in Levels, NEW count \in 1 .. MaxItems,
             NEW t \in Times \cup {Null}, Delete(level, count, t)
      PROVE  IInv'
  <2> DEFINE ds == DeleteFromChunkSets(cs, level, count, t)
  <2>1. count \in Nat \ {0}
    OBVIOUS
  <2>2. /\ count <= LevelSize(RebuildIndexMetadata(cs), level)
        /\ t \in Times \/ TrimCount(cs, level, count) = 0
    BY <1>1, <1>5, <2>1 DEF Delete, CanDelete, cs
  <2>3. WellFormed(ds, Times, Value) /\ Packed(ds)
    BY <1>1, <2>1, <2>2, DeleteKeepsWellFormed, DeleteKeepsPacked
  <2>4. storage' = RebuildIndexMetadata(ds)
    BY <1>5, <2>1 DEF Delete, DeleteNItems, cs
  <2>5. StorageOK(storage')
    BY <2>3, <2>4 DEF StorageOK
  <2>6. InvalidateSnapshot
    BY <1>5 DEF Delete
  <2>7. QED
    BY <2>5, <2>6, InvalidateKeepsInvariant
<1>6. ASSUME NEW i \in 0 .. Size(storage) - 1, NEW item \in Item, Set(i, item)
      PROVE  IInv'
  <2>1. StorageOK(storage')
    <3>1. item \in Value
      BY <1>2
    <3>2. PICK x : /\ WellFormed(x, Times, Value) /\ Packed(x)
                   /\ SetItem(RebuildIndexMetadata(cs), i, item)
                        = RebuildIndexMetadata(x)
      BY <1>1, <3>1, SetItemWellFormed
    <3>3. storage' = RebuildIndexMetadata(x)
      BY <1>1, <1>6, <3>2 DEF Set
    <3>4. QED
      BY <3>2, <3>3 DEF StorageOK
  <2>2. CASE GetItem(storage, i) = item
    <3>1. UNCHANGED <<snapshot, persistedMark, persisted>>
      BY <1>6, <2>2 DEF Set
    <3>2. storage' = storage
      <4>1. SetItem(RebuildIndexMetadata(cs), i,
                    GetItem(RebuildIndexMetadata(cs), i))
              = RebuildIndexMetadata(cs)
        BY <1>1, SetSameItem
      <4>2. QED
        BY <4>1, <1>1, <1>6, <2>2 DEF Set
    <3>3. QED
      BY <2>1, <3>1, <3>2 DEF IInv, SnapshotsCurrent, SnapshotFresh, PersistedUpToDate
  <2>3. CASE GetItem(storage, i) # item
    <3>1. InvalidateSnapshot
      BY <1>6, <2>3 DEF Set
    <3>2. QED
      BY <2>1, <3>1, InvalidateKeepsInvariant
  <2>4. QED
    BY <2>2, <2>3
<1>7. CASE GetBinarySnapshot
  <2>1. snapshot' = Snapshot(storage'.chunkSets)
    BY <1>3, <1>7 DEF GetBinarySnapshot, cs
  <2>2. UNCHANGED <<storage, persistedMark, persisted>>
    BY <1>7 DEF GetBinarySnapshot
  <2>3. QED
    BY <2>1, <2>2
    DEF IInv, SnapshotsCurrent, SnapshotFresh, PersistedUpToDate, StorageOK
<1>8. CASE GetPersistenceSnapshot
  <2>1. snapshot' = Snapshot(storage'.chunkSets) /\ storage' = storage
    BY <1>3, <1>8 DEF GetPersistenceSnapshot, cs
  <2>2. persisted' \in [active : Seq(ChunkSet), archive : Seq(ChunkSet)]
    <3>1. Snapshot(cs) \in Seq(ChunkSet)
      BY <1>1, SnapshotType
    <3>2. Snapshot(Level0ChunkSets) \in Seq(ChunkSet)
      BY <1>1, <1>8, Level0WellFormed, SnapshotType
      DEF GetPersistenceSnapshot, cs
    <3>3. persisted' = [ active  |-> Snapshot(cs),
                         archive |-> Snapshot(Level0ChunkSets) ]
      BY <1>3, <1>8 DEF GetPersistenceSnapshot
    <3>4. QED
      BY <3>1, <3>2, <3>3
  <2>3. persistedMark' = TRUE
    BY <1>8 DEF GetPersistenceSnapshot
  <2>4. /\ persisted'.active = Snapshot(storage'.chunkSets)
        /\ IsLevel0(persisted'.archive, persisted'.active)
    <3>1. persisted' = [ active  |-> Snapshot(cs),
                         archive |-> Snapshot(Level0ChunkSets) ]
      BY <1>3, <1>8 DEF GetPersistenceSnapshot
    <3>2. storage'.chunkSets = cs
      BY <1>8 DEF GetPersistenceSnapshot, cs
    <3>3. IsLevel0(Snapshot(Level0ChunkSets), Snapshot(cs))
      BY <1>1, ArchiveIsLevel0 DEF cs
    <3>4. QED
      BY <3>1, <3>2, <3>3
  <2>5. QED
    BY <2>1, <2>2, <2>3, <2>4
    DEF IInv, SnapshotsCurrent, SnapshotFresh, PersistedUpToDate, StorageOK
<1>9. CASE ApplySnapshot
  <2>1. WellFormed(Snapshot(cs), Times, Value) /\ Packed(Snapshot(cs))
    BY <1>1, <1>2, SnapshotWellFormed, SnapshotPacked
  <2>2. storage' = RebuildIndexMetadata(Snapshot(cs))
    BY <1>3, <1>9 DEF ApplySnapshot, FromSnapshot
  <2>3. StorageOK(storage')
    BY <2>1, <2>2 DEF StorageOK
  <2>4. InvalidateSnapshot
    BY <1>9 DEF ApplySnapshot
  <2>5. QED
    BY <2>3, <2>4, InvalidateKeepsInvariant
<1>10. CASE UNCHANGED vars
  BY <1>10
  DEF vars, IInv, SnapshotsCurrent, SnapshotFresh, PersistedUpToDate, StorageOK
<1>11. QED
  BY <1>4, <1>5, <1>6, <1>7, <1>8, <1>9, <1>10 DEF Next

\* The invariant always holds.
LEMMA IInvOfSpec == Spec => []IInv
BY InitInvariant, NextInvariant, PTL DEF Spec

\* In every reachable state of a storage, for any number of levels, any
\* capacity and any callers' times: the chunk sets are well formed, those
\* between the first and the last of a level are full, and the flat index of an
\* item leads the binary search to its slot.
THEOREM ChunkSetsStaySound == Spec => []ChunkSetsSound
<1>1. IInv => ChunkSetsSound
  BY InvariantImplies
<1>2. QED
  BY <1>1, IInvOfSpec, PTL

\* The index metadata updated step by step is that of a rebuild.
THEOREM MetadataStaysCurrent == Spec => []MetadataCurrent
<1>1. IInv => MetadataCurrent
  BY InvariantImplies
<1>2. QED
  BY <1>1, IInvOfSpec, PTL

\* A cached snapshot is what encoding now would give, and while the storage
\* believes it has been persisted, persistence was handed its content and its
\* level 0: invalidateSnapshot is called wherever it must be.
THEOREM SnapshotsStayCurrent == Spec => []SnapshotsCurrent
<1>1. IInv => SnapshotsCurrent
  BY InvariantImplies
<1>2. QED
  BY <1>1, IInvOfSpec, PTL

-----------------------------------------------------------------------------
(* A storage implements the queues of its levels.                          *)

\* The queues that LevelQueues talks about, under the invariant.
LEMMA QueuesAreReads ==
  ASSUME NEW st, StorageOK(st)
  PROVE  [l \in Levels |-> [k \in 1 .. LevelSize(st, l) |->
                              GetItem(st, st.boundaries[l] + k - 1)]]
           = QueuesOf(st)
<1>1. PICK cs : WellFormed(cs, Times, Value) /\ st = RebuildIndexMetadata(cs)
  BY DEF StorageOK
<1>2. RebuildIndexMetadata(cs) \in StorageType
  BY <1>1, RebuildType
<1>3. \A x \in StorageType : \A l \in Levels : x.boundaries[l] \in Nat
  BY DEF StorageType
<1>4. \A l \in Levels : st.boundaries[l] \in Nat
  BY <1>1, <1>2, <1>3
<1>5. QED
  BY <1>4, QueuesAre

\* Initially all queues are empty.
LEMMA InitQueues == Init => LQ!Init
<1> SUFFICES ASSUME Init PROVE Queues = [l \in Levels |-> <<>>]
  BY DEF LQ!Init
<1>1. storage = EmptyStorage
  BY DEF Init
<1>2. ASSUME NEW l \in Levels PROVE LevelSize(storage, l) = 0
  <2>1. storage.flatEnds = <<>> /\ storage.boundaries = [x \in Levels |-> 0]
    BY <1>1 DEF EmptyStorage
  <2>2. Size(storage) = 0
    BY <2>1 DEF Size, FlatEndAt
  <2>3. l # 0 => l - 1 \in Levels
    BY LevelsAssumption DEF Levels, MaxLevel
  <2>4. LevelEnd(storage, l) = 0 /\ storage.boundaries[l] = 0
    BY <2>1, <2>2, <2>3 DEF LevelEnd
  <2>5. QED
    BY <2>4 DEF LevelSize
<1>3. ASSUME NEW l \in Levels
      PROVE  [k \in 1 .. LevelSize(storage, l) |->
                GetItem(storage, storage.boundaries[l] + k - 1)] = <<>>
  BY <1>2
<1>4. QED
  BY <1>3 DEF Queues

\* Every step of the storage is a step of the queues or leaves them alone.
LEMMA NextQueues == IInv /\ [Next]_vars => [LQ!Next]_Queues
<1> SUFFICES ASSUME IInv, [Next]_vars PROVE LQ!Next \/ Queues' = Queues
  OBVIOUS
<1> DEFINE cs == storage.chunkSets
<1>1. /\ WellFormed(cs, Times, Value) /\ Packed(cs)
      /\ storage = RebuildIndexMetadata(cs)
  BY StorageFacts DEF IInv
<1>2. EmptyItem \in Value /\ Item \subseteq Value
  BY DEF Value
<1>3. CurrentSnapshot = Snapshot(cs)
  BY DEF IInv, SnapshotsCurrent, SnapshotFresh, CurrentSnapshot
<1>4. IInv'
  BY NextInvariant
<1>5. Queues = QueuesOf(storage)
  BY QueuesAreReads DEF Queues, IInv
<1>6. Queues' = QueuesOf(storage')
  BY <1>4, QueuesAreReads DEF Queues, IInv
<1>7. Size(storage) = SizeSums(cs)[Len(cs)]
  BY <1>1, SizeIs
<1> HIDE DEF cs
<1>8. ASSUME NEW level \in Levels, NEW s \in Times, NEW e \in Times,
             NEW item \in Item, Add(level, s, e, item)
      PROVE  LQ!Next
  <2> DEFINE ds == AddToChunkSets(cs, level, s, e)
             p  == LevelEnd(storage, level)
  <2>1. storage' = SetItem(AddItemStructure(storage, level, s, e), p, item)
    BY <1>8 DEF Add, AddItem
  <2>2. AddItemStructure(storage, level, s, e) = RebuildIndexMetadata(ds)
    BY <1>1, <1>2, AddMetadata
  <2>3. LET st == RebuildIndexMetadata(cs)
            xs == AddToChunkSets(cs, level, s, e)
            ts == SetItem(RebuildIndexMetadata(xs), LevelEnd(st, level), item)
        IN  QueuesOf(ts) = [QueuesOf(st) EXCEPT ![level] = Appended(@, item)]
    BY <1>1, <1>2, QueuesAfterAdd
  <2>4. Queues' = [Queues EXCEPT ![level] = Append(@, item)]
    BY <1>1, <1>5, <1>6, <2>1, <2>2, <2>3 DEF Appended
  <2>5. QED
    BY <2>4 DEF LQ!Next, LQ!Add
<1>9. ASSUME NEW level \in Levels, NEW count \in 1 .. MaxItems,
             NEW t \in Times \cup {Null}, Delete(level, count, t)
      PROVE  LQ!Next
  <2> DEFINE ds == DeleteFromChunkSets(cs, level, count, t)
  <2>1. count \in Nat \ {0}
    OBVIOUS
  <2>2. /\ count <= LevelSize(RebuildIndexMetadata(cs), level)
        /\ t \in Times \/ TrimCount(cs, level, count) = 0
    BY <1>1, <1>9, <2>1 DEF Delete, CanDelete, cs
  <2>3. storage' = RebuildIndexMetadata(ds)
    BY <1>9, <2>1 DEF Delete, DeleteNItems, cs
  <2>4. LET st == RebuildIndexMetadata(cs)
            ts == RebuildIndexMetadata(DeleteFromChunkSets(cs, level, count, t))
        IN  /\ count \in 1 .. Len(QueuesOf(st)[level])
            /\ QueuesOf(ts) = [QueuesOf(st) EXCEPT ![level] = Dropped(@, count)]
    BY <1>1, <2>1, <2>2, QueuesAfterDelete
  <2>5. /\ count \in 1 .. Len(Queues[level])
        /\ Queues' = [Queues EXCEPT ![level] = SubSeq(@, count + 1, Len(@))]
    BY <1>1, <1>5, <1>6, <2>3, <2>4 DEF Dropped
  <2>6. count <= Len(Queues[level])
    <3>1. \A n : n \in 1 .. Len(Queues[level]) => n <= Len(Queues[level])
      OBVIOUS
    <3>2. QED
      BY <2>5, <3>1
  <2>7. QED
    BY <2>5, <2>6 DEF LQ!Next, LQ!Consume
<1>10. ASSUME NEW p \in 0 .. Size(storage) - 1, NEW item \in Item, Set(p, item)
       PROVE  LQ!Next
  <2>1. storage' = SetItem(storage, p, item)
    BY <1>10 DEF Set
  <2>2. p \in Nat /\ p < SizeSums(cs)[Len(cs)]
    <3>1. Size(storage) \in Nat
      <4>1. Len(cs) \in Nat
        BY <1>1, ChunkSetFacts
      <4>2. SizeSums(cs) \in [0 .. Len(cs) -> Nat]
        BY <1>1, SizeSumsGrow
      <4>3. QED
        BY <1>7, <4>1, <4>2
    <3>2. QED
      BY <1>7, <3>1
  <2>3. LET st == RebuildIndexMetadata(cs)
            ts == SetItem(st, p, item)
        IN  \E level \in Levels : \E i \in 1 .. Len(QueuesOf(st)[level]) :
              QueuesOf(ts) = [QueuesOf(st) EXCEPT ![level] = Rewritten(@, i, item)]
    BY <1>1, <2>2, QueuesAfterSet
  <2>4. PICK level \in Levels : \E i \in 1 .. Len(Queues[level]) :
          Queues' = [Queues EXCEPT ![level] = Rewritten(@, i, item)]
    BY <1>1, <1>5, <1>6, <2>1, <2>3
  <2>5. PICK i \in 1 .. Len(Queues[level]) :
          Queues' = [Queues EXCEPT ![level] = Rewritten(@, i, item)]
    BY <2>4
  <2>6. Queues' = [Queues EXCEPT ![level][i] = item]
    BY <2>5 DEF Rewritten
  <2>7. QED
    BY <2>6 DEF LQ!Next, LQ!Rewrite
<1>11. CASE GetBinarySnapshot
  BY <1>5, <1>6, <1>11 DEF GetBinarySnapshot
<1>12. CASE GetPersistenceSnapshot
  BY <1>5, <1>6, <1>12 DEF GetPersistenceSnapshot
<1>13. CASE ApplySnapshot
  <2>1. storage' = RebuildIndexMetadata(Snapshot(cs))
    BY <1>3, <1>13 DEF ApplySnapshot, FromSnapshot
  <2>2. QueuesOf(RebuildIndexMetadata(Snapshot(cs)))
          = QueuesOf(RebuildIndexMetadata(cs))
    BY <1>1, <1>2, QueuesOfSnapshot
  <2>3. QED
    BY <1>1, <1>5, <1>6, <2>1, <2>2
<1>14. CASE UNCHANGED vars
  BY <1>5, <1>6, <1>14 DEF vars
<1>15. QED
  BY <1>8, <1>9, <1>10, <1>11, <1>12, <1>13, <1>14 DEF Next

\* What is read by flat index, for any number of levels and any capacity, is a
\* queue per level: an addition appends to its level's, a deletion drops the
\* first items of it, a write changes the item it names, and taking or applying
\* a snapshot, the spread over chunk sets and the binary search are not seen.
THEOREM StorageImplementsQueues == Spec => ImplementsLevelQueues
<1>1. Init => LQ!Init
  BY InitQueues
<1>2. IInv /\ [Next]_vars => [LQ!Next]_Queues
  BY NextQueues
<1>3. QED
  BY <1>1, <1>2, IInvOfSpec, PTL DEF Spec, ImplementsLevelQueues, LQ!Spec
=============================================================================
