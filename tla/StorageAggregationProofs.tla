----------------------- MODULE StorageAggregationProofs -----------------------
(***************************************************************************)
(* Proofs about StorageAggregation: freezing never throws, ticks of a      *)
(* market are processed one at a time, once and in their order, a storage  *)
(* is handed to persistence before it is removed, and a client of the      *)
(* current storage follows it.                                             *)
(***************************************************************************)
EXTENDS StorageAggregation, SequenceTheorems, TLAPS

-----------------------------------------------------------------------------
(* The inductive invariant.  Its parts speak of one market, of one client  *)
(* and of the pending requests, so that they can be carried through the    *)
(* parts a step is made of.                                                *)

StorageType ==
  [ticks : Seq(Nat), persistedMark : BOOLEAN, persisted : Seq(Nat)]

CallType == [storage : Nat, size : Nat, settled : BOOLEAN]

StatusType == [temperature : Int, isFrozen : BOOLEAN]

MarketType ==
  [ storages   : Seq(StorageType),
    current    : Nat,
    freezing   : StatusType \cup {Null},
    buffer     : Seq(Nat),
    processing : Seq(CallType),
    scheduled  : BOOLEAN,
    thrown     : BOOLEAN ]

Iced == [temperature |-> -1, isFrozen |-> TRUE]

\* The status says whether a tick is in process, and nothing else holds a
\* market cold between two steps.
FreezingOK(m) ==
  /\ m.processing = <<>> => m.freezing \in {Null, AtRest}
  /\ m.processing # <<>> => m.freezing = Iced
  /\ m.scheduled => m.freezing # Null

\* At most one tick is in process; while its entities are recalculated its
\* storage is the current one and is as large as it was.
ProcessingOK(m) ==
  /\ Len(m.processing) <= 1
  /\ (m.processing # <<>> /\ ~ m.processing[1].settled) =>
       /\ m.current # 0
       /\ m.processing[1].storage = m.current
       /\ m.processing[1].size = Len(Content(m))
       /\ Content(m) # <<>>

\* A storage with the mark, or without ticks, was persisted as it is, and so
\* was one that is not the current storage.
StoragesOK(m) ==
  \A i \in 1 .. Len(m.storages) :
    (i # m.current \/ m.storages[i].persistedMark \/ m.storages[i].ticks = <<>>) =>
      m.storages[i].persisted = m.storages[i].ticks

MarketOK(m) ==
  /\ m \in MarketType
  /\ m.current \in 0 .. Len(m.storages)
  /\ ~ m.thrown
  /\ FreezingOK(m)
  /\ ProcessingOK(m)
  /\ StoragesOK(m)

BufferOK(m) == m.buffer # <<>> => m.processing # <<>>

ClientOK(c, m) ==
  c # Null =>
    /\ c = [storage |-> c.storage, ticks |-> c.ticks]
    /\ c.storage \in 1 .. Len(m.storages)
    /\ c.storage = m.current => c.ticks = Sent(m)

PendingOK(requested, m) ==
  \A request \in requested : request.storage \in 1 .. Len(m.storages)

Good(m, c, requested) ==
  /\ MarketOK(m)
  /\ ClientOK(c, m)
  /\ PendingOK(requested, m)

IInv ==
  /\ Good(market, client, pending)
  /\ BufferOK(market)
  /\ now \in Nat

-----------------------------------------------------------------------------
(* Sequences.                                                              *)

\* What Append does, as its callers below need it.
LEMMA Appended ==
  ASSUME NEW S, NEW s \in Seq(S), NEW e \in S
  PROVE  /\ Append(s, e) \in Seq(S)
         /\ Append(s, e) # <<>>
         /\ Len(Append(s, e)) = Len(s) + 1
         /\ \A i \in 1 .. Len(s) : Append(s, e)[i] = s[i]
         /\ Append(s, e)[Len(s) + 1] = e
         /\ Front(Append(s, e)) = s
<1>1. /\ Append(s, e) \in Seq(S)
      /\ Len(Append(s, e)) = Len(s) + 1
      /\ \A i \in 1 .. Len(s) : Append(s, e)[i] = s[i]
      /\ Append(s, e)[Len(s) + 1] = e
  BY AppendProperties
<1>2. Append(s, e) # <<>>
  BY <1>1
<1>3. Front(Append(s, e)) = s
  <2>1. Len(Append(s, e)) - 1 = Len(s)
    BY <1>1
  <2>2. SubSeq(Append(s, e), 1, Len(s)) \in Seq(S)
    BY <1>1, <2>1
  <2>3. /\ Len(SubSeq(Append(s, e), 1, Len(s))) = Len(s)
        /\ \A i \in 1 .. Len(s) : SubSeq(Append(s, e), 1, Len(s))[i] = s[i]
    BY <1>1, <2>1
  <2> QED
    BY <2>1, <2>2, <2>3, SeqEqual DEF Front
<1> QED
  BY <1>1, <1>2, <1>3

\* A sequence of one element.
LEMMA SingletonDomain ==
  ASSUME NEW S, NEW s \in Seq(S), Len(s) = 1
  PROVE  s # <<>> /\ DOMAIN s = {1}
<1>1. DOMAIN s = 1 .. 1
  BY LenProperties
<1> QED
  BY <1>1

\* The positions of a sequence of at most one element.
LEMMA AtMostOne ==
  ASSUME NEW S, NEW s \in Seq(S), Len(s) <= 1, NEW i \in DOMAIN s
  PROVE  i = 1 /\ Len(s) = 1
<1>1. i \in 1 .. Len(s) /\ Len(s) \in Nat
  BY LenProperties
<1>2. \A n \in Nat : (n <= 1 /\ i \in 1 .. n) => i = 1 /\ n = 1
  OBVIOUS
<1> QED
  BY <1>1, <1>2

-----------------------------------------------------------------------------
(* Parts of steps.                                                         *)

\* A new storage is a storage.
LEMMA EmptyStorageType == StorageWith(<<>>) \in StorageType
  BY DEF StorageWith, StorageType

\* A market without a storage gets a new one, which no client was sent.
LEMMA CreatedGood ==
  ASSUME NEW m, NEW c, NEW requested, Good(m, c, requested)
  PROVE  /\ Good(GetOrCreateStorage(m), c, requested)
         /\ GetOrCreateStorage(m).current # 0
         /\ GetOrCreateStorage(m).processing = m.processing
         /\ GetOrCreateStorage(m).buffer = m.buffer
<1>1. CASE m.current # 0
  BY <1>1 DEF GetOrCreateStorage
<1>2. CASE m.current = 0
  <2> DEFINE g == GetOrCreateStorage(m)
             n == Len(m.storages)
  <2>1. m \in MarketType /\ m.storages \in Seq(StorageType) /\ n \in Nat
    BY DEF Good, MarketOK, MarketType
  <2>2. g = [m EXCEPT !.storages = Append(@, StorageWith(<<>>)), !.current = n + 1]
    BY <1>2 DEF GetOrCreateStorage
  <2> HIDE DEF g, n
  <2>3. /\ g \in MarketType
        /\ g.storages = Append(m.storages, StorageWith(<<>>))
        /\ g.current = n + 1
        /\ g.processing = m.processing
        /\ g.buffer = m.buffer
        /\ g.freezing = m.freezing
        /\ g.scheduled = m.scheduled
        /\ g.thrown = m.thrown
    <3>1. Append(m.storages, StorageWith(<<>>)) \in Seq(StorageType)
      BY <2>1, EmptyStorageType, Appended
    <3>2. n + 1 \in Nat
      BY <2>1
    <3> QED
      BY ONLY <2>1, <2>2, <3>1, <3>2 DEF MarketType
  <2>4. /\ Len(g.storages) = n + 1
        /\ \A i \in 1 .. n : g.storages[i] = m.storages[i]
        /\ g.storages[n + 1] = StorageWith(<<>>)
    BY <2>1, <2>3, EmptyStorageType, Appended DEF n
  <2>5. FreezingOK(g) /\ ProcessingOK(g)
    BY <1>2, <2>3 DEF Good, MarketOK, FreezingOK, ProcessingOK
  <2>6. StoragesOK(g)
    <3> SUFFICES ASSUME NEW i \in 1 .. Len(g.storages),
                        i # g.current \/ g.storages[i].persistedMark
                          \/ g.storages[i].ticks = <<>>
                 PROVE  g.storages[i].persisted = g.storages[i].ticks
      BY DEF StoragesOK
    <3>1. CASE i \in 1 .. n
      BY <3>1, <1>2, <2>1, <2>4 DEF Good, MarketOK, StoragesOK, n
    <3>2. CASE i = n + 1
      BY <3>2, <2>4 DEF StorageWith
    <3> QED
      BY <3>1, <3>2, <2>1, <2>4
  <2>7. MarketOK(g)
    BY <2>1, <2>3, <2>4, <2>5, <2>6 DEF Good, MarketOK
  <2>8. ClientOK(c, g) /\ PendingOK(requested, g)
    BY <2>1, <2>3, <2>4 DEF Good, ClientOK, PendingOK, n
  <2> QED
    BY <2>1, <2>3, <2>7, <2>8 DEF Good, g, n
<1> QED
  BY <1>1, <1>2

Taking(g, k, tick) ==
  [g EXCEPT !.storages[k].ticks = Append(@, tick),
            !.storages[k].persistedMark = FALSE]

TakingOK(g, k, tick, taken) ==
  /\ taken \in MarketType
  /\ Len(taken.storages) = Len(g.storages)
  /\ \A i \in 1 .. Len(g.storages) : i # k => taken.storages[i] = g.storages[i]
  /\ taken.storages[k].ticks = Append(g.storages[k].ticks, tick)
  /\ taken.storages[k].ticks \in Seq(Nat)
  /\ taken.storages[k].persistedMark = FALSE
  /\ taken.storages[k].persisted = g.storages[k].persisted
  /\ taken.current = g.current
  /\ taken.freezing = g.freezing
  /\ taken.buffer = g.buffer
  /\ taken.processing = g.processing
  /\ taken.scheduled = g.scheduled
  /\ taken.thrown = g.thrown

\* A storage takes a tick: nothing else in the market changes.
LEMMA TakenType ==
  ASSUME NEW g \in MarketType, NEW k \in 1 .. Len(g.storages), NEW tick \in Nat
  PROVE  TakingOK(g, k, tick, Taking(g, k, tick))
<1> DEFINE taken == Taking(g, k, tick)
           old == g.storages[k]
           new == [old EXCEPT !.ticks = Append(@, tick), !.persistedMark = FALSE]
<1>1. g.storages \in Seq(StorageType) /\ Len(g.storages) \in Nat
  BY DEF MarketType
<1>2. old \in StorageType
  BY <1>1
<1>3. Append(old.ticks, tick) \in Seq(Nat)
  BY <1>2, Appended DEF StorageType
<1>4. new \in StorageType
  BY <1>2, <1>3 DEF StorageType
<1>5. /\ new.ticks = Append(old.ticks, tick) /\ new.persistedMark = FALSE
      /\ new.persisted = old.persisted
  BY <1>2 DEF StorageType
<1>6. taken = [g EXCEPT !.storages = [g.storages EXCEPT ![k] = new]]
  BY <1>1, <1>2 DEF MarketType, StorageType, Taking
<1> HIDE DEF new, old, taken
<1>7. /\ [g.storages EXCEPT ![k] = new] \in Seq(StorageType)
      /\ Len([g.storages EXCEPT ![k] = new]) = Len(g.storages)
      /\ \A i \in 1 .. Len(g.storages) :
           [g.storages EXCEPT ![k] = new][i] = IF i = k THEN new ELSE g.storages[i]
  BY <1>1, <1>4, ExceptSeq
<1>8. /\ taken \in MarketType
      /\ taken.storages = [g.storages EXCEPT ![k] = new]
      /\ taken.current = g.current
      /\ taken.freezing = g.freezing
      /\ taken.buffer = g.buffer
      /\ taken.processing = g.processing
      /\ taken.scheduled = g.scheduled
      /\ taken.thrown = g.thrown
  BY <1>6, <1>7 DEF MarketType
<1> QED
  BY <1>3, <1>5, <1>7, <1>8 DEF old, taken, TakingOK

Calling(taken, call) ==
  [taken EXCEPT !.freezing = CoolAndIce(@), !.processing = Append(@, call)]

CallingOK(taken, call, begun) ==
  /\ begun \in MarketType
  /\ begun.storages = taken.storages
  /\ begun.current = taken.current
  /\ begun.buffer = taken.buffer
  /\ begun.scheduled = taken.scheduled
  /\ begun.thrown = taken.thrown
  /\ begun.freezing = Iced
  /\ begun.processing = <<call>>

\* A call of processTick is added where there was none.
LEMMA CallingType ==
  ASSUME NEW taken \in MarketType, taken.processing = <<>>,
         taken.freezing \in {Null, AtRest}, NEW call \in CallType
  PROVE  CallingOK(taken, call, Calling(taken, call))
<1>1. CoolAndIce(taken.freezing) = Iced
  <2>1. Seen(taken.freezing) = AtRest
    BY DEF Seen
  <2>2. AtRest.temperature - 1 = -1
    BY DEF AtRest
  <2> QED
    BY <2>1, <2>2 DEF CoolAndIce, Iced
<1>2. Append(taken.processing, call) = <<call>> /\ <<call>> \in Seq(CallType)
  OBVIOUS
<1>3. Iced \in StatusType
  BY DEF Iced, StatusType
<1> QED
  BY <1>1, <1>2, <1>3 DEF MarketType, Calling, CallingOK

\* The status of ice is not that of an unseen key.
LEMMA IcedNotNull == Iced # Null
<1>1. Iced \in [temperature : Int, isFrozen : BOOLEAN]
  BY DEF Iced
<1> QED
  BY <1>1, NullAssumption

\* A tick that begins while none is in process leaves everything in order.
LEMMA BeginGood ==
  ASSUME NEW m, NEW c, NEW requested, Good(m, c, requested),
         m.processing = <<>>, NEW tick \in Nat
  PROVE  /\ Good(BeginTick(m, tick), c, requested)
         /\ BufferOK(BeginTick(m, tick))
<1> DEFINE g == GetOrCreateStorage(m)
           k == g.current
           duplicate == Content(g) # <<>> /\ Last(Content(g)) = tick
           taken == IF duplicate THEN g
                    ELSE Taking(g, k, tick)
           call == [ storage |-> taken.current,
                     size    |-> Len(Content(taken)),
                     settled |-> duplicate ]
           begun == BeginTick(m, tick)
<1>1. Good(g, c, requested) /\ k # 0 /\ g.processing = <<>>
  BY CreatedGood
<1>2. begun = Calling(taken, call)
  BY DEF BeginTick, Taking, Calling
<1>0. k = g.current
  OBVIOUS
<1> HIDE DEF g, begun, duplicate, k
<1>3. /\ g \in MarketType
      /\ k \in 1 .. Len(g.storages)
      /\ k \in Nat
      /\ g.freezing \in {Null, AtRest}
      /\ g.storages \in Seq(StorageType)
      /\ Len(g.storages) \in Nat
      /\ ~ g.thrown
  BY <1>0, <1>1 DEF Good, MarketOK, FreezingOK, MarketType
<1>4. Content(g) \in Seq(Nat) /\ Len(Content(g)) \in Nat
  <2>1. g.storages[k] \in StorageType
    BY <1>3
  <2>2. Content(g) = g.storages[k].ticks
    BY <1>0 DEF Content
  <2> QED
    BY <2>1, <2>2 DEF StorageType
<1>5. duplicate \in BOOLEAN
  BY DEF duplicate
<1>6. CASE duplicate
  <2>1. taken = g
    BY <1>6
  <2>2. call = [storage |-> k, size |-> Len(Content(g)), settled |-> TRUE]
    BY <1>0, <1>5, <1>6
  <2> HIDE DEF taken, call
  <2>3. call \in CallType
    BY <2>2, <1>3, <1>4 DEF CallType
  <2>4. /\ begun \in MarketType
        /\ begun.storages = g.storages
        /\ begun.current = k
        /\ begun.scheduled = g.scheduled
        /\ begun.thrown = g.thrown
        /\ begun.freezing = Iced
        /\ begun.processing = <<call>>
    <3>1. CallingOK(taken, call, begun)
      BY <1>1, <1>2, <1>3, <2>1, <2>3, CallingType
    <3> QED
      BY <1>0, <2>1, <3>1 DEF CallingOK
  <2>5. call.settled = TRUE
    BY <2>2
  <2>6. begun.processing[1] = call /\ Len(begun.processing) = 1
        /\ begun.processing # <<>> /\ DOMAIN begun.processing = {1}
    BY <2>4
  <2>7. Iced # Null
    BY IcedNotNull
  <2>8. FreezingOK(begun) /\ ProcessingOK(begun) /\ BufferOK(begun)
    BY <2>4, <2>5, <2>6, <2>7 DEF FreezingOK, ProcessingOK, BufferOK
  <2>9. StoragesOK(begun)
    BY <1>0, <1>1, <2>4 DEF Good, MarketOK, StoragesOK
  <2>10. MarketOK(begun)
    BY <1>0, <1>3, <2>4, <2>8, <2>9 DEF MarketOK
  <2>11. Sent(begun) = Sent(g)
    BY <1>0, <1>1, <2>4, <2>5, <2>6 DEF Sent, InProcess, Content
  <2>12. ClientOK(c, begun) /\ PendingOK(requested, begun)
    BY <1>0, <1>1, <2>4, <2>11 DEF Good, ClientOK, PendingOK
  <2> QED
    BY <2>8, <2>10, <2>12 DEF Good, begun
<1>7. CASE ~ duplicate
  <2>1. taken = Taking(g, k, tick)
    BY <1>7
  <2> HIDE DEF taken
  <2>2. /\ taken \in MarketType
        /\ Len(taken.storages) = Len(g.storages)
        /\ \A i \in 1 .. Len(g.storages) :
             i # k => taken.storages[i] = g.storages[i]
        /\ taken.storages[k].ticks = Append(g.storages[k].ticks, tick)
        /\ taken.storages[k].ticks \in Seq(Nat)
        /\ taken.storages[k].persistedMark = FALSE
        /\ taken.current = k
        /\ taken.freezing = g.freezing
        /\ taken.processing = <<>>
        /\ taken.scheduled = g.scheduled
        /\ taken.thrown = g.thrown
    <3>1. TakingOK(g, k, tick, taken)
      BY <1>3, <2>1, TakenType
    <3> QED
      BY <1>0, <1>1, <3>1 DEF TakingOK
  <2>3. /\ Content(taken) = Append(Content(g), tick)
        /\ Content(taken) \in Seq(Nat)
        /\ Content(taken) # <<>>
        /\ Len(Content(taken)) \in Nat
        /\ Front(Content(taken)) = Content(g)
    <3>1. Content(taken) = Append(Content(g), tick)
      BY <1>0, <2>2 DEF Content
    <3> QED
      BY <1>4, <3>1, Appended
  <2>4. call = [storage |-> k, size |-> Len(Content(taken)), settled |-> FALSE]
    BY <1>5, <1>7, <2>2
  <2> HIDE DEF call
  <2>5. call \in CallType
    BY <2>3, <2>4, <1>3 DEF CallType
  <2>6. /\ begun \in MarketType
        /\ begun.storages = taken.storages
        /\ begun.current = k
        /\ begun.scheduled = g.scheduled
        /\ begun.thrown = g.thrown
        /\ begun.freezing = Iced
        /\ begun.processing = <<call>>
    <3>1. CallingOK(taken, call, begun)
      BY <1>2, <1>3, <2>2, <2>5, CallingType
    <3> QED
      BY <2>2, <3>1 DEF CallingOK
  <2>7. call.settled = FALSE /\ call.storage = k /\ call.size = Len(Content(taken))
    BY <2>4
  <2>8. begun.processing[1] = call /\ Len(begun.processing) = 1
        /\ begun.processing # <<>> /\ DOMAIN begun.processing = {1}
    BY <2>6
  <2>9. Content(begun) = Content(taken)
    BY <1>0, <2>2, <2>6 DEF Content
  <2>10. Iced # Null
    BY IcedNotNull
  <2>11. FreezingOK(begun) /\ ProcessingOK(begun) /\ BufferOK(begun)
    BY <1>0, <1>1, <2>3, <2>6, <2>7, <2>8, <2>9, <2>10
       DEF FreezingOK, ProcessingOK, BufferOK
  <2>12. StoragesOK(begun)
    <3> SUFFICES ASSUME NEW i \in 1 .. Len(begun.storages),
                        i # k \/ begun.storages[i].persistedMark
                          \/ begun.storages[i].ticks = <<>>
                 PROVE  begun.storages[i].persisted = begun.storages[i].ticks
      BY <2>6 DEF StoragesOK
    <3>1. i # k
      BY <2>2, <2>3, <2>6 DEF Content
    <3> QED
      <4>1. StoragesOK(g) /\ g.current = k
        BY <1>0, <1>1 DEF Good, MarketOK
      <4>2. /\ i \in 1 .. Len(g.storages)
            /\ begun.storages[i] = g.storages[i]
        BY <3>1, <2>2, <2>6
      <4> QED
        BY <4>1, <4>2, <3>1 DEF StoragesOK
  <2>13. MarketOK(begun)
    BY <1>3, <2>2, <2>6, <2>11, <2>12 DEF MarketOK
  <2>14. Sent(begun) = Sent(g)
    <3>1. InProcess(begun)
      BY <2>6, <2>7, <2>8 DEF InProcess
    <3>2. ~ InProcess(g)
      BY <1>1 DEF InProcess
    <3> QED
      BY <3>1, <3>2, <2>3, <2>9 DEF Sent
  <2>15. ClientOK(c, begun) /\ PendingOK(requested, begun)
    BY <1>0, <1>1, <2>2, <2>6, <2>14 DEF Good, ClientOK, PendingOK
  <2> QED
    BY <2>11, <2>13, <2>15 DEF Good, begun
<1> QED
  BY <1>6, <1>7

\* Good is about the storages and about who is at work on them.
LEMMA SameStorages ==
  ASSUME NEW m, NEW c, NEW requested, Good(m, c, requested),
         NEW n \in MarketType, n.storages = m.storages, n.current = m.current,
         ~ n.thrown, FreezingOK(n), ProcessingOK(n), InProcess(n) = InProcess(m)
  PROVE  Good(n, c, requested)
<1>1. StoragesOK(n)
  BY DEF Good, MarketOK, StoragesOK
<1>2. MarketOK(n)
  BY <1>1 DEF Good, MarketOK
<1>3. Sent(n) = Sent(m)
  BY DEF Sent, Content
<1>4. ClientOK(c, n) /\ PendingOK(requested, n)
  BY <1>3 DEF Good, ClientOK, PendingOK
<1> QED
  BY <1>2, <1>4 DEF Good

\* A storage that is unseen or at rest is not cold.
LEMMA RestIsWarm ==
  ASSUME NEW status \in {Null, AtRest}
  PROVE  ~ IsCold(status)
  BY DEF IsCold, AtRest

\* With no tick in process the callback of Freezing leaves everything in order:
\* it fetches the next tick if there is one.
LEMMA FlushGood ==
  ASSUME NEW m, NEW c, NEW requested, Good(m, c, requested), m.processing = <<>>
  PROVE  /\ Good(FlushTickBuffer(m), c, requested)
         /\ BufferOK(FlushTickBuffer(m))
<1>1. m \in MarketType /\ m.freezing \in {Null, AtRest} /\ ~ m.thrown
  BY DEF Good, MarketOK, FreezingOK
<1>2. ~ IsCold(m.freezing)
  BY <1>1, RestIsWarm
<1>3. CASE m.buffer = <<>>
  BY <1>3 DEF FlushTickBuffer, BufferOK
<1>4. CASE m.buffer # <<>>
  <2> DEFINE n == [m EXCEPT !.buffer = Tail(@)]
  <2>1. m.buffer \in Seq(Nat)
    BY <1>1 DEF MarketType
  <2>2. Tail(m.buffer) \in Seq(Nat) /\ Head(m.buffer) \in Nat
    BY <1>4, <2>1, HeadTailProperties
  <2>3. /\ n \in MarketType
        /\ n.storages = m.storages
        /\ n.current = m.current
        /\ n.freezing = m.freezing
        /\ n.processing = m.processing
        /\ n.scheduled = m.scheduled
        /\ n.thrown = m.thrown
    BY <1>1, <2>2 DEF MarketType
  <2>4. FlushTickBuffer(m) = BeginTick(n, Head(m.buffer))
    BY <1>2, <1>4 DEF FlushTickBuffer
  <2> HIDE DEF n
  <2>5. FreezingOK(n) /\ ProcessingOK(n)
    BY <1>1, <2>3 DEF Good, MarketOK, FreezingOK, ProcessingOK
  <2>6. InProcess(n) = InProcess(m)
    BY <2>3 DEF InProcess
  <2>7. Good(n, c, requested)
    BY <1>1, <2>3, <2>5, <2>6, SameStorages
  <2> QED
    BY <2>2, <2>3, <2>4, <2>7, BeginGood
<1> QED
  BY <1>3, <1>4

-----------------------------------------------------------------------------
(* Cooling a market and warming it again.                                  *)

\* What a reader leaves behind.
Visited(m) == [m EXCEPT !.freezing = Seen(@)]

\* A reader finds the market at rest, or a tick in process, and leaves it so:
\* warming throws nothing and fetches no tick.
LEMMA Visiting ==
  ASSUME NEW m \in MarketType, FreezingOK(m), BufferOK(m)
  PROVE  Warmed(Cooled(m)) = Visited(m)
<1> DEFINE cooled == Cooled(m)
           warm   == [cooled EXCEPT !.freezing = Warm(@)]
           status == Cool(m.freezing)
<1>1. CASE m.processing = <<>>
  <2>1. m.freezing \in {Null, AtRest} /\ m.buffer = <<>>
    BY <1>1 DEF FreezingOK, BufferOK
  <2>2. Seen(m.freezing) = AtRest
    BY <2>1 DEF Seen
  <2>3. status = [temperature |-> -1, isFrozen |-> FALSE]
    <3>1. AtRest.temperature - 1 = -1 /\ AtRest.isFrozen = FALSE
      BY DEF AtRest
    <3> QED
      BY <2>2, <3>1 DEF Cool
  <2>4. status # Null
    <3>1. status \in [temperature : Int, isFrozen : BOOLEAN]
      BY <2>3
    <3> QED
      BY <3>1, NullAssumption
  <2>5. cooled = [m EXCEPT !.freezing = status]
    BY DEF Cooled
  <2> HIDE DEF status
  <2>6. cooled.freezing = status /\ cooled.buffer = <<>>
    BY <2>1, <2>5 DEF MarketType
  <2>7. Warm(status) = AtRest
    <3>1. status.temperature + 1 = 0 /\ status.isFrozen = FALSE
      BY <2>3
    <3> QED
      BY <3>1 DEF Warm, AtRest
  <2>8. ~ CannotWarm(status) /\ ~ WarmsThroughIce(status)
    <3>1. status.temperature = -1 /\ status.isFrozen = FALSE
      BY <2>3
    <3> QED
      BY <2>4, <3>1 DEF CannotWarm, WarmsThroughIce
  <2>9. warm = Visited(m)
    BY <2>2, <2>5, <2>7 DEF Visited, MarketType
  <2>10. warm.buffer = <<>>
    BY <2>1, <2>9 DEF Visited, MarketType
  <2>11. Warmed(cooled) = FlushTickBuffer(warm)
    BY <2>6, <2>8 DEF Warmed
  <2>12. FlushTickBuffer(warm) = warm
    BY <2>10 DEF FlushTickBuffer
  <2> QED
    BY <2>9, <2>11, <2>12
<1>2. CASE m.processing # <<>>
  <2>1. m.freezing = Iced
    BY <1>2 DEF FreezingOK
  <2>2. Seen(m.freezing) = Iced
    BY <2>1, IcedNotNull DEF Seen
  <2>3. status = [temperature |-> -2, isFrozen |-> TRUE]
    <3>1. Iced.temperature - 1 = -2 /\ Iced.isFrozen = TRUE
      BY DEF Iced
    <3> QED
      BY <2>2, <3>1 DEF Cool
  <2>4. status # Null
    <3>1. status \in [temperature : Int, isFrozen : BOOLEAN]
      BY <2>3
    <3> QED
      BY <3>1, NullAssumption
  <2>5. cooled = [m EXCEPT !.freezing = status]
    BY DEF Cooled
  <2> HIDE DEF status
  <2>6. cooled.freezing = status
    BY <2>5 DEF MarketType
  <2>7. Warm(status) = Iced
    <3>1. status.temperature + 1 = -1 /\ status.isFrozen = TRUE
      BY <2>3
    <3> QED
      BY <3>1 DEF Warm, Iced
  <2>8. IsCold(Iced)
    <3>1. Iced.temperature < 0
      BY DEF Iced
    <3> QED
      BY <3>1, IcedNotNull DEF IsCold
  <2>9. ~ CannotWarm(status) /\ ~ WarmsThroughIce(status)
    <3>1. status.temperature = -2
      BY <2>3
    <3> QED
      BY <2>4, <2>7, <2>8, <3>1 DEF CannotWarm, WarmsThroughIce
  <2>10. warm = Visited(m) /\ warm.freezing = Iced
    BY <2>2, <2>5, <2>7 DEF Visited, MarketType
  <2>11. Warmed(cooled) = FlushTickBuffer(warm)
    BY <2>6, <2>9 DEF Warmed
  <2>12. FlushTickBuffer(warm) = warm
    BY <2>8, <2>10 DEF FlushTickBuffer
  <2> QED
    BY <2>10, <2>11, <2>12
<1> QED
  BY <1>1, <1>2

\* A reader cools the storage and warms it again.
LEMMA VisitedGood ==
  ASSUME NEW m, NEW c, NEW requested, Good(m, c, requested), BufferOK(m)
  PROVE  /\ Good(Visited(m), c, requested)
         /\ BufferOK(Visited(m))
         /\ Visited(m).freezing # Null
         /\ Visited(m).processing = m.processing
<1> DEFINE n == Visited(m)
<1>1. m \in MarketType
  BY DEF Good, MarketOK
<1>2. /\ AtRest \in StatusType
      /\ AtRest # Null
  <2>1. AtRest \in [temperature : Int, isFrozen : BOOLEAN]
    BY DEF AtRest
  <2> QED
    BY <2>1, NullAssumption DEF StatusType
<1>3. Seen(m.freezing) \in StatusType /\ Seen(m.freezing) # Null
  BY <1>1, <1>2 DEF Seen, MarketType
<1>4. /\ n \in MarketType
      /\ n.storages = m.storages
      /\ n.current = m.current
      /\ n.freezing = Seen(m.freezing)
      /\ n.buffer = m.buffer
      /\ n.processing = m.processing
      /\ n.scheduled = m.scheduled
      /\ n.thrown = m.thrown
  BY <1>1, <1>3 DEF Visited, MarketType
<1> HIDE DEF n
<1>5. FreezingOK(n)
  <2>1. m.freezing \in {Null, AtRest} => Seen(m.freezing) = AtRest
    BY DEF Seen
  <2>2. m.freezing = Iced => Seen(m.freezing) = Iced
    BY IcedNotNull DEF Seen
  <2> QED
    BY <1>3, <1>4, <2>1, <2>2 DEF Good, MarketOK, FreezingOK
<1>6. ProcessingOK(n) /\ ~ n.thrown
  BY <1>4 DEF Good, MarketOK, ProcessingOK, Content
<1>7. InProcess(n) = InProcess(m)
  BY <1>4 DEF InProcess
<1>8. Good(n, c, requested)
  BY <1>4, <1>5, <1>6, <1>7, SameStorages
<1> QED
  BY <1>3, <1>4, <1>8 DEF n, BufferOK

-----------------------------------------------------------------------------
(* The initial states and the steps.                                       *)

\* What a market is like before its first tick.
LEMMA InitialMarket ==
  ASSUME NEW storages \in Seq(StorageType), NEW status \in {Null, AtRest},
         NEW scheduled \in BOOLEAN, scheduled => status = AtRest,
         StoragesOK(Market(storages, status, scheduled))
  PROVE  /\ MarketOK(Market(storages, status, scheduled))
         /\ BufferOK(Market(storages, status, scheduled))
<1> DEFINE m == Market(storages, status, scheduled)
<1>1. AtRest \in StatusType /\ AtRest # Null
  <2>1. AtRest \in [temperature : Int, isFrozen : BOOLEAN]
    BY DEF AtRest
  <2> QED
    BY <2>1, NullAssumption DEF StatusType
<1>2. /\ m.storages = storages
      /\ m.current = Len(storages)
      /\ m.freezing = status
      /\ m.buffer = <<>>
      /\ m.processing = <<>>
      /\ m.scheduled = scheduled
      /\ m.thrown = FALSE
  BY DEF Market
<1>3. Len(storages) \in Nat
  OBVIOUS
<1>4. m \in MarketType
  BY <1>1, <1>3 DEF Market, MarketType
<1> HIDE DEF m
<1>5. FreezingOK(m) /\ ProcessingOK(m) /\ BufferOK(m)
  BY <1>1, <1>2 DEF FreezingOK, ProcessingOK, BufferOK
<1>6. StoragesOK(m)
  BY DEF m
<1>7. MarketOK(m)
  BY <1>2, <1>3, <1>4, <1>5, <1>6 DEF MarketOK
<1> QED
  BY <1>5, <1>7 DEF m

\* The invariant holds at the start.
LEMMA InitIInv == Init => IInv
<1> SUFFICES ASSUME Init
             PROVE  IInv
  OBVIOUS
<1>1. StorageWith(<<1>>) \in StorageType /\ StorageWith(<<1>>).ticks = <<1>>
      /\ StorageWith(<<1>>).persistedMark = FALSE
  BY DEF StorageWith, StorageType
<1>2. StorageWith(<<>>) \in StorageType /\ StorageWith(<<>>).ticks = <<>>
      /\ StorageWith(<<>>).persisted = <<>>
  BY DEF StorageWith, StorageType
<1>3. MarketOK(market) /\ BufferOK(market)
  <2>1. CASE market = Market(<<StorageWith(<<1>>)>>, AtRest, TRUE)
    <3>1. /\ market.storages = <<StorageWith(<<1>>)>>
          /\ market.current = 1
      BY <2>1 DEF Market
    <3>2. StoragesOK(market)
      BY <1>1, <3>1 DEF StoragesOK
    <3>3. <<StorageWith(<<1>>)>> \in Seq(StorageType)
      BY <1>1
    <3> QED
      BY <1>1, <2>1, <3>2, <3>3, InitialMarket
  <2>2. CASE market = Market(<<StorageWith(<<>>)>>, Null, FALSE)
    <3>1. market.storages = <<StorageWith(<<>>)>>
      BY <2>2 DEF Market
    <3>2. StoragesOK(market)
      BY <1>2, <3>1 DEF StoragesOK
    <3>3. <<StorageWith(<<>>)>> \in Seq(StorageType)
      BY <1>2
    <3> QED
      BY <1>2, <2>2, <3>2, <3>3, InitialMarket
  <2>3. CASE market = Market(<<>>, Null, FALSE)
    <3>1. market.storages = <<>>
      BY <2>3 DEF Market
    <3>2. StoragesOK(market)
      BY <3>1 DEF StoragesOK
    <3>3. <<>> \in Seq(StorageType)
      OBVIOUS
    <3> QED
      BY <2>3, <3>2, <3>3, InitialMarket
  <2> QED
    BY <2>1, <2>2, <2>3 DEF Init
<1> QED
  BY <1>3 DEF Init, IInv, Good, ClientOK, PendingOK

\* A market is cold, and icy, exactly while a tick is in process.
LEMMA ColdInProcess ==
  ASSUME NEW m, FreezingOK(m)
  PROVE  /\ IsCold(m.freezing) <=> m.processing # <<>>
         /\ IsIcy(m.freezing) <=> m.processing # <<>>
<1>1. IsCold(Iced) /\ IsIcy(Iced)
  <2>1. Iced.temperature < 0 /\ Iced.isFrozen
    BY DEF Iced
  <2> QED
    BY <2>1, IcedNotNull DEF IsCold, IsIcy
<1>2. ~ IsIcy(AtRest) /\ ~ IsIcy(Null)
  BY DEF IsIcy, AtRest
<1> QED
  BY <1>1, <1>2, RestIsWarm DEF FreezingOK

\* The parts the steps are shown to keep make up the invariant.
LEMMA IInvAfter ==
  ASSUME Good(market', client', pending'), BufferOK(market'), now' \in Nat
  PROVE  IInv'
  BY DEF IInv, Good, MarketOK, ClientOK, PendingOK, BufferOK, Sent, InProcess,
         Content, FreezingOK, ProcessingOK, StoragesOK

\* A tick that arrives, in time or late.
LEMMA ReceiveTickIInv ==
  ASSUME IInv, NEW gap \in {0, 1}, ReceiveTick(gap)
  PROVE  IInv'
<1>1. now' \in Nat /\ UNCHANGED <<client, pending>>
  BY DEF IInv, ReceiveTick
<1>2. Good(market, client, pending) /\ BufferOK(market)
      /\ market \in MarketType /\ FreezingOK(market)
  BY DEF IInv, Good, MarketOK
<1>3. Good(market', client, pending) /\ BufferOK(market')
  <2>1. CASE IsCold(market.freezing) \/ market.buffer # <<>>
    <3>1. market.processing # <<>>
      BY <1>2, <2>1, ColdInProcess DEF BufferOK
    <3>2. market' = [market EXCEPT !.buffer = Append(@, now')]
      BY <2>1 DEF ReceiveTick
    <3>3. Append(market.buffer, now') \in Seq(Nat)
      BY <1>1, <1>2 DEF MarketType
    <3>4. /\ market' \in MarketType
          /\ market'.storages = market.storages
          /\ market'.current = market.current
          /\ market'.freezing = market.freezing
          /\ market'.processing = market.processing
          /\ market'.scheduled = market.scheduled
          /\ market'.thrown = market.thrown
      BY <1>2, <3>2, <3>3 DEF MarketType
    <3> DEFINE n == market'
    <3> HIDE DEF n
    <3>5. FreezingOK(n) /\ ProcessingOK(n) /\ ~ n.thrown
      BY <1>2, <3>4 DEF Good, MarketOK, FreezingOK, ProcessingOK, Content, n
    <3>6. InProcess(n) = InProcess(market)
      BY <3>4 DEF InProcess, n
    <3>7. Good(n, client, pending)
      BY <1>2, <3>4, <3>5, <3>6, SameStorages DEF n
    <3> QED
      BY <3>1, <3>4, <3>7 DEF BufferOK, n
  <2>2. CASE ~ (IsCold(market.freezing) \/ market.buffer # <<>>)
    <3>1. market.processing = <<>>
      BY <1>2, <2>2, ColdInProcess
    <3>2. market' = BeginTick(market, now')
      BY <2>2 DEF ReceiveTick
    <3> QED
      BY <1>1, <1>2, <3>1, <3>2, BeginGood
  <2> QED
    BY <2>1, <2>2
<1> QED
  BY <1>1, <1>3, IInvAfter

\* The tick in process ends: it finds its storage as it left it, and who has
\* been sent that storage takes the delta.
LEMMA FinishTickIInv ==
  ASSUME IInv, NEW i \in DOMAIN market.processing, FinishTick(i)
  PROVE  IInv'
<1> DEFINE m == market
           n == market'
           call == m.processing[1]
           ticks == Content(m)
<1>1. /\ Good(m, client, pending)
      /\ m \in MarketType
      /\ MarketOK(m)
      /\ m.processing \in Seq(CallType)
  BY DEF IInv, Good, MarketOK, MarketType
<1>2. i = 1 /\ Len(m.processing) = 1 /\ m.processing # <<>>
  <2>1. Len(m.processing) <= 1
    BY <1>1 DEF MarketOK, ProcessingOK
  <2>2. i = 1 /\ Len(m.processing) = 1
    BY <1>1, <2>1, AtMostOne
  <2> QED
    BY <1>1, <2>2, SingletonDomain
<1>3. /\ ~ call.settled
      /\ m.current # 0
      /\ call.storage = m.current
      /\ call.size = Len(ticks)
      /\ ticks # <<>>
      /\ call \in CallType
  BY <1>1, <1>2 DEF MarketOK, ProcessingOK, FinishTick
<1>4. m.storages[call.storage].ticks = ticks
  BY <1>3 DEF Content
<1>5. /\ n = [m EXCEPT !.processing[1].settled = TRUE, !.scheduled = TRUE]
      /\ SendDelta(ticks, Len(ticks))
      /\ UNCHANGED <<pending, now>>
  BY <1>2, <1>3, <1>4 DEF FinishTick, environment
<1> DEFINE processed == [m.processing EXCEPT ![1] = [call EXCEPT !.settled = TRUE]]
<1>6. /\ processed \in Seq(CallType)
      /\ Len(processed) = 1
      /\ processed # <<>>
      /\ DOMAIN processed = {1}
      /\ processed[1].settled = TRUE
  <2>1. [call EXCEPT !.settled = TRUE] \in CallType
        /\ [call EXCEPT !.settled = TRUE].settled = TRUE
    BY <1>3 DEF CallType
  <2> HIDE DEF call
  <2>2. /\ processed \in Seq(CallType)
        /\ Len(processed) = 1
        /\ processed[1] = [call EXCEPT !.settled = TRUE]
    BY <1>1, <1>2, <2>1, ExceptSeq
  <2> HIDE DEF processed
  <2>3. processed # <<>> /\ DOMAIN processed = {1}
    BY <2>2, SingletonDomain
  <2> QED
    BY <2>1, <2>2, <2>3
<1>7. n = [m EXCEPT !.processing = processed, !.scheduled = TRUE]
  BY <1>1, <1>2, <1>3, <1>5 DEF MarketType, CallType
<1> HIDE DEF processed, call, n, m
<1>8. /\ n \in MarketType
      /\ n.storages = m.storages
      /\ n.current = m.current
      /\ n.freezing = m.freezing
      /\ n.buffer = m.buffer
      /\ n.processing = processed
      /\ n.scheduled = TRUE
      /\ n.thrown = m.thrown
  BY <1>1, <1>6, <1>7 DEF MarketType
<1>9. FreezingOK(n)
  BY <1>1, <1>2, <1>6, <1>8, IcedNotNull DEF MarketOK, FreezingOK
<1>10. ProcessingOK(n) /\ BufferOK(n)
  <2>1. /\ Len(n.processing) <= 1
        /\ n.processing # <<>>
        /\ n.processing[1].settled
    <3>1. Len(processed) <= 1
      BY <1>6
    <3> QED
      BY ONLY <1>6, <1>8, <3>1, Zenon
  <2> QED
    BY <2>1 DEF ProcessingOK, BufferOK
<1>11. MarketOK(n)
  BY <1>1, <1>8, <1>9, <1>10 DEF MarketOK, StoragesOK
<1>12. PendingOK(pending', n)
  BY <1>1, <1>5, <1>8 DEF Good, PendingOK
<1>13. ticks \in Seq(Nat)
  <2>1. m.current \in 1 .. Len(m.storages) /\ m.storages \in Seq(StorageType)
    BY <1>1, <1>3 DEF MarketOK, MarketType
  <2>2. m.storages[m.current] \in StorageType
    BY <2>1
  <2> QED
    BY <2>2 DEF Content, StorageType
<1>14. Sent(m) = Front(ticks)
  <2>1. InProcess(m)
    BY <1>2, <1>3 DEF InProcess, call
  <2> QED
    BY <2>1 DEF Sent
<1>15. Sent(n) = ticks
  <2>1. ~ InProcess(n)
    BY <1>6, <1>8 DEF InProcess
  <2> QED
    BY <2>1, <1>8 DEF Sent, Content
<1>16. SubSeq(ticks, 1, Len(ticks)) = ticks
  BY <1>13, SubSeqFull
<1>17. SubSeq(ticks, 1, Len(ticks) - 1) = Front(ticks)
  BY DEF Front
<1> HIDE DEF ticks
<1>18. ClientOK(client', n)
  <2>1. CASE client = Null
    BY <1>5, <2>1 DEF SendDelta, ClientOK
  <2>2. CASE client # Null /\ client.ticks = Front(ticks)
    <3>1. client' = [client EXCEPT !.ticks = ticks]
      BY <1>5, <1>16, <1>17, <2>2 DEF SendDelta
    <3>2. client = [storage |-> client.storage, ticks |-> client.ticks]
          /\ client.storage \in 1 .. Len(m.storages)
      BY <1>1, <2>2 DEF Good, ClientOK
    <3>3. client' = [storage |-> client.storage, ticks |-> ticks]
      BY <3>1, <3>2
    <3> QED
      BY <1>8, <1>15, <3>2, <3>3 DEF ClientOK
  <2>3. CASE client # Null /\ client.ticks # Front(ticks)
    <3>1. client' = client
      BY <1>5, <1>17, <2>3 DEF SendDelta
    <3>2. client.storage # m.current
      BY <1>1, <1>14, <2>3 DEF Good, ClientOK
    <3> QED
      BY <1>1, <1>8, <3>1, <3>2 DEF Good, ClientOK
  <2> QED
    BY <2>1, <2>2, <2>3
<1>19. now' \in Nat
  BY <1>5 DEF IInv
<1> QED
  BY <1>10, <1>11, <1>12, <1>18, <1>19, IInvAfter DEF Good, n

\* A market at rest, with no tick in process.
AtEase(m) == [m EXCEPT !.processing = <<>>, !.freezing = AtRest]

\* The call of processTick is over: the market is at rest before the next
\* buffered tick begins.
LEMMA SettleIs ==
  ASSUME IInv, NEW i \in DOMAIN market.processing, Settle(i)
  PROVE  LET melted == AtEase(market)
         IN  /\ market' = FlushTickBuffer(melted)
             /\ Len(market.processing) = 1 /\ market.processing[1].settled
             /\ melted \in MarketType
             /\ melted.storages = market.storages
             /\ melted.current = market.current
             /\ melted.buffer = market.buffer
             /\ melted.freezing = AtRest
             /\ melted.processing = <<>>
             /\ melted.thrown = market.thrown
             /\ FreezingOK(melted)
<1> DEFINE m == market
           left == [m EXCEPT !.processing = RemoveAt(@, i)]
           melted == [left EXCEPT !.freezing = WarmAndMeltIce(@)]
<1>1. /\ Good(m, client, pending)
      /\ m \in MarketType
      /\ MarketOK(m)
      /\ m.processing \in Seq(CallType)
  BY DEF IInv, Good, MarketOK, MarketType
<1>2. i = 1 /\ Len(m.processing) = 1 /\ m.processing # <<>>
  <2>1. Len(m.processing) <= 1
    BY <1>1 DEF MarketOK, ProcessingOK
  <2>2. i = 1 /\ Len(m.processing) = 1
    BY <1>1, <2>1, AtMostOne
  <2> QED
    BY <1>1, <2>2, SingletonDomain
<1>3. m.processing[1].settled
  BY <1>2 DEF Settle
<1>4. m.freezing = Iced
  BY <1>1, <1>2 DEF MarketOK, FreezingOK
<1>5. RemoveAt(m.processing, i) = <<>>
  <2>1. SubSeq(m.processing, 1, 0) = <<>>
    BY SubSeqEmpty
  <2>2. SubSeq(m.processing, 2, 1) = <<>>
    BY SubSeqEmpty
  <2>3. 1 - 1 = 0 /\ 1 + 1 = 2
    OBVIOUS
  <2> QED
    BY <1>2, <2>1, <2>2, <2>3 DEF RemoveAt
<1>6. left = [m EXCEPT !.processing = <<>>] /\ left.freezing = Iced
  BY <1>1, <1>4, <1>5 DEF MarketType
<1>7. WarmAndMeltIce(Iced) = AtRest
  <2>1. Iced.temperature + 1 = 0
    BY DEF Iced
  <2> QED
    BY <2>1 DEF WarmAndMeltIce, AtRest
<1>8. ~ CannotWarm(left.freezing)
  <2>1. ~ (Iced.temperature >= 0)
    BY DEF Iced
  <2> QED
    BY <1>6, <2>1, IcedNotNull DEF CannotWarm
<1>9. market' = FlushTickBuffer(melted)
  BY <1>8 DEF Settle, Melted
<1> HIDE DEF left
<1>10. AtRest \in StatusType /\ AtRest # Null
  <2>1. AtRest \in [temperature : Int, isFrozen : BOOLEAN]
    BY DEF AtRest
  <2> QED
    BY <2>1, NullAssumption DEF StatusType
<1>11. melted = AtEase(m)
  BY <1>1, <1>6, <1>7 DEF MarketType, AtEase
<1> HIDE DEF melted, m
<1>12. /\ melted \in MarketType
       /\ melted.storages = m.storages
       /\ melted.current = m.current
       /\ melted.buffer = m.buffer
       /\ melted.freezing = AtRest
       /\ melted.processing = <<>>
       /\ melted.thrown = m.thrown
  <2>1. <<>> \in Seq(CallType)
    OBVIOUS
  <2> QED
    BY <1>1, <1>10, <1>11, <2>1 DEF MarketType, AtEase
<1>13. FreezingOK(melted)
  BY <1>1, <1>10, <1>12 DEF MarketOK, FreezingOK
<1> QED
  BY <1>2, <1>3, <1>9, <1>11, <1>12, <1>13 DEF m

\* The promise of processTick settles, and the ice melts.
LEMMA SettleIInv ==
  ASSUME IInv, NEW i \in DOMAIN market.processing, Settle(i)
  PROVE  IInv'
<1> DEFINE m == market
           melted == AtEase(m)
<1>1. /\ Good(m, client, pending)
      /\ MarketOK(m)
      /\ m.processing \in Seq(CallType)
  BY DEF IInv, Good, MarketOK, MarketType
<1>2. /\ market' = FlushTickBuffer(melted)
      /\ Len(m.processing) = 1 /\ m.processing[1].settled
      /\ melted \in MarketType
      /\ melted.storages = m.storages
      /\ melted.current = m.current
      /\ melted.freezing = AtRest
      /\ melted.processing = <<>>
      /\ melted.thrown = m.thrown
      /\ FreezingOK(melted)
  BY SettleIs
<1> HIDE DEF melted, m
<1>3. ProcessingOK(melted) /\ ~ melted.thrown
  BY <1>1, <1>2 DEF MarketOK, ProcessingOK
<1>4. InProcess(melted) = InProcess(m)
  <2>1. DOMAIN m.processing = {1}
    BY <1>1, <1>2, SingletonDomain
  <2> QED
    BY <1>2, <2>1 DEF InProcess
<1>5. Good(melted, client, pending)
  BY <1>1, <1>2, <1>3, <1>4, SameStorages
<1>6. Good(market', client, pending) /\ BufferOK(market')
  BY <1>2, <1>5, FlushGood
<1> QED
  BY <1>6, IInvAfter DEF Settle, environment, IInv

\* What a request captures stays among the storages there ever were.
LEMMA RequestFullSyncIInv ==
  ASSUME IInv, RequestFullSync
  PROVE  IInv'
<1>1. Good(market, client, pending) /\ BufferOK(market)
  BY DEF IInv
<1>2. /\ market' = GetOrCreateStorage(market)
      /\ pending' = pending \cup {[id |-> requests', storage |-> market'.current]}
      /\ UNCHANGED <<client, now>>
  BY DEF RequestFullSync
<1>3. /\ Good(market', client, pending)
      /\ market'.current # 0
      /\ market'.processing = market.processing
      /\ market'.buffer = market.buffer
  BY <1>1, <1>2, CreatedGood
<1>4. market'.current \in 1 .. Len(market'.storages)
  BY <1>3 DEF Good, MarketOK, MarketType
<1>5. Good(market', client', pending')
  BY <1>2, <1>3, <1>4 DEF Good, PendingOK
<1>6. BufferOK(market')
  BY <1>1, <1>3 DEF BufferOK
<1> QED
  BY <1>2, <1>5, <1>6, IInvAfter DEF IInv

\* A snapshot is taken with no tick in process, so it is all there is to send.
LEMMA PollFullSyncIInv ==
  ASSUME IInv, NEW request \in pending, PollFullSync(request)
  PROVE  IInv'
<1> DEFINE n == Visited(market)
           ticks == market.storages[request.storage].ticks
<1>1. /\ Good(market, client, pending)
      /\ BufferOK(market)
      /\ market \in MarketType
      /\ FreezingOK(market)
  BY DEF IInv, Good, MarketOK
<1>2. /\ market' = n
      /\ client' = [storage |-> request.storage, ticks |-> ticks]
      /\ pending' = pending \ {request}
      /\ UNCHANGED now
  BY <1>1, Visiting DEF PollFullSync, environment
<1>3. /\ Good(n, client, pending)
      /\ BufferOK(n)
      /\ n.processing = market.processing
  BY <1>1, VisitedGood
<1>4. market.processing = <<>>
  BY <1>1, ColdInProcess DEF PollFullSync
<1>5. n.storages = market.storages /\ n.current = market.current
  BY <1>1 DEF Visited, MarketType
<1> HIDE DEF n
<1>6. ~ InProcess(n)
  BY <1>3, <1>4 DEF InProcess
<1>7. request.storage \in 1 .. Len(n.storages)
  BY <1>3 DEF Good, PendingOK
<1>8. ClientOK(client', n)
  <2>1. request.storage = n.current => ticks = Sent(n)
    BY <1>5, <1>6 DEF Sent, Content
  <2> HIDE DEF ticks
  <2> QED
    BY <1>2, <1>7, <2>1 DEF ClientOK
<1>9. Good(market', client', pending')
  BY <1>2, <1>3, <1>8 DEF Good, PendingOK
<1> QED
  BY <1>2, <1>3, <1>9, IInvAfter DEF IInv

\* Persistence is handed what the current storage has.
LEMMA PersistGood ==
  ASSUME NEW m, NEW c, NEW requested, Good(m, c, requested), m.current # 0
  PROVE  LET n == PersistCurrent(m)
         IN  /\ Good(n, c, requested)
             /\ n.processing = m.processing
             /\ n.buffer = m.buffer
             /\ n.freezing = m.freezing
             /\ n.current = m.current
             /\ n.storages[n.current].persisted = n.storages[n.current].ticks
<1> DEFINE k == m.current
           old == m.storages[k]
           n == PersistCurrent(m)
<1>1. /\ m \in MarketType
      /\ MarketOK(m)
      /\ m.storages \in Seq(StorageType)
      /\ Len(m.storages) \in Nat
      /\ k \in 1 .. Len(m.storages)
  BY DEF Good, MarketOK, MarketType
<1>2. old \in StorageType
  BY <1>1
<1>3. CASE old.persistedMark \/ old.ticks = <<>>
  <2>1. n = m
    BY <1>3 DEF PersistCurrent
  <2>2. old.persisted = old.ticks
    BY <1>1, <1>3 DEF MarketOK, StoragesOK
  <2> QED
    BY <2>1, <2>2
<1>4. CASE ~ (old.persistedMark \/ old.ticks = <<>>)
  <2> DEFINE new == [old EXCEPT !.persistedMark = TRUE, !.persisted = old.ticks]
             storages == [m.storages EXCEPT ![k] = new]
  <2>1. new \in StorageType /\ new.ticks = old.ticks /\ new.persisted = old.ticks
    BY <1>2 DEF StorageType
  <2>2. n = [m EXCEPT !.storages = storages]
    BY <1>4 DEF PersistCurrent
  <2> HIDE DEF new, old
  <2>3. /\ storages \in Seq(StorageType)
        /\ Len(storages) = Len(m.storages)
        /\ \A i \in 1 .. Len(m.storages) :
             storages[i] = IF i = k THEN new ELSE m.storages[i]
    BY <1>1, <2>1, ExceptSeq
  <2> HIDE DEF storages, n
  <2>4. /\ n \in MarketType
        /\ n.storages = storages
        /\ n.current = k
        /\ n.freezing = m.freezing
        /\ n.buffer = m.buffer
        /\ n.processing = m.processing
        /\ n.scheduled = m.scheduled
        /\ n.thrown = m.thrown
    BY <1>1, <2>2, <2>3 DEF MarketType
  <2>5. Content(n) = Content(m)
    BY <1>1, <2>1, <2>3, <2>4 DEF Content, old
  <2>6. FreezingOK(n) /\ ProcessingOK(n)
    BY <1>1, <2>4, <2>5 DEF MarketOK, FreezingOK, ProcessingOK
  <2>7. StoragesOK(n)
    BY <1>1, <2>1, <2>3, <2>4 DEF MarketOK, StoragesOK
  <2>8. MarketOK(n)
    BY <1>1, <2>3, <2>4, <2>6, <2>7 DEF MarketOK
  <2>9. Sent(n) = Sent(m)
    BY <2>4, <2>5 DEF Sent, InProcess
  <2>10. ClientOK(c, n) /\ PendingOK(requested, n)
    BY <2>3, <2>4, <2>9 DEF Good, ClientOK, PendingOK
  <2>11. n.storages[n.current].persisted = n.storages[n.current].ticks
    BY <1>1, <2>1, <2>3, <2>4
  <2> QED
    BY <2>4, <2>8, <2>10, <2>11 DEF Good, n
<1> QED
  BY <1>3, <1>4

\* The snapshot worker comes with no tick in process and none waiting.
LEMMA WorkerIs ==
  ASSUME IInv, SnapshotWorkerTick
  PROVE  LET p == PersistCurrent(market)
             n == Visited(p)
         IN  /\ Good(p, client, pending)
             /\ p.processing = <<>> /\ p.buffer = <<>> /\ p.current = market.current
             /\ p.storages[p.current].persisted = p.storages[p.current].ticks
             /\ market.current # 0
             /\ market' = IF alive THEN n ELSE RemoveMarketStorage(n)
             /\ UNCHANGED <<pending, client, now>>
<1> DEFINE p == PersistCurrent(market)
           n == Visited(p)
<1>1. /\ Good(market, client, pending)
      /\ BufferOK(market)
      /\ market \in MarketType
      /\ FreezingOK(market)
      /\ market.current # 0
      /\ market.freezing # Null
  BY DEF IInv, Good, MarketOK, SnapshotWorkerTick, FreezingOK
<1>2. market.processing = <<>>
  BY <1>1, ColdInProcess DEF SnapshotWorkerTick
<1>3. /\ Good(p, client, pending)
      /\ p.processing = <<>>
      /\ p.buffer = <<>>
      /\ p.current = market.current
      /\ p.storages[p.current].persisted = p.storages[p.current].ticks
  BY <1>1, <1>2, PersistGood DEF BufferOK
<1>4. PersistCurrent(Cooled(market)) = Cooled(p)
  <2>1. /\ Cooled(market).storages = market.storages
        /\ Cooled(market).current = market.current
    BY <1>1 DEF Cooled, MarketType
  <2>2. CASE \/ market.storages[market.current].persistedMark
             \/ market.storages[market.current].ticks = <<>>
    BY <2>1, <2>2 DEF PersistCurrent, p
  <2>3. CASE ~ ( \/ market.storages[market.current].persistedMark
                \/ market.storages[market.current].ticks = <<>> )
    <3> DEFINE saved == [market.storages[market.current] EXCEPT
                           !.persistedMark = TRUE,
                           !.persisted = market.storages[market.current].ticks]
               storages == [market.storages EXCEPT ![market.current] = saved]
    <3>1. /\ PersistCurrent(Cooled(market))
               = [Cooled(market) EXCEPT !.storages = storages]
          /\ p = [market EXCEPT !.storages = storages]
      BY <2>1, <2>3 DEF PersistCurrent
    <3> HIDE DEF storages, saved, p
    <3>2. [Cooled(market) EXCEPT !.storages = storages]
            = Cooled([market EXCEPT !.storages = storages])
      BY <1>1 DEF Cooled, MarketType
    <3> QED
      BY <3>1, <3>2
  <2> QED
    BY <2>2, <2>3
<1>5. /\ market' = IF alive THEN n ELSE RemoveMarketStorage(n)
      /\ UNCHANGED <<pending, client, now>>
  <2>1. Warmed(Cooled(p)) = n
    BY <1>3, Visiting DEF Good, MarketOK, BufferOK
  <2> QED
    BY <1>1, <1>4, <2>1 DEF SnapshotWorkerTick, environment
<1> QED
  BY <1>1, <1>3, <1>5

\* A storage is removed with no tick in process, no tick waiting and all it has
\* persisted; a client that was sent it is left behind.
LEMMA SnapshotWorkerTickIInv ==
  ASSUME IInv, SnapshotWorkerTick
  PROVE  IInv'
<1> DEFINE p == PersistCurrent(market)
           n == Visited(p)
<1>1. /\ Good(p, client, pending)
      /\ p.processing = <<>> /\ p.buffer = <<>> /\ p.current = market.current
      /\ p.storages[p.current].persisted = p.storages[p.current].ticks
  BY WorkerIs
<1>2. /\ market' = IF alive THEN n ELSE RemoveMarketStorage(n)
      /\ UNCHANGED <<pending, client, now>>
  BY WorkerIs
<1> HIDE DEF p
<1>3. /\ Good(n, client, pending)
      /\ n.processing = <<>>
      /\ n \in MarketType
      /\ BufferOK(n)
  BY <1>1, VisitedGood DEF BufferOK, Good, MarketOK
<1>4. n.storages = p.storages /\ n.current = p.current
  BY <1>1 DEF Visited, Good, MarketOK, MarketType
<1>5. n.storages[n.current].persisted = n.storages[n.current].ticks
  BY <1>1, <1>4
<1> HIDE DEF n
<1>6. CASE alive
  BY <1>2, <1>3, <1>6, IInvAfter DEF IInv
<1>7. CASE ~ alive
  <2> DEFINE r == RemoveMarketStorage(n)
  <2>1. /\ r \in MarketType
        /\ r.storages = n.storages
        /\ r.current = 0
        /\ r.freezing = n.freezing
        /\ r.buffer = <<>>
        /\ r.processing = <<>>
        /\ r.scheduled = FALSE
        /\ r.thrown = n.thrown
    <3>1. <<>> \in Seq(Nat) /\ 0 \in Nat
      OBVIOUS
    <3> QED
      BY <1>3, <3>1 DEF RemoveMarketStorage, MarketType
  <2> HIDE DEF r
  <2>2. FreezingOK(r) /\ ProcessingOK(r) /\ BufferOK(r)
    BY <1>3, <2>1 DEF Good, MarketOK, FreezingOK, ProcessingOK, BufferOK
  <2>3. StoragesOK(r)
    BY <1>3, <1>5, <2>1 DEF Good, MarketOK, StoragesOK
  <2>4. MarketOK(r)
    BY <1>3, <2>1, <2>2, <2>3 DEF Good, MarketOK, MarketType
  <2>5. ClientOK(client, r) /\ PendingOK(pending, r)
    BY <1>3, <2>1 DEF Good, ClientOK, PendingOK
  <2> QED
    BY <1>2, <1>7, <2>2, <2>4, <2>5, IInvAfter DEF Good, IInv, r
<1> QED
  BY <1>6, <1>7

\* The debug timer reads the storage.
LEMMA DebugDumpIInv ==
  ASSUME IInv, DebugDump
  PROVE  IInv'
<1>1. /\ Good(market, client, pending)
      /\ BufferOK(market)
      /\ market \in MarketType
      /\ FreezingOK(market)
  BY DEF IInv, Good, MarketOK
<1>2. market' = Visited(market) /\ UNCHANGED <<pending, client, now>>
  BY <1>1, Visiting DEF DebugDump, environment
<1> QED
  BY <1>1, <1>2, VisitedGood, IInvAfter DEF IInv

\* Every step keeps the invariant.
LEMMA NextIInv == IInv /\ [Next]_vars => IInv'
<1> SUFFICES ASSUME IInv, [Next]_vars
             PROVE  IInv'
  OBVIOUS
<1>1. ASSUME NEW gap \in {0, 1}, ReceiveTick(gap)
      PROVE  IInv'
  BY <1>1, ReceiveTickIInv
<1>2. ASSUME NEW i \in DOMAIN market.processing, FinishTick(i)
      PROVE  IInv'
  BY <1>2, FinishTickIInv
<1>3. ASSUME NEW i \in DOMAIN market.processing, Settle(i)
      PROVE  IInv'
  BY <1>3, SettleIInv
<1>4. CASE RequestFullSync
  BY <1>4, RequestFullSyncIInv
<1>5. ASSUME NEW request \in pending, PollFullSync(request)
      PROVE  IInv'
  BY <1>5, PollFullSyncIInv
<1>6. CASE SnapshotWorkerTick
  BY <1>6, SnapshotWorkerTickIInv
<1>7. CASE DebugDump
  BY <1>7, DebugDumpIInv
<1>8. CASE RefreshMarkets \/ UNCHANGED vars
  <2>1. UNCHANGED <<market, client, pending, now>>
    BY <1>8 DEF RefreshMarkets, vars, environment
  <2> QED
    BY <2>1, IInvAfter DEF IInv
<1> QED
  BY <1>1, <1>2, <1>3, <1>4, <1>5, <1>6, <1>7, <1>8 DEF Next

\* The invariants of the runs follow from the inductive one.
LEMMA IInvImplies ==
  IInv => NeverThrows /\ OneTickAtATime /\ RemovedPersisted /\ ClientFollows
<1> SUFFICES ASSUME IInv
             PROVE  NeverThrows /\ OneTickAtATime /\ RemovedPersisted
                    /\ ClientFollows
  OBVIOUS
<1>1. /\ Good(market, client, pending)
      /\ MarketOK(market)
      /\ BufferOK(market)
      /\ market.storages \in Seq(StorageType)
  BY DEF IInv, Good, MarketOK, MarketType
<1>2. NeverThrows
  BY <1>1 DEF MarketOK, NeverThrows
<1>3. OneTickAtATime
  BY <1>1 DEF MarketOK, ProcessingOK, BufferOK, OneTickAtATime
<1>4. RemovedPersisted
  <2>1. DOMAIN market.storages = 1 .. Len(market.storages)
    BY <1>1, LenProperties
  <2> QED
    BY <1>1, <2>1 DEF MarketOK, StoragesOK, RemovedPersisted
<1>5. ClientFollows
  BY <1>1 DEF Good, ClientOK, ClientFollows
<1> QED
  BY <1>2, <1>3, <1>4, <1>5

-----------------------------------------------------------------------------
(* The ticks are in order: a second inductive invariant, on top of the     *)
(* first one.                                                              *)

\* What was persisted of a storage are ticks of it.
PersistedTicks(storages) ==
  \A i \in DOMAIN storages : Range(storages[i].persisted) \subseteq Range(storages[i].ticks)

\* A call of processTick is about a storage.
CallsKnown(m) ==
  \A i \in DOMAIN m.processing : m.processing[i].storage \in DOMAIN m.storages

\* A market has the ticks received, up to the time t, in their order, and its
\* storage is the last one made.
Ordered(m, ticks, t) ==
  /\ Range(ticks) \subseteq 1 .. t
  /\ m.current \in {0, Len(m.storages)}
  /\ StoragesInOrder(m.storages)
  /\ NonDecreasing(m.buffer)
  /\ \A older \in AllTicks(m.storages), tick \in Range(m.buffer) : older <= tick
  /\ Range(ticks) = AllTicks(m.storages) \cup Range(m.buffer)
  /\ PersistedTicks(m.storages)
  /\ CallsKnown(m)

\* What a sequence has after an element is added.
LEMMA RangeOfAppend ==
  ASSUME NEW S, NEW s \in Seq(S), NEW e \in S
  PROVE  Range(Append(s, e)) = Range(s) \cup {e}
<1>1. /\ DOMAIN s = 1 .. Len(s) /\ Len(s) \in Nat
      /\ DOMAIN Append(s, e) = 1 .. Len(s) + 1
      /\ \A i \in 1 .. Len(s) : Append(s, e)[i] = s[i]
      /\ Append(s, e)[Len(s) + 1] = e
  BY Appended
<1>2. \A i \in 1 .. Len(s) + 1 : i \in 1 .. Len(s) \/ i = Len(s) + 1
  BY ONLY <1>1
<1>3. 1 .. Len(s) \subseteq 1 .. Len(s) + 1 /\ Len(s) + 1 \in 1 .. Len(s) + 1
  BY ONLY <1>1
<1> HIDE DEF Range
<1> QED
  BY ONLY <1>1, <1>2, <1>3 DEF Range

\* What a sequence has is its first element and what its tail has.
LEMMA RangeOfTail ==
  ASSUME NEW S, NEW s \in Seq(S), s # <<>>
  PROVE  /\ Range(s) = Range(Tail(s)) \cup {Head(s)}
         /\ \A i \in DOMAIN Tail(s) : i + 1 \in DOMAIN s /\ Tail(s)[i] = s[i + 1]
         /\ 1 \in DOMAIN s /\ Head(s) = s[1]
<1>1. /\ DOMAIN s = 1 .. Len(s) /\ Len(s) \in Nat /\ Len(s) # 0
      /\ DOMAIN Tail(s) = 1 .. Len(s) - 1
      /\ \A i \in 1 .. Len(s) - 1 : Tail(s)[i] = s[i + 1]
      /\ Head(s) = s[1]
  OBVIOUS
<1>2. \A i \in 1 .. Len(s) - 1 : i + 1 \in 1 .. Len(s)
  BY ONLY <1>1
<1>3. ASSUME NEW i \in 1 .. Len(s), i # 1
      PROVE  i - 1 \in 1 .. Len(s) - 1 /\ i = (i - 1) + 1
  BY ONLY <1>1, <1>3
<1>4. 1 \in 1 .. Len(s)
  BY ONLY <1>1
<1>5. Range(s) \subseteq Range(Tail(s)) \cup {Head(s)}
  <2>1. ASSUME NEW i \in 1 .. Len(s), i # 1 PROVE s[i] \in Range(Tail(s))
    <3>1. Tail(s)[i - 1] = s[(i - 1) + 1] /\ (i - 1) + 1 = i
      BY <1>1, <1>3, <2>1
    <3> QED
      BY <1>1, <1>3, <2>1, <3>1 DEF Range
  <2> QED
    BY <1>1, <2>1 DEF Range
<1>6. Range(Tail(s)) \cup {Head(s)} \subseteq Range(s)
  BY <1>1, <1>2, <1>4 DEF Range
<1> QED
  BY <1>1, <1>2, <1>4, <1>5, <1>6

\* The sequences of a storage.
LEMMA StorageSequences ==
  ASSUME NEW m \in MarketType
  PROVE  /\ m.storages \in Seq(StorageType) /\ Len(m.storages) \in Nat
         /\ DOMAIN m.storages = 1 .. Len(m.storages)
         /\ \A i \in DOMAIN m.storages :
              /\ m.storages[i] \in StorageType
              /\ m.storages[i].ticks \in Seq(Nat)
              /\ m.storages[i].persisted \in Seq(Nat)
         /\ m.buffer \in Seq(Nat)
<1>1. m.storages \in Seq(StorageType) /\ m.buffer \in Seq(Nat)
  BY DEF MarketType
<1>2. \A i \in DOMAIN m.storages : m.storages[i] \in StorageType
  BY ONLY <1>1
<1>3. \A storage \in StorageType :
        storage.ticks \in Seq(Nat) /\ storage.persisted \in Seq(Nat)
  BY DEF StorageType
<1> QED
  BY <1>1, <1>2, <1>3

\* A tick not older than any other goes to the end of the last storage.
LEMMA GrownOrder ==
  ASSUME NEW st \in Seq(StorageType), NEW grown \in Seq(StorageType), NEW tick \in Nat,
         Len(grown) = Len(st), Len(st) # 0,
         \A i \in 1 .. Len(st) : i # Len(st) => grown[i] = st[i],
         grown[Len(st)].ticks = Append(st[Len(st)].ticks, tick),
         StoragesInOrder(st), \A older \in AllTicks(st) : older <= tick,
         st[Len(st)].ticks = <<>> \/ Last(st[Len(st)].ticks) # tick
  PROVE  StoragesInOrder(grown) /\ AllTicks(grown) = AllTicks(st) \cup {tick}
<1> DEFINE k == Len(st)
           s == st[k].ticks
           t == grown[k].ticks
<1>1. /\ k \in Nat /\ DOMAIN st = 1 .. k /\ DOMAIN grown = 1 .. k /\ k \in 1 .. k
      /\ st[k] \in StorageType
  OBVIOUS
<1> HIDE DEF s
<1>2. s \in Seq(Nat) /\ Len(s) \in Nat /\ DOMAIN s = 1 .. Len(s)
  <2>1. \A storage \in StorageType : storage.ticks \in Seq(Nat)
    BY DEF StorageType
  <2>2. s \in Seq(Nat)
    BY <1>1, <2>1 DEF s
  <2> QED
    BY <2>2
<1>3. /\ t = Append(s, tick) /\ Range(t) = Range(s) \cup {tick}
      /\ DOMAIN t = 1 .. Len(s) + 1 /\ t[Len(s) + 1] = tick
      /\ \A i \in 1 .. Len(s) : t[i] = s[i]
  <2>1. t = Append(s, tick)
    BY DEF s
  <2> HIDE DEF t
  <2> QED
    BY <1>2, <2>1, RangeOfAppend, Appended
<1>4. \A i \in 1 .. k : i # k => grown[i] = st[i]
  OBVIOUS
<1>5. \A i \in 1 .. k : Range(st[i].ticks) \subseteq AllTicks(st)
  BY <1>1 DEF AllTicks
<1>6. /\ \A i \in 1 .. k : Increasing(st[i].ticks)
      /\ Increasing(s)
      /\ Range(s) \subseteq AllTicks(st)
      /\ \A i, j \in 1 .. k : j < i =>
           \A older \in Range(st[j].ticks), new \in Range(st[i].ticks) : older <= new
  BY <1>1, <1>5 DEF StoragesInOrder, s
<1>0. s = <<>> \/ Last(s) # tick
  BY DEF s
<1> HIDE DEF t, k
<1>7. ASSUME NEW i \in 1 .. Len(s) PROVE s[i] < tick
  <2>1. s[i] \in Range(s) /\ s[i] \in Nat
    <3>1. i \in DOMAIN s
      BY <1>2
    <3> QED
      BY <1>2, <3>1 DEF Range
  <2>2. s[i] <= tick
    BY <1>6, <2>1
  <2>3. s # <<>> /\ Len(s) \in 1 .. Len(s) /\ Last(s) = s[Len(s)]
    BY <1>2 DEF Last
  <2>0. \A j \in 1 .. Len(s) : s[j] \in Range(s) /\ s[j] \in Nat
    <3> SUFFICES ASSUME NEW j \in 1 .. Len(s) PROVE s[j] \in Range(s) /\ s[j] \in Nat
      OBVIOUS
    <3>1. j \in DOMAIN s
      BY <1>2
    <3>2. s[j] \in Nat
      BY ONLY <1>2, <3>1
    <3>3. s[j] \in Range(s)
      BY ONLY <3>1 DEF Range
    <3> QED
      BY <3>2, <3>3
  <2>4. s[Len(s)] # tick /\ s[Len(s)] \in Nat /\ s[Len(s)] <= tick
    <3>1. s[Len(s)] \in Range(s) /\ s[Len(s)] \in Nat
      BY <2>0, <2>3
    <3> QED
      BY <1>0, <1>6, <2>3, <3>1
  <2>5. i < Len(s) => s[i] < s[Len(s)]
    BY <1>2, <1>6, <2>3 DEF Increasing
  <2>6. i = Len(s) \/ i < Len(s)
    <3>1. i \in 1 .. Len(s) /\ Len(s) \in Nat
      BY <1>2
    <3> QED
      BY ONLY <3>1
  <2> QED
    BY <2>1, <2>2, <2>4, <2>5, <2>6
<1>8. Increasing(t)
  <2> SUFFICES ASSUME NEW i \in 1 .. Len(s) + 1, NEW j \in 1 .. Len(s) + 1, i < j
               PROVE  t[i] < t[j]
    BY <1>3 DEF Increasing
  <2>1. i \in 1 .. Len(s) /\ (j \in 1 .. Len(s) \/ j = Len(s) + 1)
    <3>1. /\ i \in 1 .. Len(s) + 1 /\ j \in 1 .. Len(s) + 1 /\ i < j
          /\ Len(s) \in Nat
      BY <1>2
    <3> QED
      BY ONLY <3>1
  <2>2. CASE j \in 1 .. Len(s)
    <3>1. s[i] < s[j]
      BY <1>2, <1>6, <2>1, <2>2 DEF Increasing
    <3> QED
      BY <1>3, <2>1, <2>2, <3>1
  <2>3. CASE j = Len(s) + 1
    BY <1>3, <1>7, <2>1, <2>3
  <2> QED
    BY <2>1, <2>2, <2>3
<1>9. StoragesInOrder(grown)
  <2>1. ASSUME NEW i \in 1 .. k PROVE Increasing(grown[i].ticks)
    BY <1>4, <1>6, <1>8 DEF t
  <2>2. ASSUME NEW i \in 1 .. k, NEW j \in 1 .. k, j < i,
               NEW older \in Range(grown[j].ticks), NEW new \in Range(grown[i].ticks)
        PROVE  older <= new
    <3>1. j # k /\ grown[j] = st[j]
      BY <1>1, <1>4, <2>2
    <3>2. CASE i # k
      BY <1>4, <1>6, <2>2, <3>1, <3>2
    <3>3. CASE i = k
      <4>1. new \in Range(st[i].ticks) \/ new = tick
        BY <1>3, <3>3 DEF s, t
      <4>2. older \in AllTicks(st)
        BY <1>5, <3>1
      <4> QED
        BY <1>6, <2>2, <3>1, <4>1, <4>2
    <3> QED
      BY <3>2, <3>3
  <2> QED
    BY <1>1, <2>1, <2>2 DEF StoragesInOrder
<1>10. AllTicks(grown) = AllTicks(st) \cup {tick}
  <2>1. \A i \in 1 .. k : Range(grown[i].ticks) =
          IF i = k THEN Range(st[i].ticks) \cup {tick} ELSE Range(st[i].ticks)
    BY <1>3, <1>4 DEF s, t
  <2>2. /\ AllTicks(st) = UNION {Range(st[i].ticks) : i \in 1 .. k}
        /\ AllTicks(grown) = UNION {Range(grown[i].ticks) : i \in 1 .. k}
    BY <1>1 DEF AllTicks
  <2>3. ASSUME NEW x, x \in AllTicks(grown) PROVE x \in AllTicks(st) \cup {tick}
    <3>1. PICK i \in 1 .. k : x \in Range(grown[i].ticks)
      BY ONLY <2>2, <2>3
    <3>2. x \in Range(st[i].ticks) \/ x = tick
      BY ONLY <2>1, <3>1
    <3> QED
      BY ONLY <2>2, <3>2
  <2>4. ASSUME NEW x, x \in AllTicks(st) \cup {tick} PROVE x \in AllTicks(grown)
    <3>1. CASE x = tick
      <4>1. x \in Range(grown[k].ticks)
        BY <1>1, <2>1, <3>1
      <4> QED
        BY ONLY <1>1, <2>2, <4>1
    <3>2. CASE x \in AllTicks(st)
      <4>1. PICK i \in 1 .. k : x \in Range(st[i].ticks)
        BY ONLY <2>2, <3>2
      <4>2. x \in Range(grown[i].ticks)
        BY ONLY <2>1, <4>1
      <4> QED
        BY ONLY <2>2, <4>2
    <3> QED
      BY <2>4, <3>1, <3>2
  <2> QED
    BY <2>3, <2>4
<1> QED
  BY <1>9, <1>10

\* Storages with the same ticks are in the same order.
LEMMA SameOrder ==
  ASSUME NEW st, NEW other, DOMAIN st = DOMAIN other,
         \A i \in DOMAIN st : other[i].ticks = st[i].ticks
  PROVE  /\ AllTicks(other) = AllTicks(st)
         /\ StoragesInOrder(st) => StoragesInOrder(other)
BY DEF AllTicks, StoragesInOrder

\* So are storages with an empty one behind them.
LEMMA EmptyBehind ==
  ASSUME NEW st \in Seq(StorageType), StoragesInOrder(st)
  PROVE  LET more == Append(st, StorageWith(<<>>))
         IN  StoragesInOrder(more) /\ AllTicks(more) = AllTicks(st)
<1> DEFINE more == Append(st, StorageWith(<<>>))
           k == Len(st) + 1
<1>1. /\ Len(st) \in Nat /\ DOMAIN st = 1 .. Len(st) /\ DOMAIN more = 1 .. k
      /\ \A i \in 1 .. Len(st) : more[i] = st[i]
      /\ more[k].ticks = <<>>
  BY EmptyStorageType, Appended DEF StorageWith
<1>2. Range(<<>>) = {} /\ Increasing(<<>>)
  BY DEF Range, Increasing
<1>3. \A i \in 1 .. k : i \in 1 .. Len(st) \/ i = k
  BY <1>1
<1>4. k \in 1 .. k /\ 1 .. Len(st) \subseteq 1 .. k
  BY <1>1
<1> HIDE DEF more
<1>5. ASSUME NEW i \in 1 .. k
      PROVE  IF i \in 1 .. Len(st)
               THEN more[i].ticks = st[i].ticks
               ELSE Range(more[i].ticks) = {} /\ Increasing(more[i].ticks)
  BY <1>1, <1>2, <1>3
<1> HIDE DEF k
<1>6. StoragesInOrder(more)
  BY <1>1, <1>5 DEF StoragesInOrder
<1>7. AllTicks(more) = AllTicks(st)
  <2>1. /\ AllTicks(st) = UNION {Range(st[i].ticks) : i \in 1 .. Len(st)}
        /\ AllTicks(more) = UNION {Range(more[i].ticks) : i \in 1 .. k}
    BY <1>1 DEF AllTicks
  <2>2. ASSUME NEW x, x \in AllTicks(more) PROVE x \in AllTicks(st)
    <3>1. PICK i \in 1 .. k : x \in Range(more[i].ticks)
      BY ONLY <2>1, <2>2
    <3>2. i \in 1 .. Len(st) /\ x \in Range(st[i].ticks)
      BY <1>5, <3>1
    <3> QED
      BY ONLY <2>1, <3>2
  <2>3. ASSUME NEW x, x \in AllTicks(st) PROVE x \in AllTicks(more)
    <3>1. PICK i \in 1 .. Len(st) : x \in Range(st[i].ticks)
      BY ONLY <2>1, <2>3
    <3>2. i \in 1 .. k /\ x \in Range(more[i].ticks)
      BY <1>4, <1>5, <3>1
    <3> QED
      BY ONLY <2>1, <3>2
  <2> QED
    BY <2>2, <2>3
<1> QED
  BY <1>6, <1>7 DEF more

\* What getOrCreateStorage leaves: the current storage is the last one.
LEMMA CreatedIs ==
  ASSUME NEW m \in MarketType, m.current \in {0, Len(m.storages)}
  PROVE  LET g == GetOrCreateStorage(m)
         IN  /\ g \in MarketType
             /\ g.current = Len(g.storages) /\ g.current # 0
             /\ g.buffer = m.buffer /\ g.processing = m.processing
             /\ \/ g = m
                \/ g.storages = Append(m.storages, StorageWith(<<>>))
<1> DEFINE g == GetOrCreateStorage(m)
<1>1. CASE m.current # 0
  BY <1>1 DEF GetOrCreateStorage
<1>2. CASE m.current = 0
  <2>1. g = [m EXCEPT !.storages = Append(@, StorageWith(<<>>)),
                      !.current = Len(m.storages) + 1]
    BY <1>2 DEF GetOrCreateStorage
  <2>2. /\ Append(m.storages, StorageWith(<<>>)) \in Seq(StorageType)
        /\ Len(Append(m.storages, StorageWith(<<>>))) = Len(m.storages) + 1
        /\ Len(m.storages) + 1 \in Nat /\ Len(m.storages) + 1 # 0
    BY StorageSequences, EmptyStorageType, Appended
  <2> HIDE DEF g
  <2>3. /\ g \in MarketType
        /\ g.storages = Append(m.storages, StorageWith(<<>>))
        /\ g.current = Len(m.storages) + 1
        /\ g.buffer = m.buffer /\ g.processing = m.processing
    BY ONLY <2>1, <2>2, m \in MarketType DEF MarketType
  <2> QED
    BY <2>2, <2>3 DEF g
<1> QED
  BY <1>1, <1>2

\* What a tick that begins while none is in process does to the storages.
LEMMA BegunIs ==
  ASSUME NEW m \in MarketType, NEW tick \in Nat, FreezingOK(m), m.processing = <<>>,
         m.current \in {0, Len(m.storages)}
  PROVE  LET g == GetOrCreateStorage(m)
             k == Len(g.storages)
             n == BeginTick(m, tick)
         IN  /\ n \in MarketType /\ Len(n.storages) = k /\ n.current = k
             /\ n.buffer = m.buffer
             /\ \A i \in 1 .. k : i # k => n.storages[i] = g.storages[i]
             /\ n.storages[k].persisted = g.storages[k].persisted
             /\ \/ /\ g.storages[k].ticks # <<>>
                   /\ Last(g.storages[k].ticks) = tick
                   /\ n.storages = g.storages
                \/ /\ g.storages[k].ticks = <<>> \/ Last(g.storages[k].ticks) # tick
                   /\ n.storages[k].ticks = Append(g.storages[k].ticks, tick)
             /\ Len(n.processing) = 1 /\ n.processing[1].storage = k
<1> DEFINE g == GetOrCreateStorage(m)
           k == g.current
           duplicate == Content(g) # <<>> /\ Last(Content(g)) = tick
           taken == IF duplicate THEN g ELSE Taking(g, k, tick)
           call == [ storage |-> taken.current,
                     size    |-> Len(Content(taken)),
                     settled |-> duplicate ]
           n == BeginTick(m, tick)
<1>1. /\ g \in MarketType /\ k = Len(g.storages) /\ k # 0
      /\ g.processing = <<>> /\ g.buffer = m.buffer
  BY CreatedIs
<1>2. g.freezing \in {Null, AtRest}
  <2>1. g.freezing = m.freezing
    BY DEF GetOrCreateStorage, MarketType
  <2> QED
    BY <2>1 DEF FreezingOK
<1>3. n = Calling(taken, call)
  BY DEF BeginTick, Taking, Calling
<1>4. Content(g) = g.storages[k].ticks /\ duplicate \in BOOLEAN
  BY DEF Content
<1> HIDE DEF g, n, duplicate
<1>5. k \in 1 .. Len(g.storages) /\ k \in Nat
  BY <1>1, StorageSequences
<1>6. duplicate => taken = g
  OBVIOUS
<1>7. ~ duplicate => TakingOK(g, k, tick, taken)
  BY <1>1, <1>5, TakenType
<1>8. /\ taken \in MarketType /\ taken.current = k /\ taken.processing = <<>>
      /\ taken.freezing = g.freezing /\ taken.buffer = g.buffer
      /\ Len(taken.storages) = Len(g.storages)
      /\ \A i \in 1 .. Len(g.storages) : i # k => taken.storages[i] = g.storages[i]
      /\ taken.storages[k].persisted = g.storages[k].persisted
      /\ duplicate => taken.storages = g.storages
      /\ ~ duplicate => taken.storages[k].ticks = Append(g.storages[k].ticks, tick)
  BY <1>1, <1>6, <1>7 DEF TakingOK
<1> HIDE DEF taken
<1>9. Content(taken) \in Seq(Nat) /\ Len(Content(taken)) \in Nat
  <2>1. k \in DOMAIN taken.storages /\ Content(taken) = taken.storages[k].ticks
    BY <1>5, <1>8, StorageSequences DEF Content
  <2>2. Content(taken) \in Seq(Nat)
    BY <1>8, <2>1, StorageSequences
  <2> QED
    BY <2>2
<1>10. call \in CallType /\ call.storage = k
  BY <1>4, <1>5, <1>8, <1>9 DEF CallType
<1> HIDE DEF call
<1>11. CallingOK(taken, call, n)
  BY <1>2, <1>3, <1>8, <1>10, CallingType
<1>12. /\ n \in MarketType /\ n.storages = taken.storages /\ n.current = k
       /\ n.buffer = m.buffer /\ n.processing = <<call>>
  BY <1>1, <1>8, <1>11 DEF CallingOK
<1>13. Len(n.processing) = 1 /\ n.processing[1].storage = k
  BY <1>10, <1>12
<1> HIDE DEF k
<1> QED
  BY <1>1, <1>4, <1>8, <1>12, <1>13 DEF duplicate, n, g, k

\* A storage made on demand changes nothing of the order.
LEMMA CreatedOrdered ==
  ASSUME NEW m \in MarketType, m.current \in {0, Len(m.storages)},
         StoragesInOrder(m.storages), PersistedTicks(m.storages), CallsKnown(m)
  PROVE  LET g == GetOrCreateStorage(m)
         IN  /\ StoragesInOrder(g.storages) /\ AllTicks(g.storages) = AllTicks(m.storages)
             /\ PersistedTicks(g.storages) /\ CallsKnown(g)
<1> DEFINE g == GetOrCreateStorage(m)
           k == Len(m.storages)
<1>1. g.processing = m.processing
      /\ (g = m \/ g.storages = Append(m.storages, StorageWith(<<>>)))
  BY CreatedIs
<1> HIDE DEF g
<1>2. CASE g = m
  BY <1>2 DEF g
<1>3. CASE g.storages = Append(m.storages, StorageWith(<<>>))
  <2>1. /\ DOMAIN m.storages = 1 .. k /\ k \in Nat /\ DOMAIN g.storages = 1 .. k + 1
        /\ \A i \in 1 .. k : g.storages[i] = m.storages[i]
        /\ g.storages[k + 1] = StorageWith(<<>>)
    BY <1>3, StorageSequences, EmptyStorageType, Appended
  <2>2. StoragesInOrder(g.storages) /\ AllTicks(g.storages) = AllTicks(m.storages)
    BY <1>3, StorageSequences, EmptyBehind
  <2> HIDE DEF k
  <2>3. \A i \in 1 .. k + 1 : i \in 1 .. k \/ i = k + 1
    BY ONLY <2>1
  <2>4. 1 .. k \subseteq 1 .. k + 1
    BY ONLY <2>1
  <2>5. Range(g.storages[k + 1].persisted) \subseteq Range(g.storages[k + 1].ticks)
    BY <2>1 DEF StorageWith
  <2>6. PersistedTicks(g.storages)
    BY <2>1, <2>3, <2>5 DEF PersistedTicks
  <2>7. CallsKnown(g)
    BY <1>1, <2>1, <2>4 DEF CallsKnown
  <2> QED
    BY <2>2, <2>6, <2>7 DEF g
<1> QED
  BY <1>1, <1>2, <1>3

\* A tick that begins is the newest in the storages, or there already.
LEMMA BegunOrdered ==
  ASSUME NEW m \in MarketType, NEW tick \in Nat, FreezingOK(m), m.processing = <<>>,
         m.current \in {0, Len(m.storages)}, StoragesInOrder(m.storages),
         PersistedTicks(m.storages), \A older \in AllTicks(m.storages) : older <= tick
  PROVE  LET n == BeginTick(m, tick)
         IN  /\ n \in MarketType /\ n.current = Len(n.storages) /\ n.buffer = m.buffer
             /\ StoragesInOrder(n.storages)
             /\ AllTicks(n.storages) = AllTicks(m.storages) \cup {tick}
             /\ PersistedTicks(n.storages) /\ CallsKnown(n)
<1> DEFINE g == GetOrCreateStorage(m)
           k == Len(g.storages)
           n == BeginTick(m, tick)
<1>1. /\ g \in MarketType /\ k # 0
  BY CreatedIs
<1>2. CallsKnown(m)
  BY DEF CallsKnown
<1>3. /\ StoragesInOrder(g.storages) /\ AllTicks(g.storages) = AllTicks(m.storages)
      /\ PersistedTicks(g.storages)
  BY <1>2, CreatedOrdered
<1>4. /\ n \in MarketType /\ Len(n.storages) = k /\ n.current = k
      /\ n.buffer = m.buffer
      /\ \A i \in 1 .. k : i # k => n.storages[i] = g.storages[i]
      /\ n.storages[k].persisted = g.storages[k].persisted
      /\ \/ /\ g.storages[k].ticks # <<>>
            /\ Last(g.storages[k].ticks) = tick
            /\ n.storages = g.storages
         \/ /\ g.storages[k].ticks = <<>> \/ Last(g.storages[k].ticks) # tick
            /\ n.storages[k].ticks = Append(g.storages[k].ticks, tick)
      /\ Len(n.processing) = 1 /\ n.processing[1].storage = k
  BY BegunIs
<1> HIDE DEF g, n
<1>5. /\ g.storages \in Seq(StorageType) /\ n.storages \in Seq(StorageType)
      /\ k \in Nat /\ DOMAIN g.storages = 1 .. k /\ DOMAIN n.storages = 1 .. k
      /\ k \in 1 .. k
      /\ \A i \in 1 .. k : g.storages[i].ticks \in Seq(Nat)
  <2>1. /\ g.storages \in Seq(StorageType)
        /\ k \in Nat /\ DOMAIN g.storages = 1 .. k
        /\ \A i \in DOMAIN g.storages : g.storages[i].ticks \in Seq(Nat)
    BY <1>1, StorageSequences
  <2>2. n.storages \in Seq(StorageType) /\ DOMAIN n.storages = 1 .. Len(n.storages)
    BY <1>4, StorageSequences
  <2>3. DOMAIN n.storages = 1 .. k
    BY <1>4, <2>2
  <2>4. k \in 1 .. k
    BY ONLY <1>1, <2>1
  <2> HIDE DEF k
  <2> QED
    BY ONLY <2>1, <2>2, <2>3, <2>4
<1>6. CallsKnown(n)
  <2>1. n.processing \in Seq(CallType)
    BY <1>4 DEF MarketType
  <2>2. DOMAIN n.processing = {1}
    BY <1>4, <2>1, SingletonDomain
  <2> QED
    BY <1>4, <1>5, <2>2 DEF CallsKnown
<1>7. CASE /\ g.storages[k].ticks # <<>>
           /\ Last(g.storages[k].ticks) = tick
           /\ n.storages = g.storages
  <2> DEFINE s == g.storages[k].ticks
  <2>1. Len(s) \in DOMAIN s /\ Last(s) = s[Len(s)]
    <3>1. s \in Seq(Nat) /\ s # <<>>
      BY <1>5, <1>7
    <3> HIDE DEF s
    <3> QED
      BY <3>1 DEF Last
  <2>2. tick \in AllTicks(g.storages)
    <3>1. tick \in Range(s)
      BY <1>7, <2>1 DEF Range
    <3> QED
      BY <1>5, <3>1 DEF AllTicks
  <2> QED
    BY <1>3, <1>4, <1>6, <1>7, <2>2 DEF n
<1>8. CASE /\ g.storages[k].ticks = <<>> \/ Last(g.storages[k].ticks) # tick
           /\ n.storages[k].ticks = Append(g.storages[k].ticks, tick)
  <2> HIDE DEF k
  <2>1. StoragesInOrder(n.storages)
        /\ AllTicks(n.storages) = AllTicks(g.storages) \cup {tick}
    <3>1. /\ Len(n.storages) = Len(g.storages) /\ Len(g.storages) # 0
          /\ \A i \in 1 .. Len(g.storages) :
               i # Len(g.storages) => n.storages[i] = g.storages[i]
          /\ n.storages[Len(g.storages)].ticks
               = Append(g.storages[Len(g.storages)].ticks, tick)
          /\ \/ g.storages[Len(g.storages)].ticks = <<>>
             \/ Last(g.storages[Len(g.storages)].ticks) # tick
      BY <1>1, <1>4, <1>8 DEF k
    <3>2. StoragesInOrder(g.storages) /\ \A older \in AllTicks(g.storages) : older <= tick
      BY <1>3
    <3> QED
      BY ONLY <1>5, <3>1, <3>2, tick \in Nat, GrownOrder
  <2>2. PersistedTicks(n.storages)
    <3>1. Range(g.storages[k].ticks) \subseteq Range(n.storages[k].ticks)
      <4>1. g.storages[k].ticks \in Seq(Nat)
        BY ONLY <1>5
      <4> QED
        BY <1>8, <4>1, RangeOfAppend
    <3> QED
      BY <1>3, <1>4, <1>5, <3>1 DEF PersistedTicks
  <2> QED
    BY <1>3, <1>4, <1>6, <2>1, <2>2 DEF n, k
<1> QED
  BY <1>4, <1>7, <1>8

\* The order is a matter of the storages and the buffer.
LEMMA SameOrdered ==
  ASSUME NEW m, NEW n, NEW ticks, NEW t, Ordered(m, ticks, t),
         DOMAIN n.storages = DOMAIN m.storages,
         \A i \in DOMAIN m.storages : n.storages[i].ticks = m.storages[i].ticks,
         n.current \in {0, Len(n.storages)}, n.buffer = m.buffer,
         PersistedTicks(n.storages), CallsKnown(n)
  PROVE  Ordered(n, ticks, t)
<1>1. /\ AllTicks(n.storages) = AllTicks(m.storages)
      /\ StoragesInOrder(n.storages)
  BY SameOrder DEF Ordered
<1> QED
  BY <1>1 DEF Ordered

\* The oldest tick of the buffer is the one that begins.
LEMMA FlushOrdered ==
  ASSUME NEW m \in MarketType, NEW ticks, NEW t, Ordered(m, ticks, t),
         FreezingOK(m), m.processing = <<>>
  PROVE  Ordered(FlushTickBuffer(m), ticks, t)
<1>1. ~ IsCold(m.freezing)
  BY RestIsWarm DEF FreezingOK
<1>2. CASE m.buffer = <<>>
  BY <1>2 DEF FlushTickBuffer
<1>3. CASE m.buffer # <<>>
  <2> DEFINE b == m.buffer
             rest == [m EXCEPT !.buffer = Tail(@)]
             n == BeginTick(rest, Head(b))
  <2>1. b \in Seq(Nat) /\ b # <<>>
    BY <1>3, StorageSequences
  <2>2. Tail(b) \in Seq(Nat) /\ Head(b) \in Nat
    BY <2>1, HeadTailProperties
  <2>3. /\ rest \in MarketType
        /\ rest.storages = m.storages /\ rest.current = m.current
        /\ rest.freezing = m.freezing /\ rest.processing = m.processing
        /\ rest.scheduled = m.scheduled /\ rest.buffer = Tail(b)
    BY <2>2 DEF MarketType
  <2>4. FlushTickBuffer(m) = n
    BY <1>1, <1>3 DEF FlushTickBuffer
  <2>5. /\ Range(b) = Range(Tail(b)) \cup {Head(b)}
        /\ \A i \in DOMAIN Tail(b) : i + 1 \in DOMAIN b /\ Tail(b)[i] = b[i + 1]
        /\ 1 \in DOMAIN b /\ Head(b) = b[1]
    BY <2>1, RangeOfTail
  <2> HIDE DEF rest
  <2>6. FreezingOK(rest)
    BY <2>3 DEF FreezingOK
  <2>7. /\ m.current \in {0, Len(m.storages)} /\ StoragesInOrder(m.storages)
        /\ PersistedTicks(m.storages) /\ NonDecreasing(b)
        /\ \A older \in AllTicks(m.storages), tick \in Range(b) : older <= tick
        /\ Range(ticks) = AllTicks(m.storages) \cup Range(b)
        /\ Range(ticks) \subseteq 1 .. t
    BY DEF Ordered
  <2>8. \A older \in AllTicks(rest.storages) : older <= Head(b)
    BY <2>3, <2>5, <2>7
  <2>9. /\ n \in MarketType /\ n.current = Len(n.storages) /\ n.buffer = Tail(b)
        /\ StoragesInOrder(n.storages)
        /\ AllTicks(n.storages) = AllTicks(m.storages) \cup {Head(b)}
        /\ PersistedTicks(n.storages) /\ CallsKnown(n)
    BY <2>2, <2>3, <2>6, <2>7, <2>8, BegunOrdered
  <2> HIDE DEF n, b
  <2>10. \A i \in DOMAIN Tail(b) : i \in Int
    BY <2>2
  <2>11. NonDecreasing(Tail(b))
    <3>1. \A i, j \in Int : i < j => i + 1 < j + 1
      OBVIOUS
    <3> QED
      BY <2>5, <2>7, <2>10, <3>1 DEF NonDecreasing
  <2>12. \A later \in Range(Tail(b)) : Head(b) <= later
    <3> SUFFICES ASSUME NEW i \in DOMAIN Tail(b) PROVE Head(b) <= Tail(b)[i]
      BY DEF Range
    <3>1. i \in 1 .. Len(Tail(b)) /\ Len(Tail(b)) \in Nat
      BY <2>2
    <3>2. 1 < i + 1
      BY <3>1
    <3> QED
      BY <2>5, <2>7, <3>2 DEF NonDecreasing
  <2>13. \A older \in AllTicks(n.storages), tick \in Range(n.buffer) : older <= tick
    BY <2>5, <2>7, <2>9, <2>12
  <2> QED
    BY <2>4, <2>5, <2>7, <2>9, <2>11, <2>13 DEF Ordered
<1> QED
  BY <1>2, <1>3

\* A tick is received: it waits behind those that wait, or begins.
LEMMA ReceiveTickOrdered ==
  ASSUME IInv, received \in Seq(Nat), now # 0, Ordered(market, received, now),
         NEW gap \in {0, 1}, ReceiveTick(gap)
  PROVE  Ordered(market', received', now')
<1> DEFINE m == market
           b == market.buffer
           t == now'
<1>1. /\ m \in MarketType /\ FreezingOK(m) /\ BufferOK(m) /\ now \in Nat
      /\ b \in Seq(Nat)
  BY StorageSequences DEF IInv, Good, MarketOK
<1>2. t \in Nat /\ now <= t /\ received' = Append(received, t) /\ t = now + gap
  BY <1>1 DEF ReceiveTick
<1>3. Range(received') = Range(received) \cup {t}
  BY <1>2, RangeOfAppend
<1>4. /\ m.current \in {0, Len(m.storages)} /\ StoragesInOrder(m.storages)
      /\ PersistedTicks(m.storages) /\ NonDecreasing(b) /\ CallsKnown(m)
      /\ \A older \in AllTicks(m.storages), tick \in Range(b) : older <= tick
      /\ Range(received) = AllTicks(m.storages) \cup Range(b)
      /\ Range(received) \subseteq 1 .. now
  BY DEF Ordered
<1>5. \A tick \in 1 .. now : tick <= t /\ tick \in 1 .. t
  BY <1>1, <1>2
<1>6. \A tick \in Range(received) : tick <= t /\ tick \in 1 .. t
  BY <1>4, <1>5
<1>7. Range(received') \subseteq 1 .. t
  <2>1. t \in 1 .. t
    <3>1. CASE gap = 1
      BY <1>1, <1>2, <3>1
    <3>2. CASE gap = 0
      BY <1>1, <1>2, <3>2
    <3> QED
      BY <3>1, <3>2
  <2> QED
    BY <1>3, <1>6, <2>1
<1>8. CASE IsCold(m.freezing) \/ b # <<>>
  <2> DEFINE n == market'
             a == Append(b, t)
  <2>1. n = [m EXCEPT !.buffer = a]
    BY <1>8 DEF ReceiveTick
  <2>2. /\ a \in Seq(Nat) /\ DOMAIN b = 1 .. Len(b) /\ Len(b) \in Nat
        /\ DOMAIN a = 1 .. Len(b) + 1
        /\ \A i \in 1 .. Len(b) : a[i] = b[i]
        /\ a[Len(b) + 1] = t
        /\ Range(a) = Range(b) \cup {t}
    <3>1. b \in Seq(Nat) /\ t \in Nat
      BY <1>1, <1>2
    <3> HIDE DEF b, t
    <3>2. DOMAIN b = 1 .. Len(b) /\ Len(b) \in Nat
      BY <3>1
    <3>3. /\ a \in Seq(Nat) /\ Len(a) = Len(b) + 1
          /\ \A i \in 1 .. Len(b) : a[i] = b[i]
          /\ a[Len(b) + 1] = t
      BY <3>1, Appended
    <3>4. Range(a) = Range(b) \cup {t}
      BY <3>1, RangeOfAppend
    <3> HIDE DEF a
    <3>5. DOMAIN a = 1 .. Len(b) + 1
      BY <3>3
    <3> QED
      BY <3>2, <3>3, <3>4, <3>5
  <2>3. /\ n.storages = m.storages /\ n.current = m.current /\ n.buffer = a
        /\ n.processing = m.processing
    BY <1>1, <2>1, <2>2 DEF MarketType
  <2> HIDE DEF n, a, b, m, t
  <2>4. \A i \in 1 .. Len(b) : b[i] <= t
    BY <1>4, <1>6, <2>2 DEF Range
  <2>5. \A i, j \in 1 .. Len(b) + 1 : i < j =>
          i \in 1 .. Len(b) /\ (j \in 1 .. Len(b) \/ j = Len(b) + 1)
    BY ONLY <2>2
  <2>6. NonDecreasing(a)
    BY <1>4, <2>2, <2>4, <2>5 DEF NonDecreasing
  <2>7. \A older \in AllTicks(n.storages), tick \in Range(n.buffer) : older <= tick
    BY <1>4, <1>6, <2>2, <2>3
  <2>8. CallsKnown(n)
    BY <1>4, <2>3 DEF CallsKnown
  <2>9. Range(received') = AllTicks(n.storages) \cup Range(n.buffer)
    BY <1>3, <1>4, <2>2, <2>3
  <2> QED
    BY <1>4, <1>7, <2>3, <2>6, <2>7, <2>8, <2>9 DEF Ordered, n, t
<1>9. CASE ~ (IsCold(m.freezing) \/ b # <<>>)
  <2> DEFINE n == BeginTick(m, t)
  <2>1. market' = n
    BY <1>9 DEF ReceiveTick
  <2>2. m.processing = <<>>
    BY <1>1, <1>9, ColdInProcess
  <2>3. \A older \in AllTicks(m.storages) : older <= t
    BY <1>4, <1>6
  <2>4. /\ n.current = Len(n.storages) /\ n.buffer = b
        /\ StoragesInOrder(n.storages)
        /\ AllTicks(n.storages) = AllTicks(m.storages) \cup {t}
        /\ PersistedTicks(n.storages) /\ CallsKnown(n)
    BY <1>1, <1>2, <1>4, <2>2, <2>3, BegunOrdered
  <2>5. b = <<>> /\ Range(b) = {} /\ NonDecreasing(b)
    BY <1>9 DEF Range, NonDecreasing
  <2> HIDE DEF n, b, m, t
  <2> QED
    BY <1>3, <1>4, <1>7, <2>1, <2>4, <2>5 DEF Ordered, t
<1> QED
  BY <1>8, <1>9

\* A tick that ends changes no storage and leaves its call settled.
LEMMA FinishTickOrdered ==
  ASSUME IInv, Ordered(market, received, now),
         NEW i \in DOMAIN market.processing, FinishTick(i)
  PROVE  Ordered(market', received', now')
<1> DEFINE m == market
           n == market'
           call == market.processing[i]
           done == [market.processing EXCEPT ![i] = [call EXCEPT !.settled = TRUE]]
<1>1. /\ m \in MarketType /\ m.processing \in Seq(CallType) /\ call \in CallType
      /\ m.processing = [j \in 1 .. Len(m.processing) |-> m.processing[j]]
  BY DEF IInv, Good, MarketOK, MarketType
<1>2. /\ DOMAIN done = DOMAIN m.processing
      /\ \A j \in DOMAIN done : done[j].storage = m.processing[j].storage
  <2>1. [call EXCEPT !.settled = TRUE].storage = call.storage
    BY <1>1 DEF CallType
  <2> QED
    BY <1>1, <2>1
<1>3. \/ n = [m EXCEPT !.processing = done, !.scheduled = TRUE]
      \/ n = [m EXCEPT !.thrown = TRUE]
  BY <1>1 DEF FinishTick, MarketType, CallType
<1>4. UNCHANGED <<received, now>>
  BY DEF FinishTick, environment
<1> HIDE DEF m, n, done
<1>5. /\ n.storages = m.storages /\ n.current = m.current /\ n.buffer = m.buffer
      /\ n.processing \in {m.processing, done}
  BY <1>1, <1>3 DEF MarketType
<1>6. CallsKnown(n)
  BY <1>2, <1>5 DEF Ordered, CallsKnown, m
<1> QED
  BY <1>4, <1>5, <1>6, SameOrdered DEF m, n, Ordered

\* A promise that settles melts the ice and takes the next buffered tick.
LEMMA SettleOrdered ==
  ASSUME IInv, Ordered(market, received, now),
         NEW i \in DOMAIN market.processing, Settle(i)
  PROVE  Ordered(market', received', now')
<1> DEFINE melted == AtEase(market)
<1>1. /\ market' = FlushTickBuffer(melted)
      /\ melted \in MarketType /\ FreezingOK(melted)
      /\ melted.storages = market.storages
      /\ melted.current = market.current
      /\ melted.buffer = market.buffer
      /\ melted.processing = <<>>
  BY SettleIs
<1> HIDE DEF melted
<1>2. CallsKnown(melted)
  BY <1>1 DEF CallsKnown
<1>3. Ordered(melted, received, now)
  BY <1>1, <1>2, SameOrdered DEF Ordered
<1>4. UNCHANGED <<received, now>>
  BY DEF Settle, environment
<1> QED
  BY <1>1, <1>3, <1>4, FlushOrdered

\* A request makes at most a storage without ticks.
LEMMA RequestFullSyncOrdered ==
  ASSUME IInv, Ordered(market, received, now), RequestFullSync
  PROVE  Ordered(market', received', now')
<1> DEFINE g == GetOrCreateStorage(market)
<1>1. market \in MarketType
  BY DEF IInv, Good, MarketOK
<1>2. market' = g /\ UNCHANGED <<received, now>>
  BY DEF RequestFullSync
<1>3. g.current = Len(g.storages) /\ g.buffer = market.buffer
  BY <1>1, CreatedIs DEF Ordered
<1>4. /\ StoragesInOrder(g.storages) /\ AllTicks(g.storages) = AllTicks(market.storages)
      /\ PersistedTicks(g.storages) /\ CallsKnown(g)
  BY <1>1, CreatedOrdered DEF Ordered
<1> HIDE DEF g
<1> QED
  BY <1>2, <1>3, <1>4 DEF Ordered

\* A reader moves no tick.
LEMMA VisitedOrdered ==
  ASSUME NEW m \in MarketType, NEW ticks, NEW t, Ordered(m, ticks, t)
  PROVE  Ordered(Visited(m), ticks, t)
<1>1. /\ Visited(m).storages = m.storages /\ Visited(m).current = m.current
      /\ Visited(m).buffer = m.buffer /\ Visited(m).processing = m.processing
  BY DEF Visited, MarketType
<1>2. CallsKnown(Visited(m))
  BY <1>1 DEF Ordered, CallsKnown
<1> QED
  BY <1>1, <1>2, SameOrdered DEF Ordered

\* Persistence takes the ticks of the current storage.
LEMMA PersistOrdered ==
  ASSUME NEW m \in MarketType, NEW ticks, NEW t, Ordered(m, ticks, t), m.current # 0
  PROVE  Ordered(PersistCurrent(m), ticks, t)
<1> DEFINE k == m.current
           old == m.storages[k]
           new == [old EXCEPT !.persistedMark = TRUE, !.persisted = old.ticks]
           saved == [m.storages EXCEPT ![k] = new]
           n == PersistCurrent(m)
<1>1. /\ DOMAIN m.storages = 1 .. Len(m.storages) /\ Len(m.storages) \in Nat
      /\ \A i \in DOMAIN m.storages : m.storages[i] \in StorageType
      /\ m.storages \in Seq(StorageType)
  BY StorageSequences
<1>2. k = Len(m.storages) /\ k \in DOMAIN m.storages /\ old \in StorageType
  BY <1>1 DEF Ordered
<1>3. n = m \/ n = [m EXCEPT !.storages = saved]
  BY DEF PersistCurrent
<1>4. new.ticks = old.ticks /\ new.persisted = old.ticks /\ new \in StorageType
  BY <1>2 DEF StorageType
<1> HIDE DEF new, n
<1>5. /\ DOMAIN saved = DOMAIN m.storages /\ Len(saved) = Len(m.storages)
      /\ \A i \in DOMAIN m.storages : saved[i] = IF i = k THEN new ELSE m.storages[i]
  BY <1>1, <1>2, <1>4, ExceptSeq
<1> HIDE DEF saved, old
<1>6. CASE n = m
  BY <1>6 DEF n
<1>7. CASE n = [m EXCEPT !.storages = saved]
  <2>1. /\ n.storages = saved /\ n.current = m.current /\ n.buffer = m.buffer
        /\ n.processing = m.processing
    BY <1>7 DEF MarketType
  <2>2. \A i \in DOMAIN m.storages : n.storages[i].ticks = m.storages[i].ticks
    BY <1>4, <1>5, <2>1 DEF old
  <2>3. PersistedTicks(n.storages)
    BY <1>4, <1>5, <2>1, <2>2 DEF Ordered, PersistedTicks, old
  <2>4. CallsKnown(n)
    BY <1>5, <2>1 DEF Ordered, CallsKnown
  <2>5. n.current \in {0, Len(n.storages)}
    BY <1>2, <1>5, <2>1
  <2> QED
    BY <1>5, <2>1, <2>2, <2>3, <2>4, <2>5, SameOrdered DEF n
<1> QED
  BY <1>3, <1>6, <1>7

\* The periodic save, which removes a market that is not alive any more.
LEMMA SnapshotWorkerTickOrdered ==
  ASSUME IInv, Ordered(market, received, now), SnapshotWorkerTick
  PROVE  Ordered(market', received', now')
<1> DEFINE p == PersistCurrent(market)
           n == Visited(p)
           r == RemoveMarketStorage(n)
<1>1. /\ p \in MarketType /\ p.buffer = <<>> /\ market.current # 0
      /\ market' = IF alive THEN n ELSE r
  BY WorkerIs DEF Good, MarketOK
<1>2. market \in MarketType
  BY DEF IInv, Good, MarketOK
<1>3. Ordered(p, received, now)
  BY <1>1, <1>2, PersistOrdered
<1> HIDE DEF p
<1>4. Ordered(n, received, now)
  BY <1>1, <1>3, VisitedOrdered
<1>5. /\ r.storages = n.storages /\ r.current = 0 /\ r.buffer = n.buffer
      /\ r.processing = n.processing
  BY <1>1 DEF Visited, RemoveMarketStorage, MarketType
<1> HIDE DEF n, r
<1>6. Ordered(r, received, now)
  <2>1. CallsKnown(r)
    BY <1>4, <1>5 DEF Ordered, CallsKnown
  <2> QED
    BY <1>4, <1>5, <2>1, SameOrdered DEF Ordered
<1>7. UNCHANGED <<received, now>>
  BY DEF SnapshotWorkerTick, environment
<1> QED
  BY <1>1, <1>4, <1>6, <1>7

\* With the order go the histories and the shapes of the variables the first
\* invariant says nothing of.
OrderInv ==
  /\ received \in Seq(Nat)
  /\ now \in 1 .. MaxTime
  /\ Ordered(market, received, now)
  /\ requests \in 0 .. MaxRequests
  /\ pending \subseteq [id : 1 .. MaxRequests, storage : Nat]
  /\ {alive, refused} \subseteq BOOLEAN

\* The order holds at the start.
LEMMA InitOrdered == Init => OrderInv
<1> SUFFICES ASSUME Init PROVE OrderInv
  OBVIOUS
<1>1. MaxTime \in Nat /\ MaxTime # 0 /\ MaxRequests \in Nat
  BY BoundsAssumption
<1>2. /\ now = 1 /\ now \in 1 .. MaxTime /\ requests \in 0 .. MaxRequests
      /\ pending = {} /\ {alive, refused} \subseteq BOOLEAN
  <2>1. 1 \in 1 .. MaxTime /\ 0 \in 0 .. MaxRequests
    BY <1>1
  <2> QED
    BY <2>1 DEF Init
<1>3. Range(<<>>) = {} /\ Increasing(<<>>) /\ NonDecreasing(<<>>)
  BY DEF Range, Increasing, NonDecreasing
<1>4. Range(<<1>>) = {1} /\ Increasing(<<1>>)
  BY DEF Range, Increasing
<1>5. \A storages, freezing, scheduled :
        LET m == Market(storages, freezing, scheduled)
        IN  /\ m.storages = storages /\ m.current = Len(storages)
            /\ m.buffer = <<>> /\ m.processing = <<>>
  BY DEF Market
<1>6. /\ StorageWith(<<1>>).ticks = <<1>> /\ StorageWith(<<1>>).persisted = <<>>
      /\ StorageWith(<<>>).ticks = <<>> /\ StorageWith(<<>>).persisted = <<>>
  BY DEF StorageWith
<1>7. /\ CallsKnown(market) /\ market.buffer = <<>>
      /\ market.current = Len(market.storages)
      /\ \/ market.storages = <<>> /\ received = <<>>
         \/ market.storages = <<StorageWith(<<>>)>> /\ received = <<>>
         \/ market.storages = <<StorageWith(<<1>>)>> /\ received = <<1>>
  <2>1. PICK storages, freezing, scheduled :
          /\ market = Market(storages, freezing, scheduled)
          /\ \/ storages = <<>> /\ received = <<>>
             \/ storages = <<StorageWith(<<>>)>> /\ received = <<>>
             \/ storages = <<StorageWith(<<1>>)>> /\ received = <<1>>
    BY DEF Init
  <2>2. /\ market.storages = storages /\ market.current = Len(storages)
        /\ market.buffer = <<>> /\ market.processing = <<>>
    BY <1>5, <2>1
  <2> QED
    BY <2>1, <2>2 DEF CallsKnown
<1>8. /\ StoragesInOrder(market.storages) /\ PersistedTicks(market.storages)
      /\ Range(received) = AllTicks(market.storages) /\ Range(received) \subseteq 1 .. 1
      /\ received \in Seq(Nat)
  <2>1. CASE market.storages = <<>> /\ received = <<>>
    BY <1>3, <2>1 DEF StoragesInOrder, PersistedTicks, AllTicks
  <2>2. ASSUME NEW s \in Seq(Nat), Increasing(s), received = s, Range(s) \subseteq 1 .. 1,
               market.storages = <<StorageWith(s)>>
        PROVE  /\ StoragesInOrder(market.storages) /\ PersistedTicks(market.storages)
               /\ Range(received) = AllTicks(market.storages)
               /\ Range(received) \subseteq 1 .. 1 /\ received \in Seq(Nat)
    <3> DEFINE st == <<StorageWith(s)>>
    <3>1. DOMAIN st = {1} /\ st[1].ticks = s /\ st[1].persisted = <<>>
      BY DEF StorageWith
    <3> HIDE DEF st
    <3>2. StoragesInOrder(st) /\ PersistedTicks(st) /\ AllTicks(st) = Range(s)
      BY <1>3, <2>2, <3>1 DEF StoragesInOrder, PersistedTicks, AllTicks
    <3> QED
      BY <2>2, <3>2 DEF st
  <2>3. <<>> \in Seq(Nat) /\ <<1>> \in Seq(Nat) /\ 1 \in 1 .. 1
    OBVIOUS
  <2>4. CASE market.storages = <<StorageWith(<<>>)>> /\ received = <<>>
    BY <1>3, <2>2, <2>3, <2>4
  <2>5. CASE market.storages = <<StorageWith(<<1>>)>> /\ received = <<1>>
    BY <1>4, <2>2, <2>3, <2>5
  <2> QED
    BY <1>7, <2>1, <2>4, <2>5
<1>9. Ordered(market, received, now)
  BY <1>2, <1>3, <1>7, <1>8 DEF Ordered
<1> QED
  BY <1>2, <1>8, <1>9 DEF OrderInv

\* Every step keeps the ticks in order.
LEMMA NextOrdered == IInv /\ OrderInv /\ [Next]_vars => OrderInv'
<1> SUFFICES ASSUME IInv, OrderInv, [Next]_vars
             PROVE  OrderInv'
  OBVIOUS
<1>1. MaxTime \in Nat /\ MaxRequests \in Nat
  BY BoundsAssumption
<1>2. Ordered(market', received', now')
  <2>1. ASSUME NEW gap \in {0, 1}, ReceiveTick(gap)
        PROVE  Ordered(market', received', now')
    BY <1>1, <2>1, ReceiveTickOrdered DEF OrderInv
  <2>2. ASSUME NEW i \in DOMAIN market.processing, FinishTick(i)
        PROVE  Ordered(market', received', now')
    BY <2>2, FinishTickOrdered DEF OrderInv
  <2>3. ASSUME NEW i \in DOMAIN market.processing, Settle(i)
        PROVE  Ordered(market', received', now')
    BY <2>3, SettleOrdered DEF OrderInv
  <2>4. CASE RequestFullSync
    BY <2>4, RequestFullSyncOrdered DEF OrderInv
  <2>5. CASE DebugDump \/ \E request \in pending : PollFullSync(request)
    <3>1. /\ market \in MarketType /\ FreezingOK(market) /\ BufferOK(market)
      BY DEF IInv, Good, MarketOK
    <3>2. market' = Visited(market) /\ UNCHANGED <<received, now>>
      BY <2>5, <3>1, Visiting DEF DebugDump, PollFullSync, environment
    <3> QED
      BY <3>1, <3>2, VisitedOrdered DEF OrderInv
  <2>6. CASE SnapshotWorkerTick
    BY <2>6, SnapshotWorkerTickOrdered DEF OrderInv
  <2>7. CASE RefreshMarkets \/ UNCHANGED vars
    BY <2>7 DEF RefreshMarkets, vars, environment, OrderInv
  <2> QED
    BY <2>1, <2>2, <2>3, <2>4, <2>5, <2>6, <2>7 DEF Next
<1>3. received' \in Seq(Nat) /\ now' \in 1 .. MaxTime
  <2>1. ASSUME NEW gap \in {0, 1}, ReceiveTick(gap)
        PROVE  received' \in Seq(Nat) /\ now' \in 1 .. MaxTime
    <3>1. now' = now + gap /\ now + gap <= MaxTime /\ received' = Append(received, now')
      BY <2>1 DEF ReceiveTick
    <3>2. now \in 1 .. MaxTime /\ received \in Seq(Nat)
      BY DEF OrderInv
    <3>3. now' \in 1 .. MaxTime
      <4>1. gap = 0 \/ gap = 1
        OBVIOUS
      <4> QED
        BY ONLY <1>1, <3>1, <3>2, <4>1
    <3>4. now' \in Nat
      BY <1>1, <3>3
    <3> QED
      BY <3>1, <3>2, <3>3, <3>4
  <2>2. (~ \E gap \in {0, 1} : ReceiveTick(gap)) => UNCHANGED <<received, now>>
    BY DEF Next, FinishTick, Settle, RequestFullSync, PollFullSync, DebugDump,
           SnapshotWorkerTick, RefreshMarkets, vars, environment
  <2> QED
    BY <2>1, <2>2 DEF OrderInv
<1>4. /\ requests' \in 0 .. MaxRequests
      /\ pending' \subseteq [id : 1 .. MaxRequests, storage : Nat]
  <2>1. CASE RequestFullSync
    <3>1. /\ requests < MaxRequests /\ requests' = requests + 1
          /\ pending' = pending \cup {[id |-> requests', storage |-> market'.current]}
      BY <2>1 DEF RequestFullSync
    <3>2. requests \in 0 .. MaxRequests
      BY DEF OrderInv
    <3>3. requests' \in 0 .. MaxRequests /\ requests' \in 1 .. MaxRequests
      BY ONLY <1>1, <3>1, <3>2
    <3>4. market'.current \in Nat
      <4>1. IInv'
        BY NextIInv
      <4> QED
        BY <4>1 DEF IInv, Good, MarketOK, MarketType
    <3> QED
      BY <3>1, <3>3, <3>4 DEF OrderInv
  <2>2. CASE \E request \in pending : PollFullSync(request)
    BY <2>2 DEF PollFullSync, environment, OrderInv
  <2>3. (~ RequestFullSync /\ ~ \E request \in pending : PollFullSync(request))
          => UNCHANGED <<requests, pending>>
    BY DEF Next, ReceiveTick, FinishTick, Settle, DebugDump,
           SnapshotWorkerTick, RefreshMarkets, vars, environment
  <2> QED
    BY <2>1, <2>2, <2>3 DEF OrderInv
<1>5. {alive, refused}' \subseteq BOOLEAN
  <2>1. alive' \in {alive, ~ alive}
    BY DEF Next, ReceiveTick, FinishTick, Settle, RequestFullSync, PollFullSync,
           DebugDump, SnapshotWorkerTick, RefreshMarkets, vars, environment
  <2>2. refused' \in {refused, TRUE}
    BY DEF Next, ReceiveTick, FinishTick, SendDelta, Settle, RequestFullSync,
           PollFullSync, DebugDump, SnapshotWorkerTick, RefreshMarkets, vars,
           environment
  <2> QED
    BY <2>1, <2>2 DEF OrderInv
<1> QED
  BY <1>2, <1>3, <1>4, <1>5 DEF OrderInv

\* A sequence with elements of a set is one of the sequences over it.
LEMMA SequenceOver ==
  ASSUME NEW s \in Seq(Nat), NEW S, Range(s) \subseteq S
  PROVE  s \in Seq(S)
<1>1. \A i \in DOMAIN s : s[i] \in S
  BY DEF Range
<1> QED
  BY <1>1

\* The property the run checks follows from the invariants.
LEMMA OrderImplies == IInv /\ OrderInv => TicksInOrder
<1> SUFFICES ASSUME IInv, OrderInv PROVE TicksInOrder
  OBVIOUS
<1> DEFINE m == market
<1>1. /\ m \in MarketType /\ MarketOK(m) /\ ClientOK(client, m) /\ PendingOK(pending, m)
      /\ FreezingOK(m)
  BY DEF IInv, Good, MarketOK
<1>2. /\ m.storages \in Seq(StorageType) /\ Len(m.storages) \in Nat
      /\ DOMAIN m.storages = 1 .. Len(m.storages)
      /\ \A i \in DOMAIN m.storages :
           m.storages[i] \in StorageType /\ m.storages[i].ticks \in Seq(Nat)
           /\ m.storages[i].persisted \in Seq(Nat)
      /\ m.buffer \in Seq(Nat)
  BY <1>1, StorageSequences
<1>3. /\ Ordered(m, received, now) /\ now \in 1 .. MaxTime
      /\ pending \subseteq [id : 1 .. MaxRequests, storage : Nat]
      /\ {alive, refused} \subseteq BOOLEAN
  BY DEF OrderInv
<1>4. Range(received) \subseteq 1 .. MaxTime
  <2>1. MaxTime \in Nat
    BY BoundsAssumption
  <2>2. now \in 1 .. MaxTime
    BY <1>3
  <2>3. 1 .. now \subseteq 1 .. MaxTime
    BY ONLY <2>1, <2>2
  <2> QED
    BY <1>3, <2>3 DEF Ordered
<1>5. TypeOK
  <2>1. \A i \in DOMAIN m.storages :
          /\ m.storages[i].ticks \in Seq(1 .. MaxTime)
          /\ m.storages[i].persistedMark \in BOOLEAN
          /\ m.storages[i].persisted \in Seq(1 .. MaxTime)
    <3> SUFFICES ASSUME NEW i \in DOMAIN m.storages
                 PROVE  /\ m.storages[i].ticks \in Seq(1 .. MaxTime)
                        /\ m.storages[i].persistedMark \in BOOLEAN
                        /\ m.storages[i].persisted \in Seq(1 .. MaxTime)
      OBVIOUS
    <3>1. Range(m.storages[i].ticks) \subseteq 1 .. MaxTime
      BY <1>3, <1>4 DEF Ordered, AllTicks
    <3>2. Range(m.storages[i].persisted) \subseteq 1 .. MaxTime
      BY <1>3, <3>1 DEF Ordered, PersistedTicks
    <3>3. m.storages[i].persistedMark \in BOOLEAN
      BY <1>2 DEF StorageType
    <3> HIDE DEF m
    <3> QED
      BY <1>2, <3>1, <3>2, <3>3, SequenceOver
  <2>2. m.buffer \in Seq(1 .. MaxTime)
    <3>1. Range(m.buffer) \subseteq 1 .. MaxTime
      BY <1>3, <1>4 DEF Ordered
    <3> QED
      BY <1>2, <3>1, SequenceOver
  <2>3. m.current \in 0 .. Len(m.storages) /\ {m.scheduled, m.thrown} \subseteq BOOLEAN
    BY <1>1 DEF MarketOK, MarketType
  <2>4. m.freezing \in {Null} \cup [temperature : -1 .. 0, isFrozen : BOOLEAN]
    <3>1. AtRest \in [temperature : -1 .. 0, isFrozen : BOOLEAN]
          /\ Iced \in [temperature : -1 .. 0, isFrozen : BOOLEAN]
      <4>1. -1 \in -1 .. 0 /\ 0 \in -1 .. 0
        OBVIOUS
      <4> QED
        BY <4>1 DEF AtRest, Iced
    <3> QED
      BY <1>1, <3>1 DEF FreezingOK
  <2>5. \A i \in DOMAIN m.processing : m.processing[i].storage \in DOMAIN m.storages
    BY <1>3 DEF Ordered, CallsKnown
  <2>6. pending \subseteq [id : 1 .. MaxRequests, storage : DOMAIN m.storages]
    <3> SUFFICES ASSUME NEW request \in pending
                 PROVE  request \in [id : 1 .. MaxRequests, storage : DOMAIN m.storages]
      OBVIOUS
    <3>1. /\ request \in [id : 1 .. MaxRequests, storage : Nat]
          /\ request.storage \in DOMAIN m.storages
      BY <1>1, <1>2, <1>3 DEF PendingOK
    <3> QED
      BY <3>1
  <2>7. client = Null \/ client.storage \in DOMAIN m.storages
    BY <1>1, <1>2 DEF ClientOK
  <2> QED
    BY <1>3, <2>1, <2>2, <2>3, <2>4, <2>5, <2>6, <2>7 DEF TypeOK
<1>6. TicksTakenOnce
  BY <1>3 DEF Ordered, TicksTakenOnce
<1> QED
  BY <1>5, <1>6, IInvImplies DEF TicksInOrder

-----------------------------------------------------------------------------
(* The results.                                                            *)

\* The invariant always holds.
LEMMA IInvOfSpec == Spec => []IInv
<1>1. Init => IInv
  BY InitIInv
<1>2. IInv /\ [Next]_vars => IInv'
  BY NextIInv
<1> QED
  BY <1>1, <1>2, PTL DEF Spec

\* Whatever order ticks, full syncs, snapshots, market changes and the debug
\* timer come in, and for every bound on them: freezing and the snapshot worker
\* never throw, the storage under a tick never changes, ticks are processed one
\* at a time with someone to fetch the buffered ones, and every tick received is
\* in one storage or in the buffer, once and in the order of time.
THEOREM TicksStayInOrder == Spec => []TicksInOrder
<1>1. Init => OrderInv
  BY InitOrdered
<1>2. IInv /\ OrderInv /\ [Next]_vars => OrderInv'
  BY NextOrdered
<1>3. IInv /\ OrderInv => TicksInOrder
  BY OrderImplies
<1> QED
  BY <1>1, <1>2, <1>3, IInvOfSpec, PTL DEF Spec

\* The storage of a market that is gone was handed to persistence with its last
\* tick before removeMarketStorage forgets it.
THEOREM RemovedIsPersisted == Spec => []RemovedPersisted
<1>1. IInv => RemovedPersisted
  BY IInvImplies
<1> QED
  BY <1>1, IInvOfSpec, PTL

\* A client that was sent the current storage has its ticks, but for the one
\* whose delta is still to come: no delta falls between the snapshot and the
\* subscription, and none comes twice.
THEOREM ClientFollowsStorage == Spec => []ClientFollows
<1>1. IInv => ClientFollows
  BY IInvImplies
<1> QED
  BY <1>1, IInvOfSpec, PTL
=============================================================================
