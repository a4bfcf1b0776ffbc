------------------------- MODULE FrontendSessionProofs -------------------------
(***************************************************************************)
(* Theorems about the sessions of browser and server, for any number of    *)
(* sockets, markets, client ids, versions and market lists: both ends      *)
(* count the packets alike, deltas continue what the browser has, a quiet  *)
(* browser is up to date, and what is shown comes from one session.        *)
(*                                                                         *)
(* None of these is inductive: each speaks of what has arrived, or of what *)
(* would arrive next.  The invariant, IInv, says of every message on its   *)
(* way what it follows: packets follow each other's server ids, and a      *)
(* delta the version of the packet of its market before it, or that of     *)
(* the storage.  Of the server it says that the next packet would do the   *)
(* same, and that what was sent last of a market is in the version the     *)
(* server has (Reaches).  Of the messages to the server it says that what  *)
(* asks for a storage, for rolling statistics or for the market list comes *)
(* behind webSocketReady.  A session that starts before the browser's old  *)
(* state is cleared has asked for nothing and never will (Unasked): its    *)
(* entities are refused.  Where they are registered, both counts are 0.    *)
(*                                                                         *)
(* The parts are: types; the state of the sockets (Ends); the pages (View);*)
(* and what the ends know of each other (ServerSide).  Most steps of the   *)
(* server do not concern the socket in use (Unnoticed); those of the       *)
(* browser take one message, send some, or end the session.                *)
(***************************************************************************)
EXTENDS FrontendSession, FiniteSetTheorems, TLAPS

-----------------------------------------------------------------------------
(* What follows what among the messages on their way to the browser.       *)

\* What the server sends.
Downward == ServerMessage \union BinaryMessage

\* The places of the messages of a kind M.
At(q, M) == {i \in 1 .. Len(q) : q[i] \in M}

\* The i-th message follows the j-th among those of a kind; 0 is none.
After(q, M, j, i) ==
  /\ i \in At(q, M)
  /\ j \in At(q, M) \union {0}
  /\ j < i
  /\ \A k \in At(q, M) : k <= j \/ i <= k

\* The j-th message is the last of a kind; 0 is none.
Latest(q, M, j) ==
  /\ j \in At(q, M) \union {0}
  /\ \A k \in At(q, M) : k <= j

\* Messages with one more, and without the first.
Put(q, x) == q \o <<x>>
Rest(q) == Tail(q)

\* The places of a kind M among messages with one more behind them.
LEMMA AppendedAt ==
  ASSUME NEW q, NEW x, NEW M, NEW S,
         q \in Seq(S), x \in S
  PROVE  /\ \A i : i \in At(q \o <<x>>, M) <=>
                     (i \in At(q, M) \/ (i = Len(q) + 1 /\ x \in M))
         /\ \A i \in At(q, M) : (q \o <<x>>)[i] = q[i]
         /\ (q \o <<x>>)[Len(q) + 1] = x
         /\ At(q, M) \subseteq 1 .. Len(q)
         /\ Len(q) \in Nat
<1> DEFINE r == q \o <<x>>
<1>1. /\ r \in Seq(S)
      /\ Len(r) = Len(q) + 1
      /\ Len(q) \in Nat
      /\ \A i \in 1 .. Len(q) : r[i] = q[i]
      /\ r[Len(q) + 1] = x
  OBVIOUS
<1> HIDE DEF r
<1>2. \A i : i \in 1 .. Len(r) <=> (i \in 1 .. Len(q) \/ i = Len(q) + 1)
  BY ONLY <1>1
<1>3. ~ (Len(q) + 1 \in 1 .. Len(q))
  BY ONLY <1>1
<1>4. \A i : i \in At(r, M) <=>
               (i \in At(q, M) \/ (i = Len(q) + 1 /\ x \in M))
  BY ONLY <1>1, <1>2, <1>3 DEF At
<1>5. \A i \in At(q, M) : r[i] = q[i]
  BY ONLY <1>1 DEF At
<1>6. At(q, M) \subseteq 1 .. Len(q)
  BY DEF At
<1> QED
  BY <1>1, <1>4, <1>5, <1>6 DEF r

\* The places of a kind M once the first message has been taken.
LEMMA TakenAt ==
  ASSUME NEW q, NEW M, NEW S,
         q \in Seq(S), q # <<>>
  PROVE  /\ \A i : i \in At(Tail(q), M) <=> (i \in Nat \ {0} /\ i + 1 \in At(q, M))
         /\ \A i \in At(Tail(q), M) : Tail(q)[i] = q[i + 1]
         /\ 1 \in At(q, M) <=> Head(q) \in M
         /\ Head(q) = q[1]
         /\ At(q, M) \subseteq Nat \ {0}
<1> DEFINE r == Tail(q)
<1>1. /\ r \in Seq(S)
      /\ Len(r) = Len(q) - 1
      /\ Len(q) \in Nat \ {0}
      /\ \A i \in 1 .. Len(q) - 1 : r[i] = q[i + 1]
      /\ Head(q) = q[1]
  OBVIOUS
<1> HIDE DEF r
<1>2. \A i : i \in 1 .. Len(r) <=> (i \in Nat \ {0} /\ i + 1 \in 1 .. Len(q))
  BY ONLY <1>1
<1>3. \A i \in 1 .. Len(r) : r[i] = q[i + 1]
  BY ONLY <1>1
<1>4. \A i : i \in At(r, M) <=> (i \in Nat \ {0} /\ i + 1 \in At(q, M))
  BY ONLY <1>1, <1>2, <1>3 DEF At
<1>5. \A i \in At(r, M) : r[i] = q[i + 1]
  BY ONLY <1>3 DEF At
<1>6. 1 \in At(q, M) <=> Head(q) \in M
  BY ONLY <1>1 DEF At
<1>7. At(q, M) \subseteq Nat \ {0}
  BY ONLY <1>1 DEF At
<1> QED
  BY <1>1, <1>4, <1>5, <1>6, <1>7 DEF r

\* A message of another kind comes behind the others.
LEMMA OtherAppended ==
  ASSUME NEW q, NEW x, NEW M, NEW i, NEW j,
         q \in Seq(Downward), x \in Downward, x \notin M
  PROVE  /\ After(Put(q, x), M, j, i) <=> After(q, M, j, i)
         /\ Latest(Put(q, x), M, j) <=> Latest(q, M, j)
         /\ i \in At(q, M) => Put(q, x)[i] = q[i]
         /\ j \in At(q, M) => Put(q, x)[j] = q[j]
         /\ At(Put(q, x), M) = At(q, M)
<1>1. \A k : k \in At(Put(q, x), M) <=> k \in At(q, M)
  BY AppendedAt DEF Put
<1>2. At(Put(q, x), M) = At(q, M)
  BY ONLY <1>1
<1>3. \A k \in At(q, M) : Put(q, x)[k] = q[k]
  BY AppendedAt DEF Put
<1> QED
  BY ONLY <1>2, <1>3 DEF After, Latest

\* A message of the kind comes behind the others.
LEMMA OneAppended ==
  ASSUME NEW q, NEW x, NEW M, NEW i, NEW j,
         q \in Seq(Downward), x \in Downward, x \in M
  PROVE  /\ After(Put(q, x), M, j, i) <=>
              After(q, M, j, i) \/ (i = Len(q) + 1 /\ Latest(q, M, j))
         /\ Latest(Put(q, x), M, j) <=> j = Len(q) + 1
         /\ i \in At(q, M) => Put(q, x)[i] = q[i]
         /\ j \in At(q, M) => Put(q, x)[j] = q[j]
         /\ Put(q, x)[Len(q) + 1] = x
         /\ Len(q) \in Nat
<1> DEFINE A == At(q, M)
           B == At(Put(q, x), M)
           n == Len(q)
<1>1. /\ \A k : k \in B <=> (k \in A \/ k = n + 1)
      /\ \A k \in A : Put(q, x)[k] = q[k]
      /\ Put(q, x)[n + 1] = x
      /\ A \subseteq 1 .. n
      /\ n \in Nat
  BY AppendedAt DEF Put
<1> HIDE DEF A, B, n
<1>2. ASSUME i \in B, j \in B \union {0}, j < i,
             \A k \in B : k <= j \/ i <= k
      PROVE  \/ /\ i \in A /\ j \in A \union {0} /\ j < i
                /\ \A k \in A : k <= j \/ i <= k
             \/ /\ i = n + 1 /\ j \in A \union {0}
                /\ \A k \in A : k <= j
  <2>1. \A k \in A : k \in 1 .. n /\ k \in B
    BY ONLY <1>1
  <2>2. CASE i \in A
    <3>1. j # n + 1
      BY ONLY <2>1, <2>2, <1>1, <1>2
    <3> QED
      BY ONLY <3>1, <2>1, <2>2, <1>1, <1>2
  <2>3. CASE i = n + 1
    <3>1. j \in A \union {0} /\ j \in 0 .. n
      BY ONLY <2>1, <2>3, <1>1, <1>2
    <3>2. ASSUME NEW k \in A PROVE k <= j
      <4>1. k \in 1 .. n /\ (k <= j \/ n + 1 <= k)
        BY ONLY <2>1, <2>3, <1>2, k \in A
      <4> QED
        BY ONLY <4>1, <3>1, <1>1
    <3> QED
      BY <2>3, <3>1, <3>2
  <2> QED
    BY ONLY <1>1, <1>2, <2>2, <2>3
<1>3. ASSUME i \in A, j \in A \union {0}, j < i,
             \A k \in A : k <= j \/ i <= k
      PROVE  /\ i \in B /\ j \in B \union {0} /\ j < i
             /\ \A k \in B : k <= j \/ i <= k
  <2>1. i <= n + 1
    BY ONLY <1>1, <1>3
  <2> QED
    BY ONLY <1>1, <1>3, <2>1
<1>4. ASSUME i = n + 1, j \in A \union {0}, \A k \in A : k <= j
      PROVE  /\ i \in B /\ j \in B \union {0} /\ j < i
             /\ \A k \in B : k <= j \/ i <= k
  <2>1. n + 1 <= n + 1 /\ j \in 0 .. n
    BY ONLY <1>1, <1>4
  <2>2. i \in B /\ j \in B \union {0} /\ j < i
    BY ONLY <1>1, <1>4, <2>1
  <2>3. \A k \in B : k <= j \/ i <= k
    BY ONLY <1>1, <1>4, <2>1
  <2> QED
    BY <2>2, <2>3
<1>5. (j \in B \union {0} /\ \A k \in B : k <= j) <=> j = n + 1
  <2>1. ASSUME j \in B \union {0}, \A k \in B : k <= j
        PROVE  j = n + 1
    <3>1. n + 1 <= j
      BY ONLY <1>1, <2>1
    <3>2. j \in 0 .. n \/ j = n + 1
      <4>1. \A k \in A : k \in 0 .. n
        BY ONLY <1>1
      <4>2. 0 \in 0 .. n
        BY ONLY <1>1
      <4> QED
        BY ONLY <1>1, <2>1, <4>1, <4>2
    <3> QED
      BY ONLY <1>1, <3>1, <3>2
  <2>2. ASSUME j = n + 1
        PROVE  j \in B \union {0} /\ \A k \in B : k <= j
    <3>1. \A k \in A : k <= n + 1
      BY ONLY <1>1
    <3>2. n + 1 <= n + 1
      BY ONLY <1>1
    <3> QED
      BY ONLY <1>1, <3>1, <3>2, <2>2
  <2> QED
    BY <2>1, <2>2
<1> QED
  BY <1>1, <1>2, <1>3, <1>4, <1>5 DEF After, Latest, A, B, n

\* The place of the message that an i-th message follows, once the first
\* message has been received.
Moved(q, M, j) == IF j = 0 THEN (IF Head(q) \in M THEN 1 ELSE 0) ELSE j + 1

\* What follows what once the first message has been taken.
LEMMA OneTaken ==
  ASSUME NEW q, NEW M, NEW i, NEW j,
         q \in Seq(Downward), q # <<>>
  PROVE  /\ After(Rest(q), M, j, i) => After(q, M, Moved(q, M, j), i + 1)
         /\ Latest(Rest(q), M, j) => Latest(q, M, Moved(q, M, j))
         /\ i \in At(Rest(q), M) => Rest(q)[i] = q[i + 1]
         /\ j \in At(Rest(q), M) => Rest(q)[j] = q[j + 1]
         /\ Head(q) = q[1]
<1> DEFINE A == At(q, M)
           B == At(Rest(q), M)
           h == Moved(q, M, j)
<1>1. /\ \A k : k \in B <=> (k \in Nat \ {0} /\ k + 1 \in A)
      /\ \A k \in B : Rest(q)[k] = q[k + 1]
      /\ 1 \in A <=> Head(q) \in M
      /\ Head(q) = q[1]
      /\ A \subseteq Nat \ {0}
  BY TakenAt DEF Rest
<1>2. h = IF j = 0 THEN (IF 1 \in A THEN 1 ELSE 0) ELSE j + 1
  BY <1>1 DEF Moved
<1> HIDE DEF A, B, h
<1>3. \A k \in A : k = 1 \/ (k - 1 \in B /\ k = (k - 1) + 1)
  BY ONLY <1>1
<1>4. (i \in B /\ j \in B \union {0} /\ j < i /\ \A k \in B : k <= j \/ i <= k)
        => /\ i + 1 \in A /\ h \in A \union {0} /\ h < i + 1
           /\ \A k \in A : k <= h \/ i + 1 <= k
  <2> SUFFICES ASSUME i \in B, j \in B \union {0}, j < i,
                      \A k \in B : k <= j \/ i <= k
               PROVE  /\ i + 1 \in A /\ h \in A \union {0} /\ h < i + 1
                      /\ \A k \in A : k <= h \/ i + 1 <= k
    OBVIOUS
  <2>1. i \in Nat \ {0} /\ i + 1 \in A /\ j \in Nat
    BY ONLY <1>1, i \in B, j \in B \union {0}
  <2>2. h \in A \union {0} /\ h \in Nat /\ h < i + 1
    BY ONLY <2>1, <1>1, <1>2, j < i, j \in B \union {0}
  <2>3. ASSUME NEW k \in A PROVE k <= h \/ i + 1 <= k
    <3>1. CASE k = 1
      BY ONLY <3>1, <1>2, <2>1, k \in A
    <3>2. CASE k - 1 \in B /\ k = (k - 1) + 1
      <4>1. k - 1 <= j \/ i <= k - 1
        BY ONLY <3>2, \A l \in B : l <= j \/ i <= l
      <4>2. k \in Nat \ {0}
        BY ONLY <1>1, k \in A
      <4>3. CASE k - 1 <= j
        <5>1. j # 0
          BY ONLY <4>3, <4>2, <3>2, <1>1
        <5> QED
          BY ONLY <5>1, <4>3, <4>2, <2>1, <1>2
      <4>4. CASE i <= k - 1
        BY ONLY <4>4, <4>2, <2>1
      <4> QED
        BY <4>1, <4>3, <4>4
    <3> QED
      BY <3>1, <3>2, <1>3
  <2> QED
    BY <2>1, <2>2, <2>3
<1>5. (j \in B \union {0} /\ \A k \in B : k <= j)
        => (h \in A \union {0} /\ \A k \in A : k <= h)
  <2> SUFFICES ASSUME j \in B \union {0}, \A k \in B : k <= j
               PROVE  h \in A \union {0} /\ \A k \in A : k <= h
    OBVIOUS
  <2>1. j \in Nat /\ h \in A \union {0} /\ h \in Nat
    BY ONLY <1>1, <1>2, j \in B \union {0}
  <2>3. ASSUME NEW k \in A PROVE k <= h
    <3>1. CASE k = 1
      BY ONLY <3>1, <1>2, <2>1, k \in A
    <3>2. CASE k - 1 \in B /\ k = (k - 1) + 1
      <4>1. k - 1 <= j
        BY ONLY <3>2, \A l \in B : l <= j
      <4>2. k \in Nat \ {0}
        BY ONLY <1>1, k \in A
      <4>3. j # 0
        BY ONLY <4>1, <4>2, <3>2, <1>1
      <4> QED
        BY ONLY <4>3, <4>1, <4>2, <2>1, <1>2
    <3> QED
      BY <3>1, <3>2, <1>3
  <2> QED
    BY <2>1, <2>3
<1> QED
  BY <1>1, <1>4, <1>5 DEF After, Latest, A, B, h

\* Nothing follows anything where nothing was sent.
LEMMA NothingSent ==
  ASSUME NEW M, NEW i, NEW j
  PROVE  /\ ~ After(<<>>, M, j, i)
         /\ Latest(<<>>, M, j) <=> j = 0
         /\ At(<<>>, M) = {}
<1>1. At(<<>>, M) = {}
  BY DEF At
<1> QED
  BY <1>1 DEF After, Latest

-----------------------------------------------------------------------------
(* Server ids.                                                             *)

\* The packets and the rolling statistics of a market, and the market lists.
BinariesOf(m) == {b \in BinaryMessage : b.market = m}
MarketLists == {b \in ServerMessage : b.type = "marketsUpdated"}
RollingsOf(m) ==
  {b \in ServerMessage : b.type = "marketRollingUpdated" /\ b.market = m}

\* The server id of the j-th message, or of the binary received last.
ServerIdAt(q, j, last) == IF j = 0 THEN last ELSE q[j].serverId

\* The server ids of the binaries among q continue those received.
Counting(q, last) ==
  \A i, j \in Nat :
    After(q, BinaryMessage, j, i) =>
      q[i].serverId = ServerIdAt(q, j, last) + 1

\* The server will go on with the id next.
NextIs(q, last, next) ==
  \A j \in Nat :
    Latest(q, BinaryMessage, j) => next = ServerIdAt(q, j, last) + 1

\* Places are numbers of messages of the kind.
LEMMA AfterIsPlace ==
  ASSUME NEW q, NEW M, NEW i, NEW j
  PROVE  /\ After(q, M, j, i) => i \in At(q, M) /\ j \in At(q, M) \union {0}
         /\ Latest(q, M, j) => j \in At(q, M) \union {0}
         /\ At(q, M) \subseteq Nat \ {0}
BY DEF After, Latest, At

\* A message without a server id leaves the count.
LEMMA CountingOther ==
  ASSUME NEW q, NEW x, NEW last, NEW next,
         q \in Seq(Downward), x \in Downward, x \notin BinaryMessage
  PROVE  /\ Counting(q, last) => Counting(Put(q, x), last)
         /\ NextIs(q, last, next) => NextIs(Put(q, x), last, next)
<1> DEFINE r == Put(q, x)
<1>1. ASSUME NEW i \in Nat, NEW j \in Nat
      PROVE  /\ After(r, BinaryMessage, j, i) <=> After(q, BinaryMessage, j, i)
             /\ Latest(r, BinaryMessage, j) <=> Latest(q, BinaryMessage, j)
             /\ i \in At(q, BinaryMessage) => r[i] = q[i]
             /\ j \in At(q, BinaryMessage) => r[j] = q[j]
  BY OtherAppended
<1>2. ASSUME NEW i \in Nat, NEW j \in Nat, Counting(q, last),
             After(r, BinaryMessage, j, i)
      PROVE  r[i].serverId = ServerIdAt(r, j, last) + 1
  <2>1. After(q, BinaryMessage, j, i)
    BY <1>1, <1>2
  <2>2. i \in At(q, BinaryMessage) /\ j \in At(q, BinaryMessage) \union {0}
    BY <2>1, AfterIsPlace
  <2>3. q[i].serverId = ServerIdAt(q, j, last) + 1
    BY <1>2, <2>1 DEF Counting
  <2>4. r[i] = q[i] /\ (j # 0 => r[j] = q[j])
    BY <1>1, <2>2
  <2> HIDE DEF r
  <2> QED
    BY ONLY <2>3, <2>4 DEF ServerIdAt
<1>3. ASSUME NEW j \in Nat, NextIs(q, last, next), Latest(r, BinaryMessage, j)
      PROVE  next = ServerIdAt(r, j, last) + 1
  <2>1. Latest(q, BinaryMessage, j)
    BY <1>1, <1>3
  <2>2. j \in At(q, BinaryMessage) \union {0}
    BY <2>1, AfterIsPlace
  <2>3. next = ServerIdAt(q, j, last) + 1
    BY <1>3, <2>1 DEF NextIs
  <2>4. j # 0 => r[j] = q[j]
    BY <1>1, <2>2
  <2> HIDE DEF r
  <2> QED
    BY ONLY <2>3, <2>4 DEF ServerIdAt
<1> QED
  BY <1>2, <1>3 DEF Counting, NextIs, r

\* A packet sent with the next server id (getNextServerId) is counted.
LEMMA CountingBinary ==
  ASSUME NEW q, NEW x, NEW last,
         q \in Seq(Downward), x \in BinaryMessage,
         Counting(q, last), NextIs(q, last, x.serverId)
  PROVE  /\ Counting(Put(q, x), last)
         /\ NextIs(Put(q, x), last, x.serverId + 1)
<1> DEFINE r == Put(q, x)
<1>1. x \in Downward
  BY DEF Downward
<1>2. ASSUME NEW i \in Nat, NEW j \in Nat
      PROVE  /\ After(r, BinaryMessage, j, i) <=>
                  \/ After(q, BinaryMessage, j, i)
                  \/ i = Len(q) + 1 /\ Latest(q, BinaryMessage, j)
             /\ Latest(r, BinaryMessage, j) <=> j = Len(q) + 1
             /\ i \in At(q, BinaryMessage) => r[i] = q[i]
             /\ j \in At(q, BinaryMessage) => r[j] = q[j]
             /\ r[Len(q) + 1] = x
             /\ Len(q) \in Nat
  BY <1>1, OneAppended
<1>3. ASSUME NEW i \in Nat, NEW j \in Nat, After(r, BinaryMessage, j, i)
      PROVE  r[i].serverId = ServerIdAt(r, j, last) + 1
  <2>1. CASE After(q, BinaryMessage, j, i)
    <3>2. i \in At(q, BinaryMessage) /\ j \in At(q, BinaryMessage) \union {0}
      BY <2>1, AfterIsPlace
    <3>3. q[i].serverId = ServerIdAt(q, j, last) + 1
      BY <2>1 DEF Counting
    <3>4. r[i] = q[i] /\ (j # 0 => r[j] = q[j])
      BY <1>2, <3>2
    <3> HIDE DEF r
    <3> QED
      BY ONLY <3>3, <3>4 DEF ServerIdAt
  <2>2. CASE i = Len(q) + 1 /\ Latest(q, BinaryMessage, j)
    <3>2. j \in At(q, BinaryMessage) \union {0}
      BY <2>2, AfterIsPlace
    <3>3. x.serverId = ServerIdAt(q, j, last) + 1
      BY <2>2 DEF NextIs
    <3>4. r[i] = x /\ (j # 0 => r[j] = q[j])
      BY <1>2, <3>2, <2>2
    <3> HIDE DEF r
    <3> QED
      BY ONLY <3>3, <3>4 DEF ServerIdAt
  <2> QED
    BY <1>2, <1>3, <2>1, <2>2
<1>4. ASSUME NEW j \in Nat, Latest(r, BinaryMessage, j)
      PROVE  x.serverId + 1 = ServerIdAt(r, j, last) + 1
  <2>1. r[j] = x /\ j # 0
    BY <1>2, <1>4
  <2> HIDE DEF r
  <2> QED
    BY ONLY <2>1 DEF ServerIdAt
<1> QED
  BY <1>3, <1>4 DEF Counting, NextIs, r

\* The count goes on from a packet that has been received (acceptServerId).
LEMMA CountingTaken ==
  ASSUME NEW q, NEW last, NEW next, NEW new,
         q \in Seq(Downward), q # <<>>,
         new = IF Head(q) \in BinaryMessage THEN Head(q).serverId ELSE last
  PROVE  /\ Counting(q, last) => Counting(Rest(q), new)
         /\ NextIs(q, last, next) => NextIs(Rest(q), new, next)
<1> DEFINE r == Rest(q)
           h(j) == Moved(q, BinaryMessage, j)
<1>1. ASSUME NEW i \in Nat, NEW j \in Nat
      PROVE  /\ After(r, BinaryMessage, j, i) =>
                  After(q, BinaryMessage, h(j), i + 1)
             /\ Latest(r, BinaryMessage, j) => Latest(q, BinaryMessage, h(j))
             /\ i \in At(r, BinaryMessage) => r[i] = q[i + 1]
             /\ j \in At(r, BinaryMessage) => r[j] = q[j + 1]
             /\ Head(q) = q[1]
  BY OneTaken
<1>2. ASSUME NEW j \in Nat, j \in At(r, BinaryMessage) \union {0}
      PROVE  h(j) \in Nat /\ ServerIdAt(q, h(j), last) = ServerIdAt(r, j, new)
  <2>1. CASE j = 0
    BY <2>1, <1>1 DEF Moved, ServerIdAt
  <2>2. CASE j # 0
    <3>1. r[j] = q[j + 1]
      BY <2>2, <1>1, <1>2
    <3>2. h(j) = j + 1
      BY <2>2 DEF Moved
    <3> QED
      BY <3>1, <3>2, <2>2 DEF ServerIdAt
  <2> QED
    BY <2>1, <2>2
<1> HIDE DEF h
<1>3. ASSUME NEW i \in Nat, NEW j \in Nat, Counting(q, last),
             After(r, BinaryMessage, j, i)
      PROVE  r[i].serverId = ServerIdAt(r, j, new) + 1
  <2>1. i \in At(r, BinaryMessage) /\ j \in At(r, BinaryMessage) \union {0}
    BY <1>3, AfterIsPlace
  <2>2. After(q, BinaryMessage, h(j), i + 1) /\ r[i] = q[i + 1]
    BY <1>1, <1>3, <2>1
  <2>3. h(j) \in Nat /\ ServerIdAt(q, h(j), last) = ServerIdAt(r, j, new)
    BY <1>2, <2>1
  <2>4. q[i + 1].serverId = ServerIdAt(q, h(j), last) + 1
    BY <1>3, <2>2, <2>3 DEF Counting
  <2> QED
    BY ONLY <2>2, <2>3, <2>4
<1>4. ASSUME NEW j \in Nat, NextIs(q, last, next), Latest(r, BinaryMessage, j)
      PROVE  next = ServerIdAt(r, j, new) + 1
  <2>1. j \in At(r, BinaryMessage) \union {0}
    BY <1>4, AfterIsPlace
  <2>2. Latest(q, BinaryMessage, h(j))
    BY <1>1, <1>4
  <2>3. h(j) \in Nat /\ ServerIdAt(q, h(j), last) = ServerIdAt(r, j, new)
    BY <1>2, <2>1
  <2>4. next = ServerIdAt(q, h(j), last) + 1
    BY <1>4, <2>2, <2>3 DEF NextIs
  <2> QED
    BY ONLY <2>3, <2>4
<1> QED
  BY <1>3, <1>4 DEF Counting, NextIs, r

\* The first message is a binary: it has the id the browser expects.
LEMMA HeadFollows ==
  ASSUME NEW q, NEW M,
         q \in Seq(Downward), q # <<>>, Head(q) \in M
  PROVE  After(q, M, 0, 1) /\ Head(q) = q[1]
<1>1. 1 \in At(q, M) /\ Head(q) = q[1] /\ At(q, M) \subseteq Nat \ {0}
  BY TakenAt
<1> QED
  BY <1>1 DEF After

\* The first packet on its way has the id acceptServerId waits for.
LEMMA CountingHead ==
  ASSUME NEW q, NEW last,
         q \in Seq(Downward), q # <<>>, Head(q) \in BinaryMessage,
         Counting(q, last)
  PROVE  Head(q).serverId = last + 1
<1>1. After(q, BinaryMessage, 0, 1) /\ Head(q) = q[1]
  BY HeadFollows
<1> QED
  BY <1>1 DEF Counting, ServerIdAt

\* Without packets on their way the next id is the one behind the last.
LEMMA CountingNone ==
  ASSUME NEW q, NEW last, At(q, BinaryMessage) = {}
  PROVE  Counting(q, last) /\ NextIs(q, last, last + 1)
BY DEF Counting, NextIs, After, Latest, ServerIdAt

-----------------------------------------------------------------------------
(* What was sent last of something.                                        *)

\* The last message of the kind M carries the id and the version v; when
\* there is none, one who expects the id has seen v already.
ReachesAt(q, j, id, v, ids, seen) ==
  IF j = 0 THEN id \in ids => seen = v
           ELSE q[j].clientId = id /\ q[j].version = v

Reaches(q, M, id, v, ids, seen) ==
  \A j \in Nat : Latest(q, M, j) => ReachesAt(q, j, id, v, ids, seen)

\* A message of another kind leaves what was sent last.
LEMMA ReachesOther ==
  ASSUME NEW q, NEW x, NEW M, NEW id, NEW v, NEW ids, NEW seen,
         q \in Seq(Downward), x \in Downward, x \notin M,
         Reaches(q, M, id, v, ids, seen)
  PROVE  Reaches(Put(q, x), M, id, v, ids, seen)
<1> DEFINE r == Put(q, x)
<1>1. ASSUME NEW j \in Nat, Latest(r, M, j)
      PROVE  ReachesAt(r, j, id, v, ids, seen)
  <2>1. /\ After(r, M, j, j) <=> After(q, M, j, j)
        /\ Latest(r, M, j) <=> Latest(q, M, j)
        /\ j \in At(q, M) => r[j] = q[j]
    BY OtherAppended
  <2>2. Latest(q, M, j) /\ (j # 0 => r[j] = q[j])
    BY <1>1, <2>1, AfterIsPlace
  <2>3. ReachesAt(q, j, id, v, ids, seen)
    BY <2>2 DEF Reaches
  <2> HIDE DEF r
  <2> QED
    BY ONLY <2>2, <2>3 DEF ReachesAt
<1> QED
  BY <1>1 DEF Reaches, r

\* What is sent now is what was sent last.
LEMMA ReachesSent ==
  ASSUME NEW q, NEW x, NEW M, NEW ids, NEW seen,
         q \in Seq(Downward), x \in Downward, x \in M
  PROVE  Reaches(Put(q, x), M, x.clientId, x.version, ids, seen)
<1> DEFINE r == Put(q, x)
<1>1. ASSUME NEW j \in Nat, Latest(r, M, j)
      PROVE  ReachesAt(r, j, x.clientId, x.version, ids, seen)
  <2>1. j = Len(q) + 1 /\ r[Len(q) + 1] = x /\ Len(q) \in Nat
    BY <1>1, OneAppended
  <2>2. j # 0 /\ r[j] = x
    BY <2>1
  <2> HIDE DEF r
  <2> QED
    BY ONLY <2>2 DEF ReachesAt
<1> QED
  BY <1>1 DEF Reaches, r

\* What was sent last stays so, or has been seen, when a message is taken.
LEMMA ReachesTaken ==
  ASSUME NEW q, NEW M, NEW id, NEW v, NEW ids, NEW seen, NEW new,
         q \in Seq(Downward), q # <<>>,
         Reaches(q, M, id, v, ids, seen),
         Head(q) \in M => (Head(q).clientId \in ids => new = Head(q).version),
         Head(q) \notin M => new = seen
  PROVE  Reaches(Rest(q), M, id, v, ids, new)
<1> DEFINE r == Rest(q)
<1>1. ASSUME NEW j \in Nat, Latest(r, M, j)
      PROVE  ReachesAt(r, j, id, v, ids, new)
  <2>1. /\ Latest(q, M, Moved(q, M, j))
        /\ j \in At(r, M) => r[j] = q[j + 1]
        /\ Head(q) = q[1]
    BY <1>1, OneTaken
  <2>2. Moved(q, M, j) \in Nat
    BY DEF Moved
  <2>3. ReachesAt(q, Moved(q, M, j), id, v, ids, seen)
    BY <2>1, <2>2 DEF Reaches
  <2>4. CASE j = 0
    BY ONLY <2>1, <2>3, <2>4,
       Head(q) \in M => (Head(q).clientId \in ids => new = Head(q).version),
       Head(q) \notin M => new = seen
       DEF ReachesAt, Moved
  <2>5. CASE j # 0
    <3>1. r[j] = q[j + 1]
      BY <1>1, <2>1, <2>5, AfterIsPlace
    <3>2. Moved(q, M, j) = j + 1 /\ j + 1 # 0
      BY <2>5 DEF Moved
    <3> HIDE DEF r
    <3> QED
      BY ONLY <2>3, <2>5, <3>1, <3>2 DEF ReachesAt
  <2> QED
    BY <2>4, <2>5
<1> QED
  BY <1>1 DEF Reaches, r

\* Others are expected, or something else has been seen.
LEMMA ReachesOthers ==
  ASSUME NEW q, NEW M, NEW id, NEW v, NEW ids, NEW seen, NEW others, NEW new,
         Reaches(q, M, id, v, ids, seen),
         id \in others => id \in ids /\ new = seen
  PROVE  Reaches(q, M, id, v, others, new)
BY DEF Reaches, ReachesAt

\* With nothing on its way the last thing sent has been seen.
LEMMA ReachesNone ==
  ASSUME NEW q, NEW M, NEW id, NEW v, NEW ids, NEW seen,
         At(q, M) = {}, id \in ids => seen = v
  PROVE  Reaches(q, M, id, v, ids, seen)
BY DEF Reaches, ReachesAt, Latest

-----------------------------------------------------------------------------
(* Deltas.                                                                 *)

\* The i-th message, a delta, fits the binary of its market before it, or
\* what the browser has.
DeltaFits(q, i, j, ids, ticks) ==
  IF j = 0 THEN q[i].clientId \in ids => q[i].version = ticks + 1
           ELSE /\ q[i].clientId = q[j].clientId
                /\ q[i].version = q[j].version + 1

DeltasFit(q, M, ids, ticks) ==
  \A i, j \in Nat :
    After(q, M, j, i) /\ q[i].type = "delta" => DeltaFits(q, i, j, ids, ticks)

\* A message of another kind leaves the deltas fitting.
LEMMA DeltasOther ==
  ASSUME NEW q, NEW x, NEW M, NEW ids, NEW ticks,
         q \in Seq(Downward), x \in Downward, x \notin M,
         DeltasFit(q, M, ids, ticks)
  PROVE  DeltasFit(Put(q, x), M, ids, ticks)
<1> DEFINE r == Put(q, x)
<1>1. ASSUME NEW i \in Nat, NEW j \in Nat, After(r, M, j, i), r[i].type = "delta"
      PROVE  DeltaFits(r, i, j, ids, ticks)
  <2>1. /\ After(q, M, j, i)
        /\ i \in At(q, M) => r[i] = q[i]
        /\ j \in At(q, M) => r[j] = q[j]
    BY <1>1, OtherAppended
  <2>2. r[i] = q[i] /\ (j # 0 => r[j] = q[j])
    BY <2>1, AfterIsPlace
  <2>3. DeltaFits(q, i, j, ids, ticks)
    BY <1>1, <2>1, <2>2 DEF DeltasFit
  <2> HIDE DEF r
  <2> QED
    BY ONLY <2>2, <2>3 DEF DeltaFits
<1> QED
  BY <1>1 DEF DeltasFit, r

\* A snapshot may come at any time, a delta of what was sent last.
LEMMA DeltasSent ==
  ASSUME NEW q, NEW x, NEW M, NEW ids, NEW ticks,
         q \in Seq(Downward), x \in Downward, x \in M,
         DeltasFit(q, M, ids, ticks),
         x.type # "delta" \/
           \E v \in Nat : x.version = v + 1
                            /\ Reaches(q, M, x.clientId, v, ids, ticks)
  PROVE  DeltasFit(Put(q, x), M, ids, ticks)
<1> DEFINE r == Put(q, x)
<1>1. ASSUME NEW i \in Nat, NEW j \in Nat, After(r, M, j, i), r[i].type = "delta"
      PROVE  DeltaFits(r, i, j, ids, ticks)
  <2>1. /\ After(q, M, j, i) \/ (i = Len(q) + 1 /\ Latest(q, M, j))
        /\ i \in At(q, M) => r[i] = q[i]
        /\ j \in At(q, M) => r[j] = q[j]
        /\ r[Len(q) + 1] = x
    BY <1>1, OneAppended
  <2>2. j # 0 => r[j] = q[j]
    BY <2>1, AfterIsPlace
  <2>3. CASE After(q, M, j, i)
    <3>1. r[i] = q[i]
      BY <2>1, <2>3, AfterIsPlace
    <3>2. DeltaFits(q, i, j, ids, ticks)
      BY <1>1, <2>3, <3>1 DEF DeltasFit
    <3> HIDE DEF r
    <3> QED
      BY ONLY <2>2, <3>1, <3>2 DEF DeltaFits
  <2>4. CASE i = Len(q) + 1 /\ Latest(q, M, j)
    <3>1. r[i] = x
      BY <2>1, <2>4
    <3>2. PICK v \in Nat : x.version = v + 1
                             /\ Reaches(q, M, x.clientId, v, ids, ticks)
      BY <1>1, <3>1
    <3>3. ReachesAt(q, j, x.clientId, v, ids, ticks)
      BY <2>4, <3>2 DEF Reaches
    <3> HIDE DEF r
    <3> QED
      BY ONLY <2>2, <3>1, <3>2, <3>3 DEF DeltaFits, ReachesAt
  <2> QED
    BY <2>1, <2>3, <2>4
<1> QED
  BY <1>1 DEF DeltasFit, r

\* The deltas behind a message that is taken fit what the browser has then.
LEMMA DeltasTaken ==
  ASSUME NEW q, NEW M, NEW ids, NEW ticks, NEW new,
         q \in Seq(Downward), q # <<>>,
         DeltasFit(q, M, ids, ticks),
         Head(q) \in M => (Head(q).clientId \in ids => new = Head(q).version),
         Head(q) \notin M => new = ticks
  PROVE  DeltasFit(Rest(q), M, ids, new)
<1> DEFINE r == Rest(q)
<1>1. ASSUME NEW i \in Nat, NEW j \in Nat, After(r, M, j, i), r[i].type = "delta"
      PROVE  DeltaFits(r, i, j, ids, new)
  <2>1. /\ After(q, M, Moved(q, M, j), i + 1)
        /\ i \in At(r, M) => r[i] = q[i + 1]
        /\ j \in At(r, M) => r[j] = q[j + 1]
        /\ Head(q) = q[1]
    BY <1>1, OneTaken
  <2>2. Moved(q, M, j) \in Nat /\ i + 1 \in Nat
    BY DEF Moved
  <2>3. r[i] = q[i + 1]
    BY <1>1, <2>1, AfterIsPlace
  <2>4. DeltaFits(q, i + 1, Moved(q, M, j), ids, ticks)
    BY <1>1, <2>1, <2>2, <2>3 DEF DeltasFit
  <2>5. CASE j = 0 /\ Head(q) \in M
    <3>1. Moved(q, M, j) = 1
      BY <2>5 DEF Moved
    <3> HIDE DEF r
    <3>2. r[i].clientId = Head(q).clientId /\ r[i].version = Head(q).version + 1
      BY ONLY <3>1, <2>1, <2>3, <2>4 DEF DeltaFits
    <3> QED
      BY ONLY <3>2, <2>5,
         Head(q) \in M => (Head(q).clientId \in ids => new = Head(q).version)
         DEF DeltaFits
  <2>6. CASE j = 0 /\ Head(q) \notin M
    <3>1. Moved(q, M, j) = 0
      BY <2>6 DEF Moved
    <3> HIDE DEF r
    <3> QED
      BY ONLY <3>1, <2>3, <2>4, <2>6, Head(q) \notin M => new = ticks
         DEF DeltaFits
  <2>7. CASE j # 0
    <3>1. r[j] = q[j + 1]
      BY <1>1, <2>1, <2>7, AfterIsPlace
    <3>2. Moved(q, M, j) = j + 1 /\ j + 1 # 0
      BY <2>7 DEF Moved
    <3> HIDE DEF r
    <3> QED
      BY ONLY <2>3, <2>4, <2>7, <3>1, <3>2 DEF DeltaFits
  <2> QED
    BY <2>5, <2>6, <2>7
<1> QED
  BY <1>1 DEF DeltasFit, r

\* Deltas fit when no more client ids are expected (removeStatistics, a new
\* request) than of what the browser has.
LEMMA DeltasOthers ==
  ASSUME NEW q, NEW M, NEW ids, NEW ticks, NEW others, NEW new,
         DeltasFit(q, M, ids, ticks),
         \A i \in At(q, M) :
           q[i].clientId \in others => q[i].clientId \in ids /\ new = ticks
  PROVE  DeltasFit(q, M, others, new)
<1>1. ASSUME NEW i \in Nat, NEW j \in Nat, After(q, M, j, i), q[i].type = "delta"
      PROVE  DeltaFits(q, i, j, others, new)
  <2>1. DeltaFits(q, i, j, ids, ticks)
    BY <1>1 DEF DeltasFit
  <2>2. i \in At(q, M)
    BY <1>1, AfterIsPlace
  <2> QED
    BY <2>1, <2>2 DEF DeltaFits
<1> QED
  BY <1>1 DEF DeltasFit

\* No delta is on its way.
LEMMA DeltasNone ==
  ASSUME NEW q, NEW M, NEW ids, NEW ticks, At(q, M) = {}
  PROVE  DeltasFit(q, M, ids, ticks)
BY DEF DeltasFit, After

\* The first delta on its way continues the storage of the browser.
LEMMA DeltasHead ==
  ASSUME NEW q, NEW M, NEW ids, NEW ticks,
         q \in Seq(Downward), q # <<>>, Head(q) \in M,
         DeltasFit(q, M, ids, ticks), Head(q).type = "delta",
         Head(q).clientId \in ids
  PROVE  Head(q).version = ticks + 1
<1>1. After(q, M, 0, 1) /\ Head(q) = q[1]
  BY HeadFollows
<1>2. DeltaFits(q, 1, 0, ids, ticks)
  BY <1>1 DEF DeltasFit
<1> QED
  BY <1>1, <1>2 DEF DeltaFits

-----------------------------------------------------------------------------
(* Market lists.                                                           *)

\* The market list the j-th message carries, or the one received.
ListAt(q, j, list) == IF j = 0 THEN list ELSE q[j].markets

\* The market list sent last is the current one.
ListReaches(q, list, current) ==
  \A j \in Nat : Latest(q, MarketLists, j) => ListAt(q, j, list) = current

\* A message of another kind leaves the market list sent last.
LEMMA ListOther ==
  ASSUME NEW q, NEW x, NEW list, NEW current,
         q \in Seq(Downward), x \in Downward, x \notin MarketLists,
         ListReaches(q, list, current)
  PROVE  ListReaches(Put(q, x), list, current)
<1> DEFINE r == Put(q, x)
<1>1. ASSUME NEW j \in Nat, Latest(r, MarketLists, j)
      PROVE  ListAt(r, j, list) = current
  <2>1. /\ Latest(q, MarketLists, j)
        /\ j \in At(q, MarketLists) => r[j] = q[j]
    BY <1>1, OtherAppended
  <2>2. j # 0 => r[j] = q[j]
    BY <2>1, AfterIsPlace
  <2>3. ListAt(q, j, list) = current
    BY <2>1 DEF ListReaches
  <2> HIDE DEF r
  <2> QED
    BY ONLY <2>2, <2>3 DEF ListAt
<1> QED
  BY <1>1 DEF ListReaches, r

\* The list that is sent now is the one sent last.
LEMMA ListSent ==
  ASSUME NEW q, NEW x, NEW list,
         q \in Seq(Downward), x \in Downward, x \in MarketLists
  PROVE  ListReaches(Put(q, x), list, x.markets)
<1> DEFINE r == Put(q, x)
<1>1. ASSUME NEW j \in Nat, Latest(r, MarketLists, j)
      PROVE  ListAt(r, j, list) = x.markets
  <2>1. j = Len(q) + 1 /\ r[Len(q) + 1] = x /\ Len(q) \in Nat
    BY <1>1, OneAppended
  <2>2. j # 0 /\ r[j] = x
    BY <2>1
  <2> HIDE DEF r
  <2> QED
    BY ONLY <2>2 DEF ListAt
<1> QED
  BY <1>1 DEF ListReaches, r

\* The list sent last stays so, or has been received.
LEMMA ListTaken ==
  ASSUME NEW q, NEW list, NEW current, NEW new,
         q \in Seq(Downward), q # <<>>,
         ListReaches(q, list, current),
         new = IF Head(q) \in MarketLists THEN Head(q).markets ELSE list
  PROVE  ListReaches(Rest(q), new, current)
<1> DEFINE r == Rest(q)
<1>1. ASSUME NEW j \in Nat, Latest(r, MarketLists, j)
      PROVE  ListAt(r, j, new) = current
  <2>1. /\ Latest(q, MarketLists, Moved(q, MarketLists, j))
        /\ j \in At(r, MarketLists) => r[j] = q[j + 1]
        /\ Head(q) = q[1]
    BY <1>1, OneTaken
  <2>2. Moved(q, MarketLists, j) \in Nat
    BY DEF Moved
  <2>3. ListAt(q, Moved(q, MarketLists, j), list) = current
    BY <2>1, <2>2 DEF ListReaches
  <2>4. CASE j = 0
    BY ONLY <2>1, <2>3, <2>4,
       new = IF Head(q) \in MarketLists THEN Head(q).markets ELSE list
       DEF ListAt, Moved
  <2>5. CASE j # 0
    <3>1. r[j] = q[j + 1]
      BY <1>1, <2>1, <2>5, AfterIsPlace
    <3>2. Moved(q, MarketLists, j) = j + 1 /\ j + 1 # 0
      BY <2>5 DEF Moved
    <3> HIDE DEF r
    <3> QED
      BY ONLY <2>3, <2>5, <3>1, <3>2 DEF ListAt
  <2> QED
    BY <2>4, <2>5
<1> QED
  BY <1>1 DEF ListReaches, r

USE DEF Sockets, NoSocket, ClientIds, NoId

\* What the fields of a message are, by its type.
LEMMA MessageKinds ==
  ASSUME NEW x
  PROVE  /\ x \in ClientMessage =>
              /\ x.type \in {"requestFullSync", "addRolling"} =>
                   x.clientId \in ClientIds /\ x.market \in Markets
              /\ x.type \in {"removeRolling", "removeStatistics"} =>
                   x.market \in Markets
         /\ x \in BinaryMessage <=>
              x \in Downward /\ x.type \in {"snapshot", "delta"}
         /\ x \in MarketLists <=>
              x \in Downward /\ x.type = "marketsUpdated"
         /\ x \in BinaryMessage =>
              /\ x.serverId \in Nat
              /\ x.clientId \in ClientIds
              /\ x.market \in Markets
              /\ x.version \in 0 .. MaxVersion
         /\ x \in Downward /\ x.type = "serverHello" => x.release \in 1 .. 2
         /\ x \in Downward /\ x.type = "marketsUpdated" =>
              x.markets \in 1 .. MaxMarkets
         /\ x \in Downward /\ x.type = "marketRollingUpdated" =>
              /\ x.clientId \in ClientIds
              /\ x.market \in Markets
              /\ x.version \in 0 .. MaxVersion
<1>1. x \in ClientMessage =>
        /\ x.type \in {"requestFullSync", "addRolling"} =>
             x.clientId \in ClientIds /\ x.market \in Markets
        /\ x.type \in {"removeRolling", "removeStatistics"} =>
             x.market \in Markets
  BY DEF ClientMessage, ClientSignals
<1>2. x \in BinaryMessage =>
        /\ x.type \in {"snapshot", "delta"}
        /\ x.serverId \in Nat
        /\ x.clientId \in ClientIds
        /\ x.market \in Markets
        /\ x.version \in 0 .. MaxVersion
  BY DEF BinaryMessage
<1>3. x \in ServerMessage =>
        /\ x.type \notin {"snapshot", "delta"}
        /\ x.type = "serverHello" => x.release \in 1 .. 2
        /\ x.type = "marketsUpdated" => x.markets \in 1 .. MaxMarkets
        /\ x.type = "marketRollingUpdated" =>
              /\ x.clientId \in ClientIds
              /\ x.market \in Markets
              /\ x.version \in 0 .. MaxVersion
  BY DEF ServerMessage
<1> QED
  BY <1>1, <1>2, <1>3 DEF Downward, MarketLists

\* The messages about a market, by their types.
LEMMA RollingKinds ==
  ASSUME NEW x, NEW m
  PROVE  /\ x \in RollingsOf(m) <=>
              /\ x \in Downward
              /\ x.type = "marketRollingUpdated"
              /\ x.market = m
         /\ x \in BinariesOf(m) <=>
              /\ x \in Downward
              /\ x.type \in {"snapshot", "delta"}
              /\ x.market = m
<1>1. x \in BinaryMessage <=> x \in Downward /\ x.type \in {"snapshot", "delta"}
  BY MessageKinds
<1> QED
  BY <1>1 DEF RollingsOf, BinariesOf, Downward

\* The messages of the program are messages.
LEMMA MessagesTyped ==
  /\ \A type \in ClientSignals : Signal(type) \in ClientMessage
  /\ \A type \in {"serverPong", "serverPing", "settingsLoaded",
                  "storageEntitiesLoaded"} : Signal(type) \in Downward
  /\ \A r \in 1 .. 2 : [type |-> "serverHello", release |-> r] \in Downward
  /\ \A v \in 1 .. MaxMarkets : MarketsUpdated(v) \in Downward
  /\ \A id \in ClientIds, m \in Markets, v \in 0 .. MaxVersion :
       RollingMessage(id, m, v) \in Downward
  /\ \A kind \in {"snapshot", "delta"}, n \in Nat, id \in ClientIds,
        m \in Markets, v \in 0 .. MaxVersion :
       Packet(kind, n, id, m, v) \in Downward
  /\ \A id \in ClientIds, m \in Markets :
       /\ [type |-> "requestFullSync", clientId |-> id, market |-> m]
            \in ClientMessage
       /\ [type |-> "addRolling", clientId |-> id, market |-> m]
            \in ClientMessage
  /\ \A m \in Markets :
       /\ [type |-> "removeRolling", market |-> m] \in ClientMessage
       /\ [type |-> "removeStatistics", market |-> m] \in ClientMessage
<1>1. /\ \A type \in ClientSignals : Signal(type) \in ClientMessage
      /\ \A id \in ClientIds, m \in Markets :
           /\ [type |-> "requestFullSync", clientId |-> id, market |-> m]
                \in ClientMessage
           /\ [type |-> "addRolling", clientId |-> id, market |-> m]
                \in ClientMessage
      /\ \A m \in Markets :
           /\ [type |-> "removeRolling", market |-> m] \in ClientMessage
           /\ [type |-> "removeStatistics", market |-> m] \in ClientMessage
  BY DEF Signal, ClientMessage
<1>2. /\ \A type \in {"serverPong", "serverPing", "settingsLoaded",
                      "storageEntitiesLoaded"} : Signal(type) \in ServerMessage
      /\ \A r \in 1 .. 2 : [type |-> "serverHello", release |-> r] \in ServerMessage
      /\ \A v \in 1 .. MaxMarkets : MarketsUpdated(v) \in ServerMessage
      /\ \A id \in ClientIds, m \in Markets, v \in 0 .. MaxVersion :
           RollingMessage(id, m, v) \in ServerMessage
  BY DEF Signal, MarketsUpdated, RollingMessage, ServerMessage
<1>3. \A kind \in {"snapshot", "delta"}, n \in Nat, id \in ClientIds,
        m \in Markets, v \in 0 .. MaxVersion :
       Packet(kind, n, id, m, v) \in BinaryMessage
  BY DEF Packet, BinaryMessage
<1> QED
  BY <1>1, <1>2, <1>3 DEF Downward

\* What a controller sends when it loses its last subscriber.
LEMMA RemovalsTyped ==
  ASSUME NEW gone, gone \subseteq Markets
  PROVE  /\ Removals(gone) \in Seq(ClientMessage)
         /\ \A i \in 1 .. Len(Removals(gone)) :
              Removals(gone)[i].type \in {"removeRolling", "removeStatistics"}
<1> DEFINE n == Cardinality(gone)
           order == SetToSeq(gone)
<1>1. IsFiniteSet(gone)
  BY MarketsFinite, FS_Subset
<1>2. n \in Nat /\ \E f : ExistsBijection(1 .. n, gone)
  BY <1>1, FS_CardinalityType
<1>3. \E f \in [1 .. n -> gone] : IsInjective(f)
  BY <1>2 DEF ExistsBijection, Bijection, Injection, IsInjective
<1>4. order \in [1 .. n -> gone]
  BY <1>3, Zenon DEF SetToSeq
<1> HIDE DEF n
<1>5. Len(order) = n
  BY <1>2, <1>4
<1> HIDE DEF order
<1> DEFINE f == [i \in 1 .. 2 * n |->
                   [type |-> IF i % 2 = 1 THEN "removeRolling"
                                          ELSE "removeStatistics",
                    market |-> order[(i + 1) \div 2]]]
<1>6. ASSUME NEW i \in 1 .. 2 * n
      PROVE  /\ f[i] \in ClientMessage
             /\ f[i].type \in {"removeRolling", "removeStatistics"}
  <2>1. (i + 1) \div 2 \in 1 .. n
    BY <1>2
  <2>2. order[(i + 1) \div 2] \in Markets
    BY <2>1, <1>4
  <2>3. \A m \in Markets :
          /\ [type |-> "removeRolling", market |-> m] \in ClientMessage
          /\ [type |-> "removeStatistics", market |-> m] \in ClientMessage
    BY MessagesTyped
  <2> QED
    BY <2>2, <2>3
<1>7. 2 * n \in Nat
  BY <1>2
<1>8. f \in Seq(ClientMessage) /\ Len(f) = 2 * n
  BY <1>6, <1>7
<1>9. Removals(gone) = f
  BY <1>5 DEF Removals, order
<1> QED
  BY <1>6, <1>8, <1>9
HIDE DEF Sockets, NoSocket, ClientIds, NoId

-----------------------------------------------------------------------------
(* Types.                                                                  *)

\* What is on its way in either direction.
UpTyped == up \in [Sockets -> Seq(ClientMessage)]
DownTyped == down \in [Sockets -> Seq(Downward)]

\* Messages of the browser are sent.
LEMMA UpAfterTyped ==
  ASSUME NEW s, NEW r, UpTyped, r \in Seq(ClientMessage)
  PROVE  UpAfter(s, r) \in [Sockets -> Seq(ClientMessage)]
<1>1. \A q \in Seq(ClientMessage) : q \o r \in Seq(ClientMessage)
  OBVIOUS
<1> QED
  BY <1>1 DEF UpAfter, UpTyped

\* Messages of the server are sent over a socket.
LEMMA DownAfterTyped ==
  ASSUME NEW s, NEW r, DownTyped, r \in Seq(Downward)
  PROVE  DownAfter(s, r) \in [Sockets -> Seq(Downward)]
<1>1. \A q \in Seq(Downward) : q \o r \in Seq(Downward)
  OBVIOUS
<1> QED
  BY <1>1 DEF DownAfter, DownTyped

\* Messages of the server are sent over several sockets.
LEMMA DownAfterAllTyped ==
  ASSUME NEW messages, DownTyped,
         \A s \in DOMAIN messages : messages[s] \in Seq(Downward)
  PROVE  DownAfterAll(messages) \in [Sockets -> Seq(Downward)]
<1>1. \A q, r \in Seq(Downward) : q \o r \in Seq(Downward)
  OBVIOUS
<1> QED
  BY <1>1 DEF DownAfterAll, DownTyped

\* The next message of the browser.
LEMMA HeadUp ==
  ASSUME NEW s \in Sockets, NEW type, UpTyped, ServerReceives(s, type)
  PROVE  /\ Head(up[s]) \in ClientMessage
         /\ Head(up[s]).type = type
         /\ up[s] \in Seq(ClientMessage)
         /\ up[s] # <<>>
         /\ serverEnd[s] = "open"
         /\ Tail(up[s]) \in Seq(ClientMessage)
<1>1. up[s] \in Seq(ClientMessage) /\ up[s] # <<>>
  BY DEF UpTyped, ServerReceives
<1>2. Head(up[s]) \in ClientMessage /\ Tail(up[s]) \in Seq(ClientMessage)
  BY <1>1
<1> QED
  BY <1>1, <1>2 DEF ServerReceives

\* A message of the browser is received.
LEMMA TakeTyped ==
  ASSUME NEW s \in Sockets, NEW type, UpTyped, ServerReceives(s, type), Take(s)
  PROVE  UpTyped'
<1>1. Tail(up[s]) \in Seq(ClientMessage)
  BY HeadUp
<1> QED
  BY <1>1 DEF Take, UpTyped

\* The next message of the server.
LEMMA HeadDown ==
  ASSUME NEW s \in Sockets, NEW type, DownTyped, ClientReceives(s, type)
  PROVE  /\ Head(down[s]) \in Downward
         /\ Head(down[s]).type = type
         /\ down[s] \in Seq(Downward)
         /\ down[s] # <<>>
         /\ clientEnd[s] = "open"
         /\ s = socket
         /\ Tail(down[s]) \in Seq(Downward)
<1>1. down[s] \in Seq(Downward) /\ down[s] # <<>>
  BY DEF DownTyped, ClientReceives
<1>2. Head(down[s]) \in Downward /\ Tail(down[s]) \in Seq(Downward)
  BY <1>1
<1> QED
  BY <1>1, <1>2 DEF ClientReceives

\* A message of the server is received.
LEMMA TakeDownTyped ==
  ASSUME NEW s \in Sockets, NEW type, DownTyped, ClientReceives(s, type),
         TakeDown(s)
  PROVE  DownTyped'
<1>1. Tail(down[s]) \in Seq(Downward)
  BY HeadDown
<1> QED
  BY <1>1 DEF TakeDown, DownTyped

\* The rest of what FrontendNetwork's type invariant says.
EndsTyped ==
  /\ scenario \in Scenarios
  /\ clientEnd \in [Sockets -> {"none", "connecting", "open", "gone"}]
  /\ serverEnd \in [Sockets -> {"none", "open", "closing", "gone"}]
  /\ link \in [Sockets -> {"up", "dead"}]

\* The parts of FrontendNetwork's type invariant.
LEMMA NetworkTyped ==
  TypeOKNetwork <=> EndsTyped /\ UpTyped /\ DownTyped
BY DEF TypeOKNetwork, EndsTyped, UpTyped, DownTyped, Downward

\* The same after a step.
LEMMA NetworkTypedNext ==
  EndsTyped' /\ UpTyped' /\ DownTyped' => TypeOKNetwork'
BY DEF TypeOKNetwork, EndsTyped, UpTyped, DownTyped, Downward

\* The state of the sockets and the pending events.
ClientsTyped ==
  /\ DOMAIN clients \subseteq Sockets
  /\ \A s \in DOMAIN clients : IsClient(clients[s])

EventsTyped ==
  /\ nextEventId \in Nat
  /\ DOMAIN serverEvents \subseteq 0 .. nextEventId
  /\ \A e \in DOMAIN serverEvents :
       serverEvents[e] \in [socket : Sockets, clientId : ClientIds,
                            valid : BOOLEAN]
  /\ requests \subseteq [eventId : 0 .. nextEventId, market : Markets]

ServiceTyped ==
  /\ silent \in [Sockets -> 0 .. MaxSilent + 1]
  /\ loading \subseteq Sockets
  /\ version \in [Markets -> 0 .. MaxVersion]
  /\ rolled \in [Markets -> 0 .. MaxVersion]
  /\ markets \in 1 .. MaxMarkets
  /\ release \in 1 .. 2

\* The parts of FrontendServer's type invariant.
LEMMA ServerTyped ==
  TypeOKServer <=> ClientsTyped /\ EventsTyped /\ ServiceTyped
BY DEF TypeOKServer, ClientsTyped, EventsTyped, ServiceTyped

\* The same after a step.
LEMMA ServerTypedNext ==
  ClientsTyped' /\ EventsTyped' /\ ServiceTyped' => TypeOKServer'
BY DEF TypeOKServer, ClientsTyped, EventsTyped, ServiceTyped

\* createClientState makes a state of a client.
LEMMA NewClientTyped == IsClient(NewClient)
BY DEF IsClient, NewClient, NoSubscriptions

\* A state of a client with some of its fields set.
LEMMA ClientSet ==
  ASSUME NEW s, NEW c, ClientsTyped, s \in DOMAIN clients => IsClient(c)
  PROVE  /\ DOMAIN [clients EXCEPT ![s] = c] = DOMAIN clients
         /\ \A t \in DOMAIN clients :
              [clients EXCEPT ![s] = c][t] = IF t = s THEN c ELSE clients[t]
         /\ \A t \in DOMAIN clients : IsClient([clients EXCEPT ![s] = c][t])
BY DEF ClientsTyped

\* The fields of a client's state that the handlers set keep it one.
LEMMA ClientChanges ==
  ASSUME NEW c, NEW m \in Markets, NEW id \in ClientIds \union {NoId},
         IsClient(c)
  PROVE  /\ IsClient([c EXCEPT !.isReady = TRUE])
         /\ IsClient([c EXCEPT !.marketInfo = TRUE])
         /\ IsClient([c EXCEPT !.statistics[m] = id])
         /\ IsClient([c EXCEPT !.rolling[m] = id])
         /\ IsClient([c EXCEPT !.nextServerId = @ + 1])
         /\ IsClient(Answered(c, m, id))
<1>1. c.statistics \in [Markets -> ClientIds \union {NoId}]
      /\ c.rolling \in [Markets -> ClientIds \union {NoId}]
      /\ c.nextServerId \in Nat
  BY DEF IsClient
<1>2. /\ [c.statistics EXCEPT ![m] = id] \in [Markets -> ClientIds \union {NoId}]
      /\ [c.rolling EXCEPT ![m] = id] \in [Markets -> ClientIds \union {NoId}]
      /\ c.nextServerId + 1 \in Nat
  BY <1>1
<1>3. /\ IsClient([c EXCEPT !.isReady = TRUE])
      /\ IsClient([c EXCEPT !.marketInfo = TRUE])
  BY DEF IsClient
<1>4. IsClient([c EXCEPT !.statistics[m] = id])
  BY <1>2 DEF IsClient
<1>5. IsClient([c EXCEPT !.rolling[m] = id])
  BY <1>2 DEF IsClient
<1>6. IsClient([c EXCEPT !.nextServerId = @ + 1])
  BY <1>2 DEF IsClient
<1>7. IsClient(Answered(c, m, id))
  BY <1>2 DEF IsClient, Answered
<1> QED
  BY <1>3, <1>4, <1>5, <1>6, <1>7

-----------------------------------------------------------------------------
(* Types after a step of the server.                                       *)

\* wss.on('connection') keeps the types.
LEMMA AcceptTypes ==
  ASSUME NEW s \in Sockets, TypeOKNetwork, TypeOKServer, Accept(s),
         UNCHANGED scenario
  PROVE  TypeOKNetwork' /\ TypeOKServer'
<1>1. /\ EndsTyped /\ UpTyped /\ DownTyped
      /\ ClientsTyped /\ EventsTyped /\ ServiceTyped
  BY NetworkTyped, ServerTyped
<1>2. EndsTyped'
  BY <1>1 DEF EndsTyped, Accept
<1>3. UpTyped'
  BY <1>1 DEF UpTyped, Accept
<1>4. [type |-> "serverHello", release |-> release] \in Downward
  BY <1>1, MessagesTyped DEF ServiceTyped
<1>5. DownTyped'
  BY <1>1, <1>4 DEF DownTyped, Accept
<1>6. ClientsTyped'
  BY <1>1, NewClientTyped DEF ClientsTyped, Accept, With
<1>7. EventsTyped'
  BY <1>1 DEF EventsTyped, Accept, serviceVars
<1>8. ServiceTyped'
  BY <1>1, SilentAssumption DEF ServiceTyped, Accept, serviceVars
<1> QED
  BY <1>2, <1>3, <1>5, <1>6, <1>7, <1>8, NetworkTypedNext, ServerTypedNext

\* handleClientPing keeps the types.
LEMMA HandleClientPingTypes ==
  ASSUME NEW s \in Sockets, TypeOKNetwork, TypeOKServer, HandleClientPing(s),
         UNCHANGED scenario
  PROVE  TypeOKNetwork' /\ TypeOKServer'
<1>1. /\ EndsTyped /\ UpTyped /\ DownTyped
      /\ ClientsTyped /\ EventsTyped /\ ServiceTyped
  BY NetworkTyped, ServerTyped
<1>2. ServerReceives(s, "clientPing") /\ Take(s)
  BY DEF HandleClientPing
<1>3. /\ Head(up[s]) \in ClientMessage /\ Head(up[s]).type = "clientPing"
      /\ serverEnd[s] = "open"
  BY <1>1, <1>2, HeadUp
<1>4. EndsTyped'
  BY <1>1 DEF EndsTyped, HandleClientPing, serviceVars, serverVars, networkVars
<1>5. UpTyped'
  BY <1>1, <1>2, TakeTyped
<1>6. DownTyped'
  <2>1. Signal("serverPong") \in Downward
    BY MessagesTyped
  <2>2. << Signal("serverPong") >> \in Seq(Downward)
    BY <2>1
  <2>3. DownAfter(s, << Signal("serverPong") >>) \in [Sockets -> Seq(Downward)]
    BY <1>1, <2>2, DownAfterTyped
  <2> QED
    BY <1>1, <2>3 DEF DownTyped, HandleClientPing
<1>7. ClientsTyped'
  BY <1>1 DEF ClientsTyped, HandleClientPing, serviceVars, serverVars,
       networkVars
<1>8. EventsTyped'
  BY <1>1 DEF EventsTyped, HandleClientPing, serviceVars, serverVars,
       networkVars
<1>9. ServiceTyped'
  BY <1>1 DEF ServiceTyped, HandleClientPing, serviceVars, serverVars,
       networkVars
<1> QED
  BY <1>4, <1>5, <1>6, <1>7, <1>8, <1>9, NetworkTypedNext, ServerTypedNext

\* handleClientPong keeps the types.
LEMMA HandleClientPongTypes ==
  ASSUME NEW s \in Sockets, TypeOKNetwork, TypeOKServer, HandleClientPong(s),
         UNCHANGED scenario
  PROVE  TypeOKNetwork' /\ TypeOKServer'
<1>1. /\ EndsTyped /\ UpTyped /\ DownTyped
      /\ ClientsTyped /\ EventsTyped /\ ServiceTyped
  BY NetworkTyped, ServerTyped
<1>2. ServerReceives(s, "clientPong") /\ Take(s)
  BY DEF HandleClientPong
<1>3. /\ Head(up[s]) \in ClientMessage /\ Head(up[s]).type = "clientPong"
      /\ serverEnd[s] = "open"
  BY <1>1, <1>2, HeadUp
<1>4. EndsTyped'
  BY <1>1 DEF EndsTyped, HandleClientPong, serviceVars, serverVars, networkVars
<1>5. UpTyped'
  BY <1>1, <1>2, TakeTyped
<1>6. DownTyped'
  BY <1>1 DEF DownTyped, HandleClientPong, serviceVars, serverVars, networkVars
<1>7. ClientsTyped'
  BY <1>1 DEF ClientsTyped, HandleClientPong, serviceVars, serverVars,
       networkVars
<1>8. EventsTyped'
  BY <1>1 DEF EventsTyped, HandleClientPong, serviceVars, serverVars,
       networkVars
<1>9. ServiceTyped'
  BY <1>1, SilentAssumption DEF ServiceTyped, HandleClientPong, serviceVars
<1> QED
  BY <1>4, <1>5, <1>6, <1>7, <1>8, <1>9, NetworkTypedNext, ServerTypedNext

\* handleWebSocketReady keeps the types.
LEMMA HandleWebSocketReadyTypes ==
  ASSUME NEW s \in Sockets, TypeOKNetwork, TypeOKServer, HandleWebSocketReady(s),
         UNCHANGED scenario
  PROVE  TypeOKNetwork' /\ TypeOKServer'
<1>1. /\ EndsTyped /\ UpTyped /\ DownTyped
      /\ ClientsTyped /\ EventsTyped /\ ServiceTyped
  BY NetworkTyped, ServerTyped
<1>2. ServerReceives(s, "webSocketReady") /\ Take(s)
  BY DEF HandleWebSocketReady
<1>3. /\ Head(up[s]) \in ClientMessage /\ Head(up[s]).type = "webSocketReady"
      /\ serverEnd[s] = "open"
  BY <1>1, <1>2, HeadUp
<1>4. EndsTyped'
  BY <1>1 DEF EndsTyped, HandleWebSocketReady, serviceVars, serverVars,
       networkVars
<1>5. UpTyped'
  BY <1>1, <1>2, TakeTyped
<1>6. DownTyped'
  BY <1>1 DEF DownTyped, HandleWebSocketReady, serviceVars, serverVars,
       networkVars
<1>7. ClientsTyped'
  <2>1. s \in DOMAIN clients => IsClient([clients[s] EXCEPT !.isReady = TRUE])
    BY <1>1 DEF ClientsTyped, IsClient
  <2>2. clients' = [clients EXCEPT ![s] = [clients[s] EXCEPT !.isReady = TRUE]]
    BY DEF HandleWebSocketReady
  <2> QED
    BY <1>1, <2>1, <2>2, ClientSet DEF ClientsTyped
<1>8. EventsTyped'
  BY <1>1 DEF EventsTyped, HandleWebSocketReady, serviceVars, serverVars,
       networkVars
<1>9. ServiceTyped'
  BY <1>1 DEF ServiceTyped, HandleWebSocketReady, serviceVars, serverVars,
       networkVars
<1> QED
  BY <1>4, <1>5, <1>6, <1>7, <1>8, <1>9, NetworkTypedNext, ServerTypedNext

\* handleRequestSettings keeps the types.
LEMMA HandleRequestSettingsTypes ==
  ASSUME NEW s \in Sockets, TypeOKNetwork, TypeOKServer, HandleRequestSettings(s),
         UNCHANGED scenario
  PROVE  TypeOKNetwork' /\ TypeOKServer'
<1>1. /\ EndsTyped /\ UpTyped /\ DownTyped
      /\ ClientsTyped /\ EventsTyped /\ ServiceTyped
  BY NetworkTyped, ServerTyped
<1>2. ServerReceives(s, "requestSettings") /\ Take(s)
  BY DEF HandleRequestSettings
<1>3. /\ Head(up[s]) \in ClientMessage /\ Head(up[s]).type = "requestSettings"
      /\ serverEnd[s] = "open"
  BY <1>1, <1>2, HeadUp
<1>4. EndsTyped'
  BY <1>1 DEF EndsTyped, HandleRequestSettings, serviceVars, serverVars,
       networkVars
<1>5. UpTyped'
  BY <1>1, <1>2, TakeTyped
<1>6. DownTyped'
  BY <1>1 DEF DownTyped, HandleRequestSettings, serviceVars, serverVars,
       networkVars
<1>7. ClientsTyped'
  BY <1>1 DEF ClientsTyped, HandleRequestSettings, serviceVars, serverVars,
       networkVars
<1>8. EventsTyped'
  BY <1>1 DEF EventsTyped, HandleRequestSettings, serviceVars, serverVars,
       networkVars
<1>9. ServiceTyped'
  BY <1>1 DEF ServiceTyped, HandleRequestSettings, serviceVars, serverVars,
       networkVars
<1> QED
  BY <1>4, <1>5, <1>6, <1>7, <1>8, <1>9, NetworkTypedNext, ServerTypedNext

\* handleRequestStorageEntities keeps the types.
LEMMA HandleRequestStorageEntitiesTypes ==
  ASSUME NEW s \in Sockets, TypeOKNetwork, TypeOKServer, HandleRequestStorageEntities(s),
         UNCHANGED scenario
  PROVE  TypeOKNetwork' /\ TypeOKServer'
<1>1. /\ EndsTyped /\ UpTyped /\ DownTyped
      /\ ClientsTyped /\ EventsTyped /\ ServiceTyped
  BY NetworkTyped, ServerTyped
<1>2. ServerReceives(s, "requestStorageEntities") /\ Take(s)
  BY DEF HandleRequestStorageEntities
<1>3. /\ Head(up[s]) \in ClientMessage /\ Head(up[s]).type = "requestStorageEntities"
      /\ serverEnd[s] = "open"
  BY <1>1, <1>2, HeadUp
<1>4. EndsTyped'
  BY <1>1 DEF EndsTyped, HandleRequestStorageEntities, serviceVars, serverVars,
       networkVars
<1>5. UpTyped'
  BY <1>1, <1>2, TakeTyped
<1>6. DownTyped'
  <2>1. Signal("storageEntitiesLoaded") \in Downward
    BY MessagesTyped
  <2>2. << Signal("storageEntitiesLoaded") >> \in Seq(Downward)
    BY <2>1
  <2>3. DownAfter(s, << Signal("storageEntitiesLoaded") >>) \in [Sockets -> Seq(Downward)]
    BY <1>1, <2>2, DownAfterTyped
  <2> QED
    BY <1>1, <2>3 DEF DownTyped, HandleRequestStorageEntities
<1>7. ClientsTyped'
  BY <1>1 DEF ClientsTyped, HandleRequestStorageEntities, serviceVars,
       serverVars, networkVars
<1>8. EventsTyped'
  BY <1>1 DEF EventsTyped, HandleRequestStorageEntities, serviceVars,
       serverVars, networkVars
<1>9. ServiceTyped'
  BY <1>1 DEF ServiceTyped, HandleRequestStorageEntities, serviceVars,
       serverVars, networkVars
<1> QED
  BY <1>4, <1>5, <1>6, <1>7, <1>8, <1>9, NetworkTypedNext, ServerTypedNext

\* handleSetSubscription keeps the types.
LEMMA HandleSetMarketInfoTypes ==
  ASSUME NEW s \in Sockets, TypeOKNetwork, TypeOKServer, HandleSetMarketInfo(s),
         UNCHANGED scenario
  PROVE  TypeOKNetwork' /\ TypeOKServer'
<1>1. /\ EndsTyped /\ UpTyped /\ DownTyped
      /\ ClientsTyped /\ EventsTyped /\ ServiceTyped
  BY NetworkTyped, ServerTyped
<1>2. ServerReceives(s, "setMarketInfo") /\ Take(s)
  BY DEF HandleSetMarketInfo
<1>3. /\ Head(up[s]) \in ClientMessage /\ Head(up[s]).type = "setMarketInfo"
      /\ serverEnd[s] = "open"
  BY <1>1, <1>2, HeadUp
<1>4. EndsTyped'
  BY <1>1 DEF EndsTyped, HandleSetMarketInfo, serviceVars, serverVars,
       networkVars
<1>5. UpTyped'
  BY <1>1, <1>2, TakeTyped
<1>6. DownTyped'
  <2>1. MarketsUpdated(markets) \in Downward
    BY <1>1, MessagesTyped DEF ServiceTyped
  <2>2. << MarketsUpdated(markets) >> \in Seq(Downward)
    BY <2>1
  <2>3. DownAfter(s, << MarketsUpdated(markets) >>) \in [Sockets -> Seq(Downward)]
    BY <1>1, <2>2, DownAfterTyped
  <2> QED
    BY <1>1, <2>3 DEF DownTyped, HandleSetMarketInfo
<1>7. ClientsTyped'
  <2>1. s \in DOMAIN clients => IsClient([clients[s] EXCEPT !.marketInfo = TRUE])
    BY <1>1 DEF ClientsTyped, IsClient
  <2>2. clients' = [clients EXCEPT ![s] = [clients[s] EXCEPT !.marketInfo = TRUE]]
    BY DEF HandleSetMarketInfo
  <2> QED
    BY <1>1, <2>1, <2>2, ClientSet DEF ClientsTyped
<1>8. EventsTyped'
  BY <1>1 DEF EventsTyped, HandleSetMarketInfo, serviceVars, serverVars,
       networkVars
<1>9. ServiceTyped'
  BY <1>1 DEF ServiceTyped, HandleSetMarketInfo, serviceVars, serverVars,
       networkVars
<1> QED
  BY <1>4, <1>5, <1>6, <1>7, <1>8, <1>9, NetworkTypedNext, ServerTypedNext

\* handleStorageFullSyncRequest keeps the types.
LEMMA HandleRequestFullSyncTypes ==
  ASSUME NEW s \in Sockets, TypeOKNetwork, TypeOKServer, HandleRequestFullSync(s),
         UNCHANGED scenario
  PROVE  TypeOKNetwork' /\ TypeOKServer'
<1>1. /\ EndsTyped /\ UpTyped /\ DownTyped
      /\ ClientsTyped /\ EventsTyped /\ ServiceTyped
  BY NetworkTyped, ServerTyped
<1>2. ServerReceives(s, "requestFullSync") /\ Take(s)
  BY DEF HandleRequestFullSync
<1>3. /\ Head(up[s]) \in ClientMessage /\ Head(up[s]).type = "requestFullSync"
      /\ serverEnd[s] = "open"
  BY <1>1, <1>2, HeadUp
<1>4. EndsTyped'
  BY <1>1 DEF EndsTyped, HandleRequestFullSync, serviceVars, serverVars,
       networkVars
<1>5. UpTyped'
  BY <1>1, <1>2, TakeTyped
<1>6. DownTyped'
  BY <1>1 DEF DownTyped, HandleRequestFullSync, serviceVars, serverVars,
       networkVars
<1>7. ClientsTyped'
  BY <1>1 DEF ClientsTyped, HandleRequestFullSync, AfterRequest
<1>8. EventsTyped'
  <2> DEFINE message == Head(up[s])
  <2>1. message.clientId \in ClientIds /\ message.market \in Markets
    BY <1>3, MessageKinds
  <2>2. CASE Accepted(s, message)
    <3>1. /\ serverEvents' = With(serverEvents, nextEventId,
                                PendingEvent(s, message.clientId))
          /\ nextEventId' = nextEventId + 1
          /\ requests' = requests \union {[eventId |-> nextEventId,
                                          market |-> message.market]}
      BY <2>2 DEF HandleRequestFullSync
    <3>2. PendingEvent(s, message.clientId)
            \in [socket : Sockets, clientId : ClientIds, valid : BOOLEAN]
      BY <2>1 DEF PendingEvent
    <3>3. nextEventId' \in Nat /\ nextEventId \in Nat
      BY <1>1, <3>1 DEF EventsTyped
    <3>4. DOMAIN serverEvents' \subseteq 0 .. nextEventId'
      BY <1>1, <3>1, <3>3 DEF EventsTyped, With
    <3>5. \A e \in DOMAIN serverEvents' :
            serverEvents'[e] \in [socket : Sockets, clientId : ClientIds,
                                  valid : BOOLEAN]
      BY <1>1, <3>1, <3>2 DEF EventsTyped, With
    <3>6. requests' \subseteq [eventId : 0 .. nextEventId', market : Markets]
      BY <1>1, <2>1, <3>1, <3>3 DEF EventsTyped
    <3> QED
      BY <3>3, <3>4, <3>5, <3>6 DEF EventsTyped
  <2>3. CASE ~ Accepted(s, message)
    BY <1>1, <2>3 DEF EventsTyped, HandleRequestFullSync
  <2> QED
    BY <2>2, <2>3
<1>9. ServiceTyped'
  BY <1>1 DEF ServiceTyped, HandleRequestFullSync, serviceVars, serverVars,
       networkVars
<1> QED
  BY <1>4, <1>5, <1>6, <1>7, <1>8, <1>9, NetworkTypedNext, ServerTypedNext

\* handleChangeSubscription keeps the types.
LEMMA HandleRemoveStatisticsTypes ==
  ASSUME NEW s \in Sockets, TypeOKNetwork, TypeOKServer, HandleRemoveStatistics(s),
         UNCHANGED scenario
  PROVE  TypeOKNetwork' /\ TypeOKServer'
<1>1. /\ EndsTyped /\ UpTyped /\ DownTyped
      /\ ClientsTyped /\ EventsTyped /\ ServiceTyped
  BY NetworkTyped, ServerTyped
<1>2. ServerReceives(s, "removeStatistics") /\ Take(s)
  BY DEF HandleRemoveStatistics
<1>3. /\ Head(up[s]) \in ClientMessage /\ Head(up[s]).type = "removeStatistics"
      /\ serverEnd[s] = "open"
  BY <1>1, <1>2, HeadUp
<1>4. EndsTyped'
  BY <1>1 DEF EndsTyped, HandleRemoveStatistics, serviceVars, serverVars,
       networkVars
<1>5. UpTyped'
  BY <1>1, <1>2, TakeTyped
<1>6. DownTyped'
  BY <1>1 DEF DownTyped, HandleRemoveStatistics, serviceVars, serverVars,
       networkVars
<1>7. ClientsTyped'
  <2> DEFINE m == Head(up[s]).market
  <2>1. m \in Markets
    BY <1>3, MessageKinds
  <2>2. s \in DOMAIN clients =>
          IsClient([clients[s] EXCEPT !.statistics[m] = NoId])
    BY <1>1, <2>1, ClientChanges DEF ClientsTyped
  <2>3. clients' = [clients EXCEPT ![s] =
                      [clients[s] EXCEPT !.statistics[m] = NoId]]
    BY DEF HandleRemoveStatistics
  <2> QED
    BY <1>1, <2>2, <2>3, ClientSet DEF ClientsTyped
<1>8. EventsTyped'
  BY <1>1 DEF EventsTyped, HandleRemoveStatistics, serviceVars, serverVars,
       networkVars
<1>9. ServiceTyped'
  BY <1>1 DEF ServiceTyped, HandleRemoveStatistics, serviceVars, serverVars,
       networkVars
<1> QED
  BY <1>4, <1>5, <1>6, <1>7, <1>8, <1>9, NetworkTypedNext, ServerTypedNext

\* handleMarketRollingSubscriptionChanged, the removal, keeps the types.
LEMMA HandleRemoveRollingTypes ==
  ASSUME NEW s \in Sockets, TypeOKNetwork, TypeOKServer, HandleRemoveRolling(s),
         UNCHANGED scenario
  PROVE  TypeOKNetwork' /\ TypeOKServer'
<1>1. /\ EndsTyped /\ UpTyped /\ DownTyped
      /\ ClientsTyped /\ EventsTyped /\ ServiceTyped
  BY NetworkTyped, ServerTyped
<1>2. ServerReceives(s, "removeRolling") /\ Take(s)
  BY DEF HandleRemoveRolling
<1>3. /\ Head(up[s]) \in ClientMessage /\ Head(up[s]).type = "removeRolling"
      /\ serverEnd[s] = "open"
  BY <1>1, <1>2, HeadUp
<1>4. EndsTyped'
  BY <1>1 DEF EndsTyped, HandleRemoveRolling, serviceVars, serverVars,
       networkVars
<1>5. UpTyped'
  BY <1>1, <1>2, TakeTyped
<1>6. DownTyped'
  BY <1>1 DEF DownTyped, HandleRemoveRolling, serviceVars, serverVars,
       networkVars
<1>7. ClientsTyped'
  <2> DEFINE m == Head(up[s]).market
  <2>1. m \in Markets
    BY <1>3, MessageKinds
  <2>2. s \in DOMAIN clients =>
          IsClient([clients[s] EXCEPT !.rolling[m] = NoId])
    BY <1>1, <2>1, ClientChanges DEF ClientsTyped
  <2>3. clients' = [clients EXCEPT ![s] =
                      [clients[s] EXCEPT !.rolling[m] = NoId]]
    BY DEF HandleRemoveRolling
  <2> QED
    BY <1>1, <2>2, <2>3, ClientSet DEF ClientsTyped
<1>8. EventsTyped'
  BY <1>1 DEF EventsTyped, HandleRemoveRolling, serviceVars, serverVars,
       networkVars
<1>9. ServiceTyped'
  BY <1>1 DEF ServiceTyped, HandleRemoveRolling, serviceVars, serverVars,
       networkVars
<1> QED
  BY <1>4, <1>5, <1>6, <1>7, <1>8, <1>9, NetworkTypedNext, ServerTypedNext

\* handleMarketRollingSubscriptionChanged keeps the types.
LEMMA HandleAddRollingTypes ==
  ASSUME NEW s \in Sockets, TypeOKNetwork, TypeOKServer, HandleAddRolling(s),
         UNCHANGED scenario
  PROVE  TypeOKNetwork' /\ TypeOKServer'
<1>1. /\ EndsTyped /\ UpTyped /\ DownTyped
      /\ ClientsTyped /\ EventsTyped /\ ServiceTyped
  BY NetworkTyped, ServerTyped
<1>2. ServerReceives(s, "addRolling") /\ Take(s)
  BY DEF HandleAddRolling
<1>3. /\ Head(up[s]) \in ClientMessage /\ Head(up[s]).type = "addRolling"
      /\ serverEnd[s] = "open"
  BY <1>1, <1>2, HeadUp
<1>4. EndsTyped'
  BY <1>1 DEF EndsTyped, HandleAddRolling, serviceVars, serverVars, networkVars
<1>5. UpTyped'
  BY <1>1, <1>2, TakeTyped
<1>6. DownTyped'
  <2> DEFINE message == Head(up[s])
             r == RollingSnapshot(message.clientId, message.market)
  <2>1. message.clientId \in ClientIds /\ message.market \in Markets
    BY <1>3, MessageKinds
  <2>2. RollingMessage(message.clientId, message.market, rolled[message.market])
          \in Downward
    BY <1>1, <2>1, MessagesTyped DEF ServiceTyped
  <2>3. r \in Seq(Downward)
    BY <2>2 DEF RollingSnapshot
  <2>4. DownAfter(s, r) \in [Sockets -> Seq(Downward)]
    BY <1>1, <2>3, DownAfterTyped
  <2> QED
    BY <1>1, <2>4 DEF DownTyped, HandleAddRolling
<1>7. ClientsTyped'
  <2> DEFINE m == Head(up[s]).market
  <2>1. m \in Markets /\ Head(up[s]).clientId \in ClientIds
    BY <1>3, MessageKinds
  <2>2. s \in DOMAIN clients =>
          IsClient([clients[s] EXCEPT !.rolling[m] = Head(up[s]).clientId])
    BY <1>1, <2>1, ClientChanges DEF ClientsTyped
  <2>3. clients' = [clients EXCEPT ![s] =
                      [clients[s] EXCEPT !.rolling[m] = Head(up[s]).clientId]]
    BY DEF HandleAddRolling
  <2> QED
    BY <1>1, <2>2, <2>3, ClientSet DEF ClientsTyped
<1>8. EventsTyped'
  BY <1>1 DEF EventsTyped, HandleAddRolling, serviceVars, serverVars,
       networkVars
<1>9. ServiceTyped'
  BY <1>1 DEF ServiceTyped, HandleAddRolling, serviceVars, serverVars,
       networkVars
<1> QED
  BY <1>4, <1>5, <1>6, <1>7, <1>8, <1>9, NetworkTypedNext, ServerTypedNext

\* The answer to handleRequestSettings keeps the types.
LEMMA SettingsLoadedTypes ==
  ASSUME NEW s \in Sockets, TypeOKNetwork, TypeOKServer, SettingsLoaded(s),
         UNCHANGED scenario
  PROVE  TypeOKNetwork' /\ TypeOKServer'
<1>1. /\ EndsTyped /\ UpTyped /\ DownTyped
      /\ ClientsTyped /\ EventsTyped /\ ServiceTyped
  BY NetworkTyped, ServerTyped
<1>2. EndsTyped'
  BY <1>1 DEF EndsTyped, SettingsLoaded, serviceVars, serverVars, networkVars
<1>3. UpTyped'
  BY <1>1 DEF UpTyped, SettingsLoaded, serviceVars, serverVars, networkVars
<1>4. DownTyped'
  <2>1. Signal("settingsLoaded") \in Downward
    BY MessagesTyped
  <2>2. << Signal("settingsLoaded") >> \in Seq(Downward)
    BY <2>1
  <2>3. DownAfter(s, << Signal("settingsLoaded") >>) \in [Sockets -> Seq(Downward)]
    BY <1>1, <2>2, DownAfterTyped
  <2> QED
    BY <1>1, <2>3 DEF DownTyped, SettingsLoaded
<1>5. ClientsTyped'
  BY <1>1 DEF ClientsTyped, SettingsLoaded, serviceVars, serverVars, networkVars
<1>6. EventsTyped'
  BY <1>1 DEF EventsTyped, SettingsLoaded, serviceVars, serverVars, networkVars
<1>7. ServiceTyped'
  BY <1>1 DEF ServiceTyped, SettingsLoaded, serviceVars, serverVars, networkVars
<1> QED
  BY <1>2, <1>3, <1>4, <1>5, <1>6, <1>7, NetworkTypedNext, ServerTypedNext

\* The end of a connection the server notices keeps the types.
LEMMA ServerNoticesCloseTypes ==
  ASSUME NEW s \in Sockets, TypeOKNetwork, TypeOKServer, ServerNoticesClose(s),
         UNCHANGED scenario
  PROVE  TypeOKNetwork' /\ TypeOKServer'
<1>1. /\ EndsTyped /\ UpTyped /\ DownTyped
      /\ ClientsTyped /\ EventsTyped /\ ServiceTyped
  BY NetworkTyped, ServerTyped
<1>2. EndsTyped'
  BY <1>1 DEF EndsTyped, ServerNoticesClose, serviceVars, serverVars,
       networkVars
<1>3. UpTyped'
  BY <1>1 DEF UpTyped, ServerNoticesClose, serviceVars, serverVars, networkVars
<1>4. DownTyped'
  BY <1>1 DEF DownTyped, ServerNoticesClose, serviceVars, serverVars,
       networkVars
<1>5. ClientsTyped'
  BY <1>1 DEF ClientsTyped, ServerNoticesClose, serviceVars, serverVars,
       networkVars
<1>6. EventsTyped'
  BY <1>1 DEF EventsTyped, ServerNoticesClose, serviceVars, serverVars,
       networkVars
<1>7. ServiceTyped'
  BY <1>1 DEF ServiceTyped, ServerNoticesClose, serviceVars, serverVars,
       networkVars
<1> QED
  BY <1>2, <1>3, <1>4, <1>5, <1>6, <1>7, NetworkTypedNext, ServerTypedNext

\* handleSocketClose keeps the types.
LEMMA ServerCloseEventTypes ==
  ASSUME NEW s \in Sockets, TypeOKNetwork, TypeOKServer, ServerCloseEvent(s),
         UNCHANGED scenario
  PROVE  TypeOKNetwork' /\ TypeOKServer'
<1>1. /\ EndsTyped /\ UpTyped /\ DownTyped
      /\ ClientsTyped /\ EventsTyped /\ ServiceTyped
  BY NetworkTyped, ServerTyped
<1>2. EndsTyped'
  BY <1>1 DEF EndsTyped, ServerCloseEvent, serviceVars, serverVars, networkVars
<1>3. UpTyped'
  BY <1>1 DEF UpTyped, ServerCloseEvent, serviceVars, serverVars, networkVars
<1>4. DownTyped'
  BY <1>1 DEF DownTyped, ServerCloseEvent, serviceVars, serverVars, networkVars
<1>5. ClientsTyped'
  BY <1>1 DEF ClientsTyped, ServerCloseEvent, Without
<1>6. EventsTyped'
  BY <1>1 DEF EventsTyped, ServerCloseEvent, Without, serviceVars
<1>7. ServiceTyped'
  BY <1>1, SilentAssumption DEF ServiceTyped, ServerCloseEvent, serviceVars
<1> QED
  BY <1>2, <1>3, <1>4, <1>5, <1>6, <1>7, NetworkTypedNext, ServerTypedNext

\* The timer of a pending full sync keeps the types.
LEMMA ExpireTypes ==
  ASSUME NEW e, TypeOKNetwork, TypeOKServer, Expire(e),
         UNCHANGED scenario
  PROVE  TypeOKNetwork' /\ TypeOKServer'
<1>1. /\ EndsTyped /\ UpTyped /\ DownTyped
      /\ ClientsTyped /\ EventsTyped /\ ServiceTyped
  BY NetworkTyped, ServerTyped
<1>2. EndsTyped'
  BY <1>1 DEF EndsTyped, Expire, serviceVars, serverVars, networkVars
<1>3. UpTyped'
  BY <1>1 DEF UpTyped, Expire, serviceVars, serverVars, networkVars
<1>4. DownTyped'
  BY <1>1 DEF DownTyped, Expire, serviceVars, serverVars, networkVars
<1>5. ClientsTyped'
  BY <1>1 DEF ClientsTyped, Expire, serviceVars, serverVars, networkVars
<1>6. EventsTyped'
  BY <1>1 DEF EventsTyped, Expire, serviceVars
<1>7. ServiceTyped'
  BY <1>1 DEF ServiceTyped, Expire, serviceVars, serverVars, networkVars
<1> QED
  BY <1>2, <1>3, <1>4, <1>5, <1>6, <1>7, NetworkTypedNext, ServerTypedNext

\* clearExpiredServerEvents keeps the types.
LEMMA ClearExpiredServerEventsTypes ==
  ASSUME TypeOKNetwork, TypeOKServer, ClearExpiredServerEvents,
         UNCHANGED scenario
  PROVE  TypeOKNetwork' /\ TypeOKServer'
<1>1. /\ EndsTyped /\ UpTyped /\ DownTyped
      /\ ClientsTyped /\ EventsTyped /\ ServiceTyped
  BY NetworkTyped, ServerTyped
<1>2. EndsTyped'
  BY <1>1 DEF EndsTyped, ClearExpiredServerEvents, serviceVars, serverVars,
       networkVars
<1>3. UpTyped'
  BY <1>1 DEF UpTyped, ClearExpiredServerEvents, serviceVars, serverVars,
       networkVars
<1>4. DownTyped'
  BY <1>1 DEF DownTyped, ClearExpiredServerEvents, serviceVars, serverVars,
       networkVars
<1>5. ClientsTyped'
  BY <1>1 DEF ClientsTyped, ClearExpiredServerEvents, serviceVars, serverVars,
       networkVars
<1>6. EventsTyped'
  BY <1>1 DEF EventsTyped, ClearExpiredServerEvents, Without, serviceVars
<1>7. ServiceTyped'
  BY <1>1 DEF ServiceTyped, ClearExpiredServerEvents, serviceVars, serverVars,
       networkVars
<1> QED
  BY <1>2, <1>3, <1>4, <1>5, <1>6, <1>7, NetworkTypedNext, ServerTypedNext

\* handleStorageFullSyncResults keeps the types.
LEMMA AnswerFullSyncTypes ==
  ASSUME NEW r, TypeOKNetwork, TypeOKServer, AnswerFullSync(r),
         UNCHANGED scenario
  PROVE  TypeOKNetwork' /\ TypeOKServer'
<1>1. /\ EndsTyped /\ UpTyped /\ DownTyped
      /\ ClientsTyped /\ EventsTyped /\ ServiceTyped
  BY NetworkTyped, ServerTyped
<1>2. EndsTyped'
  BY <1>1 DEF EndsTyped, AnswerFullSync, serviceVars, serverVars, networkVars
<1>3. UpTyped'
  BY <1>1 DEF UpTyped, AnswerFullSync, serviceVars, serverVars, networkVars
<1>4. DownTyped'
  <2> DEFINE e == r.eventId
             m == r.market
             s == serverEvents[e].socket
             x == Packet("snapshot", clients[s].nextServerId,
                         serverEvents[e].clientId, m, version[m])
  <2>1. CASE e \in DOMAIN serverEvents /\ serverEvents[e].valid /\ Ready(s)
    <3>1. m \in Markets /\ serverEvents[e].clientId \in ClientIds
      BY <1>1, <2>1 DEF EventsTyped, AnswerFullSync
    <3>2. clients[s].nextServerId \in Nat
      BY <1>1, <2>1 DEF ClientsTyped, IsClient, Ready, Connected
    <3>3. version[m] \in 0 .. MaxVersion
      BY <1>1, <3>1 DEF ServiceTyped
    <3>4. x \in Downward
      BY <3>1, <3>2, <3>3, MessagesTyped
    <3>5. << x >> \in Seq(Downward)
      BY <3>4
    <3>6. down' = DownAfter(s, << x >>)
      BY <2>1 DEF AnswerFullSync
    <3> QED
      BY <1>1, <3>5, <3>6, DownAfterTyped DEF DownTyped
  <2>2. CASE ~ (e \in DOMAIN serverEvents /\ serverEvents[e].valid /\ Ready(s))
    BY <1>1, <2>2 DEF DownTyped, AnswerFullSync
  <2> QED
    BY <2>1, <2>2
<1>5. ClientsTyped'
  <2> DEFINE e == r.eventId
             m == r.market
             s == serverEvents[e].socket
             c == Answered(clients[s], m, serverEvents[e].clientId)
  <2>1. CASE e \in DOMAIN serverEvents /\ serverEvents[e].valid /\ Ready(s)
    <3>1. m \in Markets /\ serverEvents[e].clientId \in ClientIds
      BY <1>1, <2>1 DEF EventsTyped, AnswerFullSync
    <3>2. IsClient(clients[s])
      BY <1>1, <2>1 DEF ClientsTyped, Ready, Connected
    <3>3. IsClient(c)
      BY <3>1, <3>2, ClientChanges
    <3>4. clients' = [clients EXCEPT ![s] = c]
      BY <2>1 DEF AnswerFullSync
    <3> HIDE DEF c, s
    <3> QED
      BY <1>1, <3>3, <3>4, ClientSet DEF ClientsTyped
  <2>2. CASE ~ (e \in DOMAIN serverEvents /\ serverEvents[e].valid /\ Ready(s))
    BY <1>1, <2>2 DEF ClientsTyped, AnswerFullSync
  <2> QED
    BY <2>1, <2>2
<1>6. EventsTyped'
  BY <1>1 DEF EventsTyped, AnswerFullSync, Without
<1>7. ServiceTyped'
  BY <1>1 DEF ServiceTyped, AnswerFullSync, serviceVars, serverVars, networkVars
<1> QED
  BY <1>2, <1>3, <1>4, <1>5, <1>6, <1>7, NetworkTypedNext, ServerTypedNext

\* handleStorageDeltaCreated keeps the types.
LEMMA TickTypes ==
  ASSUME NEW m \in Markets, TypeOKNetwork, TypeOKServer, Tick(m),
         UNCHANGED scenario
  PROVE  TypeOKNetwork' /\ TypeOKServer'
<1>1. /\ EndsTyped /\ UpTyped /\ DownTyped
      /\ ClientsTyped /\ EventsTyped /\ ServiceTyped
  BY NetworkTyped, ServerTyped
<1>2. EndsTyped'
  BY <1>1 DEF EndsTyped, Tick, serviceVars, serverVars, networkVars
<1>3. UpTyped'
  BY <1>1 DEF UpTyped, Tick, serviceVars, serverVars, networkVars
<1>4. DownTyped'
  <2> DEFINE messages == [s \in Subscribers(m) |->
                  << Packet("delta", clients[s].nextServerId,
                            clients[s].statistics[m], m, version[m] + 1) >>]
  <2>1. version[m] + 1 \in 0 .. MaxVersion
    BY <1>1, NetworkAssumption DEF ServiceTyped, EndsTyped, Tick
  <2>2. ASSUME NEW s \in Subscribers(m)
        PROVE  messages[s] \in Seq(Downward)
    <3>1. /\ clients[s].nextServerId \in Nat
          /\ clients[s].statistics[m] \in ClientIds
      BY <1>1, <2>2 DEF Subscribers, ClientsTyped, IsClient
    <3>2. Packet("delta", clients[s].nextServerId, clients[s].statistics[m], m,
                 version[m] + 1) \in Downward
      BY <2>1, <3>1, MessagesTyped
    <3> QED
      BY <3>2
  <2>3. down' = DownAfterAll(messages)
    BY DEF Tick
  <2>4. DOMAIN messages = Subscribers(m)
    OBVIOUS
  <2> HIDE DEF messages
  <2> QED
    BY <1>1, <2>2, <2>3, <2>4, DownAfterAllTyped DEF DownTyped
<1>5. ClientsTyped'
  <2>1. ASSUME NEW s \in DOMAIN clients
        PROVE  IsClient([clients[s] EXCEPT !.nextServerId = @ + 1])
    BY <1>1, ClientChanges DEF ClientsTyped
  <2> QED
    BY <1>1, <2>1 DEF ClientsTyped, Tick
<1>6. EventsTyped'
  BY <1>1 DEF EventsTyped, Tick, serviceVars, serverVars, networkVars
<1>7. ServiceTyped'
  <2>1. version[m] + 1 \in 0 .. MaxVersion
    BY <1>1, NetworkAssumption DEF ServiceTyped, EndsTyped, Tick
  <2> QED
    BY <1>1, <2>1 DEF ServiceTyped, Tick
<1> QED
  BY <1>2, <1>3, <1>4, <1>5, <1>6, <1>7, NetworkTypedNext, ServerTypedNext

\* handleMarketRollingUpdated keeps the types.
LEMMA PublishRollingTypes ==
  ASSUME NEW m \in Markets, TypeOKNetwork, TypeOKServer, PublishRolling(m),
         UNCHANGED scenario
  PROVE  TypeOKNetwork' /\ TypeOKServer'
<1>1. /\ EndsTyped /\ UpTyped /\ DownTyped
      /\ ClientsTyped /\ EventsTyped /\ ServiceTyped
  BY NetworkTyped, ServerTyped
<1>2. EndsTyped'
  BY <1>1 DEF EndsTyped, PublishRolling, serviceVars, serverVars, networkVars
<1>3. UpTyped'
  BY <1>1 DEF UpTyped, PublishRolling, serviceVars, serverVars, networkVars
<1>4. DownTyped'
  <2> DEFINE subscribed == {s \in DOMAIN clients :
                              clients[s].isReady /\ clients[s].rolling[m] # NoId}
             messages == [s \in subscribed |->
                  << RollingMessage(clients[s].rolling[m], m, rolled[m] + 1) >>]
  <2>1. rolled[m] + 1 \in 0 .. MaxVersion
    BY <1>1, NetworkAssumption DEF ServiceTyped, EndsTyped, PublishRolling
  <2>2. ASSUME NEW s \in subscribed
        PROVE  messages[s] \in Seq(Downward)
    <3>1. clients[s].rolling[m] \in ClientIds
      BY <1>1, <2>2 DEF ClientsTyped, IsClient
    <3>2. RollingMessage(clients[s].rolling[m], m, rolled[m] + 1) \in Downward
      BY <2>1, <3>1, MessagesTyped
    <3> QED
      BY <3>2
  <2>3. down' = DownAfterAll(messages)
    BY DEF PublishRolling
  <2>4. DOMAIN messages = subscribed
    OBVIOUS
  <2> HIDE DEF messages
  <2> QED
    BY <1>1, <2>2, <2>3, <2>4, DownAfterAllTyped DEF DownTyped
<1>5. ClientsTyped'
  BY <1>1 DEF ClientsTyped, PublishRolling, serviceVars, serverVars, networkVars
<1>6. EventsTyped'
  BY <1>1 DEF EventsTyped, PublishRolling, serviceVars, serverVars, networkVars
<1>7. ServiceTyped'
  <2>1. rolled[m] + 1 \in 0 .. MaxVersion
    BY <1>1, NetworkAssumption DEF ServiceTyped, EndsTyped, PublishRolling
  <2> QED
    BY <1>1, <2>1 DEF ServiceTyped, PublishRolling
<1> QED
  BY <1>2, <1>3, <1>4, <1>5, <1>6, <1>7, NetworkTypedNext, ServerTypedNext

\* broadcastMarketsUpdated keeps the types.
LEMMA BroadcastMarketsTypes ==
  ASSUME TypeOKNetwork, TypeOKServer, BroadcastMarkets,
         UNCHANGED scenario
  PROVE  TypeOKNetwork' /\ TypeOKServer'
<1>1. /\ EndsTyped /\ UpTyped /\ DownTyped
      /\ ClientsTyped /\ EventsTyped /\ ServiceTyped
  BY NetworkTyped, ServerTyped
<1>2. EndsTyped'
  BY <1>1 DEF EndsTyped, BroadcastMarkets, serviceVars, serverVars, networkVars
<1>3. UpTyped'
  BY <1>1 DEF UpTyped, BroadcastMarkets, serviceVars, serverVars, networkVars
<1>4. DownTyped'
  <2> DEFINE subscribed == {s \in DOMAIN clients :
                              clients[s].isReady /\ clients[s].marketInfo}
             messages == [s \in subscribed |-> << MarketsUpdated(markets + 1) >>]
  <2>1. markets + 1 \in 1 .. MaxMarkets
    BY <1>1, NetworkAssumption DEF ServiceTyped, BroadcastMarkets
  <2>2. MarketsUpdated(markets + 1) \in Downward
    BY <2>1, MessagesTyped
  <2>3. \A s \in DOMAIN messages : messages[s] \in Seq(Downward)
    BY <2>2
  <2>4. down' = DownAfterAll(messages)
    BY DEF BroadcastMarkets
  <2> HIDE DEF messages
  <2> QED
    BY <1>1, <2>3, <2>4, DownAfterAllTyped DEF DownTyped
<1>5. ClientsTyped'
  BY <1>1 DEF ClientsTyped, BroadcastMarkets, serviceVars, serverVars,
       networkVars
<1>6. EventsTyped'
  BY <1>1 DEF EventsTyped, BroadcastMarkets, serviceVars, serverVars,
       networkVars
<1>7. ServiceTyped'
  BY <1>1, NetworkAssumption DEF ServiceTyped, BroadcastMarkets
<1> QED
  BY <1>2, <1>3, <1>4, <1>5, <1>6, <1>7, NetworkTypedNext, ServerTypedNext

\* processServerPing keeps the types.
LEMMA ServerPingTypes ==
  ASSUME TypeOKNetwork, TypeOKServer, ServerPing,
         UNCHANGED scenario
  PROVE  TypeOKNetwork' /\ TypeOKServer'
<1>1. /\ EndsTyped /\ UpTyped /\ DownTyped
      /\ ClientsTyped /\ EventsTyped /\ ServiceTyped
  BY NetworkTyped, ServerTyped
<1>2. EndsTyped'
  BY <1>1 DEF EndsTyped, ServerPing, serviceVars, serverVars, networkVars
<1>3. UpTyped'
  BY <1>1 DEF UpTyped, ServerPing, serviceVars, serverVars, networkVars
<1>4. DownTyped'
  <2> DEFINE listed == {s \in DOMAIN clients : serverEnd[s] = "open"}
             late == {s \in listed : Late(s)}
             pinged == {s \in listed \ late :
                          \A i \in 1 .. Len(down[s]) :
                            down[s][i].type # "serverPing"}
             messages == [s \in pinged |-> << Signal("serverPing") >>]
  <2>1. Signal("serverPing") \in Downward
    BY MessagesTyped
  <2>2. \A s \in DOMAIN messages : messages[s] \in Seq(Downward)
    BY <2>1
  <2>3. down' = DownAfterAll(messages)
    BY DEF ServerPing
  <2> HIDE DEF messages
  <2> QED
    BY <1>1, <2>2, <2>3, DownAfterAllTyped DEF DownTyped
<1>5. ClientsTyped'
  BY <1>1 DEF ClientsTyped, ServerPing, serviceVars, serverVars, networkVars
<1>6. EventsTyped'
  BY <1>1 DEF EventsTyped, ServerPing, serviceVars, serverVars, networkVars
<1>7. ServiceTyped'
  <2>1. \A s \in Sockets : ~ Late(s) => SilentLonger(s) \in 0 .. MaxSilent + 1
    BY <1>1, SilentAssumption DEF ServiceTyped, Late, SilentLonger
  <2> QED
    BY <1>1, <2>1 DEF ServiceTyped, ServerPing, serviceVars
<1> QED
  BY <1>2, <1>3, <1>4, <1>5, <1>6, <1>7, NetworkTypedNext, ServerTypedNext

\* A restart of the server keeps the types.
LEMMA ServerRestartsTypes ==
  ASSUME TypeOKNetwork, TypeOKServer, ServerRestarts,
         UNCHANGED scenario
  PROVE  TypeOKNetwork' /\ TypeOKServer'
<1>1. /\ EndsTyped /\ UpTyped /\ DownTyped
      /\ ClientsTyped /\ EventsTyped /\ ServiceTyped
  BY NetworkTyped, ServerTyped
<1>2. EndsTyped'
  BY <1>1 DEF EndsTyped, ServerRestarts, serviceVars, serverVars, networkVars
<1>3. UpTyped'
  BY <1>1 DEF UpTyped, ServerRestarts, serviceVars, serverVars, networkVars
<1>4. DownTyped'
  BY <1>1 DEF DownTyped, ServerRestarts, serviceVars, serverVars, networkVars
<1>5. ClientsTyped'
  <2>1. DOMAIN clients' = {}
    BY DEF ServerRestarts
  <2> QED
    BY <2>1 DEF ClientsTyped
<1>6. EventsTyped'
  <2>1. /\ DOMAIN serverEvents' = {}
        /\ nextEventId' = 0 /\ requests' = {}
    BY DEF ServerRestarts
  <2> QED
    BY <2>1 DEF EventsTyped
<1>7. ServiceTyped'
  BY <1>1, SilentAssumption DEF ServiceTyped, ServerRestarts, serviceVars
<1> QED
  BY <1>2, <1>3, <1>4, <1>5, <1>6, <1>7, NetworkTypedNext, ServerTypedNext

-----------------------------------------------------------------------------
(* Types after a step of the browser.                                      *)

\* The parts of FrontendClient's type invariant.
TransportTyped ==
  /\ socket \in Sockets \union {NoSocket}
  /\ isReady \in BOOLEAN
  /\ pongTimer \in BOOLEAN
  /\ connectDue \in BOOLEAN

PageTyped == page \in 1 .. 2 /\ nextClientId \in ClientIds

SessionTyped ==
  /\ lastServerId \in Nat
  /\ entities \in BOOLEAN
  /\ marketList \in 0 .. MaxMarkets

ViewTyped ==
  /\ sync.state \in {"idle", "waiting"}
  /\ sync.got \in [Answers -> Sockets \union {NoSocket}]
  /\ shown \in BOOLEAN

ControllersTyped ==
  /\ mounted \subseteq Markets
  /\ storage \in [Markets -> 0 .. NoStorage]
  /\ pending \in [Markets -> SUBSET ClientIds]
  /\ rollingShown \in [Markets -> 0 .. MaxVersion]

\* The parts of FrontendClient's type invariant.
LEMMA ClientTyped ==
  TypeOKClient <=> /\ TransportTyped /\ PageTyped /\ SessionTyped
                   /\ ViewTyped /\ ControllersTyped
BY DEF TypeOKClient, TransportTyped, PageTyped, SessionTyped, ViewTyped,
       ControllersTyped

\* The same after a step.
LEMMA ClientTypedNext ==
  TransportTyped' /\ PageTyped' /\ SessionTyped' /\ ViewTyped' /\ ControllersTyped'
    => TypeOKClient'
BY DEF TypeOKClient, TransportTyped, PageTyped, SessionTyped, ViewTyped,
       ControllersTyped

\* The version of no storage is one beyond the others.
LEMMA NoStorageNatural == NoStorage \in Nat /\ MaxVersion \in Nat
BY NetworkAssumption DEF NoStorage

\* A synchronization that is started, and one that is not running.
LEMMA RunsTyped ==
  /\ NewRun.state = "waiting"
  /\ NotRunning.state = "idle"
  /\ NewRun.got = [a \in Answers |-> NoSocket]
  /\ NotRunning.got = [a \in Answers |-> NoSocket]
BY DEF NewRun, NotRunning, Waiting

\* The controllers after markets have lost their last subscribers.
LEMMA UnmountTyped ==
  ASSUME NEW gone, ControllersTyped, UnmountAll(gone)
  PROVE  ControllersTyped'
BY NoStorageNatural DEF ControllersTyped, UnmountAll

\* The network after the browser has closed its end of a socket.
LEMMA CloseTyped ==
  ASSUME NEW s \in Sockets, EndsTyped, DownTyped, CloseClientEnd(s),
         UNCHANGED <<serverEnd, link, scenario>>
  PROVE  EndsTyped' /\ DownTyped'
BY DEF EndsTyped, DownTyped, CloseClientEnd

\* Transport and session state after the end of a session.
LEMMA SessionEndTyped ==
  /\ Disconnected => TransportTyped'
  /\ ClearSessionState => SessionTyped'
<1>1. /\ NoSocket \in Sockets \union {NoSocket}
      /\ 0 \in Nat
      /\ 0 \in 0 .. MaxMarkets
      /\ FALSE \in BOOLEAN /\ TRUE \in BOOLEAN
  BY NetworkAssumption
<1> QED
  BY ONLY <1>1
     DEF Disconnected, ClearSessionState, TransportTyped, SessionTyped

\* createClientId goes on without an end.
LEMMA ClientIdsGoOn ==
  1 \in ClientIds /\ \A n \in ClientIds : n + 1 \in ClientIds
BY DEF ClientIds

\* An answer that getPrimaryData waits for keeps the synchronization's type.
LEMMA AnswerTyped ==
  ASSUME NEW a \in Answers, NEW s \in Sockets, ViewTyped, Answer(a, s)
  PROVE  ViewTyped'
<1> DEFINE got == [sync.got EXCEPT ![a] = s]
<1>1. got \in [Answers -> Sockets \union {NoSocket}]
  BY DEF ViewTyped
<1>2. CASE sync.state = "idle"
  BY <1>2 DEF Answer, ViewTyped, viewVars
<1>3. CASE sync.state # "idle"
  <2>1. \/ sync' = Waiting(got) /\ UNCHANGED shown
        \/ sync' = NotRunning /\ shown' = TRUE
    BY <1>3 DEF Answer, ViewTyped
  <2>2. Waiting(got).state = "waiting" /\ Waiting(got).got = got
    BY DEF Waiting
  <2> HIDE DEF got
  <2> QED
    BY <1>1, <2>1, <2>2, RunsTyped DEF ViewTyped
<1> QED
  BY <1>2, <1>3

\* onFirstSubscriber keeps the types.
LEMMA MountTypes ==
  ASSUME NEW m \in Markets, TypeOKNetwork, TypeOKClient, Mount(m),
         UNCHANGED scenario
  PROVE  TypeOKNetwork' /\ TypeOKClient'
<1>1. /\ EndsTyped /\ UpTyped /\ DownTyped /\ TransportTyped /\ PageTyped
      /\ SessionTyped /\ ViewTyped /\ ControllersTyped
  BY NetworkTyped, ClientTyped
<1>2. EndsTyped'
  BY <1>1 DEF EndsTyped, Mount, transportVars, pageVars, sessionVars, viewVars,
       controllerVars
<1>3. UpTyped'
  <2>1. [type |-> "requestFullSync", clientId |-> nextClientId, market |-> m]
          \in ClientMessage
    BY <1>1, MessagesTyped DEF PageTyped
  <2>2. << [type |-> "requestFullSync", clientId |-> nextClientId,
            market |-> m] >> \in Seq(ClientMessage)
    BY <2>1
  <2> QED
    BY <1>1, <2>2, UpAfterTyped DEF UpTyped, Mount
<1>4. DownTyped'
  BY <1>1 DEF DownTyped, Mount, transportVars, pageVars, sessionVars, viewVars,
       controllerVars
<1>5. TransportTyped'
  BY <1>1 DEF TransportTyped, Mount, transportVars, pageVars, sessionVars,
       viewVars, controllerVars
<1>6. PageTyped'
  BY <1>1, ClientIdsGoOn DEF PageTyped, Mount
<1>7. SessionTyped'
  BY <1>1 DEF SessionTyped, Mount, transportVars, pageVars, sessionVars,
       viewVars, controllerVars
<1>8. ViewTyped'
  BY <1>1 DEF ViewTyped, Mount, transportVars, pageVars, sessionVars, viewVars,
       controllerVars
<1>9. ControllersTyped'
  BY <1>1 DEF ControllersTyped, PageTyped, Mount
<1> QED
  BY <1>2, <1>3, <1>4, <1>5, <1>6, <1>7, <1>8, <1>9, NetworkTypedNext,
       ClientTypedNext

\* onLastSubscriber keeps the types.
LEMMA UnmountTypes ==
  ASSUME NEW m \in Markets, TypeOKNetwork, TypeOKClient, Unmount(m),
         UNCHANGED scenario
  PROVE  TypeOKNetwork' /\ TypeOKClient'
<1>1. /\ EndsTyped /\ UpTyped /\ DownTyped /\ TransportTyped /\ PageTyped
      /\ SessionTyped /\ ViewTyped /\ ControllersTyped
  BY NetworkTyped, ClientTyped
<1>2. EndsTyped'
  BY <1>1 DEF EndsTyped, Unmount, transportVars, pageVars, sessionVars,
       viewVars, controllerVars
<1>3. UpTyped'
  <2>1. Removals({m}) \in Seq(ClientMessage)
    BY RemovalsTyped
  <2> QED
    BY <1>1, <2>1, UpAfterTyped DEF UpTyped, Unmount
<1>4. DownTyped'
  BY <1>1 DEF DownTyped, Unmount, transportVars, pageVars, sessionVars,
       viewVars, controllerVars
<1>5. TransportTyped'
  BY <1>1 DEF TransportTyped, Unmount, transportVars, pageVars, sessionVars,
       viewVars, controllerVars
<1>6. PageTyped'
  BY <1>1 DEF PageTyped, Unmount, transportVars, pageVars, sessionVars,
       viewVars, controllerVars
<1>7. SessionTyped'
  BY <1>1 DEF SessionTyped, Unmount, transportVars, pageVars, sessionVars,
       viewVars, controllerVars
<1>8. ViewTyped'
  BY <1>1 DEF ViewTyped, Unmount, transportVars, pageVars, sessionVars,
       viewVars, controllerVars
<1>9. ControllersTyped'
  BY <1>1, UnmountTyped DEF Unmount
<1> QED
  BY <1>2, <1>3, <1>4, <1>5, <1>6, <1>7, <1>8, <1>9, NetworkTypedNext,
       ClientTypedNext

\* connect keeps the types.
LEMMA ConnectTypes ==
  ASSUME TypeOKNetwork, TypeOKClient, Connect,
         UNCHANGED scenario
  PROVE  TypeOKNetwork' /\ TypeOKClient'
<1>1. /\ EndsTyped /\ UpTyped /\ DownTyped /\ TransportTyped /\ PageTyped
      /\ SessionTyped /\ ViewTyped /\ ControllersTyped
  BY NetworkTyped, ClientTyped
<1>2. EndsTyped'
  BY <1>1 DEF EndsTyped, Connect, transportVars, pageVars, sessionVars,
       viewVars, controllerVars
<1>3. UpTyped'
  BY <1>1 DEF UpTyped, Connect, transportVars, pageVars, sessionVars, viewVars,
       controllerVars
<1>4. DownTyped'
  BY <1>1 DEF DownTyped, Connect, transportVars, pageVars, sessionVars,
       viewVars, controllerVars
<1>5. TransportTyped'
  BY <1>1 DEF TransportTyped, Connect, transportVars, pageVars, sessionVars,
       viewVars, controllerVars
<1>6. PageTyped'
  BY <1>1 DEF PageTyped, Connect, transportVars, pageVars, sessionVars,
       viewVars, controllerVars
<1>7. SessionTyped'
  BY <1>1 DEF SessionTyped, Connect, transportVars, pageVars, sessionVars,
       viewVars, controllerVars
<1>8. ViewTyped'
  BY <1>1 DEF ViewTyped, Connect, transportVars, pageVars, sessionVars,
       viewVars, controllerVars
<1>9. ControllersTyped'
  BY <1>1 DEF ControllersTyped, Connect, transportVars, pageVars, sessionVars,
       viewVars, controllerVars
<1> QED
  BY <1>2, <1>3, <1>4, <1>5, <1>6, <1>7, <1>8, <1>9, NetworkTypedNext,
       ClientTypedNext

\* handleClose keeps the types.
LEMMA SocketClosesTypes ==
  ASSUME NEW s \in Sockets, TypeOKNetwork, TypeOKClient, SocketCloses(s),
         UNCHANGED scenario
  PROVE  TypeOKNetwork' /\ TypeOKClient'
<1>1. /\ EndsTyped /\ UpTyped /\ DownTyped /\ TransportTyped /\ PageTyped
      /\ SessionTyped /\ ViewTyped /\ ControllersTyped
  BY NetworkTyped, ClientTyped
<1>2. EndsTyped' /\ DownTyped'
  BY <1>1, CloseTyped DEF SocketCloses
<1>3. UpTyped'
  BY <1>1 DEF UpTyped, SocketCloses, transportVars, pageVars, sessionVars,
       viewVars, controllerVars
<1>4. TransportTyped'
  BY SessionEndTyped DEF SocketCloses
<1>5. PageTyped'
  BY <1>1 DEF PageTyped, SocketCloses, transportVars, pageVars, sessionVars,
       viewVars, controllerVars
<1>6. SessionTyped'
  BY SessionEndTyped DEF SocketCloses
<1>7. ViewTyped'
  BY <1>1, RunsTyped DEF SocketCloses, HidePages, ViewTyped
<1>8. ControllersTyped'
  BY <1>1, UnmountTyped DEF SocketCloses, HidePages
<1> QED
  BY <1>3, <1>4, <1>5, <1>6, <1>7, <1>8, <1>2, NetworkTypedNext, ClientTypedNext

\* The timer of sendClientPing keeps the types.
LEMMA PongTimeoutTypes ==
  ASSUME TypeOKNetwork, TypeOKClient, PongTimeout,
         UNCHANGED scenario
  PROVE  TypeOKNetwork' /\ TypeOKClient'
<1>1. /\ EndsTyped /\ UpTyped /\ DownTyped /\ TransportTyped /\ PageTyped
      /\ SessionTyped /\ ViewTyped /\ ControllersTyped
  BY NetworkTyped, ClientTyped
<1>2. EndsTyped' /\ DownTyped'
  BY <1>1, CloseTyped DEF PongTimeout, Reconnect
<1>3. UpTyped'
  BY <1>1 DEF UpTyped, PongTimeout, transportVars, pageVars, sessionVars,
       viewVars, controllerVars
<1>4. TransportTyped'
  BY SessionEndTyped DEF PongTimeout, Reconnect
<1>5. PageTyped'
  BY <1>1 DEF PageTyped, PongTimeout, transportVars, pageVars, sessionVars,
       viewVars, controllerVars
<1>6. SessionTyped'
  BY <1>1 DEF SessionTyped, PongTimeout, transportVars, pageVars, sessionVars,
       viewVars, controllerVars
<1>7. ViewTyped'
  BY <1>1 DEF ViewTyped, PongTimeout, transportVars, pageVars, sessionVars,
       viewVars, controllerVars
<1>8. ControllersTyped'
  BY <1>1 DEF ControllersTyped, PongTimeout, transportVars, pageVars,
       sessionVars, viewVars, controllerVars
<1> QED
  BY <1>3, <1>4, <1>5, <1>6, <1>7, <1>8, <1>2, NetworkTypedNext, ClientTypedNext

\* A page that is loaded again keeps the types.
LEMMA UserReloadsTypes ==
  ASSUME NEW r \in 1 .. 2, TypeOKNetwork, TypeOKClient, UserReloads(r),
         UNCHANGED scenario
  PROVE  TypeOKNetwork' /\ TypeOKClient'
<1>1. /\ EndsTyped /\ UpTyped /\ DownTyped /\ TransportTyped /\ PageTyped
      /\ SessionTyped /\ ViewTyped /\ ControllersTyped
  BY NetworkTyped, ClientTyped
<1>2. EndsTyped' /\ DownTyped'
  BY <1>1, CloseTyped DEF UserReloads, CloseSocketIfAny, EndsTyped, DownTyped
<1>3. UpTyped'
  BY <1>1 DEF UpTyped, UserReloads, transportVars, pageVars, sessionVars,
       viewVars, controllerVars
<1>4. TransportTyped'
  BY SessionEndTyped DEF UserReloads, LoadPage
<1>5. PageTyped'
  BY <1>1, ClientIdsGoOn DEF PageTyped, UserReloads, LoadPage
<1>6. SessionTyped'
  BY SessionEndTyped DEF UserReloads, LoadPage
<1>7. ViewTyped'
  BY <1>1, RunsTyped DEF UserReloads, LoadPage, HidePages, ViewTyped
<1>8. ControllersTyped'
  BY <1>1, UnmountTyped DEF UserReloads, LoadPage, HidePages
<1> QED
  BY <1>3, <1>4, <1>5, <1>6, <1>7, <1>8, <1>2, NetworkTypedNext, ClientTypedNext

\* stop and start of the controller keeps the types.
LEMMA RemountTypes ==
  ASSUME TypeOKNetwork, TypeOKClient, Remount,
         UNCHANGED scenario
  PROVE  TypeOKNetwork' /\ TypeOKClient'
<1>1. /\ EndsTyped /\ UpTyped /\ DownTyped /\ TransportTyped /\ PageTyped
      /\ SessionTyped /\ ViewTyped /\ ControllersTyped
  BY NetworkTyped, ClientTyped
<1>2. EndsTyped' /\ DownTyped'
  BY <1>1, CloseTyped DEF Remount
<1>3. UpTyped'
  BY <1>1 DEF UpTyped, Remount, transportVars, pageVars, sessionVars, viewVars,
       controllerVars
<1>4. TransportTyped'
  BY SessionEndTyped DEF Remount
<1>5. PageTyped'
  BY <1>1 DEF PageTyped, Remount, transportVars, pageVars, sessionVars,
       viewVars, controllerVars
<1>6. SessionTyped'
  BY SessionEndTyped DEF Remount
<1>7. ViewTyped'
  BY <1>1 DEF Remount, HidePages, ViewTyped
<1>8. ControllersTyped'
  BY <1>1, UnmountTyped DEF Remount, HidePages
<1> QED
  BY <1>3, <1>4, <1>5, <1>6, <1>7, <1>8, <1>2, NetworkTypedNext, ClientTypedNext

\* sendClientPing keeps the types.
LEMMA SendClientPingTypes ==
  ASSUME TypeOKNetwork, TypeOKClient, SendClientPing,
         UNCHANGED scenario
  PROVE  TypeOKNetwork' /\ TypeOKClient'
<1>1. /\ EndsTyped /\ UpTyped /\ DownTyped /\ TransportTyped /\ PageTyped
      /\ SessionTyped /\ ViewTyped /\ ControllersTyped
  BY NetworkTyped, ClientTyped
<1>2. EndsTyped'
  BY <1>1 DEF EndsTyped, SendClientPing, transportVars, pageVars, sessionVars,
       viewVars, controllerVars
<1>3. UpTyped'
  <2>1. Signal("clientPing") \in ClientMessage
    BY MessagesTyped DEF ClientSignals
  <2>2. << Signal("clientPing") >> \in Seq(ClientMessage)
    BY <2>1
  <2> QED
    BY <1>1, <2>2, UpAfterTyped DEF UpTyped, SendClientPing
<1>4. DownTyped'
  BY <1>1 DEF DownTyped, SendClientPing, transportVars, pageVars, sessionVars,
       viewVars, controllerVars
<1>5. TransportTyped'
  BY <1>1 DEF TransportTyped, SendClientPing, transportVars, pageVars,
       sessionVars, viewVars, controllerVars
<1>6. PageTyped'
  BY <1>1 DEF PageTyped, SendClientPing, transportVars, pageVars, sessionVars,
       viewVars, controllerVars
<1>7. SessionTyped'
  BY <1>1 DEF SessionTyped, SendClientPing, transportVars, pageVars,
       sessionVars, viewVars, controllerVars
<1>8. ViewTyped'
  BY <1>1 DEF ViewTyped, SendClientPing, transportVars, pageVars, sessionVars,
       viewVars, controllerVars
<1>9. ControllersTyped'
  BY <1>1 DEF ControllersTyped, SendClientPing, transportVars, pageVars,
       sessionVars, viewVars, controllerVars
<1> QED
  BY <1>2, <1>3, <1>4, <1>5, <1>6, <1>7, <1>8, <1>9, NetworkTypedNext,
       ClientTypedNext

\* handleServerHello keeps the types.
LEMMA HandleServerHelloTypes ==
  ASSUME NEW s \in Sockets, TypeOKNetwork, TypeOKClient, HandleServerHello(s),
         UNCHANGED scenario
  PROVE  TypeOKNetwork' /\ TypeOKClient'
<1>1. /\ EndsTyped /\ UpTyped /\ DownTyped /\ TransportTyped /\ PageTyped
      /\ SessionTyped /\ ViewTyped /\ ControllersTyped
  BY NetworkTyped, ClientTyped
<1>2. ClientReceives(s, "serverHello")
  BY DEF HandleServerHello
<1>3. Head(down[s]) \in Downward /\ Head(down[s]).type = "serverHello"
  BY <1>1, <1>2, HeadDown
<1>4. EndsTyped'
  BY <1>1 DEF EndsTyped, HandleServerHello, transportVars, pageVars,
       sessionVars, viewVars, controllerVars
<1>5. UpTyped'
  <2> DEFINE q == << Signal("webSocketReady"), Signal("clientPing"),
                    Signal("requestSettings"), Signal("setMarketInfo"),
                    Signal("requestStorageEntities") >>
  <2>1. /\ Signal("webSocketReady") \in ClientMessage
        /\ Signal("clientPing") \in ClientMessage
        /\ Signal("requestSettings") \in ClientMessage
        /\ Signal("setMarketInfo") \in ClientMessage
        /\ Signal("requestStorageEntities") \in ClientMessage
    BY MessagesTyped DEF ClientSignals
  <2>2. q \in Seq(ClientMessage)
    BY <2>1
  <2>3. Removals(mounted) \in Seq(ClientMessage)
    BY <1>1, RemovalsTyped DEF ControllersTyped
  <2>4. q \o Removals(mounted) \in Seq(ClientMessage)
    BY <2>2, <2>3
  <2>5. up' = UpAfter(s, q \o Removals(mounted))
    BY DEF HandleServerHello
  <2> HIDE DEF q
  <2> QED
    BY <1>1, <2>4, <2>5, UpAfterTyped DEF UpTyped
<1>6. DownTyped'
  BY <1>1, <1>2, TakeDownTyped DEF HandleServerHello
<1>7. TransportTyped'
  BY <1>1 DEF TransportTyped, HandleServerHello, transportVars, pageVars,
       sessionVars, viewVars, controllerVars
<1>8. PageTyped'
  BY <1>1 DEF PageTyped, HandleServerHello, transportVars, pageVars,
       sessionVars, viewVars, controllerVars
<1>9. SessionTyped'
  BY <1>1 DEF SessionTyped, HandleServerHello, transportVars, pageVars,
       sessionVars, viewVars, controllerVars
<1>10. ViewTyped'
  BY <1>1, RunsTyped DEF HandleServerHello, HidePages, ViewTyped
<1>11. ControllersTyped'
  BY <1>1, UnmountTyped DEF HandleServerHello, HidePages
<1> QED
  BY <1>4, <1>5, <1>6, <1>7, <1>8, <1>9, <1>10, <1>11, NetworkTypedNext,
       ClientTypedNext

\* The hello of a new release keeps the types.
LEMMA HandleHelloOfNewReleaseTypes ==
  ASSUME NEW s \in Sockets, TypeOKNetwork, TypeOKClient, HandleHelloOfNewRelease(s),
         UNCHANGED scenario
  PROVE  TypeOKNetwork' /\ TypeOKClient'
<1>1. /\ EndsTyped /\ UpTyped /\ DownTyped /\ TransportTyped /\ PageTyped
      /\ SessionTyped /\ ViewTyped /\ ControllersTyped
  BY NetworkTyped, ClientTyped
<1>2. ClientReceives(s, "serverHello")
  BY DEF HandleHelloOfNewRelease
<1>3. Head(down[s]) \in Downward /\ Head(down[s]).type = "serverHello"
  BY <1>1, <1>2, HeadDown
<1>4. EndsTyped'
  BY <1>1, CloseTyped DEF HandleHelloOfNewRelease
<1>5. UpTyped'
  BY <1>1 DEF UpTyped, HandleHelloOfNewRelease, transportVars, pageVars,
       sessionVars, viewVars, controllerVars
<1>6. DownTyped'
  BY <1>1, CloseTyped DEF HandleHelloOfNewRelease
<1>7. TransportTyped'
  BY SessionEndTyped DEF HandleHelloOfNewRelease, LoadPage
<1>8. PageTyped'
  BY <1>1, <1>3, MessageKinds, ClientIdsGoOn DEF PageTyped,
       HandleHelloOfNewRelease, LoadPage
<1>9. SessionTyped'
  BY SessionEndTyped DEF HandleHelloOfNewRelease, LoadPage
<1>10. ViewTyped'
  BY <1>1, RunsTyped DEF HandleHelloOfNewRelease, LoadPage, HidePages, ViewTyped
<1>11. ControllersTyped'
  BY <1>1, UnmountTyped DEF HandleHelloOfNewRelease, LoadPage, HidePages
<1> QED
  BY <1>4, <1>5, <1>6, <1>7, <1>8, <1>9, <1>10, <1>11, NetworkTypedNext,
       ClientTypedNext

\* handleServerPong keeps the types.
LEMMA HandleServerPongTypes ==
  ASSUME NEW s \in Sockets, TypeOKNetwork, TypeOKClient, HandleServerPong(s),
         UNCHANGED scenario
  PROVE  TypeOKNetwork' /\ TypeOKClient'
<1>1. /\ EndsTyped /\ UpTyped /\ DownTyped /\ TransportTyped /\ PageTyped
      /\ SessionTyped /\ ViewTyped /\ ControllersTyped
  BY NetworkTyped, ClientTyped
<1>2. ClientReceives(s, "serverPong")
  BY DEF HandleServerPong
<1>3. Head(down[s]) \in Downward /\ Head(down[s]).type = "serverPong"
  BY <1>1, <1>2, HeadDown
<1>4. EndsTyped'
  BY <1>1 DEF EndsTyped, HandleServerPong, transportVars, pageVars, sessionVars,
       viewVars, controllerVars
<1>5. UpTyped'
  BY <1>1 DEF UpTyped, HandleServerPong, transportVars, pageVars, sessionVars,
       viewVars, controllerVars
<1>6. DownTyped'
  BY <1>1, <1>2, TakeDownTyped DEF HandleServerPong
<1>7. TransportTyped'
  BY <1>1 DEF TransportTyped, HandleServerPong, transportVars, pageVars,
       sessionVars, viewVars, controllerVars
<1>8. PageTyped'
  BY <1>1 DEF PageTyped, HandleServerPong, transportVars, pageVars, sessionVars,
       viewVars, controllerVars
<1>9. SessionTyped'
  BY <1>1 DEF SessionTyped, HandleServerPong, transportVars, pageVars,
       sessionVars, viewVars, controllerVars
<1>10. ViewTyped'
  BY <1>1 DEF ViewTyped, HandleServerPong, transportVars, pageVars, sessionVars,
       viewVars, controllerVars
<1>11. ControllersTyped'
  BY <1>1 DEF ControllersTyped, HandleServerPong, transportVars, pageVars,
       sessionVars, viewVars, controllerVars
<1> QED
  BY <1>4, <1>5, <1>6, <1>7, <1>8, <1>9, <1>10, <1>11, NetworkTypedNext,
       ClientTypedNext

\* handleServerPing keeps the types.
LEMMA HandleServerPingTypes ==
  ASSUME NEW s \in Sockets, TypeOKNetwork, TypeOKClient, HandleServerPing(s),
         UNCHANGED scenario
  PROVE  TypeOKNetwork' /\ TypeOKClient'
<1>1. /\ EndsTyped /\ UpTyped /\ DownTyped /\ TransportTyped /\ PageTyped
      /\ SessionTyped /\ ViewTyped /\ ControllersTyped
  BY NetworkTyped, ClientTyped
<1>2. ClientReceives(s, "serverPing")
  BY DEF HandleServerPing
<1>3. EndsTyped'
  BY <1>1 DEF EndsTyped, HandleServerPing, transportVars, pageVars, sessionVars,
       viewVars, controllerVars
<1>4. UpTyped'
  <2>1. Signal("clientPong") \in ClientMessage
    BY MessagesTyped DEF ClientSignals
  <2>2. << Signal("clientPong") >> \in Seq(ClientMessage)
    BY <2>1
  <2> QED
    BY <1>1, <2>2, UpAfterTyped DEF UpTyped, HandleServerPing
<1>5. DownTyped'
  BY <1>1, <1>2, TakeDownTyped DEF HandleServerPing
<1>6. TransportTyped'
  BY <1>1 DEF TransportTyped, HandleServerPing, clientVars, transportVars,
       pageVars, sessionVars, viewVars, controllerVars
<1>7. PageTyped'
  BY <1>1 DEF PageTyped, HandleServerPing, clientVars, transportVars, pageVars,
       sessionVars, viewVars, controllerVars
<1>8. SessionTyped'
  BY <1>1 DEF SessionTyped, HandleServerPing, clientVars, transportVars,
       pageVars, sessionVars, viewVars, controllerVars
<1>9. ViewTyped'
  BY <1>1 DEF ViewTyped, HandleServerPing, clientVars, transportVars, pageVars,
       sessionVars, viewVars, controllerVars
<1>10. ControllersTyped'
  BY <1>1 DEF ControllersTyped, HandleServerPing, clientVars, transportVars,
       pageVars, sessionVars, viewVars, controllerVars
<1> QED
  BY <1>3, <1>4, <1>5, <1>6, <1>7, <1>8, <1>9, <1>10, NetworkTypedNext,
       ClientTypedNext

\* settingsLoaded keeps the types.
LEMMA HandleSettingsLoadedTypes ==
  ASSUME NEW s \in Sockets, TypeOKNetwork, TypeOKClient, HandleSettingsLoaded(s),
         UNCHANGED scenario
  PROVE  TypeOKNetwork' /\ TypeOKClient'
<1>1. /\ EndsTyped /\ UpTyped /\ DownTyped /\ TransportTyped /\ PageTyped
      /\ SessionTyped /\ ViewTyped /\ ControllersTyped
  BY NetworkTyped, ClientTyped
<1>2. ClientReceives(s, "settingsLoaded")
  BY DEF HandleSettingsLoaded
<1>3. Head(down[s]) \in Downward /\ Head(down[s]).type = "settingsLoaded"
  BY <1>1, <1>2, HeadDown
<1>4. EndsTyped'
  BY <1>1 DEF EndsTyped, HandleSettingsLoaded, transportVars, pageVars,
       sessionVars, viewVars, controllerVars
<1>5. UpTyped'
  BY <1>1 DEF UpTyped, HandleSettingsLoaded, transportVars, pageVars,
       sessionVars, viewVars, controllerVars
<1>6. DownTyped'
  BY <1>1, <1>2, TakeDownTyped DEF HandleSettingsLoaded
<1>7. TransportTyped'
  BY <1>1 DEF TransportTyped, HandleSettingsLoaded, transportVars, pageVars,
       sessionVars, viewVars, controllerVars
<1>8. PageTyped'
  BY <1>1 DEF PageTyped, HandleSettingsLoaded, transportVars, pageVars,
       sessionVars, viewVars, controllerVars
<1>9. SessionTyped'
  BY <1>1 DEF SessionTyped, HandleSettingsLoaded, transportVars, pageVars,
       sessionVars, viewVars, controllerVars
<1>10. ViewTyped'
  BY <1>1, AnswerTyped DEF HandleSettingsLoaded, Answers
<1>11. ControllersTyped'
  BY <1>1 DEF ControllersTyped, HandleSettingsLoaded, transportVars, pageVars,
       sessionVars, viewVars, controllerVars
<1> QED
  BY <1>4, <1>5, <1>6, <1>7, <1>8, <1>9, <1>10, <1>11, NetworkTypedNext,
       ClientTypedNext

\* marketsUpdated keeps the types.
LEMMA HandleMarketsUpdatedTypes ==
  ASSUME NEW s \in Sockets, TypeOKNetwork, TypeOKClient, HandleMarketsUpdated(s),
         UNCHANGED scenario
  PROVE  TypeOKNetwork' /\ TypeOKClient'
<1>1. /\ EndsTyped /\ UpTyped /\ DownTyped /\ TransportTyped /\ PageTyped
      /\ SessionTyped /\ ViewTyped /\ ControllersTyped
  BY NetworkTyped, ClientTyped
<1>2. ClientReceives(s, "marketsUpdated")
  BY DEF HandleMarketsUpdated
<1>3. Head(down[s]) \in Downward /\ Head(down[s]).type = "marketsUpdated"
  BY <1>1, <1>2, HeadDown
<1>4. EndsTyped'
  BY <1>1 DEF EndsTyped, HandleMarketsUpdated, transportVars, pageVars,
       sessionVars, viewVars, controllerVars
<1>5. UpTyped'
  BY <1>1 DEF UpTyped, HandleMarketsUpdated, transportVars, pageVars,
       sessionVars, viewVars, controllerVars
<1>6. DownTyped'
  BY <1>1, <1>2, TakeDownTyped DEF HandleMarketsUpdated
<1>7. TransportTyped'
  BY <1>1 DEF TransportTyped, HandleMarketsUpdated, transportVars, pageVars,
       sessionVars, viewVars, controllerVars
<1>8. PageTyped'
  BY <1>1 DEF PageTyped, HandleMarketsUpdated, transportVars, pageVars,
       sessionVars, viewVars, controllerVars
<1>9. SessionTyped'
  <2>1. Head(down[s]).markets \in 0 .. MaxMarkets
    BY <1>3, MessageKinds, NetworkAssumption
  <2> QED
    BY <1>1, <2>1 DEF SessionTyped, HandleMarketsUpdated
<1>10. ViewTyped'
  BY <1>1, AnswerTyped DEF HandleMarketsUpdated, Answers
<1>11. ControllersTyped'
  BY <1>1 DEF ControllersTyped, HandleMarketsUpdated, transportVars, pageVars,
       sessionVars, viewVars, controllerVars
<1> QED
  BY <1>4, <1>5, <1>6, <1>7, <1>8, <1>9, <1>10, <1>11, NetworkTypedNext,
       ClientTypedNext

\* storageEntitiesLoaded keeps the types.
LEMMA HandleStorageEntitiesLoadedTypes ==
  ASSUME NEW s \in Sockets, TypeOKNetwork, TypeOKClient, HandleStorageEntitiesLoaded(s),
         UNCHANGED scenario
  PROVE  TypeOKNetwork' /\ TypeOKClient'
<1>1. /\ EndsTyped /\ UpTyped /\ DownTyped /\ TransportTyped /\ PageTyped
      /\ SessionTyped /\ ViewTyped /\ ControllersTyped
  BY NetworkTyped, ClientTyped
<1>2. ClientReceives(s, "storageEntitiesLoaded")
  BY DEF HandleStorageEntitiesLoaded
<1>3. Head(down[s]) \in Downward /\ Head(down[s]).type = "storageEntitiesLoaded"
  BY <1>1, <1>2, HeadDown
<1>4. EndsTyped'
  BY <1>1 DEF EndsTyped, HandleStorageEntitiesLoaded, transportVars, pageVars,
       sessionVars, viewVars, controllerVars
<1>5. UpTyped'
  BY <1>1 DEF UpTyped, HandleStorageEntitiesLoaded, transportVars, pageVars,
       sessionVars, viewVars, controllerVars
<1>6. DownTyped'
  BY <1>1, <1>2, TakeDownTyped DEF HandleStorageEntitiesLoaded
<1>7. TransportTyped'
  BY <1>1 DEF TransportTyped, HandleStorageEntitiesLoaded, transportVars,
       pageVars, sessionVars, viewVars, controllerVars
<1>8. PageTyped'
  BY <1>1 DEF PageTyped, HandleStorageEntitiesLoaded, transportVars, pageVars,
       sessionVars, viewVars, controllerVars
<1>9. SessionTyped'
  BY <1>1 DEF SessionTyped, HandleStorageEntitiesLoaded, Register
<1>10. ViewTyped'
  <2>1. CASE entities
    BY <1>1, <2>1 DEF HandleStorageEntitiesLoaded, Register, ViewTyped, viewVars
  <2>2. CASE ~ entities
    BY <1>1, <2>2, AnswerTyped DEF HandleStorageEntitiesLoaded, Register,
         Answers
  <2> QED
    BY <2>1, <2>2
<1>11. ControllersTyped'
  BY <1>1 DEF ControllersTyped, HandleStorageEntitiesLoaded, transportVars,
       pageVars, sessionVars, viewVars, controllerVars
<1> QED
  BY <1>4, <1>5, <1>6, <1>7, <1>8, <1>9, <1>10, <1>11, NetworkTypedNext,
       ClientTypedNext

\* handleRollingUpdated keeps the types.
LEMMA HandleMarketRollingUpdatedTypes ==
  ASSUME NEW s \in Sockets, TypeOKNetwork, TypeOKClient, HandleMarketRollingUpdated(s),
         UNCHANGED scenario
  PROVE  TypeOKNetwork' /\ TypeOKClient'
<1>1. /\ EndsTyped /\ UpTyped /\ DownTyped /\ TransportTyped /\ PageTyped
      /\ SessionTyped /\ ViewTyped /\ ControllersTyped
  BY NetworkTyped, ClientTyped
<1>2. ClientReceives(s, "marketRollingUpdated")
  BY DEF HandleMarketRollingUpdated
<1>3. Head(down[s]) \in Downward /\ Head(down[s]).type = "marketRollingUpdated"
  BY <1>1, <1>2, HeadDown
<1>4. EndsTyped'
  BY <1>1 DEF EndsTyped, HandleMarketRollingUpdated, transportVars, pageVars,
       sessionVars, viewVars, controllerVars
<1>5. UpTyped'
  BY <1>1 DEF UpTyped, HandleMarketRollingUpdated, transportVars, pageVars,
       sessionVars, viewVars, controllerVars
<1>6. DownTyped'
  BY <1>1, <1>2, TakeDownTyped DEF HandleMarketRollingUpdated
<1>7. TransportTyped'
  BY <1>1 DEF TransportTyped, HandleMarketRollingUpdated, transportVars,
       pageVars, sessionVars, viewVars, controllerVars
<1>8. PageTyped'
  BY <1>1 DEF PageTyped, HandleMarketRollingUpdated, transportVars, pageVars,
       sessionVars, viewVars, controllerVars
<1>9. SessionTyped'
  BY <1>1 DEF SessionTyped, HandleMarketRollingUpdated, transportVars, pageVars,
       sessionVars, viewVars, controllerVars
<1>10. ViewTyped'
  BY <1>1 DEF ViewTyped, HandleMarketRollingUpdated, transportVars, pageVars,
       sessionVars, viewVars, controllerVars
<1>11. ControllersTyped'
  <2>1. /\ Head(down[s]).market \in Markets
        /\ Head(down[s]).version \in 0 .. MaxVersion
    BY <1>3, MessageKinds
  <2> QED
    BY <1>1, <2>1 DEF ControllersTyped, HandleMarketRollingUpdated
<1> QED
  BY <1>4, <1>5, <1>6, <1>7, <1>8, <1>9, <1>10, <1>11, NetworkTypedNext,
       ClientTypedNext

\* handleBinaryMessage of a snapshot keeps the types.
LEMMA HandleSnapshotTypes ==
  ASSUME NEW s \in Sockets, TypeOKNetwork, TypeOKClient, HandleSnapshot(s),
         UNCHANGED scenario
  PROVE  TypeOKNetwork' /\ TypeOKClient'
<1>1. /\ EndsTyped /\ UpTyped /\ DownTyped /\ TransportTyped /\ PageTyped
      /\ SessionTyped /\ ViewTyped /\ ControllersTyped
  BY NetworkTyped, ClientTyped
<1>2. ClientReceives(s, "snapshot")
  BY DEF HandleSnapshot
<1>3. Head(down[s]) \in Downward /\ Head(down[s]).type = "snapshot"
  BY <1>1, <1>2, HeadDown
<1>4. Head(down[s]) \in BinaryMessage
  BY <1>3, MessageKinds
<1>5. /\ Head(down[s]).market \in Markets
      /\ Head(down[s]).version \in 0 .. NoStorage
  BY <1>4, MessageKinds, NoStorageNatural DEF NoStorage
<1>6. \/ SessionFails(s)
      \/ PacketIgnored(s)
      \/ ApplySnapshot(s, Head(down[s]))
  BY DEF HandleSnapshot
<1>7. UNCHANGED <<serverEnd, link, page, viewVars>>
  BY DEF HandleSnapshot
<1>8. EndsTyped'
  <2>1. CASE SessionFails(s)
    BY <1>1, <1>7, <2>1 DEF EndsTyped, SessionFails, Reconnect, CloseClientEnd,
         Disconnected, ClearSessionState, transportVars, pageVars, sessionVars,
         viewVars, controllerVars
  <2>2. CASE PacketIgnored(s)
    BY <1>1, <1>7, <2>2 DEF EndsTyped, PacketIgnored, TakeDown, transportVars,
         pageVars, sessionVars, viewVars, controllerVars
  <2>3. CASE ApplySnapshot(s, Head(down[s]))
    BY <1>1, <1>7, <2>3 DEF EndsTyped, ApplySnapshot, TakeDown, transportVars,
         pageVars, sessionVars, viewVars, controllerVars
  <2> QED
    BY <1>6, <2>1, <2>2, <2>3
<1>9. UpTyped'
  <2>1. CASE SessionFails(s)
    BY <1>1, <2>1 DEF UpTyped, SessionFails
  <2>2. CASE PacketIgnored(s)
    BY <1>1, <2>2 DEF UpTyped, PacketIgnored
  <2>3. CASE ApplySnapshot(s, Head(down[s]))
    <3>1. [type |-> "addRolling", clientId |-> nextClientId,
           market |-> Head(down[s]).market] \in ClientMessage
      BY <1>1, <1>5, MessagesTyped DEF PageTyped
    <3>2. << [type |-> "addRolling", clientId |-> nextClientId,
              market |-> Head(down[s]).market] >> \in Seq(ClientMessage)
      BY <3>1
    <3> QED
      BY <1>1, <2>3, <3>2, UpAfterTyped DEF UpTyped, ApplySnapshot
  <2> QED
    BY <1>6, <2>1, <2>2, <2>3
<1>10. DownTyped'
  <2>1. CASE SessionFails(s)
    BY <1>1, <2>1 DEF DownTyped, SessionFails, Reconnect, CloseClientEnd
  <2>2. CASE PacketIgnored(s)
    BY <1>1, <1>2, <2>2, TakeDownTyped DEF PacketIgnored
  <2>3. CASE ApplySnapshot(s, Head(down[s]))
    BY <1>1, <1>2, <2>3, TakeDownTyped DEF ApplySnapshot
  <2> QED
    BY <1>6, <2>1, <2>2, <2>3
<1>11. TransportTyped'
  <2>1. CASE SessionFails(s)
    BY <1>1, <1>7, <2>1 DEF TransportTyped, SessionFails, Reconnect,
         CloseClientEnd, Disconnected, ClearSessionState, transportVars,
         pageVars, sessionVars, viewVars, controllerVars
  <2>2. CASE PacketIgnored(s)
    BY <1>1, <1>7, <2>2 DEF TransportTyped, PacketIgnored, TakeDown,
         transportVars, pageVars, sessionVars, viewVars, controllerVars
  <2>3. CASE ApplySnapshot(s, Head(down[s]))
    BY <1>1, <1>7, <2>3 DEF TransportTyped, ApplySnapshot, TakeDown,
         transportVars, pageVars, sessionVars, viewVars, controllerVars
  <2> QED
    BY <1>6, <2>1, <2>2, <2>3
<1>12. PageTyped'
  <2>1. CASE SessionFails(s)
    BY <1>1, <1>7, <2>1 DEF PageTyped, SessionFails, Reconnect, CloseClientEnd,
         Disconnected, ClearSessionState, transportVars, pageVars, sessionVars,
         viewVars, controllerVars
  <2>2. CASE PacketIgnored(s)
    BY <1>1, <1>7, <2>2 DEF PageTyped, PacketIgnored, TakeDown, transportVars,
         pageVars, sessionVars, viewVars, controllerVars
  <2>3. CASE ApplySnapshot(s, Head(down[s]))
    BY <1>1, <1>7, <2>3, ClientIdsGoOn DEF PageTyped, ApplySnapshot, TakeDown,
         transportVars, pageVars, sessionVars, viewVars, controllerVars
  <2> QED
    BY <1>6, <2>1, <2>2, <2>3
<1>13. SessionTyped'
  <2>1. CASE SessionFails(s)
    BY <2>1, SessionEndTyped DEF SessionFails
  <2>2. CASE PacketIgnored(s)
    BY <1>1, <2>2 DEF SessionTyped, PacketIgnored
  <2>3. CASE ApplySnapshot(s, Head(down[s]))
    BY <1>1, <2>3 DEF SessionTyped, ApplySnapshot
  <2> QED
    BY <1>6, <2>1, <2>2, <2>3
<1>14. ViewTyped'
  BY <1>1, <1>7 DEF ViewTyped, viewVars
<1>15. ControllersTyped'
  <2>1. CASE SessionFails(s)
    BY <1>1, <2>1 DEF ControllersTyped, SessionFails, controllerVars
  <2>2. CASE PacketIgnored(s)
    BY <1>1, <2>2 DEF ControllersTyped, PacketIgnored, controllerVars
  <2>3. CASE ApplySnapshot(s, Head(down[s]))
    BY <1>1, <1>5, <2>3 DEF ControllersTyped, PageTyped, ApplySnapshot
  <2> QED
    BY <1>6, <2>1, <2>2, <2>3
<1> QED
  BY <1>8, <1>9, <1>10, <1>11, <1>12, <1>13, <1>14, <1>15, NetworkTypedNext,
       ClientTypedNext

\* handleBinaryMessage of a delta keeps the types.
LEMMA HandleDeltaTypes ==
  ASSUME NEW s \in Sockets, TypeOKNetwork, TypeOKClient, HandleDelta(s),
         UNCHANGED scenario
  PROVE  TypeOKNetwork' /\ TypeOKClient'
<1>1. /\ EndsTyped /\ UpTyped /\ DownTyped /\ TransportTyped /\ PageTyped
      /\ SessionTyped /\ ViewTyped /\ ControllersTyped
  BY NetworkTyped, ClientTyped
<1>2. ClientReceives(s, "delta")
  BY DEF HandleDelta
<1>3. Head(down[s]) \in Downward /\ Head(down[s]).type = "delta"
  BY <1>1, <1>2, HeadDown
<1>4. Head(down[s]) \in BinaryMessage
  BY <1>3, MessageKinds
<1>5. /\ Head(down[s]).market \in Markets
      /\ Head(down[s]).version \in 0 .. NoStorage
  BY <1>4, MessageKinds, NoStorageNatural DEF NoStorage
<1>6. \/ SessionFails(s)
      \/ PacketIgnored(s)
      \/ ApplyDelta(s, Head(down[s]))
  BY DEF HandleDelta
<1>7. UNCHANGED <<serverEnd, link, page, viewVars>>
  BY DEF HandleDelta
<1>8. EndsTyped'
  <2>1. CASE SessionFails(s)
    BY <1>1, <1>7, <2>1 DEF EndsTyped, SessionFails, Reconnect, CloseClientEnd,
         Disconnected, ClearSessionState, transportVars, pageVars, sessionVars,
         viewVars, controllerVars
  <2>2. CASE PacketIgnored(s)
    BY <1>1, <1>7, <2>2 DEF EndsTyped, PacketIgnored, TakeDown, transportVars,
         pageVars, sessionVars, viewVars, controllerVars
  <2>3. CASE ApplyDelta(s, Head(down[s]))
    BY <1>1, <1>7, <2>3 DEF EndsTyped, ApplyDelta, TakeDown, transportVars,
         pageVars, sessionVars, viewVars, controllerVars
  <2> QED
    BY <1>6, <2>1, <2>2, <2>3
<1>9. UpTyped'
  <2>1. CASE SessionFails(s)
    BY <1>1, <2>1 DEF UpTyped, SessionFails
  <2>2. CASE PacketIgnored(s)
    BY <1>1, <2>2 DEF UpTyped, PacketIgnored
  <2>3. CASE ApplyDelta(s, Head(down[s]))
    BY <1>1, <2>3 DEF UpTyped, ApplyDelta
  <2> QED
    BY <1>6, <2>1, <2>2, <2>3
<1>10. DownTyped'
  <2>1. CASE SessionFails(s)
    BY <1>1, <2>1 DEF DownTyped, SessionFails, Reconnect, CloseClientEnd
  <2>2. CASE PacketIgnored(s)
    BY <1>1, <1>2, <2>2, TakeDownTyped DEF PacketIgnored
  <2>3. CASE ApplyDelta(s, Head(down[s]))
    BY <1>1, <1>2, <2>3, TakeDownTyped DEF ApplyDelta
  <2> QED
    BY <1>6, <2>1, <2>2, <2>3
<1>11. TransportTyped'
  <2>1. CASE SessionFails(s)
    BY <1>1, <1>7, <2>1 DEF TransportTyped, SessionFails, Reconnect,
         CloseClientEnd, Disconnected, ClearSessionState, transportVars,
         pageVars, sessionVars, viewVars, controllerVars
  <2>2. CASE PacketIgnored(s)
    BY <1>1, <1>7, <2>2 DEF TransportTyped, PacketIgnored, TakeDown,
         transportVars, pageVars, sessionVars, viewVars, controllerVars
  <2>3. CASE ApplyDelta(s, Head(down[s]))
    BY <1>1, <1>7, <2>3 DEF TransportTyped, ApplyDelta, TakeDown, transportVars,
         pageVars, sessionVars, viewVars, controllerVars
  <2> QED
    BY <1>6, <2>1, <2>2, <2>3
<1>12. PageTyped'
  <2>1. CASE SessionFails(s)
    BY <1>1, <1>7, <2>1 DEF PageTyped, SessionFails, Reconnect, CloseClientEnd,
         Disconnected, ClearSessionState, transportVars, pageVars, sessionVars,
         viewVars, controllerVars
  <2>2. CASE PacketIgnored(s)
    BY <1>1, <1>7, <2>2 DEF PageTyped, PacketIgnored, TakeDown, transportVars,
         pageVars, sessionVars, viewVars, controllerVars
  <2>3. CASE ApplyDelta(s, Head(down[s]))
    BY <1>1, <1>7, <2>3, ClientIdsGoOn DEF PageTyped, ApplyDelta, TakeDown,
         transportVars, pageVars, sessionVars, viewVars, controllerVars
  <2> QED
    BY <1>6, <2>1, <2>2, <2>3
<1>13. SessionTyped'
  <2>1. CASE SessionFails(s)
    BY <2>1, SessionEndTyped DEF SessionFails
  <2>2. CASE PacketIgnored(s)
    BY <1>1, <2>2 DEF SessionTyped, PacketIgnored
  <2>3. CASE ApplyDelta(s, Head(down[s]))
    BY <1>1, <2>3 DEF SessionTyped, ApplyDelta
  <2> QED
    BY <1>6, <2>1, <2>2, <2>3
<1>14. ViewTyped'
  BY <1>1, <1>7 DEF ViewTyped, viewVars
<1>15. ControllersTyped'
  <2>1. CASE SessionFails(s)
    BY <1>1, <2>1 DEF ControllersTyped, SessionFails, controllerVars
  <2>2. CASE PacketIgnored(s)
    BY <1>1, <2>2 DEF ControllersTyped, PacketIgnored, controllerVars
  <2>3. CASE ApplyDelta(s, Head(down[s]))
    BY <1>1, <1>5, <2>3 DEF ControllersTyped, PageTyped, ApplyDelta
  <2> QED
    BY <1>6, <2>1, <2>2, <2>3
<1> QED
  BY <1>8, <1>9, <1>10, <1>11, <1>12, <1>13, <1>14, <1>15, NetworkTypedNext,
       ClientTypedNext

-----------------------------------------------------------------------------
(* The states of the sockets.                                              *)

\* Each socket goes through its states at both ends.
SocketOK(s) ==
  /\ clientEnd[s] \in {"none", "connecting"} => serverEnd[s] = "none"
  /\ clientEnd[s] = "open" => serverEnd[s] # "none"
  /\ serverEnd[s] = "none" => s \notin loading
  /\ serverEnd[s] # "open" => up[s] = <<>>
  /\ clientEnd[s] # "open" => down[s] = <<>>
  /\ s # socket => clientEnd[s] \in {"none", "gone"}
  /\ s = socket => clientEnd[s] \in {"connecting", "open"}

Ends ==
  /\ \A s \in Sockets : SocketOK(s)
  /\ PendingOfConnected
  /\ isReady => socket \in Sockets /\ clientEnd[socket] = "open"
  /\ connectDue => socket = NoSocket

\* What is sent changes nothing where one of the ends is not open.
LEMMA NothingToClosed ==
  /\ \A s, r : UpTyped =>
       \A t \in Sockets : serverEnd[t] # "open" => UpAfter(s, r)[t] = up[t]
  /\ \A s, r : DownTyped =>
       \A t \in Sockets : clientEnd[t] # "open" => DownAfter(s, r)[t] = down[t]
  /\ \A r : DownTyped =>
       \A t \in Sockets : clientEnd[t] # "open" => DownAfterAll(r)[t] = down[t]
  /\ \A s : UpTyped /\ Take(s) =>
       \A t \in Sockets : t # s => up'[t] = up[t]
  /\ \A s : DownTyped /\ TakeDown(s) =>
       \A t \in Sockets : t # s => down'[t] = down[t]
BY DEF UpAfter, DownAfter, DownAfterAll, Carries, Take, TakeDown, UpTyped,
       DownTyped

\* Both ends of all sockets stay as they are.
LEMMA EndsStay ==
  ASSUME Ends, UNCHANGED <<clientEnd, serverEnd, socket, connectDue>>,
         isReady' => socket \in Sockets /\ clientEnd[socket] = "open",
         \A s \in Sockets : serverEnd[s] # "open" => up'[s] = up[s],
         \A s \in Sockets : clientEnd[s] # "open" => down'[s] = down[s],
         \A s \in Sockets : serverEnd[s] = "none" /\ s \in loading' => s \in loading,
         DOMAIN clients' = DOMAIN clients,
         \A e \in DOMAIN serverEvents' :
           \/ e \in DOMAIN serverEvents
                /\ serverEvents'[e].socket = serverEvents[e].socket
           \/ serverEvents'[e].socket \in DOMAIN clients
  PROVE  Ends'
<1>1. ASSUME NEW s \in Sockets PROVE SocketOK(s)'
  <2>1. SocketOK(s)
    BY DEF Ends
  <2> QED
    BY <2>1 DEF SocketOK
<1>2. PendingOfConnected'
  BY DEF Ends, PendingOfConnected
<1> QED
  BY <1>1, <1>2 DEF Ends

\* The browser's end of its socket is closed.
LEMMA EndsClose ==
  ASSUME Ends, EndsTyped, DownTyped,
         CloseSocketIfAny, Disconnected, UNCHANGED <<serverEnd, up, serverVars>>
  PROVE  Ends'
<1>1. ASSUME NEW s \in Sockets PROVE SocketOK(s)'
  <2>1. SocketOK(s)
    BY DEF Ends
  <2>2. CASE s = socket
    <3>1. clientEnd'[s] = "gone" /\ down'[s] = <<>> /\ s \in Sockets
      BY <2>2 DEF CloseSocketIfAny, CloseClientEnd, EndsTyped, DownTyped
    <3>2. /\ serverEnd'[s] = serverEnd[s] /\ up'[s] = up[s]
          /\ loading' = loading /\ socket' = 0
      BY DEF Disconnected, serverVars, NoSocket
    <3>3. s # 0
      BY DEF Sockets
    <3> QED
      BY ONLY <2>1, <2>2, <3>1, <3>2, <3>3 DEF SocketOK
  <2>3. CASE s # socket
    <3>1. clientEnd'[s] = clientEnd[s] /\ down'[s] = down[s]
      BY <2>3 DEF CloseSocketIfAny, CloseClientEnd, EndsTyped, DownTyped
    <3>2. /\ serverEnd'[s] = serverEnd[s] /\ up'[s] = up[s]
          /\ loading' = loading /\ socket' = 0
      BY DEF Disconnected, serverVars, NoSocket
    <3>3. s # 0
      BY DEF Sockets
    <3> QED
      BY ONLY <2>1, <2>3, <3>1, <3>2, <3>3 DEF SocketOK
  <2> QED
    BY <2>2, <2>3
<1>2. PendingOfConnected'
  BY DEF Ends, PendingOfConnected, serverVars
<1> QED
  BY <1>1, <1>2 DEF Ends, Disconnected

\* handleClientPing keeps the state of the sockets.
LEMMA HandleClientPingEnds ==
  ASSUME NEW s \in Sockets, TypeOK, Ends, HandleClientPing(s), UNCHANGED clientVars
  PROVE  Ends'
<1>1. UpTyped /\ DownTyped /\ EndsTyped /\ ClientsTyped /\ EventsTyped
  BY NetworkTyped, ServerTyped DEF TypeOK
<1>2. UNCHANGED <<clientEnd, serverEnd, socket, connectDue, isReady>>
  BY DEF HandleClientPing, clientVars, transportVars, serverVars, serviceVars,
       networkVars
<1>3. \A t \in Sockets : serverEnd[t] # "open" => up'[t] = up[t]
  BY <1>1, NothingToClosed DEF HandleClientPing, ServerReceives, serverVars,
       serviceVars, networkVars
<1>4. \A t \in Sockets : clientEnd[t] # "open" => down'[t] = down[t]
  BY <1>1, NothingToClosed DEF HandleClientPing, serverVars, serviceVars,
       networkVars
<1>5. \A t \in Sockets : serverEnd[t] = "none" /\ t \in loading' => t \in loading
  BY DEF HandleClientPing, ServerReceives, serverVars, serviceVars, networkVars
<1>6. DOMAIN clients' = DOMAIN clients
  BY <1>1 DEF HandleClientPing, serverVars, serviceVars, networkVars
<1>7. \A e \in DOMAIN serverEvents' :
         \/ e \in DOMAIN serverEvents
              /\ serverEvents'[e].socket = serverEvents[e].socket
         \/ serverEvents'[e].socket \in DOMAIN clients
  BY DEF HandleClientPing, serverVars, serviceVars, networkVars
<1> QED
  BY <1>2, <1>3, <1>4, <1>5, <1>6, <1>7, EndsStay DEF Ends

\* handleClientPong keeps the state of the sockets.
LEMMA HandleClientPongEnds ==
  ASSUME NEW s \in Sockets, TypeOK, Ends, HandleClientPong(s), UNCHANGED clientVars
  PROVE  Ends'
<1>1. UpTyped /\ DownTyped /\ EndsTyped /\ ClientsTyped /\ EventsTyped
  BY NetworkTyped, ServerTyped DEF TypeOK
<1>2. UNCHANGED <<clientEnd, serverEnd, socket, connectDue, isReady>>
  BY DEF HandleClientPong, clientVars, transportVars, serverVars, serviceVars,
       networkVars
<1>3. \A t \in Sockets : serverEnd[t] # "open" => up'[t] = up[t]
  BY <1>1, NothingToClosed DEF HandleClientPong, ServerReceives, serverVars,
       serviceVars, networkVars
<1>4. \A t \in Sockets : clientEnd[t] # "open" => down'[t] = down[t]
  BY <1>1, NothingToClosed DEF HandleClientPong, serverVars, serviceVars,
       networkVars
<1>5. \A t \in Sockets : serverEnd[t] = "none" /\ t \in loading' => t \in loading
  BY DEF HandleClientPong, ServerReceives, serverVars, serviceVars, networkVars
<1>6. DOMAIN clients' = DOMAIN clients
  BY <1>1 DEF HandleClientPong, serverVars, serviceVars, networkVars
<1>7. \A e \in DOMAIN serverEvents' :
         \/ e \in DOMAIN serverEvents
              /\ serverEvents'[e].socket = serverEvents[e].socket
         \/ serverEvents'[e].socket \in DOMAIN clients
  BY DEF HandleClientPong, serverVars, serviceVars, networkVars
<1> QED
  BY <1>2, <1>3, <1>4, <1>5, <1>6, <1>7, EndsStay DEF Ends

\* handleWebSocketReady keeps the state of the sockets.
LEMMA HandleWebSocketReadyEnds ==
  ASSUME NEW s \in Sockets, TypeOK, Ends, HandleWebSocketReady(s), UNCHANGED clientVars
  PROVE  Ends'
<1>1. UpTyped /\ DownTyped /\ EndsTyped /\ ClientsTyped /\ EventsTyped
  BY NetworkTyped, ServerTyped DEF TypeOK
<1>2. UNCHANGED <<clientEnd, serverEnd, socket, connectDue, isReady>>
  BY DEF HandleWebSocketReady, clientVars, transportVars, serverVars,
       serviceVars, networkVars
<1>3. \A t \in Sockets : serverEnd[t] # "open" => up'[t] = up[t]
  BY <1>1, NothingToClosed DEF HandleWebSocketReady, ServerReceives, serverVars,
       serviceVars, networkVars
<1>4. \A t \in Sockets : clientEnd[t] # "open" => down'[t] = down[t]
  BY <1>1, NothingToClosed DEF HandleWebSocketReady, serverVars, serviceVars,
       networkVars
<1>5. \A t \in Sockets : serverEnd[t] = "none" /\ t \in loading' => t \in loading
  BY DEF HandleWebSocketReady, ServerReceives, serverVars, serviceVars,
       networkVars
<1>6. DOMAIN clients' = DOMAIN clients
  BY <1>1 DEF HandleWebSocketReady, serverVars, serviceVars, networkVars
<1>7. \A e \in DOMAIN serverEvents' :
         \/ e \in DOMAIN serverEvents
              /\ serverEvents'[e].socket = serverEvents[e].socket
         \/ serverEvents'[e].socket \in DOMAIN clients
  BY DEF HandleWebSocketReady, serverVars, serviceVars, networkVars
<1> QED
  BY <1>2, <1>3, <1>4, <1>5, <1>6, <1>7, EndsStay DEF Ends

\* handleRequestSettings keeps the state of the sockets.
LEMMA HandleRequestSettingsEnds ==
  ASSUME NEW s \in Sockets, TypeOK, Ends, HandleRequestSettings(s), UNCHANGED clientVars
  PROVE  Ends'
<1>1. UpTyped /\ DownTyped /\ EndsTyped /\ ClientsTyped /\ EventsTyped
  BY NetworkTyped, ServerTyped DEF TypeOK
<1>2. UNCHANGED <<clientEnd, serverEnd, socket, connectDue, isReady>>
  BY DEF HandleRequestSettings, clientVars, transportVars, serverVars,
       serviceVars, networkVars
<1>3. \A t \in Sockets : serverEnd[t] # "open" => up'[t] = up[t]
  BY <1>1, NothingToClosed DEF HandleRequestSettings, ServerReceives,
       serverVars, serviceVars, networkVars
<1>4. \A t \in Sockets : clientEnd[t] # "open" => down'[t] = down[t]
  BY <1>1, NothingToClosed DEF HandleRequestSettings, serverVars, serviceVars,
       networkVars
<1>5. \A t \in Sockets : serverEnd[t] = "none" /\ t \in loading' => t \in loading
  BY DEF HandleRequestSettings, ServerReceives, serverVars, serviceVars,
       networkVars
<1>6. DOMAIN clients' = DOMAIN clients
  BY <1>1 DEF HandleRequestSettings, serverVars, serviceVars, networkVars
<1>7. \A e \in DOMAIN serverEvents' :
         \/ e \in DOMAIN serverEvents
              /\ serverEvents'[e].socket = serverEvents[e].socket
         \/ serverEvents'[e].socket \in DOMAIN clients
  BY DEF HandleRequestSettings, serverVars, serviceVars, networkVars
<1> QED
  BY <1>2, <1>3, <1>4, <1>5, <1>6, <1>7, EndsStay DEF Ends

\* handleRequestStorageEntities keeps the state of the sockets.
LEMMA HandleRequestStorageEntitiesEnds ==
  ASSUME NEW s \in Sockets, TypeOK, Ends, HandleRequestStorageEntities(s), UNCHANGED clientVars
  PROVE  Ends'
<1>1. UpTyped /\ DownTyped /\ EndsTyped /\ ClientsTyped /\ EventsTyped
  BY NetworkTyped, ServerTyped DEF TypeOK
<1>2. UNCHANGED <<clientEnd, serverEnd, socket, connectDue, isReady>>
  BY DEF HandleRequestStorageEntities, clientVars, transportVars, serverVars,
       serviceVars, networkVars
<1>3. \A t \in Sockets : serverEnd[t] # "open" => up'[t] = up[t]
  BY <1>1, NothingToClosed DEF HandleRequestStorageEntities, ServerReceives,
       serverVars, serviceVars, networkVars
<1>4. \A t \in Sockets : clientEnd[t] # "open" => down'[t] = down[t]
  BY <1>1, NothingToClosed DEF HandleRequestStorageEntities, serverVars,
       serviceVars, networkVars
<1>5. \A t \in Sockets : serverEnd[t] = "none" /\ t \in loading' => t \in loading
  BY DEF HandleRequestStorageEntities, ServerReceives, serverVars, serviceVars,
       networkVars
<1>6. DOMAIN clients' = DOMAIN clients
  BY <1>1 DEF HandleRequestStorageEntities, serverVars, serviceVars, networkVars
<1>7. \A e \in DOMAIN serverEvents' :
         \/ e \in DOMAIN serverEvents
              /\ serverEvents'[e].socket = serverEvents[e].socket
         \/ serverEvents'[e].socket \in DOMAIN clients
  BY DEF HandleRequestStorageEntities, serverVars, serviceVars, networkVars
<1> QED
  BY <1>2, <1>3, <1>4, <1>5, <1>6, <1>7, EndsStay DEF Ends

\* handleSetSubscription keeps the state of the sockets.
LEMMA HandleSetMarketInfoEnds ==
  ASSUME NEW s \in Sockets, TypeOK, Ends, HandleSetMarketInfo(s), UNCHANGED clientVars
  PROVE  Ends'
<1>1. UpTyped /\ DownTyped /\ EndsTyped /\ ClientsTyped /\ EventsTyped
  BY NetworkTyped, ServerTyped DEF TypeOK
<1>2. UNCHANGED <<clientEnd, serverEnd, socket, connectDue, isReady>>
  BY DEF HandleSetMarketInfo, clientVars, transportVars, serverVars,
       serviceVars, networkVars
<1>3. \A t \in Sockets : serverEnd[t] # "open" => up'[t] = up[t]
  BY <1>1, NothingToClosed DEF HandleSetMarketInfo, ServerReceives, serverVars,
       serviceVars, networkVars
<1>4. \A t \in Sockets : clientEnd[t] # "open" => down'[t] = down[t]
  BY <1>1, NothingToClosed DEF HandleSetMarketInfo, serverVars, serviceVars,
       networkVars
<1>5. \A t \in Sockets : serverEnd[t] = "none" /\ t \in loading' => t \in loading
  BY DEF HandleSetMarketInfo, ServerReceives, serverVars, serviceVars,
       networkVars
<1>6. DOMAIN clients' = DOMAIN clients
  BY <1>1 DEF HandleSetMarketInfo, serverVars, serviceVars, networkVars
<1>7. \A e \in DOMAIN serverEvents' :
         \/ e \in DOMAIN serverEvents
              /\ serverEvents'[e].socket = serverEvents[e].socket
         \/ serverEvents'[e].socket \in DOMAIN clients
  BY DEF HandleSetMarketInfo, serverVars, serviceVars, networkVars
<1> QED
  BY <1>2, <1>3, <1>4, <1>5, <1>6, <1>7, EndsStay DEF Ends

\* handleChangeSubscription keeps the state of the sockets.
LEMMA HandleRemoveStatisticsEnds ==
  ASSUME NEW s \in Sockets, TypeOK, Ends, HandleRemoveStatistics(s), UNCHANGED clientVars
  PROVE  Ends'
<1>1. UpTyped /\ DownTyped /\ EndsTyped /\ ClientsTyped /\ EventsTyped
  BY NetworkTyped, ServerTyped DEF TypeOK
<1>2. UNCHANGED <<clientEnd, serverEnd, socket, connectDue, isReady>>
  BY DEF HandleRemoveStatistics, clientVars, transportVars, serverVars,
       serviceVars, networkVars
<1>3. \A t \in Sockets : serverEnd[t] # "open" => up'[t] = up[t]
  BY <1>1, NothingToClosed DEF HandleRemoveStatistics, ServerReceives,
       serverVars, serviceVars, networkVars
<1>4. \A t \in Sockets : clientEnd[t] # "open" => down'[t] = down[t]
  BY <1>1, NothingToClosed DEF HandleRemoveStatistics, serverVars, serviceVars,
       networkVars
<1>5. \A t \in Sockets : serverEnd[t] = "none" /\ t \in loading' => t \in loading
  BY DEF HandleRemoveStatistics, ServerReceives, serverVars, serviceVars,
       networkVars
<1>6. DOMAIN clients' = DOMAIN clients
  BY <1>1 DEF HandleRemoveStatistics, serverVars, serviceVars, networkVars
<1>7. \A e \in DOMAIN serverEvents' :
         \/ e \in DOMAIN serverEvents
              /\ serverEvents'[e].socket = serverEvents[e].socket
         \/ serverEvents'[e].socket \in DOMAIN clients
  BY DEF HandleRemoveStatistics, serverVars, serviceVars, networkVars
<1> QED
  BY <1>2, <1>3, <1>4, <1>5, <1>6, <1>7, EndsStay DEF Ends

\* handleMarketRollingSubscriptionChanged keeps the state of the sockets.
LEMMA HandleAddRollingEnds ==
  ASSUME NEW s \in Sockets, TypeOK, Ends, HandleAddRolling(s), UNCHANGED clientVars
  PROVE  Ends'
<1>1. UpTyped /\ DownTyped /\ EndsTyped /\ ClientsTyped /\ EventsTyped
  BY NetworkTyped, ServerTyped DEF TypeOK
<1>2. UNCHANGED <<clientEnd, serverEnd, socket, connectDue, isReady>>
  BY DEF HandleAddRolling, clientVars, transportVars, serverVars, serviceVars,
       networkVars
<1>3. \A t \in Sockets : serverEnd[t] # "open" => up'[t] = up[t]
  BY <1>1, NothingToClosed DEF HandleAddRolling, ServerReceives, serverVars,
       serviceVars, networkVars
<1>4. \A t \in Sockets : clientEnd[t] # "open" => down'[t] = down[t]
  BY <1>1, NothingToClosed DEF HandleAddRolling, serverVars, serviceVars,
       networkVars
<1>5. \A t \in Sockets : serverEnd[t] = "none" /\ t \in loading' => t \in loading
  BY DEF HandleAddRolling, ServerReceives, serverVars, serviceVars, networkVars
<1>6. DOMAIN clients' = DOMAIN clients
  BY <1>1 DEF HandleAddRolling, serverVars, serviceVars, networkVars
<1>7. \A e \in DOMAIN serverEvents' :
         \/ e \in DOMAIN serverEvents
              /\ serverEvents'[e].socket = serverEvents[e].socket
         \/ serverEvents'[e].socket \in DOMAIN clients
  BY DEF HandleAddRolling, serverVars, serviceVars, networkVars
<1> QED
  BY <1>2, <1>3, <1>4, <1>5, <1>6, <1>7, EndsStay DEF Ends

\* handleMarketRollingSubscriptionChanged, the removal, keeps the state of
\* the sockets.
LEMMA HandleRemoveRollingEnds ==
  ASSUME NEW s \in Sockets, TypeOK, Ends, HandleRemoveRolling(s), UNCHANGED clientVars
  PROVE  Ends'
<1>1. UpTyped /\ DownTyped /\ EndsTyped /\ ClientsTyped /\ EventsTyped
  BY NetworkTyped, ServerTyped DEF TypeOK
<1>2. UNCHANGED <<clientEnd, serverEnd, socket, connectDue, isReady>>
  BY DEF HandleRemoveRolling, clientVars, transportVars, serverVars,
       serviceVars, networkVars
<1>3. \A t \in Sockets : serverEnd[t] # "open" => up'[t] = up[t]
  BY <1>1, NothingToClosed DEF HandleRemoveRolling, ServerReceives, serverVars,
       serviceVars, networkVars
<1>4. \A t \in Sockets : clientEnd[t] # "open" => down'[t] = down[t]
  BY <1>1, NothingToClosed DEF HandleRemoveRolling, serverVars, serviceVars,
       networkVars
<1>5. \A t \in Sockets : serverEnd[t] = "none" /\ t \in loading' => t \in loading
  BY DEF HandleRemoveRolling, ServerReceives, serverVars, serviceVars,
       networkVars
<1>6. DOMAIN clients' = DOMAIN clients
  BY <1>1 DEF HandleRemoveRolling, serverVars, serviceVars, networkVars
<1>7. \A e \in DOMAIN serverEvents' :
         \/ e \in DOMAIN serverEvents
              /\ serverEvents'[e].socket = serverEvents[e].socket
         \/ serverEvents'[e].socket \in DOMAIN clients
  BY DEF HandleRemoveRolling, serverVars, serviceVars, networkVars
<1> QED
  BY <1>2, <1>3, <1>4, <1>5, <1>6, <1>7, EndsStay DEF Ends

\* The answer to handleRequestSettings keeps the state of the sockets.
LEMMA SettingsLoadedEnds ==
  ASSUME NEW s \in Sockets, TypeOK, Ends, SettingsLoaded(s), UNCHANGED clientVars
  PROVE  Ends'
<1>1. UpTyped /\ DownTyped /\ EndsTyped /\ ClientsTyped /\ EventsTyped
  BY NetworkTyped, ServerTyped DEF TypeOK
<1>2. UNCHANGED <<clientEnd, serverEnd, socket, connectDue, isReady>>
  BY DEF SettingsLoaded, clientVars, transportVars, serverVars, serviceVars,
       networkVars
<1>3. \A t \in Sockets : serverEnd[t] # "open" => up'[t] = up[t]
  BY <1>1, NothingToClosed DEF SettingsLoaded, ServerReceives, serverVars,
       serviceVars, networkVars
<1>4. \A t \in Sockets : clientEnd[t] # "open" => down'[t] = down[t]
  BY <1>1, NothingToClosed DEF SettingsLoaded, serverVars, serviceVars,
       networkVars
<1>5. \A t \in Sockets : serverEnd[t] = "none" /\ t \in loading' => t \in loading
  BY DEF SettingsLoaded, ServerReceives, serverVars, serviceVars, networkVars
<1>6. DOMAIN clients' = DOMAIN clients
  BY <1>1 DEF SettingsLoaded, serverVars, serviceVars, networkVars
<1>7. \A e \in DOMAIN serverEvents' :
         \/ e \in DOMAIN serverEvents
              /\ serverEvents'[e].socket = serverEvents[e].socket
         \/ serverEvents'[e].socket \in DOMAIN clients
  BY DEF SettingsLoaded, serverVars, serviceVars, networkVars
<1> QED
  BY <1>2, <1>3, <1>4, <1>5, <1>6, <1>7, EndsStay DEF Ends

\* handleStorageFullSyncRequest keeps the state of the sockets.
LEMMA HandleRequestFullSyncEnds ==
  ASSUME NEW s \in Sockets, TypeOK, Ends, HandleRequestFullSync(s), UNCHANGED clientVars
  PROVE  Ends'
<1>1. UpTyped /\ DownTyped /\ EndsTyped /\ ClientsTyped /\ EventsTyped
  BY NetworkTyped, ServerTyped DEF TypeOK
<1>2. UNCHANGED <<clientEnd, serverEnd, socket, connectDue, isReady>>
  BY DEF HandleRequestFullSync, AfterRequest, clientVars, transportVars,
       serverVars, serviceVars, networkVars
<1>3. \A t \in Sockets : serverEnd[t] # "open" => up'[t] = up[t]
  BY <1>1, NothingToClosed DEF HandleRequestFullSync, AfterRequest,
       ServerReceives, serverVars, serviceVars, networkVars
<1>4. \A t \in Sockets : clientEnd[t] # "open" => down'[t] = down[t]
  BY <1>1, NothingToClosed DEF HandleRequestFullSync, AfterRequest, serverVars,
       serviceVars, networkVars
<1>5. \A t \in Sockets : serverEnd[t] = "none" /\ t \in loading' => t \in loading
  BY DEF HandleRequestFullSync, AfterRequest, ServerReceives, serverVars,
       serviceVars, networkVars
<1>6. DOMAIN clients' = DOMAIN clients
  BY <1>1 DEF HandleRequestFullSync, AfterRequest, serverVars, serviceVars,
       networkVars
<1>7. \A e \in DOMAIN serverEvents' :
         \/ e \in DOMAIN serverEvents
              /\ serverEvents'[e].socket = serverEvents[e].socket
         \/ serverEvents'[e].socket \in DOMAIN clients
  BY DEF HandleRequestFullSync, Accepted, Ready, Connected, With, PendingEvent
<1> QED
  BY <1>2, <1>3, <1>4, <1>5, <1>6, <1>7, EndsStay DEF Ends

\* handleStorageFullSyncResults keeps the state of the sockets.
LEMMA AnswerFullSyncEnds ==
  ASSUME NEW r \in requests, TypeOK, Ends, AnswerFullSync(r), UNCHANGED clientVars
  PROVE  Ends'
<1>1. UpTyped /\ DownTyped /\ EndsTyped /\ ClientsTyped /\ EventsTyped
  BY NetworkTyped, ServerTyped DEF TypeOK
<1>2. UNCHANGED <<clientEnd, serverEnd, socket, connectDue, isReady>>
  BY DEF AnswerFullSync, clientVars, transportVars, serverVars, serviceVars,
       networkVars
<1>3. \A t \in Sockets : serverEnd[t] # "open" => up'[t] = up[t]
  BY <1>1, NothingToClosed DEF AnswerFullSync, ServerReceives, serverVars,
       serviceVars, networkVars
<1>4. \A t \in Sockets : clientEnd[t] # "open" => down'[t] = down[t]
  BY <1>1, NothingToClosed DEF AnswerFullSync, serverVars, serviceVars,
       networkVars
<1>5. \A t \in Sockets : serverEnd[t] = "none" /\ t \in loading' => t \in loading
  BY DEF AnswerFullSync, ServerReceives, serverVars, serviceVars, networkVars
<1>6. DOMAIN clients' = DOMAIN clients
  BY <1>1 DEF AnswerFullSync, serverVars, serviceVars, networkVars
<1>7. \A e \in DOMAIN serverEvents' :
         \/ e \in DOMAIN serverEvents
              /\ serverEvents'[e].socket = serverEvents[e].socket
         \/ serverEvents'[e].socket \in DOMAIN clients
  BY DEF AnswerFullSync, Without
<1> QED
  BY <1>2, <1>3, <1>4, <1>5, <1>6, <1>7, EndsStay DEF Ends

\* The timer of a pending full sync keeps the state of the sockets.
LEMMA ExpireEnds ==
  ASSUME NEW e \in DOMAIN serverEvents, TypeOK, Ends, Expire(e), UNCHANGED clientVars
  PROVE  Ends'
<1>1. UpTyped /\ DownTyped /\ EndsTyped /\ ClientsTyped /\ EventsTyped
  BY NetworkTyped, ServerTyped DEF TypeOK
<1>2. UNCHANGED <<clientEnd, serverEnd, socket, connectDue, isReady>>
  BY DEF Expire, clientVars, transportVars, serverVars, serviceVars, networkVars
<1>3. \A t \in Sockets : serverEnd[t] # "open" => up'[t] = up[t]
  BY <1>1, NothingToClosed DEF Expire, ServerReceives, serverVars, serviceVars,
       networkVars
<1>4. \A t \in Sockets : clientEnd[t] # "open" => down'[t] = down[t]
  BY <1>1, NothingToClosed DEF Expire, serverVars, serviceVars, networkVars
<1>5. \A t \in Sockets : serverEnd[t] = "none" /\ t \in loading' => t \in loading
  BY DEF Expire, ServerReceives, serverVars, serviceVars, networkVars
<1>6. DOMAIN clients' = DOMAIN clients
  BY <1>1 DEF Expire, serverVars, serviceVars, networkVars
<1>7. \A x \in DOMAIN serverEvents' :
         \/ x \in DOMAIN serverEvents
              /\ serverEvents'[x].socket = serverEvents[x].socket
         \/ serverEvents'[x].socket \in DOMAIN clients
  BY DEF Expire, serverVars, serviceVars, networkVars
<1> QED
  BY <1>2, <1>3, <1>4, <1>5, <1>6, <1>7, EndsStay DEF Ends

\* clearExpiredServerEvents keeps the state of the sockets.
LEMMA ClearExpiredServerEventsEnds ==
  ASSUME TypeOK, Ends, ClearExpiredServerEvents, UNCHANGED clientVars
  PROVE  Ends'
<1>1. UpTyped /\ DownTyped /\ EndsTyped /\ ClientsTyped /\ EventsTyped
  BY NetworkTyped, ServerTyped DEF TypeOK
<1>2. UNCHANGED <<clientEnd, serverEnd, socket, connectDue, isReady>>
  BY DEF ClearExpiredServerEvents, clientVars, transportVars, serverVars,
       serviceVars, networkVars
<1>3. \A t \in Sockets : serverEnd[t] # "open" => up'[t] = up[t]
  BY <1>1, NothingToClosed DEF ClearExpiredServerEvents, ServerReceives,
       serverVars, serviceVars, networkVars
<1>4. \A t \in Sockets : clientEnd[t] # "open" => down'[t] = down[t]
  BY <1>1, NothingToClosed DEF ClearExpiredServerEvents, serverVars,
       serviceVars, networkVars
<1>5. \A t \in Sockets : serverEnd[t] = "none" /\ t \in loading' => t \in loading
  BY DEF ClearExpiredServerEvents, ServerReceives, serverVars, serviceVars,
       networkVars
<1>6. DOMAIN clients' = DOMAIN clients
  BY <1>1 DEF ClearExpiredServerEvents, serverVars, serviceVars, networkVars
<1>7. \A e \in DOMAIN serverEvents' :
         \/ e \in DOMAIN serverEvents
              /\ serverEvents'[e].socket = serverEvents[e].socket
         \/ serverEvents'[e].socket \in DOMAIN clients
  BY DEF ClearExpiredServerEvents, Without
<1> QED
  BY <1>2, <1>3, <1>4, <1>5, <1>6, <1>7, EndsStay DEF Ends

\* handleStorageDeltaCreated keeps the state of the sockets.
LEMMA TickEnds ==
  ASSUME NEW m \in Markets, TypeOK, Ends, Tick(m), UNCHANGED clientVars
  PROVE  Ends'
<1>1. UpTyped /\ DownTyped /\ EndsTyped /\ ClientsTyped /\ EventsTyped
  BY NetworkTyped, ServerTyped DEF TypeOK
<1>2. UNCHANGED <<clientEnd, serverEnd, socket, connectDue, isReady>>
  BY DEF Tick, clientVars, transportVars, serverVars, serviceVars, networkVars
<1>3. \A t \in Sockets : serverEnd[t] # "open" => up'[t] = up[t]
  BY <1>1, NothingToClosed DEF Tick, ServerReceives, serverVars, serviceVars,
       networkVars
<1>4. \A t \in Sockets : clientEnd[t] # "open" => down'[t] = down[t]
  BY <1>1, NothingToClosed DEF Tick, serverVars, serviceVars, networkVars
<1>5. \A t \in Sockets : serverEnd[t] = "none" /\ t \in loading' => t \in loading
  BY DEF Tick, ServerReceives, serverVars, serviceVars, networkVars
<1>6. DOMAIN clients' = DOMAIN clients
  BY <1>1 DEF Tick, serverVars, serviceVars, networkVars
<1>7. \A e \in DOMAIN serverEvents' :
         \/ e \in DOMAIN serverEvents
              /\ serverEvents'[e].socket = serverEvents[e].socket
         \/ serverEvents'[e].socket \in DOMAIN clients
  BY DEF Tick, serverVars, serviceVars, networkVars
<1> QED
  BY <1>2, <1>3, <1>4, <1>5, <1>6, <1>7, EndsStay DEF Ends

\* handleMarketRollingUpdated keeps the state of the sockets.
LEMMA PublishRollingEnds ==
  ASSUME NEW m \in Markets, TypeOK, Ends, PublishRolling(m), UNCHANGED clientVars
  PROVE  Ends'
<1>1. UpTyped /\ DownTyped /\ EndsTyped /\ ClientsTyped /\ EventsTyped
  BY NetworkTyped, ServerTyped DEF TypeOK
<1>2. UNCHANGED <<clientEnd, serverEnd, socket, connectDue, isReady>>
  BY DEF PublishRolling, clientVars, transportVars, serverVars, serviceVars,
       networkVars
<1>3. \A t \in Sockets : serverEnd[t] # "open" => up'[t] = up[t]
  BY <1>1, NothingToClosed DEF PublishRolling, ServerReceives, serverVars,
       serviceVars, networkVars
<1>4. \A t \in Sockets : clientEnd[t] # "open" => down'[t] = down[t]
  BY <1>1, NothingToClosed DEF PublishRolling, serverVars, serviceVars,
       networkVars
<1>5. \A t \in Sockets : serverEnd[t] = "none" /\ t \in loading' => t \in loading
  BY DEF PublishRolling, ServerReceives, serverVars, serviceVars, networkVars
<1>6. DOMAIN clients' = DOMAIN clients
  BY <1>1 DEF PublishRolling, serverVars, serviceVars, networkVars
<1>7. \A e \in DOMAIN serverEvents' :
         \/ e \in DOMAIN serverEvents
              /\ serverEvents'[e].socket = serverEvents[e].socket
         \/ serverEvents'[e].socket \in DOMAIN clients
  BY DEF PublishRolling, serverVars, serviceVars, networkVars
<1> QED
  BY <1>2, <1>3, <1>4, <1>5, <1>6, <1>7, EndsStay DEF Ends

\* broadcastMarketsUpdated keeps the state of the sockets.
LEMMA BroadcastMarketsEnds ==
  ASSUME TypeOK, Ends, BroadcastMarkets, UNCHANGED clientVars
  PROVE  Ends'
<1>1. UpTyped /\ DownTyped /\ EndsTyped /\ ClientsTyped /\ EventsTyped
  BY NetworkTyped, ServerTyped DEF TypeOK
<1>2. UNCHANGED <<clientEnd, serverEnd, socket, connectDue, isReady>>
  BY DEF BroadcastMarkets, clientVars, transportVars, serverVars, serviceVars,
       networkVars
<1>3. \A t \in Sockets : serverEnd[t] # "open" => up'[t] = up[t]
  BY <1>1, NothingToClosed DEF BroadcastMarkets, ServerReceives, serverVars,
       serviceVars, networkVars
<1>4. \A t \in Sockets : clientEnd[t] # "open" => down'[t] = down[t]
  BY <1>1, NothingToClosed DEF BroadcastMarkets, serverVars, serviceVars,
       networkVars
<1>5. \A t \in Sockets : serverEnd[t] = "none" /\ t \in loading' => t \in loading
  BY DEF BroadcastMarkets, ServerReceives, serverVars, serviceVars, networkVars
<1>6. DOMAIN clients' = DOMAIN clients
  BY <1>1 DEF BroadcastMarkets, serverVars, serviceVars, networkVars
<1>7. \A e \in DOMAIN serverEvents' :
         \/ e \in DOMAIN serverEvents
              /\ serverEvents'[e].socket = serverEvents[e].socket
         \/ serverEvents'[e].socket \in DOMAIN clients
  BY DEF BroadcastMarkets, serverVars, serviceVars, networkVars
<1> QED
  BY <1>2, <1>3, <1>4, <1>5, <1>6, <1>7, EndsStay DEF Ends

\* wss.on('connection') keeps the state of the sockets.
LEMMA AcceptEnds ==
  ASSUME NEW s \in Sockets, TypeOK, Ends, Accept(s), UNCHANGED clientVars
  PROVE  Ends'
<1>1. UpTyped /\ DownTyped /\ EndsTyped /\ ClientsTyped /\ EventsTyped
  BY NetworkTyped, ServerTyped DEF TypeOK
<1>2. /\ clientEnd[s] = "connecting" /\ serverEnd[s] = "none"
      /\ clientEnd' = [clientEnd EXCEPT ![s] = "open"]
      /\ serverEnd' = [serverEnd EXCEPT ![s] = "open"]
      /\ DOMAIN clients' = DOMAIN clients \union {s}
      /\ UNCHANGED <<socket, isReady, connectDue, up, serverEvents, loading>>
      /\ \A t \in Sockets : t # s => down'[t] = down[t]
  BY <1>1 DEF Accept, With, clientVars, transportVars, serviceVars, DownTyped
<1>3. ASSUME NEW t \in Sockets PROVE SocketOK(t)'
  <2>1. SocketOK(t)
    BY DEF Ends
  <2>2. CASE t = s
    <3>1. clientEnd'[t] = "open" /\ serverEnd'[t] = "open"
      BY <1>1, <1>2, <2>2 DEF EndsTyped
    <3> QED
      BY ONLY <2>1, <3>1, <1>2, <2>2 DEF SocketOK
  <2>3. CASE t # s
    <3>1. clientEnd'[t] = clientEnd[t] /\ serverEnd'[t] = serverEnd[t]
      BY <1>1, <1>2, <2>3 DEF EndsTyped
    <3> QED
      BY <2>1, <3>1, <1>2, <2>3 DEF SocketOK
  <2> QED
    BY <2>2, <2>3
<1>4. PendingOfConnected'
  <2>1. \A t \in Sockets : t \in DOMAIN clients' <=>
          serverEnd'[t] \in {"open", "closing"}
    BY <1>1, <1>2 DEF Ends, PendingOfConnected, EndsTyped
  <2>2. \A e \in DOMAIN serverEvents' :
          serverEvents'[e].socket \in DOMAIN clients'
    BY <1>2 DEF Ends, PendingOfConnected
  <2> QED
    BY <2>1, <2>2 DEF PendingOfConnected
<1>5. isReady' => clientEnd'[socket'] = "open" /\ socket' \in Sockets
  BY <1>1, <1>2 DEF Ends, EndsTyped
<1> QED
  BY <1>2, <1>3, <1>4, <1>5 DEF Ends

\* The server's end of a socket goes on closing, and nothing else is touched.
LEMMA EndsOfServer ==
  ASSUME Ends, EndsTyped', UNCHANGED <<clientEnd, down, socket, connectDue, isReady>>,
         \A s \in Sockets : /\ serverEnd'[s] = "none" <=> serverEnd[s] = "none"
                            /\ serverEnd'[s] = "open" => serverEnd[s] = "open"
                            /\ up'[s] = IF serverEnd'[s] = "open" THEN up[s] ELSE <<>>
                            /\ s \in loading' => s \in loading,
         PendingOfConnected'
  PROVE  Ends'
<1>1. ASSUME NEW s \in Sockets PROVE SocketOK(s)'
  <2>1. SocketOK(s)
    BY DEF Ends
  <2> QED
    BY <2>1 DEF SocketOK
<1> QED
  BY <1>1 DEF Ends

\* The end of a connection the server notices keeps the state of the sockets.
LEMMA ServerNoticesCloseEnds ==
  ASSUME NEW s \in Sockets, TypeOK, TypeOK', Ends, ServerNoticesClose(s),
         UNCHANGED clientVars
  PROVE  Ends'
<1>1. UpTyped /\ DownTyped /\ EndsTyped /\ ClientsTyped /\ EventsTyped /\ EndsTyped'
  BY NetworkTyped, ServerTyped DEF TypeOK, TypeOKNetwork, EndsTyped
<1>2. /\ serverEnd[s] = "open"
      /\ serverEnd' = [serverEnd EXCEPT ![s] = "closing"]
      /\ up' = [up EXCEPT ![s] = <<>>]
      /\ UNCHANGED <<clientEnd, down, clients, serverEvents, loading>>
      /\ UNCHANGED <<socket, connectDue, isReady>>
  BY DEF ServerNoticesClose, serverVars, clientVars, transportVars
<1>3. \A t \in Sockets : /\ serverEnd'[t] = "none" <=> serverEnd[t] = "none"
                         /\ serverEnd'[t] = "open" => serverEnd[t] = "open"
                         /\ up'[t] = IF serverEnd'[t] = "open" THEN up[t] ELSE <<>>
                         /\ t \in loading' => t \in loading
  BY <1>1, <1>2 DEF EndsTyped, UpTyped, Ends, SocketOK
<1>4. PendingOfConnected'
  BY <1>1, <1>2 DEF EndsTyped, Ends, PendingOfConnected
<1> QED
  BY <1>1, <1>2, <1>3, <1>4, EndsOfServer

\* handleSocketClose keeps the state of the sockets.
LEMMA ServerCloseEventEnds ==
  ASSUME NEW s \in Sockets, TypeOK, TypeOK', Ends, ServerCloseEvent(s),
         UNCHANGED clientVars
  PROVE  Ends'
<1>1. UpTyped /\ DownTyped /\ EndsTyped /\ ClientsTyped /\ EventsTyped /\ EndsTyped'
  BY NetworkTyped, ServerTyped DEF TypeOK, TypeOKNetwork, EndsTyped
<1>2. /\ serverEnd[s] = "closing"
      /\ serverEnd' = [serverEnd EXCEPT ![s] = "gone"]
      /\ DOMAIN clients' = DOMAIN clients \ {s}
      /\ \A e \in DOMAIN serverEvents' :
           /\ e \in DOMAIN serverEvents /\ serverEvents'[e] = serverEvents[e]
           /\ serverEvents[e].socket # s
      /\ UNCHANGED <<clientEnd, up, down, loading>>
      /\ UNCHANGED <<socket, connectDue, isReady>>
  BY DEF ServerCloseEvent, Without, EventsOf, serviceVars, clientVars,
         transportVars
<1>3. \A t \in Sockets : /\ serverEnd'[t] = "none" <=> serverEnd[t] = "none"
                         /\ serverEnd'[t] = "open" => serverEnd[t] = "open"
                         /\ up'[t] = IF serverEnd'[t] = "open" THEN up[t] ELSE <<>>
                         /\ t \in loading' => t \in loading
  BY <1>1, <1>2 DEF EndsTyped, UpTyped, Ends, SocketOK
<1>4. PendingOfConnected'
  BY <1>1, <1>2 DEF EndsTyped, Ends, PendingOfConnected
<1> QED
  BY <1>1, <1>2, <1>3, <1>4, EndsOfServer

\* A restart of the server keeps the state of the sockets.
LEMMA ServerRestartsEnds ==
  ASSUME TypeOK, TypeOK', Ends, ServerRestarts, UNCHANGED clientVars
  PROVE  Ends'
<1>1. UpTyped /\ DownTyped /\ EndsTyped /\ ClientsTyped /\ EventsTyped /\ EndsTyped'
  BY NetworkTyped, ServerTyped DEF TypeOK, TypeOKNetwork, EndsTyped
<1>2. /\ serverEnd' = [t \in Sockets |->
                         IF serverEnd[t] = "none" THEN "none" ELSE "gone"]
      /\ DOMAIN clients' = {} /\ DOMAIN serverEvents' = {}
      /\ up' = [t \in Sockets |-> <<>>]
      /\ loading' = {}
      /\ UNCHANGED <<clientEnd, down>>
      /\ UNCHANGED <<socket, connectDue, isReady>>
  BY DEF ServerRestarts, clientVars, transportVars
<1>3. \A t \in Sockets : /\ serverEnd'[t] = "none" <=> serverEnd[t] = "none"
                         /\ serverEnd'[t] = "open" => serverEnd[t] = "open"
                         /\ up'[t] = IF serverEnd'[t] = "open" THEN up[t] ELSE <<>>
                         /\ t \in loading' => t \in loading
  BY <1>1, <1>2 DEF EndsTyped, UpTyped
<1>4. PendingOfConnected'
  BY <1>1, <1>2 DEF PendingOfConnected
<1> QED
  BY <1>1, <1>2, <1>3, <1>4, EndsOfServer

\* processServerPing keeps the state of the sockets.
LEMMA ServerPingEnds ==
  ASSUME TypeOK, TypeOK', Ends, ServerPing, UNCHANGED clientVars
  PROVE  Ends'
<1>1. UpTyped /\ DownTyped /\ EndsTyped /\ ClientsTyped /\ EventsTyped /\ EndsTyped'
  BY NetworkTyped, ServerTyped DEF TypeOK, TypeOKNetwork, EndsTyped
<1> DEFINE late == {t \in {s \in DOMAIN clients : serverEnd[s] = "open"} : Late(t)}
<1>2. /\ serverEnd' = [t \in Sockets |->
                         IF t \in late THEN "closing" ELSE serverEnd[t]]
      /\ up' = [t \in Sockets |-> IF t \in late THEN <<>> ELSE up[t]]
      /\ UNCHANGED <<clientEnd, clients, serverEvents, loading>>
      /\ UNCHANGED <<socket, connectDue, isReady>>
  BY DEF ServerPing, clientVars, transportVars, serviceVars
<1>3. \A t \in Sockets : clientEnd[t] # "open" => down'[t] = down[t]
  BY <1>1, NothingToClosed DEF ServerPing
<1>4. \A t \in late : serverEnd[t] = "open"
  OBVIOUS
<1> HIDE DEF late
<1>5. ASSUME NEW t \in Sockets PROVE SocketOK(t)'
  <2>1. SocketOK(t)
    BY DEF Ends
  <2>2. CASE t \in late
    <3>1. serverEnd'[t] = "closing" /\ serverEnd[t] = "open" /\ up'[t] = <<>>
      BY <1>2, <1>4, <2>2
    <3> QED
      BY ONLY <2>1, <3>1, <1>2, <1>3, t \in Sockets DEF SocketOK
  <2>3. CASE t \notin late
    <3>1. serverEnd'[t] = serverEnd[t] /\ up'[t] = up[t]
      BY <1>2, <2>3
    <3> QED
      BY ONLY <2>1, <3>1, <1>2, <1>3, t \in Sockets DEF SocketOK
  <2> QED
    BY <2>2, <2>3
<1>6. PendingOfConnected'
  BY <1>1, <1>2, <1>4 DEF Ends, PendingOfConnected
<1> QED
  BY <1>2, <1>5, <1>6 DEF Ends

\* A connection that dies keeps the state of the sockets.
LEMMA LinkDiesEnds ==
  ASSUME NEW s \in Sockets, Ends, LinkDies(s), UNCHANGED <<serverVars, clientVars>>
  PROVE  Ends'
BY EndsStay DEF LinkDies, serverVars, clientVars, transportVars, Ends

-----------------------------------------------------------------------------
(* The browser.                                                            *)

\* A message of the browser, and one it receives, leave the sockets open.
LEMMA EndsSend ==
  ASSUME TypeOK, Ends, NEW r,
         up' = up \/ up' = UpAfter(socket, r),
         UNCHANGED <<clientEnd, serverEnd, socket, isReady, connectDue, serverVars, down>>
  PROVE  Ends'
<1>1. UpTyped /\ DownTyped
  BY NetworkTyped DEF TypeOK
<1>2. \A t \in Sockets : serverEnd[t] # "open" => up'[t] = up[t]
  BY <1>1, NothingToClosed
<1> QED
  BY <1>2, EndsStay DEF Ends, serverVars

\* Receiving a message, and sending some, leaves the sockets as they are.
LEMMA EndsReceive ==
  ASSUME TypeOK, Ends, NEW r, NEW s \in Sockets, NEW type,
         ClientReceives(s, type), TakeDown(s),
         up' = up \/ up' = UpAfter(s, r),
         UNCHANGED <<clientEnd, serverEnd, socket, connectDue, serverVars>>
  PROVE  Ends'
<1>1. UpTyped /\ DownTyped
  BY NetworkTyped DEF TypeOK
<1>2. \A t \in Sockets : serverEnd[t] # "open" => up'[t] = up[t]
  BY <1>1, NothingToClosed
<1>3. clientEnd[s] = "open" /\ s = socket
  BY DEF ClientReceives
<1>4. \A t \in Sockets : clientEnd[t] # "open" => down'[t] = down[t]
  BY <1>1, <1>3, NothingToClosed
<1> QED
  BY <1>2, <1>3, <1>4, EndsStay DEF serverVars

\* connect keeps the state of the sockets.
LEMMA ConnectEnds ==
  ASSUME TypeOK, Ends, Connect, UNCHANGED serverVars
  PROVE  Ends'
<1>1. UpTyped /\ DownTyped /\ EndsTyped
  BY NetworkTyped DEF TypeOK
<1>2. PICK s \in Sockets :
        /\ clientEnd[s] = "none" /\ socket' = s
        /\ clientEnd' = [clientEnd EXCEPT ![s] = "connecting"]
  BY DEF Connect
<1>3. /\ socket = NoSocket /\ connectDue' = FALSE
      /\ UNCHANGED <<serverEnd, up, down, isReady, serverVars>>
      /\ UNCHANGED <<loading, clients, serverEvents>>
  BY DEF Connect, Ends, serverVars
<1>4. NoSocket \notin Sockets
  BY DEF NoSocket, Sockets
<1>5. ASSUME NEW t \in Sockets PROVE SocketOK(t)'
  <2>1. SocketOK(t) /\ SocketOK(s)
    BY DEF Ends
  <2>2. CASE t = s
    <3>1. clientEnd'[t] = "connecting"
      BY <1>1, <1>2, <2>2 DEF EndsTyped
    <3> QED
      BY ONLY <2>1, <3>1, <1>2, <1>3, <2>2 DEF SocketOK
  <2>3. CASE t # s
    <3>1. clientEnd'[t] = clientEnd[t] /\ t # socket
      BY <1>1, <1>2, <1>3, <1>4, <2>3 DEF EndsTyped
    <3> QED
      BY ONLY <2>1, <3>1, <1>2, <1>3, <2>3 DEF SocketOK
  <2> QED
    BY <2>2, <2>3
<1>6. PendingOfConnected'
  BY <1>3 DEF Ends, PendingOfConnected
<1>7. ~ isReady
  BY <1>3, <1>4 DEF Ends
<1> QED
  BY <1>3, <1>5, <1>6, <1>7 DEF Ends

-----------------------------------------------------------------------------
(* Messages on their way to the server.                                    *)

\* Messages behind others.
Join(q, r) == q \o r

\* Messages behind others.
LEMMA Joined ==
  ASSUME NEW S, NEW q, NEW r, q \in Seq(S), r \in Seq(S)
  PROVE  /\ Join(q, r) \in Seq(S)
         /\ Len(q) \in Nat /\ Len(r) \in Nat
         /\ Len(Join(q, r)) = Len(q) + Len(r)
         /\ \A i \in 1 .. Len(q) : i \in 1 .. Len(Join(q, r)) /\ Join(q, r)[i] = q[i]
         /\ \A i \in 1 .. Len(Join(q, r)) :
              \/ i \in 1 .. Len(q) /\ Join(q, r)[i] = q[i]
              \/ /\ i - Len(q) \in 1 .. Len(r) /\ Join(q, r)[i] = r[i - Len(q)]
                 /\ \A j \in 1 .. Len(q) : j < i
<1> DEFINE t == Join(q, r)
<1>1. /\ t \in Seq(S) /\ Len(q) \in Nat /\ Len(r) \in Nat
      /\ Len(t) = Len(q) + Len(r)
  BY DEF Join
<1>2. \A i \in 1 .. Len(q) : t[i] = q[i]
  BY DEF Join
<1>3. \A i \in 1 .. Len(r) : t[Len(q) + i] = r[i]
  BY DEF Join
<1> HIDE DEF t
<1>4. \A i \in 1 .. Len(q) : i \in 1 .. Len(t)
  BY ONLY <1>1
<1>5. \A i \in 1 .. Len(t) :
        \/ i \in 1 .. Len(q)
        \/ /\ i - Len(q) \in 1 .. Len(r) /\ Len(q) + (i - Len(q)) = i
           /\ \A j \in 1 .. Len(q) : j < i
  BY ONLY <1>1
<1> QED
  BY ONLY <1>1, <1>2, <1>3, <1>4, <1>5 DEF t

\* Messages without the first.
LEMMA Shortened ==
  ASSUME NEW S, NEW q, q \in Seq(S), q # <<>>
  PROVE  /\ Rest(q) \in Seq(S)
         /\ Head(q) \in S /\ Head(q) = q[1] /\ 1 \in 1 .. Len(q)
         /\ \A i \in 1 .. Len(Rest(q)) :
              /\ i + 1 \in 1 .. Len(q) /\ Rest(q)[i] = q[i + 1]
              /\ i \in Nat \ {0}
         /\ \A i \in 1 .. Len(q) :
              i = 1 \/ (i - 1 \in 1 .. Len(Rest(q)) /\ Rest(q)[i - 1] = q[i])
         /\ \A i \in 1 .. Len(q) : i \in Nat \ {0}
<1> DEFINE t == Rest(q)
<1>1. /\ t \in Seq(S) /\ Len(q) \in Nat \ {0} /\ Len(t) = Len(q) - 1
      /\ Head(q) \in S /\ Head(q) = q[1]
  BY DEF Rest
<1>2. \A i \in 1 .. Len(q) - 1 : t[i] = q[i + 1]
  BY DEF Rest
<1> HIDE DEF t
<1>3. \A i \in 1 .. Len(t) : i + 1 \in 1 .. Len(q) /\ i \in 1 .. Len(q) - 1
                               /\ i \in Nat \ {0}
  BY ONLY <1>1
<1>4. \A i \in 1 .. Len(q) : \/ i = 1
                             \/ /\ i - 1 \in 1 .. Len(t) /\ (i - 1) + 1 = i
                                /\ i - 1 \in 1 .. Len(q) - 1
  BY ONLY <1>1
<1>5. 1 \in 1 .. Len(q) /\ \A i \in 1 .. Len(q) : i \in Nat \ {0}
  BY ONLY <1>1
<1> QED
  BY ONLY <1>1, <1>2, <1>3, <1>4, <1>5 DEF t

\* The messages themselves, whatever their order.
LEMMA Among ==
  ASSUME NEW S, NEW q, q \in Seq(S)
  PROVE  \A x : x \in ToSet(q) <=> \E i \in 1 .. Len(q) : x = q[i]
<1>1. DOMAIN q = 1 .. Len(q)
  OBVIOUS
<1> QED
  BY <1>1 DEF ToSet

\* The messages of two sequences together.
LEMMA AmongJoined ==
  ASSUME NEW S, NEW q, NEW r, q \in Seq(S), r \in Seq(S)
  PROVE  \A x : x \in ToSet(Join(q, r)) <=> x \in ToSet(q) \/ x \in ToSet(r)
<1> DEFINE t == Join(q, r)
<1>1. /\ \A x : x \in ToSet(q) <=> \E i \in 1 .. Len(q) : x = q[i]
      /\ \A x : x \in ToSet(r) <=> \E i \in 1 .. Len(r) : x = r[i]
      /\ \A x : x \in ToSet(t) <=> \E i \in 1 .. Len(t) : x = t[i]
  <2>1. t \in Seq(S)
    BY Joined
  <2> HIDE DEF t
  <2> QED
    BY ONLY q \in Seq(S), r \in Seq(S), <2>1, Among
<1>2. /\ Len(q) \in Nat /\ Len(r) \in Nat /\ Len(t) = Len(q) + Len(r)
      /\ \A i \in 1 .. Len(q) : i \in 1 .. Len(t) /\ t[i] = q[i]
      /\ \A i \in 1 .. Len(t) :
           \/ i \in 1 .. Len(q) /\ t[i] = q[i]
           \/ i - Len(q) \in 1 .. Len(r) /\ t[i] = r[i - Len(q)]
  BY Joined
<1>3. \A i \in 1 .. Len(r) : Len(q) + i \in 1 .. Len(t) /\ t[Len(q) + i] = r[i]
  BY DEF Join
<1> HIDE DEF t
<1>4. ASSUME NEW x, x \in ToSet(q) PROVE x \in ToSet(Join(q, r))
  <2>1. PICK i \in 1 .. Len(q) : x = q[i]
    BY ONLY <1>1, <1>4
  <2>2. i \in 1 .. Len(t) /\ x = t[i]
    BY ONLY <2>1, <1>2
  <2> QED
    BY ONLY <1>1, <2>2 DEF t
<1>5. ASSUME NEW x, x \in ToSet(r) PROVE x \in ToSet(Join(q, r))
  <2>1. PICK i \in 1 .. Len(r) : x = r[i]
    BY ONLY <1>1, <1>5
  <2>2. Len(q) + i \in 1 .. Len(t) /\ x = t[Len(q) + i]
    BY ONLY <2>1, <1>3
  <2> QED
    BY ONLY <1>1, <2>2 DEF t
<1>6. ASSUME NEW x, x \in ToSet(Join(q, r))
      PROVE  x \in ToSet(q) \/ x \in ToSet(r)
  <2>1. PICK i \in 1 .. Len(t) : x = t[i]
    BY ONLY <1>1, <1>6 DEF t
  <2>2. CASE i \in 1 .. Len(q) /\ t[i] = q[i]
    BY ONLY <1>1, <2>1, <2>2
  <2>3. CASE i - Len(q) \in 1 .. Len(r) /\ t[i] = r[i - Len(q)]
    BY ONLY <1>1, <2>1, <2>3
  <2> QED
    BY ONLY <1>2, <2>1, <2>2, <2>3
<1> QED
  BY <1>4, <1>5, <1>6

\* The messages with one more.
LEMMA AmongPut ==
  ASSUME NEW S, NEW q, NEW y, q \in Seq(S), y \in S
  PROVE  \A x : x \in ToSet(Put(q, y)) <=> x \in ToSet(q) \/ x = y
<1>1. << y >> \in Seq(S) /\ Put(q, y) = Join(q, << y >>)
  BY DEF Put, Join
<1>2. \A x : x \in ToSet(<< y >>) <=> x = y
  BY DEF ToSet
<1> QED
  BY <1>1, <1>2, AmongJoined

\* The messages are the first and the rest.
LEMMA AmongRest ==
  ASSUME NEW S, NEW q, q \in Seq(S), q # <<>>
  PROVE  /\ \A x : x \in ToSet(q) <=> x \in ToSet(Rest(q)) \/ x = Head(q)
         /\ Head(q) \in ToSet(q) /\ Head(q) \in S
<1>1. /\ \A x : x \in ToSet(q) <=> \E i \in 1 .. Len(q) : x = q[i]
      /\ \A x : x \in ToSet(Rest(q)) <=>
           \E i \in 1 .. Len(Rest(q)) : x = Rest(q)[i]
  BY Among, Shortened
<1>2. /\ Head(q) \in S /\ Head(q) = q[1] /\ 1 \in 1 .. Len(q)
      /\ \A i \in 1 .. Len(Rest(q)) :
           i + 1 \in 1 .. Len(q) /\ Rest(q)[i] = q[i + 1]
      /\ \A i \in 1 .. Len(q) :
           i = 1 \/ (i - 1 \in 1 .. Len(Rest(q)) /\ Rest(q)[i - 1] = q[i])
  BY Shortened
<1>3. ASSUME NEW x, x \in ToSet(q)
      PROVE  x \in ToSet(Rest(q)) \/ x = Head(q)
  <2>1. PICK i \in 1 .. Len(q) : x = q[i]
    BY ONLY <1>1, <1>3
  <2>2. i = 1 \/ (i - 1 \in 1 .. Len(Rest(q)) /\ Rest(q)[i - 1] = q[i])
    BY ONLY <1>2, <2>1
  <2> QED
    BY ONLY <1>1, <1>2, <2>1, <2>2
<1>4. ASSUME NEW x, x \in ToSet(Rest(q)) PROVE x \in ToSet(q)
  <2>1. PICK i \in 1 .. Len(Rest(q)) : x = Rest(q)[i]
    BY ONLY <1>1, <1>4
  <2>2. i + 1 \in 1 .. Len(q) /\ x = q[i + 1]
    BY ONLY <1>2, <2>1
  <2> QED
    BY ONLY <1>1, <2>2
<1>5. Head(q) \in ToSet(q)
  BY ONLY <1>1, <1>2
<1> QED
  BY <1>2, <1>3, <1>4, <1>5

\* No message is among none.
LEMMA AmongNone == ToSet(<<>>) = {}
BY DEF ToSet

\* A place of a kind holds a message of that kind.
LEMMA AtAmong ==
  ASSUME NEW S, NEW q, NEW M, q \in Seq(S)
  PROVE  /\ \A i \in At(q, M) : q[i] \in ToSet(q) /\ q[i] \in M
         /\ (\A x \in ToSet(q) : x \notin M) => At(q, M) = {}
<1>1. \A x : x \in ToSet(q) <=> \E i \in 1 .. Len(q) : x = q[i]
  BY Among
<1> QED
  BY <1>1 DEF At

\* webSocketReady is on its way.
ReadySent(u) == \E i \in 1 .. Len(u) : u[i].type = "webSocketReady"

\* No full sync is on its way that the server would accept.
NothingAsked(u, ready) ==
  \A i \in 1 .. Len(u) :
    u[i].type = "requestFullSync" =>
      /\ ~ ready
      /\ \A j \in 1 .. i : u[j].type # "webSocketReady"

\* What the browser asks for comes behind its webSocketReady.
ReadyFirst(u, ready) ==
  /\ ready \/ ReadySent(u)
  /\ \A i \in 1 .. Len(u) :
       u[i].type \in {"setMarketInfo", "addRolling"} =>
         ready \/ \E j \in 1 .. i : u[j].type = "webSocketReady"

\* setMarketInfo is on its way.
ListAsked(u) == \E i \in 1 .. Len(u) : u[i].type = "setMarketInfo"

\* Taking a message leaves nothing asked, unless it makes the client ready.
LEMMA NothingAskedTaken ==
  ASSUME NEW S, NEW u, NEW ready, NEW new, u \in Seq(S), u # <<>>,
         NothingAsked(u, ready),
         new => ready \/ Head(u).type = "webSocketReady"
  PROVE  NothingAsked(Rest(u), new)
<1>1. ASSUME NEW i \in 1 .. Len(Rest(u)), Rest(u)[i].type = "requestFullSync"
      PROVE  ~ new /\ \A j \in 1 .. i : Rest(u)[j].type # "webSocketReady"
  <2>1. i + 1 \in 1 .. Len(u) /\ Rest(u)[i] = u[i + 1] /\ Head(u) = u[1]
        /\ i \in Nat \ {0}
    BY Shortened
  <2>2. ~ ready /\ \A j \in 1 .. i + 1 : u[j].type # "webSocketReady"
    BY <1>1, <2>1 DEF NothingAsked
  <2>3. Head(u).type # "webSocketReady"
    BY <2>1, <2>2
  <2>4. ASSUME NEW j \in 1 .. i PROVE Rest(u)[j].type # "webSocketReady"
    <3>1. j + 1 \in 1 .. i + 1 /\ j \in 1 .. Len(Rest(u))
      BY <2>1, Shortened
    <3>2. Rest(u)[j] = u[j + 1]
      BY <3>1, Shortened
    <3> QED
      BY <3>1, <3>2, <2>2
  <2> QED
    BY <2>2, <2>3, <2>4
<1> QED
  BY <1>1 DEF NothingAsked

\* Messages that ask for no storage leave nothing asked.
LEMMA NothingAskedJoined ==
  ASSUME NEW S, NEW u, NEW r, NEW ready, u \in Seq(S), r \in Seq(S),
         NothingAsked(u, ready),
         \A x \in ToSet(r) : x.type # "requestFullSync"
  PROVE  NothingAsked(Join(u, r), ready)
<1> DEFINE t == Join(u, r)
<1>1. ASSUME NEW i \in 1 .. Len(t), t[i].type = "requestFullSync"
      PROVE  ~ ready /\ \A j \in 1 .. i : t[j].type # "webSocketReady"
  <2>1. i \in 1 .. Len(u) /\ t[i] = u[i]
    BY <1>1, Joined, Among
  <2>2. ~ ready /\ \A j \in 1 .. i : u[j].type # "webSocketReady"
    BY <1>1, <2>1 DEF NothingAsked
  <2>3. \A j \in 1 .. i : j \in 1 .. Len(u)
    BY <2>1, Joined
  <2>4. \A j \in 1 .. i : t[j] = u[j]
    BY <2>3, Joined
  <2> QED
    BY <2>2, <2>4
<1> QED
  BY <1>1 DEF NothingAsked, t

\* A full sync that arrives while nothing is asked meets a client that is not
\* ready: handleStorageFullSyncRequest ignores it.
LEMMA NothingAskedHead ==
  ASSUME NEW S, NEW u, NEW ready, u \in Seq(S), u # <<>>,
         NothingAsked(u, ready), Head(u).type = "requestFullSync"
  PROVE  ~ ready
BY Shortened DEF NothingAsked

\* Nothing is asked by no messages.
LEMMA NothingAskedNone == \A ready : NothingAsked(<<>>, ready)
BY DEF NothingAsked

\* No full sync at all is on its way.
LEMMA NothingAskedAmong ==
  ASSUME NEW S, NEW u, NEW ready, u \in Seq(S),
         \A x \in ToSet(u) : x.type # "requestFullSync"
  PROVE  NothingAsked(u, ready)
BY Among DEF NothingAsked

\* What is asked for arrives at a client that is ready.
LEMMA ReadyFirstTaken ==
  ASSUME NEW S, NEW u, NEW ready, u \in Seq(S), u # <<>>,
         ReadyFirst(u, ready), Head(u).type # "webSocketReady"
  PROVE  /\ ReadyFirst(Rest(u), ready)
         /\ Head(u).type \in {"setMarketInfo", "addRolling"} => ready
<1>1. ready \/ ReadySent(Rest(u))
  <2>1. CASE ReadySent(u)
    <3>1. PICK i \in 1 .. Len(u) : u[i].type = "webSocketReady"
      BY <2>1 DEF ReadySent
    <3>2. i # 1
      BY <3>1, Shortened
    <3>3. i - 1 \in 1 .. Len(Rest(u)) /\ Rest(u)[i - 1] = u[i]
      BY <3>2, Shortened
    <3> QED
      BY <3>1, <3>3 DEF ReadySent
  <2> QED
    BY <2>1 DEF ReadyFirst
<1>2. ASSUME NEW i \in 1 .. Len(Rest(u)),
             Rest(u)[i].type \in {"setMarketInfo", "addRolling"}
      PROVE  ready \/ \E j \in 1 .. i : Rest(u)[j].type = "webSocketReady"
  <2>1. i + 1 \in 1 .. Len(u) /\ Rest(u)[i] = u[i + 1] /\ Head(u) = u[1]
        /\ i \in Nat \ {0}
    BY Shortened
  <2>2. ready \/ \E j \in 1 .. i + 1 : u[j].type = "webSocketReady"
    BY <1>2, <2>1 DEF ReadyFirst
  <2>3. ASSUME NEW j \in 1 .. i + 1, u[j].type = "webSocketReady"
        PROVE  \E k \in 1 .. i : Rest(u)[k].type = "webSocketReady"
    <3>1. j # 1
      BY <2>1, <2>3
    <3>2. j - 1 \in 1 .. i /\ j \in 1 .. Len(u)
      BY <2>1, <3>1, Shortened
    <3>3. Rest(u)[j - 1] = u[j]
      BY <3>1, <3>2, Shortened
    <3> QED
      BY <2>3, <3>2, <3>3
  <2> QED
    BY <2>2, <2>3
<1>3. Head(u).type \in {"setMarketInfo", "addRolling"} => ready
  BY Shortened DEF ReadyFirst
<1> QED
  BY <1>1, <1>2, <1>3 DEF ReadyFirst

\* Messages behind the others come behind webSocketReady too.
LEMMA ReadyFirstJoined ==
  ASSUME NEW S, NEW u, NEW r, NEW ready, u \in Seq(S), r \in Seq(S),
         ReadyFirst(u, ready)
  PROVE  ReadyFirst(Join(u, r), ready)
<1> DEFINE t == Join(u, r)
<1>1. ready \/ ReadySent(t)
  BY Joined DEF ReadyFirst, ReadySent
<1>2. ASSUME NEW i \in 1 .. Len(t),
             t[i].type \in {"setMarketInfo", "addRolling"}
      PROVE  ready \/ \E j \in 1 .. i : t[j].type = "webSocketReady"
  <2>1. CASE i \in 1 .. Len(u) /\ t[i] = u[i]
    <3>1. ready \/ \E j \in 1 .. i : u[j].type = "webSocketReady"
      BY <1>2, <2>1 DEF ReadyFirst
    <3>2. \A j \in 1 .. i : j \in 1 .. Len(u)
      BY <2>1, Joined
    <3> QED
      BY <3>1, <3>2, Joined
  <2>2. CASE \A j \in 1 .. Len(u) : j < i
    <3>1. ready \/ \E j \in 1 .. Len(u) : u[j].type = "webSocketReady"
      BY DEF ReadyFirst, ReadySent
    <3>2. \A j \in 1 .. Len(u) : j \in 1 .. i
      BY <2>2
    <3> QED
      BY <3>1, <3>2, Joined
  <2> QED
    BY <1>2, <2>1, <2>2, Joined
<1> QED
  BY <1>1, <1>2 DEF ReadyFirst, t

\* A client that is ready may be asked for anything.
LEMMA ReadyFirstNow ==
  ASSUME NEW u PROVE ReadyFirst(u, TRUE)
BY DEF ReadyFirst

\* setMarketInfo is still on its way, or it is what was taken.
LEMMA ListAskedTaken ==
  ASSUME NEW S, NEW u, u \in Seq(S), u # <<>>, ListAsked(u)
  PROVE  ListAsked(Rest(u)) \/ Head(u).type = "setMarketInfo"
<1>1. PICK i \in 1 .. Len(u) : u[i].type = "setMarketInfo"
  BY DEF ListAsked
<1>2. CASE i = 1
  BY <1>1, <1>2, Shortened
<1>3. CASE i # 1
  <2>1. i - 1 \in 1 .. Len(Rest(u)) /\ Rest(u)[i - 1] = u[i]
    BY <1>3, Shortened
  <2> QED
    BY <1>1, <2>1 DEF ListAsked
<1> QED
  BY <1>2, <1>3

\* setMarketInfo stays on its way when more is sent, or is sent now.
LEMMA ListAskedJoined ==
  ASSUME NEW S, NEW u, NEW r, u \in Seq(S), r \in Seq(S)
  PROVE  /\ ListAsked(u) => ListAsked(Join(u, r))
         /\ ListAsked(r) => ListAsked(Join(u, r))
<1>1. /\ Join(u, r) \in Seq(S)
      /\ \A x : x \in ToSet(Join(u, r)) <=> x \in ToSet(u) \/ x \in ToSet(r)
  BY Joined, AmongJoined
<1>2. ASSUME NEW q \in Seq(S)
      PROVE  ListAsked(q) <=> \E x \in ToSet(q) : x.type = "setMarketInfo"
  <2>1. \A x : x \in ToSet(q) <=> \E i \in 1 .. Len(q) : x = q[i]
    BY Among
  <2> QED
    BY ONLY <2>1 DEF ListAsked
<1> QED
  BY <1>1, <1>2

\* No market list is on its way.
LEMMA ListNone ==
  ASSUME NEW q, NEW list, At(q, MarketLists) = {}
  PROVE  ListReaches(q, list, list)
BY DEF ListReaches, Latest, ListAt

-----------------------------------------------------------------------------
(* The inductive invariant.                                                *)

\* The server's end of the socket in use is open, and the server lists it.
Open == serverEnd[socket] = "open"
Known == socket \in DOMAIN clients

\* The client ids a socket's pending full syncs were asked with.
EventIds(s) == {serverEvents[e].clientId : e \in EventsOf(s)}

\* A socket that has not said anything of importance.
Fresh(c) ==
  /\ c.isReady = FALSE
  /\ c.marketInfo = FALSE
  /\ c.nextServerId = 1
  /\ \A m \in Markets : c.statistics[m] = NoId /\ c.rolling[m] = NoId

\* Before the hello has come neither end has said anything of importance.
NotGreeted ==
  socket \in Sockets /\ isReady = FALSE =>
    /\ \A x \in ToSet(up[socket]) :
         x.type \in {"requestFullSync", "removeRolling", "removeStatistics",
                     "clientPong"}
    /\ \A x \in ToSet(down[socket]) : x.type \in {"serverHello", "serverPing"}
    /\ Known => Fresh(clients[socket])
    /\ socket \notin loading
    /\ EventIds(socket) = {}

\* The session has not asked for any storage, and will not have asked for one
\* when its webSocketReady is handled.
Unasked ==
  /\ \A x \in ToSet(down[socket]) : x \notin BinaryMessage
  /\ Known =>
       /\ clients[socket].nextServerId = 1
       /\ \A m \in Markets : clients[socket].statistics[m] = NoId
  /\ EventIds(socket) = {}
  /\ NothingAsked(up[socket], clients[socket].isReady)

\* Both ends count the session's packets alike.
Counted ==
  /\ Counting(down[socket], lastServerId)
  /\ Open => NextIs(down[socket], lastServerId, clients[socket].nextServerId)

\* The synchronization of the session has the entities.
Registered ==
  \/ shown = TRUE
  \/ sync.state = "waiting" /\ sync.got["entities"] # NoSocket

\* A session has asked for nothing yet, or its packets are counted.
Sessions ==
  /\ isReady = TRUE => Unasked \/ (Counted /\ entities = TRUE)
  /\ isReady = TRUE /\ Registered => Counted /\ entities = TRUE
  /\ lastServerId # 0 => entities = TRUE

\* What the pages show, and who expects something.
View ==
  /\ isReady = TRUE /\ sync.state = "waiting" /\ sync.got["markets"] # NoSocket
       => marketList > 0
  /\ AnswersOfOneSession
  /\ ShownIsSynchronized
  /\ \A m \in Markets : m \notin mounted => pending[m] = {}

\* The client ids in use were given out by this page.
IdsGiven ==
  /\ \A m \in Markets : \A id \in pending[m] : id < nextClientId
  /\ socket \in Sockets =>
       /\ \A x \in ToSet(down[socket]) :
            x \in BinaryMessage => x.clientId < nextClientId
       /\ \A x \in ToSet(up[socket]) :
            x.type \in {"requestFullSync", "addRolling"} =>
              x.clientId < nextClientId
       /\ \A id \in EventIds(socket) : id < nextClientId
       /\ Known => \A m \in Markets :
                     /\ clients[socket].statistics[m] < nextClientId
                     /\ clients[socket].rolling[m] < nextClientId

\* Deltas continue what was sent of their market before, or what the browser
\* has of it, and all of it reaches the storage.
StorageReached(m) ==
  /\ DeltasFit(down[socket], BinariesOf(m), pending[m], storage[m])
  /\ Open /\ clients[socket].statistics[m] # NoId =>
       /\ clients[socket].isReady = TRUE
       /\ Reaches(down[socket], BinariesOf(m), clients[socket].statistics[m],
                  version[m], pending[m], storage[m])

StoragesReached == socket \in Sockets => \A m \in Markets : StorageReached(m)

\* What the browser asks for is handled by a server that is ready for it.
AskedReady ==
  isReady = TRUE /\ Open => ReadyFirst(up[socket], clients[socket].isReady)

\* The market list was asked for, or the one sent last is the current one.
ListReached ==
  isReady = TRUE /\ Open =>
    \/ ListAsked(up[socket])
    \/ /\ clients[socket].marketInfo = TRUE
       /\ clients[socket].isReady = TRUE
       /\ ListReaches(down[socket], marketList, markets)

\* The rolling statistics that were sent last are the server's.
RollingReached(m) ==
  /\ \A x \in ToSet(down[socket]) : x \in RollingsOf(m) => x.version \in 1 .. rolled[m]
  /\ Open /\ clients[socket].rolling[m] # NoId =>
       /\ clients[socket].isReady = TRUE
       /\ Reaches(down[socket], RollingsOf(m), clients[socket].rolling[m],
                  rolled[m], pending[m], rollingShown[m])

RollingsReached ==
  /\ \A m \in Markets : rollingShown[m] <= rolled[m]
  /\ socket \in Sockets => \A m \in Markets : RollingReached(m)

\* What the two ends know of each other.
ServerSide ==
  /\ NotGreeted
  /\ Sessions
  /\ IdsGiven
  /\ StoragesReached
  /\ AskedReady
  /\ ListReached
  /\ RollingsReached

\* The inductive invariant.
IInv == TypeOK /\ Ends /\ View /\ ServerSide

-----------------------------------------------------------------------------
(* Steps of the server, and what they leave of the invariant.              *)

\* One message of some kinds is sent to the socket in use, or none.
Sends(T) ==
  \/ down'[socket] = down[socket]
  \/ \E x \in Downward : x.type \in T /\ down'[socket] = Put(down[socket], x)

\* The kinds of messages: packets, and those that matter to no session.
Binary == {"snapshot", "delta"}
Plain == {"serverPong", "serverPing", "settingsLoaded", "storageEntitiesLoaded"}

\* What is known of the types in use.
LEMMA InUse ==
  ASSUME TypeOK, Ends, socket \in Sockets
  PROVE  /\ down[socket] \in Seq(Downward)
         /\ up[socket] \in Seq(ClientMessage)
         /\ Open => Known
         /\ Known => IsClient(clients[socket])
         /\ clientEnd[socket] # "open" => down[socket] = <<>>
         /\ ~ Open => up[socket] = <<>>
<1>1. UpTyped /\ DownTyped /\ ClientsTyped
  BY NetworkTyped, ServerTyped DEF TypeOK
<1>2. SocketOK(socket) /\ PendingOfConnected
  BY DEF Ends
<1> QED
  BY <1>1, <1>2 DEF UpTyped, DownTyped, ClientsTyped, SocketOK,
     PendingOfConnected, Open, Known

\* A step of the server that sends no packet leaves the count of the session.
LEMMA SessionsStay ==
  ASSUME TypeOK, Ends, socket \in Sockets, Sessions, UNCHANGED clientVars,
         \/ down'[socket] = down[socket]
         \/ \E x \in Downward : x.type \notin Binary
                                  /\ down'[socket] = Put(down[socket], x),
         Open' => Open,
         Open' => Known',
         Known' =>
           /\ Known
           /\ clients'[socket].nextServerId = clients[socket].nextServerId
           /\ \A m \in Markets :
                clients'[socket].statistics[m] \in {clients[socket].statistics[m], NoId},
         EventIds(socket)' \subseteq EventIds(socket),
         NothingAsked(up[socket], clients[socket].isReady) =>
           NothingAsked(up'[socket], clients'[socket].isReady)
  PROVE  Sessions'
<1> DEFINE q == down[socket]
           r == down'[socket]
<1>1. /\ socket' = socket /\ isReady' = isReady /\ lastServerId' = lastServerId
      /\ entities' = entities /\ sync' = sync /\ shown' = shown
  BY DEF clientVars, transportVars, sessionVars, viewVars
<1>2. q \in Seq(Downward)
  BY InUse
<1>3. /\ (\A x \in ToSet(q) : x \notin BinaryMessage) =>
           (\A x \in ToSet(r) : x \notin BinaryMessage)
      /\ Counting(q, lastServerId) => Counting(r, lastServerId)
      /\ NextIs(q, lastServerId, clients[socket].nextServerId) =>
           NextIs(r, lastServerId, clients[socket].nextServerId)
  <2>1. CASE r = q
    BY <2>1
  <2>2. CASE r # q
    <3>1. PICK x \in Downward : x.type \notin Binary /\ r = Put(q, x)
      BY <2>2
    <3>2. x \notin BinaryMessage
      BY <3>1, MessageKinds DEF Binary
    <3>3. \A y : y \in ToSet(r) <=> y \in ToSet(q) \/ y = x
      BY <1>2, <3>1, AmongPut
    <3> QED
      BY <1>2, <3>1, <3>2, <3>3, CountingOther
  <2> QED
    BY <2>1, <2>2
<1> HIDE DEF q, r
<1>4. Unasked => Unasked'
  BY <1>1, <1>3 DEF Unasked, q, r
<1>5. Counted => Counted'
  BY <1>1, <1>3 DEF Counted, q, r
<1>6. Registered' <=> Registered
  BY <1>1 DEF Registered
<1> QED
  BY <1>1, <1>4, <1>5, <1>6 DEF Sessions

\* A step of the server uses client ids that this page gave out.
LEMMA IdsStay ==
  ASSUME IdsGiven, UNCHANGED clientVars,
         socket \in Sockets =>
           /\ \A x \in ToSet(down'[socket]) : x \in BinaryMessage =>
                x \in ToSet(down[socket]) \/ x.clientId < nextClientId
           /\ \A x \in ToSet(up'[socket]) : x \in ToSet(up[socket])
           /\ \A id \in EventIds(socket)' :
                id \in EventIds(socket) \/ id < nextClientId
           /\ Known' =>
                \A m \in Markets :
                  /\ clients'[socket].statistics[m] < nextClientId
                  /\ clients'[socket].rolling[m] < nextClientId
  PROVE  IdsGiven'
<1>1. /\ socket' = socket /\ nextClientId' = nextClientId /\ pending' = pending
  BY DEF clientVars, transportVars, pageVars, controllerVars
<1> QED
  BY <1>1 DEF IdsGiven

\* A step of the server that does not concern the storage of a market leaves
\* what reaches it.
LEMMA StorageStays ==
  ASSUME TypeOK, Ends, socket \in Sockets, NEW m, StorageReached(m),
         UNCHANGED clientVars,
         \/ down'[socket] = down[socket]
         \/ \E x \in Downward : x \notin BinariesOf(m)
                                  /\ down'[socket] = Put(down[socket], x),
         Open' => Open,
         Open' /\ clients'[socket].statistics[m] # NoId =>
           /\ clients'[socket].statistics[m] = clients[socket].statistics[m]
           /\ clients[socket].isReady = TRUE => clients'[socket].isReady = TRUE
           /\ version'[m] = version[m]
  PROVE  StorageReached(m)'
<1> DEFINE q == down[socket]
           r == down'[socket]
           M == BinariesOf(m)
<1>1. /\ socket' = socket /\ storage' = storage /\ pending' = pending
  BY DEF clientVars, transportVars, controllerVars
<1>2. q \in Seq(Downward)
  BY InUse
<1>3. /\ DeltasFit(q, M, pending[m], storage[m]) =>
           DeltasFit(r, M, pending[m], storage[m])
      /\ Reaches(q, M, clients[socket].statistics[m], version[m], pending[m],
                 storage[m]) =>
           Reaches(r, M, clients[socket].statistics[m], version[m], pending[m],
                   storage[m])
  <2>1. CASE r = q
    BY <2>1
  <2>2. CASE r # q
    <3>1. PICK x \in Downward : x \notin M /\ r = Put(q, x)
      BY <2>2
    <3> HIDE DEF q, r, M
    <3> QED
      BY <1>2, <3>1, DeltasOther, ReachesOther
  <2> QED
    BY <2>1, <2>2
<1> HIDE DEF q, r, M
<1> QED
  BY <1>1, <1>3 DEF StorageReached, q, r, M

\* A step of the server that does not concern the rolling statistics of a
\* market leaves what reaches them.
LEMMA RollingStays ==
  ASSUME TypeOK, Ends, socket \in Sockets, NEW m, RollingReached(m),
         UNCHANGED clientVars, rolled'[m] = rolled[m],
         \/ down'[socket] = down[socket]
         \/ \E x \in Downward : x \notin RollingsOf(m)
                                  /\ down'[socket] = Put(down[socket], x),
         Open' => Open,
         Open' /\ clients'[socket].rolling[m] # NoId =>
           /\ clients'[socket].rolling[m] = clients[socket].rolling[m]
           /\ clients[socket].isReady = TRUE => clients'[socket].isReady = TRUE
  PROVE  RollingReached(m)'
<1> DEFINE q == down[socket]
           r == down'[socket]
           M == RollingsOf(m)
<1>1. /\ socket' = socket /\ rollingShown' = rollingShown /\ pending' = pending
  BY DEF clientVars, transportVars, controllerVars
<1>2. q \in Seq(Downward)
  BY InUse
<1>3. /\ \A x \in ToSet(r) : x \in M => x \in ToSet(q)
      /\ Reaches(q, M, clients[socket].rolling[m], rolled[m], pending[m],
                 rollingShown[m]) =>
           Reaches(r, M, clients[socket].rolling[m], rolled[m], pending[m],
                   rollingShown[m])
  <2>1. CASE r = q
    BY <2>1
  <2>2. CASE r # q
    <3>1. PICK x \in Downward : x \notin M /\ r = Put(q, x)
      BY <2>2
    <3> HIDE DEF q, r, M
    <3>2. \A y : y \in ToSet(r) <=> y \in ToSet(q) \/ y = x
      BY <1>2, <3>1, AmongPut
    <3> QED
      BY <1>2, <3>1, <3>2, ReachesOther
  <2> QED
    BY <2>1, <2>2
<1> HIDE DEF q, r, M
<1> QED
  BY <1>1, <1>3 DEF RollingReached, q, r, M

\* A step of the server that does not concern the market list leaves what
\* reaches the browser of it.
LEMMA ListStays ==
  ASSUME TypeOK, Ends, socket \in Sockets, ListReached,
         UNCHANGED clientVars, markets' = markets,
         \/ down'[socket] = down[socket]
         \/ \E x \in Downward : x.type # "marketsUpdated"
                                  /\ down'[socket] = Put(down[socket], x),
         Open' => Open,
         Open' => /\ clients[socket].isReady = TRUE => clients'[socket].isReady = TRUE
                  /\ clients'[socket].marketInfo = clients[socket].marketInfo
                  /\ ListAsked(up[socket]) => ListAsked(up'[socket])
  PROVE  ListReached'
<1> DEFINE q == down[socket]
           r == down'[socket]
<1>1. /\ socket' = socket /\ marketList' = marketList /\ isReady' = isReady
  BY DEF clientVars, transportVars, sessionVars
<1>2. q \in Seq(Downward)
  BY InUse
<1>3. ListReaches(q, marketList, markets) => ListReaches(r, marketList, markets)
  <2>1. CASE r = q
    BY <2>1
  <2>2. CASE r # q
    <3>1. PICK x \in Downward : x.type # "marketsUpdated" /\ r = Put(q, x)
      BY <2>2
    <3>2. x \notin MarketLists
      BY <3>1, MessageKinds
    <3> HIDE DEF q, r
    <3> QED
      BY <1>2, <3>1, <3>2, ListOther
  <2> QED
    BY <2>1, <2>2
<1> HIDE DEF q, r
<1> QED
  BY <1>1, <1>3 DEF ListReached, q, r

\* A client may have lost subscriptions.
Fades(c, d) ==
  /\ d.isReady = c.isReady
  /\ d.marketInfo = c.marketInfo
  /\ d.nextServerId = c.nextServerId
  /\ \A m \in Markets : /\ d.statistics[m] \in {c.statistics[m], NoId}
                        /\ d.rolling[m] \in {c.rolling[m], NoId}

\* A step of the server takes nothing of importance from the socket in use and
\* adds nothing to it.
SendsPlain ==
  \/ down'[socket] = down[socket]
  \/ \E x \in Downward : /\ x.type \in Plain
                         /\ isReady = TRUE \/ x.type = "serverPing"
                         /\ down'[socket] = Put(down[socket], x)

TakesPlain ==
  \/ up'[socket] = up[socket]
  \/ up'[socket] = <<>> /\ ~ Open'
  \/ /\ up[socket] # <<>>
     /\ Head(up[socket]).type \notin {"webSocketReady", "setMarketInfo"}
     /\ up'[socket] = Rest(up[socket])

KeepsClient ==
  /\ Open' => Open
  /\ Known' => Known /\ Fades(clients[socket], clients'[socket])
  /\ EventIds(socket)' \subseteq EventIds(socket)
  /\ socket \in loading' => socket \in loading \/ isReady = TRUE

\* The step does not concern the session of the socket in use.
Unnoticed ==
  /\ UNCHANGED <<version, rolled, markets>>
  /\ socket \in Sockets => SendsPlain /\ TakesPlain /\ KeepsClient

\* What was asked for is still asked for after a message without importance.
LEMMA TakesPlainKeeps ==
  ASSUME TypeOK, Ends, socket \in Sockets, TakesPlain
  PROVE  /\ \A ready : NothingAsked(up[socket], ready) => NothingAsked(up'[socket], ready)
         /\ Open' => \A ready : ReadyFirst(up[socket], ready) => ReadyFirst(up'[socket], ready)
         /\ Open' => (ListAsked(up[socket]) => ListAsked(up'[socket]))
         /\ \A x \in ToSet(up'[socket]) : x \in ToSet(up[socket])
<1> DEFINE u == up[socket]
           v == up'[socket]
<1>1. u \in Seq(ClientMessage)
  BY InUse
<1>2. CASE v = u
  BY <1>2
<1>3. CASE v = <<>> /\ ~ Open'
  BY <1>3, NothingAskedNone, AmongNone
<1>4. CASE /\ u # <<>> /\ Head(u).type \notin {"webSocketReady", "setMarketInfo"}
           /\ v = Rest(u)
  <2>1. ASSUME NEW ready, NothingAsked(u, ready) PROVE NothingAsked(v, ready)
    BY <1>1, <1>4, <2>1, NothingAskedTaken
  <2>2. ASSUME NEW ready, ReadyFirst(u, ready) PROVE ReadyFirst(v, ready)
    BY <1>1, <1>4, <2>2, ReadyFirstTaken
  <2>3. ListAsked(u) => ListAsked(v)
    BY <1>1, <1>4, ListAskedTaken
  <2>4. \A x \in ToSet(v) : x \in ToSet(u)
    BY <1>1, <1>4, AmongRest
  <2> QED
    BY <2>1, <2>2, <2>3, <2>4
<1> QED
  BY <1>2, <1>3, <1>4 DEF TakesPlain

\* A message without importance is none of those the invariant speaks of.
LEMMA SendsPlainKeeps ==
  ASSUME TypeOK, Ends, socket \in Sockets, SendsPlain, NEW m
  PROVE  /\ \A x \in ToSet(down'[socket]) :
              x \in ToSet(down[socket]) \/
                (x \in Downward /\ x.type \in Plain
                   /\ (isReady = TRUE \/ x.type = "serverPing"))
         /\ \/ down'[socket] = down[socket]
            \/ \E x \in Downward : /\ down'[socket] = Put(down[socket], x)
                                   /\ x.type \notin Binary
                                   /\ x.type # "marketsUpdated"
                                   /\ x \notin BinariesOf(m)
                                   /\ x \notin RollingsOf(m)
                                   /\ x \notin BinaryMessage
<1>1. CASE down'[socket] = down[socket]
  BY <1>1
<1>2. CASE down'[socket] # down[socket]
  <2>1. PICK x \in Downward : /\ x.type \in Plain
                              /\ isReady = TRUE \/ x.type = "serverPing"
                              /\ down'[socket] = Put(down[socket], x)
    BY <1>2 DEF SendsPlain
  <2>2. \A y : y \in ToSet(Put(down[socket], x)) <=> y \in ToSet(down[socket]) \/ y = x
    BY <2>1, InUse, AmongPut
  <2>3. x.type \notin Binary /\ x.type # "marketsUpdated"
          /\ x.type # "marketRollingUpdated"
    BY <2>1 DEF Plain, Binary
  <2>4. x \notin BinariesOf(m) /\ x \notin RollingsOf(m) /\ x \notin BinaryMessage
    BY <2>3, RollingKinds, MessageKinds DEF Binary
  <2> QED
    BY <2>1, <2>2, <2>3, <2>4
<1> QED
  BY <1>1, <1>2

\* A step without importance for the socket in use leaves the invariant.
LEMMA ServerSideStays ==
  ASSUME TypeOK, TypeOK', Ends, Ends', ServerSide, UNCHANGED clientVars, Unnoticed
  PROVE  ServerSide'
<1>1. /\ socket' = socket /\ isReady' = isReady /\ rollingShown' = rollingShown
      /\ nextClientId' = nextClientId
      /\ rolled' = rolled /\ version' = version /\ markets' = markets
  BY DEF clientVars, transportVars, controllerVars, pageVars, Unnoticed
<1>2. CASE socket \notin Sockets
  <2>1. isReady = FALSE
    BY <1>2 DEF Ends, TypeOK, TypeOKClient
  <2> QED
    BY <1>1, <1>2, <2>1
       DEF ServerSide, NotGreeted, Sessions, IdsGiven, StoragesReached, AskedReady,
           ListReached, RollingsReached, clientVars, sessionVars, controllerVars
<1>3. CASE socket \in Sockets
  <2>1. SendsPlain /\ TakesPlain /\ KeepsClient
    BY <1>3 DEF Unnoticed
  <2>2. /\ \A ready : NothingAsked(up[socket], ready) => NothingAsked(up'[socket], ready)
        /\ Open' => \A ready : ReadyFirst(up[socket], ready) => ReadyFirst(up'[socket], ready)
        /\ Open' => (ListAsked(up[socket]) => ListAsked(up'[socket]))
        /\ \A x \in ToSet(up'[socket]) : x \in ToSet(up[socket])
    BY <1>3, <2>1, TakesPlainKeeps
  <2>3. Open' => Known'
    BY <1>1, <1>3 DEF Ends, PendingOfConnected, Open, Known
  <2>4. /\ Open' => Open
        /\ Known' => Known /\ Fades(clients[socket], clients'[socket])
        /\ EventIds(socket)' \subseteq EventIds(socket)
        /\ socket \in loading' => socket \in loading \/ isReady = TRUE
    BY <2>1 DEF KeepsClient
  <2>5. IsClient(clients[socket]) \/ ~ Known
    BY <1>3, InUse
  <2>6. NotGreeted'
    <3>1. ASSUME isReady = FALSE PROVE NotGreeted'
      <4>1. \A x \in ToSet(down'[socket]) : x.type \in {"serverHello", "serverPing"}
        <5>1. \A x \in ToSet(down'[socket]) :
                x \in ToSet(down[socket]) \/ x.type = "serverPing"
          BY <1>3, <2>1, <3>1, SendsPlainKeeps
        <5> QED
          BY <1>3, <3>1, <5>1 DEF ServerSide, NotGreeted
      <4>2. Known' => Fresh(clients'[socket])
        BY <1>3, <2>4, <3>1 DEF ServerSide, NotGreeted, Fresh, Fades
      <4> QED
        BY <1>1, <1>3, <2>2, <2>4, <3>1, <4>1, <4>2 DEF ServerSide, NotGreeted,
             Known
    <3>2. ASSUME isReady # FALSE PROVE NotGreeted'
      BY <1>1, <3>2 DEF NotGreeted
    <3> QED
      BY <3>1, <3>2
  <2>7. Sessions'
    <3>1. /\ \/ down'[socket] = down[socket]
             \/ \E x \in Downward : x.type \notin Binary
                                      /\ down'[socket] = Put(down[socket], x)
      BY <1>3, <2>1, SendsPlainKeeps
    <3>2. Known' =>
           /\ Known
           /\ clients'[socket].nextServerId = clients[socket].nextServerId
           /\ \A m \in Markets :
                clients'[socket].statistics[m] \in {clients[socket].statistics[m], NoId}
      BY <2>4 DEF Fades
    <3>3. NothingAsked(up[socket], clients[socket].isReady) =>
            NothingAsked(up'[socket], clients'[socket].isReady)
      <4>1. CASE Open'
        BY <2>2, <2>3, <2>4, <4>1 DEF Fades
      <4>2. CASE ~ Open'
        <5>1. up'[socket] = <<>>
          BY <1>1, <1>3, <4>2 DEF Ends, SocketOK, Open
        <5> QED
          BY <5>1, NothingAskedNone
      <4> QED
        BY <4>1, <4>2
    <3> QED
      BY <1>3, <2>3, <2>4, <3>1, <3>2, <3>3, SessionsStay DEF ServerSide
  <2>8. IdsGiven'
    <3>1. \A x \in ToSet(down'[socket]) : x \in BinaryMessage =>
            x \in ToSet(down[socket])
      <4>1. \A x \in BinaryMessage : x.type \notin Plain
        BY MessageKinds DEF Plain
      <4> QED
        BY <1>3, <2>1, <4>1, SendsPlainKeeps
    <3>2. Known' =>
            \A m \in Markets : /\ clients'[socket].statistics[m] < nextClientId
                               /\ clients'[socket].rolling[m] < nextClientId
      <4>1. NoId < nextClientId
        BY DEF TypeOK, TypeOKClient, NoId, ClientIds
      <4> QED
        BY <1>3, <2>4, <4>1 DEF Fades, ServerSide, IdsGiven
    <3> QED
      BY <2>2, <2>4, <3>1, <3>2, IdsStay DEF ServerSide
  <2>9. StoragesReached'
    <3>1. ASSUME NEW m \in Markets PROVE StorageReached(m)'
      <4>1. \/ down'[socket] = down[socket]
            \/ \E x \in Downward : x \notin BinariesOf(m)
                                     /\ down'[socket] = Put(down[socket], x)
        BY <1>3, <2>1, SendsPlainKeeps
      <4>2. Open' /\ clients'[socket].statistics[m] # NoId =>
           /\ clients'[socket].statistics[m] = clients[socket].statistics[m]
           /\ clients[socket].isReady = TRUE => clients'[socket].isReady = TRUE
           /\ version'[m] = version[m]
        BY <1>1, <2>3, <2>4 DEF Fades
      <4>3. StorageReached(m)
        BY <1>3 DEF ServerSide, StoragesReached
      <4> QED
        BY <1>3, <2>4, <4>1, <4>2, <4>3, StorageStays
    <3> QED
      BY <1>1, <3>1 DEF StoragesReached
  <2>10. AskedReady'
    BY <1>1, <1>3, <2>2, <2>3, <2>4 DEF ServerSide, AskedReady, Fades
  <2>11. ListReached'
    <3>1. \/ down'[socket] = down[socket]
          \/ \E x \in Downward : x.type # "marketsUpdated"
                                   /\ down'[socket] = Put(down[socket], x)
      BY <1>3, <2>1, SendsPlainKeeps
    <3>2. Open' => /\ clients[socket].isReady = TRUE => clients'[socket].isReady = TRUE
                   /\ clients'[socket].marketInfo = clients[socket].marketInfo
                   /\ ListAsked(up[socket]) => ListAsked(up'[socket])
      BY <2>2, <2>3, <2>4 DEF Fades
    <3> QED
      BY <1>1, <1>3, <2>4, <3>1, <3>2, ListStays DEF ServerSide
  <2>12. RollingsReached'
    <3>1. ASSUME NEW m \in Markets PROVE RollingReached(m)'
      <4>1. \/ down'[socket] = down[socket]
            \/ \E x \in Downward : x \notin RollingsOf(m)
                                     /\ down'[socket] = Put(down[socket], x)
        BY <1>3, <2>1, SendsPlainKeeps
      <4>2. Open' /\ clients'[socket].rolling[m] # NoId =>
           /\ clients'[socket].rolling[m] = clients[socket].rolling[m]
           /\ clients[socket].isReady = TRUE => clients'[socket].isReady = TRUE
        BY <2>3, <2>4 DEF Fades
      <4>3. RollingReached(m)
        BY <1>3 DEF ServerSide, RollingsReached
      <4> QED
        BY <1>1, <1>3, <2>4, <4>1, <4>2, <4>3, RollingStays
    <3> QED
      BY <1>1, <3>1 DEF RollingsReached, ServerSide
  <2> QED
    BY <2>6, <2>7, <2>8, <2>9, <2>10, <2>11, <2>12 DEF ServerSide
<1> QED
  BY <1>2, <1>3

-----------------------------------------------------------------------------
(* What the steps of the server do to the socket in use.                   *)

\* A message is put behind those of its socket, or lost.
LEMMA SentTo ==
  ASSUME TypeOK, NEW s, NEW x, NEW t \in Sockets
  PROVE  /\ \/ DownAfter(s, <<x>>)[t] = down[t]
            \/ t = s /\ DownAfter(s, <<x>>)[t] = Put(down[t], x)
         /\ clientEnd[t] = "open" /\ serverEnd[t] = "open" /\ t = s =>
              DownAfter(s, <<x>>)[t] = Put(down[t], x)
         /\ clientEnd[t] # "open" => DownAfter(s, <<x>>)[t] = down[t]
<1>1. DownTyped
  BY NetworkTyped DEF TypeOK
<1> QED
  BY <1>1 DEF DownAfter, Carries, Put, DownTyped

\* A message taken is the first of its socket.
LEMMA TakenFrom ==
  ASSUME TypeOK, Ends, NEW s \in Sockets, NEW type, ServerReceives(s, type), Take(s),
         socket \in Sockets
  PROVE  /\ s # socket => up'[socket] = up[socket]
         /\ s = socket => /\ up[socket] # <<>>
                          /\ Head(up[socket]).type = type
                          /\ Head(up[socket]) \in ToSet(up[socket])
                          /\ Head(up[socket]) \in ClientMessage
                          /\ up'[socket] = Rest(up[socket])
                          /\ Open /\ Known
<1>1. UpTyped /\ up[socket] \in Seq(ClientMessage)
  BY NetworkTyped, InUse DEF TypeOK
<1>2. CASE s = socket
  <2>1. up[socket] # <<>> /\ Head(up[socket]).type = type /\ Open
    BY <1>2 DEF ServerReceives, Open
  <2>2. up'[socket] = Rest(up[socket])
    BY <1>1, <1>2 DEF Take, Rest, UpTyped
  <2>3. Head(up[socket]) \in ToSet(up[socket]) /\ Head(up[socket]) \in ClientMessage
    BY <1>1, <2>1, AmongRest
  <2> QED
    BY <1>2, <2>1, <2>2, <2>3, InUse
<1>3. CASE s # socket
  BY <1>1, <1>3 DEF Take, UpTyped
<1> QED
  BY <1>2, <1>3

\* What a browser may have said before the hello.
Ungreeted == {"requestFullSync", "removeRolling", "removeStatistics", "clientPong"}

\* The pending full syncs of the socket in use are no others than before.
LEMMA EventsStay ==
  ASSUME socket' = socket,
         \A e \in DOMAIN serverEvents' :
           \/ serverEvents'[e].socket # socket
           \/ /\ e \in DOMAIN serverEvents
              /\ serverEvents'[e].socket = serverEvents[e].socket
              /\ serverEvents'[e].clientId = serverEvents[e].clientId
  PROVE  EventIds(socket)' \subseteq EventIds(socket)
BY DEF EventIds, EventsOf

\* A message of the browser is answered at once, or not at all.
Replies(s, type) ==
  \/ down' = down
  \/ \E x \in Plain : /\ down' = DownAfter(s, << Signal(x) >>)
                      /\ type \notin Ungreeted

\* A message that matters to no session is received.
LEMMA PlainTaken ==
  ASSUME TypeOK, Ends, ServerSide, NEW s \in Sockets, NEW type, UNCHANGED clientVars,
         ServerReceives(s, type), Take(s),
         type \notin {"webSocketReady", "setMarketInfo"},
         Replies(s, type),
         UNCHANGED <<serverEnd, serverEvents, version, rolled, markets>>,
         loading' = loading \/ (loading' = loading \union {s} /\ type \notin Ungreeted),
         Known' => Known /\ Fades(clients[socket], clients'[socket])
  PROVE  Unnoticed
<1> SUFFICES ASSUME socket \in Sockets
             PROVE  SendsPlain /\ TakesPlain /\ KeepsClient
  BY DEF Unnoticed
<1>1. socket' = socket
  BY DEF clientVars, transportVars
<1>2. /\ s # socket => up'[socket] = up[socket]
      /\ s = socket => /\ up[socket] # <<>>
                       /\ Head(up[socket]).type = type
                       /\ Head(up[socket]) \in ToSet(up[socket])
                       /\ up'[socket] = Rest(up[socket])
  BY TakenFrom
<1>3. s = socket /\ type \notin Ungreeted => isReady = TRUE
  <2>1. isReady \in BOOLEAN
    BY DEF TypeOK, TypeOKClient
  <2> QED
    BY <1>2, <2>1 DEF ServerSide, NotGreeted, Ungreeted
<1>4. TakesPlain
  BY <1>2 DEF TakesPlain
<1>5. SendsPlain
  <2>1. CASE down' = down
    BY <2>1 DEF SendsPlain
  <2>2. CASE \E x \in Plain : /\ down' = DownAfter(s, << Signal(x) >>)
                              /\ type \notin Ungreeted
    <3>1. PICK x \in Plain : down' = DownAfter(s, << Signal(x) >>)
                               /\ type \notin Ungreeted
      BY <2>2
    <3>2. Signal(x) \in Downward /\ Signal(x).type = x
      BY MessagesTyped DEF Plain, Signal
    <3>3. \/ down'[socket] = down[socket]
          \/ socket = s /\ down'[socket] = Put(down[socket], Signal(x))
      BY <3>1, SentTo
    <3> QED
      BY <1>3, <3>1, <3>2, <3>3 DEF SendsPlain
  <2> QED
    BY <2>1, <2>2 DEF Replies
<1>6. EventIds(socket)' \subseteq EventIds(socket)
  BY <1>1, EventsStay
<1>7. socket \in loading' => socket \in loading \/ isReady = TRUE
  BY <1>3
<1>8. KeepsClient
  BY <1>1, <1>6, <1>7 DEF KeepsClient, Open
<1> QED
  BY <1>4, <1>5, <1>8

\* A client that is left alone has lost nothing.
LEMMA FadesNot ==
  ASSUME NEW c PROVE Fades(c, c)
BY DEF Fades

\* handleClientPing does not concern the session of the browser's socket.
LEMMA HandleClientPingUnnoticed ==
  ASSUME NEW s \in Sockets, TypeOK, Ends, ServerSide, HandleClientPing(s),
         UNCHANGED clientVars
  PROVE  Unnoticed
<1>1. socket' = socket /\ UNCHANGED serverVars
  BY DEF HandleClientPing, clientVars, transportVars
<1>2. Known' => Known /\ Fades(clients[socket], clients'[socket])
  BY <1>1, FadesNot DEF Known, serverVars
<1>3. /\ ServerReceives(s, "clientPing") /\ Take(s) /\ Replies(s, "clientPing")
      /\ UNCHANGED <<serverEnd, serverEvents, version, rolled, markets>>
  BY DEF HandleClientPing, Replies, Plain, Ungreeted, serverVars, serviceVars
<1>4. loading' = loading \/ (loading' = loading \union {s} /\ "clientPing" \notin Ungreeted)
  BY DEF HandleClientPing, Ungreeted, serverVars, serviceVars
<1> QED
  BY <1>1, <1>2, <1>3, <1>4, PlainTaken

\* handleClientPong does not concern the session of the browser's socket.
LEMMA HandleClientPongUnnoticed ==
  ASSUME NEW s \in Sockets, TypeOK, Ends, ServerSide, HandleClientPong(s),
         UNCHANGED clientVars
  PROVE  Unnoticed
<1>1. socket' = socket /\ clients' = clients
  BY DEF HandleClientPong, clientVars, transportVars
<1>2. Known' => Known /\ Fades(clients[socket], clients'[socket])
  BY <1>1, FadesNot DEF Known
<1>3. /\ ServerReceives(s, "clientPong") /\ Take(s) /\ Replies(s, "clientPong")
      /\ UNCHANGED <<serverEnd, serverEvents, version, rolled, markets>>
  BY DEF HandleClientPong, Replies, Plain, Ungreeted, serverVars, serviceVars
<1>4. loading' = loading \/ (loading' = loading \union {s} /\ "clientPong" \notin Ungreeted)
  BY DEF HandleClientPong, Ungreeted, serverVars, serviceVars
<1> QED
  BY <1>1, <1>2, <1>3, <1>4, PlainTaken

\* handleRequestSettings does not concern the session of the browser's
\* socket.
LEMMA HandleRequestSettingsUnnoticed ==
  ASSUME NEW s \in Sockets, TypeOK, Ends, ServerSide, HandleRequestSettings(s),
         UNCHANGED clientVars
  PROVE  Unnoticed
<1>1. socket' = socket /\ clients' = clients
  BY DEF HandleRequestSettings, clientVars, transportVars
<1>2. Known' => Known /\ Fades(clients[socket], clients'[socket])
  BY <1>1, FadesNot DEF Known
<1>3. /\ ServerReceives(s, "requestSettings") /\ Take(s) /\ Replies(s, "requestSettings")
      /\ UNCHANGED <<serverEnd, serverEvents, version, rolled, markets>>
  BY DEF HandleRequestSettings, Replies, Plain, Ungreeted, serverVars,
       serviceVars
<1>4. loading' = loading \/ (loading' = loading \union {s} /\ "requestSettings" \notin Ungreeted)
  BY DEF HandleRequestSettings, Ungreeted, serverVars, serviceVars
<1> QED
  BY <1>1, <1>2, <1>3, <1>4, PlainTaken

\* handleRequestStorageEntities does not concern the session of the
\* browser's socket.
LEMMA HandleRequestStorageEntitiesUnnoticed ==
  ASSUME NEW s \in Sockets, TypeOK, Ends, ServerSide,
         HandleRequestStorageEntities(s), UNCHANGED clientVars
  PROVE  Unnoticed
<1>1. socket' = socket /\ UNCHANGED serverVars
  BY DEF HandleRequestStorageEntities, clientVars, transportVars
<1>2. Known' => Known /\ Fades(clients[socket], clients'[socket])
  BY <1>1, FadesNot DEF Known, serverVars
<1>3. /\ ServerReceives(s, "requestStorageEntities") /\ Take(s) /\ Replies(s, "requestStorageEntities")
      /\ UNCHANGED <<serverEnd, serverEvents, version, rolled, markets>>
  BY DEF HandleRequestStorageEntities, Replies, Plain, Ungreeted, serverVars,
       serviceVars
<1>4. loading' = loading \/ (loading' = loading \union {s} /\ "requestStorageEntities" \notin Ungreeted)
  BY DEF HandleRequestStorageEntities, Ungreeted, serverVars, serviceVars
<1> QED
  BY <1>1, <1>2, <1>3, <1>4, PlainTaken

\* handleChangeSubscription does not concern the session of the browser's
\* socket.
LEMMA HandleRemoveStatisticsUnnoticed ==
  ASSUME NEW s \in Sockets, TypeOK, Ends, ServerSide, HandleRemoveStatistics(s),
         UNCHANGED clientVars
  PROVE  Unnoticed
<1> DEFINE m == Head(up[s]).market
           c == [clients[s] EXCEPT !.statistics[m] = NoId]
<1>1. socket' = socket /\ clients' = [clients EXCEPT ![s] = c]
  BY DEF HandleRemoveStatistics, clientVars, transportVars
<1>2. ClientsTyped
  BY ServerTyped DEF TypeOK
<1>3. Known' => Known /\ Fades(clients[socket], clients'[socket])
  <2> SUFFICES ASSUME Known' PROVE Known /\ Fades(clients[socket], clients'[socket])
    OBVIOUS
  <2>1. socket \in DOMAIN clients
    BY <1>1 DEF Known
  <2>2. CASE s = socket
    <3>1. IsClient(clients[s]) /\ clients'[s] = c
      BY <1>1, <1>2, <2>1, <2>2 DEF ClientsTyped
    <3>2. Fades(clients[s], c)
      BY <3>1 DEF Fades, IsClient
    <3> QED
      BY <2>1, <2>2, <3>1, <3>2 DEF Known
  <2>3. CASE s # socket
    BY <1>1, <2>1, <2>3, FadesNot DEF Known
  <2> QED
    BY <2>2, <2>3
<1>4. /\ ServerReceives(s, "removeStatistics") /\ Take(s) /\ Replies(s, "removeStatistics")
      /\ UNCHANGED <<serverEnd, serverEvents, version, rolled, markets>>
  BY DEF HandleRemoveStatistics, Replies, Plain, Ungreeted, serverVars,
       serviceVars
<1>5. loading' = loading \/ (loading' = loading \union {s} /\ "removeStatistics" \notin Ungreeted)
  BY DEF HandleRemoveStatistics, Ungreeted, serverVars, serviceVars
<1> QED
  BY <1>1, <1>3, <1>4, <1>5, PlainTaken

\* handleMarketRollingSubscriptionChanged, the removal, does not concern the
\* session of the browser's socket.
LEMMA HandleRemoveRollingUnnoticed ==
  ASSUME NEW s \in Sockets, TypeOK, Ends, ServerSide, HandleRemoveRolling(s),
         UNCHANGED clientVars
  PROVE  Unnoticed
<1> DEFINE m == Head(up[s]).market
           c == [clients[s] EXCEPT !.rolling[m] = NoId]
<1>1. socket' = socket /\ clients' = [clients EXCEPT ![s] = c]
  BY DEF HandleRemoveRolling, clientVars, transportVars
<1>2. ClientsTyped
  BY ServerTyped DEF TypeOK
<1>3. Known' => Known /\ Fades(clients[socket], clients'[socket])
  <2> SUFFICES ASSUME Known' PROVE Known /\ Fades(clients[socket], clients'[socket])
    OBVIOUS
  <2>1. socket \in DOMAIN clients
    BY <1>1 DEF Known
  <2>2. CASE s = socket
    <3>1. IsClient(clients[s]) /\ clients'[s] = c
      BY <1>1, <1>2, <2>1, <2>2 DEF ClientsTyped
    <3>2. Fades(clients[s], c)
      BY <3>1 DEF Fades, IsClient
    <3> QED
      BY <2>1, <2>2, <3>1, <3>2 DEF Known
  <2>3. CASE s # socket
    BY <1>1, <2>1, <2>3, FadesNot DEF Known
  <2> QED
    BY <2>2, <2>3
<1>4. /\ ServerReceives(s, "removeRolling") /\ Take(s) /\ Replies(s, "removeRolling")
      /\ UNCHANGED <<serverEnd, serverEvents, version, rolled, markets>>
  BY DEF HandleRemoveRolling, Replies, Plain, Ungreeted, serverVars, serviceVars
<1>5. loading' = loading \/ (loading' = loading \union {s} /\ "removeRolling" \notin Ungreeted)
  BY DEF HandleRemoveRolling, Ungreeted, serverVars, serviceVars
<1> QED
  BY <1>1, <1>3, <1>4, <1>5, PlainTaken

\* Nothing reaches the browser, and nothing of it is handled.
LEMMA NothingSaid ==
  ASSUME UNCHANGED clientVars, UNCHANGED <<version, rolled, markets>>,
         socket \in Sockets =>
           /\ up'[socket] = up[socket] \/ (up'[socket] = <<>> /\ ~ Open')
           /\ down'[socket] = down[socket]
           /\ Open' => Open
           /\ Known' => Known /\ Fades(clients[socket], clients'[socket])
           /\ EventIds(socket)' \subseteq EventIds(socket)
           /\ socket \in loading' => socket \in loading \/ isReady = TRUE
  PROVE  Unnoticed
BY DEF Unnoticed, SendsPlain, TakesPlain, KeepsClient

\* The answer to handleRequestSettings does not concern the session of the
\* browser's socket.
LEMMA SettingsLoadedUnnoticed ==
  ASSUME NEW s \in Sockets, TypeOK, Ends, ServerSide, SettingsLoaded(s),
         UNCHANGED clientVars
  PROVE  Unnoticed
<1> SUFFICES ASSUME socket \in Sockets
             PROVE  SendsPlain /\ TakesPlain /\ KeepsClient
  BY DEF Unnoticed, SettingsLoaded
<1>1. /\ socket' = socket /\ UNCHANGED <<up, serverEnd, clients, serverEvents>>
      /\ s \in loading /\ loading' = loading \ {s}
      /\ down' = DownAfter(s, << Signal("settingsLoaded") >>)
  BY DEF SettingsLoaded, clientVars, transportVars
<1>2. s = socket => isReady = TRUE
  <2>1. isReady \in BOOLEAN
    BY DEF TypeOK, TypeOKClient
  <2> QED
    BY <1>1, <2>1 DEF ServerSide, NotGreeted
<1>3. SendsPlain
  <2>1. /\ Signal("settingsLoaded") \in Downward
        /\ Signal("settingsLoaded").type = "settingsLoaded"
    BY MessagesTyped DEF Signal
  <2>2. \/ down'[socket] = down[socket]
        \/ socket = s /\ down'[socket] = Put(down[socket], Signal("settingsLoaded"))
    BY <1>1, SentTo
  <2> QED
    BY <1>2, <2>1, <2>2 DEF SendsPlain, Plain
<1>4. EventIds(socket)' \subseteq EventIds(socket)
  BY <1>1, EventsStay
<1>5. Known' => Known /\ Fades(clients[socket], clients'[socket])
  BY <1>1, FadesNot DEF Known
<1>6. KeepsClient
  BY <1>1, <1>4, <1>5 DEF KeepsClient, Open
<1> QED
  BY <1>1, <1>3, <1>6 DEF TakesPlain

\* The end of a connection the server notices does not concern the session
\* of the browser's socket.
LEMMA ServerNoticesCloseUnnoticed ==
  ASSUME NEW s \in Sockets, TypeOK, Ends, ServerNoticesClose(s),
         UNCHANGED clientVars
  PROVE  Unnoticed
<1>1. /\ socket' = socket
      /\ UNCHANGED <<down, clients, serverEvents, loading, version, rolled, markets>>
      /\ serverEnd' = [serverEnd EXCEPT ![s] = "closing"]
      /\ up' = [up EXCEPT ![s] = <<>>]
  BY DEF ServerNoticesClose, clientVars, transportVars, serverVars
<1>2. UpTyped /\ EndsTyped
  BY NetworkTyped DEF TypeOK
<1>3. ASSUME socket \in Sockets
      PROVE  /\ up'[socket] = up[socket] \/ (up'[socket] = <<>> /\ ~ Open')
             /\ Open' => Open
  BY <1>1, <1>2, <1>3 DEF UpTyped, EndsTyped, Open
<1>4. EventIds(socket)' \subseteq EventIds(socket)
  BY <1>1, EventsStay
<1>5. Known' => Known /\ Fades(clients[socket], clients'[socket])
  BY <1>1, FadesNot DEF Known
<1> QED
  BY <1>1, <1>3, <1>4, <1>5, NothingSaid

\* handleSocketClose does not concern the session of the browser's socket.
LEMMA ServerCloseEventUnnoticed ==
  ASSUME NEW s \in Sockets, TypeOK, Ends, ServerCloseEvent(s),
         UNCHANGED clientVars
  PROVE  Unnoticed
<1>1. /\ socket' = socket
      /\ UNCHANGED <<up, down, loading, version, rolled, markets>>
      /\ serverEnd' = [serverEnd EXCEPT ![s] = "gone"]
      /\ clients' = Without(clients, {s})
      /\ serverEvents' = Without(serverEvents, EventsOf(s))
  BY DEF ServerCloseEvent, clientVars, transportVars, serviceVars
<1>2. EndsTyped
  BY NetworkTyped DEF TypeOK
<1>3. socket \in Sockets => (Open' => Open)
  BY <1>1, <1>2 DEF EndsTyped, Open
<1>4. EventIds(socket)' \subseteq EventIds(socket)
  <2>1. \A e \in DOMAIN serverEvents' :
          e \in DOMAIN serverEvents /\ serverEvents'[e] = serverEvents[e]
    BY <1>1 DEF Without
  <2> QED
    BY <1>1, <2>1, EventsStay
<1>5. Known' => Known /\ Fades(clients[socket], clients'[socket])
  <2>1. ASSUME Known' PROVE Known /\ clients'[socket] = clients[socket]
    BY <1>1, <2>1 DEF Known, Without
  <2> QED
    BY <2>1, FadesNot
<1> QED
  BY <1>1, <1>3, <1>4, <1>5, NothingSaid

\* A restart of the server does not concern the session of the browser's
\* socket.
LEMMA ServerRestartsUnnoticed ==
  ASSUME TypeOK, Ends, ServerRestarts, UNCHANGED clientVars
  PROVE  Unnoticed
<1>1. /\ socket' = socket
      /\ UNCHANGED <<down, version, rolled, markets>>
      /\ serverEnd' = [s \in Sockets |->
                         IF serverEnd[s] = "none" THEN "none" ELSE "gone"]
      /\ up' = [s \in Sockets |-> <<>>]
      /\ clients' = << >> /\ serverEvents' = << >> /\ loading' = {}
  BY DEF ServerRestarts, clientVars, transportVars
<1>2. socket \in Sockets => up'[socket] = <<>> /\ ~ Open'
  BY <1>1 DEF Open
<1>3. EventIds(socket)' \subseteq EventIds(socket)
  BY <1>1, EventsStay
<1>4. ~ Known'
  BY <1>1 DEF Known
<1> QED
  BY <1>1, <1>2, <1>3, <1>4, NothingSaid

\* processServerPing does not concern the session of the browser's socket.
LEMMA ServerPingUnnoticed ==
  ASSUME TypeOK, Ends, ServerPing, UNCHANGED clientVars
  PROVE  Unnoticed
<1> DEFINE listed == {s \in DOMAIN clients : serverEnd[s] = "open"}
           late == {s \in listed : Late(s)}
           pinged == {s \in listed \ late :
                        \A i \in 1 .. Len(down[s]) : down[s][i].type # "serverPing"}
<1>1. /\ socket' = socket
      /\ UNCHANGED <<clients, serverEvents, loading, version, rolled, markets>>
      /\ serverEnd' = [s \in Sockets |->
                         IF s \in late THEN "closing" ELSE serverEnd[s]]
      /\ up' = [s \in Sockets |-> IF s \in late THEN <<>> ELSE up[s]]
      /\ down' = DownAfterAll([s \in pinged |-> << Signal("serverPing") >>])
  BY DEF ServerPing, clientVars, transportVars, serviceVars
<1> HIDE DEF listed, late, pinged
<1> SUFFICES ASSUME socket \in Sockets
             PROVE  SendsPlain /\ TakesPlain /\ KeepsClient
  BY <1>1 DEF Unnoticed
<1>2. /\ up'[socket] = up[socket] \/ (up'[socket] = <<>> /\ ~ Open')
      /\ Open' => Open
  BY <1>1 DEF Open
<1>3. SendsPlain
  <2>1. /\ Signal("serverPing") \in Downward
        /\ Signal("serverPing").type = "serverPing"
    BY MessagesTyped DEF Signal
  <2>2. \/ down'[socket] = down[socket]
        \/ down'[socket] = Put(down[socket], Signal("serverPing"))
    BY <1>1 DEF DownAfterAll, Put
  <2> QED
    BY <2>1, <2>2 DEF SendsPlain, Plain
<1>4. EventIds(socket)' \subseteq EventIds(socket)
  BY <1>1, EventsStay
<1>5. Known' => Known /\ Fades(clients[socket], clients'[socket])
  BY <1>1, FadesNot DEF Known
<1>6. KeepsClient
  BY <1>1, <1>2, <1>4, <1>5 DEF KeepsClient
<1> QED
  BY <1>2, <1>3, <1>6 DEF TakesPlain

\* The timer of a pending full sync does not concern the session of the
\* browser's socket.
LEMMA ExpireUnnoticed ==
  ASSUME NEW e \in DOMAIN serverEvents, TypeOK, Expire(e), UNCHANGED clientVars
  PROVE  Unnoticed
<1>1. /\ socket' = socket
      /\ UNCHANGED <<up, down, serverEnd, clients, loading, version, rolled, markets>>
      /\ serverEvents' = [serverEvents EXCEPT ![e].valid = FALSE]
  BY DEF Expire, clientVars, transportVars, serviceVars, networkVars
<1>2. \A d \in DOMAIN serverEvents' :
        /\ d \in DOMAIN serverEvents
        /\ serverEvents'[d].socket = serverEvents[d].socket
        /\ serverEvents'[d].clientId = serverEvents[d].clientId
  <2>1. EventsTyped
    BY ServerTyped DEF TypeOK
  <2> QED
    BY <1>1, <2>1 DEF EventsTyped
<1>3. EventIds(socket)' \subseteq EventIds(socket)
  BY <1>1, <1>2, EventsStay
<1>4. Known' => Known /\ Fades(clients[socket], clients'[socket])
  BY <1>1, FadesNot DEF Known
<1> QED
  BY <1>1, <1>3, <1>4, NothingSaid DEF Open

\* clearExpiredServerEvents does not concern the session of the browser's
\* socket.
LEMMA ClearExpiredUnnoticed ==
  ASSUME TypeOK, ClearExpiredServerEvents, UNCHANGED clientVars
  PROVE  Unnoticed
<1>1. /\ socket' = socket
      /\ UNCHANGED <<up, down, serverEnd, clients, loading, version, rolled, markets>>
      /\ \A d \in DOMAIN serverEvents' :
           d \in DOMAIN serverEvents /\ serverEvents'[d] = serverEvents[d]
  BY DEF ClearExpiredServerEvents, Without, clientVars, transportVars,
       serviceVars,
         networkVars
<1>2. EventIds(socket)' \subseteq EventIds(socket)
  BY <1>1, EventsStay
<1>3. Known' => Known /\ Fades(clients[socket], clients'[socket])
  BY <1>1, FadesNot DEF Known
<1> QED
  BY <1>1, <1>2, <1>3, NothingSaid DEF Open

\* A connection that dies does not concern the session of the browser's
\* socket.
LEMMA LinkDiesUnnoticed ==
  ASSUME NEW s \in Sockets, TypeOK, LinkDies(s), UNCHANGED <<serverVars, clientVars>>
  PROVE  Unnoticed
<1>1. /\ socket' = socket
      /\ UNCHANGED <<up, down, serverEnd, clients, loading, version, rolled, markets,
                     serverEvents>>
  BY DEF LinkDies, clientVars, transportVars, serverVars
<1>2. EventIds(socket)' \subseteq EventIds(socket)
  BY <1>1, EventsStay
<1>3. Known' => Known /\ Fades(clients[socket], clients'[socket])
  BY <1>1, FadesNot DEF Known
<1> QED
  BY <1>1, <1>2, <1>3, NothingSaid DEF Open

\* A connection that is not the browser's present one is accepted.
LEMMA AcceptElsewhere ==
  ASSUME NEW s \in Sockets, TypeOK, Ends, Accept(s), UNCHANGED clientVars, s # socket
  PROVE  Unnoticed
<1>1. /\ socket' = socket
      /\ UNCHANGED <<up, loading, version, rolled, markets, serverEvents>>
      /\ serverEnd' = [serverEnd EXCEPT ![s] = "open"]
      /\ clients' = With(clients, s, NewClient)
      /\ \E x : down' = [down EXCEPT ![s] = x]
  BY DEF Accept, clientVars, transportVars, serviceVars
<1>2. EndsTyped /\ DownTyped
  BY NetworkTyped DEF TypeOK
<1>3. socket \in Sockets => down'[socket] = down[socket] /\ (Open' => Open)
  BY <1>1, <1>2 DEF EndsTyped, DownTyped, Open
<1>4. EventIds(socket)' \subseteq EventIds(socket)
  BY <1>1, EventsStay
<1>5. Known' => Known /\ Fades(clients[socket], clients'[socket])
  <2>1. ASSUME Known' PROVE Known /\ clients'[socket] = clients[socket]
    BY <1>1, <2>1 DEF Known, With
  <2> QED
    BY <2>1, FadesNot
<1> QED
  BY <1>1, <1>3, <1>4, <1>5, NothingSaid

\* A message of an earlier socket.
LEMMA TakenElsewhere ==
  ASSUME NEW s \in Sockets, NEW type, TypeOK, Ends, UNCHANGED clientVars,
         ServerReceives(s, type), Take(s), s # socket,
         UNCHANGED <<serverEnd, serverEvents, loading, version, rolled, markets>>,
         NEW r, down' = down \/ down' = DownAfter(s, r),
         NEW c, clients' = [clients EXCEPT ![s] = c]
  PROVE  Unnoticed
<1>1. socket' = socket
  BY DEF clientVars, transportVars
<1>2. DownTyped
  BY NetworkTyped DEF TypeOK
<1>3. socket \in Sockets => up'[socket] = up[socket]
  BY TakenFrom
<1>4. socket \in Sockets => down'[socket] = down[socket]
  BY <1>2 DEF DownAfter, DownTyped
<1>5. EventIds(socket)' \subseteq EventIds(socket)
  BY <1>1, EventsStay
<1>6. Known' => Known /\ Fades(clients[socket], clients'[socket])
  BY <1>1, FadesNot DEF Known
<1> QED
  BY <1>1, <1>3, <1>4, <1>5, <1>6, NothingSaid DEF Open

-----------------------------------------------------------------------------
(* The steps that matter to the socket in use.                             *)

\* A client that has said something of importance has been greeted.
LEMMA Greeted ==
  ASSUME TypeOK, Ends, ServerSide, socket \in Sockets
  PROVE  /\ isReady \in BOOLEAN
         /\ Known /\ clients[socket].isReady = TRUE => isReady = TRUE
         /\ isReady = TRUE => clientEnd[socket] = "open"
         /\ \A x \in ToSet(up[socket]) : x.type \notin Ungreeted => isReady = TRUE
         /\ EventIds(socket) # {} => isReady = TRUE
<1>1. isReady \in BOOLEAN
  BY DEF TypeOK, TypeOKClient
<1>2. isReady = TRUE => clientEnd[socket] = "open"
  BY DEF Ends
<1>3. NotGreeted
  BY DEF ServerSide
<1> QED
  BY <1>1, <1>2, <1>3 DEF NotGreeted, Fresh, Ungreeted

\* wss.on('connection') keeps the invariant.
LEMMA AcceptKeeps ==
  ASSUME TypeOK, TypeOK', Ends, ServerSide, Accept(socket), UNCHANGED clientVars,
         socket \in Sockets
  PROVE  ServerSide'
<1> DEFINE hello == [type |-> "serverHello", release |-> release]
<1>1. /\ UNCHANGED <<socket, isReady, pending, storage, rollingShown, nextClientId,
                     lastServerId, entities>>
      /\ UNCHANGED <<loading, serverEvents, version, rolled, markets>>
      /\ clientEnd[socket] = "connecting" /\ serverEnd[socket] = "none"
      /\ up' = up
  BY DEF Accept, clientVars, transportVars, controllerVars, pageVars,
       sessionVars,
         serviceVars
<1>2. SocketOK(socket) /\ PendingOfConnected
  BY DEF Ends
<1>3. DownTyped /\ DownTyped'
  BY NetworkTyped DEF TypeOK, TypeOKNetwork, DownTyped, Downward
<1>4. /\ down'[socket] = <<hello>> /\ up'[socket] = <<>>
      /\ clients'[socket] = NewClient
  BY <1>1, <1>2, <1>3 DEF Accept, DownTyped, SocketOK, With
<1>5. isReady = FALSE
  BY <1>1 DEF Ends, TypeOK, TypeOKClient
<1>6. \A x \in ToSet(down'[socket]) : x.type = "serverHello"
  BY <1>4 DEF ToSet
<1>7. ToSet(up'[socket]) = {}
  BY <1>4, AmongNone
<1>8. EventIds(socket)' = {}
  BY <1>1, <1>2 DEF EventIds, EventsOf, PendingOfConnected
<1>9. socket \notin loading
  BY <1>1, <1>2 DEF SocketOK
<1>10. Fresh(clients'[socket])
  BY <1>4 DEF Fresh, NewClient, NoSubscriptions
<1>11. NotGreeted'
  BY <1>1, <1>6, <1>7, <1>8, <1>9, <1>10 DEF NotGreeted
<1>12. Sessions'
  BY <1>1, <1>5 DEF ServerSide, Sessions
<1>13. \A x \in ToSet(down'[socket]) :
         x \notin BinaryMessage /\ \A m : x \notin RollingsOf(m) /\ x \notin BinariesOf(m)
  <2> SUFFICES ASSUME NEW x \in ToSet(down'[socket]), NEW m
               PROVE  x \notin BinaryMessage /\ x \notin RollingsOf(m)
                        /\ x \notin BinariesOf(m)
    OBVIOUS
  <2>1. x.type = "serverHello"
    BY <1>6
  <2> QED
    BY <2>1, MessageKinds, RollingKinds
<1>14. IdsGiven'
  <2>1. NoId < nextClientId
    BY DEF TypeOK, TypeOKClient, ClientIds, NoId
  <2>2. \A m \in Markets : \A id \in pending'[m] : id < nextClientId'
    BY <1>1 DEF ServerSide, IdsGiven
  <2> QED
    BY <1>1, <1>7, <1>8, <1>10, <1>13, <2>1, <2>2 DEF IdsGiven, Fresh
<1>15. ASSUME NEW m \in Markets PROVE StorageReached(m)' /\ RollingReached(m)'
  <2>1. At(down'[socket], BinariesOf(m)) = {}
    BY <1>3, <1>13, AtAmong DEF DownTyped
  <2>2. DeltasFit(down'[socket], BinariesOf(m), pending'[m], storage'[m])
    BY <2>1, DeltasNone
  <2> QED
    BY <1>1, <1>10, <1>13, <2>2 DEF StorageReached, RollingReached, Fresh
<1>16. StoragesReached' /\ RollingsReached'
  BY <1>1, <1>15 DEF StoragesReached, RollingsReached, ServerSide
<1> QED
  BY <1>1, <1>5, <1>11, <1>12, <1>14, <1>16 DEF ServerSide, AskedReady,
       ListReached

\* handleWebSocketReady keeps the invariant.
LEMMA HandleWebSocketReadyKeeps ==
  ASSUME TypeOK, TypeOK', Ends, Ends', ServerSide, HandleWebSocketReady(socket),
         UNCHANGED clientVars, socket \in Sockets
  PROVE  ServerSide'
<1>1. /\ UNCHANGED <<socket, isReady, rollingShown>>
      /\ UNCHANGED <<down, serverEnd, serverEvents, version, rolled, markets>>
      /\ ServerReceives(socket, "webSocketReady") /\ Take(socket)
      /\ clients' = [clients EXCEPT ![socket].isReady = TRUE]
  BY DEF HandleWebSocketReady, clientVars, transportVars, controllerVars,
       serviceVars
<1>2. /\ up[socket] # <<>> /\ Head(up[socket]).type = "webSocketReady"
      /\ Head(up[socket]) \in ToSet(up[socket]) /\ up'[socket] = Rest(up[socket])
      /\ Open /\ Known
  BY <1>1, TakenFrom
<1>3. up[socket] \in Seq(ClientMessage) /\ IsClient(clients[socket])
  BY <1>2, InUse
<1>4. clients'[socket] = [clients[socket] EXCEPT !.isReady = TRUE]
  BY <1>1, <1>2 DEF Known
<1>5. /\ clients'[socket].isReady = TRUE
      /\ clients'[socket].marketInfo = clients[socket].marketInfo
      /\ clients'[socket].nextServerId = clients[socket].nextServerId
      /\ clients'[socket].statistics = clients[socket].statistics
      /\ clients'[socket].rolling = clients[socket].rolling
  BY <1>3, <1>4 DEF IsClient
<1>6. isReady = TRUE
  BY <1>2, Greeted DEF Ungreeted
<1>7. Open' /\ Known'
  BY <1>1, <1>2 DEF Open, Known
<1>8. EventIds(socket)' \subseteq EventIds(socket)
  BY <1>1, EventsStay
<1>9. \A x \in ToSet(up'[socket]) : x \in ToSet(up[socket])
  BY <1>2, <1>3, AmongRest
<1>10. Sessions'
  <2>1. NothingAsked(up[socket], clients[socket].isReady) =>
          NothingAsked(up'[socket], clients'[socket].isReady)
    BY <1>2, <1>3, <1>5, NothingAskedTaken
  <2>2. \A m \in Markets :
          clients'[socket].statistics[m] \in {clients[socket].statistics[m], NoId}
    BY <1>5
  <2>3. Sessions
    BY DEF ServerSide
  <2> QED
    BY <1>1, <1>2, <1>5, <1>7, <1>8, <2>1, <2>2, <2>3, SessionsStay
<1>11. IdsGiven'
  <2>1. \A m \in Markets : /\ clients'[socket].statistics[m] < nextClientId
                           /\ clients'[socket].rolling[m] < nextClientId
    BY <1>2, <1>5 DEF ServerSide, IdsGiven
  <2>2. \A x \in ToSet(down'[socket]) : x \in ToSet(down[socket])
    BY <1>1
  <2> QED
    BY <1>8, <1>9, <2>1, <2>2, IdsStay DEF ServerSide
<1>12. ASSUME NEW m \in Markets PROVE StorageReached(m)' /\ RollingReached(m)'
  <2>1. StorageReached(m) /\ RollingReached(m)
    BY <1>12 DEF ServerSide, StoragesReached, RollingsReached
  <2>2. StorageReached(m)'
    BY <1>1, <1>2, <1>5, <1>7, <2>1, StorageStays
  <2>3. RollingReached(m)'
    BY <1>1, <1>2, <1>5, <1>7, <2>1, RollingStays
  <2> QED
    BY <2>2, <2>3
<1>13. AskedReady'
  BY <1>1, <1>5, ReadyFirstNow DEF AskedReady
<1>14. ListReached'
  <2>1. ListAsked(up[socket]) => ListAsked(up'[socket])
    BY <1>2, <1>3, ListAskedTaken
  <2> QED
    BY <1>1, <1>2, <1>5, <1>7, <2>1, ListStays DEF ServerSide
<1> QED
  BY <1>1, <1>6, <1>10, <1>11, <1>12, <1>13, <1>14
     DEF ServerSide, NotGreeted, StoragesReached, RollingsReached

\* handleSetSubscription keeps the invariant.
LEMMA HandleSetMarketInfoKeeps ==
  ASSUME TypeOK, TypeOK', Ends, Ends', ServerSide, HandleSetMarketInfo(socket),
         UNCHANGED clientVars, socket \in Sockets
  PROVE  ServerSide'
<1> DEFINE x == MarketsUpdated(markets)
<1>1. /\ UNCHANGED <<socket, isReady, rollingShown, marketList>>
      /\ UNCHANGED <<serverEnd, serverEvents, version, rolled, markets>>
      /\ ServerReceives(socket, "setMarketInfo") /\ Take(socket)
      /\ clients' = [clients EXCEPT ![socket].marketInfo = TRUE]
      /\ down' = DownAfter(socket, <<x>>)
  BY DEF HandleSetMarketInfo, clientVars, transportVars, controllerVars,
       sessionVars,
         serviceVars
<1>2. /\ up[socket] # <<>> /\ Head(up[socket]).type = "setMarketInfo"
      /\ Head(up[socket]) \in ToSet(up[socket]) /\ up'[socket] = Rest(up[socket])
      /\ Open /\ Known
  BY <1>1, TakenFrom
<1>3. /\ up[socket] \in Seq(ClientMessage) /\ IsClient(clients[socket])
      /\ down[socket] \in Seq(Downward)
  BY <1>2, InUse
<1>4. clients'[socket] = [clients[socket] EXCEPT !.marketInfo = TRUE]
  BY <1>1, <1>2 DEF Known
<1>5. /\ clients'[socket].isReady = clients[socket].isReady
      /\ clients'[socket].marketInfo = TRUE
      /\ clients'[socket].nextServerId = clients[socket].nextServerId
      /\ clients'[socket].statistics = clients[socket].statistics
      /\ clients'[socket].rolling = clients[socket].rolling
  BY <1>3, <1>4 DEF IsClient
<1>6. isReady = TRUE /\ clientEnd[socket] = "open"
  BY <1>2, Greeted DEF Ungreeted
<1>7. Open' /\ Known'
  BY <1>1, <1>2 DEF Open, Known
<1>8. EventIds(socket)' \subseteq EventIds(socket)
  BY <1>1, EventsStay
<1>9. \A y \in ToSet(up'[socket]) : y \in ToSet(up[socket])
  BY <1>2, <1>3, AmongRest
<1>10. /\ ReadyFirst(up'[socket], clients[socket].isReady)
       /\ clients[socket].isReady = TRUE
  <2>1. ReadyFirst(up[socket], clients[socket].isReady)
    BY <1>2, <1>6 DEF ServerSide, AskedReady
  <2>2. clients[socket].isReady \in BOOLEAN
    BY <1>3 DEF IsClient
  <2> QED
    BY <1>2, <1>3, <2>1, <2>2, ReadyFirstTaken
<1>11. x \in Downward /\ x.type = "marketsUpdated" /\ x.markets = markets
  BY MessagesTyped DEF TypeOK, TypeOKServer, MarketsUpdated
<1>12. down'[socket] = Put(down[socket], x)
  BY <1>1, <1>2, <1>6, SentTo DEF Open
<1> HIDE DEF x
<1>13. x \notin BinaryMessage /\ x \in MarketLists
         /\ \A m : x \notin BinariesOf(m) /\ x \notin RollingsOf(m)
  BY <1>11, MessageKinds, RollingKinds
<1>14. Sessions'
  <2>1. NothingAsked(up[socket], clients[socket].isReady) =>
          NothingAsked(up'[socket], clients'[socket].isReady)
    BY <1>2, <1>3, <1>5, NothingAskedTaken
  <2>2. \A m \in Markets :
          clients'[socket].statistics[m] \in {clients[socket].statistics[m], NoId}
    BY <1>5
  <2>3. Sessions
    BY DEF ServerSide
  <2>4. \E y \in Downward : y.type \notin Binary
                              /\ down'[socket] = Put(down[socket], y)
    BY <1>11, <1>12 DEF Binary
  <2> QED
    BY <1>1, <1>2, <1>5, <1>7, <1>8, <2>1, <2>2, <2>3, <2>4, SessionsStay
<1>15. IdsGiven'
  <2>1. \A m \in Markets : /\ clients'[socket].statistics[m] < nextClientId
                           /\ clients'[socket].rolling[m] < nextClientId
    BY <1>2, <1>5 DEF ServerSide, IdsGiven
  <2>2. \A y \in ToSet(down'[socket]) : y \in ToSet(down[socket]) \/ y = x
    BY <1>3, <1>11, <1>12, AmongPut
  <2> QED
    BY <1>8, <1>9, <1>13, <2>1, <2>2, IdsStay DEF ServerSide
<1>16. ASSUME NEW m \in Markets PROVE StorageReached(m)' /\ RollingReached(m)'
  <2>1. StorageReached(m) /\ RollingReached(m)
    BY <1>16 DEF ServerSide, StoragesReached, RollingsReached
  <2>2. StorageReached(m)'
    BY <1>1, <1>2, <1>5, <1>7, <1>11, <1>12, <1>13, <2>1, StorageStays
  <2>3. RollingReached(m)'
    BY <1>1, <1>2, <1>5, <1>7, <1>11, <1>12, <1>13, <2>1, RollingStays
  <2> QED
    BY <2>2, <2>3
<1>17. AskedReady'
  BY <1>1, <1>5, <1>10 DEF AskedReady
<1>18. ListReached'
  <2>1. ListReaches(down'[socket], marketList, markets)
    BY <1>3, <1>11, <1>12, <1>13, ListSent
  <2> QED
    BY <1>1, <1>5, <1>10, <2>1 DEF ListReached
<1> QED
  BY <1>1, <1>6, <1>14, <1>15, <1>16, <1>17, <1>18
     DEF ServerSide, NotGreeted, StoragesReached, RollingsReached

\* A request that is accepted is one of a session that has the entities.
LEMMA HandleRequestFullSyncKeeps ==
  ASSUME TypeOK, TypeOK', Ends, Ends', ServerSide, HandleRequestFullSync(socket),
         UNCHANGED clientVars, socket \in Sockets, Accepted(socket, Head(up[socket]))
  PROVE  ServerSide'
<1> DEFINE id == Head(up[socket]).clientId
<1>1. /\ UNCHANGED <<socket, isReady, rollingShown, lastServerId, entities>>
      /\ UNCHANGED <<serverEnd, down, clients, version, rolled, markets>>
      /\ ServerReceives(socket, "requestFullSync") /\ Take(socket)
      /\ serverEvents' = With(serverEvents, nextEventId, PendingEvent(socket, id))
  BY DEF HandleRequestFullSync, AfterRequest, clientVars, transportVars,
         controllerVars, sessionVars
<1>2. /\ up[socket] # <<>> /\ Head(up[socket]).type = "requestFullSync"
      /\ Head(up[socket]) \in ToSet(up[socket]) /\ up'[socket] = Rest(up[socket])
      /\ Open /\ Known
  BY <1>1, TakenFrom
<1>3. /\ up[socket] \in Seq(ClientMessage) /\ IsClient(clients[socket])
      /\ down[socket] \in Seq(Downward)
  BY <1>2, InUse
<1>4. clients[socket].isReady = TRUE
  BY <1>3 DEF Accepted, Ready, IsClient
<1>5. isReady = TRUE
  BY <1>2, <1>4, Greeted
<1>6. Counted /\ entities = TRUE
  <2>1. ~ NothingAsked(up[socket], clients[socket].isReady)
    BY <1>2, <1>3, <1>4, NothingAskedHead
  <2> QED
    BY <1>5, <2>1 DEF ServerSide, Sessions, Unasked
<1>7. Open' /\ Known'
  BY <1>1, <1>2 DEF Open, Known
<1>8. \A n \in EventIds(socket)' : n \in EventIds(socket) \/ n = id
  BY <1>1 DEF EventIds, EventsOf, With, PendingEvent
<1>9. \A x \in ToSet(up'[socket]) : x \in ToSet(up[socket])
  BY <1>2, <1>3, AmongRest
<1>10. Sessions'
  <2>1. Counted'
    BY <1>1, <1>6 DEF Counted, Open
  <2> QED
    BY <1>1, <1>6, <2>1 DEF Sessions
<1>11. IdsGiven'
  <2>1. id < nextClientId
    BY <1>2 DEF ServerSide, IdsGiven
  <2>2. \A m \in Markets : /\ clients'[socket].statistics[m] < nextClientId
                           /\ clients'[socket].rolling[m] < nextClientId
    BY <1>1, <1>2 DEF ServerSide, IdsGiven
  <2>3. \A x \in ToSet(down'[socket]) : x \in ToSet(down[socket])
    BY <1>1
  <2> HIDE DEF id
  <2> QED
    BY <1>8, <1>9, <2>1, <2>2, <2>3, IdsStay DEF ServerSide
<1>12. ASSUME NEW m \in Markets PROVE StorageReached(m)' /\ RollingReached(m)'
  <2>1. StorageReached(m) /\ RollingReached(m)
    BY <1>12 DEF ServerSide, StoragesReached, RollingsReached
  <2>2. StorageReached(m)'
    BY <1>1, <1>2, <1>7, <2>1, StorageStays
  <2>3. RollingReached(m)'
    BY <1>1, <1>2, <1>7, <2>1, RollingStays
  <2> QED
    BY <2>2, <2>3
<1>13. AskedReady'
  BY <1>1, <1>4, ReadyFirstNow DEF AskedReady
<1>14. ListReached'
  <2>1. ListAsked(up[socket]) => ListAsked(up'[socket])
    BY <1>2, <1>3, ListAskedTaken
  <2> QED
    BY <1>1, <1>2, <1>7, <2>1, ListStays DEF ServerSide
<1> QED
  BY <1>1, <1>5, <1>10, <1>11, <1>12, <1>13, <1>14
     DEF ServerSide, NotGreeted, StoragesReached, RollingsReached

\* handleMarketRollingSubscriptionChanged keeps the invariant.
LEMMA HandleAddRollingKeeps ==
  ASSUME TypeOK, TypeOK', Ends, Ends', ServerSide, HandleAddRolling(socket),
         UNCHANGED clientVars, socket \in Sockets
  PROVE  ServerSide'
<1> DEFINE id == Head(up[socket]).clientId
           k == Head(up[socket]).market
           x == RollingMessage(id, k, rolled[k])
<1>1. /\ UNCHANGED <<socket, isReady, rollingShown, marketList, pending>>
      /\ UNCHANGED <<serverEnd, serverEvents, version, rolled, markets>>
      /\ ServerReceives(socket, "addRolling") /\ Take(socket)
      /\ clients' = [clients EXCEPT ![socket].rolling[k] = id]
      /\ down' = DownAfter(socket, RollingSnapshot(id, k))
  BY DEF HandleAddRolling, clientVars, transportVars, controllerVars,
       sessionVars,
         serviceVars
<1>2. /\ up[socket] # <<>> /\ Head(up[socket]).type = "addRolling"
      /\ Head(up[socket]) \in ToSet(up[socket]) /\ up'[socket] = Rest(up[socket])
      /\ Head(up[socket]) \in ClientMessage
      /\ Open /\ Known
  BY <1>1, TakenFrom
<1>3. /\ up[socket] \in Seq(ClientMessage) /\ IsClient(clients[socket])
      /\ down[socket] \in Seq(Downward)
  BY <1>2, InUse
<1>4. id \in ClientIds /\ k \in Markets /\ rolled[k] \in 0 .. MaxVersion
  BY <1>2, MessageKinds DEF TypeOK, TypeOKServer
<1>5. clients'[socket] = [clients[socket] EXCEPT !.rolling[k] = id]
  BY <1>1, <1>2 DEF Known
<1>6. x \in Downward /\ x.type = "marketRollingUpdated" /\ x.clientId = id
        /\ x.market = k /\ x.version = rolled[k]
  BY <1>4, MessagesTyped DEF RollingMessage
<1>7. isReady = TRUE /\ clientEnd[socket] = "open"
  BY <1>2, Greeted DEF Ungreeted
<1>8. down'[socket] = IF rolled[k] > 0 THEN Put(down[socket], x) ELSE down[socket]
  <2>1. CASE rolled[k] > 0
    BY <1>1, <1>2, <1>7, <2>1, SentTo DEF RollingSnapshot, Open
  <2>2. CASE ~ (rolled[k] > 0)
    <3>1. down' = DownAfter(socket, <<>>)
      BY <1>1, <2>2 DEF RollingSnapshot
    <3>2. DownTyped /\ down[socket] \o <<>> = down[socket]
      BY <1>3, NetworkTyped DEF TypeOK
    <3> QED
      BY <2>2, <3>1, <3>2 DEF DownAfter, DownTyped
  <2> QED
    BY <2>1, <2>2
<1>9. id < nextClientId
  BY <1>2 DEF ServerSide, IdsGiven
<1> HIDE DEF id, k, x
<1>10. /\ clients'[socket].isReady = clients[socket].isReady
       /\ clients'[socket].marketInfo = clients[socket].marketInfo
       /\ clients'[socket].nextServerId = clients[socket].nextServerId
       /\ clients'[socket].statistics = clients[socket].statistics
       /\ \A m \in Markets : clients'[socket].rolling[m] =
                               IF m = k THEN id ELSE clients[socket].rolling[m]
  BY <1>3, <1>5 DEF IsClient
<1>11. Open' /\ Known'
  BY <1>1, <1>2 DEF Open, Known
<1>12. EventIds(socket)' \subseteq EventIds(socket)
  BY <1>1, EventsStay
<1>13. \A y \in ToSet(up'[socket]) : y \in ToSet(up[socket])
  BY <1>2, <1>3, AmongRest
<1>14. /\ ReadyFirst(up'[socket], clients[socket].isReady)
       /\ clients[socket].isReady = TRUE
  <2>1. ReadyFirst(up[socket], clients[socket].isReady)
    BY <1>2, <1>7 DEF ServerSide, AskedReady
  <2>2. clients[socket].isReady \in BOOLEAN
    BY <1>3 DEF IsClient
  <2> QED
    BY <1>2, <1>3, <2>1, <2>2, ReadyFirstTaken
<1>15. x \notin BinaryMessage /\ x.type \notin Binary /\ x.type # "marketsUpdated"
         /\ x \in RollingsOf(k)
         /\ \A m : /\ x \notin BinariesOf(m)
                   /\ m # k => x \notin RollingsOf(m)
  BY <1>6, MessageKinds, RollingKinds DEF Binary
<1>16. \A y \in ToSet(down'[socket]) :
         y \in ToSet(down[socket]) \/ (y = x /\ rolled[k] > 0)
  BY <1>3, <1>6, <1>8, AmongPut
<1>17. Sessions'
  <2>1. NothingAsked(up[socket], clients[socket].isReady) =>
          NothingAsked(up'[socket], clients'[socket].isReady)
    BY <1>2, <1>3, <1>10, NothingAskedTaken
  <2>2. \A m \in Markets :
          clients'[socket].statistics[m] \in {clients[socket].statistics[m], NoId}
    BY <1>10
  <2>3. Sessions
    BY DEF ServerSide
  <2>4. \/ down'[socket] = down[socket]
        \/ \E y \in Downward : y.type \notin Binary
                                 /\ down'[socket] = Put(down[socket], y)
    BY <1>6, <1>8, <1>15
  <2> QED
    BY <1>1, <1>2, <1>10, <1>11, <1>12, <2>1, <2>2, <2>3, <2>4, SessionsStay
<1>18. IdsGiven'
  <2>1. \A m \in Markets : /\ clients'[socket].statistics[m] < nextClientId
                           /\ clients'[socket].rolling[m] < nextClientId
    BY <1>2, <1>9, <1>10 DEF ServerSide, IdsGiven
  <2> QED
    BY <1>12, <1>13, <1>15, <1>16, <2>1, IdsStay DEF ServerSide
<1>19. ASSUME NEW m \in Markets PROVE StorageReached(m)'
  <2>1. StorageReached(m)
    BY <1>19 DEF ServerSide, StoragesReached
  <2>2. \/ down'[socket] = down[socket]
        \/ \E y \in Downward : y \notin BinariesOf(m)
                                 /\ down'[socket] = Put(down[socket], y)
    BY <1>6, <1>8, <1>15
  <2> QED
    BY <1>1, <1>2, <1>10, <1>11, <2>1, <2>2, StorageStays
<1>20. ASSUME NEW m \in Markets, m # k PROVE RollingReached(m)'
  <2>1. RollingReached(m)
    BY <1>20 DEF ServerSide, RollingsReached
  <2>2. \/ down'[socket] = down[socket]
        \/ \E y \in Downward : y \notin RollingsOf(m)
                                 /\ down'[socket] = Put(down[socket], y)
    BY <1>6, <1>8, <1>15, <1>20
  <2> QED
    BY <1>1, <1>2, <1>10, <1>11, <1>20, <2>1, <2>2, RollingStays
<1>21. ASSUME NEW m \in Markets, m = k PROVE RollingReached(m)'
  <2>1. RollingReached(k) /\ rollingShown[k] <= rolled[k]
    BY <1>4 DEF ServerSide, RollingsReached
  <2>2. \A y \in ToSet(down'[socket]) : y \in RollingsOf(k) => y.version \in 1 .. rolled[k]
    <3>1. rolled[k] > 0 => x.version \in 1 .. rolled[k]
      BY <1>4, <1>6
    <3> QED
      BY <1>16, <2>1, <3>1 DEF RollingReached
  <2>3. Reaches(down'[socket], RollingsOf(k), id, rolled[k], pending[k], rollingShown[k])
    <3>1. CASE rolled[k] > 0
      BY <1>3, <1>6, <1>8, <1>15, <3>1, ReachesSent
    <3>2. CASE ~ (rolled[k] > 0)
      <4>1. rolled[k] = 0 /\ rollingShown[k] \in Nat
        BY <1>4, <3>2 DEF TypeOK, TypeOKClient
      <4>2. rollingShown[k] = rolled[k]
        BY <2>1, <4>1
      <4>3. \A y \in ToSet(down[socket]) : y \notin RollingsOf(k)
        BY <2>1, <4>1 DEF RollingReached
      <4>4. At(down[socket], RollingsOf(k)) = {}
        BY <1>3, <4>3, AtAmong
      <4> QED
        BY <1>8, <3>2, <4>2, <4>4, ReachesNone
    <3> QED
      BY <3>1, <3>2
  <2> QED
    BY <1>1, <1>4, <1>10, <1>14, <1>21, <2>2, <2>3 DEF RollingReached
<1>22. AskedReady'
  BY <1>1, <1>10, <1>14 DEF AskedReady
<1>23. ListReached'
  <2>1. ListAsked(up[socket]) => ListAsked(up'[socket])
    BY <1>2, <1>3, ListAskedTaken
  <2>2. \/ down'[socket] = down[socket]
        \/ \E y \in Downward : y.type # "marketsUpdated"
                                 /\ down'[socket] = Put(down[socket], y)
    BY <1>6, <1>8, <1>15
  <2> QED
    BY <1>1, <1>2, <1>10, <1>11, <2>1, <2>2, ListStays DEF ServerSide
<1>24. \A m \in Markets : RollingReached(m)'
  BY <1>20, <1>21
<1> QED
  BY <1>1, <1>7, <1>17, <1>18, <1>19, <1>24, <1>22, <1>23
     DEF ServerSide, NotGreeted, StoragesReached, RollingsReached

\* The answer r is sent to the socket in use.
SentHere(r) ==
  /\ r.eventId \in DOMAIN serverEvents
  /\ serverEvents[r.eventId].socket = socket
  /\ serverEvents[r.eventId].valid
  /\ Ready(socket)

\* handleStorageFullSyncResults answers nobody, or an earlier socket.
LEMMA AnswerElsewhere ==
  ASSUME NEW r \in requests, TypeOK, Ends, AnswerFullSync(r), UNCHANGED clientVars,
         ~ SentHere(r)
  PROVE  Unnoticed
<1> DEFINE e == r.eventId
           s == serverEvents[e].socket
           id == serverEvents[e].clientId
           x == Packet("snapshot", clients[s].nextServerId, id, r.market,
                       version[r.market])
<1>1. socket' = socket /\ UNCHANGED <<up, serverEnd, loading, version, rolled, markets>>
  BY DEF AnswerFullSync, clientVars, transportVars
<1>2. DownTyped
  BY NetworkTyped DEF TypeOK
<1>3. CASE e \in DOMAIN serverEvents /\ serverEvents[e].valid /\ Ready(s)
  <2>1. /\ down' = DownAfter(s, <<x>>)
        /\ clients' = [clients EXCEPT ![s] = Answered(@, r.market, id)]
        /\ serverEvents' = Without(serverEvents, {e})
    BY <1>3 DEF AnswerFullSync
  <2>2. s # socket
    BY <1>3 DEF SentHere
  <2>3. socket \in Sockets => down'[socket] = down[socket]
    BY <1>2, <2>1, <2>2 DEF DownAfter, DownTyped
  <2>4. Known' => Known /\ clients'[socket] = clients[socket]
    BY <1>1, <2>1, <2>2 DEF Known
  <2>5. Known' => Known /\ Fades(clients[socket], clients'[socket])
    BY <2>4, FadesNot
  <2>6. EventIds(socket)' \subseteq EventIds(socket)
    BY <1>1, <2>1, EventsStay DEF Without
  <2> QED
    BY <1>1, <2>3, <2>5, <2>6, NothingSaid DEF Open
<1>4. CASE ~ (e \in DOMAIN serverEvents /\ serverEvents[e].valid /\ Ready(s))
  <2>1. UNCHANGED <<down, clients>>
    BY <1>4 DEF AnswerFullSync
  <2>2. serverEvents' = serverEvents \/ serverEvents' = Without(serverEvents, {e})
    BY DEF AnswerFullSync
  <2>3. EventIds(socket)' \subseteq EventIds(socket)
    BY <1>1, <2>2, EventsStay DEF Without
  <2>4. Known' => Known /\ Fades(clients[socket], clients'[socket])
    BY <1>1, <2>1, FadesNot DEF Known
  <2> QED
    BY <1>1, <2>1, <2>3, <2>4, NothingSaid DEF Open
<1> QED
  BY <1>3, <1>4

\* handleStorageFullSyncResults keeps the invariant.
LEMMA AnswerKeeps ==
  ASSUME NEW r \in requests, TypeOK, TypeOK', Ends, Ends', ServerSide,
         AnswerFullSync(r), UNCHANGED clientVars, socket \in Sockets, SentHere(r)
  PROVE  ServerSide'
<1> DEFINE e == r.eventId
           id == serverEvents[e].clientId
           x == Packet("snapshot", clients[socket].nextServerId, id, r.market,
                       version[r.market])
<1> PICK k : k = r.market
  OBVIOUS
<1>1. /\ UNCHANGED <<socket, isReady, rollingShown, lastServerId, entities, storage,
                     pending>>
      /\ UNCHANGED <<serverEnd, up, version, rolled, markets>>
      /\ serverEvents' = Without(serverEvents, {e})
      /\ clients' = [clients EXCEPT ![socket] = Answered(@, k, id)]
      /\ down' = DownAfter(socket, <<x>>)
  BY DEF AnswerFullSync, SentHere, clientVars, transportVars, controllerVars,
         sessionVars
<1>2. Known /\ clients[socket].isReady /\ e \in EventsOf(socket)
  BY DEF SentHere, Ready, Connected, Known, EventsOf
<1>3. /\ IsClient(clients[socket]) /\ up[socket] \in Seq(ClientMessage)
      /\ down[socket] \in Seq(Downward)
  BY <1>2, InUse
<1>4. k \in Markets /\ version[k] \in 0 .. MaxVersion /\ id \in ClientIds
  <2>1. EventsTyped /\ ServiceTyped
    BY ServerTyped DEF TypeOK
  <2>2. r \in [eventId : 0 .. nextEventId, market : Markets]
    BY <2>1 DEF EventsTyped
  <2> QED
    BY <1>2, <2>1, <2>2 DEF EventsTyped, ServiceTyped, EventsOf
<1>5. clients[socket].isReady = TRUE /\ clients[socket].nextServerId \in Nat
  BY <1>2, <1>3 DEF IsClient
<1>6. isReady = TRUE /\ clientEnd[socket] = "open"
  BY <1>2, <1>5, Greeted
<1>7. x \in BinaryMessage /\ x \in Downward /\ x.type = "snapshot" /\ x.clientId = id
        /\ x.market = k /\ x.version = version[k]
        /\ x.serverId = clients[socket].nextServerId
  BY <1>4, <1>5 DEF Packet, BinaryMessage, Downward
<1>8. /\ Open => down'[socket] = Put(down[socket], x)
      /\ ~ Open => down'[socket] = down[socket]
  <2>1. DownTyped
    BY NetworkTyped DEF TypeOK
  <2> QED
    BY <1>1, <1>6, <2>1 DEF DownAfter, Carries, Open, Put, DownTyped
<1>9. id \in EventIds(socket) /\ id < nextClientId
  <2>1. id \in EventIds(socket)
    BY <1>2 DEF EventIds
  <2> QED
    BY <2>1 DEF ServerSide, IdsGiven
<1>10. Counted /\ entities = TRUE
  BY <1>6, <1>9 DEF ServerSide, Sessions, Unasked
<1>11. EventIds(socket)' \subseteq EventIds(socket)
  BY <1>1, EventsStay DEF Without
<1> HIDE DEF e, id, x
<1>12. clients'[socket] = Answered(clients[socket], k, id)
  BY <1>1, <1>2 DEF Known
<1>13. /\ clients'[socket].isReady = TRUE
       /\ clients'[socket].marketInfo = clients[socket].marketInfo
       /\ clients'[socket].nextServerId = clients[socket].nextServerId + 1
       /\ \A m \in Markets : clients'[socket].statistics[m] =
                               IF m = k THEN id ELSE clients[socket].statistics[m]
       /\ clients'[socket].rolling = clients[socket].rolling
  BY <1>3, <1>5, <1>12 DEF IsClient, Answered
<1>14. Known' /\ (Open' <=> Open)
  BY <1>1, <1>2 DEF Open, Known
<1>15. \A m : /\ m # k => x \notin BinariesOf(m)
              /\ x \notin RollingsOf(m) /\ x.type # "marketsUpdated"
  BY <1>7, RollingKinds
<1>16. x \in BinariesOf(k)
  BY <1>7, RollingKinds
<1>17. Sessions'
  <2>1. Counted'
    <3>1. CASE Open
      <4>1. NextIs(down[socket], lastServerId, x.serverId)
              /\ Counting(down[socket], lastServerId)
        BY <1>7, <1>10, <3>1 DEF Counted
      <4>2. /\ Counting(Put(down[socket], x), lastServerId)
            /\ NextIs(Put(down[socket], x), lastServerId, x.serverId + 1)
        BY <1>3, <1>7, <4>1, CountingBinary
      <4> QED
        BY <1>1, <1>7, <1>8, <1>13, <3>1, <4>2 DEF Counted
    <3>2. CASE ~ Open
      BY <1>1, <1>8, <1>10, <1>14, <3>2 DEF Counted
    <3> QED
      BY <3>1, <3>2
  <2> QED
    BY <1>1, <1>10, <2>1 DEF Sessions
<1>18. IdsGiven'
  <2>1. \A m \in Markets : /\ clients'[socket].statistics[m] < nextClientId
                           /\ clients'[socket].rolling[m] < nextClientId
    BY <1>2, <1>9, <1>13 DEF ServerSide, IdsGiven
  <2>2. \A y \in ToSet(down'[socket]) : y \in ToSet(down[socket]) \/ y = x
    BY <1>3, <1>7, <1>8, AmongPut
  <2> QED
    BY <1>1, <1>7, <1>9, <1>11, <2>1, <2>2, IdsStay DEF ServerSide
<1>19. ASSUME NEW m \in Markets, m # k PROVE StorageReached(m)'
  <2>1. StorageReached(m)
    BY <1>19 DEF ServerSide, StoragesReached
  <2>2. \/ down'[socket] = down[socket]
        \/ \E y \in Downward : y \notin BinariesOf(m)
                                 /\ down'[socket] = Put(down[socket], y)
    BY <1>7, <1>8, <1>15, <1>19
  <2> QED
    BY <1>1, <1>13, <1>14, <1>19, <2>1, <2>2, StorageStays
<1>20. StorageReached(k)'
  <2>1. DeltasFit(down[socket], BinariesOf(k), pending[k], storage[k])
    BY <1>4 DEF ServerSide, StoragesReached, StorageReached
  <2>2. DeltasFit(down'[socket], BinariesOf(k), pending[k], storage[k])
    <3>1. CASE Open
      BY <1>3, <1>7, <1>8, <1>16, <2>1, <3>1, DeltasSent
    <3>2. CASE ~ Open
      BY <1>8, <2>1, <3>2
    <3> QED
      BY <3>1, <3>2
  <2>3. ASSUME Open
        PROVE  Reaches(down'[socket], BinariesOf(k), id, version[k], pending[k],
                       storage[k])
    BY <1>3, <1>7, <1>8, <1>16, <2>3, ReachesSent
  <2> QED
    BY <1>1, <1>4, <1>13, <1>14, <2>2, <2>3 DEF StorageReached
<1>21. ASSUME NEW m \in Markets PROVE RollingReached(m)'
  <2>1. RollingReached(m)
    BY <1>21 DEF ServerSide, RollingsReached
  <2>2. \/ down'[socket] = down[socket]
        \/ \E y \in Downward : y \notin RollingsOf(m)
                                 /\ down'[socket] = Put(down[socket], y)
    BY <1>7, <1>8, <1>15
  <2> QED
    BY <1>1, <1>13, <1>14, <2>1, <2>2, RollingStays
<1>22. AskedReady'
  BY <1>1, <1>13, ReadyFirstNow DEF AskedReady
<1>23. ListReached'
  <2>1. \/ down'[socket] = down[socket]
        \/ \E y \in Downward : y.type # "marketsUpdated"
                                 /\ down'[socket] = Put(down[socket], y)
    BY <1>7, <1>8, <1>15
  <2> QED
    BY <1>1, <1>13, <1>14, <2>1, ListStays DEF ServerSide
<1>24. \A m \in Markets : StorageReached(m)'
  BY <1>19, <1>20
<1> QED
  BY <1>1, <1>6, <1>17, <1>18, <1>24, <1>21, <1>22, <1>23
     DEF ServerSide, NotGreeted, StoragesReached, RollingsReached

\* What a service sends to all who have subscribed to it.
LEMMA SentToAll ==
  ASSUME TypeOK, Ends, socket \in Sockets, NEW A, NEW f, DOMAIN f = A,
         NEW x, socket \in A => f[socket] = <<x>>,
         socket \in A => clientEnd[socket] = "open"
  PROVE  /\ socket \in A /\ Open => DownAfterAll(f)[socket] = Put(down[socket], x)
         /\ ~ (socket \in A /\ Open) => DownAfterAll(f)[socket] = down[socket]
BY DEF DownAfterAll, Carries, Open, Put

\* handleStorageDeltaCreated keeps the invariant.
LEMMA TickKeeps ==
  ASSUME NEW k \in Markets, TypeOK, TypeOK', Ends, Ends', ServerSide,
         Tick(k), UNCHANGED clientVars, socket \in Sockets
  PROVE  ServerSide'
<1> DEFINE A == Subscribers(k)
           f == [s \in A |-> << Packet("delta", clients[s].nextServerId,
                                       clients[s].statistics[k], k,
                                       version[k] + 1) >>]
           x == Packet("delta", clients[socket].nextServerId,
                       clients[socket].statistics[k], k, version[k] + 1)
           Here == socket \in A
<1>1. /\ UNCHANGED <<socket, isReady, rollingShown, lastServerId, entities, storage,
                     pending>>
      /\ UNCHANGED <<serverEnd, up, rolled, markets, loading, serverEvents>>
      /\ version' = [version EXCEPT ![k] = @ + 1]
      /\ down' = DownAfterAll(f)
      /\ clients' = [s \in DOMAIN clients |->
                       IF s \in A
                         THEN [clients[s] EXCEPT !.nextServerId = @ + 1]
                         ELSE clients[s]]
  BY DEF Tick, clientVars, transportVars, controllerVars, sessionVars
<1>2. /\ Known => IsClient(clients[socket])
      /\ down[socket] \in Seq(Downward)
      /\ Open => Known
  BY InUse
<1>3. /\ version[k] \in Nat
      /\ \A m \in Markets : version'[m] = IF m = k THEN version[k] + 1 ELSE version[m]
      /\ version'[k] \in 0 .. MaxVersion
  BY <1>1 DEF TypeOK, TypeOKServer
<1>4. Here => /\ Known /\ clients[socket].isReady = TRUE
              /\ clients[socket].statistics[k] # NoId
              /\ clients[socket].statistics[k] \in ClientIds
              /\ clients[socket].nextServerId \in Nat
  BY <1>2 DEF Subscribers, Known, IsClient
<1>5. Here => isReady = TRUE /\ clientEnd[socket] = "open"
  BY <1>4, Greeted
<1>6. Here => /\ x \in BinaryMessage /\ x \in Downward /\ x.type = "delta"
              /\ x.clientId = clients[socket].statistics[k]
              /\ x.market = k /\ x.version = version[k] + 1
              /\ x.serverId = clients[socket].nextServerId
  BY <1>3, <1>4 DEF Packet, BinaryMessage, Downward
<1>7. /\ Here /\ Open => down'[socket] = Put(down[socket], x)
      /\ ~ (Here /\ Open) => down'[socket] = down[socket]
  <2>1. DOMAIN f = A /\ (socket \in A => f[socket] = <<x>>)
    OBVIOUS
  <2> HIDE DEF A, f, x
  <2> QED
    BY <1>1, <1>5, <2>1, SentToAll
<1>8. Here => Counted /\ entities = TRUE
  BY <1>4, <1>5 DEF ServerSide, Sessions, Unasked
<1>9. EventIds(socket)' \subseteq EventIds(socket)
  BY <1>1, EventsStay
<1>10. Known' => Known
  BY <1>1 DEF Known
<1>11. Known => /\ Known'
                /\ clients'[socket].isReady = clients[socket].isReady
                /\ clients'[socket].marketInfo = clients[socket].marketInfo
                /\ clients'[socket].nextServerId =
                     IF Here THEN clients[socket].nextServerId + 1
                             ELSE clients[socket].nextServerId
                /\ clients'[socket].statistics = clients[socket].statistics
                /\ clients'[socket].rolling = clients[socket].rolling
  BY <1>1, <1>2 DEF Known, IsClient
<1>12. Here \/ ~ Here
  OBVIOUS
<1> HIDE DEF A, f, x, Here
<1>13. Here => /\ x \in BinariesOf(k)
               /\ \A m : /\ m # k => x \notin BinariesOf(m)
                         /\ x \notin RollingsOf(m) /\ x.type # "marketsUpdated"
  BY <1>6, RollingKinds
<1>14. Open' <=> Open
  BY <1>1 DEF Open
<1>15. NotGreeted'
  <2>1. CASE Here
    BY <1>1, <1>5, <2>1 DEF NotGreeted
  <2>2. CASE ~ Here
    <3>1. Known' => Fresh(clients'[socket]) \/ isReady = TRUE
      BY <1>10, <1>11, <2>2, Greeted DEF ServerSide, NotGreeted, Fresh
    <3> QED
      BY <1>1, <1>7, <1>9, <2>2, <3>1, Greeted DEF ServerSide, NotGreeted
  <2> QED
    BY <2>1, <2>2
<1>16. Sessions'
  <2>1. CASE Here
    <3>1. Counted'
      <4>1. CASE Open
        <5>1. NextIs(down[socket], lastServerId, x.serverId)
                /\ Counting(down[socket], lastServerId)
          BY <1>6, <1>8, <2>1, <4>1 DEF Counted
        <5>2. /\ Counting(Put(down[socket], x), lastServerId)
              /\ NextIs(Put(down[socket], x), lastServerId, x.serverId + 1)
          BY <1>2, <1>6, <2>1, <5>1, CountingBinary
        <5> QED
          BY <1>1, <1>4, <1>6, <1>7, <1>11, <2>1, <4>1, <5>2 DEF Counted
      <4>2. CASE ~ Open
        BY <1>1, <1>7, <1>8, <1>14, <2>1, <4>2 DEF Counted
      <4> QED
        BY <4>1, <4>2
    <3> QED
      BY <1>1, <1>8, <2>1, <3>1 DEF Sessions
  <2>2. CASE ~ Here
    <3>1. NothingAsked(up[socket], clients[socket].isReady) =>
            NothingAsked(up'[socket], clients'[socket].isReady)
      <4>1. CASE Open
        BY <1>1, <1>2, <1>11, <4>1
      <4>2. CASE ~ Open
        BY <1>1, <4>2, InUse, NothingAskedNone
      <4> QED
        BY <4>1, <4>2
    <3>2. Sessions
      BY DEF ServerSide
    <3>3. Known' =>
           /\ Known
           /\ clients'[socket].nextServerId = clients[socket].nextServerId
           /\ \A m \in Markets :
                clients'[socket].statistics[m] \in {clients[socket].statistics[m], NoId}
      BY <1>10, <1>11, <2>2
    <3>4. down'[socket] = down[socket] /\ (Open' => Open) /\ (Open' => Known')
      BY <1>2, <1>7, <1>11, <1>14, <2>2
    <3> QED
      BY <1>9, <3>1, <3>2, <3>3, <3>4, SessionsStay
  <2> QED
    BY <2>1, <2>2
<1>17. IdsGiven'
  <2>1. Known' =>
         \A m \in Markets : /\ clients'[socket].statistics[m] < nextClientId
                            /\ clients'[socket].rolling[m] < nextClientId
    BY <1>10, <1>11 DEF ServerSide, IdsGiven
  <2>2. \A y \in ToSet(down'[socket]) : y \in ToSet(down[socket]) \/ (Here /\ y = x)
    BY <1>2, <1>6, <1>7, AmongPut
  <2>3. Here => x.clientId < nextClientId
    BY <1>4, <1>6 DEF ServerSide, IdsGiven
  <2> QED
    BY <1>1, <1>9, <2>1, <2>2, <2>3, IdsStay DEF ServerSide
<1>18. ASSUME NEW m \in Markets, m # k PROVE StorageReached(m)'
  <2>1. StorageReached(m)
    BY <1>18 DEF ServerSide, StoragesReached
  <2>2. \/ down'[socket] = down[socket]
        \/ \E y \in Downward : y \notin BinariesOf(m)
                                 /\ down'[socket] = Put(down[socket], y)
    BY <1>6, <1>7, <1>13, <1>18
  <2>3. Open' /\ clients'[socket].statistics[m] # NoId =>
           /\ clients'[socket].statistics[m] = clients[socket].statistics[m]
           /\ clients[socket].isReady = TRUE => clients'[socket].isReady = TRUE
           /\ version'[m] = version[m]
    BY <1>2, <1>3, <1>11, <1>14, <1>18
  <2> QED
    BY <1>14, <2>1, <2>2, <2>3, StorageStays
<1>19. StorageReached(k)'
  <2>1. StorageReached(k)
    BY DEF ServerSide, StoragesReached
  <2>2. CASE Here /\ Open
    <3>1. Reaches(down[socket], BinariesOf(k), x.clientId, version[k], pending[k],
                  storage[k])
      BY <1>4, <1>6, <2>1, <2>2 DEF StorageReached
    <3>2. \E v \in Nat : x.version = v + 1
                           /\ Reaches(down[socket], BinariesOf(k), x.clientId, v,
                                      pending[k], storage[k])
      BY <1>3, <1>6, <2>2, <3>1
    <3>3. DeltasFit(down[socket], BinariesOf(k), pending[k], storage[k])
      BY <2>1 DEF StorageReached
    <3>4. DeltasFit(Put(down[socket], x), BinariesOf(k), pending[k], storage[k])
      BY <1>2, <1>6, <1>13, <2>2, <3>2, <3>3, DeltasSent
    <3>5. Reaches(Put(down[socket], x), BinariesOf(k), x.clientId, x.version, pending[k],
                  storage[k])
      BY <1>2, <1>6, <1>13, <2>2, ReachesSent
    <3> QED
      BY <1>1, <1>3, <1>4, <1>6, <1>7, <1>11, <2>2, <3>4, <3>5
           DEF StorageReached
  <2>3. CASE ~ (Here /\ Open)
    <3>1. Open /\ clients[socket].statistics[k] # NoId => Here
      BY <1>2, <2>1 DEF StorageReached, Here, A, Subscribers, Known
    <3>2. Open' /\ clients'[socket].statistics[k] # NoId => FALSE
      BY <1>2, <1>11, <1>14, <2>3, <3>1
    <3> QED
      BY <1>7, <1>14, <2>1, <2>3, <3>2, StorageStays
  <2> QED
    BY <2>2, <2>3
<1>20. ASSUME NEW m \in Markets PROVE RollingReached(m)'
  <2>1. RollingReached(m)
    BY <1>20 DEF ServerSide, RollingsReached
  <2>2. \/ down'[socket] = down[socket]
        \/ \E y \in Downward : y \notin RollingsOf(m)
                                 /\ down'[socket] = Put(down[socket], y)
    BY <1>6, <1>7, <1>13
  <2> QED
    BY <1>1, <1>2, <1>11, <1>14, <2>1, <2>2, RollingStays
<1>21. AskedReady'
  BY <1>1, <1>2, <1>11, <1>14 DEF ServerSide, AskedReady
<1>22. ListReached'
  <2>1. \/ down'[socket] = down[socket]
        \/ \E y \in Downward : y.type # "marketsUpdated"
                                 /\ down'[socket] = Put(down[socket], y)
    BY <1>6, <1>7, <1>13
  <2> QED
    BY <1>1, <1>2, <1>11, <1>14, <2>1, ListStays DEF ServerSide
<1>23. \A m \in Markets : StorageReached(m)'
  BY <1>18, <1>19
<1> QED
  BY <1>1, <1>15, <1>16, <1>17, <1>20, <1>21, <1>22, <1>23
     DEF ServerSide, StoragesReached, RollingsReached

\* Without a socket the server has no part in the invariant.
LEMMA WithoutSocket ==
  ASSUME TypeOK, Ends, ServerSide, UNCHANGED clientVars, socket \notin Sockets,
         \A m \in Markets : rollingShown[m] <= rolled'[m]
  PROVE  ServerSide'
<1>1. /\ UNCHANGED <<socket, isReady, rollingShown, nextClientId, pending>>
      /\ UNCHANGED <<lastServerId, entities>>
  BY DEF clientVars, transportVars, controllerVars, pageVars, sessionVars
<1>2. isReady = FALSE
  BY DEF Ends, TypeOK, TypeOKClient
<1> QED
  BY <1>1, <1>2
     DEF ServerSide, NotGreeted, Sessions, IdsGiven, StoragesReached, AskedReady,
         ListReached, RollingsReached

\* What the services around the sockets do to the socket in use: it is sent
\* one message that is no binary, or none.
LEMMA PublishedKeeps ==
  ASSUME TypeOK, TypeOK', Ends, Ends', ServerSide, UNCHANGED clientVars,
         socket \in Sockets, NEW x \in Downward, NEW Here \in BOOLEAN,
         Here => isReady = TRUE,
         Here => down'[socket] = Put(down[socket], x),
         ~ Here => down'[socket] = down[socket],
         x.type \in {"marketRollingUpdated", "marketsUpdated"},
         UNCHANGED <<serverEnd, up, clients, loading, serverEvents, version>>,
         ListReached', RollingsReached'
  PROVE  ServerSide'
<1>1. UNCHANGED <<socket, isReady>>
  BY DEF clientVars, transportVars
<1>2. /\ Known => IsClient(clients[socket])
      /\ down[socket] \in Seq(Downward)
      /\ Open => Known
  BY InUse
<1>3. EventIds(socket)' \subseteq EventIds(socket)
  BY <1>1, EventsStay
<1>4. (Known' <=> Known) /\ (Open' <=> Open)
  BY <1>1 DEF Open, Known
<1>5. x \notin BinaryMessage /\ x.type \notin Binary /\ \A m : x \notin BinariesOf(m)
  BY MessageKinds, RollingKinds DEF Binary
<1>6. NotGreeted'
  <2>1. CASE Here
    BY <1>1, <2>1 DEF NotGreeted
  <2>2. CASE ~ Here
    BY <1>1, <1>3, <1>4, <2>2 DEF ServerSide, NotGreeted
  <2> QED
    BY <2>1, <2>2
<1>7. Sessions'
  <2>1. \/ down'[socket] = down[socket]
        \/ \E y \in Downward : y.type \notin Binary
                                 /\ down'[socket] = Put(down[socket], y)
    BY <1>5
  <2>2. \A m \in Markets :
          clients'[socket].statistics[m] \in {clients[socket].statistics[m], NoId}
    OBVIOUS
  <2>3. NothingAsked(up[socket], clients[socket].isReady) =>
          NothingAsked(up'[socket], clients'[socket].isReady)
    OBVIOUS
  <2>4. Sessions
    BY DEF ServerSide
  <2>5. clients'[socket].nextServerId = clients[socket].nextServerId
    OBVIOUS
  <2> QED
    BY <1>2, <1>3, <1>4, <2>1, <2>2, <2>3, <2>4, <2>5, SessionsStay
<1>8. IdsGiven'
  <2>1. \A y \in ToSet(down'[socket]) : y \in ToSet(down[socket]) \/ y = x
    BY <1>2, AmongPut
  <2>2. Known' =>
         \A m \in Markets : /\ clients'[socket].statistics[m] < nextClientId
                            /\ clients'[socket].rolling[m] < nextClientId
    BY <1>4 DEF ServerSide, IdsGiven
  <2> QED
    BY <1>3, <1>5, <2>1, <2>2, IdsStay DEF ServerSide
<1>9. ASSUME NEW m \in Markets PROVE StorageReached(m)'
  <2>1. \/ down'[socket] = down[socket]
        \/ \E y \in Downward : y \notin BinariesOf(m)
                                 /\ down'[socket] = Put(down[socket], y)
    BY <1>5
  <2>2. StorageReached(m)
    BY DEF ServerSide, StoragesReached
  <2> QED
    BY <1>4, <2>1, <2>2, StorageStays
<1>10. AskedReady'
  BY <1>1, <1>4 DEF ServerSide, AskedReady
<1> QED
  BY <1>1, <1>6, <1>7, <1>8, <1>9, <1>10 DEF ServerSide, StoragesReached

\* handleMarketRollingUpdated keeps the invariant.
LEMMA PublishRollingKeeps ==
  ASSUME NEW k \in Markets, TypeOK, TypeOK', Ends, Ends', ServerSide,
         PublishRolling(k), UNCHANGED clientVars, socket \in Sockets
  PROVE  ServerSide'
<1> DEFINE A == {s \in DOMAIN clients : clients[s].isReady /\ clients[s].rolling[k] # NoId}
           f == [s \in A |-> << RollingMessage(clients[s].rolling[k], k,
                                               rolled[k] + 1) >>]
           x == RollingMessage(clients[socket].rolling[k], k, rolled[k] + 1)
           Here == socket \in A /\ Open
<1>1. /\ UNCHANGED <<socket, isReady, rollingShown, pending>>
      /\ UNCHANGED <<serverEnd, up, clients, loading, serverEvents, version, markets>>
      /\ rolled' = [rolled EXCEPT ![k] = @ + 1]
      /\ down' = DownAfterAll(f)
  BY DEF PublishRolling, clientVars, transportVars, controllerVars
<1>2. /\ Known => IsClient(clients[socket])
      /\ down[socket] \in Seq(Downward)
      /\ Open => Known
  BY InUse
<1>3. /\ rolled[k] \in Nat /\ rolled'[k] \in 0 .. MaxVersion
      /\ \A m \in Markets : rolled'[m] = IF m = k THEN rolled[k] + 1 ELSE rolled[m]
  BY <1>1 DEF TypeOK, TypeOKServer
<1>4. socket \in A => /\ Known /\ clients[socket].isReady = TRUE
                      /\ clients[socket].rolling[k] # NoId
                      /\ clients[socket].rolling[k] \in ClientIds
  BY <1>2 DEF Known, IsClient
<1>5. socket \in A => isReady = TRUE /\ clientEnd[socket] = "open"
  BY <1>4, Greeted
<1>6. socket \in A => /\ x \in Downward /\ x.type = "marketRollingUpdated"
                      /\ x.clientId = clients[socket].rolling[k]
                      /\ x.market = k /\ x.version = rolled[k] + 1
  <2>1. rolled[k] + 1 \in 0 .. MaxVersion
    BY <1>3
  <2> QED
    BY <1>4, <2>1, MessagesTyped DEF RollingMessage
<1>7. /\ Here => down'[socket] = Put(down[socket], x)
      /\ ~ Here => down'[socket] = down[socket]
  <2>1. DOMAIN f = A /\ (socket \in A => f[socket] = <<x>>)
    OBVIOUS
  <2> HIDE DEF A, f, x
  <2> QED
    BY <1>1, <1>5, <2>1, SentToAll
<1>8. Here => /\ Known /\ clients[socket].isReady = TRUE
              /\ isReady = TRUE
              /\ x \in Downward /\ x.type = "marketRollingUpdated"
              /\ x.clientId = clients[socket].rolling[k]
              /\ x.market = k /\ x.version = rolled[k] + 1
  BY <1>4, <1>5, <1>6
<1>9. Open /\ ~ Here => clients[socket].rolling[k] = NoId
  <2>1. Open /\ clients[socket].rolling[k] # NoId => clients[socket].isReady = TRUE
    BY DEF ServerSide, RollingsReached, RollingReached
  <2> QED
    BY <1>2, <2>1 DEF Known
<1>10. (Here => Open) /\ (Open' <=> Open) /\ Here \in BOOLEAN
  BY <1>1 DEF Open
<1>11. Here => /\ x \in RollingsOf(k)
               /\ \A m : m # k => x \notin RollingsOf(m)
  BY <1>8, RollingKinds
<1> HIDE DEF A, f, x, Here
<1>12. ASSUME NEW m \in Markets, m # k PROVE RollingReached(m)'
  <2>1. RollingReached(m)
    BY <1>12 DEF ServerSide, RollingsReached
  <2>2. \/ down'[socket] = down[socket]
        \/ \E y \in Downward : y \notin RollingsOf(m)
                                 /\ down'[socket] = Put(down[socket], y)
    BY <1>7, <1>8, <1>11, <1>12
  <2> QED
    BY <1>1, <1>3, <1>10, <1>12, <2>1, <2>2, RollingStays
<1>13. RollingReached(k)'
  <2>1. RollingReached(k)
    BY DEF ServerSide, RollingsReached
  <2>2. \A y \in ToSet(down[socket]) : y \in RollingsOf(k) => y.version \in 1 .. rolled[k] + 1
    BY <1>3, <2>1 DEF RollingReached
  <2>3. \A y \in ToSet(down'[socket]) : y \in ToSet(down[socket]) \/ (Here /\ y = x)
    BY <1>2, <1>7, <1>8, AmongPut
  <2>4. rolled[k] + 1 \in 1 .. rolled[k] + 1
    BY <1>3
  <2>5. \A y \in ToSet(down'[socket]) : y \in RollingsOf(k) => y.version \in 1 .. rolled'[k]
    BY <1>3, <1>8, <2>2, <2>3, <2>4
  <2>6. Here => Reaches(down'[socket], RollingsOf(k), x.clientId, x.version, pending[k],
                        rollingShown[k])
    BY <1>2, <1>7, <1>8, <1>11, ReachesSent
  <2> QED
    BY <1>1, <1>3, <1>8, <1>9, <1>10, <2>5, <2>6 DEF RollingReached
<1>14. RollingsReached'
  <2>1. \A m \in Markets : rollingShown[m] <= rolled'[m]
    <3>1. \A m \in Markets : /\ rollingShown[m] \in Nat /\ rolled[m] \in Nat
                             /\ rollingShown[m] <= rolled[m]
      BY DEF TypeOK, TypeOKClient, TypeOKServer, ServerSide, RollingsReached
    <3> QED
      BY <1>3, <3>1
  <2>2. \A m \in Markets : RollingReached(m)'
    BY <1>12, <1>13
  <2> QED
    BY <1>1, <2>1, <2>2 DEF RollingsReached
<1>15. ListReached'
  <2>1. \/ down'[socket] = down[socket]
        \/ \E y \in Downward : y.type # "marketsUpdated"
                                 /\ down'[socket] = Put(down[socket], y)
    BY <1>7, <1>8
  <2> QED
    BY <1>1, <1>10, <2>1, ListStays DEF ServerSide
<1>16. CASE Here
  BY <1>1, <1>7, <1>8, <1>10, <1>14, <1>15, <1>16, PublishedKeeps
<1>17. CASE ~ Here
  <2>1. RollingMessage(1, k, 0) \in Downward
          /\ RollingMessage(1, k, 0).type = "marketRollingUpdated"
    <3>1. 0 \in 0 .. MaxVersion
      BY <1>3, NoStorageNatural
    <3> QED
      BY <3>1, MessagesTyped, ClientIdsGoOn DEF RollingMessage
  <2> QED
    BY <1>1, <1>7, <1>10, <1>14, <1>15, <1>17, <2>1, PublishedKeeps
<1> QED
  BY <1>16, <1>17

\* broadcastMarketsUpdated keeps the invariant.
LEMMA BroadcastMarketsKeeps ==
  ASSUME TypeOK, TypeOK', Ends, Ends', ServerSide,
         BroadcastMarkets, UNCHANGED clientVars, socket \in Sockets
  PROVE  ServerSide'
<1> DEFINE A == {s \in DOMAIN clients : clients[s].isReady /\ clients[s].marketInfo}
           x == MarketsUpdated(markets + 1)
           f == [s \in A |-> <<x>>]
           Here == socket \in A /\ Open
<1>1. /\ UNCHANGED <<socket, isReady, rollingShown, marketList>>
      /\ UNCHANGED <<serverEnd, up, clients, loading, serverEvents, version, rolled>>
      /\ markets' = markets + 1
      /\ down' = DownAfterAll(f)
  BY DEF BroadcastMarkets, clientVars, transportVars, controllerVars,
       sessionVars
<1>2. /\ Known => IsClient(clients[socket])
      /\ down[socket] \in Seq(Downward)
      /\ Open => Known
  BY InUse
<1>3. markets + 1 \in 1 .. MaxMarkets
  BY <1>1 DEF TypeOK, TypeOKServer
<1>4. socket \in A => Known /\ clients[socket].isReady = TRUE
  BY <1>2 DEF Known, IsClient
<1>5. socket \in A => isReady = TRUE /\ clientEnd[socket] = "open"
  BY <1>4, Greeted
<1>6. x \in Downward /\ x.type = "marketsUpdated" /\ x.markets = markets + 1
  BY <1>3, MessagesTyped DEF MarketsUpdated
<1>7. /\ Here => down'[socket] = Put(down[socket], x)
      /\ ~ Here => down'[socket] = down[socket]
  <2>1. DOMAIN f = A /\ (socket \in A => f[socket] = <<x>>)
    OBVIOUS
  <2> HIDE DEF A, f, x
  <2> QED
    BY <1>1, <1>5, <2>1, SentToAll
<1>8. Open /\ clients[socket].isReady = TRUE /\ clients[socket].marketInfo = TRUE => Here
  BY <1>2 DEF Known
<1>9. Here \in BOOLEAN /\ (Here => isReady = TRUE) /\ (Open' <=> Open)
  BY <1>1, <1>5 DEF Open
<1> HIDE DEF A, f, x, Here
<1>10. x \in MarketLists /\ \A m : x \notin RollingsOf(m)
  BY <1>6, MessageKinds, RollingKinds
<1>11. RollingsReached'
  <2>1. ASSUME NEW m \in Markets PROVE RollingReached(m)'
    <3>1. RollingReached(m)
      BY DEF ServerSide, RollingsReached
    <3>2. \/ down'[socket] = down[socket]
          \/ \E y \in Downward : y \notin RollingsOf(m)
                                   /\ down'[socket] = Put(down[socket], y)
      BY <1>6, <1>7, <1>9, <1>10
    <3> QED
      BY <1>1, <1>9, <3>1, <3>2, RollingStays
  <2> QED
    BY <1>1, <2>1 DEF RollingsReached, ServerSide
<1>12. ListReached'
  <2>1. Here => ListReaches(down'[socket], marketList, markets')
    BY <1>1, <1>2, <1>6, <1>7, <1>10, ListSent
  <2> QED
    BY <1>1, <1>8, <1>9, <2>1 DEF ListReached, ServerSide
<1> QED
  BY <1>1, <1>6, <1>7, <1>9, <1>11, <1>12, PublishedKeeps

\* A request of an earlier socket, or one that is ignored
\* (handleStorageFullSyncRequest of a client that is not ready).
LEMMA HandleRequestFullSyncElsewhere ==
  ASSUME NEW s \in Sockets, TypeOK, Ends, ServerSide, HandleRequestFullSync(s),
         UNCHANGED clientVars, ~ (s = socket /\ Accepted(s, Head(up[s])))
  PROVE  Unnoticed
<1>1. /\ socket' = socket
      /\ UNCHANGED <<serverEnd, down, clients, loading, version, rolled, markets>>
      /\ ServerReceives(s, "requestFullSync") /\ Take(s)
  BY DEF HandleRequestFullSync, AfterRequest, clientVars, transportVars
<1>2. Known' => Known /\ Fades(clients[socket], clients'[socket])
  BY <1>1, FadesNot DEF Known
<1>3. CASE ~ Accepted(s, Head(up[s]))
  <2>1. UNCHANGED serverEvents /\ Replies(s, "requestFullSync")
    BY <1>1, <1>3 DEF HandleRequestFullSync, Replies
  <2> QED
    BY <1>1, <1>2, <2>1, PlainTaken
<1>4. CASE s # socket
  <2>1. socket \in Sockets => up'[socket] = up[socket]
    BY <1>1, <1>4, TakenFrom
  <2>2. EventIds(socket)' \subseteq EventIds(socket)
    <3>1. \/ serverEvents' = serverEvents
          \/ \E id : serverEvents' = With(serverEvents, nextEventId, PendingEvent(s, id))
      BY DEF HandleRequestFullSync
    <3>2. CASE serverEvents' = serverEvents
      BY <1>1, <3>2, EventsStay
    <3>3. ASSUME NEW id,
                 serverEvents' = With(serverEvents, nextEventId, PendingEvent(s, id))
          PROVE  EventIds(socket)' \subseteq EventIds(socket)
      BY <1>1, <1>4, <3>3, EventsStay DEF With, PendingEvent
    <3> QED
      BY <3>1, <3>2, <3>3
  <2> QED
    BY <1>1, <1>2, <2>1, <2>2, NothingSaid DEF Open
<1> QED
  BY <1>3, <1>4

\* The messages of the browser.
LEMMA HandleClientMessageKeeps ==
  ASSUME NEW s \in Sockets, TypeOK, TypeOK', Ends, Ends', ServerSide,
         HandleClientMessage(s), UNCHANGED clientVars
  PROVE  ServerSide'
<1>1. CASE HandleClientPing(s)
  BY <1>1, HandleClientPingUnnoticed, ServerSideStays
<1>2. CASE HandleClientPong(s)
  BY <1>2, HandleClientPongUnnoticed, ServerSideStays
<1>3. CASE HandleWebSocketReady(s)
  <2>1. CASE s = socket
    BY <1>3, <2>1, HandleWebSocketReadyKeeps
  <2>2. CASE s # socket
    <3>1. /\ ServerReceives(s, "webSocketReady") /\ Take(s) /\ down' = down
          /\ UNCHANGED <<serverEnd, serverEvents, loading, version, rolled, markets>>
          /\ \E c : clients' = [clients EXCEPT ![s] = c]
      BY <1>3 DEF HandleWebSocketReady, serviceVars
    <3>2. Unnoticed
      BY <2>2, <3>1, TakenElsewhere
    <3> QED
      BY <3>2, ServerSideStays
  <2> QED
    BY <2>1, <2>2
<1>4. CASE HandleRequestSettings(s)
  BY <1>4, HandleRequestSettingsUnnoticed, ServerSideStays
<1>5. CASE HandleRequestStorageEntities(s)
  BY <1>5, HandleRequestStorageEntitiesUnnoticed, ServerSideStays
<1>6. CASE HandleSetMarketInfo(s)
  <2>1. CASE s = socket
    BY <1>6, <2>1, HandleSetMarketInfoKeeps
  <2>2. CASE s # socket
    <3>1. /\ ServerReceives(s, "setMarketInfo") /\ Take(s)
          /\ \E r : down' = DownAfter(s, r)
          /\ UNCHANGED <<serverEnd, serverEvents, loading, version, rolled, markets>>
          /\ \E c : clients' = [clients EXCEPT ![s] = c]
      BY <1>6 DEF HandleSetMarketInfo, serviceVars
    <3>2. Unnoticed
      BY <2>2, <3>1, TakenElsewhere
    <3> QED
      BY <3>2, ServerSideStays
  <2> QED
    BY <2>1, <2>2
<1>7. CASE HandleRequestFullSync(s)
  <2>1. CASE s = socket /\ Accepted(s, Head(up[s]))
    BY <1>7, <2>1, HandleRequestFullSyncKeeps
  <2>2. CASE ~ (s = socket /\ Accepted(s, Head(up[s])))
    <3>1. Unnoticed
      BY <1>7, <2>2, HandleRequestFullSyncElsewhere
    <3> QED
      BY <3>1, ServerSideStays
  <2> QED
    BY <2>1, <2>2
<1>8. CASE HandleRemoveStatistics(s)
  BY <1>8, HandleRemoveStatisticsUnnoticed, ServerSideStays
<1>9. CASE HandleAddRolling(s)
  <2>1. CASE s = socket
    BY <1>9, <2>1, HandleAddRollingKeeps
  <2>2. CASE s # socket
    <3>1. /\ ServerReceives(s, "addRolling") /\ Take(s)
          /\ \E r : down' = DownAfter(s, r)
          /\ UNCHANGED <<serverEnd, serverEvents, loading, version, rolled, markets>>
          /\ \E c : clients' = [clients EXCEPT ![s] = c]
      BY <1>9 DEF HandleAddRolling, serviceVars
    <3>2. Unnoticed
      BY <2>2, <3>1, TakenElsewhere
    <3> QED
      BY <3>2, ServerSideStays
  <2> QED
    BY <2>1, <2>2
<1>10. CASE HandleRemoveRolling(s)
  BY <1>10, HandleRemoveRollingUnnoticed, ServerSideStays
<1> QED
  BY <1>1, <1>2, <1>3, <1>4, <1>5, <1>6, <1>7, <1>8, <1>9, <1>10
     DEF HandleClientMessage

\* Rolling statistics that are shown are not newer than the server's.
LEMMA RollingStillShown ==
  ASSUME TypeOK, ServerSide, NEW k \in Markets,
         rolled' = rolled \/ rolled' = [rolled EXCEPT ![k] = @ + 1]
  PROVE  \A m \in Markets : rollingShown[m] <= rolled'[m]
<1>1. \A m \in Markets : /\ rollingShown[m] \in Nat /\ rolled[m] \in Nat
                         /\ rollingShown[m] <= rolled[m]
  BY DEF TypeOK, TypeOKClient, TypeOKServer, ServerSide, RollingsReached
<1>2. \A m \in Markets : rolled'[m] = rolled[m] \/ rolled'[m] = rolled[m] + 1
  BY DEF TypeOK, TypeOKServer
<1> QED
  BY <1>1, <1>2

\* Every step of the server keeps what both ends know of each other.
LEMMA ServerSideNext ==
  ASSUME TypeOK, TypeOK', Ends, Ends', ServerSide, ServerNext, UNCHANGED clientVars
  PROVE  ServerSide'
<1>1. ASSUME NEW s \in Sockets, Accept(s) PROVE ServerSide'
  <2>1. CASE s = socket
    BY <1>1, <2>1, AcceptKeeps
  <2>2. CASE s # socket
    BY <1>1, <2>2, AcceptElsewhere, ServerSideStays
  <2> QED
    BY <2>1, <2>2
<1>2. ASSUME NEW s \in Sockets, ServerNoticesClose(s) PROVE ServerSide'
  BY <1>2, ServerNoticesCloseUnnoticed, ServerSideStays
<1>3. ASSUME NEW s \in Sockets, ServerCloseEvent(s) PROVE ServerSide'
  BY <1>3, ServerCloseEventUnnoticed, ServerSideStays
<1>4. ASSUME NEW s \in Sockets, HandleClientMessage(s) PROVE ServerSide'
  BY <1>4, HandleClientMessageKeeps
<1>5. ASSUME NEW s \in Sockets, SettingsLoaded(s) PROVE ServerSide'
  BY <1>5, SettingsLoadedUnnoticed, ServerSideStays
<1>6. ASSUME NEW r \in requests, AnswerFullSync(r) PROVE ServerSide'
  <2>1. CASE socket \in Sockets /\ SentHere(r)
    BY <1>6, <2>1, AnswerKeeps
  <2>2. CASE ~ SentHere(r)
    BY <1>6, <2>2, AnswerElsewhere, ServerSideStays
  <2>3. CASE socket \notin Sockets
    <3>1. rolled' = rolled
      BY <1>6 DEF AnswerFullSync
    <3>2. \A m \in Markets : rollingShown[m] <= rolled'[m]
      BY <3>1 DEF ServerSide, RollingsReached
    <3> QED
      BY <2>3, <3>2, WithoutSocket
  <2> QED
    BY <2>1, <2>2, <2>3
<1>7. ASSUME NEW e \in DOMAIN serverEvents, Expire(e) PROVE ServerSide'
  BY <1>7, ExpireUnnoticed, ServerSideStays
<1>8. CASE ClearExpiredServerEvents
  BY <1>8, ClearExpiredUnnoticed, ServerSideStays
<1>9. ASSUME NEW m \in Markets, Tick(m) PROVE ServerSide'
  <2>1. CASE socket \in Sockets
    BY <1>9, <2>1, TickKeeps
  <2>2. CASE socket \notin Sockets
    <3>1. rolled' = rolled
      BY <1>9 DEF Tick
    <3> QED
      BY <2>2, <3>1, RollingStillShown, WithoutSocket
  <2> QED
    BY <2>1, <2>2
<1>10. ASSUME NEW m \in Markets, PublishRolling(m) PROVE ServerSide'
  <2>1. CASE socket \in Sockets
    BY <1>10, <2>1, PublishRollingKeeps
  <2>2. CASE socket \notin Sockets
    <3>1. rolled' = [rolled EXCEPT ![m] = @ + 1]
      BY <1>10 DEF PublishRolling
    <3>2. \A k \in Markets : rollingShown[k] <= rolled'[k]
      BY <3>1, RollingStillShown
    <3> QED
      BY <2>2, <3>2, WithoutSocket
  <2> QED
    BY <2>1, <2>2
<1>11. CASE BroadcastMarkets
  <2>1. CASE socket \in Sockets
    BY <1>11, <2>1, BroadcastMarketsKeeps
  <2>2. CASE socket \notin Sockets
    <3>1. rolled' = rolled
      BY <1>11 DEF BroadcastMarkets
    <3>2. \A k \in Markets : rollingShown[k] <= rolled'[k]
      BY <3>1 DEF ServerSide, RollingsReached
    <3> QED
      BY <2>2, <3>2, WithoutSocket
  <2> QED
    BY <2>1, <2>2
<1>12. CASE ServerPing
  BY <1>12, ServerPingUnnoticed, ServerSideStays
<1>13. CASE ServerRestarts
  BY <1>13, ServerRestartsUnnoticed, ServerSideStays
<1> QED
  BY <1>1, <1>2, <1>3, <1>4, <1>5, <1>6, <1>7, <1>8, <1>9, <1>10, <1>11, <1>12,
       <1>13
     DEF ServerNext

-----------------------------------------------------------------------------
(* Every step of the server, and of the network.                           *)

\* Every step of the server keeps the types.
LEMMA ServerTypes ==
  ASSUME TypeOKNetwork, TypeOKServer, ServerNext, UNCHANGED scenario
  PROVE  TypeOKNetwork' /\ TypeOKServer'
<1>1. ASSUME NEW s \in Sockets, HandleClientMessage(s)
      PROVE  TypeOKNetwork' /\ TypeOKServer'
  BY <1>1, HandleClientPingTypes, HandleClientPongTypes,
       HandleWebSocketReadyTypes,
     HandleRequestSettingsTypes, HandleRequestStorageEntitiesTypes,
     HandleSetMarketInfoTypes, HandleRequestFullSyncTypes,
     HandleRemoveStatisticsTypes, HandleAddRollingTypes, HandleRemoveRollingTypes
     DEF HandleClientMessage
<1>2. ASSUME NEW s \in Sockets,
             \/ Accept(s) \/ ServerNoticesClose(s) \/ ServerCloseEvent(s)
             \/ SettingsLoaded(s)
      PROVE  TypeOKNetwork' /\ TypeOKServer'
  BY <1>2, AcceptTypes, ServerNoticesCloseTypes, ServerCloseEventTypes,
     SettingsLoadedTypes
<1>3. ASSUME NEW r, AnswerFullSync(r) PROVE TypeOKNetwork' /\ TypeOKServer'
  BY <1>3, AnswerFullSyncTypes
<1>4. ASSUME NEW e, Expire(e) PROVE TypeOKNetwork' /\ TypeOKServer'
  BY <1>4, ExpireTypes
<1>5. ASSUME NEW m \in Markets, Tick(m) \/ PublishRolling(m)
      PROVE  TypeOKNetwork' /\ TypeOKServer'
  BY <1>5, TickTypes, PublishRollingTypes
<1>6. CASE ClearExpiredServerEvents \/ BroadcastMarkets \/ ServerPing \/ ServerRestarts
  BY <1>6, ClearExpiredServerEventsTypes, BroadcastMarketsTypes,
       ServerPingTypes,
     ServerRestartsTypes
<1> QED
  BY <1>1, <1>2, <1>3, <1>4, <1>5, <1>6 DEF ServerNext

\* Every step of the server keeps the state of the sockets.
LEMMA ServerEnds ==
  ASSUME TypeOK, TypeOK', Ends, ServerNext, UNCHANGED clientVars
  PROVE  Ends'
<1>1. ASSUME NEW s \in Sockets, HandleClientMessage(s)
      PROVE  Ends'
  BY <1>1, HandleClientPingEnds, HandleClientPongEnds, HandleWebSocketReadyEnds,
     HandleRequestSettingsEnds, HandleRequestStorageEntitiesEnds,
     HandleSetMarketInfoEnds, HandleRequestFullSyncEnds,
     HandleRemoveStatisticsEnds, HandleAddRollingEnds, HandleRemoveRollingEnds
     DEF HandleClientMessage
<1>2. ASSUME NEW s \in Sockets,
             \/ Accept(s) \/ ServerNoticesClose(s) \/ ServerCloseEvent(s)
             \/ SettingsLoaded(s)
      PROVE  Ends'
  BY <1>2, AcceptEnds, ServerNoticesCloseEnds, ServerCloseEventEnds,
     SettingsLoadedEnds
<1>3. ASSUME NEW r \in requests, AnswerFullSync(r) PROVE Ends'
  BY <1>3, AnswerFullSyncEnds
<1>4. ASSUME NEW e \in DOMAIN serverEvents, Expire(e) PROVE Ends'
  BY <1>4, ExpireEnds
<1>5. ASSUME NEW m \in Markets, Tick(m) \/ PublishRolling(m)
      PROVE  Ends'
  BY <1>5, TickEnds, PublishRollingEnds
<1>6. CASE ClearExpiredServerEvents \/ BroadcastMarkets \/ ServerPing \/ ServerRestarts
  BY <1>6, ClearExpiredServerEventsEnds, BroadcastMarketsEnds, ServerPingEnds,
     ServerRestartsEnds
<1> QED
  BY <1>1, <1>2, <1>3, <1>4, <1>5, <1>6 DEF ServerNext

\* A step of the server leaves the view of the browser.
LEMMA ViewStays ==
  View /\ UNCHANGED clientVars => View'
BY DEF View, clientVars, transportVars, sessionVars, viewVars, controllerVars,
       AnswersOfOneSession, ShownIsSynchronized

\* The browser's types when nothing of it changes.
LEMMA ClientTypesStay ==
  TypeOKClient /\ UNCHANGED clientVars => TypeOKClient'
BY DEF TypeOKClient, clientVars, transportVars, pageVars, sessionVars, viewVars,
       controllerVars

\* The server's types when nothing of it changes.
LEMMA ServerTypesStay ==
  TypeOKServer /\ UNCHANGED serverVars => TypeOKServer'
BY DEF TypeOKServer, serverVars

\* Every step of the server keeps the invariant.
LEMMA ServerStep ==
  ASSUME IInv, ServerNext, UNCHANGED <<clientVars, scenario>>
  PROVE  IInv'
<1>1. TypeOK /\ Ends /\ View /\ ServerSide
  BY DEF IInv
<1>2. TypeOK'
  BY <1>1, ServerTypes, ClientTypesStay DEF TypeOK
<1>3. Ends'
  BY <1>1, <1>2, ServerEnds
<1>4. View'
  BY <1>1, ViewStays
<1>5. ServerSide'
  BY <1>1, <1>2, <1>3, ServerSideNext
<1> QED
  BY <1>2, <1>3, <1>4, <1>5 DEF IInv

\* A connection that dies keeps the invariant.
LEMMA NetworkStep ==
  ASSUME IInv, Network, UNCHANGED <<serverVars, clientVars, scenario>>
  PROVE  IInv'
<1>1. TypeOK /\ Ends /\ View /\ ServerSide
  BY DEF IInv
<1>2. PICK s \in Sockets : LinkDies(s)
  BY DEF Network
<1>3. TypeOKNetwork'
  BY <1>1, <1>2 DEF TypeOK, TypeOKNetwork, LinkDies
<1>4. TypeOK'
  BY <1>1, <1>3, ClientTypesStay, ServerTypesStay DEF TypeOK
<1>5. Ends'
  BY <1>1, <1>2, LinkDiesEnds
<1>6. View'
  BY <1>1, ViewStays
<1>7. Unnoticed
  BY <1>1, <1>2, LinkDiesUnnoticed
<1>8. ServerSide'
  BY <1>1, <1>4, <1>5, <1>7, ServerSideStays
<1> QED
  BY <1>4, <1>5, <1>6, <1>8 DEF IInv

-----------------------------------------------------------------------------
(* The end of a session.                                                   *)

\* The pages are hidden: nothing is asked for or shown any more.
LEMMA PagesHidden ==
  ASSUME TypeOK, View, HidePages
  PROVE  /\ shown' = FALSE /\ mounted' = {}
         /\ \A m \in Markets : pending'[m] = {}
         /\ \A m \in Markets : storage'[m] \in {storage[m], NoStorage}
         /\ \A m \in Markets : rollingShown'[m] \in {rollingShown[m], 0}
<1>1. \A m \in Markets : m \notin mounted => pending[m] = {}
  BY DEF View
<1> QED
  BY <1>1 DEF HidePages, UnmountAll

\* What is left of the invariant when the socket is dropped, with
\* emitConnectionState(false) or without it (a pong that is late).
LEMMA SessionEnds ==
  ASSUME TypeOK, View, ServerSide, UNCHANGED rolled,
         socket' = NoSocket, isReady' = FALSE,
         \/ ClearSessionState /\ HidePages
         \/ UNCHANGED <<nextClientId, sessionVars, viewVars, controllerVars>>
  PROVE  View' /\ ServerSide'
<1>1. socket' \notin Sockets
  BY DEF NoSocket, Sockets
<1>2. \A m \in Markets : m \notin mounted' => pending'[m] = {}
  <2>1. CASE HidePages
    BY <2>1, PagesHidden
  <2>2. CASE UNCHANGED controllerVars
    BY <2>2 DEF View, controllerVars
  <2> QED
    BY <2>1, <2>2
<1>3. ShownIsSynchronized'
  <2>1. CASE HidePages
    BY <2>1, PagesHidden DEF ShownIsSynchronized
  <2>2. CASE UNCHANGED <<nextClientId, sessionVars, viewVars, controllerVars>>
    BY <2>2 DEF View, ShownIsSynchronized, sessionVars, viewVars, controllerVars
  <2> QED
    BY <2>1, <2>2
<1>4. View'
  BY <1>2, <1>3 DEF View, AnswersOfOneSession
<1>5. \A m \in Markets : rollingShown'[m] <= rolled'[m]
  <2>1. \A m \in Markets : rollingShown[m] <= rolled[m] /\ rolled[m] \in Nat
    BY DEF ServerSide, RollingsReached, TypeOK, TypeOKServer
  <2>2. \A m \in Markets : rollingShown'[m] \in {rollingShown[m], 0}
    <3>1. CASE HidePages
      BY <3>1, PagesHidden
    <3>2. CASE UNCHANGED controllerVars
      BY <3>2 DEF controllerVars
    <3> QED
      BY <3>1, <3>2
  <2> QED
    BY <2>1, <2>2
<1>6. Sessions'
  <2>1. lastServerId' # 0 => entities' = TRUE
    <3>1. CASE ClearSessionState
      BY <3>1 DEF ClearSessionState
    <3>2. CASE UNCHANGED sessionVars
      BY <3>2 DEF ServerSide, Sessions, sessionVars
    <3> QED
      BY <3>1, <3>2
  <2> QED
    BY <2>1 DEF Sessions
<1>7. IdsGiven'
  <2>1. \A m \in Markets : \A id \in pending'[m] : id < nextClientId'
    <3>1. CASE HidePages
      BY <3>1, PagesHidden
    <3>2. CASE UNCHANGED <<nextClientId, sessionVars, viewVars, controllerVars>>
      BY <3>2 DEF ServerSide, IdsGiven, controllerVars
    <3> QED
      BY <3>1, <3>2
  <2> QED
    BY <1>1, <2>1 DEF IdsGiven
<1> QED
  BY <1>1, <1>4, <1>5, <1>6, <1>7 DEF ServerSide, NotGreeted, StoragesReached,
     AskedReady, ListReached, RollingsReached

-----------------------------------------------------------------------------
(* Types after a step of the browser; the end of a session, and a new one. *)

\* Every step of the browser keeps the types.
LEMMA ClientTypes ==
  ASSUME NEW r \in 1 .. 2, TypeOKNetwork, TypeOKClient, ClientNext(r),
         UNCHANGED scenario
  PROVE  TypeOKNetwork' /\ TypeOKClient'
<1>1. ASSUME NEW s \in Sockets, HandleServerMessage(s)
      PROVE  TypeOKNetwork' /\ TypeOKClient'
  BY <1>1, HandleServerHelloTypes, HandleHelloOfNewReleaseTypes,
     HandleServerPongTypes, HandleServerPingTypes, HandleSettingsLoadedTypes,
     HandleMarketsUpdatedTypes, HandleStorageEntitiesLoadedTypes,
     HandleMarketRollingUpdatedTypes, HandleSnapshotTypes, HandleDeltaTypes
     DEF HandleServerMessage
<1>2. ASSUME NEW s \in Sockets, SocketCloses(s)
      PROVE  TypeOKNetwork' /\ TypeOKClient'
  BY <1>2, SocketClosesTypes
<1>3. ASSUME NEW m \in Markets, Mount(m) \/ Unmount(m)
      PROVE  TypeOKNetwork' /\ TypeOKClient'
  BY <1>3, MountTypes, UnmountTypes
<1>4. CASE Connect \/ PongTimeout \/ SendClientPing \/ UserReloads(r) \/ Remount
  BY <1>4, ConnectTypes, PongTimeoutTypes, SendClientPingTypes,
       UserReloadsTypes,
     RemountTypes
<1> QED
  BY <1>1, <1>2, <1>3, <1>4 DEF ClientNext

\* A step that ends the session leaves the rest of the invariant.
LEMMA EndOfSession ==
  ASSUME IInv, UNCHANGED <<serverVars, serverEnd, up>>,
         CloseSocketIfAny, Disconnected,
         \/ ClearSessionState /\ HidePages
         \/ UNCHANGED <<nextClientId, sessionVars, viewVars, controllerVars>>
  PROVE  Ends' /\ View' /\ ServerSide'
<1>1. TypeOK /\ Ends /\ View /\ ServerSide
  BY DEF IInv
<1>2. EndsTyped /\ DownTyped
  BY <1>1, NetworkTyped DEF TypeOK
<1>3. Ends'
  BY <1>1, <1>2, EndsClose
<1>4. socket' = NoSocket /\ isReady' = FALSE /\ UNCHANGED rolled
  BY DEF Disconnected, serverVars
<1> QED
  BY <1>1, <1>3, <1>4, SessionEnds

\* handleClose keeps the invariant.
LEMMA SocketClosesKeeps ==
  ASSUME IInv, NEW s \in Sockets, SocketCloses(s), UNCHANGED serverVars
  PROVE  Ends' /\ View' /\ ServerSide'
<1>1. /\ CloseSocketIfAny /\ Disconnected /\ ClearSessionState /\ HidePages
      /\ UNCHANGED <<serverVars, serverEnd, up>>
  BY DEF SocketCloses, CloseSocketIfAny
<1> QED
  BY <1>1, EndOfSession

\* The timer of sendClientPing keeps the invariant.
LEMMA PongTimeoutKeeps ==
  ASSUME IInv, PongTimeout, UNCHANGED serverVars
  PROVE  Ends' /\ View' /\ ServerSide'
<1>1. /\ CloseSocketIfAny /\ Disconnected
      /\ UNCHANGED <<serverVars, serverEnd, up>>
      /\ UNCHANGED <<nextClientId, sessionVars, viewVars, controllerVars>>
  BY DEF PongTimeout, Reconnect, CloseSocketIfAny, pageVars
<1> QED
  BY <1>1, EndOfSession

\* A page that is loaded again keeps the invariant.
LEMMA UserReloadsKeeps ==
  ASSUME IInv, NEW r, UserReloads(r), UNCHANGED serverVars
  PROVE  Ends' /\ View' /\ ServerSide'
<1>1. /\ CloseSocketIfAny /\ Disconnected /\ ClearSessionState /\ HidePages
      /\ UNCHANGED <<serverVars, serverEnd, up>>
  BY DEF UserReloads, LoadPage
<1> QED
  BY <1>1, EndOfSession

\* stop and start of the controller keeps the invariant.
LEMMA RemountKeeps ==
  ASSUME IInv, Remount, UNCHANGED serverVars
  PROVE  Ends' /\ View' /\ ServerSide'
<1>1. /\ CloseSocketIfAny /\ Disconnected /\ ClearSessionState /\ HidePages
      /\ UNCHANGED <<serverVars, serverEnd, up>>
  BY DEF Remount, CloseSocketIfAny
<1> QED
  BY <1>1, EndOfSession

\* The hello of a new release keeps the invariant.
LEMMA HandleHelloOfNewReleaseKeeps ==
  ASSUME IInv, NEW s \in Sockets, HandleHelloOfNewRelease(s), UNCHANGED serverVars
  PROVE  Ends' /\ View' /\ ServerSide'
<1>1. /\ CloseSocketIfAny /\ Disconnected /\ ClearSessionState /\ HidePages
      /\ UNCHANGED <<serverVars, serverEnd, up>>
  BY DEF HandleHelloOfNewRelease, ClientReceives, CloseSocketIfAny, LoadPage
<1> QED
  BY <1>1, EndOfSession

\* connect keeps the invariant.
LEMMA ConnectKeeps ==
  ASSUME IInv, Connect, UNCHANGED serverVars
  PROVE  Ends' /\ View' /\ ServerSide'
<1>1. TypeOK /\ Ends /\ View /\ ServerSide
  BY DEF IInv
<1>2. PICK s \in Sockets : clientEnd[s] = "none" /\ socket' = s
  BY DEF Connect
<1>3. /\ UNCHANGED <<serverEnd, up, down, isReady>>
      /\ UNCHANGED <<clients, serverEvents, loading, version, rolled, markets>>
      /\ UNCHANGED <<nextClientId, lastServerId, entities, marketList, sync, shown,
                     mounted, storage, pending, rollingShown>>
  BY DEF Connect, serverVars, pageVars, sessionVars, viewVars, controllerVars
<1>4. Ends'
  BY <1>1, ConnectEnds
<1>5. isReady = FALSE
  <2>1. socket = NoSocket /\ NoSocket \notin Sockets
    BY <1>1 DEF Ends, Connect, NoSocket, Sockets
  <2> QED
    BY <1>1, <2>1 DEF Ends, TypeOK, TypeOKClient
<1>6. View'
  BY <1>1, <1>3, <1>5 DEF View, AnswersOfOneSession, ShownIsSynchronized
<1>7. /\ serverEnd[s] = "none" /\ s \notin loading /\ up[s] = <<>> /\ down[s] = <<>>
      /\ s \notin DOMAIN clients
      /\ \A e \in DOMAIN serverEvents : serverEvents[e].socket # s
  BY <1>1, <1>2 DEF Ends, SocketOK, PendingOfConnected
<1>8. /\ ToSet(up'[socket']) = {} /\ ToSet(down'[socket']) = {}
      /\ socket' \notin loading' /\ serverEnd'[socket'] = "none"
      /\ ~ Known' /\ ~ Open'
      /\ EventIds(socket)' = {}
      /\ down'[socket'] = <<>>
  BY <1>2, <1>3, <1>7, AmongNone DEF Known, Open, EventIds, EventsOf
<1>9. NotGreeted'
  BY <1>8 DEF NotGreeted
<1>10. Sessions'
  BY <1>1, <1>3, <1>5 DEF ServerSide, Sessions
<1>11. IdsGiven'
  BY <1>1, <1>3, <1>8 DEF ServerSide, IdsGiven
<1>12. ASSUME NEW m \in Markets PROVE StorageReached(m)' /\ RollingReached(m)'
  <2>1. At(<<>>, BinariesOf(m)) = {}
    BY DEF At
  <2>2. DeltasFit(down'[socket'], BinariesOf(m), pending'[m], storage'[m])
    BY <1>8, <2>1, DeltasNone
  <2> QED
    BY <1>8, <2>2 DEF StorageReached, RollingReached
<1>13. StoragesReached' /\ RollingsReached'
  BY <1>1, <1>3, <1>12 DEF ServerSide, StoragesReached, RollingsReached
<1> QED
  BY <1>3, <1>4, <1>5, <1>6, <1>9, <1>10, <1>11, <1>13
     DEF ServerSide, AskedReady, ListReached

-----------------------------------------------------------------------------
(* Steps of the browser that go on with the session, and what they leave.  *)

\* The socket stays, and the server does nothing.
GoesOn == UNCHANGED <<socket, serverEnd, serverVars>>

\* The messages r are sent, or dropped.
Says(r) ==
  \/ up'[socket] = up[socket]
  \/ Open /\ up'[socket] = Join(up[socket], r)

\* The first message is taken, or none is.
Hears ==
  \/ down'[socket] = down[socket]
  \/ down[socket] # <<>> /\ down'[socket] = Rest(down[socket])

\* The server's state when only the browser takes a step.
LEMMA GoneOn ==
  ASSUME GoesOn
  PROVE  /\ socket' = socket /\ clients' = clients /\ version' = version
         /\ rolled' = rolled /\ markets' = markets /\ loading' = loading
         /\ Open' <=> Open
         /\ Known' <=> Known
         /\ EventIds(socket)' = EventIds(socket)
BY DEF GoesOn, serverVars, Open, Known, EventIds, EventsOf

\* sendJson puts the messages behind the others, or drops them.
LEMMA Said ==
  ASSUME TypeOK, NEW r, r \in Seq(ClientMessage), up' = UpAfter(socket, r),
         socket \in Sockets
  PROVE  Says(r)
<1>1. UpTyped
  BY NetworkTyped DEF TypeOK
<1> QED
  BY <1>1 DEF UpAfter, Says, Join, Open, UpTyped

\* What is on its way to the server was so, or has just been said.
LEMMA SaidAmong ==
  ASSUME TypeOK, Ends, socket \in Sockets, NEW r, r \in Seq(ClientMessage), Says(r)
  PROVE  \A x \in ToSet(up'[socket]) : x \in ToSet(up[socket]) \/ x \in ToSet(r)
<1>1. up[socket] \in Seq(ClientMessage)
  BY InUse
<1> QED
  BY <1>1, AmongJoined DEF Says

\* What is on its way to the browser was so.
LEMMA HeardAmong ==
  ASSUME TypeOK, Ends, socket \in Sockets, Hears
  PROVE  /\ \A x \in ToSet(down'[socket]) : x \in ToSet(down[socket])
         /\ down'[socket] \in Seq(Downward)
<1>1. down[socket] \in Seq(Downward)
  BY InUse
<1> QED
  BY <1>1, AmongRest, Shortened DEF Hears

\* Before the hello the browser says nothing of importance.
LEMMA NotGreetedHeard ==
  ASSUME TypeOK, Ends, NotGreeted, socket \in Sockets, GoesOn, isReady' = isReady, Hears,
         NEW r, r \in Seq(ClientMessage), Says(r),
         isReady = FALSE => \A x \in ToSet(r) : x.type \in Ungreeted
  PROVE  NotGreeted'
<1>1. \A x \in ToSet(up'[socket]) : x \in ToSet(up[socket]) \/ x \in ToSet(r)
  BY SaidAmong
<1>2. \A x \in ToSet(down'[socket]) : x \in ToSet(down[socket])
  BY HeardAmong
<1> QED
  BY <1>1, <1>2, GoneOn DEF NotGreeted, Ungreeted

\* A step of the browser uses client ids that this page gave out.
LEMMA IdsHeard ==
  ASSUME TypeOK, TypeOK', Ends, IdsGiven, socket \in Sockets, GoesOn, Hears,
         NEW r, r \in Seq(ClientMessage), Says(r),
         nextClientId <= nextClientId',
         \A m \in Markets : \A id \in pending'[m] : id < nextClientId',
         \A x \in ToSet(r) : x.type \in {"requestFullSync", "addRolling"} =>
                               x.clientId < nextClientId'
  PROVE  IdsGiven'
<1>1. \A x \in ToSet(up'[socket]) : x \in ToSet(up[socket]) \/ x \in ToSet(r)
  BY SaidAmong
<1>2. \A x \in ToSet(down'[socket]) : x \in ToSet(down[socket])
  BY HeardAmong
<1>3. nextClientId \in Nat /\ nextClientId' \in Nat
  BY DEF TypeOK, TypeOKClient, ClientIds
<1>4. \A n \in Nat : n < nextClientId => n < nextClientId'
  BY <1>3
<1>5. /\ \A x \in ToSet(up[socket]) : x.type \in {"requestFullSync", "addRolling"} =>
           x.clientId \in Nat
      /\ \A x \in BinaryMessage : x.clientId \in Nat
  <2>1. up[socket] \in Seq(ClientMessage)
    BY InUse
  <2>2. \A x \in ToSet(up[socket]) : x \in ClientMessage
    BY <2>1, Among
  <2> QED
    BY <2>2, MessageKinds DEF ClientIds
<1>6. \A id \in EventIds(socket) : id \in Nat
  BY DEF TypeOK, TypeOKServer, EventIds, EventsOf, ClientIds
<1>7. Known => \A m \in Markets : /\ clients[socket].statistics[m] \in Nat
                                  /\ clients[socket].rolling[m] \in Nat
  BY InUse DEF IsClient, ClientIds, NoId
<1> QED
  BY <1>1, <1>2, <1>4, <1>5, <1>6, <1>7, GoneOn DEF IdsGiven

\* What the browser asks for comes behind its webSocketReady, and the market
\* list sent last reaches it.
LEMMA AskedHeard ==
  ASSUME TypeOK, Ends, AskedReady, ListReached, socket \in Sockets, GoesOn,
         isReady' = isReady, NEW r, r \in Seq(ClientMessage), Says(r),
         \/ down'[socket] = down[socket] /\ marketList' = marketList
         \/ /\ down[socket] # <<>> /\ down'[socket] = Rest(down[socket])
            /\ marketList' = IF Head(down[socket]) \in MarketLists
                               THEN Head(down[socket]).markets ELSE marketList
  PROVE  AskedReady' /\ ListReached'
<1>1. up[socket] \in Seq(ClientMessage) /\ down[socket] \in Seq(Downward)
  BY InUse
<1>2. /\ ReadyFirst(up[socket], clients[socket].isReady) =>
           ReadyFirst(up'[socket], clients[socket].isReady)
      /\ ListAsked(up[socket]) => ListAsked(up'[socket])
  BY <1>1, ReadyFirstJoined, ListAskedJoined DEF Says
<1>3. ListReaches(down[socket], marketList, markets) =>
        ListReaches(down'[socket], marketList', markets)
  BY <1>1, ListTaken
<1> QED
  BY <1>2, <1>3, GoneOn DEF AskedReady, ListReached

\* Ticks are what the storage of the market holds after the message taken.
LEMMA StorageHeard ==
  ASSUME TypeOK, Ends, IdsGiven, socket \in Sockets, GoesOn,
         NEW m \in Markets, StorageReached(m), NEW ticks,
         \/ down'[socket] = down[socket] /\ ticks = storage[m]
         \/ /\ down[socket] # <<>> /\ down'[socket] = Rest(down[socket])
            /\ Head(down[socket]) \in BinariesOf(m) =>
                 (Head(down[socket]).clientId \in pending[m] =>
                    ticks = Head(down[socket]).version)
            /\ Head(down[socket]) \notin BinariesOf(m) => ticks = storage[m],
         \A id \in pending'[m] : id < nextClientId =>
                                   id \in pending[m] /\ storage'[m] = ticks
  PROVE  StorageReached(m)'
<1> DEFINE q == down[socket]
           r == down'[socket]
           M == BinariesOf(m)
           id == clients[socket].statistics[m]
<1>1. q \in Seq(Downward) /\ (Open => Known)
  BY InUse
<1>2. \A x \in ToSet(r) : x \in ToSet(q)
  BY HeardAmong DEF Hears
<1>3. r \in Seq(Downward)
  BY HeardAmong DEF Hears
<1>4. /\ DeltasFit(q, M, pending[m], storage[m])
      /\ Open /\ id # NoId =>
           /\ clients[socket].isReady = TRUE
           /\ Reaches(q, M, id, version[m], pending[m], storage[m])
  BY DEF StorageReached
<1>5. \A i \in At(r, M) : r[i].clientId < nextClientId
  <2>1. \A i \in At(r, M) : r[i] \in ToSet(q) /\ r[i] \in M
    BY <1>2, <1>3, AtAmong
  <2>2. \A x : x \in M => x \in BinaryMessage
    BY DEF BinariesOf
  <2> QED
    BY <2>1, <2>2 DEF IdsGiven
<1>6. Known => id < nextClientId
  BY DEF IdsGiven
<1>7. CASE r = q /\ ticks = storage[m]
  <2> HIDE DEF q, r, M, id
  <2>1. DeltasFit(r, M, pending'[m], storage'[m])
    BY <1>4, <1>5, <1>7, DeltasOthers
  <2>2. Open /\ id # NoId => Reaches(r, M, id, version[m], pending'[m], storage'[m])
    BY <1>1, <1>4, <1>6, <1>7, ReachesOthers
  <2> QED
    BY <1>4, <2>1, <2>2, GoneOn DEF StorageReached, q, r, M, id
<1>8. CASE /\ q # <<>> /\ r = Rest(q)
           /\ Head(q) \in M => (Head(q).clientId \in pending[m] => ticks = Head(q).version)
           /\ Head(q) \notin M => ticks = storage[m]
  <2> HIDE DEF q, r, M, id
  <2>1. DeltasFit(r, M, pending[m], ticks)
    BY <1>1, <1>4, <1>8, DeltasTaken
  <2>2. DeltasFit(r, M, pending'[m], storage'[m])
    BY <1>5, <2>1, DeltasOthers
  <2>3. Open /\ id # NoId => Reaches(r, M, id, version[m], pending[m], ticks)
    BY <1>1, <1>4, <1>8, ReachesTaken
  <2>4. Open /\ id # NoId => Reaches(r, M, id, version[m], pending'[m], storage'[m])
    BY <1>1, <1>6, <2>3, ReachesOthers
  <2> QED
    BY <1>4, <2>2, <2>4, GoneOn DEF StorageReached, q, r, M, id
<1> QED
  BY <1>7, <1>8

\* The rolling statistics of a market after the message taken.
LEMMA RollingHeard ==
  ASSUME TypeOK, Ends, IdsGiven, socket \in Sockets, GoesOn,
         NEW m \in Markets, RollingReached(m), NEW seen,
         \/ down'[socket] = down[socket] /\ seen = rollingShown[m]
         \/ /\ down[socket] # <<>> /\ down'[socket] = Rest(down[socket])
            /\ Head(down[socket]) \in RollingsOf(m) =>
                 (Head(down[socket]).clientId \in pending[m] =>
                    seen = Head(down[socket]).version)
            /\ Head(down[socket]) \notin RollingsOf(m) => seen = rollingShown[m],
         \A id \in pending'[m] : id < nextClientId =>
                                   id \in pending[m] /\ rollingShown'[m] = seen
  PROVE  RollingReached(m)'
<1> DEFINE q == down[socket]
           r == down'[socket]
           M == RollingsOf(m)
           id == clients[socket].rolling[m]
<1>1. q \in Seq(Downward) /\ (Open => Known)
  BY InUse
<1>2. \A x \in ToSet(r) : x \in ToSet(q)
  BY HeardAmong DEF Hears
<1>3. /\ \A x \in ToSet(q) : x \in M => x.version \in 1 .. rolled[m]
      /\ Open /\ id # NoId =>
           /\ clients[socket].isReady = TRUE
           /\ Reaches(q, M, id, rolled[m], pending[m], rollingShown[m])
  BY DEF RollingReached
<1>4. Known => id < nextClientId
  BY DEF IdsGiven
<1>5. CASE r = q /\ seen = rollingShown[m]
  <2> HIDE DEF q, r, M, id
  <2>2. Open /\ id # NoId => Reaches(r, M, id, rolled[m], pending'[m], rollingShown'[m])
    BY <1>1, <1>3, <1>4, <1>5, ReachesOthers
  <2> QED
    BY <1>2, <1>3, <2>2, GoneOn DEF RollingReached, q, r, M, id
<1>6. CASE /\ q # <<>> /\ r = Rest(q)
           /\ Head(q) \in M => (Head(q).clientId \in pending[m] => seen = Head(q).version)
           /\ Head(q) \notin M => seen = rollingShown[m]
  <2> HIDE DEF q, r, M, id
  <2>3. Open /\ id # NoId => Reaches(r, M, id, rolled[m], pending[m], seen)
    BY <1>1, <1>3, <1>6, ReachesTaken
  <2>4. Open /\ id # NoId => Reaches(r, M, id, rolled[m], pending'[m], rollingShown'[m])
    BY <1>1, <1>4, <2>3, ReachesOthers
  <2> QED
    BY <1>2, <1>3, <2>4, GoneOn DEF RollingReached, q, r, M, id
<1> QED
  BY <1>5, <1>6

\* The counts of packets go on.
LEMMA CountedHeard ==
  ASSUME TypeOK, Ends, socket \in Sockets, GoesOn, Counted,
         \/ down'[socket] = down[socket] /\ lastServerId' = lastServerId
         \/ /\ down[socket] # <<>> /\ down'[socket] = Rest(down[socket])
            /\ lastServerId' = IF Head(down[socket]) \in BinaryMessage
                                 THEN Head(down[socket]).serverId ELSE lastServerId
  PROVE  Counted'
<1>1. down[socket] \in Seq(Downward)
  BY InUse
<1>2. /\ Counting(down[socket], lastServerId) => Counting(down'[socket], lastServerId')
      /\ NextIs(down[socket], lastServerId, clients[socket].nextServerId) =>
           NextIs(down'[socket], lastServerId', clients[socket].nextServerId)
  BY <1>1, CountingTaken
<1> QED
  BY <1>2, GoneOn DEF Counted

\* A session that has asked for no storage goes on without asking.
LEMMA UnaskedHeard ==
  ASSUME TypeOK, Ends, socket \in Sockets, GoesOn, Unasked, Hears,
         NEW r, r \in Seq(ClientMessage), Says(r),
         \A x \in ToSet(r) : x.type # "requestFullSync"
  PROVE  Unasked'
<1>1. up[socket] \in Seq(ClientMessage)
  BY InUse
<1>2. NothingAsked(up'[socket], clients[socket].isReady)
  BY <1>1, NothingAskedJoined DEF Unasked, Says
<1>3. \A x \in ToSet(down'[socket]) : x \in ToSet(down[socket])
  BY HeardAmong
<1> QED
  BY <1>2, <1>3, GoneOn DEF Unasked

-----------------------------------------------------------------------------
(* Messages that are not about a market.                                   *)

\* What is known when a message of the server arrives (handleMessage).
LEMMA HeardFrom ==
  ASSUME TypeOK, ServerSide, NEW s \in Sockets, NEW type,
         ClientReceives(s, type), TakeDown(s)
  PROVE  /\ s = socket /\ socket \in Sockets
         /\ down[socket] # <<>> /\ down'[socket] = Rest(down[socket])
         /\ Hears
         /\ Head(down[socket]).type = type
         /\ Head(down[socket]) \in Downward
         /\ Head(down[socket]) \in ToSet(down[socket])
         /\ isReady = TRUE \/ type = "serverHello" \/ type = "serverPing"
<1>1. DownTyped
  BY NetworkTyped DEF TypeOK
<1>2. /\ s = socket /\ down[socket] # <<>> /\ Head(down[socket]).type = type
  BY DEF ClientReceives
<1>3. down[socket] \in Seq(Downward) /\ down'[socket] = Rest(down[socket])
  BY <1>1, <1>2 DEF DownTyped, TakeDown, Rest
<1>4. Head(down[socket]) \in Downward /\ Head(down[socket]) \in ToSet(down[socket])
  BY <1>2, <1>3, AmongRest
<1>5. isReady = TRUE \/ type = "serverHello" \/ type = "serverPing"
  BY <1>2, <1>4 DEF ServerSide, NotGreeted, TypeOK, TypeOKClient
<1> QED
  BY <1>2, <1>3, <1>4, <1>5 DEF Hears

\* A message that is not about a market leaves the controllers alone.
LEMMA PlainHeard ==
  ASSUME TypeOK, TypeOK', Ends, ServerSide, socket \in Sockets, GoesOn,
         UNCHANGED <<isReady, nextClientId, controllerVars>>,
         NEW r, r \in Seq(ClientMessage), Says(r),
         \A x \in ToSet(r) : x.type \in {"clientPing", "clientPong"}
                               /\ (isReady = FALSE => x.type = "clientPong"),
         \/ down'[socket] = down[socket] /\ marketList' = marketList
         \/ /\ down[socket] # <<>> /\ down'[socket] = Rest(down[socket])
            /\ \A m : Head(down[socket]) \notin BinariesOf(m)
                        /\ Head(down[socket]) \notin RollingsOf(m)
            /\ marketList' = IF Head(down[socket]) \in MarketLists
                               THEN Head(down[socket]).markets ELSE marketList,
         Sessions'
  PROVE  ServerSide'
<1>1. UNCHANGED <<mounted, storage, pending, rollingShown>>
  BY DEF controllerVars
<1>2. Hears /\ NotGreeted /\ IdsGiven /\ AskedReady /\ ListReached
  BY DEF Hears, ServerSide
<1>3. NotGreeted'
  BY <1>2, NotGreetedHeard DEF Ungreeted
<1>4. IdsGiven'
  <2>1. nextClientId <= nextClientId'
    BY DEF TypeOK, TypeOKClient, ClientIds
  <2>2. \A m \in Markets : \A id \in pending'[m] : id < nextClientId'
    BY <1>1, <1>2 DEF IdsGiven
  <2>3. \A x \in ToSet(r) : x.type \notin {"requestFullSync", "addRolling"}
    OBVIOUS
  <2> QED
    BY <1>2, <2>1, <2>2, <2>3, IdsHeard
<1>5. AskedReady' /\ ListReached'
  BY <1>2, AskedHeard
<1>6. ASSUME NEW m \in Markets PROVE StorageReached(m)' /\ RollingReached(m)'
  <2>1. StorageReached(m) /\ RollingReached(m)
    BY DEF ServerSide, StoragesReached, RollingsReached
  <2>2. StorageReached(m)'
    BY <1>1, <1>2, <2>1, StorageHeard
  <2>3. RollingReached(m)'
    BY <1>1, <1>2, <2>1, RollingHeard
  <2> QED
    BY <2>2, <2>3
<1>7. \A m \in Markets : rollingShown'[m] <= rolled'[m]
  BY <1>1, GoneOn DEF ServerSide, RollingsReached
<1> QED
  BY <1>3, <1>4, <1>5, <1>6, <1>7 DEF ServerSide, StoragesReached,
       RollingsReached

\* The session stays what it is when its synchronization gets no entities.
LEMMA SessionsHeard ==
  ASSUME TypeOK, Ends, Sessions, socket \in Sockets, GoesOn,
         UNCHANGED <<isReady, lastServerId, entities>>,
         NEW r, r \in Seq(ClientMessage), Says(r),
         \A x \in ToSet(r) : x.type # "requestFullSync",
         \/ down'[socket] = down[socket]
         \/ /\ down[socket] # <<>> /\ down'[socket] = Rest(down[socket])
            /\ Head(down[socket]) \notin BinaryMessage,
         Registered' => Registered
  PROVE  Sessions'
<1>1. Hears
  BY DEF Hears
<1>2. Unasked => Unasked'
  BY <1>1, UnaskedHeard
<1>3. Counted => Counted'
  BY CountedHeard
<1> QED
  BY <1>2, <1>3 DEF Sessions

\* An answer of the present session is one getPrimaryData may use.
LEMMA AnswerKeepsView ==
  ASSUME TypeOK, View, Sessions, isReady = TRUE, UNCHANGED <<socket, controllerVars>>,
         NEW a \in Answers, Answer(a, socket),
         marketList' = marketList \/ marketList' > 0,
         a = "markets" => marketList' > 0,
         entities' = entities \/ entities' = TRUE,
         a = "entities" => entities' = TRUE
  PROVE  /\ View'
         /\ a # "entities" => (Registered' => Registered)
<1> DEFINE got == [sync.got EXCEPT ![a] = socket]
<1>1. UNCHANGED <<mounted, pending>>
  BY DEF controllerVars
<1>2. /\ sync.got \in [Answers -> Sockets \union {NoSocket}]
      /\ sync.state \in {"idle", "waiting"} /\ shown \in BOOLEAN
      /\ marketList \in Nat
  BY NetworkAssumption DEF TypeOK, TypeOKClient
<1>3. /\ \A b \in Answers : b # a => got[b] = sync.got[b]
      /\ got[a] = socket
  BY <1>2
<1>4. /\ sync.state = "waiting" /\ sync.got["markets"] # NoSocket => marketList > 0
      /\ \A b \in Answers : sync.got[b] \in {NoSocket, socket}
      /\ shown = TRUE => entities /\ marketList > 0 /\ sync.state = "idle"
      /\ mounted # {} => shown
      /\ \A m \in Markets : m \notin mounted => pending[m] = {}
  BY DEF View, AnswersOfOneSession, ShownIsSynchronized
<1>5. "entities" \in Answers /\ "markets" \in Answers
  BY DEF Answers
<1> HIDE DEF got
<1>6. CASE sync.state = "idle"
  <2>1. sync' = sync /\ shown' = shown
    BY <1>6 DEF Answer, viewVars
  <2> QED
    BY <1>1, <1>2, <1>4, <1>6, <2>1
       DEF View, AnswersOfOneSession, ShownIsSynchronized, Registered
<1>7. CASE sync.state = "waiting" /\ \E b \in Answers : got[b] = NoSocket
  <2>1. sync' = Waiting(got) /\ shown' = shown
    BY <1>7 DEF Answer, got
  <2>2. sync'.state = "waiting" /\ sync'.got = got
    BY <2>1 DEF Waiting
  <2>3. shown = FALSE
    BY <1>2, <1>4, <1>7
  <2>4. \A b \in Answers : got[b] \in {NoSocket, socket}
    BY <1>3, <1>4
  <2>5. got["markets"] # NoSocket => marketList' > 0
    BY <1>3, <1>4, <1>5, <1>7
  <2>6. a # "entities" => got["entities"] = sync.got["entities"]
    BY <1>3, <1>5
  <2> QED
    BY <1>1, <1>4, <1>7, <2>1, <2>2, <2>3, <2>4, <2>5, <2>6
       DEF View, AnswersOfOneSession, ShownIsSynchronized, Registered
<1>8. CASE sync.state = "waiting" /\ \A b \in Answers : got[b] # NoSocket
  <2>1. sync' = NotRunning /\ shown' = TRUE
    BY <1>8 DEF Answer, got
  <2>2. sync'.state = "idle" /\ \A b \in Answers : sync'.got[b] = NoSocket
    BY <2>1, RunsTyped
  <2>3. a # "entities" => Registered
    BY <1>3, <1>5, <1>8 DEF Registered
  <2>4. entities' = TRUE
    BY <2>3 DEF Sessions
  <2>5. marketList' > 0
    BY <1>3, <1>4, <1>5, <1>8
  <2> QED
    BY <1>1, <1>4, <2>1, <2>2, <2>3, <2>4, <2>5
       DEF View, AnswersOfOneSession, ShownIsSynchronized, Registered
<1> QED
  BY <1>2, <1>6, <1>7, <1>8

\* A step that changes nothing the pages see.
LEMMA ViewSame ==
  View /\ UNCHANGED <<socket, isReady, sync, shown, entities, marketList, mounted, pending>>
    => View'
BY DEF View, AnswersOfOneSession, ShownIsSynchronized

\* A signal is a sequence of one message.
LEMMA SignalSaid ==
  ASSUME NEW type \in ClientSignals
  PROVE  /\ << Signal(type) >> \in Seq(ClientMessage)
         /\ \A x \in ToSet(<< Signal(type) >>) : x.type = type
         /\ <<>> \in Seq(ClientMessage)
         /\ ToSet(<<>>) = {}
<1>1. Signal(type) \in ClientMessage /\ Signal(type).type = type
  BY MessagesTyped DEF Signal
<1> QED
  BY <1>1, AmongNone DEF ToSet

\* Saying nothing, and pings.
LEMMA NothingSaidNow ==
  /\ "clientPing" \in ClientSignals /\ "clientPong" \in ClientSignals
  /\ <<>> \in Seq(ClientMessage) /\ ToSet(<<>>) = {}
  /\ up' = up => Says(<<>>)
BY SignalSaid DEF ClientSignals, Says

\* sendClientPing keeps the invariant.
LEMMA SendClientPingKeeps ==
  ASSUME IInv, TypeOK', SendClientPing, UNCHANGED serverVars
  PROVE  Ends' /\ View' /\ ServerSide'
<1> DEFINE r == << Signal("clientPing") >>
<1>1. TypeOK /\ Ends /\ View /\ ServerSide /\ Sessions
  BY DEF IInv, ServerSide
<1>2. /\ isReady = TRUE /\ up' = UpAfter(socket, r)
      /\ UNCHANGED <<clientEnd, serverEnd, down, socket, isReady, connectDue>>
      /\ UNCHANGED <<nextClientId, lastServerId, entities, marketList, sync, shown,
                     mounted, pending, controllerVars>>
  BY <1>1 DEF SendClientPing, pageVars, sessionVars, viewVars, controllerVars,
       TypeOK,
     TypeOKClient
<1>3. socket \in Sockets
  BY <1>1, <1>2 DEF Ends
<1>4. GoesOn
  BY <1>2 DEF GoesOn
<1>5. r \in Seq(ClientMessage) /\ \A x \in ToSet(r) : x.type = "clientPing"
  BY NothingSaidNow, SignalSaid
<1> HIDE DEF r
<1>6. Says(r)
  BY <1>1, <1>2, <1>3, <1>5, Said
<1>7. Ends'
  BY <1>1, <1>2, EndsSend
<1>8. View'
  BY <1>1, <1>2, ViewSame
<1>9. Registered' => Registered
  BY <1>2 DEF Registered
<1>10. down'[socket] = down[socket]
  BY <1>2
<1>11. \A x \in ToSet(r) : x.type # "requestFullSync"
  BY <1>5
<1>12. UNCHANGED <<isReady, lastServerId, entities>>
  BY <1>2
<1>13. Sessions'
  BY ONLY <1>1, <1>3, <1>4, <1>5, <1>6, <1>9, <1>10, <1>11, <1>12, SessionsHeard
<1>14. ServerSide'
  <2>1. \A x \in ToSet(r) : x.type \in {"clientPing", "clientPong"}
                              /\ (isReady = FALSE => x.type = "clientPong")
    BY <1>2, <1>5
  <2>2. UNCHANGED <<isReady, nextClientId, controllerVars>> /\ marketList' = marketList
    BY <1>2
  <2> QED
    BY <1>1, <1>3, <1>4, <1>5, <1>6, <1>10, <1>13, <2>1, <2>2, PlainHeard
<1> QED
  BY <1>7, <1>8, <1>14

\* A message that is taken is no binary and no rolling statistics.
LEMMA PlainKinds ==
  ASSUME NEW x, x.type \notin {"snapshot", "delta", "marketRollingUpdated"}
  PROVE  /\ x \notin BinaryMessage
         /\ \A m : x \notin BinariesOf(m) /\ x \notin RollingsOf(m)
BY MessageKinds, RollingKinds

\* handleServerPong keeps the invariant.
LEMMA HandleServerPongKeeps ==
  ASSUME IInv, TypeOK', NEW s \in Sockets, HandleServerPong(s), UNCHANGED serverVars
  PROVE  Ends' /\ View' /\ ServerSide'
<1> DEFINE r == <<>>
           h == Head(down[socket])
<1>1. TypeOK /\ Ends /\ View /\ ServerSide /\ Sessions
  BY DEF IInv, ServerSide
<1>2. /\ ClientReceives(s, "serverPong") /\ TakeDown(s) /\ up' = up
      /\ UNCHANGED <<clientEnd, serverEnd, socket, isReady, connectDue>>
      /\ UNCHANGED <<nextClientId, lastServerId, entities, marketList, sync, shown,
                     mounted, pending, controllerVars>>
  BY DEF HandleServerPong, pageVars, sessionVars, viewVars, controllerVars
<1>3. /\ socket \in Sockets /\ s = socket
      /\ down[socket] # <<>> /\ down'[socket] = Rest(down[socket])
      /\ h.type = "serverPong" /\ h \in Downward
  BY <1>1, <1>2, HeardFrom
<1>4. GoesOn
  BY <1>2 DEF GoesOn
<1>5. h \notin BinaryMessage /\ \A m : h \notin BinariesOf(m) /\ h \notin RollingsOf(m)
  BY <1>3, PlainKinds
<1>6. h \notin MarketLists
  BY <1>3, MessageKinds
<1> HIDE DEF h
<1>7. r \in Seq(ClientMessage) /\ Says(r) /\ ToSet(r) = {}
  BY <1>2, NothingSaidNow
<1> HIDE DEF r
<1>8. Ends'
  BY <1>1, <1>2, EndsReceive
<1>9. View'
  BY <1>1, <1>2, ViewSame
<1>10. Registered' => Registered
  BY <1>2 DEF Registered
<1>11. Sessions'
  <2>1. UNCHANGED <<isReady, lastServerId, entities>>
    BY <1>2
  <2> QED
    BY <1>1, <1>3, <1>4, <1>5, <1>7, <1>10, <2>1, SessionsHeard DEF h
<1>12. ServerSide'
  <2>1. UNCHANGED <<isReady, nextClientId, controllerVars>> /\ marketList' = marketList
    BY <1>2
  <2> QED
    BY <1>1, <1>3, <1>4, <1>5, <1>6, <1>7, <1>11, <2>1, PlainHeard DEF h
<1> QED
  BY <1>8, <1>9, <1>12

\* handleServerPing keeps the invariant.
LEMMA HandleServerPingKeeps ==
  ASSUME IInv, TypeOK', NEW s \in Sockets, HandleServerPing(s), UNCHANGED serverVars
  PROVE  Ends' /\ View' /\ ServerSide'
<1> DEFINE r == << Signal("clientPong") >>
           h == Head(down[socket])
<1>1. TypeOK /\ Ends /\ View /\ ServerSide /\ Sessions
  BY DEF IInv, ServerSide
<1>2. /\ ClientReceives(s, "serverPing") /\ TakeDown(s) /\ up' = UpAfter(s, r)
      /\ UNCHANGED <<clientEnd, serverEnd, socket, isReady, connectDue>>
      /\ UNCHANGED <<nextClientId, lastServerId, entities, marketList, sync, shown,
                     mounted, pending, controllerVars>>
  BY DEF HandleServerPing, clientVars, transportVars, pageVars, sessionVars,
       viewVars,
         controllerVars
<1>3. /\ socket \in Sockets /\ s = socket
      /\ down[socket] # <<>> /\ down'[socket] = Rest(down[socket])
      /\ h.type = "serverPing" /\ h \in Downward
  BY <1>1, <1>2, HeardFrom
<1>4. GoesOn
  BY <1>2 DEF GoesOn
<1>5. h \notin BinaryMessage /\ \A m : h \notin BinariesOf(m) /\ h \notin RollingsOf(m)
  BY <1>3, PlainKinds
<1>6. h \notin MarketLists
  BY <1>3, MessageKinds
<1> HIDE DEF h
<1>7. r \in Seq(ClientMessage) /\ \A x \in ToSet(r) : x.type = "clientPong"
  BY NothingSaidNow, SignalSaid
<1> HIDE DEF r
<1>8. Says(r)
  BY <1>1, <1>2, <1>3, <1>7, Said
<1>9. Ends'
  BY <1>1, <1>2, EndsReceive
<1>10. View'
  BY <1>1, <1>2, ViewSame
<1>11. Registered' => Registered
  BY <1>2 DEF Registered
<1>12. Sessions'
  <2>1. UNCHANGED <<isReady, lastServerId, entities>>
    BY <1>2
  <2>2. \A x \in ToSet(r) : x.type # "requestFullSync"
    BY <1>7
  <2> QED
    BY <1>1, <1>3, <1>4, <1>5, <1>7, <1>11, <1>8, <2>1, <2>2, SessionsHeard
         DEF h
<1>13. ServerSide'
  <2>1. UNCHANGED <<isReady, nextClientId, controllerVars>> /\ marketList' = marketList
    BY <1>2
  <2>2. \A x \in ToSet(r) : x.type \in {"clientPing", "clientPong"}
                              /\ (isReady = FALSE => x.type = "clientPong")
    BY <1>7
  <2> QED
    BY <1>1, <1>3, <1>4, <1>5, <1>6, <1>7, <1>12, <1>8, <2>1, <2>2, PlainHeard
         DEF h
<1> QED
  BY <1>9, <1>10, <1>13

\* settingsLoaded keeps the invariant.
LEMMA HandleSettingsLoadedKeeps ==
  ASSUME IInv, TypeOK', NEW s \in Sockets, HandleSettingsLoaded(s), UNCHANGED serverVars
  PROVE  Ends' /\ View' /\ ServerSide'
<1> DEFINE r == <<>>
           h == Head(down[socket])
<1>1. TypeOK /\ Ends /\ View /\ ServerSide /\ Sessions
  BY DEF IInv, ServerSide
<1>2. /\ ClientReceives(s, "settingsLoaded") /\ TakeDown(s) /\ up' = up
      /\ Answer("settings", s)
      /\ UNCHANGED <<clientEnd, serverEnd, socket, isReady, connectDue>>
      /\ UNCHANGED <<nextClientId, lastServerId, entities, marketList, controllerVars>>
  BY DEF HandleSettingsLoaded, transportVars, pageVars, sessionVars
<1>3. /\ socket \in Sockets /\ s = socket
      /\ down[socket] # <<>> /\ down'[socket] = Rest(down[socket])
      /\ h.type = "settingsLoaded" /\ h \in Downward
      /\ isReady = TRUE
  <2>1. TypeOK /\ ServerSide /\ ClientReceives(s, "settingsLoaded") /\ TakeDown(s)
    BY <1>1, <1>2
  <2>2. isReady = TRUE \/ "settingsLoaded" = "serverHello" \/ "settingsLoaded" = "serverPing"
    BY ONLY <2>1, s \in Sockets, HeardFrom
  <2> QED
    BY ONLY <2>1, <2>2, s \in Sockets, HeardFrom
<1>4. GoesOn
  BY <1>2 DEF GoesOn
<1>5. h \notin BinaryMessage /\ \A m : h \notin BinariesOf(m) /\ h \notin RollingsOf(m)
  BY <1>3, PlainKinds
<1>6. h \notin MarketLists
  BY <1>3, MessageKinds
<1> HIDE DEF h
<1>7. r \in Seq(ClientMessage) /\ Says(r) /\ ToSet(r) = {}
  BY <1>2, NothingSaidNow
<1> HIDE DEF r
<1>8. Ends'
  BY <1>1, <1>2, <1>3, EndsReceive
<1>9. View' /\ (Registered' => Registered)
  <2>1. "settings" \in Answers /\ Answer("settings", socket)
    BY <1>2, <1>3 DEF Answers
  <2> QED
    BY <1>1, <1>2, <1>3, <2>1, AnswerKeepsView
<1>10. Sessions'
  <2>1. UNCHANGED <<isReady, lastServerId, entities>>
    BY <1>2
  <2> QED
    BY <1>1, <1>3, <1>4, <1>5, <1>7, <1>9, <2>1, SessionsHeard DEF h
<1>11. ServerSide'
  <2>1. UNCHANGED <<isReady, nextClientId, controllerVars>> /\ marketList' = marketList
    BY <1>2
  <2> QED
    BY <1>1, <1>3, <1>4, <1>5, <1>6, <1>7, <1>10, <2>1, PlainHeard DEF h
<1> QED
  BY <1>8, <1>9, <1>11

\* marketsUpdated keeps the invariant.
LEMMA HandleMarketsUpdatedKeeps ==
  ASSUME IInv, TypeOK', NEW s \in Sockets, HandleMarketsUpdated(s), UNCHANGED serverVars
  PROVE  Ends' /\ View' /\ ServerSide'
<1> DEFINE r == <<>>
           h == Head(down[socket])
<1>1. TypeOK /\ Ends /\ View /\ ServerSide /\ Sessions
  BY DEF IInv, ServerSide
<1>2. /\ ClientReceives(s, "marketsUpdated") /\ TakeDown(s) /\ up' = up
      /\ Answer("markets", s) /\ marketList' = Head(down[s]).markets
      /\ UNCHANGED <<clientEnd, serverEnd, socket, isReady, connectDue>>
      /\ UNCHANGED <<nextClientId, lastServerId, entities, controllerVars>>
  BY DEF HandleMarketsUpdated, transportVars, pageVars
<1>3. /\ socket \in Sockets /\ s = socket
      /\ down[socket] # <<>> /\ down'[socket] = Rest(down[socket])
      /\ h.type = "marketsUpdated" /\ h \in Downward
      /\ isReady = TRUE
  <2>1. TypeOK /\ ServerSide /\ ClientReceives(s, "marketsUpdated") /\ TakeDown(s)
    BY <1>1, <1>2
  <2>2. isReady = TRUE \/ "marketsUpdated" = "serverHello" \/ "marketsUpdated" = "serverPing"
    BY ONLY <2>1, s \in Sockets, HeardFrom
  <2> QED
    BY ONLY <2>1, <2>2, s \in Sockets, HeardFrom
<1>4. GoesOn
  BY <1>2 DEF GoesOn
<1>5. h \notin BinaryMessage /\ \A m : h \notin BinariesOf(m) /\ h \notin RollingsOf(m)
  BY <1>3, PlainKinds
<1>6. h \in MarketLists /\ h.markets \in 1 .. MaxMarkets /\ marketList' = h.markets
  BY <1>2, <1>3, MessageKinds
<1> HIDE DEF h
<1>7. r \in Seq(ClientMessage) /\ Says(r) /\ ToSet(r) = {}
  BY <1>2, NothingSaidNow
<1> HIDE DEF r
<1>8. Ends'
  BY <1>1, <1>2, <1>3, EndsReceive
<1>9. View' /\ (Registered' => Registered)
  <2>1. "markets" \in Answers /\ Answer("markets", socket)
    BY <1>2, <1>3 DEF Answers
  <2>2. marketList' > 0
    BY <1>6
  <2>3. UNCHANGED <<socket, controllerVars>> /\ entities' = entities
    BY <1>2
  <2> QED
    BY <1>1, <1>3, <2>1, <2>2, <2>3, AnswerKeepsView
<1>10. Sessions'
  <2>1. UNCHANGED <<isReady, lastServerId, entities>>
    BY <1>2
  <2> QED
    BY <1>1, <1>3, <1>4, <1>5, <1>7, <1>9, <2>1, SessionsHeard DEF h
<1>11. ServerSide'
  <2>1. UNCHANGED <<isReady, nextClientId, controllerVars>>
    BY <1>2
  <2> QED
    BY <1>1, <1>3, <1>4, <1>5, <1>6, <1>7, <1>10, <2>1, PlainHeard DEF h
<1> QED
  BY <1>8, <1>9, <1>11

-----------------------------------------------------------------------------
(* The entities, and what pages mount and unmount.                         *)

\* storageEntitiesLoaded keeps the invariant.
LEMMA HandleStorageEntitiesLoadedKeeps ==
  ASSUME IInv, TypeOK', NEW s \in Sockets, HandleStorageEntitiesLoaded(s),
         UNCHANGED serverVars
  PROVE  Ends' /\ View' /\ ServerSide'
<1> DEFINE r == <<>>
           h == Head(down[socket])
<1>1. TypeOK /\ Ends /\ View /\ ServerSide /\ Sessions
  BY DEF IInv, ServerSide
<1>2. /\ ClientReceives(s, "storageEntitiesLoaded") /\ TakeDown(s) /\ up' = up
      /\ Register(s)
      /\ UNCHANGED <<clientEnd, serverEnd, socket, isReady, connectDue>>
      /\ UNCHANGED <<nextClientId, lastServerId, marketList, controllerVars>>
  BY DEF HandleStorageEntitiesLoaded, transportVars, pageVars
<1>3. /\ socket \in Sockets /\ s = socket
      /\ down[socket] # <<>> /\ down'[socket] = Rest(down[socket])
      /\ h.type = "storageEntitiesLoaded" /\ h \in Downward
      /\ isReady = TRUE
  <2>1. TypeOK /\ ServerSide /\ ClientReceives(s, "storageEntitiesLoaded") /\ TakeDown(s)
    BY <1>1, <1>2
  <2>2. isReady = TRUE \/ "storageEntitiesLoaded" = "serverHello"
          \/ "storageEntitiesLoaded" = "serverPing"
    BY ONLY <2>1, s \in Sockets, HeardFrom
  <2> QED
    BY ONLY <2>1, <2>2, s \in Sockets, HeardFrom
<1>4. GoesOn
  BY <1>2 DEF GoesOn
<1>5. h \notin BinaryMessage /\ \A m : h \notin BinariesOf(m) /\ h \notin RollingsOf(m)
  BY <1>3, PlainKinds
<1>6. h \notin MarketLists
  BY <1>3, MessageKinds
<1> HIDE DEF h
<1>7. r \in Seq(ClientMessage) /\ Says(r) /\ ToSet(r) = {}
  BY <1>2, NothingSaidNow
<1> HIDE DEF r
<1>8. Ends'
  BY <1>1, <1>2, <1>3, EndsReceive
<1>9. View' /\ Sessions'
  <2>1. CASE entities
    <3>1. UNCHANGED <<entities, sync, shown>>
      BY <1>2, <2>1 DEF Register, viewVars
    <3>2. View'
      <4>1. UNCHANGED <<mounted, pending>>
        BY <1>2 DEF controllerVars
      <4> QED
        BY <1>1, <1>2, <3>1, <4>1, ViewSame
    <3>3. Registered' => Registered
      BY <3>1 DEF Registered
    <3>4. UNCHANGED <<isReady, lastServerId, entities>>
      BY <1>2, <3>1
    <3>5. Sessions'
      BY <1>1, <1>3, <1>4, <1>5, <1>7, <3>3, <3>4, SessionsHeard DEF h
    <3> QED
      BY <3>2, <3>5
  <2>2. CASE ~ entities
    <3>1. entities' = TRUE /\ Answer("entities", socket)
      BY <1>2, <1>3, <2>2 DEF Register
    <3>2. View'
      <4>1. "entities" \in Answers
        BY DEF Answers
      <4> QED
        BY <1>1, <1>2, <1>3, <3>1, <4>1, AnswerKeepsView
    <3>3. lastServerId = 0 /\ Unasked
      BY <1>1, <1>3, <2>2 DEF Sessions
    <3>4. Hears
      BY <1>3 DEF Hears
    <3>5. /\ \A x \in ToSet(down'[socket]) : x \notin BinaryMessage
          /\ down'[socket] \in Seq(Downward)
      BY <1>1, <1>3, <3>3, <3>4, HeardAmong DEF Unasked
    <3>6. At(down'[socket], BinaryMessage) = {}
      BY <3>5, AtAmong
    <3>7. Counting(down'[socket], 0) /\ NextIs(down'[socket], 0, 0 + 1)
      BY <3>6, CountingNone
    <3>8. Known => clients[socket].nextServerId = 1
      BY <3>3 DEF Unasked
    <3>9. Counted'
      <4>1. 0 + 1 = 1
        OBVIOUS
      <4>2. Open => Known
        BY <1>1, <1>3, InUse
      <4> QED
        BY <1>2, <1>4, <3>3, <3>7, <3>8, <4>1, <4>2, GoneOn DEF Counted
    <3> QED
      BY <3>1, <3>2, <3>9 DEF Sessions
  <2> QED
    BY <2>1, <2>2
<1>10. ServerSide'
  <2>1. UNCHANGED <<isReady, nextClientId, controllerVars>> /\ marketList' = marketList
    BY <1>2
  <2> QED
    BY <1>1, <1>3, <1>4, <1>5, <1>6, <1>7, <1>9, <2>1, PlainHeard DEF h
<1> QED
  BY <1>8, <1>9, <1>10

\* Without a socket little is left to hold.
LEMMA NoSocketNow ==
  ASSUME Ends', TypeOK', socket' \notin Sockets,
         lastServerId' # 0 => entities' = TRUE,
         \A m \in Markets : \A id \in pending'[m] : id < nextClientId',
         \A m \in Markets : rollingShown'[m] <= rolled'[m]
  PROVE  ServerSide'
<1>1. isReady' = FALSE
  BY DEF Ends, TypeOK, TypeOKClient
<1> QED
  BY <1>1 DEF ServerSide, NotGreeted, Sessions, IdsGiven, StoragesReached,
     AskedReady, ListReached, RollingsReached

\* onFirstSubscriber keeps the invariant.
LEMMA MountKeeps ==
  ASSUME IInv, TypeOK', NEW m \in Markets, Mount(m), UNCHANGED serverVars
  PROVE  Ends' /\ View' /\ ServerSide'
<1> DEFINE x == [type |-> "requestFullSync", clientId |-> nextClientId, market |-> m]
           r == <<x>>
<1>1. TypeOK /\ Ends /\ View /\ ServerSide
  BY DEF IInv
<1>2. /\ shown = TRUE /\ up' = UpAfter(socket, r)
      /\ mounted' = mounted \union {m}
      /\ pending' = [pending EXCEPT ![m] = @ \union {nextClientId}]
      /\ nextClientId' = nextClientId + 1
      /\ UNCHANGED <<clientEnd, serverEnd, down, socket, isReady, connectDue>>
      /\ UNCHANGED <<lastServerId, entities, marketList, sync, shown, storage,
                     rollingShown>>
  BY <1>1 DEF Mount, transportVars, sessionVars, viewVars, TypeOK, TypeOKClient
<1>3. /\ nextClientId \in Nat \ {0} /\ pending \in [Markets -> SUBSET ClientIds]
  BY <1>1 DEF TypeOK, TypeOKClient, ClientIds
<1>4. \A k \in Markets : pending'[k] = IF k = m THEN pending[k] \union {nextClientId}
                                                ELSE pending[k]
  BY <1>2, <1>3
<1>5. /\ r \in Seq(ClientMessage)
      /\ \A y \in ToSet(r) : y.type = "requestFullSync" /\ y.clientId = nextClientId
  <2>1. x \in ClientMessage
    BY <1>3, MessagesTyped DEF ClientIds
  <2> QED
    BY <2>1 DEF ToSet
<1> HIDE DEF x, r
<1>6. Ends'
  BY <1>1, <1>2, EndsSend
<1>7. View'
  BY <1>1, <1>2, <1>4 DEF View, AnswersOfOneSession, ShownIsSynchronized
<1>8. \A k \in Markets : \A id \in pending'[k] : id < nextClientId'
  <2>1. \A k \in Markets : \A id \in pending[k] : id < nextClientId /\ id \in Nat
    BY <1>1, <1>3 DEF ServerSide, IdsGiven, ClientIds
  <2> QED
    BY <1>2, <1>3, <1>4, <2>1
<1>9. \A k \in Markets : rollingShown'[k] <= rolled'[k]
  BY <1>1, <1>2 DEF ServerSide, RollingsReached, serverVars
<1>10. lastServerId' # 0 => entities' = TRUE
  BY <1>1, <1>2 DEF ServerSide, Sessions
<1>11. CASE socket \notin Sockets
  BY <1>2, <1>6, <1>7, <1>8, <1>9, <1>10, <1>11, NoSocketNow
<1>12. CASE socket \in Sockets
  <2>1. GoesOn /\ Hears
    BY <1>2 DEF GoesOn, Hears
  <2>2. Says(r)
    BY <1>1, <1>2, <1>5, <1>12, Said
  <2>3. NotGreeted'
    BY <1>1, <1>2, <1>5, <1>12, <2>1, <2>2, NotGreetedHeard DEF ServerSide,
         Ungreeted
  <2>4. IdsGiven'
    <3>1. nextClientId <= nextClientId' /\ nextClientId < nextClientId'
      BY <1>2, <1>3
    <3>2. \A y \in ToSet(r) : y.clientId < nextClientId'
      BY <1>5, <3>1
    <3> QED
      BY <1>1, <1>5, <1>8, <1>12, <2>1, <2>2, <3>1, <3>2, IdsHeard
           DEF ServerSide
  <2>5. Sessions'
    <3>1. isReady' = TRUE => Counted /\ entities = TRUE
      BY <1>1, <1>2 DEF ServerSide, Sessions, Registered
    <3>2. Counted => Counted'
      BY <1>1, <1>2, <1>12, <2>1, CountedHeard
    <3> QED
      BY <1>2, <1>10, <3>1, <3>2 DEF Sessions
  <2>6. AskedReady' /\ ListReached'
    BY <1>1, <1>2, <1>5, <1>12, <2>1, <2>2, AskedHeard DEF ServerSide
  <2>7. ASSUME NEW k \in Markets PROVE StorageReached(k)' /\ RollingReached(k)'
    <3>1. StorageReached(k) /\ RollingReached(k) /\ IdsGiven
      BY <1>1, <1>12 DEF ServerSide, StoragesReached, RollingsReached
    <3>2. \A id \in pending'[k] : id < nextClientId => id \in pending[k]
      <4>1. ~ (nextClientId < nextClientId)
        BY <1>3
      <4> QED
        BY <1>4, <4>1
    <3>3. StorageReached(k)'
      BY <1>1, <1>2, <1>12, <2>1, <3>1, <3>2, StorageHeard
    <3>4. RollingReached(k)'
      BY <1>1, <1>2, <1>12, <2>1, <3>1, <3>2, RollingHeard
    <3> QED
      BY <3>3, <3>4
  <2>8. ServerSide'
    BY <1>9, <2>3, <2>4, <2>5, <2>6, <2>7 DEF ServerSide, StoragesReached,
         RollingsReached
  <2> QED
    BY <1>6, <1>7, <2>8
<1> QED
  BY <1>11, <1>12

\* onLastSubscriber keeps the invariant.
LEMMA UnmountKeeps ==
  ASSUME IInv, TypeOK', NEW m \in Markets, Unmount(m), UNCHANGED serverVars
  PROVE  Ends' /\ View' /\ ServerSide'
<1> DEFINE r == Removals({m})
<1>1. TypeOK /\ Ends /\ View /\ ServerSide
  BY DEF IInv
<1>2. /\ up' = UpAfter(socket, r) /\ UnmountAll({m})
      /\ UNCHANGED <<clientEnd, serverEnd, down, socket, isReady, connectDue>>
      /\ UNCHANGED <<nextClientId, lastServerId, entities, marketList, sync, shown>>
  BY DEF Unmount, transportVars, pageVars, sessionVars, viewVars
<1>3. /\ mounted' = mounted \ {m}
      /\ \A k \in Markets :
           /\ k = m => pending'[k] = {} /\ rollingShown'[k] = 0
           /\ k # m => /\ pending'[k] = pending[k] /\ storage'[k] = storage[k]
                       /\ rollingShown'[k] = rollingShown[k]
  BY <1>2 DEF UnmountAll
<1>4. /\ r \in Seq(ClientMessage)
      /\ \A y \in ToSet(r) : y.type \in {"removeRolling", "removeStatistics"}
  <2>1. {m} \subseteq Markets
    OBVIOUS
  <2>2. r \in Seq(ClientMessage)
        /\ \A i \in 1 .. Len(r) : r[i].type \in {"removeRolling", "removeStatistics"}
    BY <2>1, RemovalsTyped
  <2>3. \A y \in ToSet(r) : \E i \in 1 .. Len(r) : y = r[i]
    BY <2>2, Among
  <2> QED
    BY <2>2, <2>3
<1> HIDE DEF r
<1>5. Ends'
  BY <1>1, <1>2, EndsSend
<1>6. View'
  BY <1>1, <1>2, <1>3 DEF View, AnswersOfOneSession, ShownIsSynchronized
<1>7. \A k \in Markets : \A id \in pending'[k] : id < nextClientId'
  BY <1>1, <1>2, <1>3 DEF ServerSide, IdsGiven
<1>8. \A k \in Markets : rollingShown'[k] <= rolled'[k]
  <2>1. \A k \in Markets : rollingShown[k] <= rolled[k] /\ rolled[k] \in Nat
    BY <1>1 DEF ServerSide, RollingsReached, TypeOK, TypeOKServer
  <2> QED
    BY <1>3, <2>1 DEF serverVars
<1>9. lastServerId' # 0 => entities' = TRUE
  BY <1>1, <1>2 DEF ServerSide, Sessions
<1>10. CASE socket \notin Sockets
  BY <1>2, <1>5, <1>6, <1>7, <1>8, <1>9, <1>10, NoSocketNow
<1>11. CASE socket \in Sockets
  <2>1. GoesOn /\ Hears
    BY <1>2 DEF GoesOn, Hears
  <2>2. Says(r)
    BY <1>1, <1>2, <1>4, <1>11, Said
  <2>3. NotGreeted'
    BY <1>1, <1>2, <1>4, <1>11, <2>1, <2>2, NotGreetedHeard DEF ServerSide,
         Ungreeted
  <2>4. IdsGiven'
    <3>1. nextClientId <= nextClientId'
      BY <1>1, <1>2 DEF TypeOK, TypeOKClient, ClientIds
    <3>2. \A y \in ToSet(r) : y.type \notin {"requestFullSync", "addRolling"}
      BY <1>4
    <3> QED
      BY <1>1, <1>4, <1>7, <1>11, <2>1, <2>2, <3>1, <3>2, IdsHeard
           DEF ServerSide
  <2>5. Sessions'
    <3>1. UNCHANGED <<isReady, lastServerId, entities>> /\ down'[socket] = down[socket]
      BY <1>2
    <3>2. \A y \in ToSet(r) : y.type # "requestFullSync"
      BY <1>4
    <3>3. Registered' => Registered
      BY <1>2 DEF Registered
    <3> QED
      BY <1>1, <1>4, <1>11, <2>1, <2>2, <3>1, <3>2, <3>3, SessionsHeard
           DEF ServerSide
  <2>6. AskedReady' /\ ListReached'
    BY <1>1, <1>2, <1>4, <1>11, <2>1, <2>2, AskedHeard DEF ServerSide
  <2>7. ASSUME NEW k \in Markets PROVE StorageReached(k)' /\ RollingReached(k)'
    <3>1. StorageReached(k) /\ RollingReached(k) /\ IdsGiven
      BY <1>1, <1>11 DEF ServerSide, StoragesReached, RollingsReached
    <3>2. \A id \in pending'[k] : id < nextClientId =>
            /\ id \in pending[k] /\ storage'[k] = storage[k]
            /\ rollingShown'[k] = rollingShown[k]
      BY <1>3
    <3>3. StorageReached(k)'
      BY <1>1, <1>2, <1>11, <2>1, <3>1, <3>2, StorageHeard
    <3>4. RollingReached(k)'
      BY <1>1, <1>2, <1>11, <2>1, <3>1, <3>2, RollingHeard
    <3> QED
      BY <3>3, <3>4
  <2>8. ServerSide'
    BY <1>8, <2>3, <2>4, <2>5, <2>6, <2>7 DEF ServerSide, StoragesReached,
         RollingsReached
  <2> QED
    BY <1>5, <1>6, <2>8
<1> QED
  BY <1>10, <1>11

-----------------------------------------------------------------------------
(* Messages about a market.                                                *)

\* handleRollingUpdated keeps the invariant.
LEMMA HandleMarketRollingUpdatedKeeps ==
  ASSUME IInv, TypeOK', NEW s \in Sockets, HandleMarketRollingUpdated(s),
         UNCHANGED serverVars
  PROVE  Ends' /\ View' /\ ServerSide'
<1> DEFINE r == <<>>
           h == Head(down[socket])
           m == h.market
<1>1. TypeOK /\ Ends /\ View /\ ServerSide /\ Sessions /\ IdsGiven
  BY DEF IInv, ServerSide
<1>2. /\ ClientReceives(s, "marketRollingUpdated") /\ TakeDown(s) /\ up' = up
      /\ UNCHANGED <<clientEnd, serverEnd, socket, isReady, connectDue>>
      /\ UNCHANGED <<nextClientId, lastServerId, entities, marketList, sync, shown,
                     mounted, storage, pending>>
      /\ s = socket
      /\ rollingShown' = [rollingShown EXCEPT
                            ![m] = IF h.clientId \in pending[m] THEN h.version ELSE @]
  BY DEF HandleMarketRollingUpdated, ClientReceives, transportVars, pageVars,
       sessionVars,
         viewVars
<1>3. /\ socket \in Sockets
      /\ down[socket] # <<>> /\ down'[socket] = Rest(down[socket])
      /\ h.type = "marketRollingUpdated" /\ h \in Downward /\ h \in ToSet(down[socket])
  BY <1>1, <1>2, HeardFrom
<1>4. GoesOn /\ Hears
  BY <1>2, <1>3 DEF GoesOn, Hears
<1>5. h \notin BinaryMessage /\ h \notin MarketLists /\ m \in Markets
  BY <1>3, MessageKinds
<1>6. \A k : (h \in RollingsOf(k) <=> m = k) /\ h \notin BinariesOf(k)
  BY <1>3, RollingKinds
<1>7. \A k \in Markets :
        rollingShown'[k] = IF k = m /\ h.clientId \in pending[k] THEN h.version
                                                            ELSE rollingShown[k]
  BY <1>1, <1>2, <1>5 DEF TypeOK, TypeOKClient
<1> HIDE DEF h, m
<1>8. r \in Seq(ClientMessage) /\ Says(r) /\ ToSet(r) = {}
  BY <1>2, NothingSaidNow
<1> HIDE DEF r
<1>9. Ends'
  BY <1>1, <1>2, EndsReceive
<1>10. View'
  BY <1>1, <1>2, ViewSame
<1>11. NotGreeted'
  BY <1>1, <1>2, <1>3, <1>4, <1>8, NotGreetedHeard DEF ServerSide
<1>12. Sessions'
  <2>1. UNCHANGED <<isReady, lastServerId, entities>>
    BY <1>2
  <2>2. Registered' => Registered
    BY <1>2 DEF Registered
  <2> QED
    BY <1>1, <1>3, <1>4, <1>5, <1>8, <2>1, <2>2, SessionsHeard DEF h
<1>13. IdsGiven'
  <2>1. nextClientId <= nextClientId'
    BY <1>1, <1>2 DEF TypeOK, TypeOKClient, ClientIds
  <2>2. \A k \in Markets : \A id \in pending'[k] : id < nextClientId'
    BY <1>1, <1>2 DEF IdsGiven
  <2> QED
    BY <1>1, <1>3, <1>4, <1>8, <2>1, <2>2, IdsHeard
<1>14. AskedReady' /\ ListReached'
  BY <1>1, <1>2, <1>3, <1>4, <1>5, <1>8, AskedHeard DEF ServerSide, h
<1>15. ASSUME NEW k \in Markets PROVE StorageReached(k)' /\ RollingReached(k)'
  <2>1. StorageReached(k) /\ RollingReached(k)
    BY <1>1, <1>3 DEF ServerSide, StoragesReached, RollingsReached
  <2>2. StorageReached(k)'
    BY <1>1, <1>2, <1>3, <1>4, <1>6, <2>1, StorageHeard DEF h
  <2>3. /\ h \in RollingsOf(k) => (h.clientId \in pending[k] => rollingShown'[k] = h.version)
        /\ h \notin RollingsOf(k) => rollingShown'[k] = rollingShown[k]
    BY <1>6, <1>7
  <2>4. \A id \in pending'[k] : id < nextClientId => id \in pending[k]
    BY <1>2
  <2>5. RollingReached(k)'
    BY <1>1, <1>3, <1>4, <2>1, <2>3, <2>4, RollingHeard DEF h
  <2> QED
    BY <2>2, <2>5
<1>16. \A k \in Markets : rollingShown'[k] <= rolled'[k]
  <2>1. \A k \in Markets : rollingShown[k] <= rolled[k] /\ rolled[k] \in Nat
    BY <1>1 DEF ServerSide, RollingsReached, TypeOK, TypeOKServer
  <2>2. RollingReached(m)
    BY <1>1, <1>3, <1>5 DEF ServerSide, RollingsReached
  <2>3. h.version \in 1 .. rolled[m]
    BY <1>3, <1>6, <2>2 DEF RollingReached
  <2>4. rolled' = rolled
    BY DEF serverVars
  <2> QED
    BY <1>7, <2>1, <2>3, <2>4
<1>17. ServerSide'
  BY <1>11, <1>12, <1>13, <1>14, <1>15, <1>16
     DEF ServerSide, StoragesReached, RollingsReached
<1> QED
  BY <1>9, <1>10, <1>17

\* The packet that comes next is the one the browser expects.
LEMMA PacketInStep ==
  ASSUME TypeOK, Ends, Sessions, socket \in Sockets, isReady = TRUE,
         down[socket] # <<>>, Head(down[socket]) \in BinaryMessage
  PROVE  /\ Counted /\ entities = TRUE
         /\ InStep(Head(down[socket]))
<1>1. down[socket] \in Seq(Downward)
  BY InUse
<1>2. Head(down[socket]) \in ToSet(down[socket])
  BY <1>1, AmongRest
<1>3. Counted /\ entities = TRUE
  BY <1>2 DEF Sessions, Unasked
<1> QED
  BY <1>1, <1>3, CountingHead DEF Counted, InStep

\* A packet that is in step is counted, and taken by the storage it is for.
LEMMA PacketHeard ==
  ASSUME TypeOK, TypeOK', Ends, ServerSide, socket \in Sockets, GoesOn,
         isReady = TRUE, UNCHANGED <<isReady, marketList, entities, rollingShown>>,
         down[socket] # <<>>, down'[socket] = Rest(down[socket]),
         Head(down[socket]) \in BinaryMessage,
         lastServerId' = lastServerId + 1,
         NEW r, r \in Seq(ClientMessage), Says(r),
         \A x \in ToSet(r) : x.type = "addRolling" /\ x.clientId < nextClientId',
         nextClientId <= nextClientId',
         \A k \in Markets : \A id \in pending'[k] :
           id \in pending[k] \/ (id = nextClientId /\ id < nextClientId'),
         \A k \in Markets :
           storage'[k] = IF /\ Head(down[socket]).market = k
                            /\ Head(down[socket]).clientId \in pending[k]
                           THEN Head(down[socket]).version ELSE storage[k]
  PROVE  ServerSide'
<1> DEFINE h == Head(down[socket])
<1>1. Hears /\ NotGreeted /\ Sessions /\ IdsGiven /\ AskedReady /\ ListReached
  BY DEF Hears, ServerSide
<1>2. Counted /\ entities = TRUE /\ h.serverId = lastServerId + 1
  BY <1>1, PacketInStep DEF InStep
<1>3. h \in Downward /\ h.type \in {"snapshot", "delta"}
  BY MessageKinds
<1>4. h \notin MarketLists
  BY <1>3, MessageKinds
<1>5. \A k : (h \in BinariesOf(k) <=> h.market = k) /\ h \notin RollingsOf(k)
  BY <1>3, RollingKinds
<1>6. NotGreeted'
  BY DEF NotGreeted
<1>7. Sessions'
  <2>1. Counted'
    BY <1>2, CountedHeard
  <2> QED
    BY <1>2, <2>1 DEF Sessions
<1>8. nextClientId \in Nat /\ nextClientId' \in Nat
  BY DEF TypeOK, TypeOKClient, ClientIds
<1>9. IdsGiven'
  <2>1. \A k \in Markets : \A id \in pending[k] : id \in Nat
    BY DEF TypeOK, TypeOKClient, ClientIds
  <2>2. \A k \in Markets : \A id \in pending'[k] : id < nextClientId'
    BY <1>1, <1>8, <2>1 DEF IdsGiven
  <2> QED
    BY <1>1, <2>2, IdsHeard
<1>10. AskedReady' /\ ListReached'
  BY <1>1, <1>4, AskedHeard
<1>11. ASSUME NEW k \in Markets PROVE StorageReached(k)' /\ RollingReached(k)'
  <2>1. StorageReached(k) /\ RollingReached(k)
    BY DEF ServerSide, StoragesReached, RollingsReached
  <2>2. \A id \in pending'[k] : id < nextClientId => id \in pending[k]
    <3>1. ~ (nextClientId < nextClientId)
      BY <1>8
    <3> QED
      BY <3>1
  <2>3. /\ h \in BinariesOf(k) => (h.clientId \in pending[k] => storage'[k] = h.version)
        /\ h \notin BinariesOf(k) => storage'[k] = storage[k]
    BY <1>5
  <2>4. StorageReached(k)'
    <3>1. CASE h \in BinariesOf(k) /\ h.clientId \notin pending[k]
      <4>1. storage'[k] = storage[k]
        BY <3>1
      <4> QED
        BY <1>1, <2>1, <2>2, <3>1, <4>1, StorageHeard
    <3>2. CASE ~ (h \in BinariesOf(k) /\ h.clientId \notin pending[k])
      BY <1>1, <2>1, <2>2, <2>3, StorageHeard
    <3> QED
      BY <3>1, <3>2
  <2>5. RollingReached(k)'
    BY <1>1, <1>5, <2>1, <2>2, RollingHeard
  <2> QED
    BY <2>4, <2>5
<1>12. \A k \in Markets : rollingShown'[k] <= rolled'[k]
  BY GoneOn DEF ServerSide, RollingsReached
<1> QED
  BY <1>6, <1>7, <1>9, <1>10, <1>11, <1>12
     DEF ServerSide, StoragesReached, RollingsReached

\* What is known when a packet arrives.
LEMMA PacketArrives ==
  ASSUME IInv, NEW s \in Sockets, NEW type \in {"snapshot", "delta"},
         ClientReceives(s, type)
  PROVE  /\ s = socket /\ socket \in Sockets /\ isReady = TRUE
         /\ down[socket] # <<>> /\ down[socket] \in Seq(Downward)
         /\ Head(down[socket]).type = type
         /\ Head(down[socket]) \in BinaryMessage
         /\ Head(down[socket]).market \in Markets
         /\ Head(down[socket]).version \in 0 .. MaxVersion
         /\ InStep(Head(down[socket]))
         /\ Counted /\ entities = TRUE
<1> DEFINE h == Head(down[socket])
<1>1. TypeOK /\ Ends /\ Sessions /\ NotGreeted
  BY DEF IInv, ServerSide
<1>2. s = socket /\ socket \in Sockets /\ down[socket] # <<>> /\ h.type = type
  BY DEF ClientReceives
<1>3. down[socket] \in Seq(Downward)
  BY <1>1, <1>2, InUse
<1>4. h \in Downward /\ h \in ToSet(down[socket])
  BY <1>2, <1>3, AmongRest
<1>5. h \in BinaryMessage /\ h.market \in Markets /\ h.version \in 0 .. MaxVersion
  BY <1>2, <1>4, MessageKinds
<1>6. isReady = TRUE
  BY <1>1, <1>2, <1>4 DEF NotGreeted, TypeOK, TypeOKClient
<1> QED
  BY <1>1, <1>2, <1>3, <1>5, <1>6, PacketInStep

\* A packet that no controller expects keeps the invariant.
LEMMA PacketIgnoredKeeps ==
  ASSUME IInv, TypeOK', NEW s \in Sockets, NEW type \in {"snapshot", "delta"},
         ClientReceives(s, type), PacketIgnored(s), UNCHANGED <<serverVars, serverEnd, viewVars>>,
         Head(down[s]).clientId \notin pending[Head(down[s]).market]
  PROVE  Ends' /\ View' /\ ServerSide'
<1> DEFINE r == <<>>
           h == Head(down[socket])
<1>1. TypeOK /\ Ends /\ View /\ ServerSide
  BY DEF IInv
<1>2. /\ s = socket /\ socket \in Sockets /\ isReady = TRUE
      /\ down[socket] # <<>> /\ down[socket] \in Seq(Downward)
      /\ h \in BinaryMessage
  BY PacketArrives
<1>3. /\ TakeDown(s) /\ up' = up /\ lastServerId' = lastServerId + 1
      /\ UNCHANGED <<clientEnd, serverEnd, socket, isReady, connectDue>>
      /\ UNCHANGED <<nextClientId, entities, marketList, sync, shown,
                     mounted, storage, pending, rollingShown>>
  BY DEF PacketIgnored, transportVars, viewVars, controllerVars
<1>4. down'[socket] = Rest(down[socket])
  BY <1>1, <1>2, <1>3, HeardFrom
<1>5. GoesOn
  BY <1>3 DEF GoesOn
<1>6. r \in Seq(ClientMessage) /\ Says(r) /\ ToSet(r) = {}
  BY <1>3, NothingSaidNow
<1> HIDE DEF r
<1>7. Ends'
  BY <1>1, <1>3, EndsReceive
<1>8. View'
  BY <1>1, <1>3, ViewSame
<1>9. nextClientId <= nextClientId'
  BY <1>1, <1>3 DEF TypeOK, TypeOKClient, ClientIds
<1>10. ServerSide'
  <2>1. \A k \in Markets : storage'[k] = IF h.market = k /\ h.clientId \in pending[k]
                                           THEN h.version ELSE storage[k]
    BY <1>2, <1>3
  <2>2. \A k \in Markets : \A id \in pending'[k] :
          id \in pending[k] \/ (id = nextClientId /\ id < nextClientId')
    BY <1>3
  <2>3. UNCHANGED <<isReady, marketList, entities, rollingShown>>
    BY <1>3
  <2> QED
    BY <1>1, <1>2, <1>3, <1>4, <1>5, <1>6, <1>9, <2>1, <2>2, <2>3, PacketHeard
<1> QED
  BY <1>7, <1>8, <1>10

\* handleDelta keeps the invariant.
LEMMA ApplyDeltaKeeps ==
  ASSUME IInv, TypeOK', NEW s \in Sockets, ClientReceives(s, "delta"),
         ApplyDelta(s, Head(down[s])), UNCHANGED <<serverVars, serverEnd, viewVars>>,
         Expected(Head(down[s]))
  PROVE  Ends' /\ View' /\ ServerSide'
<1> DEFINE r == <<>>
           h == Head(down[socket])
<1>1. TypeOK /\ Ends /\ View /\ ServerSide
  BY DEF IInv
<1>2. /\ s = socket /\ socket \in Sockets /\ isReady = TRUE
      /\ down[socket] # <<>> /\ down[socket] \in Seq(Downward)
      /\ h \in BinaryMessage /\ h.market \in Markets
  BY PacketArrives
<1>3. /\ TakeDown(s) /\ up' = up /\ lastServerId' = lastServerId + 1
      /\ storage' = [storage EXCEPT ![h.market] = h.version]
      /\ UNCHANGED <<clientEnd, serverEnd, socket, isReady, connectDue>>
      /\ UNCHANGED <<nextClientId, entities, marketList, sync, shown,
                     mounted, pending, rollingShown>>
  BY <1>2 DEF ApplyDelta, transportVars, viewVars
<1>4. down'[socket] = Rest(down[socket])
  BY <1>1, <1>2, <1>3, HeardFrom
<1>5. GoesOn
  BY <1>3 DEF GoesOn
<1>6. r \in Seq(ClientMessage) /\ Says(r) /\ ToSet(r) = {}
  BY <1>3, NothingSaidNow
<1> HIDE DEF r
<1>7. Ends'
  BY <1>1, <1>3, EndsReceive
<1>8. View'
  BY <1>1, <1>3, ViewSame
<1>9. nextClientId <= nextClientId'
  BY <1>1, <1>3 DEF TypeOK, TypeOKClient, ClientIds
<1>10. ServerSide'
  <2>1. \A k \in Markets : storage'[k] = IF h.market = k /\ h.clientId \in pending[k]
                                           THEN h.version ELSE storage[k]
    BY <1>1, <1>2, <1>3 DEF Expected, TypeOK, TypeOKClient
  <2>2. \A k \in Markets : \A id \in pending'[k] :
          id \in pending[k] \/ (id = nextClientId /\ id < nextClientId')
    BY <1>3
  <2>3. UNCHANGED <<isReady, marketList, entities, rollingShown>>
    BY <1>3
  <2> QED
    BY <1>1, <1>2, <1>3, <1>4, <1>5, <1>6, <1>9, <2>1, <2>2, <2>3, PacketHeard
<1> QED
  BY <1>7, <1>8, <1>10

\* handleSnapshot keeps the invariant.
LEMMA ApplySnapshotKeeps ==
  ASSUME IInv, TypeOK', NEW s \in Sockets, ClientReceives(s, "snapshot"),
         ApplySnapshot(s, Head(down[s])), UNCHANGED <<serverVars, serverEnd, viewVars>>,
         Expected(Head(down[s]))
  PROVE  Ends' /\ View' /\ ServerSide'
<1> DEFINE h == Head(down[socket])
           x == [type |-> "addRolling", clientId |-> nextClientId, market |-> h.market]
           r == <<x>>
<1>1. TypeOK /\ Ends /\ View /\ ServerSide
  BY DEF IInv
<1>2. /\ s = socket /\ socket \in Sockets /\ isReady = TRUE
      /\ down[socket] # <<>> /\ down[socket] \in Seq(Downward)
      /\ h \in BinaryMessage /\ h.market \in Markets
  BY PacketArrives
<1>3. /\ TakeDown(s) /\ up' = UpAfter(s, r) /\ lastServerId' = lastServerId + 1
      /\ storage' = [storage EXCEPT ![h.market] = h.version]
      /\ pending' = [pending EXCEPT ![h.market] = @ \union {nextClientId}]
      /\ nextClientId' = nextClientId + 1
      /\ UNCHANGED <<clientEnd, serverEnd, socket, isReady, connectDue>>
      /\ UNCHANGED <<entities, marketList, sync, shown, mounted, rollingShown>>
  BY <1>2 DEF ApplySnapshot, transportVars, viewVars
<1>4. down'[socket] = Rest(down[socket])
  BY <1>1, <1>2, <1>3, HeardFrom
<1>5. GoesOn
  BY <1>3 DEF GoesOn
<1>6. nextClientId \in ClientIds /\ nextClientId \in Nat
  BY <1>1 DEF TypeOK, TypeOKClient, ClientIds
<1>7. nextClientId <= nextClientId' /\ nextClientId < nextClientId'
  BY <1>3, <1>6
<1>8. /\ r \in Seq(ClientMessage)
      /\ \A y \in ToSet(r) : y.type = "addRolling" /\ y.clientId < nextClientId'
  <2>1. x \in ClientMessage
    BY <1>2, <1>6, MessagesTyped
  <2>2. x.type = "addRolling" /\ x.clientId = nextClientId
    OBVIOUS
  <2> QED
    BY <1>7, <2>1, <2>2 DEF ToSet
<1> HIDE DEF r, x
<1>9. Says(r)
  BY <1>1, <1>2, <1>3, <1>8, Said
<1>10. Ends'
  BY <1>1, <1>3, EndsReceive
<1>11. \A k \in Markets : pending'[k] = IF k = h.market THEN pending[k] \union {nextClientId}
                                                        ELSE pending[k]
  BY <1>1, <1>3 DEF TypeOK, TypeOKClient
<1>12. View'
  <2>1. \A k \in Markets : k \notin mounted' => pending'[k] = {}
    <3>1. pending[h.market] # {}
      BY <1>2 DEF Expected
    <3>2. \A k \in Markets : k \notin mounted => pending[k] = {}
      BY <1>1 DEF View
    <3> QED
      BY <1>2, <1>3, <1>11, <3>1, <3>2
  <2> QED
    BY <1>1, <1>3, <2>1 DEF View, AnswersOfOneSession, ShownIsSynchronized
<1>13. ServerSide'
  <2>1. \A k \in Markets : storage'[k] = IF h.market = k /\ h.clientId \in pending[k]
                                           THEN h.version ELSE storage[k]
    BY <1>1, <1>2, <1>3 DEF Expected, TypeOK, TypeOKClient
  <2>2. \A k \in Markets : \A id \in pending'[k] :
          id \in pending[k] \/ (id = nextClientId /\ id < nextClientId')
    BY <1>7, <1>11
  <2>3. UNCHANGED <<isReady, marketList, entities, rollingShown>>
    BY <1>3
  <2> QED
    BY <1>1, <1>2, <1>3, <1>4, <1>5, <1>7, <1>8, <1>9, <2>1, <2>2, <2>3,
         PacketHeard
<1> QED
  BY <1>10, <1>12, <1>13

\* handleBinaryMessage of a snapshot keeps the invariant.
LEMMA HandleSnapshotKeeps ==
  ASSUME IInv, TypeOK', NEW s \in Sockets, HandleSnapshot(s), UNCHANGED serverVars
  PROVE  Ends' /\ View' /\ ServerSide'
<1> DEFINE h == Head(down[s])
<1>1. ClientReceives(s, "snapshot") /\ UNCHANGED <<serverEnd, viewVars>>
  BY DEF HandleSnapshot
<1>2. InStep(h)
  BY <1>1, PacketArrives
<1>3. CASE ~ Expected(h)
  <2>1. PacketIgnored(s)
    BY <1>2, <1>3 DEF HandleSnapshot
  <2> QED
    BY <1>1, <1>3, <2>1, PacketIgnoredKeeps DEF Expected
<1>4. CASE Expected(h)
  <2>1. ApplySnapshot(s, h)
    BY <1>2, <1>4 DEF HandleSnapshot
  <2> QED
    BY <1>1, <1>4, <2>1, ApplySnapshotKeeps
<1> QED
  BY <1>3, <1>4

\* applyDelta finds the storage the delta starts from.
LEMMA DeltaContinues ==
  ASSUME IInv, NEW s \in Sockets, ClientReceives(s, "delta"), Expected(Head(down[s]))
  PROVE  Continues(Head(down[s])) /\ storage[Head(down[s]).market] # NoStorage
<1> DEFINE h == Head(down[s])
           m == h.market
<1>1. /\ s = socket /\ socket \in Sockets
      /\ down[s] # <<>> /\ down[s] \in Seq(Downward)
      /\ h.type = "delta" /\ h \in BinaryMessage /\ m \in Markets
      /\ h.version \in 0 .. MaxVersion
  BY PacketArrives
<1>2. StorageReached(m)
  BY <1>1 DEF IInv, ServerSide, StoragesReached
<1>3. DeltasFit(down[s], BinariesOf(m), pending[m], storage[m]) /\ h \in BinariesOf(m)
  BY <1>1, <1>2 DEF StorageReached, BinariesOf
<1>4. h.clientId \in pending[m]
  BY DEF Expected
<1>5. h.version = storage[m] + 1
  BY <1>1, <1>3, <1>4, DeltasHead
<1>6. storage[m] # NoStorage
  BY <1>1, <1>5, NetworkAssumption DEF NoStorage
<1> QED
  BY <1>5, <1>6 DEF Continues

\* handleBinaryMessage of a delta keeps the invariant.
LEMMA HandleDeltaKeeps ==
  ASSUME IInv, TypeOK', NEW s \in Sockets, HandleDelta(s), UNCHANGED serverVars
  PROVE  Ends' /\ View' /\ ServerSide'
<1> DEFINE h == Head(down[s])
<1>1. ClientReceives(s, "delta") /\ UNCHANGED <<serverEnd, viewVars>>
  BY DEF HandleDelta
<1>2. InStep(h)
  BY <1>1, PacketArrives
<1>3. CASE ~ Expected(h)
  <2>1. PacketIgnored(s)
    BY <1>2, <1>3 DEF HandleDelta
  <2> QED
    BY <1>1, <1>3, <2>1, PacketIgnoredKeeps DEF Expected
<1>4. CASE Expected(h)
  <2>1. Continues(h) /\ storage[h.market] # NoStorage
    BY <1>1, <1>4, DeltaContinues
  <2>2. ApplyDelta(s, h)
    BY <1>2, <1>4, <2>1 DEF HandleDelta
  <2> QED
    BY <1>1, <1>4, <2>2, ApplyDeltaKeeps
<1> QED
  BY <1>3, <1>4

-----------------------------------------------------------------------------
(* The hello: a new session.                                               *)

\* What the browser says when it has been greeted.
Opening(gone) == << Signal("webSocketReady"), Signal("clientPing"),
                    Signal("requestSettings"), Signal("setMarketInfo"),
                    Signal("requestStorageEntities") >> \o Removals(gone)

\* What is said after the hello asks for nothing that needs a client id.
LEMMA OpeningTyped ==
  ASSUME NEW gone, gone \subseteq Markets
  PROVE  /\ Opening(gone) \in Seq(ClientMessage)
         /\ \A x \in ToSet(Opening(gone)) : x.type \notin {"requestFullSync", "addRolling"}
         /\ Opening(gone)[1].type = "webSocketReady"
         /\ Len(Opening(gone)) \in Nat
         /\ 1 \in 1 .. Len(Opening(gone))
         /\ ListAsked(Opening(gone))
<1> DEFINE first == << Signal("webSocketReady"), Signal("clientPing"),
                       Signal("requestSettings"), Signal("setMarketInfo"),
                       Signal("requestStorageEntities") >>
           then == Removals(gone)
           r == Join(first, then)
<1>1. /\ first \in Seq(ClientMessage) /\ Len(first) = 5
      /\ first[1].type = "webSocketReady" /\ first[4].type = "setMarketInfo"
      /\ \A i \in 1 .. 5 : first[i].type \in ClientSignals
  <2>1. \A type \in ClientSignals : Signal(type) \in ClientMessage
                                      /\ Signal(type).type = type
    BY MessagesTyped DEF Signal
  <2>2. {"webSocketReady", "clientPing", "requestSettings", "setMarketInfo",
         "requestStorageEntities"} \subseteq ClientSignals
    BY DEF ClientSignals
  <2> QED
    BY <2>1, <2>2
<1>2. /\ then \in Seq(ClientMessage)
      /\ \A i \in 1 .. Len(then) : then[i].type \in {"removeRolling", "removeStatistics"}
  BY RemovalsTyped
<1> HIDE DEF first, then
<1>3. /\ r \in Seq(ClientMessage) /\ Len(r) = 5 + Len(then) /\ Len(then) \in Nat
      /\ \A i \in 1 .. 5 : i \in 1 .. Len(r) /\ r[i] = first[i]
      /\ \A i \in 1 .. Len(r) :
           \/ i \in 1 .. 5 /\ r[i] = first[i]
           \/ i - 5 \in 1 .. Len(then) /\ r[i] = then[i - 5]
  <2>1. /\ r \in Seq(ClientMessage) /\ Len(r) = Len(first) + Len(then)
        /\ Len(then) \in Nat
        /\ \A i \in 1 .. Len(first) : i \in 1 .. Len(r) /\ r[i] = first[i]
        /\ \A i \in 1 .. Len(r) :
             \/ i \in 1 .. Len(first) /\ r[i] = first[i]
             \/ i - Len(first) \in 1 .. Len(then) /\ r[i] = then[i - Len(first)]
    <3>1. first \in Seq(ClientMessage) /\ then \in Seq(ClientMessage)
      BY <1>1, <1>2
    <3> HIDE DEF r
    <3>2. Join(first, then) = r
      BY DEF r
    <3> QED
      BY ONLY <3>1, <3>2, Joined
  <2> QED
    BY ONLY <1>1, <2>1
<1> HIDE DEF r
<1>4. \A i \in 1 .. Len(r) : r[i].type \notin {"requestFullSync", "addRolling"}
  <2>1. \A t \in ClientSignals \union {"removeRolling", "removeStatistics"} :
          t \notin {"requestFullSync", "addRolling"}
    BY DEF ClientSignals
  <2>2. \A i \in 1 .. Len(r) :
          r[i].type \in ClientSignals \union {"removeRolling", "removeStatistics"}
    BY <1>1, <1>2, <1>3
  <2> QED
    BY <2>1, <2>2
<1>5. \A x \in ToSet(r) : \E i \in 1 .. Len(r) : x = r[i]
  BY <1>3, Among
<1>6. r[1].type = "webSocketReady" /\ 1 \in 1 .. Len(r) /\ Len(r) \in Nat
  BY <1>1, <1>3
<1>7. r[4].type = "setMarketInfo" /\ 4 \in 1 .. Len(r)
  BY <1>1, <1>3
<1>8. ListAsked(r)
  BY <1>7 DEF ListAsked
<1>9. r = Opening(gone)
  BY DEF r, Opening, Join, first, then
<1> QED
  BY <1>3, <1>4, <1>5, <1>6, <1>8, <1>9

\* Before the opening nothing was said that needs a server that is ready.
LEMMA Opened ==
  ASSUME NEW S, NEW u, NEW r, u \in Seq(S), r \in Seq(S),
         \A x \in ToSet(u) : x.type \in {"requestFullSync", "removeRolling",
                                         "removeStatistics", "clientPong"},
         \A x \in ToSet(r) : x.type \notin {"requestFullSync", "addRolling"},
         Len(r) \in Nat, 1 \in 1 .. Len(r), r[1].type = "webSocketReady"
  PROVE  /\ NothingAsked(Join(u, r), FALSE)
         /\ ReadyFirst(Join(u, r), FALSE)
<1> DEFINE t == Join(u, r)
<1>1. /\ Len(u) \in Nat /\ Len(t) = Len(u) + Len(r)
      /\ \A i \in 1 .. Len(u) : i \in 1 .. Len(t) /\ t[i] = u[i]
      /\ \A i \in 1 .. Len(t) :
           \/ i \in 1 .. Len(u) /\ t[i] = u[i]
           \/ /\ i - Len(u) \in 1 .. Len(r) /\ t[i] = r[i - Len(u)]
              /\ \A j \in 1 .. Len(u) : j < i
  BY Joined
<1>2. /\ \A i \in 1 .. Len(u) :
           u[i].type \in {"requestFullSync", "removeRolling", "removeStatistics",
                          "clientPong"}
      /\ \A i \in 1 .. Len(r) : r[i].type \notin {"requestFullSync", "addRolling"}
  <2>1. /\ \A i \in 1 .. Len(u) : u[i] \in ToSet(u)
        /\ \A i \in 1 .. Len(r) : r[i] \in ToSet(r)
    BY Among
  <2> QED
    BY <2>1
<1> HIDE DEF t
<1>3. NothingAsked(u, FALSE)
  <2>1. ASSUME NEW i \in 1 .. Len(u) PROVE \A j \in 1 .. i : u[j].type # "webSocketReady"
    <3>1. \A j \in 1 .. i : j \in 1 .. Len(u)
      BY <1>1
    <3> QED
      BY <1>2, <3>1
  <2> QED
    BY <2>1 DEF NothingAsked
<1>4. NothingAsked(t, FALSE)
  <2>1. \A x \in ToSet(r) : x.type # "requestFullSync"
    OBVIOUS
  <2> QED
    BY <1>3, <2>1, NothingAskedJoined DEF t
<1> DEFINE n == Len(u) + 1
<1>5. n \in 1 .. Len(t) /\ n \in Nat /\ t[n].type = "webSocketReady"
  <2>1. n \in 1 .. Len(t) /\ n \in Nat /\ n \notin 1 .. Len(u) /\ n - Len(u) = 1
    BY <1>1
  <2>2. t[n] = r[1]
    BY <1>1, <2>1
  <2> QED
    BY <2>1, <2>2
<1>6. ASSUME NEW i \in 1 .. Len(t), t[i].type \in {"setMarketInfo", "addRolling"}
      PROVE  n \in 1 .. i
  <2>1. i \notin 1 .. Len(u)
    BY <1>1, <1>2, <1>6
  <2> QED
    BY <1>1, <2>1
<1> HIDE DEF n
<1>7. ReadyFirst(t, FALSE)
  BY <1>5, <1>6 DEF ReadyFirst, ReadySent
<1> QED
  BY <1>4, <1>7 DEF t

\* handleServerHello keeps the invariant.
LEMMA HandleServerHelloKeeps ==
  ASSUME IInv, TypeOK', NEW s \in Sockets, HandleServerHello(s), UNCHANGED serverVars
  PROVE  Ends' /\ View' /\ ServerSide'
<1> DEFINE r == Opening(mounted)
<1>1. TypeOK /\ Ends /\ View /\ ServerSide /\ NotGreeted /\ IdsGiven
  BY DEF IInv, ServerSide
<1>2. /\ ClientReceives(s, "serverHello") /\ TakeDown(s) /\ up' = UpAfter(s, r)
      /\ isReady = FALSE /\ isReady' = TRUE
      /\ sync' = NewRun /\ HidePages
      /\ UNCHANGED <<clientEnd, serverEnd, socket, connectDue>>
      /\ UNCHANGED <<nextClientId, lastServerId, entities, marketList>>
  BY <1>1 DEF HandleServerHello, pageVars, sessionVars, Opening, TypeOK,
       TypeOKClient
<1>3. /\ socket \in Sockets /\ s = socket /\ Hears
      /\ down[socket] # <<>> /\ down'[socket] = Rest(down[socket])
  BY <1>1, <1>2, HeardFrom
<1>4. GoesOn
  BY <1>2 DEF GoesOn
<1>5. /\ r \in Seq(ClientMessage)
      /\ \A x \in ToSet(r) : x.type \notin {"requestFullSync", "addRolling"}
      /\ r[1].type = "webSocketReady" /\ Len(r) \in Nat /\ 1 \in 1 .. Len(r)
      /\ ListAsked(r)
  <2>1. mounted \subseteq Markets
    BY <1>1 DEF TypeOK, TypeOKClient
  <2> QED
    BY <2>1, OpeningTyped
<1> HIDE DEF r
<1>6. Ends'
  BY <1>1, <1>2, <1>3, EndsReceive
<1>7. Says(r)
  BY <1>1, <1>2, <1>3, <1>5, Said
<1>8. /\ shown' = FALSE /\ mounted' = {}
      /\ \A m \in Markets : pending'[m] = {}
      /\ \A m \in Markets : rollingShown'[m] \in {rollingShown[m], 0}
  BY <1>1, <1>2, PagesHidden
<1>9. sync'.state = "waiting" /\ \A a \in Answers : sync'.got[a] = NoSocket
  BY <1>2, RunsTyped
<1>10. "entities" \in Answers /\ "markets" \in Answers
  BY DEF Answers
<1>11. View'
  BY <1>8, <1>9, <1>10 DEF View, AnswersOfOneSession, ShownIsSynchronized
<1>12. /\ \A x \in ToSet(up[socket]) :
            x.type \in {"requestFullSync", "removeRolling", "removeStatistics",
                        "clientPong"}
       /\ \A x \in ToSet(down[socket]) : x.type \in {"serverHello", "serverPing"}
       /\ Known => Fresh(clients[socket])
       /\ EventIds(socket) = {}
  BY <1>1, <1>2, <1>3 DEF NotGreeted
<1>13. up[socket] \in Seq(ClientMessage) /\ (Open => Known) /\ (~ Open => up[socket] = <<>>)
  BY <1>1, <1>3, InUse
<1>14. /\ \A x \in ToSet(down'[socket]) : x \in ToSet(down[socket])
       /\ down'[socket] \in Seq(Downward)
  BY <1>1, <1>3, HeardAmong
<1>15. \A x \in ToSet(down'[socket]) :
         x \notin BinaryMessage /\ \A m : x \notin BinariesOf(m) /\ x \notin RollingsOf(m)
  BY <1>12, <1>14, PlainKinds
<1>16. \/ Open /\ up'[socket] = Join(up[socket], r)
       \/ ~ Open /\ up'[socket] = <<>>
  <2>1. clientEnd[socket] = "open"
    BY <1>2, <1>3 DEF ClientReceives
  <2>2. UpTyped
    BY <1>1, NetworkTyped DEF TypeOK
  <2>3. up'[socket] = IF Open THEN Join(up[socket], r) ELSE up[socket]
    BY <1>2, <1>3, <2>1, <2>2 DEF UpAfter, Open, Join, UpTyped, NoSocket,
         Sockets
  <2> QED
    BY <1>13, <2>3
<1>17. Open => /\ NothingAsked(up'[socket], FALSE)
               /\ ReadyFirst(up'[socket], FALSE)
               /\ ListAsked(up'[socket])
  <2>1. NothingAsked(Join(up[socket], r), FALSE) /\ ReadyFirst(Join(up[socket], r), FALSE)
    BY ONLY <1>5, <1>12, <1>13, Opened
  <2>2. ListAsked(Join(up[socket], r))
    BY ONLY <1>5, <1>13, ListAskedJoined
  <2> QED
    BY <1>16, <2>1, <2>2
<1>18. Open => clients[socket].isReady = FALSE
  BY <1>12, <1>13 DEF Fresh
<1>19. Sessions'
  <2>1. NothingAsked(up'[socket], clients[socket].isReady)
    <3>1. CASE Open
      BY <1>17, <1>18, <3>1
    <3>2. CASE ~ Open
      BY <1>16, <3>2, NothingAskedNone
    <3> QED
      BY <3>1, <3>2
  <2>2. Unasked'
    BY <1>4, <1>12, <1>15, <2>1, GoneOn DEF Unasked, Fresh
  <2>3. ~ Registered'
    BY <1>8, <1>9, <1>10 DEF Registered
  <2>4. lastServerId' # 0 => entities' = TRUE
    BY <1>1, <1>2 DEF ServerSide, Sessions
  <2> QED
    BY <2>2, <2>3, <2>4 DEF Sessions
<1>20. IdsGiven'
  <2>1. nextClientId <= nextClientId'
    BY <1>1, <1>2 DEF TypeOK, TypeOKClient, ClientIds
  <2> QED
    BY <1>1, <1>3, <1>4, <1>5, <1>7, <1>8, <2>1, IdsHeard
<1>21. ASSUME NEW m \in Markets PROVE StorageReached(m)' /\ RollingReached(m)'
  <2>1. At(down'[socket], BinariesOf(m)) = {}
    BY <1>14, <1>15, AtAmong
  <2>2. DeltasFit(down'[socket], BinariesOf(m), pending'[m], storage'[m])
    BY <2>1, DeltasNone
  <2>3. Open => clients[socket].statistics[m] = NoId /\ clients[socket].rolling[m] = NoId
    BY <1>12, <1>13 DEF Fresh
  <2> QED
    BY <1>4, <1>15, <2>2, <2>3, GoneOn DEF StorageReached, RollingReached
<1>22. \A m \in Markets : rollingShown'[m] <= rolled'[m]
  <2>1. \A m \in Markets : rollingShown[m] <= rolled[m] /\ rolled[m] \in Nat
    BY <1>1 DEF ServerSide, RollingsReached, TypeOK, TypeOKServer
  <2> QED
    BY <1>4, <1>8, <2>1, GoneOn
<1>23. AskedReady' /\ ListReached'
  BY <1>4, <1>17, <1>18, GoneOn DEF AskedReady, ListReached
<1>24. NotGreeted'
  BY <1>2 DEF NotGreeted
<1>25. ServerSide'
  BY <1>19, <1>20, <1>21, <1>22, <1>23, <1>24
     DEF ServerSide, StoragesReached, RollingsReached
<1> QED
  BY <1>6, <1>11, <1>25

-----------------------------------------------------------------------------
(* Every step of the browser, and the initial states.                      *)

\* Every step of the browser keeps the invariant.
LEMMA ClientStep ==
  ASSUME IInv, ClientNext(release), UNCHANGED <<serverVars, scenario>>
  PROVE  IInv'
<1>1. TypeOK /\ UNCHANGED serverVars
  BY DEF IInv
<1>2. TypeOK'
  <2>1. release \in 1 .. 2
    BY <1>1 DEF TypeOK, TypeOKServer
  <2> QED
    BY <1>1, <2>1, ClientTypes, ServerTypesStay DEF TypeOK
<1>3. ASSUME NEW s \in Sockets, HandleServerMessage(s)
      PROVE  Ends' /\ View' /\ ServerSide'
  BY <1>1, <1>2, <1>3, HandleServerHelloKeeps, HandleHelloOfNewReleaseKeeps,
     HandleServerPongKeeps, HandleServerPingKeeps, HandleSettingsLoadedKeeps,
     HandleMarketsUpdatedKeeps, HandleStorageEntitiesLoadedKeeps,
     HandleMarketRollingUpdatedKeeps, HandleSnapshotKeeps, HandleDeltaKeeps
     DEF HandleServerMessage
<1>4. ASSUME NEW s \in Sockets, SocketCloses(s)
      PROVE  Ends' /\ View' /\ ServerSide'
  BY <1>1, <1>4, SocketClosesKeeps
<1>5. ASSUME NEW m \in Markets, Mount(m) \/ Unmount(m)
      PROVE  Ends' /\ View' /\ ServerSide'
  BY <1>1, <1>2, <1>5, MountKeeps, UnmountKeeps
<1>6. ASSUME Connect PROVE Ends' /\ View' /\ ServerSide'
  BY <1>1, <1>6, ConnectKeeps
<1>7. ASSUME PongTimeout PROVE Ends' /\ View' /\ ServerSide'
  BY <1>1, <1>7, PongTimeoutKeeps
<1>8. ASSUME SendClientPing PROVE Ends' /\ View' /\ ServerSide'
  BY <1>1, <1>2, <1>8, SendClientPingKeeps
<1>9. ASSUME UserReloads(release) PROVE Ends' /\ View' /\ ServerSide'
  BY <1>1, <1>9, UserReloadsKeeps
<1>10. ASSUME Remount PROVE Ends' /\ View' /\ ServerSide'
  BY <1>1, <1>10, RemountKeeps
<1>11. Ends' /\ View' /\ ServerSide'
  <2>1. \/ Connect \/ PongTimeout \/ SendClientPing \/ UserReloads(release) \/ Remount
        \/ \E s \in Sockets : SocketCloses(s) \/ HandleServerMessage(s)
        \/ \E m \in Markets : Mount(m) \/ Unmount(m)
    BY DEF ClientNext
  <2> QED
    BY ONLY <1>3, <1>4, <1>5, <1>6, <1>7, <1>8, <1>9, <1>10, <2>1
<1> QED
  BY <1>2, <1>11 DEF IInv

\* Nobody is connected at first.
LEMMA InitInvariant ==
  Init => IInv
<1> SUFFICES ASSUME Init PROVE IInv
  OBVIOUS
<1>1. TypeOKNetwork
  BY DEF Init, InitNetwork, TypeOKNetwork
<1>2. TypeOKServer
  <2>1. DOMAIN << >> = {}
    OBVIOUS
  <2>2. 0 \in 0 .. MaxVersion /\ 0 \in 0 .. MaxSilent + 1 /\ 1 \in 1 .. MaxMarkets
    BY NetworkAssumption, SilentAssumption
  <2> QED
    BY <2>1, <2>2 DEF Init, InitServer, TypeOKServer
<1>3. TypeOKClient
  <2>1. /\ 0 \in 0 .. MaxVersion /\ 0 \in 0 .. MaxMarkets
        /\ NoStorage \in 0 .. NoStorage
    BY NetworkAssumption, NoStorageNatural
  <2>2. NotRunning.state = "idle" /\ NotRunning.got \in [Answers -> Sockets \union {NoSocket}]
    BY RunsTyped
  <2>3. /\ socket = NoSocket /\ isReady = FALSE /\ pongTimer = FALSE /\ connectDue = TRUE
        /\ page = 1 /\ nextClientId = 1 /\ lastServerId = 0 /\ entities = FALSE
        /\ marketList = 0 /\ sync = NotRunning /\ shown = FALSE /\ mounted = {}
        /\ storage = [m \in Markets |-> NoStorage]
        /\ pending = [m \in Markets |-> {}]
        /\ rollingShown = [m \in Markets |-> 0]
    BY DEF Init, InitPage
  <2>4. TransportTyped /\ PageTyped
    <3>1. 1 \in ClientIds
      BY ClientIdsGoOn
    <3>2. PageTyped
      BY <2>3, <3>1 DEF PageTyped
    <3>3. socket \in Sockets \union {NoSocket}
      BY <2>3
    <3>4. isReady \in BOOLEAN /\ pongTimer \in BOOLEAN /\ connectDue \in BOOLEAN
      BY <2>3
    <3> QED
      BY <3>2, <3>3, <3>4 DEF TransportTyped
  <2>5. SessionTyped /\ ControllersTyped
    BY <2>1, <2>3 DEF SessionTyped, ControllersTyped
  <2>6. ViewTyped
    BY <2>2, <2>3 DEF ViewTyped
  <2> QED
    BY <2>4, <2>5, <2>6, ClientTyped
<1>4. TypeOK
  BY <1>1, <1>2, <1>3 DEF TypeOK
<1>5. socket = NoSocket /\ NoSocket \notin Sockets /\ isReady = FALSE
  BY DEF Init, InitPage, NoSocket, Sockets
<1>6. Ends
  <2>1. ASSUME NEW s \in Sockets PROVE SocketOK(s)
    BY <1>5 DEF Init, InitNetwork, InitServer, SocketOK
  <2>2. PendingOfConnected
    <3>1. DOMAIN << >> = {}
      OBVIOUS
    <3> QED
      BY <3>1 DEF Init, InitNetwork, InitServer, PendingOfConnected
  <2> QED
    BY <1>5, <2>1, <2>2 DEF Ends
<1>7. View
  BY <1>5 DEF Init, InitPage, View, AnswersOfOneSession, ShownIsSynchronized
<1>8. ServerSide
  <2>1. \A m \in Markets : rollingShown[m] <= rolled[m]
    BY DEF Init, InitPage, InitServer
  <2>2. \A m \in Markets : pending[m] = {}
    BY DEF Init, InitPage
  <2>3. lastServerId = 0
    BY DEF Init, InitPage
  <2> QED
    BY <1>5, <2>1, <2>2, <2>3 DEF ServerSide, NotGreeted, Sessions, IdsGiven,
       StoragesReached, AskedReady, ListReached, RollingsReached
<1> QED
  BY <1>4, <1>6, <1>7, <1>8 DEF IInv

\* The invariant holds: by the steps above, for any number of sockets, markets,
\* client ids, versions and market lists.
LEMMA InvariantHolds == Spec => []IInv
<1>1. ASSUME IInv, [Next]_vars PROVE IInv'
  <2>1. CASE ServerNext /\ UNCHANGED <<clientVars, scenario>>
    BY <1>1, <2>1, ServerStep
  <2>2. CASE ClientNext(release) /\ UNCHANGED <<serverVars, scenario>>
    BY <1>1, <2>2, ClientStep
  <2>3. CASE Network /\ UNCHANGED <<serverVars, clientVars, scenario>>
    BY <1>1, <2>3, NetworkStep
  <2>4. CASE UNCHANGED vars
    <3>1. UNCHANGED <<networkVars, serverVars, clientVars, scenario>>
      BY <2>4 DEF vars
    <3>2. TypeOKNetwork /\ TypeOKServer /\ TypeOKClient /\ Ends /\ View /\ ServerSide
      BY <1>1 DEF IInv, TypeOK
    <3>3. TypeOK'
      <4>1. TypeOKNetwork'
        BY <3>1, <3>2 DEF TypeOKNetwork, networkVars
      <4> QED
        BY <3>1, <3>2, <4>1, ClientTypesStay, ServerTypesStay DEF TypeOK
    <3>4. \A s \in Sockets : s \in loading' => s \in loading
      BY <3>1 DEF serverVars
    <3>5. Ends'
      BY <3>1, <3>2, <3>4, EndsStay DEF Ends, networkVars, serverVars,
           clientVars, transportVars
    <3>6. Unnoticed
      <4>1. GoesOn /\ UNCHANGED <<version, rolled, markets, loading, up, down>>
        BY <3>1 DEF GoesOn, networkVars, serverVars, clientVars, transportVars
      <4> QED
        BY <3>1, <4>1, GoneOn, FadesNot, NothingSaid
    <3>7. ServerSide'
      BY <1>1, <3>1, <3>2, <3>3, <3>5, <3>6, ServerSideStays DEF IInv
    <3> QED
      BY <3>1, <3>2, <3>3, <3>5, <3>7, ViewStays DEF IInv
  <2> QED
    BY <1>1, <2>1, <2>2, <2>3, <2>4 DEF Next
<1> QED
  BY <1>1, InitInvariant, PTL DEF Spec

-----------------------------------------------------------------------------
(* What the invariant says of the properties that are checked.             *)

\* The count of packets is the one acceptServerId expects.
LEMMA InvariantInStep == IInv => SessionsInStep
<1> SUFFICES ASSUME IInv PROVE SessionsInStep
  OBVIOUS
<1>1. TypeOK /\ Ends /\ Sessions /\ NotGreeted
  BY DEF IInv, ServerSide
<1>2. PendingOfConnected
  BY <1>1 DEF Ends
<1>3. CASE socket \in Sockets
  <2> DEFINE q == down[socket]
  <2>1. q \in Seq(Downward)
    BY <1>1, <1>3, InUse
  <2>2. \A i : i \in BinariesIn(q) <=> i \in At(q, BinaryMessage)
    <3>1. \A i \in 1 .. Len(q) : q[i] \in Downward
      BY <2>1
    <3> QED
      BY <3>1, MessageKinds DEF BinariesIn, At
  <2>3. Counting(q, lastServerId)
    <3>1. CASE \A x \in ToSet(q) : x \notin BinaryMessage
      BY <2>1, <3>1, AtAmong, CountingNone
    <3>2. CASE \E x \in ToSet(q) : x \in BinaryMessage
      <4>1. isReady = TRUE
        BY <1>1, <1>3, <3>2, MessageKinds DEF NotGreeted, TypeOK, TypeOKClient
      <4> QED
        BY <1>1, <3>2, <4>1 DEF Sessions, Unasked, Counted
    <3> QED
      BY <3>1, <3>2
  <2> HIDE DEF q
  <2>4. ASSUME NEW i \in BinariesIn(q), NEW j \in Nat, After(q, BinaryMessage, j, i)
        PROVE  q[i].serverId = ServerIdAt(q, j, lastServerId) + 1
    BY <2>3, <2>4 DEF BinariesIn, Counting
  <2>5. ASSUME NEW i \in BinariesIn(q), {j \in BinariesIn(q) : j < i} = {}
        PROVE  q[i].serverId = lastServerId + 1
    <3>1. i \in Nat /\ \A k \in BinariesIn(q) : k \in Nat
      BY DEF BinariesIn
    <3>2. After(q, BinaryMessage, 0, i)
      BY <2>2, <2>5, <3>1, AfterIsPlace DEF After, BinariesIn
    <3> QED
      BY <2>4, <3>2 DEF ServerIdAt
  <2>6. ASSUME NEW i \in BinariesIn(q), NEW j \in BinariesIn(q), j < i,
               \A k \in BinariesIn(q) : k < i => k <= j
        PROVE  q[i].serverId = q[j].serverId + 1
    <3>1. i \in Nat /\ j \in Nat \ {0} /\ \A k \in BinariesIn(q) : k \in Nat
      BY DEF BinariesIn
    <3>2. ASSUME NEW k \in At(q, BinaryMessage) PROVE k <= j \/ i <= k
      <4>1. k \in BinariesIn(q) /\ k \in Nat
        BY <2>2, <3>1
      <4>2. k < i => k <= j
        BY <2>6, <4>1
      <4> QED
        BY ONLY <3>1, <4>1, <4>2
    <3>3. i \in At(q, BinaryMessage) /\ j \in At(q, BinaryMessage) \union {0} /\ j < i
      BY <2>2, <2>6
    <3>4. After(q, BinaryMessage, j, i)
      BY <3>2, <3>3 DEF After
    <3> QED
      BY <2>4, <3>1, <3>4 DEF ServerIdAt
  <2>7. ServerIdsInStep
    BY <2>5, <2>6 DEF ServerIdsInStep, q
  <2> QED
    BY <1>2, <2>7 DEF SessionsInStep
<1> QED
  BY <1>2, <1>3 DEF SessionsInStep, ServerIdsInStep

\* A delta that is applied (handleDelta) continues the storage.
LEMMA InvariantContinues == IInv => DeltasContinue
BY DeltaContinues DEF DeltasContinue

\* With nothing on its way, what was sent last has been seen.
LEMMA InvariantCurrent == IInv => QuietClientCurrent
<1> SUFFICES ASSUME IInv, Quiet PROVE
      /\ marketList = markets
      /\ \A m \in mounted :
           /\ clients[socket].statistics[m] \in pending[m] =>
                storage[m] = version[m]
           /\ clients[socket].rolling[m] \in pending[m] =>
                rollingShown[m] = rolled[m]
  BY DEF QuietClientCurrent
<1>1. TypeOK /\ Ends /\ ListReached /\ StoragesReached /\ RollingsReached
  BY DEF IInv, ServerSide
<1>2. isReady = TRUE /\ socket \in Sockets /\ Open
      /\ up[socket] = <<>> /\ down[socket] = <<>>
  BY <1>1 DEF Quiet, Ends, Open, TypeOK, TypeOKClient
<1>3. \A M : Latest(<<>>, M, 0)
  BY NothingSent
<1>4. ~ ListAsked(up[socket])
  BY <1>2 DEF ListAsked
<1>5. marketList = markets
  BY <1>1, <1>2, <1>3, <1>4 DEF ListReached, ListReaches, ListAt
<1>6. ASSUME NEW m \in mounted
      PROVE  /\ clients[socket].statistics[m] \in pending[m] => storage[m] = version[m]
             /\ clients[socket].rolling[m] \in pending[m] => rollingShown[m] = rolled[m]
  <2>1. m \in Markets /\ NoId \notin pending[m]
    BY <1>1 DEF TypeOK, TypeOKClient, ClientIds, NoId
  <2>2. StorageReached(m) /\ RollingReached(m)
    BY <1>1, <1>2, <2>1 DEF StoragesReached, RollingsReached
  <2>3. ASSUME NEW M, NEW id, NEW v, NEW seen, Reaches(<<>>, M, id, v, pending[m], seen)
        PROVE  id \in pending[m] => seen = v
    BY <1>3, <2>3 DEF Reaches, ReachesAt
  <2> QED
    BY <1>2, <2>1, <2>2, <2>3 DEF StorageReached, RollingReached
<1> QED
  BY <1>5, <1>6

\* The answers of the view are those of one session.
LEMMA InvariantShown == IInv => ShownFromOneSession
BY DEF IInv, View, ShownFromOneSession

\* The packets on their way to the browser carry the server ids it counts on,
\* so that acceptServerId never finds a gap, and a full sync that waits for its
\* answer belongs to a socket that is listed (handleClientClose), whatever
\* sockets die, time out or are left by a page that is loaded again.
THEOREM SessionsStayInStep == Spec => []SessionsInStep
BY InvariantHolds, InvariantInStep, PTL

\* A delta that a market's controller expects starts where the storage it has
\* ends: applyDelta never throws (handleDelta), although subscriptions, their
\* answers and the ticks in between are handled at any time.
THEOREM DeltasAlwaysContinue == Spec => []DeltasContinue
BY InvariantHolds, InvariantContinues, PTL

\* A browser with nothing on its way in either direction has the market list of
\* the server, and of every mounted market whose subscription the server knows
\* the storage and the rolling statistics in their last version.
THEOREM QuietClientIsCurrent == Spec => []QuietClientCurrent
BY InvariantHolds, InvariantCurrent, PTL

\* The pages are shown with the entities registered and the markets known, and
\* by answers of a single session: getPrimaryData never joins an answer of one
\* connection with one of another (run, cancel).
THEOREM ShownComesFromOneSession == Spec => []ShownFromOneSession
BY InvariantHolds, InvariantShown, PTL

================================================================================
