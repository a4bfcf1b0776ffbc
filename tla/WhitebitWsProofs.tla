---------------------------- MODULE WhitebitWsProofs ----------------------------
(***************************************************************************)
(* Theorems about the market feed, for any number of sockets, lists,       *)
(* updates and any events: updates become ticks once and in order, an      *)
(* active subscription is one of the newest list, and something always     *)
(* watches over a feed that is not subscribed.                             *)
(*                                                                         *)
(* The argument: only one socket is ever listened to, and what is on its   *)
(* way over it belongs to the newest request and to updates not yet        *)
(* handled.                                                                *)
(***************************************************************************)
EXTENDS WhitebitWs, SequenceTheorems, WellFoundedInduction, TLAPS

Requests == [method : {"ping", "subscribe", "unsubscribe"}, id : Nat, payload : Nat]

Messages == [type : {"pong"}] \union [type : {"receipt", "refusal"}, id : Nat]
              \union [type : {"update"}, moment : Nat \ {0}]

States == [status : {"waiting socket", "subscribing", "active", "unsubscribing"},
           requestId : Nat, payload : 0 .. MaxLists, timeout : Nat]

IsRequest(request) == request.method # "ping"

\* No request that could change the subscription is on its way to the exchange.
NothingAsked(s) == \A i \in 1 .. Len(sent[s]) : ~ IsRequest(sent[s][i])

\* The types, with those of what is on its way.
ClientTypes ==
  /\ process \in {"loading", "running", "stopped", "crashed"}
  /\ list \in 1 .. MaxLists
  /\ conn \in [Sockets -> {"none", "connecting", "open", "closing", "gone"}]
  /\ socket \in Sockets \union {NoSocket}
  /\ shouldReconnect \in BOOLEAN /\ reconnectTimer \in BOOLEAN
  /\ pongTimer \in BOOLEAN

StateTypes ==
  /\ requestId \in Nat
  /\ state \in States
  /\ state.requestId <= requestId /\ state.timeout <= requestId

ExchangeTypes ==
  /\ sent \in [Sockets -> Seq(Requests)]
  /\ received \in [Sockets -> Seq(Messages)]
  /\ subscribed \in [Sockets -> 0 .. MaxLists]
  /\ moment \in 0 .. MaxMoments
  /\ ticks \in Seq(Nat \ {0})

\* The socket in use is the only one that connects or is open, and the only one
\* that is listened to.
OneSocket ==
  /\ listened = IF socket = NoSocket THEN {} ELSE {socket}
  /\ socket # NoSocket =>
       conn[socket] = "connecting" \/ conn[socket] = "open" \/ conn[socket] = "closing"
  /\ \A s \in Sockets : conn[s] = "connecting" \/ conn[s] = "open" => s = socket

\* Only an open socket carries messages.
OnlyOpenCarries ==
  \A s \in Sockets : conn[s] # "open" => sent[s] = <<>> /\ received[s] = <<>>

\* The timers belong to the socket in use, or to none.
TimersOfSocket ==
  /\ reconnectTimer => socket = NoSocket
  /\ pongTimer => socket # NoSocket /\ conn[socket] # "connecting"
  /\ process = "loading" =>
       /\ socket = NoSocket
       /\ state.status = "waiting socket"
       /\ state.timeout = NoTimer
  /\ process = "running" => shouldReconnect
  /\ process = "stopped" => ~ shouldReconnect
  /\ process = "running" /\ socket = NoSocket => reconnectTimer

\* Whatever a socket still has to tell is newer than every tick, and in order.
UpdatesInOrder ==
  /\ \A i \in 1 .. Len(ticks) : ticks[i] <= moment
  /\ \A s \in Sockets : \A i \in 1 .. Len(received[s]) :
       received[s][i].type = "update" =>
         /\ received[s][i].moment <= moment
         /\ \A k \in 1 .. Len(ticks) : ticks[k] < received[s][i].moment
         /\ \A j \in 1 .. i - 1 : received[s][j].type = "update" =>
              received[s][j].moment < received[s][i].moment

\* The requests on their way to the exchange have growing ids, none beyond the
\* last one given, and the last one is what the state is about.
RequestsInOrder ==
  \A s \in Sockets : \A i \in 1 .. Len(sent[s]) : IsRequest(sent[s][i]) =>
    /\ sent[s][i].id <= requestId
    /\ sent[s][i].method = "subscribe" => sent[s][i].payload <= MaxLists
    /\ \A j \in 1 .. i - 1 : IsRequest(sent[s][j]) => sent[s][j].id < sent[s][i].id
    /\ sent[s][i].id = requestId /\ state.status = "subscribing" =>
         sent[s][i].method = "subscribe" /\ sent[s][i].payload = state.payload

\* A receipt of the newest request is the last thing the exchange did with
\* requests.
ReceiptsInOrder ==
  \A s \in Sockets : \A i \in 1 .. Len(received[s]) :
    received[s][i].type = "receipt" =>
      /\ received[s][i].id <= requestId
      /\ received[s][i].id = requestId =>
           /\ NothingAsked(s)
           /\ state.status = "subscribing" => subscribed[s] = state.payload

\* What the state says about the request under way.
StateOfSocket ==
  /\ process # "loading" => state.payload = list
  /\ IsOpen =>
       /\ state.status # "waiting socket"
       /\ state.requestId = requestId
       /\ state.status # "active" => state.timeout = state.requestId
       /\ state.status = "active" =>
            subscribed[socket] = list /\ NothingAsked(socket)

IInv ==
  /\ ClientTypes /\ StateTypes /\ ExchangeTypes
  /\ OneSocket /\ OnlyOpenCarries /\ TimersOfSocket
  /\ UpdatesInOrder /\ RequestsInOrder /\ ReceiptsInOrder /\ StateOfSocket
  /\ TicksOnce /\ StopIsFinal

-----------------------------------------------------------------------------

\* What the bounds are members of.
LEMMA Bounds ==
  /\ NoList \in 0 .. MaxLists /\ 1 \in 1 .. MaxLists /\ 0 \in 0 .. MaxMoments
  /\ MaxLists \in Nat /\ MaxMoments \in Nat /\ MaxSockets \in Nat
  /\ NoSocket \notin Sockets /\ Sockets \subseteq Nat
BY FeedAssumption DEF NoList, NoSocket, Sockets

\* The records that wait for a socket are states.
LEMMA WaitingType ==
  ASSUME NEW payload \in 0 .. MaxLists
  PROVE  /\ Waiting(payload) \in States
         /\ Waiting(payload).status = "waiting socket"
         /\ Waiting(payload).requestId = 0
         /\ Waiting(payload).payload = payload
         /\ Waiting(payload).timeout = 0
  BY DEF Waiting, States, NoTimer

\* A timer that is forgotten.
LEMMA NoTimerType ==
  ASSUME StateTypes, requestId' = requestId,
         state' = [state EXCEPT !.timeout = NoTimer]
  PROVE  /\ StateTypes'
         /\ state'.status = state.status /\ state'.requestId = state.requestId
         /\ state'.payload = state.payload /\ state'.timeout = 0
<1>1. state \in States /\ requestId \in Nat /\ state.requestId <= requestId
  BY DEF StateTypes
<1>2. /\ state' \in States
      /\ state'.status = state.status /\ state'.requestId = state.requestId
      /\ state'.payload = state.payload /\ state'.timeout = 0
  BY ONLY <1>1, state' = [state EXCEPT !.timeout = NoTimer] DEF States, NoTimer
<1> QED
  BY ONLY <1>1, <1>2, requestId' = requestId DEF StateTypes

\* What is known of a request on its way.
LEMMA RequestType ==
  ASSUME ExchangeTypes, NEW s \in Sockets, NEW i \in 1 .. Len(sent[s])
  PROVE  /\ sent[s][i] \in Requests
         /\ sent[s][i].id \in Nat /\ sent[s][i].payload \in Nat
<1>1. sent[s] \in Seq(Requests)
  BY DEF ExchangeTypes
<1>2. sent[s][i] \in Requests
  BY <1>1
<1> QED
  BY ONLY <1>2 DEF Requests

\* What is known of a message on its way.
LEMMA MessageType ==
  ASSUME ExchangeTypes, NEW s \in Sockets, NEW i \in 1 .. Len(received[s])
  PROVE  /\ received[s][i] \in Messages
         /\ received[s][i].type = "receipt" => received[s][i].id \in Nat
         /\ received[s][i].type = "update" => received[s][i].moment \in Nat \ {0}
<1>1. received[s] \in Seq(Messages)
  BY DEF ExchangeTypes
<1>2. received[s][i] \in Messages
  BY <1>1
<1> QED
  BY ONLY <1>2 DEF Messages

\* The feed starts with nothing open and nothing on its way.
LEMMA InitIInv == Init => IInv
<1> SUFFICES ASSUME Init PROVE IInv
  OBVIOUS
<1> USE DEF Init
<1>1. ClientTypes
  BY Bounds DEF ClientTypes
<1>2. StateTypes
  <2>1. state = Waiting(NoList) /\ requestId = 0
    OBVIOUS
  <2>2. /\ state \in States /\ requestId = 0
        /\ state.requestId = 0 /\ state.timeout = 0
    BY ONLY <2>1, Bounds, WaitingType
  <2> QED
    BY ONLY <2>2 DEF StateTypes
<1>3. ExchangeTypes
  BY Bounds DEF ExchangeTypes
<1>4. OneSocket /\ OnlyOpenCarries
  BY DEF OneSocket, OnlyOpenCarries
<1>5. TimersOfSocket /\ StateOfSocket
  BY DEF TimersOfSocket, StateOfSocket, IsOpen, Waiting
<1>6. UpdatesInOrder /\ RequestsInOrder /\ ReceiptsInOrder
  BY DEF UpdatesInOrder, RequestsInOrder, ReceiptsInOrder
<1>7. TicksOnce /\ StopIsFinal
  BY DEF TicksOnce, StopIsFinal
<1> QED
  BY <1>1, <1>2, <1>3, <1>4, <1>5, <1>6, <1>7 DEF IInv

-----------------------------------------------------------------------------
(* Sockets.                                                                *)

\* A non-empty set of natural numbers has a least element.
LEMMA LeastElement ==
  ASSUME NEW S \in SUBSET Nat, S # {}
  PROVE  \E m \in S : \A x \in S : m <= x
<1> DEFINE Below == OpToRel(<, Nat)
<1>1. \A a, b \in Nat : a < b => <<a, b>> \in Below
  BY DEF OpToRel
<1>2. IsWellFoundedOn(Below, Nat)
  BY NatLessThanWellFounded
<1> HIDE DEF Below
<1>3. PICK m \in S : \A y \in S : <<y, m>> \notin Below
  BY <1>2, WFMin
<1>4. ASSUME NEW x \in S PROVE ~ (x < m)
  <2>1. x \in Nat /\ m \in Nat
    OBVIOUS
  <2> QED
    BY <2>1, <1>1, <1>3, Zenon
<1> QED
  BY <1>4

\* A socket that is left can be opened.
LEMMA NextSocketIsLeft ==
  ASSUME SocketsLeft
  PROVE  NextSocket \in Sockets /\ conn[NextSocket] = "none"
<1> DEFINE left == {s \in Sockets : conn[s] = "none"}
<1>1. left \in SUBSET Nat /\ left # {}
  BY FeedAssumption DEF SocketsLeft, Sockets
<1>2. \E s \in left : \A t \in left : s <= t
  BY <1>1, LeastElement
<1> QED
  BY <1>2 DEF NextSocket

\* While no socket is open nothing is on its way.
LEMMA NotOpenIsEmpty ==
  ASSUME IInv, ~ IsOpen
  PROVE  \A s \in Sockets : sent[s] = <<>> /\ received[s] = <<>>
<1> SUFFICES ASSUME NEW s \in Sockets
             PROVE  sent[s] = <<>> /\ received[s] = <<>>
  OBVIOUS
<1>1. conn[s] # "open"
  BY Bounds DEF IInv, OneSocket, IsOpen
<1> QED
  BY <1>1 DEF IInv, OnlyOpenCarries

\* A socket is opened while there is none.
LEMMA OpenSocketIInv ==
  ASSUME IInv, OpenSocket, socket = NoSocket, reconnectTimer' = FALSE,
         UNCHANGED <<list, requestId, exchangeVars>>,
         process' = "running", shouldReconnect' = TRUE,
         StateTypes', state'.payload = list
  PROVE  IInv'
<1>1. NextSocket \in Sockets /\ conn[NextSocket] = "none" /\ NextSocket # NoSocket
  BY NextSocketIsLeft, Bounds DEF OpenSocket
<1>2. /\ socket' = NextSocket /\ pongTimer' = FALSE
      /\ conn' = [conn EXCEPT ![NextSocket] = "connecting"]
      /\ listened' = {NextSocket}
  BY DEF OpenSocket, IInv, OneSocket
<1>3. conn \in [Sockets -> {"none", "connecting", "open", "closing", "gone"}]
  BY DEF IInv, ClientTypes
<1>4. conn' \in [Sockets -> {"none", "connecting", "open", "closing", "gone"}]
      /\ conn'[NextSocket] = "connecting"
      /\ \A s \in Sockets : s # NextSocket => conn'[s] = conn[s]
  BY <1>1, <1>2, <1>3
<1>5. \A s \in Sockets : sent'[s] = <<>> /\ received'[s] = <<>>
  BY NotOpenIsEmpty DEF IsOpen, exchangeVars
<1>6. ClientTypes'
  BY <1>1, <1>2, <1>4 DEF IInv, ClientTypes
<1>7. ExchangeTypes'
  BY DEF IInv, ExchangeTypes, exchangeVars
<1>8. OneSocket'
  <2>1. \A s \in Sockets : ~ (conn[s] = "connecting" \/ conn[s] = "open")
    BY Bounds DEF IInv, OneSocket
  <2> QED
    BY <1>1, <1>2, <1>4, <2>1 DEF OneSocket
<1>9. OnlyOpenCarries' /\ RequestsInOrder' /\ ReceiptsInOrder'
  BY <1>5 DEF OnlyOpenCarries, RequestsInOrder, ReceiptsInOrder
<1>10. UpdatesInOrder' /\ TicksOnce'
  BY DEF IInv, UpdatesInOrder, TicksOnce, exchangeVars
<1>11. TimersOfSocket'
  BY <1>1, <1>2 DEF TimersOfSocket
<1>12. StateOfSocket'
  BY <1>2, <1>4 DEF StateOfSocket, IsOpen
<1>13. StopIsFinal'
  BY DEF StopIsFinal
<1> QED
  BY <1>6, <1>7, <1>8, <1>9, <1>10, <1>11, <1>12, <1>13 DEF IInv

\* What the sockets and the exchange look like when the socket in use has been
\* given up.
NoneInUse ==
  /\ socket = NoSocket /\ pongTimer = FALSE
  /\ conn \in [Sockets -> {"none", "connecting", "open", "closing", "gone"}]
  /\ OneSocket /\ OnlyOpenCarries /\ ExchangeTypes
  /\ UpdatesInOrder /\ RequestsInOrder /\ ReceiptsInOrder /\ TicksOnce

\* Giving up the socket in use leaves nothing on its way.
LEMMA GiveUpKeeps ==
  ASSUME IInv, socket # NoSocket, GiveUp(socket), pongTimer' = FALSE,
         UNCHANGED <<subscribed, moment, ticks>>
  PROVE  NoneInUse'
<1>1. socket \in Sockets
  BY DEF IInv, ClientTypes
<1>2. /\ socket' = NoSocket /\ listened' = {}
      /\ conn' = [conn EXCEPT ![socket] = "closing"]
      /\ sent' = [sent EXCEPT ![socket] = <<>>]
      /\ received' = [received EXCEPT ![socket] = <<>>]
  BY DEF GiveUp, ListenedWithout, IInv, OneSocket
<1>3. conn \in [Sockets -> {"none", "connecting", "open", "closing", "gone"}]
  BY DEF IInv, ClientTypes
<1>4. conn' \in [Sockets -> {"none", "connecting", "open", "closing", "gone"}]
      /\ conn'[socket] = "closing"
      /\ \A s \in Sockets : s # socket => conn'[s] = conn[s]
  BY <1>1, <1>2, <1>3
<1>5. sent \in [Sockets -> Seq(Requests)] /\ received \in [Sockets -> Seq(Messages)]
  BY DEF IInv, ExchangeTypes
<1>6. sent' \in [Sockets -> Seq(Requests)] /\ received' \in [Sockets -> Seq(Messages)]
  <2>1. <<>> \in Seq(Requests) /\ <<>> \in Seq(Messages)
    OBVIOUS
  <2> QED
    BY <1>1, <1>2, <1>5, <2>1
<1>7. ASSUME NEW s \in Sockets PROVE sent'[s] = <<>> /\ received'[s] = <<>>
  <2>1. CASE s = socket
    BY <1>1, <1>2, <1>5, <2>1
  <2>2. CASE s # socket
    <3>1. conn[s] # "open"
      BY <2>2 DEF IInv, OneSocket
    <3>2. sent[s] = <<>> /\ received[s] = <<>>
      BY <3>1 DEF IInv, OnlyOpenCarries
    <3> QED
      BY <1>2, <1>5, <2>2, <3>2
  <2> QED
    BY <2>1, <2>2
<1>8. OneSocket'
  <2>1. \A s \in Sockets : ~ (conn'[s] = "connecting" \/ conn'[s] = "open")
    BY <1>4 DEF IInv, OneSocket
  <2> QED
    BY <1>2, <2>1 DEF OneSocket
<1>9. ExchangeTypes'
  BY <1>6 DEF IInv, ExchangeTypes
<1>10. OnlyOpenCarries' /\ RequestsInOrder' /\ ReceiptsInOrder'
  BY <1>7 DEF OnlyOpenCarries, RequestsInOrder, ReceiptsInOrder
<1>11. UpdatesInOrder' /\ TicksOnce'
  BY <1>7 DEF IInv, UpdatesInOrder, TicksOnce
<1> QED
  BY <1>2, <1>4, <1>8, <1>9, <1>10, <1>11 DEF NoneInUse

\* Without a socket in use there is nothing to give up.
LEMMA NothingToGiveUp ==
  ASSUME IInv, socket = NoSocket,
         UNCHANGED <<conn, listened, socket, pongTimer, sent, received,
                     subscribed, moment, ticks>>
  PROVE  NoneInUse'
<1>1. \A s \in Sockets : sent'[s] = <<>> /\ received'[s] = <<>>
  BY NotOpenIsEmpty DEF IsOpen
<1>2. OnlyOpenCarries' /\ RequestsInOrder' /\ ReceiptsInOrder'
  BY <1>1 DEF OnlyOpenCarries, RequestsInOrder, ReceiptsInOrder
<1>3. pongTimer' = FALSE
  BY DEF IInv, ClientTypes, TimersOfSocket
<1>4. OneSocket' /\ ExchangeTypes' /\ UpdatesInOrder' /\ TicksOnce'
  BY DEF IInv, OneSocket, ExchangeTypes, UpdatesInOrder, TicksOnce
<1>5. conn' \in [Sockets -> {"none", "connecting", "open", "closing", "gone"}]
  BY DEF IInv, ClientTypes
<1> QED
  BY <1>2, <1>3, <1>4, <1>5 DEF NoneInUse

\* What a reconnection leaves, whatever the state becomes.
LEMMA ReconnectIInv ==
  ASSUME IInv, Reconnect, Alive, UNCHANGED <<subscribed, moment, ticks>>,
         StateTypes', list' \in 1 .. MaxLists, state'.payload = list'
  PROVE  IInv'
<1>1. NoneInUse' /\ process' \in {process, "crashed"}
  <2>1. CASE socket # NoSocket
    BY <2>1, GiveUpKeeps DEF Reconnect
  <2>2. CASE socket = NoSocket
    BY <2>2, NothingToGiveUp DEF Reconnect
  <2> QED
    BY <2>1, <2>2
<1>2. /\ reconnectTimer' = (shouldReconnect \/ reconnectTimer)
      /\ shouldReconnect' = shouldReconnect
      /\ process \in {"running", "stopped"}
  BY DEF Reconnect, Alive
<1>3. ClientTypes'
  BY <1>1, <1>2 DEF IInv, ClientTypes, NoneInUse
<1>4. TimersOfSocket'
  BY <1>1, <1>2 DEF IInv, TimersOfSocket, NoneInUse
<1>5. StateOfSocket'
  BY <1>1 DEF StateOfSocket, IsOpen, NoneInUse
<1>6. StopIsFinal'
  <2>1. listened' = {}
    BY <1>1 DEF NoneInUse, OneSocket
  <2>2. process' = "stopped" => ~ reconnectTimer'
    BY <1>1, <1>2 DEF IInv, TimersOfSocket, StopIsFinal
  <2> QED
    BY <1>1, <2>1, <2>2 DEF StopIsFinal, NoneInUse
<1> QED
  BY <1>1, <1>3, <1>4, <1>5, <1>6 DEF IInv, NoneInUse

-----------------------------------------------------------------------------
(* The actions of the service.                                             *)

\* start() opens the first socket.
LEMMA StartIInv == IInv /\ Start => IInv'
<1> SUFFICES ASSUME IInv, Start PROVE IInv'
  OBVIOUS
<1>1. socket = NoSocket /\ requestId' = requestId /\ list' = list
  BY DEF IInv, TimersOfSocket, Start
<1>2. list \in 0 .. MaxLists
  <2>1. list \in 1 .. MaxLists
    BY DEF IInv, ClientTypes
  <2> QED
    BY ONLY <2>1, Bounds
<1>3. StateTypes' /\ state'.payload = list
  <2>1. state' = Waiting(list) /\ requestId \in Nat
    BY DEF Start, IInv, StateTypes
  <2>2. /\ state' \in States /\ state'.requestId = 0
        /\ state'.timeout = 0 /\ state'.payload = list
    BY ONLY <1>2, <2>1, WaitingType
  <2> QED
    BY ONLY <1>1, <2>1, <2>2 DEF StateTypes
<1> QED
  BY <1>1, <1>3, OpenSocketIInv DEF Start

\* The reconnect timer is set only while there is no socket.
LEMMA ReconnectNowIInv == IInv /\ ReconnectNow => IInv'
<1> SUFFICES ASSUME IInv, ReconnectNow PROVE IInv'
  OBVIOUS
<1>1. socket = NoSocket /\ process = "running"
  BY DEF IInv, TimersOfSocket, StopIsFinal, ReconnectNow, Alive
<1>2. StateTypes' /\ state'.payload = list
  BY <1>1 DEF IInv, StateTypes, StateOfSocket, ReconnectNow
<1>3. shouldReconnect = TRUE
  BY <1>1 DEF IInv, TimersOfSocket, ClientTypes
<1> QED
  BY <1>1, <1>2, <1>3, OpenSocketIInv DEF ReconnectNow

\* stop() gives up the socket and leaves no timer.
LEMMA StopIInv == IInv /\ Stop => IInv'
<1> SUFFICES ASSUME IInv, Stop PROVE IInv'
  OBVIOUS
<1>1. NoneInUse'
  <2>1. CASE socket # NoSocket
    BY <2>1, GiveUpKeeps DEF Stop
  <2>2. CASE socket = NoSocket
    <3>1. pongTimer' = pongTimer
      BY <2>2 DEF Stop, IInv, TimersOfSocket, ClientTypes
    <3> QED
      BY <2>2, <3>1, NothingToGiveUp DEF Stop
  <2> QED
    BY <2>1, <2>2
<1>2. /\ process' \in {"stopped", "crashed"} /\ process = "running"
      /\ shouldReconnect' = FALSE /\ reconnectTimer' = FALSE
      /\ list' = list /\ requestId' = requestId
      /\ state' = [state EXCEPT !.timeout = NoTimer]
  BY DEF Stop
<1>3. ClientTypes'
  BY <1>1, <1>2 DEF IInv, ClientTypes, NoneInUse
<1>4. StateTypes' /\ state'.payload = state.payload
  <2>1. StateTypes
    BY DEF IInv
  <2> QED
    BY ONLY <1>2, <2>1, NoTimerType
<1>5. TimersOfSocket'
  BY <1>1, <1>2 DEF TimersOfSocket, NoneInUse
<1>6. StateOfSocket'
  BY <1>1, <1>2, <1>4 DEF IInv, StateOfSocket, IsOpen, NoneInUse
<1>7. StopIsFinal'
  BY <1>1, <1>2 DEF StopIsFinal, NoneInUse, OneSocket
<1> QED
  BY <1>1, <1>3, <1>4, <1>5, <1>6, <1>7 DEF IInv, NoneInUse

\* Requested gives the next id and has a timer for it.
LEMMA RequestedType ==
  ASSUME IInv, NEW status \in {"subscribing", "unsubscribing"},
         NEW payload \in 0 .. MaxLists,
         state' = Requested(status, payload), requestId' = requestId + 1
  PROVE  /\ StateTypes'
         /\ state'.status = status /\ state'.payload = payload
         /\ state'.requestId = requestId' /\ state'.timeout = requestId'
<1>1. requestId \in Nat /\ requestId + 1 \in Nat
  BY DEF IInv, StateTypes
<1>2. state' = [status |-> status, requestId |-> requestId + 1,
                payload |-> payload, timeout |-> requestId + 1]
  BY DEF Requested
<1>3. state' \in States
  BY ONLY <1>1, <1>2, status \in {"subscribing", "unsubscribing"},
     payload \in 0 .. MaxLists DEF States
<1> QED
  BY <1>1, <1>2, <1>3 DEF StateTypes

\* Another list is registered: the newest version.
LEMMA NextListType ==
  ASSUME IInv, list < MaxLists
  PROVE  list + 1 \in 1 .. MaxLists /\ list + 1 \in 0 .. MaxLists
<1>1. list \in 1 .. MaxLists
  BY DEF IInv, ClientTypes
<1> QED
  BY ONLY <1>1, Bounds, list < MaxLists

\* One request is sent on the socket in use after the others, with the next id.
LEMMA SendNext ==
  ASSUME IInv, IsOpen, NEW method \in {"subscribe", "unsubscribe"},
         NEW payload \in Nat,
         Send(<< Request(method, requestId + 1, payload) >>),
         requestId' = requestId + 1,
         method = "subscribe" => payload <= MaxLists,
         state'.status = "subscribing" =>
           method = "subscribe" /\ payload = state'.payload
  PROVE  /\ sent' \in [Sockets -> Seq(Requests)]
         /\ \A s \in Sockets : conn[s] # "open" => sent'[s] = sent[s]
         /\ RequestsInOrder'
<1> DEFINE request == Request(method, requestId + 1, payload)
<1>1. socket \in Sockets /\ conn[socket] = "open"
  BY DEF IInv, ClientTypes, IsOpen
<1>2. /\ requestId \in Nat
      /\ sent \in [Sockets -> Seq(Requests)]
  BY DEF IInv, StateTypes, ExchangeTypes
<1>3. request \in Requests /\ request.method = method /\ request.id = requestId + 1
      /\ request.payload = payload
  BY <1>2 DEF Request, Requests
<1>4. sent' = [sent EXCEPT ![socket] = sent[socket] \o <<request>>]
  BY DEF Send
<1> HIDE DEF request
<1>5. sent[socket] \o <<request>> \in Seq(Requests)
  BY <1>1, <1>2, <1>3
<1>6. sent' \in [Sockets -> Seq(Requests)]
  BY <1>1, <1>2, <1>4, <1>5
<1>7. ASSUME NEW s \in Sockets, NEW i \in 1 .. Len(sent'[s]),
             IsRequest(sent'[s][i])
      PROVE  /\ sent'[s][i].id <= requestId'
             /\ sent'[s][i].method = "subscribe" => sent'[s][i].payload <= MaxLists
             /\ \A j \in 1 .. i - 1 :
                  IsRequest(sent'[s][j]) => sent'[s][j].id < sent'[s][i].id
             /\ sent'[s][i].id = requestId' /\ state'.status = "subscribing" =>
                  /\ sent'[s][i].method = "subscribe"
                  /\ sent'[s][i].payload = state'.payload
  <2>1. CASE i \in 1 .. Len(sent[s]) /\ \A j \in 1 .. i : sent'[s][j] = sent[s][j]
    <3>1. /\ sent[s][i].id <= requestId
          /\ sent[s][i].method = "subscribe" => sent[s][i].payload <= MaxLists
          /\ \A j \in 1 .. i - 1 :
               IsRequest(sent[s][j]) => sent[s][j].id < sent[s][i].id
      BY <1>7, <2>1 DEF IInv, RequestsInOrder
    <3>2. sent[s][i].id \in Nat
      BY <2>1, RequestType DEF IInv
    <3>3. sent'[s][i] = sent[s][i]
      BY <2>1
    <3>4. requestId' = requestId + 1
      OBVIOUS
    <3>5. \A j \in 1 .. i - 1 : sent'[s][j] = sent[s][j]
      BY <2>1
    <3> QED
      BY ONLY <1>2, <3>1, <3>2, <3>3, <3>4, <3>5
  <2>2. CASE /\ s = socket /\ i = Len(sent[s]) + 1
             /\ sent'[s][i] = request
             /\ \A j \in 1 .. i - 1 : j \in 1 .. Len(sent[s]) /\ sent'[s][j] = sent[s][j]
    <3>1. ASSUME NEW j \in 1 .. i - 1, IsRequest(sent'[s][j])
          PROVE  sent'[s][j].id < requestId + 1
      <4>1. j \in 1 .. Len(sent[s]) /\ IsRequest(sent[s][j])
        BY <2>2, <3>1
      <4>2. sent[s][j].id <= requestId /\ sent[s][j].id \in Nat
        BY <4>1, RequestType DEF IInv, RequestsInOrder
      <4> QED
        BY <1>2, <2>2, <4>2
    <3> QED
      BY <1>2, <1>3, <2>2, <3>1
  <2>3. CASE s # socket
    <3>1. sent'[s] = sent[s]
      BY <1>2, <1>4, <2>3
    <3> QED
      BY <2>1, <3>1
  <2>4. CASE s = socket
    <3>1. sent'[s] = sent[s] \o <<request>>
      BY <1>1, <1>2, <1>4, <2>4
    <3>2. /\ Len(sent'[s]) = Len(sent[s]) + 1
          /\ sent'[s][Len(sent[s]) + 1] = request
          /\ \A j \in 1 .. Len(sent[s]) : sent'[s][j] = sent[s][j]
          /\ Len(sent[s]) \in Nat
      BY <1>2, <1>3, <3>1
    <3>3. CASE i <= Len(sent[s])
      BY <2>1, <3>2, <3>3
    <3>4. CASE i = Len(sent[s]) + 1
      BY <2>2, <2>4, <3>2, <3>4
    <3> QED
      BY <3>2, <3>3, <3>4
  <2> QED
    BY <2>3, <2>4
<1>8. RequestsInOrder'
  BY <1>7 DEF RequestsInOrder
<1>9. \A s \in Sockets : conn[s] # "open" => sent'[s] = sent[s]
  BY <1>1, <1>2, <1>4
<1> QED
  BY <1>6, <1>8, <1>9

\* The first message of a socket is taken off it.
LEMMA TakesKeeps ==
  ASSUME IInv, NEW s \in Sockets, conn[s] = "open", received[s] # <<>>, Takes(s)
  PROVE  /\ received' \in [Sockets -> Seq(Messages)]
         /\ \A q \in Sockets : conn[q] # "open" => received'[q] = received[q]
         /\ 1 \in 1 .. Len(received[s]) /\ Head(received[s]) = received[s][1]
         /\ \A q \in Sockets :
              Len(received'[q]) = IF q = s THEN Len(received[q]) - 1 ELSE Len(received[q])
         /\ \A q \in Sockets : \A i \in 1 .. Len(received'[q]) :
              received'[q][i] = IF q = s THEN received[q][i + 1] ELSE received[q][i]
<1>1. received \in [Sockets -> Seq(Messages)]
  BY DEF IInv, ExchangeTypes
<1>2. received[s] \in Seq(Messages)
  BY <1>1
<1>3. /\ Tail(received[s]) \in Seq(Messages)
      /\ Len(Tail(received[s])) = Len(received[s]) - 1
      /\ \A i \in 1 .. Len(received[s]) - 1 : Tail(received[s])[i] = received[s][i + 1]
      /\ Head(received[s]) = received[s][1]
      /\ Len(received[s]) \in Nat /\ 1 <= Len(received[s])
  BY <1>2
<1>4. received' = [received EXCEPT ![s] = Tail(received[s])]
  BY DEF Takes
<1>5. /\ received'[s] = Tail(received[s])
      /\ \A q \in Sockets : q # s => received'[q] = received[q]
  BY <1>1, <1>4
<1>6. received' \in [Sockets -> Seq(Messages)]
  BY <1>1, <1>3, <1>4
<1>7. ASSUME NEW q \in Sockets
      PROVE  /\ Len(received'[q]) =
                  IF q = s THEN Len(received[q]) - 1 ELSE Len(received[q])
             /\ \A i \in 1 .. Len(received'[q]) :
                  received'[q][i] = IF q = s THEN received[q][i + 1] ELSE received[q][i]
  BY <1>3, <1>5
<1> QED
  BY <1>3, <1>5, <1>6, <1>7

\* Updates that stay on their way stay in order.
LEMMA UpdatesStay ==
  ASSUME IInv, NEW s \in Sockets, conn[s] = "open", received[s] # <<>>, Takes(s),
         UNCHANGED <<ticks, moment>>
  PROVE  UpdatesInOrder' /\ TicksOnce'
<1>1. ASSUME NEW q \in Sockets, NEW i \in 1 .. Len(received'[q]),
             received'[q][i].type = "update"
      PROVE  /\ received'[q][i].moment <= moment
             /\ \A k \in 1 .. Len(ticks) : ticks[k] < received'[q][i].moment
             /\ \A j \in 1 .. i - 1 : received'[q][j].type = "update" =>
                  received'[q][j].moment < received'[q][i].moment
  <2> DEFINE d == IF q = s THEN 1 ELSE 0
  <2>1. /\ d \in Nat /\ Len(received[q]) \in Nat
        /\ Len(received'[q]) = Len(received[q]) - d
        /\ \A j \in 1 .. Len(received'[q]) : received'[q][j] = received[q][j + d]
    <3>1. Len(received[q]) \in Nat
      BY DEF IInv, ExchangeTypes
    <3>2. /\ Len(received'[q]) = IF q = s THEN Len(received[q]) - 1 ELSE Len(received[q])
          /\ \A j \in 1 .. Len(received'[q]) :
               received'[q][j] = IF q = s THEN received[q][j + 1] ELSE received[q][j]
      BY TakesKeeps
    <3>3. CASE q = s
      BY ONLY <3>1, <3>2, <3>3
    <3>4. CASE q # s
      BY ONLY <3>1, <3>2, <3>4
    <3> QED
      BY <3>3, <3>4
  <2> HIDE DEF d
  <2>2. /\ i + d \in 1 .. Len(received[q])
        /\ received'[q][i] = received[q][i + d]
        /\ \A j \in 1 .. i - 1 :
             /\ j + d \in 1 .. (i + d) - 1
             /\ received'[q][j] = received[q][j + d]
    <3>1. i \in 1 .. Len(received'[q])
      OBVIOUS
    <3>2. /\ i + d \in 1 .. Len(received[q])
          /\ \A j \in 1 .. i - 1 :
               j \in 1 .. Len(received'[q]) /\ j + d \in 1 .. (i + d) - 1
      BY ONLY <2>1, <3>1
    <3> QED
      BY <2>1, <3>1, <3>2
  <2>3. /\ received[q][i + d].moment <= moment
        /\ \A k \in 1 .. Len(ticks) : ticks[k] < received[q][i + d].moment
        /\ \A j \in 1 .. (i + d) - 1 : received[q][j].type = "update" =>
             received[q][j].moment < received[q][i + d].moment
    BY <1>1, <2>2 DEF IInv, UpdatesInOrder
  <2> QED
    BY <2>2, <2>3
<1>2. \A i \in 1 .. Len(ticks) : ticks[i] <= moment
  BY DEF IInv, UpdatesInOrder
<1>3. TicksOnce
  BY DEF IInv
<1> QED
  BY <1>1, <1>2, <1>3 DEF UpdatesInOrder, TicksOnce

\* So do receipts, if what they are about stays or a newer request is sent.
LEMMA ReceiptsStay ==
  ASSUME IInv, NEW s \in Sockets, conn[s] = "open", received[s] # <<>>, Takes(s),
         UNCHANGED subscribed,
         \/ /\ UNCHANGED <<sent, requestId>>
            /\ state'.status = "subscribing" =>
                 state.status = "subscribing" /\ state'.payload = state.payload
         \/ requestId' = requestId + 1
  PROVE  ReceiptsInOrder'
<1>1. ASSUME NEW q \in Sockets, NEW i \in 1 .. Len(received'[q]),
             received'[q][i].type = "receipt"
      PROVE  /\ received'[q][i].id <= requestId'
             /\ received'[q][i].id = requestId' =>
                  /\ NothingAsked(q)'
                  /\ state'.status = "subscribing" => subscribed[q] = state'.payload
  <2> DEFINE k == IF q = s THEN i + 1 ELSE i
  <2>1. k \in 1 .. Len(received[q]) /\ received'[q][i] = received[q][k]
    <3>1. Len(received[q]) \in Nat
      BY DEF IInv, ExchangeTypes
    <3>2. /\ Len(received'[q]) = IF q = s THEN Len(received[q]) - 1 ELSE Len(received[q])
          /\ received'[q][i] = IF q = s THEN received[q][i + 1] ELSE received[q][i]
      BY TakesKeeps
    <3>3. i \in 1 .. Len(received'[q])
      OBVIOUS
    <3> QED
      BY ONLY <3>1, <3>2, <3>3
  <2> HIDE DEF k
  <2>2. /\ received[q][k].id <= requestId /\ received[q][k].id \in Nat
        /\ received[q][k].id = requestId =>
             /\ NothingAsked(q)
             /\ state.status = "subscribing" => subscribed[q] = state.payload
    BY <1>1, <2>1, MessageType DEF IInv, ReceiptsInOrder
  <2>3. requestId \in Nat
    BY DEF IInv, StateTypes
  <2>4. CASE requestId' = requestId + 1
    BY <2>1, <2>2, <2>3, <2>4
  <2>5. CASE UNCHANGED <<sent, requestId>>
    BY <2>1, <2>2, <2>3, <2>5 DEF NothingAsked
  <2> QED
    BY <2>4, <2>5
<1> QED
  BY <1>1 DEF ReceiptsInOrder

\* A pong stops the timer that waits for it.
LEMMA HandlePongIInv ==
  ASSUME IInv, NEW s \in Sockets, HandlePong(s) PROVE IInv'
<1>1. /\ conn[s] = "open" /\ received[s] # <<>> /\ Takes(s)
      /\ UNCHANGED <<process, list, conn, listened, socket, shouldReconnect>>
      /\ UNCHANGED <<reconnectTimer, requestId, state, sent, subscribed, moment, ticks>>
      /\ pongTimer' = FALSE
  BY DEF HandlePong, Message
<1>2. UpdatesInOrder' /\ TicksOnce' /\ ReceiptsInOrder'
  BY <1>1, UpdatesStay, ReceiptsStay
<1>3. ClientTypes' /\ StateTypes' /\ ExchangeTypes'
  BY <1>1, TakesKeeps DEF IInv, ClientTypes, StateTypes, ExchangeTypes
<1>4. OneSocket' /\ TimersOfSocket' /\ StopIsFinal'
  BY <1>1 DEF IInv, OneSocket, TimersOfSocket, StopIsFinal
<1>5. OnlyOpenCarries'
  BY <1>1, TakesKeeps DEF IInv, OnlyOpenCarries
<1>6. RequestsInOrder' /\ StateOfSocket'
  BY <1>1 DEF IInv, RequestsInOrder, StateOfSocket, IsOpen, NothingAsked
<1> QED
  BY <1>2, <1>3, <1>4, <1>5, <1>6 DEF IInv

\* The first update on its way is newer than every tick, and older than those behind it.
LEMMA HandleMarketUpdateIInv ==
  ASSUME IInv, NEW s \in Sockets, HandleMarketUpdate(s) PROVE IInv'
<1>1. /\ conn[s] = "open" /\ received[s] # <<>> /\ Takes(s)
      /\ received[s][1].type = "update"
      /\ ticks' = Append(ticks, received[s][1].moment)
      /\ UNCHANGED <<process, list, conn, listened, socket, shouldReconnect>>
      /\ UNCHANGED <<reconnectTimer, pongTimer, requestId, state, sent, subscribed, moment>>
  BY TakesKeeps DEF HandleMarketUpdate, Message, clientVars
<1>2. /\ 1 \in 1 .. Len(received[s])
      /\ received[s][1].moment \in Nat \ {0} /\ received[s][1].moment <= moment
      /\ \A k \in 1 .. Len(ticks) : ticks[k] < received[s][1].moment
  BY <1>1, TakesKeeps, MessageType DEF IInv, UpdatesInOrder
<1>3. ticks \in Seq(Nat \ {0})
  BY DEF IInv, ExchangeTypes
<1>4. /\ ticks' \in Seq(Nat \ {0}) /\ Len(ticks) \in Nat
      /\ Len(ticks') = Len(ticks) + 1
      /\ ticks'[Len(ticks) + 1] = received[s][1].moment
      /\ \A k \in 1 .. Len(ticks) : ticks'[k] = ticks[k]
  BY <1>1, <1>2, <1>3
<1>5. TicksOnce'
  <2>1. ASSUME NEW i \in 1 .. Len(ticks'), NEW j \in 1 .. Len(ticks'), i < j
        PROVE  ticks'[i] < ticks'[j]
    <3>1. CASE j = Len(ticks) + 1
      BY <1>2, <1>4, <2>1, <3>1
    <3>2. CASE j # Len(ticks) + 1
      <4>1. i \in 1 .. Len(ticks) /\ j \in 1 .. Len(ticks)
        <5>1. Len(ticks) \in Nat /\ Len(ticks') = Len(ticks) + 1
          BY <1>4
        <5> QED
          BY ONLY <5>1, <2>1, <3>2, i \in 1 .. Len(ticks'), j \in 1 .. Len(ticks')
      <4> QED
        BY <1>4, <2>1, <4>1 DEF IInv, TicksOnce
    <3> QED
      BY <3>1, <3>2
  <2> QED
    BY <2>1 DEF TicksOnce
<1>6. UpdatesInOrder'
  <2>1. ASSUME NEW q \in Sockets, NEW i \in 1 .. Len(received'[q]),
               received'[q][i].type = "update"
        PROVE  /\ received'[q][i].moment <= moment
               /\ \A k \in 1 .. Len(ticks') : ticks'[k] < received'[q][i].moment
               /\ \A j \in 1 .. i - 1 : received'[q][j].type = "update" =>
                    received'[q][j].moment < received'[q][i].moment
    <3>1. q = s
      <4>1. Len(received'[q]) # 0
        BY <2>1, TakesKeeps, <1>1 DEF IInv, ExchangeTypes
      <4>2. conn[q] = "open"
        <5>1. SUFFICES ASSUME conn[q] # "open" PROVE FALSE
          OBVIOUS
        <5>2. received'[q] = <<>>
          BY <1>1, <5>1, TakesKeeps DEF IInv, OnlyOpenCarries
        <5> QED
          BY <4>1, <5>2
      <4> QED
        BY <1>1, <4>2 DEF IInv, OneSocket
    <3>2. /\ Len(received[s]) \in Nat /\ Len(received'[s]) = Len(received[s]) - 1
          /\ \A j \in 1 .. Len(received'[s]) : received'[s][j] = received[s][j + 1]
      <4>1. received \in [Sockets -> Seq(Messages)]
        BY DEF IInv, ExchangeTypes
      <4>2. Len(received[s]) \in Nat
        BY ONLY <4>1, s \in Sockets
      <4> QED
        BY <1>1, <4>2, TakesKeeps
    <3>3. /\ i + 1 \in 1 .. Len(received[s]) /\ received'[q][i] = received[s][i + 1]
          /\ 1 \in 1 .. (i + 1) - 1
          /\ \A j \in 1 .. i - 1 :
               j + 1 \in 1 .. (i + 1) - 1 /\ received'[q][j] = received[s][j + 1]
      BY <3>1, <3>2
    <3>4. /\ received[s][i + 1].moment <= moment
          /\ \A k \in 1 .. Len(ticks) : ticks[k] < received[s][i + 1].moment
          /\ \A j \in 1 .. (i + 1) - 1 : received[s][j].type = "update" =>
               received[s][j].moment < received[s][i + 1].moment
      BY <2>1, <3>3 DEF IInv, UpdatesInOrder
    <3>5. received[s][1].moment < received[s][i + 1].moment
      BY <1>1, <3>3, <3>4
    <3>6. ASSUME NEW k \in 1 .. Len(ticks') PROVE ticks'[k] < received[s][i + 1].moment
      <4>1. k \in 1 .. Len(ticks) \/ k = Len(ticks) + 1
        BY <1>4
      <4>2. CASE k \in 1 .. Len(ticks)
        BY <4>2, <1>4, <3>4
      <4>3. CASE k = Len(ticks) + 1
        BY <4>3, <1>4, <3>5
      <4> QED
        BY <4>1, <4>2, <4>3
    <3> QED
      BY <3>3, <3>4, <3>6
  <2>2. ASSUME NEW k \in 1 .. Len(ticks') PROVE ticks'[k] <= moment
    <3>1. k \in 1 .. Len(ticks) => ticks[k] <= moment
      BY DEF IInv, UpdatesInOrder
    <3> QED
      BY <1>2, <1>4, <3>1
  <2> QED
    BY <1>1, <2>1, <2>2 DEF UpdatesInOrder
<1>7. ReceiptsInOrder'
  BY <1>1, ReceiptsStay
<1>8. ClientTypes' /\ StateTypes' /\ ExchangeTypes'
  BY <1>1, <1>4, TakesKeeps DEF IInv, ClientTypes, StateTypes, ExchangeTypes
<1>9. OneSocket' /\ TimersOfSocket' /\ StopIsFinal'
  BY <1>1 DEF IInv, OneSocket, TimersOfSocket, StopIsFinal
<1>10. OnlyOpenCarries'
  BY <1>1, TakesKeeps DEF IInv, OnlyOpenCarries
<1>11. RequestsInOrder' /\ StateOfSocket'
  BY <1>1 DEF IInv, RequestsInOrder, StateOfSocket, IsOpen, NothingAsked
<1> QED
  BY <1>5, <1>6, <1>7, <1>8, <1>9, <1>10, <1>11 DEF IInv

\* While a subscription stays or is confirmed, the requests do.
LEMMA RequestsStay ==
  ASSUME IInv, UNCHANGED <<sent, requestId>>,
         state'.status = "subscribing" =>
           state.status = "subscribing" /\ state'.payload = state.payload
  PROVE  RequestsInOrder'
BY DEF IInv, RequestsInOrder

\* A receipt of the newest request says what the exchange is subscribed to; an
\* older one is ignored.
LEMMA HandleReceiptIInv ==
  ASSUME IInv, NEW s \in Sockets, HandleReceipt(s) PROVE IInv'
<1>1. /\ conn[s] = "open" /\ received[s] # <<>> /\ Takes(s)
      /\ process = "running" /\ received[s][1].type = "receipt"
      /\ UNCHANGED <<process, list, conn, listened, socket, shouldReconnect>>
      /\ UNCHANGED <<reconnectTimer, pongTimer, subscribed, moment, ticks>>
  BY TakesKeeps DEF HandleReceipt, Message, clientVars
<1>2. socket = s /\ IsOpen
  <2>1. socket = s
    BY <1>1 DEF IInv, OneSocket
  <2>2. socket # NoSocket
    BY <2>1, Bounds
  <2> QED
    BY <1>1, <2>1, <2>2 DEF IsOpen
<1>3. /\ received[s][1].id = requestId =>
           /\ NothingAsked(s)
           /\ state.status = "subscribing" => subscribed[s] = state.payload
      /\ state.requestId = requestId /\ state.payload = list
      /\ state.status # "waiting socket"
      /\ state.status # "active" => state.timeout = state.requestId
      /\ state.status = "active" => subscribed[s] = list /\ NothingAsked(s)
  BY <1>1, <1>2, TakesKeeps DEF IInv, ReceiptsInOrder, StateOfSocket
<1>4. ClientTypes' /\ OneSocket' /\ TimersOfSocket' /\ StopIsFinal'
  BY <1>1 DEF IInv, ClientTypes, OneSocket, TimersOfSocket, StopIsFinal
<1>5. UpdatesInOrder' /\ TicksOnce'
  BY <1>1, UpdatesStay
<1>6. IsOpen' /\ socket' = s
  BY <1>1, <1>2 DEF IsOpen
<1>7. CASE UNCHANGED <<state, requestId, sent>>
  <2>1. StateTypes' /\ ExchangeTypes'
    BY <1>1, <1>7, TakesKeeps DEF IInv, StateTypes, ExchangeTypes
  <2>2. RequestsInOrder' /\ ReceiptsInOrder'
    BY <1>1, <1>7, RequestsStay, ReceiptsStay
  <2>3. OnlyOpenCarries'
    BY <1>1, <1>7, TakesKeeps DEF IInv, OnlyOpenCarries
  <2>4. StateOfSocket'
    BY <1>1, <1>7 DEF IInv, StateOfSocket, IsOpen, NothingAsked
  <2> QED
    BY <1>4, <1>5, <2>1, <2>2, <2>3, <2>4 DEF IInv
<1>8. CASE /\ received[s][1].id = requestId /\ state.status = "subscribing"
           /\ state' = [state EXCEPT !.status = "active", !.timeout = NoTimer]
           /\ UNCHANGED <<requestId, sent>>
  <2>1. /\ StateTypes' /\ state'.status = "active"
        /\ state'.requestId = state.requestId /\ state'.payload = state.payload
    <3>1. StateTypes
      BY DEF IInv
    <3>2. state \in States /\ requestId \in Nat /\ state.requestId <= requestId
      BY ONLY <3>1 DEF StateTypes
    <3>3. /\ state' \in States /\ state'.status = "active" /\ state'.timeout = 0
          /\ state'.requestId = state.requestId /\ state'.payload = state.payload
      BY ONLY <1>8, <3>2 DEF States, NoTimer
    <3> QED
      BY ONLY <1>8, <3>2, <3>3 DEF StateTypes
  <2>2. ExchangeTypes'
    BY <1>1, <1>8, TakesKeeps DEF IInv, ExchangeTypes
  <2>3. RequestsInOrder' /\ ReceiptsInOrder'
    BY <1>1, <1>8, <2>1, RequestsStay, ReceiptsStay
  <2>4. OnlyOpenCarries'
    BY <1>1, <1>8, TakesKeeps DEF IInv, OnlyOpenCarries
  <2>5. NothingAsked(s)'
    BY <1>3, <1>8 DEF NothingAsked
  <2>6. StateOfSocket'
    BY <1>1, <1>2, <1>3, <1>8, <2>1, <2>5 DEF StateOfSocket, NothingAsked
  <2> QED
    BY <1>4, <1>5, <2>1, <2>2, <2>3, <2>4, <2>6 DEF IInv
<1>9. CASE /\ state' = Requested("subscribing", state.payload)
           /\ requestId' = requestId + 1
           /\ Send(<< Request("subscribe", requestId + 1, state.payload) >>)
  <2>1. state.payload \in 0 .. MaxLists /\ state.payload \in Nat
        /\ state.payload <= MaxLists
    <3>1. state \in States
      BY DEF IInv, StateTypes
    <3>2. state.payload \in 0 .. MaxLists
      BY ONLY <3>1 DEF States
    <3> QED
      BY ONLY <3>2, Bounds
  <2>2. /\ StateTypes' /\ state'.status = "subscribing"
        /\ state'.payload = state.payload
        /\ state'.requestId = requestId' /\ state'.timeout = requestId'
    BY <1>9, <2>1, RequestedType
  <2>3. /\ sent' \in [Sockets -> Seq(Requests)]
        /\ \A q \in Sockets : conn[q] # "open" => sent'[q] = sent[q]
        /\ RequestsInOrder'
    BY <1>2, <1>9, <2>1, <2>2, SendNext
  <2>4. ReceiptsInOrder'
    BY <1>1, <1>9, ReceiptsStay
  <2>5. ExchangeTypes'
    BY <1>1, <2>3, TakesKeeps DEF IInv, ExchangeTypes
  <2>6. OnlyOpenCarries'
    BY <1>1, <2>3, TakesKeeps DEF IInv, OnlyOpenCarries
  <2>7. StateOfSocket'
    BY <1>1, <1>3, <2>2 DEF StateOfSocket
  <2> QED
    BY <1>4, <1>5, <2>2, <2>3, <2>4, <2>5, <2>6, <2>7 DEF IInv
<1>10. CASE /\ state.status = "active"
            /\ state' = [state EXCEPT !.timeout = NoTimer]
            /\ UNCHANGED <<requestId, sent>>
  <2>1. /\ StateTypes' /\ state'.status = "active"
        /\ state'.requestId = state.requestId /\ state'.payload = state.payload
    <3>1. StateTypes
      BY DEF IInv
    <3> QED
      BY ONLY <1>10, <3>1, NoTimerType
  <2>2. ExchangeTypes'
    BY <1>1, <1>10, TakesKeeps DEF IInv, ExchangeTypes
  <2>3. RequestsInOrder' /\ ReceiptsInOrder'
    BY <1>1, <1>10, <2>1, RequestsStay, ReceiptsStay
  <2>4. OnlyOpenCarries'
    BY <1>1, <1>10, TakesKeeps DEF IInv, OnlyOpenCarries
  <2>5. StateOfSocket'
    BY <1>1, <1>2, <1>3, <1>10, <2>1 DEF StateOfSocket, NothingAsked
  <2> QED
    BY <1>4, <1>5, <2>1, <2>2, <2>3, <2>4, <2>5 DEF IInv
<1>11. \/ UNCHANGED <<state, requestId, sent>>
       \/ received[s][1].id = requestId /\ Confirmed(s)
  BY <1>1, <1>3, TakesKeeps DEF HandleReceipt, ReceiptOfState
<1>12. CASE received[s][1].id = requestId /\ Confirmed(s)
  <2>1. CASE state.status = "subscribing"
    BY <1>8, <1>12, <2>1 DEF Confirmed
  <2>2. CASE state.status = "unsubscribing"
    BY <1>9, <1>12, <2>2 DEF Confirmed
  <2>3. CASE state.status = "active"
    BY <1>10, <1>12, <2>3 DEF Confirmed
  <2> QED
    BY <1>3, <2>1, <2>2, <2>3 DEF IInv, StateTypes, States
<1> QED
  BY <1>7, <1>11, <1>12

\* A refusal gives the socket up, or is of an older request.
LEMMA HandleRefusalIInv ==
  ASSUME IInv, NEW s \in Sockets, HandleRefusal(s) PROVE IInv'
<1>1. /\ conn[s] = "open" /\ received[s] # <<>> /\ process = "running"
      /\ UNCHANGED <<list, requestId, subscribed, moment, ticks>>
  BY DEF HandleRefusal, Message
<1>2. StateTypes /\ state.payload = list /\ list \in 1 .. MaxLists
  BY <1>1 DEF IInv, StateOfSocket, ClientTypes
<1>3. CASE state' = [state EXCEPT !.timeout = NoTimer] /\ Reconnect
  <2>1. StateTypes' /\ state'.payload = list'
    BY <1>1, <1>2, <1>3, NoTimerType
  <2> QED
    BY <1>1, <1>2, <1>3, <2>1, ReconnectIInv DEF Alive
<1>4. CASE Takes(s) /\ UNCHANGED <<state, process, clientVars, sent>>
  <2>1. UNCHANGED <<process, list, conn, listened, socket, shouldReconnect,
                    reconnectTimer, pongTimer, requestId, state, sent, subscribed,
                    moment, ticks>>
    BY <1>1, <1>4 DEF clientVars
  <2>2. UpdatesInOrder' /\ TicksOnce' /\ ReceiptsInOrder'
    BY <1>1, <1>4, <2>1, UpdatesStay, ReceiptsStay
  <2>3. ClientTypes' /\ StateTypes' /\ ExchangeTypes'
    BY <1>1, <1>4, <2>1, TakesKeeps DEF IInv, ClientTypes, StateTypes, ExchangeTypes
  <2>4. OneSocket' /\ TimersOfSocket' /\ StopIsFinal'
    BY <2>1 DEF IInv, OneSocket, TimersOfSocket, StopIsFinal
  <2>5. OnlyOpenCarries'
    BY <1>1, <1>4, <2>1, TakesKeeps DEF IInv, OnlyOpenCarries
  <2>6. RequestsInOrder' /\ StateOfSocket'
    BY <2>1 DEF IInv, RequestsInOrder, StateOfSocket, IsOpen, NothingAsked
  <2> QED
    BY <2>2, <2>3, <2>4, <2>5, <2>6 DEF IInv
<1> QED
  BY <1>3, <1>4 DEF HandleRefusal

\* A missing pong gives the socket up.
LEMMA PongTimeoutIInv == IInv /\ PongTimeout => IInv'
<1> SUFFICES ASSUME IInv, PongTimeout PROVE IInv'
  OBVIOUS
<1>1. StateTypes' /\ list' \in 1 .. MaxLists /\ state'.payload = list'
  BY DEF IInv, StateTypes, ClientTypes, StateOfSocket, PongTimeout
<1> QED
  BY <1>1, ReconnectIInv DEF PongTimeout, Alive

\* A missing receipt gives the socket up.
LEMMA SubscriptionTimeoutIInv == IInv /\ SubscriptionTimeout => IInv'
<1> SUFFICES ASSUME IInv, SubscriptionTimeout PROVE IInv'
  OBVIOUS
<1>1. StateTypes' /\ state'.status = state.status /\ state'.payload = state.payload
      /\ state'.requestId = state.requestId
  <2>1. StateTypes
    BY DEF IInv
  <2> QED
    BY <2>1, NoTimerType DEF SubscriptionTimeout
<1>2. list' \in 1 .. MaxLists /\ state'.payload = list' /\ list' = list
  BY <1>1 DEF IInv, ClientTypes, StateOfSocket, SubscriptionTimeout, Alive
<1>3. CASE TimerOfRequest
  BY <1>1, <1>2, <1>3, ReconnectIInv DEF SubscriptionTimeout
<1>4. CASE ~ TimerOfRequest
  <2>1. UNCHANGED <<process, list, conn, listened, socket, shouldReconnect,
                    reconnectTimer, pongTimer, sent, received, requestId,
                    subscribed, moment, ticks>>
    BY <1>4 DEF SubscriptionTimeout, clientVars
  <2>2. ClientTypes' /\ ExchangeTypes' /\ OneSocket' /\ OnlyOpenCarries'
    BY <2>1 DEF IInv, ClientTypes, ExchangeTypes, OneSocket, OnlyOpenCarries
  <2>3. UpdatesInOrder' /\ TicksOnce' /\ StopIsFinal'
    BY <2>1 DEF IInv, UpdatesInOrder, TicksOnce, StopIsFinal
  <2>4. RequestsInOrder' /\ ReceiptsInOrder'
    BY <1>1, <2>1 DEF IInv, RequestsInOrder, ReceiptsInOrder, NothingAsked
  <2>5. process # "loading"
    BY DEF SubscriptionTimeout, Alive
  <2>6. TimersOfSocket'
    BY <2>1, <2>5 DEF IInv, TimersOfSocket
  <2>7. IsOpen => state.status = "active"
    BY <1>4 DEF IInv, StateOfSocket, TimerOfRequest
  <2>8. StateOfSocket'
    BY <1>1, <1>2, <2>1, <2>7 DEF IInv, StateOfSocket, IsOpen, NothingAsked
  <2> QED
    BY <1>1, <2>2, <2>3, <2>4, <2>6, <2>8 DEF IInv
<1> QED
  BY <1>3, <1>4

\* A new list waits for a socket, asks for the subscription to be undone, or starts
\* over: an old list never stays active.
LEMMA MarketsInfoUpdatedIInv == IInv /\ MarketsInfoUpdated => IInv'
<1> SUFFICES ASSUME IInv, MarketsInfoUpdated PROVE IInv'
  OBVIOUS
<1>1. /\ list' = list + 1 /\ list' \in 1 .. MaxLists /\ list + 1 \in 0 .. MaxLists
      /\ process \in {"running", "stopped"}
  BY NextListType DEF MarketsInfoUpdated, Alive
<1>2. CASE /\ ~ IsOpen /\ state' = Waiting(list + 1)
           /\ UNCHANGED <<process, clientVars, requestId, exchangeVars>>
  <2>1. UNCHANGED <<process, conn, listened, socket, shouldReconnect,
                    reconnectTimer, pongTimer, sent, received, requestId,
                    subscribed, moment, ticks>>
    BY <1>2 DEF clientVars, exchangeVars
  <2>2. state' \in States /\ state'.requestId = 0 /\ state'.timeout = 0
        /\ state'.payload = list'
    BY ONLY <1>1, <1>2, WaitingType
  <2>3. requestId \in Nat
    BY DEF IInv, StateTypes
  <2>4. StateTypes'
    BY ONLY <2>1, <2>2, <2>3 DEF StateTypes
  <2>5. ClientTypes' /\ ExchangeTypes' /\ OneSocket' /\ OnlyOpenCarries'
    BY <1>1, <2>1 DEF IInv, ClientTypes, ExchangeTypes, OneSocket, OnlyOpenCarries
  <2>6. UpdatesInOrder' /\ TicksOnce' /\ StopIsFinal'
    BY <2>1 DEF IInv, UpdatesInOrder, TicksOnce, StopIsFinal
  <2>7. \A s \in Sockets : sent'[s] = <<>> /\ received'[s] = <<>>
    BY <1>2, <2>1, NotOpenIsEmpty
  <2>8. RequestsInOrder' /\ ReceiptsInOrder'
    BY <2>7 DEF RequestsInOrder, ReceiptsInOrder
  <2>9. TimersOfSocket'
    BY <1>1, <2>1 DEF IInv, TimersOfSocket
  <2>10. StateOfSocket'
    BY <1>2, <2>1, <2>2 DEF StateOfSocket, IsOpen
  <2> QED
    BY <2>4, <2>5, <2>6, <2>8, <2>9, <2>10 DEF IInv
<1>3. CASE /\ IsOpen /\ state.status = "active"
           /\ Send(<< Request("unsubscribe", requestId + 1, state.requestId) >>)
           /\ state' = Requested("unsubscribing", list + 1)
           /\ requestId' = requestId + 1
           /\ UNCHANGED <<process, clientVars, received, subscribed, moment, ticks>>
  <2>1. UNCHANGED <<process, conn, listened, socket, shouldReconnect,
                    reconnectTimer, pongTimer, received, subscribed, moment, ticks>>
    BY <1>3 DEF clientVars
  <2>2. /\ StateTypes' /\ state'.status = "unsubscribing" /\ state'.payload = list'
        /\ state'.requestId = requestId' /\ state'.timeout = requestId'
    BY <1>1, <1>3, RequestedType
  <2>3. state.requestId \in Nat
    <3>1. state \in States
      BY DEF IInv, StateTypes
    <3> QED
      BY ONLY <3>1 DEF States
  <2>4. /\ sent' \in [Sockets -> Seq(Requests)]
        /\ \A s \in Sockets : conn[s] # "open" => sent'[s] = sent[s]
        /\ RequestsInOrder'
    BY <1>3, <2>2, <2>3, SendNext
  <2>5. ClientTypes' /\ ExchangeTypes'
    BY <1>1, <2>1, <2>4 DEF IInv, ClientTypes, ExchangeTypes
  <2>6. OneSocket' /\ OnlyOpenCarries' /\ TimersOfSocket'
    BY <1>1, <2>1, <2>4 DEF IInv, OneSocket, OnlyOpenCarries, TimersOfSocket
  <2>7. UpdatesInOrder' /\ TicksOnce' /\ StopIsFinal'
    BY <2>1 DEF IInv, UpdatesInOrder, TicksOnce, StopIsFinal
  <2>8. ReceiptsInOrder'
    <3>1. ASSUME NEW s \in Sockets, NEW i \in 1 .. Len(received[s]),
                 received[s][i].type = "receipt"
          PROVE  received[s][i].id <= requestId' /\ received[s][i].id # requestId'
      <4>1. received[s][i].id <= requestId /\ received[s][i].id \in Nat
        BY <3>1, MessageType DEF IInv, ReceiptsInOrder
      <4>2. requestId \in Nat
        BY DEF IInv, StateTypes
      <4> QED
        BY <1>3, <4>1, <4>2
    <3> QED
      BY <2>1, <3>1 DEF ReceiptsInOrder
  <2>9. StateOfSocket'
    BY <2>1, <2>2 DEF StateOfSocket, IsOpen
  <2> QED
    BY <2>2, <2>4, <2>5, <2>6, <2>7, <2>8, <2>9 DEF IInv
<1>4. CASE StartOver
  <2>1. StateTypes /\ state' = [state EXCEPT !.payload = list + 1]
        /\ requestId' = requestId
    BY <1>4 DEF StartOver, IInv
  <2>2. StateTypes' /\ state'.payload = list'
    BY ONLY <1>1, <2>1 DEF StateTypes, States
  <2> QED
    BY <1>1, <1>4, <2>2, ReconnectIInv DEF StartOver, Alive
<1> QED
  BY <1>2, <1>3, <1>4 DEF MarketsInfoUpdated

\* A ping is no request that could change the subscription.
LEMMA SendPingIInv == IInv /\ SendPing => IInv'
<1> SUFFICES ASSUME IInv, SendPing PROVE IInv'
  OBVIOUS
<1>1. UNCHANGED <<process, list, conn, listened, socket, shouldReconnect,
                  reconnectTimer, requestId, state, received, subscribed, moment, ticks>>
  BY DEF SendPing
<1>2. /\ socket \in Sockets /\ conn[socket] = "open" /\ pongTimer' = TRUE
      /\ sent \in [Sockets -> Seq(Requests)]
      /\ sent' = [sent EXCEPT ![socket] = sent[socket] \o <<Ping>>]
  BY DEF SendPing, IsOpen, Send, IInv, ClientTypes, ExchangeTypes
<1>3. Ping \in Requests /\ ~ IsRequest(Ping)
  <2>1. Ping = [method |-> "ping", id |-> 0, payload |-> 0]
    BY DEF Ping, Request, NoList
  <2> QED
    BY ONLY <2>1 DEF Requests, IsRequest
<1>4. /\ sent' \in [Sockets -> Seq(Requests)]
      /\ \A s \in Sockets : conn[s] # "open" => sent'[s] = sent[s]
      /\ \A s \in Sockets : Len(sent[s]) \in Nat
      /\ \A s \in Sockets : \A i \in 1 .. Len(sent[s]) : sent'[s][i] = sent[s][i]
      /\ \A s \in Sockets : \A i \in 1 .. Len(sent'[s]) :
           i \in 1 .. Len(sent[s]) \/ sent'[s][i] = Ping
  <2>1. sent[socket] \o <<Ping>> \in Seq(Requests)
    BY <1>2, <1>3
  <2>2. sent' \in [Sockets -> Seq(Requests)]
    BY <1>2, <2>1
  <2>3. ASSUME NEW s \in Sockets, s # socket PROVE sent'[s] = sent[s]
    BY <1>2, <2>3
  <2>4. sent'[socket] = sent[socket] \o <<Ping>>
    BY <1>2
  <2>5. /\ Len(sent[socket]) \in Nat /\ Len(sent'[socket]) = Len(sent[socket]) + 1
        /\ \A i \in 1 .. Len(sent[socket]) : sent'[socket][i] = sent[socket][i]
        /\ sent'[socket][Len(sent[socket]) + 1] = Ping
    BY <1>2, <1>3, <2>4
  <2>6. \A i \in 1 .. Len(sent'[socket]) :
           i \in 1 .. Len(sent[socket]) \/ sent'[socket][i] = Ping
    BY ONLY <2>5
  <2>7. \A s \in Sockets : Len(sent[s]) \in Nat
    BY <1>2
  <2> QED
    BY <1>2, <2>2, <2>3, <2>5, <2>6, <2>7
<1>5. ClientTypes' /\ StateTypes' /\ ExchangeTypes'
  BY <1>1, <1>2, <1>4 DEF IInv, ClientTypes, StateTypes, ExchangeTypes
<1>6. OneSocket' /\ OnlyOpenCarries' /\ StopIsFinal'
  BY <1>1, <1>4 DEF IInv, OneSocket, OnlyOpenCarries, StopIsFinal
<1>7. TimersOfSocket'
  BY <1>1, <1>2, Bounds DEF IInv, TimersOfSocket
<1>8. UpdatesInOrder' /\ TicksOnce'
  BY <1>1 DEF IInv, UpdatesInOrder, TicksOnce
<1>9. \A s \in Sockets : NothingAsked(s) => NothingAsked(s)'
  BY <1>3, <1>4 DEF NothingAsked
<1>10. ReceiptsInOrder' /\ StateOfSocket'
  BY <1>1, <1>2, <1>9 DEF IInv, ReceiptsInOrder, StateOfSocket, IsOpen
<1>11. RequestsInOrder'
  <2>1. ASSUME NEW s \in Sockets, NEW i \in 1 .. Len(sent'[s]),
               IsRequest(sent'[s][i])
        PROVE  /\ i \in 1 .. Len(sent[s]) /\ sent'[s][i] = sent[s][i]
               /\ \A j \in 1 .. i - 1 : sent'[s][j] = sent[s][j]
    <3>1. i \in 1 .. Len(sent[s]) /\ Len(sent[s]) \in Nat
      BY <1>3, <1>4, <2>1
    <3>2. \A j \in 1 .. i : j \in 1 .. Len(sent[s])
      BY ONLY <3>1
    <3> QED
      BY <1>4, <3>1, <3>2
  <2> QED
    BY <1>1, <2>1 DEF IInv, RequestsInOrder
<1> QED
  BY <1>5, <1>6, <1>7, <1>8, <1>10, <1>11 DEF IInv

-----------------------------------------------------------------------------
(* Sockets that connect and close.                                         *)

\* A socket that opens carries a ping and the request for the newest list.
LEMMA OpenedIInv ==
  ASSUME IInv, NEW s \in Sockets, Opened(s) PROVE IInv'
<1> DEFINE request == Request("subscribe", requestId + 1, state.payload)
<1>1. /\ process = "running" /\ conn[s] = "connecting" /\ s \in listened
      /\ conn' = [conn EXCEPT ![s] = "open"] /\ pongTimer' = TRUE
      /\ state' = Requested("subscribing", state.payload)
      /\ requestId' = requestId + 1
      /\ sent' = [sent EXCEPT ![s] = << Ping, request >>]
      /\ UNCHANGED <<process, list, listened, socket, shouldReconnect,
                     reconnectTimer, received, subscribed, moment, ticks>>
  BY DEF Opened
<1>2. socket = s /\ socket # NoSocket
  BY <1>1, Bounds DEF IInv, OneSocket
<1>3. state.payload \in 0 .. MaxLists /\ state.payload \in Nat
      /\ state.payload <= MaxLists /\ state.payload = list
  <2>1. state \in States /\ state.payload = list
    BY <1>1 DEF IInv, StateTypes, StateOfSocket
  <2>2. state.payload \in 0 .. MaxLists
    BY ONLY <2>1 DEF States
  <2> QED
    BY ONLY <2>1, <2>2, Bounds
<1>4. /\ StateTypes' /\ state'.status = "subscribing" /\ state'.payload = state.payload
      /\ state'.requestId = requestId' /\ state'.timeout = requestId'
  BY <1>1, <1>3, RequestedType
<1>5. requestId \in Nat /\ conn \in [Sockets -> {"none", "connecting", "open", "closing", "gone"}]
      /\ sent \in [Sockets -> Seq(Requests)]
  BY DEF IInv, StateTypes, ClientTypes, ExchangeTypes
<1>6. /\ Ping \in Requests /\ ~ IsRequest(Ping)
      /\ request \in Requests /\ request.method = "subscribe"
      /\ request.id = requestId + 1 /\ request.payload = state.payload
  <2>1. /\ Ping = [method |-> "ping", id |-> 0, payload |-> 0]
        /\ request = [method |-> "subscribe", id |-> requestId + 1,
                      payload |-> state.payload]
    BY DEF Ping, Request, NoList
  <2> HIDE DEF request
  <2> QED
    BY ONLY <2>1, <1>3, <1>5 DEF Requests, IsRequest
<1> HIDE DEF request
<1>7. /\ conn'[s] = "open" /\ \A q \in Sockets : q # s => conn'[q] = conn[q]
      /\ conn' \in [Sockets -> {"none", "connecting", "open", "closing", "gone"}]
  BY <1>1, <1>5
<1>8. \A q \in Sockets : received'[q] = <<>> /\ (q # s => sent'[q] = <<>>)
  <2>1. ~ IsOpen
    BY <1>1, <1>2 DEF IsOpen
  <2> QED
    BY <1>1, <1>5, <2>1, NotOpenIsEmpty
<1>9. sent'[s] = << Ping, request >> /\ sent' \in [Sockets -> Seq(Requests)]
  <2>1. << Ping, request >> \in Seq(Requests)
    BY <1>6
  <2> QED
    BY <1>1, <1>5, <2>1
<1>10. ClientTypes' /\ ExchangeTypes'
  BY <1>1, <1>7, <1>9 DEF IInv, ClientTypes, ExchangeTypes
<1>11. OneSocket' /\ OnlyOpenCarries'
  BY <1>1, <1>2, <1>7, <1>8 DEF IInv, OneSocket, OnlyOpenCarries
<1>12. TimersOfSocket' /\ StopIsFinal'
  BY <1>1, <1>2, <1>7 DEF IInv, TimersOfSocket, StopIsFinal
<1>13. UpdatesInOrder' /\ ReceiptsInOrder'
  <2>1. \A i \in 1 .. Len(ticks) : ticks[i] <= moment
    BY DEF IInv, UpdatesInOrder
  <2> QED
    BY <1>1, <1>8, <2>1 DEF UpdatesInOrder, ReceiptsInOrder
<1>14. RequestsInOrder'
  <2>1. ASSUME NEW q \in Sockets, NEW i \in 1 .. Len(sent'[q]), IsRequest(sent'[q][i])
        PROVE  /\ sent'[q][i].id <= requestId'
               /\ sent'[q][i].method = "subscribe" => sent'[q][i].payload <= MaxLists
               /\ \A j \in 1 .. i - 1 :
                    IsRequest(sent'[q][j]) => sent'[q][j].id < sent'[q][i].id
               /\ sent'[q][i].method = "subscribe"
               /\ sent'[q][i].payload = state'.payload
    <3>1. q = s
      BY <1>8, <2>1
    <3>2. i = 2 /\ sent'[q][i] = request
      BY <1>6, <1>9, <2>1, <3>1
    <3>3. \A j \in 1 .. i - 1 : ~ IsRequest(sent'[q][j])
      BY <1>6, <1>9, <3>1, <3>2
    <3> QED
      BY <1>1, <1>3, <1>4, <1>5, <1>6, <3>2, <3>3
  <2> QED
    BY <2>1 DEF RequestsInOrder
<1>15. StateOfSocket' /\ TicksOnce'
  BY <1>1, <1>3, <1>4 DEF IInv, StateOfSocket, TicksOnce
<1> QED
  BY <1>4, <1>10, <1>11, <1>12, <1>13, <1>14, <1>15 DEF IInv

\* What was on its way over a connection that ends is lost.
LEMMA ConnectionEndsIInv ==
  ASSUME IInv, NEW s \in Sockets, ConnectionEnds(s) PROVE IInv'
<1>1. /\ conn[s] = "connecting" \/ conn[s] = "open"
      /\ conn' = [conn EXCEPT ![s] = "closing"]
      /\ sent' = [sent EXCEPT ![s] = <<>>]
      /\ received' = [received EXCEPT ![s] = <<>>]
      /\ UNCHANGED <<process, list, listened, socket, shouldReconnect, reconnectTimer,
                     pongTimer, requestId, state, subscribed, moment, ticks>>
  BY DEF ConnectionEnds
<1>2. socket = s /\ socket # NoSocket
  BY <1>1, Bounds DEF IInv, OneSocket
<1>3. /\ conn \in [Sockets -> {"none", "connecting", "open", "closing", "gone"}]
      /\ sent \in [Sockets -> Seq(Requests)] /\ received \in [Sockets -> Seq(Messages)]
  BY DEF IInv, ClientTypes, ExchangeTypes
<1>4. /\ conn'[s] = "closing" /\ \A q \in Sockets : q # s => conn'[q] = conn[q]
      /\ conn' \in [Sockets -> {"none", "connecting", "open", "closing", "gone"}]
  BY <1>1, <1>3
<1>5. sent' \in [Sockets -> Seq(Requests)] /\ received' \in [Sockets -> Seq(Messages)]
  <2>1. <<>> \in Seq(Requests) /\ <<>> \in Seq(Messages)
    OBVIOUS
  <2> QED
    BY <1>1, <1>3, <2>1
<1>6. ASSUME NEW q \in Sockets PROVE sent'[q] = <<>> /\ received'[q] = <<>>
  <2>1. CASE q = s
    BY <1>1, <1>3, <2>1
  <2>2. CASE q # s
    <3>1. conn[q] # "open"
      BY <1>2, <2>2 DEF IInv, OneSocket
    <3> QED
      BY <1>1, <1>3, <2>2, <3>1 DEF IInv, OnlyOpenCarries
  <2> QED
    BY <2>1, <2>2
<1>7. ClientTypes' /\ StateTypes' /\ ExchangeTypes'
  BY <1>1, <1>4, <1>5 DEF IInv, ClientTypes, StateTypes, ExchangeTypes
<1>8. OneSocket' /\ OnlyOpenCarries'
  BY <1>1, <1>2, <1>4, <1>6 DEF IInv, OneSocket, OnlyOpenCarries
<1>9. TimersOfSocket' /\ StopIsFinal'
  BY <1>1, <1>2, <1>4 DEF IInv, TimersOfSocket, StopIsFinal
<1>10. UpdatesInOrder' /\ RequestsInOrder' /\ ReceiptsInOrder' /\ TicksOnce'
  BY <1>1, <1>6 DEF IInv, UpdatesInOrder, RequestsInOrder, ReceiptsInOrder, TicksOnce
<1>11. StateOfSocket'
  BY <1>1, <1>2, <1>4 DEF IInv, StateOfSocket, IsOpen
<1> QED
  BY <1>7, <1>8, <1>9, <1>10, <1>11 DEF IInv

\* A socket that closes is followed by a reconnect, if it was the one in use.
LEMMA ClosedIInv ==
  ASSUME IInv, NEW s \in Sockets, Closed(s) PROVE IInv'
<1>1. /\ process \in {"running", "stopped"} /\ conn[s] = "closing"
      /\ conn' = [conn EXCEPT ![s] = "gone"] /\ listened' = listened \ {s}
      /\ UNCHANGED <<process, list, shouldReconnect, requestId, state, sent, received,
                     subscribed, moment, ticks>>
      /\ s \in listened =>
           /\ pongTimer' = FALSE
           /\ socket' = IF socket = s THEN NoSocket ELSE socket
           /\ reconnectTimer' = (shouldReconnect \/ reconnectTimer)
      /\ s \notin listened => UNCHANGED <<pongTimer, socket, reconnectTimer>>
  BY DEF Closed, Alive, exchangeVars
<1>2. conn \in [Sockets -> {"none", "connecting", "open", "closing", "gone"}]
  BY DEF IInv, ClientTypes
<1>3. /\ conn'[s] = "gone" /\ \A q \in Sockets : q # s => conn'[q] = conn[q]
      /\ conn' \in [Sockets -> {"none", "connecting", "open", "closing", "gone"}]
  BY <1>1, <1>2
<1>4. \A q \in Sockets : conn'[q] = "open" <=> conn[q] = "open"
  BY <1>1, <1>3
<1>5. IsOpen' => IsOpen /\ socket' = socket
  BY <1>1, <1>4, Bounds DEF IsOpen, IInv, ClientTypes
<1>6. ClientTypes' /\ StateTypes' /\ ExchangeTypes'
  BY <1>1, <1>3 DEF IInv, ClientTypes, StateTypes, ExchangeTypes
<1>7. OneSocket'
  <2>1. CASE socket = s
    BY <1>1, <1>3, <2>1, Bounds DEF IInv, OneSocket
  <2>2. CASE socket # s
    <3>1. s \notin listened /\ socket' = socket /\ listened' = listened
      BY <1>1, <2>2 DEF IInv, OneSocket
    <3>2. socket \in Sockets \union {NoSocket}
      BY DEF IInv, ClientTypes
    <3> QED
      BY <1>3, <2>2, <3>1, <3>2 DEF IInv, OneSocket
  <2> QED
    BY <2>1, <2>2
<1>8. OnlyOpenCarries'
  BY <1>1, <1>4 DEF IInv, OnlyOpenCarries
<1>9. TimersOfSocket' /\ StopIsFinal'
  <2>1. CASE s \in listened
    <3>1. socket = s /\ socket' = NoSocket /\ pongTimer' = FALSE
          /\ reconnectTimer' = (shouldReconnect \/ reconnectTimer)
      BY <1>1, <2>1 DEF IInv, OneSocket
    <3>2. process = "running"
      BY <1>1, <2>1 DEF IInv, StopIsFinal
    <3> QED
      BY <1>1, <3>1, <3>2 DEF IInv, TimersOfSocket, StopIsFinal
  <2>2. CASE s \notin listened
    <3>1. socket # s /\ UNCHANGED <<socket, listened, reconnectTimer, pongTimer>>
      BY <1>1, <2>2, Bounds DEF IInv, OneSocket
    <3>2. socket # NoSocket => conn'[socket] = conn[socket]
      BY <1>3, <3>1 DEF IInv, ClientTypes
    <3> QED
      BY <1>1, <3>1, <3>2 DEF IInv, TimersOfSocket, StopIsFinal
  <2> QED
    BY <2>1, <2>2
<1>10. UpdatesInOrder' /\ RequestsInOrder' /\ ReceiptsInOrder' /\ TicksOnce'
  <2>1. UpdatesInOrder' /\ TicksOnce'
    BY <1>1 DEF IInv, UpdatesInOrder, TicksOnce
  <2>2. RequestsInOrder'
    BY <1>1 DEF IInv, RequestsInOrder
  <2>3. ReceiptsInOrder'
    BY <1>1 DEF IInv, ReceiptsInOrder, NothingAsked
  <2> QED
    BY <2>1, <2>2, <2>3
<1>11. StateOfSocket'
  BY <1>1, <1>5 DEF IInv, StateOfSocket, NothingAsked
<1> QED
  BY <1>6, <1>7, <1>8, <1>9, <1>10, <1>11 DEF IInv

-----------------------------------------------------------------------------
(* The exchange.                                                           *)

\* What taking the first request of the socket in use leaves as it was, and
\* what it leaves on its way.
LEMMA ExchangeTakesKeeps ==
  ASSUME IInv, NEW s \in Sockets, ExchangeTakes(s)
  PROVE  /\ conn[s] = "open" /\ socket = s /\ IsOpen /\ IsOpen'
         /\ UNCHANGED <<process, list, clientVars, requestId, state, moment, ticks>>
         /\ 1 \in 1 .. Len(sent[s]) /\ Head(sent[s]) = sent[s][1]
         /\ sent' \in [Sockets -> Seq(Requests)]
         /\ \A q \in Sockets : conn[q] # "open" => sent'[q] = sent[q]
         /\ \A q \in Sockets :
              Len(sent[q]) \in Nat
              /\ Len(sent'[q]) = IF q = s THEN Len(sent[q]) - 1 ELSE Len(sent[q])
         /\ \A q \in Sockets : \A i \in 1 .. Len(sent'[q]) :
              sent'[q][i] = IF q = s THEN sent[q][i + 1] ELSE sent[q][i]
<1>1. /\ conn[s] = "open" /\ sent[s] # <<>>
      /\ sent' = [sent EXCEPT ![s] = Tail(sent[s])]
      /\ UNCHANGED <<process, list, clientVars, requestId, state, moment, ticks>>
  BY DEF ExchangeTakes
<1>2. socket = s /\ socket # NoSocket
  BY <1>1, Bounds DEF IInv, OneSocket
<1>3. IsOpen /\ IsOpen'
  BY <1>1, <1>2 DEF IsOpen, clientVars
<1>4. sent \in [Sockets -> Seq(Requests)]
  BY DEF IInv, ExchangeTypes
<1>5. sent[s] \in Seq(Requests)
  BY <1>4
<1>6. /\ Tail(sent[s]) \in Seq(Requests)
      /\ Len(Tail(sent[s])) = Len(sent[s]) - 1
      /\ \A i \in 1 .. Len(sent[s]) - 1 : Tail(sent[s])[i] = sent[s][i + 1]
      /\ Head(sent[s]) = sent[s][1]
      /\ Len(sent[s]) \in Nat /\ 1 <= Len(sent[s])
  BY <1>1, <1>5
<1>7. /\ sent'[s] = Tail(sent[s])
      /\ \A q \in Sockets : q # s => sent'[q] = sent[q]
      /\ sent' \in [Sockets -> Seq(Requests)]
  BY <1>1, <1>4, <1>6
<1>8. ASSUME NEW q \in Sockets
      PROVE  /\ Len(sent[q]) \in Nat
             /\ Len(sent'[q]) = IF q = s THEN Len(sent[q]) - 1 ELSE Len(sent[q])
             /\ \A i \in 1 .. Len(sent'[q]) :
                  sent'[q][i] = IF q = s THEN sent[q][i + 1] ELSE sent[q][i]
  <2>1. CASE q = s
    BY ONLY <2>1, <1>6, <1>7
  <2>2. CASE q # s
    BY <2>2, <1>4, <1>7
  <2> QED
    BY <2>1, <2>2
<1> QED
  BY <1>1, <1>2, <1>3, <1>6, <1>7, <1>8

\* The requests left stay in order, and no request comes to be asked.
LEMMA ExchangeTakesRequests ==
  ASSUME IInv, NEW s \in Sockets, ExchangeTakes(s)
  PROVE  /\ RequestsInOrder'
         /\ \A q \in Sockets : NothingAsked(q) => NothingAsked(q)'
<1>1. ASSUME NEW q \in Sockets, NEW i \in 1 .. Len(sent'[q])
      PROVE  LET k == IF q = s THEN i + 1 ELSE i
             IN  /\ k \in 1 .. Len(sent[q]) /\ sent'[q][i] = sent[q][k]
                 /\ \A j \in 1 .. i - 1 :
                      \E n \in 1 .. k - 1 : sent'[q][j] = sent[q][n]
  <2> DEFINE d == IF q = s THEN 1 ELSE 0
  <2>1. /\ d \in Nat /\ Len(sent[q]) \in Nat
        /\ Len(sent'[q]) = Len(sent[q]) - d
        /\ \A j \in 1 .. Len(sent'[q]) : sent'[q][j] = sent[q][j + d]
        /\ i + d = IF q = s THEN i + 1 ELSE i
    <3>1. /\ Len(sent[q]) \in Nat
          /\ Len(sent'[q]) = IF q = s THEN Len(sent[q]) - 1 ELSE Len(sent[q])
          /\ \A j \in 1 .. Len(sent'[q]) :
               sent'[q][j] = IF q = s THEN sent[q][j + 1] ELSE sent[q][j]
      BY ExchangeTakesKeeps
    <3>2. i \in 1 .. Len(sent'[q])
      OBVIOUS
    <3>3. CASE q = s
      BY ONLY <3>1, <3>2, <3>3
    <3>4. CASE q # s
      BY ONLY <3>1, <3>2, <3>4
    <3> QED
      BY <3>3, <3>4
  <2> HIDE DEF d
  <2>2. /\ i + d \in 1 .. Len(sent[q]) /\ sent'[q][i] = sent[q][i + d]
        /\ \A j \in 1 .. i - 1 :
             j + d \in 1 .. (i + d) - 1 /\ sent'[q][j] = sent[q][j + d]
    <3>1. i \in 1 .. Len(sent'[q])
      OBVIOUS
    <3>2. /\ i + d \in 1 .. Len(sent[q])
          /\ \A j \in 1 .. i - 1 :
               j \in 1 .. Len(sent'[q]) /\ j + d \in 1 .. (i + d) - 1
      BY ONLY <2>1, <3>1
    <3> QED
      BY <2>1, <3>1, <3>2
  <2> QED
    BY <2>1, <2>2
<1>2. requestId' = requestId /\ state' = state
  BY ExchangeTakesKeeps
<1>3. ASSUME NEW q \in Sockets, NEW i \in 1 .. Len(sent'[q]), IsRequest(sent'[q][i])
      PROVE  /\ sent'[q][i].id <= requestId
             /\ sent'[q][i].method = "subscribe" => sent'[q][i].payload <= MaxLists
             /\ \A j \in 1 .. i - 1 : IsRequest(sent'[q][j]) =>
                  sent'[q][j].id < sent'[q][i].id
             /\ sent'[q][i].id = requestId /\ state.status = "subscribing" =>
                  sent'[q][i].method = "subscribe" /\ sent'[q][i].payload = state.payload
  <2>1. PICK k \in 1 .. Len(sent[q]) :
          /\ sent'[q][i] = sent[q][k]
          /\ \A j \in 1 .. i - 1 : \E n \in 1 .. k - 1 : sent'[q][j] = sent[q][n]
    BY <1>1
  <2>2. /\ sent[q][k].id <= requestId
        /\ sent[q][k].method = "subscribe" => sent[q][k].payload <= MaxLists
        /\ \A n \in 1 .. k - 1 : IsRequest(sent[q][n]) => sent[q][n].id < sent[q][k].id
        /\ sent[q][k].id = requestId /\ state.status = "subscribing" =>
             sent[q][k].method = "subscribe" /\ sent[q][k].payload = state.payload
    BY <1>3, <2>1 DEF IInv, RequestsInOrder
  <2> QED
    BY <2>1, <2>2
<1>4. RequestsInOrder'
  BY <1>2, <1>3 DEF RequestsInOrder, IsRequest
<1>5. ASSUME NEW q \in Sockets, NothingAsked(q) PROVE NothingAsked(q)'
  BY <1>1, <1>5 DEF NothingAsked, IsRequest
<1> QED
  BY <1>4, <1>5

\* What an answer adds to what is on its way.
LEMMA AnswersKeeps ==
  ASSUME IInv, NEW s \in Sockets, conn[s] = "open", NEW message \in Messages,
         Answers(s, message)
  PROVE  /\ received' \in [Sockets -> Seq(Messages)]
         /\ \A q \in Sockets : conn[q] # "open" => received'[q] = received[q]
         /\ \A q \in Sockets :
              /\ Len(received[q]) \in Nat
              /\ Len(received'[q]) = IF q = s THEN Len(received[q]) + 1 ELSE Len(received[q])
         /\ \A q \in Sockets : \A i \in 1 .. Len(received[q]) : received'[q][i] = received[q][i]
         /\ received'[s][Len(received[s]) + 1] = message
<1>1. received \in [Sockets -> Seq(Messages)]
  BY DEF IInv, ExchangeTypes
<1>2. received[s] \in Seq(Messages) /\ received' = [received EXCEPT ![s] = Append(received[s], message)]
  BY <1>1 DEF Answers
<1>3. /\ Append(received[s], message) \in Seq(Messages)
      /\ Len(Append(received[s], message)) = Len(received[s]) + 1
      /\ \A i \in 1 .. Len(received[s]) : Append(received[s], message)[i] = received[s][i]
      /\ Append(received[s], message)[Len(received[s]) + 1] = message
  BY <1>2
<1>4. /\ received'[s] = Append(received[s], message)
      /\ \A q \in Sockets : q # s => received'[q] = received[q]
      /\ received' \in [Sockets -> Seq(Messages)]
  BY <1>1, <1>2, <1>3
<1>5. \A q \in Sockets : Len(received[q]) \in Nat
  BY <1>1
<1> QED
  BY <1>3, <1>4, <1>5

\* An answer that is no update leaves the updates in order.
LEMMA AnswersUpdates ==
  ASSUME IInv, NEW s \in Sockets, conn[s] = "open", NEW message \in Messages,
         Answers(s, message), message.type # "update", UNCHANGED <<moment, ticks>>
  PROVE  UpdatesInOrder'
<1>1. ASSUME NEW q \in Sockets, NEW i \in 1 .. Len(received'[q]),
             received'[q][i].type = "update"
      PROVE  /\ received'[q][i].moment <= moment
             /\ \A k \in 1 .. Len(ticks) : ticks[k] < received'[q][i].moment
             /\ \A j \in 1 .. i - 1 : received'[q][j].type = "update" =>
                  received'[q][j].moment < received'[q][i].moment
  <2>1. i \in 1 .. Len(received[q])
    <3>1. /\ Len(received[q]) \in Nat
          /\ Len(received'[q]) = IF q = s THEN Len(received[q]) + 1 ELSE Len(received[q])
          /\ q = s => received'[q][Len(received[q]) + 1] = message
      BY AnswersKeeps
    <3>2. ~ (q = s /\ i = Len(received[q]) + 1)
      BY <1>1, <3>1
    <3>3. i \in 1 .. Len(received'[q])
      OBVIOUS
    <3> QED
      BY ONLY <3>1, <3>2, <3>3
  <2>2. /\ received'[q][i] = received[q][i]
        /\ \A j \in 1 .. i - 1 : j \in 1 .. Len(received[q]) /\ received'[q][j] = received[q][j]
    <3>1. Len(received[q]) \in Nat
      BY AnswersKeeps
    <3>2. \A j \in 1 .. i - 1 : j \in 1 .. Len(received[q])
      BY ONLY <3>1, <2>1
    <3> QED
      BY <2>1, <3>2, AnswersKeeps
  <2> QED
    BY <1>1, <2>1, <2>2 DEF IInv, UpdatesInOrder
<1> QED
  BY <1>1 DEF IInv, UpdatesInOrder

\* The receipts that were on their way are still the last thing the exchange
\* did with requests: the receipt of the newest one leaves none to be taken.
LEMMA OldReceipts ==
  ASSUME IInv, NEW s \in Sockets, ExchangeTakes(s),
         NEW q \in Sockets, NEW i \in 1 .. Len(received[q]),
         received[q][i].type = "receipt"
  PROVE  /\ received[q][i].id <= requestId
         /\ received[q][i].id = requestId =>
              /\ NothingAsked(q)'
              /\ state.status = "subscribing" => subscribed[q] = state.payload
              /\ q = s => ~ IsRequest(sent[s][1])
<1>1. /\ received[q][i].id <= requestId
      /\ received[q][i].id = requestId =>
           /\ NothingAsked(q)
           /\ state.status = "subscribing" => subscribed[q] = state.payload
  BY DEF IInv, ReceiptsInOrder
<1>2. NothingAsked(q) => NothingAsked(q)'
  BY ExchangeTakesRequests
<1>3. NothingAsked(q) /\ q = s => ~ IsRequest(sent[s][1])
  BY ExchangeTakesKeeps DEF NothingAsked
<1> QED
  BY <1>1, <1>2, <1>3

\* What no action of the exchange on a request touches.
LEMMA ExchangeTakesRest ==
  ASSUME IInv, NEW s \in Sockets, ExchangeTakes(s), UNCHANGED ticks
  PROVE  ClientTypes' /\ StateTypes' /\ OneSocket' /\ TimersOfSocket' /\ StopIsFinal'
           /\ TicksOnce' /\ RequestsInOrder'
<1>1. UNCHANGED <<process, list, conn, listened, socket, shouldReconnect,
                  reconnectTimer, pongTimer, requestId, state, moment, ticks>>
  BY ExchangeTakesKeeps DEF clientVars
<1>2. ClientTypes' /\ StateTypes'
  BY <1>1 DEF IInv, ClientTypes, StateTypes
<1>3. OneSocket' /\ TimersOfSocket' /\ StopIsFinal' /\ TicksOnce'
  BY <1>1 DEF IInv, OneSocket, TimersOfSocket, StopIsFinal, TicksOnce
<1> QED
  BY <1>2, <1>3, ExchangeTakesRequests

\* A new message that is an answer: the receipts before it are in order.
LEMMA AnswersReceipts ==
  ASSUME IInv, NEW s \in Sockets, ExchangeTakes(s), NEW message \in Messages,
         Answers(s, message),
         \/ subscribed' = subscribed
         \/ IsRequest(sent[s][1]) /\ \A q \in Sockets : q # s => subscribed'[q] = subscribed[q],
         message.type = "receipt" =>
           /\ message.id <= requestId
           /\ message.id = requestId =>
                /\ NothingAsked(s)'
                /\ state.status = "subscribing" => subscribed'[s] = state.payload
  PROVE  ReceiptsInOrder'
<1>1. conn[s] = "open" /\ requestId' = requestId /\ state' = state
  BY ExchangeTakesKeeps
<1>2. ASSUME NEW q \in Sockets, NEW i \in 1 .. Len(received'[q]),
             received'[q][i].type = "receipt"
      PROVE  /\ received'[q][i].id <= requestId
             /\ received'[q][i].id = requestId =>
                  /\ NothingAsked(q)'
                  /\ state.status = "subscribing" => subscribed'[q] = state.payload
  <2>1. /\ Len(received[q]) \in Nat
        /\ Len(received'[q]) = IF q = s THEN Len(received[q]) + 1 ELSE Len(received[q])
        /\ \A k \in 1 .. Len(received[q]) : received'[q][k] = received[q][k]
        /\ received'[s][Len(received[s]) + 1] = message
    BY <1>1, AnswersKeeps
  <2>2. i \in 1 .. Len(received'[q])
    OBVIOUS
  <2>3. i \in 1 .. Len(received[q]) \/ (q = s /\ i = Len(received[q]) + 1)
    BY ONLY <2>1, <2>2
  <2>4. CASE i \in 1 .. Len(received[q])
    <3>1. received'[q][i] = received[q][i]
      BY <2>1, <2>4
    <3>2. /\ received[q][i].id <= requestId
          /\ received[q][i].id = requestId =>
               /\ NothingAsked(q)'
               /\ state.status = "subscribing" => subscribed[q] = state.payload
               /\ q = s => ~ IsRequest(sent[s][1])
      BY <1>2, <2>4, <3>1, OldReceipts
    <3> QED
      BY <3>1, <3>2
  <2>5. CASE q = s /\ i = Len(received[q]) + 1
    BY <1>2, <2>1, <2>5
  <2> QED
    BY <2>3, <2>4, <2>5
<1> QED
  BY <1>1, <1>2 DEF ReceiptsInOrder

\* What is known of the first request on its way.
LEMMA FirstRequest ==
  ASSUME IInv, NEW s \in Sockets, ExchangeTakes(s)
  PROVE  /\ sent[s][1] \in Requests /\ sent[s][1].id \in Nat
         /\ IsRequest(sent[s][1]) =>
              /\ sent[s][1].id <= requestId
              /\ sent[s][1].method = "subscribe" => sent[s][1].payload \in 0 .. MaxLists
              /\ sent[s][1].id = requestId =>
                   /\ NothingAsked(s)'
                   /\ state.status = "subscribing" =>
                        sent[s][1].method = "subscribe" /\ sent[s][1].payload = state.payload
<1>1. 1 \in 1 .. Len(sent[s])
  BY ExchangeTakesKeeps
<1>2. sent[s][1] \in Requests /\ sent[s][1].id \in Nat /\ sent[s][1].payload \in Nat
  BY <1>1, RequestType DEF IInv
<1>3. IsRequest(sent[s][1]) =>
        /\ sent[s][1].id <= requestId
        /\ sent[s][1].method = "subscribe" => sent[s][1].payload <= MaxLists
        /\ sent[s][1].id = requestId /\ state.status = "subscribing" =>
             sent[s][1].method = "subscribe" /\ sent[s][1].payload = state.payload
  BY <1>1 DEF IInv, RequestsInOrder
<1>4. ASSUME IsRequest(sent[s][1]), sent[s][1].id = requestId
      PROVE  NothingAsked(s)'
  <2>1. ASSUME NEW i \in 1 .. Len(sent'[s]) PROVE ~ IsRequest(sent'[s][i])
    <3>1. /\ Len(sent[s]) \in Nat /\ Len(sent'[s]) = Len(sent[s]) - 1
          /\ sent'[s][i] = sent[s][i + 1]
      BY ExchangeTakesKeeps
    <3>2. i \in 1 .. Len(sent'[s])
      OBVIOUS
    <3>3. i + 1 \in 1 .. Len(sent[s]) /\ 1 \in 1 .. (i + 1) - 1
      BY ONLY <3>1, <3>2
    <3>4. IsRequest(sent[s][i + 1]) =>
            sent[s][i + 1].id <= requestId /\ sent[s][1].id < sent[s][i + 1].id
      BY <1>4, <3>3 DEF IInv, RequestsInOrder
    <3>5. sent[s][i + 1].id \in Nat /\ requestId \in Nat
      BY <3>3, RequestType DEF IInv, StateTypes
    <3>6. ~ IsRequest(sent[s][i + 1])
      BY ONLY <1>4, <3>4, <3>5
    <3> QED
      BY <3>1, <3>6
  <2> QED
    BY <2>1 DEF NothingAsked, IsRequest
<1>5. sent[s][1].payload <= MaxLists => sent[s][1].payload \in 0 .. MaxLists
  BY <1>2, Bounds
<1> QED
  BY <1>2, <1>3, <1>4, <1>5

\* The state after the exchange has taken a request, for any answer.
LEMMA ExchangeTakesIInv ==
  ASSUME IInv, NEW s \in Sockets, ExchangeTakes(s), UpdatesInOrder', ReceiptsInOrder',
         received' \in [Sockets -> Seq(Messages)],
         \A q \in Sockets : conn[q] # "open" => received'[q] = received[q],
         subscribed' \in [Sockets -> 0 .. MaxLists],
         ~ IsRequest(sent[s][1]) => subscribed' = subscribed
  PROVE  IInv'
<1>1. /\ socket = s /\ IsOpen /\ IsOpen' /\ 1 \in 1 .. Len(sent[s])
      /\ UNCHANGED <<process, list, conn, listened, socket, shouldReconnect,
                     reconnectTimer, pongTimer, requestId, state, moment, ticks>>
      /\ sent' \in [Sockets -> Seq(Requests)]
      /\ \A q \in Sockets : conn[q] # "open" => sent'[q] = sent[q]
  BY ExchangeTakesKeeps DEF clientVars
<1>2. ClientTypes' /\ StateTypes' /\ OneSocket' /\ TimersOfSocket' /\ StopIsFinal'
        /\ TicksOnce' /\ RequestsInOrder'
  BY <1>1, ExchangeTakesRest
<1>3. ExchangeTypes'
  BY <1>1 DEF IInv, ExchangeTypes
<1>4. OnlyOpenCarries'
  BY <1>1 DEF IInv, OnlyOpenCarries
<1>5. StateOfSocket'
  <2>1. ASSUME state.status = "active"
        PROVE  subscribed'[s] = list /\ NothingAsked(s)'
    <3>1. subscribed[s] = list /\ NothingAsked(s)
      BY <1>1, <2>1 DEF IInv, StateOfSocket
    <3>2. ~ IsRequest(sent[s][1])
      BY <1>1, <3>1 DEF NothingAsked
    <3> QED
      BY <3>1, <3>2, ExchangeTakesRequests
  <2>2. NothingAsked(socket)' <=> NothingAsked(s)'
    BY <1>1 DEF NothingAsked
  <2> QED
    BY <1>1, <2>1, <2>2 DEF IInv, StateOfSocket
<1> QED
  BY <1>2, <1>3, <1>4, <1>5 DEF IInv

\* A receipt leaves with what the exchange is subscribed to from then on.
LEMMA ExchangeAnswersIInv ==
  ASSUME IInv, NEW s \in Sockets, ExchangeAnswers(s) PROVE IInv'
<1> DEFINE request == sent[s][1]
           list1 == IF request.method = "subscribe" THEN request.payload ELSE NoList
<1>1. ExchangeTakes(s) /\ request = Head(sent[s]) /\ conn[s] = "open"
      /\ UNCHANGED <<moment, ticks>>
  BY ExchangeTakesKeeps DEF ExchangeAnswers
<1>2. subscribed \in [Sockets -> 0 .. MaxLists]
  BY DEF IInv, ExchangeTypes
<1>3. CASE ~ IsRequest(request)
  <2>1. Answers(s, [type |-> "pong"]) /\ subscribed' = subscribed
    BY <1>1, <1>3 DEF ExchangeAnswers, IsRequest
  <2>2. [type |-> "pong"] \in Messages /\ [type |-> "pong"].type = "pong"
    BY DEF Messages
  <2>3. UpdatesInOrder' /\ ReceiptsInOrder'
    BY <1>1, <2>1, <2>2, AnswersUpdates, AnswersReceipts
  <2> QED
    BY <1>1, <1>2, <2>1, <2>2, <2>3, AnswersKeeps, ExchangeTakesIInv
<1>4. CASE IsRequest(request)
  <2>1. /\ Answers(s, [type |-> "receipt", id |-> request.id])
        /\ subscribed' = [subscribed EXCEPT ![s] = list1]
    BY <1>1, <1>4 DEF ExchangeAnswers, IsRequest
  <2>2. /\ request.id \in Nat /\ request.id <= requestId
        /\ list1 \in 0 .. MaxLists
        /\ request.id = requestId =>
             /\ NothingAsked(s)'
             /\ state.status = "subscribing" => list1 = state.payload
    BY <1>1, <1>4, FirstRequest, Bounds
  <2>3. /\ subscribed' \in [Sockets -> 0 .. MaxLists] /\ subscribed'[s] = list1
        /\ \A q \in Sockets : q # s => subscribed'[q] = subscribed[q]
    BY <1>2, <2>1, <2>2
  <2> DEFINE message == [type |-> "receipt", id |-> request.id]
  <2>4. message \in Messages /\ message.type = "receipt" /\ message.id = request.id
    BY <2>2 DEF Messages
  <2> HIDE DEF message, list1
  <2>5. Answers(s, message)
    BY <2>1 DEF message
  <2>6. UpdatesInOrder'
    BY <1>1, <2>4, <2>5, AnswersUpdates
  <2>7. ReceiptsInOrder'
    BY <1>1, <1>4, <2>2, <2>3, <2>4, <2>5, AnswersReceipts
  <2>8. /\ received' \in [Sockets -> Seq(Messages)]
        /\ \A q \in Sockets : conn[q] # "open" => received'[q] = received[q]
    BY <1>1, <2>4, <2>5, AnswersKeeps
  <2> QED
    BY <1>1, <1>4, <2>3, <2>6, <2>7, <2>8, ExchangeTakesIInv
<1> QED
  BY <1>3, <1>4

\* A refusal changes no subscription.
LEMMA ExchangeRefusesIInv ==
  ASSUME IInv, NEW s \in Sockets, ExchangeRefuses(s) PROVE IInv'
<1> DEFINE message == [type |-> "refusal", id |-> sent[s][1].id]
<1>1. ExchangeTakes(s) /\ conn[s] = "open" /\ Answers(s, message)
      /\ UNCHANGED <<moment, ticks, subscribed>>
  BY ExchangeTakesKeeps DEF ExchangeRefuses
<1>2. message \in Messages /\ message.type = "refusal"
  BY <1>1, FirstRequest DEF Messages
<1> HIDE DEF message
<1>3. UpdatesInOrder' /\ ReceiptsInOrder'
  BY <1>1, <1>2, AnswersUpdates, AnswersReceipts
<1>4. /\ received' \in [Sockets -> Seq(Messages)]
      /\ \A q \in Sockets : conn[q] # "open" => received'[q] = received[q]
  BY <1>1, <1>2, AnswersKeeps
<1>5. subscribed \in [Sockets -> 0 .. MaxLists]
  BY DEF IInv, ExchangeTypes
<1> QED
  BY <1>1, <1>3, <1>4, <1>5, ExchangeTakesIInv

\* A forgotten request changes no subscription.
LEMMA ExchangeForgetsIInv ==
  ASSUME IInv, NEW s \in Sockets, ExchangeForgets(s) PROVE IInv'
<1>1. ExchangeTakes(s) /\ UNCHANGED <<requestId, state, moment, ticks, received, subscribed>>
  BY ExchangeTakesKeeps DEF ExchangeForgets
<1>2. UpdatesInOrder'
  BY <1>1 DEF IInv, UpdatesInOrder
<1>3. ReceiptsInOrder'
  <2>1. ASSUME NEW q \in Sockets, NEW i \in 1 .. Len(received[q]),
               received[q][i].type = "receipt"
        PROVE  /\ received[q][i].id <= requestId
               /\ received[q][i].id = requestId =>
                    /\ NothingAsked(q)'
                    /\ state.status = "subscribing" => subscribed[q] = state.payload
    BY <1>1, <2>1, OldReceipts
  <2> QED
    BY <1>1, <2>1 DEF ReceiptsInOrder
<1>4. subscribed \in [Sockets -> 0 .. MaxLists] /\ received \in [Sockets -> Seq(Messages)]
  BY DEF IInv, ExchangeTypes
<1> QED
  BY <1>1, <1>2, <1>3, <1>4, ExchangeTakesIInv

\* An update is newer than all that is on its way and than every tick.
LEMMA ExchangeUpdatesIInv == IInv /\ ExchangeUpdates => IInv'
<1> SUFFICES ASSUME IInv, ExchangeUpdates PROVE IInv'
  OBVIOUS
<1> DEFINE message == [type |-> "update", moment |-> moment + 1]
           Told(s) == conn[s] = "open" /\ subscribed[s] # NoList
<1>1. /\ moment < MaxMoments /\ moment' = moment + 1
      /\ received' = [s \in Sockets |-> IF Told(s) THEN Append(received[s], message)
                                         ELSE received[s]]
      /\ UNCHANGED <<process, list, conn, listened, socket, shouldReconnect,
                     reconnectTimer, pongTimer, requestId, state, sent, subscribed, ticks>>
  BY DEF ExchangeUpdates, clientVars
<1>2. moment \in Nat /\ moment' \in 0 .. MaxMoments /\ moment + 1 \in Nat \ {0}
  BY <1>1, Bounds DEF IInv, ExchangeTypes
<1>3. message \in Messages /\ message.type = "update" /\ message.moment = moment + 1
  BY <1>2 DEF Messages
<1> HIDE DEF message
<1>4. received \in [Sockets -> Seq(Messages)]
  BY DEF IInv, ExchangeTypes
<1>5. ASSUME NEW q \in Sockets
      PROVE  /\ received'[q] \in Seq(Messages) /\ Len(received[q]) \in Nat
             /\ Len(received'[q]) = IF Told(q) THEN Len(received[q]) + 1 ELSE Len(received[q])
             /\ \A i \in 1 .. Len(received[q]) : received'[q][i] = received[q][i]
             /\ Told(q) => received'[q][Len(received[q]) + 1] = message
             /\ ~ Told(q) => received'[q] = received[q]
  <2>1. received[q] \in Seq(Messages)
    BY <1>4
  <2>2. received'[q] = IF Told(q) THEN Append(received[q], message) ELSE received[q]
    BY <1>1
  <2> HIDE DEF Told
  <2> QED
    BY ONLY <1>3, <2>1, <2>2
<1>6. received' \in [Sockets -> Seq(Messages)]
  <2>1. DOMAIN received' = Sockets /\ received' = [s \in Sockets |-> received'[s]]
    BY <1>1
  <2> QED
    BY <1>5, <2>1
<1> HIDE DEF Told
<1>7. ASSUME NEW q \in Sockets, NEW i \in 1 .. Len(received'[q])
      PROVE  \/ i \in 1 .. Len(received[q]) /\ received'[q][i] = received[q][i]
             \/ i = Len(received[q]) + 1 /\ received'[q][i] = message
  <2>1. i \in 1 .. Len(received'[q])
    OBVIOUS
  <2> QED
    BY ONLY <1>5, <2>1, q \in Sockets
<1>8. UpdatesInOrder'
  <2>1. ASSUME NEW q \in Sockets, NEW i \in 1 .. Len(received'[q]),
               received'[q][i].type = "update"
        PROVE  /\ received'[q][i].moment <= moment + 1
               /\ \A k \in 1 .. Len(ticks) : ticks[k] < received'[q][i].moment
               /\ \A j \in 1 .. i - 1 : received'[q][j].type = "update" =>
                    received'[q][j].moment < received'[q][i].moment
    <3>1. \A j \in 1 .. i - 1 : j \in 1 .. Len(received[q]) /\ received'[q][j] = received[q][j]
      <4>1. i \in 1 .. Len(received[q]) \/ i = Len(received[q]) + 1
        BY <1>7
      <4>2. Len(received[q]) \in Nat /\ \A j \in 1 .. Len(received[q]) : received'[q][j] = received[q][j]
        BY <1>5
      <4> QED
        BY ONLY <4>1, <4>2
    <3>2. CASE i \in 1 .. Len(received[q]) /\ received'[q][i] = received[q][i]
      <4>1. /\ received[q][i].moment <= moment
            /\ \A k \in 1 .. Len(ticks) : ticks[k] < received[q][i].moment
            /\ \A j \in 1 .. i - 1 : received[q][j].type = "update" =>
                 received[q][j].moment < received[q][i].moment
        BY <2>1, <3>2 DEF IInv, UpdatesInOrder
      <4>2. received[q][i].moment \in Nat
        BY <2>1, <3>2, MessageType DEF IInv
      <4>3. received[q][i].moment <= moment + 1
        BY ONLY <1>2, <4>1, <4>2
      <4> QED
        BY <3>1, <3>2, <4>1, <4>3
    <3>3. CASE i = Len(received[q]) + 1 /\ received'[q][i] = message
      <4>1. received'[q][i].moment = moment + 1
        BY <1>3, <3>3
      <4>2. ASSUME NEW k \in 1 .. Len(ticks) PROVE ticks[k] < moment + 1
        <5>1. ticks[k] \in Nat /\ ticks[k] <= moment
          BY DEF IInv, ExchangeTypes, UpdatesInOrder
        <5> QED
          BY ONLY <1>2, <5>1
      <4>3. ASSUME NEW j \in 1 .. Len(received[q]), received[q][j].type = "update"
            PROVE  received[q][j].moment < moment + 1
        <5>1. received[q][j].moment \in Nat /\ received[q][j].moment <= moment
          BY <4>3, MessageType DEF IInv, UpdatesInOrder
        <5> QED
          BY ONLY <1>2, <5>1
      <4> QED
        BY <1>2, <3>1, <4>1, <4>2, <4>3
    <3> QED
      BY <1>7, <3>2, <3>3
  <2>2. ASSUME NEW k \in 1 .. Len(ticks) PROVE ticks[k] <= moment + 1
    <3>1. ticks[k] \in Nat /\ ticks[k] <= moment
      BY DEF IInv, ExchangeTypes, UpdatesInOrder
    <3> QED
      BY ONLY <1>2, <3>1
  <2> QED
    BY <1>1, <2>1, <2>2 DEF UpdatesInOrder
<1>9. ReceiptsInOrder'
  <2>1. ASSUME NEW q \in Sockets, NEW i \in 1 .. Len(received'[q]),
               received'[q][i].type = "receipt"
        PROVE  i \in 1 .. Len(received[q]) /\ received'[q][i] = received[q][i]
    BY <1>3, <1>7, <2>1
  <2> QED
    BY <1>1, <2>1 DEF IInv, ReceiptsInOrder, NothingAsked
<1>10. ClientTypes' /\ StateTypes'
  BY <1>1 DEF IInv, ClientTypes, StateTypes
<1>11. ExchangeTypes'
  BY <1>1, <1>2, <1>6 DEF IInv, ExchangeTypes
<1>12. OneSocket' /\ TimersOfSocket' /\ StopIsFinal' /\ TicksOnce'
  BY <1>1 DEF IInv, OneSocket, TimersOfSocket, StopIsFinal, TicksOnce
<1>13. OnlyOpenCarries'
  BY <1>1, <1>5 DEF IInv, OnlyOpenCarries, Told
<1>14. RequestsInOrder' /\ StateOfSocket'
  BY <1>1 DEF IInv, RequestsInOrder, StateOfSocket, IsOpen, NothingAsked
<1> QED
  BY <1>8, <1>9, <1>10, <1>11, <1>12, <1>13, <1>14 DEF IInv

-----------------------------------------------------------------------------
(* The theorems.                                                           *)

\* Every step keeps the invariant.
LEMMA NextIInv == IInv /\ [Next]_vars => IInv'
<1> SUFFICES ASSUME IInv, [Next]_vars PROVE IInv'
  OBVIOUS
<1>1. ASSUME NEW s \in Sockets, Service(s) PROVE IInv'
  BY <1>1, OpenedIInv, ClosedIInv, HandlePongIInv, HandleReceiptIInv,
     HandleRefusalIInv, HandleMarketUpdateIInv DEF Service
<1>2. ASSUME NEW s \in Sockets,
             \/ ConnectionEnds(s) \/ ExchangeAnswers(s)
             \/ ExchangeRefuses(s) \/ ExchangeForgets(s)
      PROVE  IInv'
  BY <1>2, ConnectionEndsIInv, ExchangeAnswersIInv, ExchangeRefusesIInv,
     ExchangeForgetsIInv
<1>3. CASE \/ Start \/ Stop \/ MarketsInfoUpdated \/ ReconnectNow \/ SendPing
           \/ PongTimeout \/ SubscriptionTimeout \/ ExchangeUpdates
  BY <1>3, StartIInv, StopIInv, MarketsInfoUpdatedIInv, ReconnectNowIInv, SendPingIInv,
     PongTimeoutIInv, SubscriptionTimeoutIInv, ExchangeUpdatesIInv
<1>4. CASE UNCHANGED vars
  <2>1. UNCHANGED <<process, list, conn, listened, socket, shouldReconnect,
                    reconnectTimer, pongTimer, requestId, state, sent, received,
                    subscribed, moment, ticks>>
    BY <1>4 DEF vars, clientVars, exchangeVars
  <2>2. ClientTypes' /\ StateTypes' /\ ExchangeTypes'
    BY <2>1 DEF IInv, ClientTypes, StateTypes, ExchangeTypes
  <2>3. OneSocket' /\ OnlyOpenCarries' /\ TimersOfSocket' /\ StopIsFinal'
    BY <2>1 DEF IInv, OneSocket, OnlyOpenCarries, TimersOfSocket, StopIsFinal
  <2>4. UpdatesInOrder' /\ TicksOnce'
    BY <2>1 DEF IInv, UpdatesInOrder, TicksOnce
  <2>5. RequestsInOrder' /\ ReceiptsInOrder' /\ StateOfSocket'
    BY <2>1 DEF IInv, RequestsInOrder, ReceiptsInOrder, StateOfSocket, IsOpen, NothingAsked
  <2> QED
    BY <2>2, <2>3, <2>4, <2>5 DEF IInv
<1> QED
  BY <1>1, <1>2, <1>3, <1>4 DEF Next

\* The invariant holds in every state the feed reaches.
LEMMA InvariantOfSpec == Spec => []IInv
BY InitIInv, NextIInv, PTL DEF Spec

\* Every update of the exchange becomes a tick once and in the order of the
\* exchange, whatever sockets are closed, given up and replaced meanwhile
\* (openSocket, reconnect, handleMarketUpdate).
THEOREM FeedTicksOnce == Spec => []TicksOnce
<1>1. IInv => TicksOnce
  BY DEF IInv
<1> QED
  BY <1>1, InvariantOfSpec, PTL

\* A subscription the service takes for active is one of the newest list of
\* markets, on the exchange's side as well (handleSubscribeEvent,
\* handleSubscriptionReceipt).
THEOREM FeedActiveIsNewest == Spec => []ActiveIsNewest
<1>1. ASSUME IInv PROVE ActiveIsNewest
  <2>1. SUFFICES ASSUME IsOpen, state.status = "active"
                 PROVE  state.payload = list /\ subscribed[socket] = list
    BY DEF ActiveIsNewest
  <2>2. process # "loading"
    BY <1>1, <2>1 DEF IInv, TimersOfSocket
  <2> QED
    BY <1>1, <2>1, <2>2 DEF IInv, StateOfSocket
<1> QED
  BY <1>1, InvariantOfSpec, PTL

\* While the server runs, a feed that is not subscribed is about to be connected
\* or guarded by the timer of its request; after stop() nothing connects again
\* (createSubscriptionTimeout, scheduleReconnect, disconnect).
THEOREM FeedWatchedUntilStopped == Spec => []WatchedUntilStopped
<1>1. ASSUME IInv PROVE TypeOK
  <2>1. ClientTypes /\ listened \subseteq Sockets
    BY <1>1 DEF IInv, ClientTypes, OneSocket
  <2>2. /\ requestId \in Nat /\ state \in States
        /\ state.requestId <= requestId /\ state.timeout <= requestId
    BY <1>1 DEF IInv, StateTypes
  <2>3. /\ state.status \in {"waiting socket", "subscribing", "active", "unsubscribing"}
        /\ state.requestId \in 0 .. requestId
        /\ state.payload \in 0 .. MaxLists
        /\ state.timeout \in 0 .. requestId
    <3>1. /\ state.status \in {"waiting socket", "subscribing", "active", "unsubscribing"}
          /\ state.requestId \in Nat /\ state.timeout \in Nat
          /\ state.payload \in 0 .. MaxLists
      BY ONLY <2>2 DEF States
    <3>2. /\ requestId \in Nat
          /\ state.requestId <= requestId /\ state.timeout <= requestId
      BY ONLY <2>2
    <3>3. \A id, last \in Nat : id <= last => id \in 0 .. last
      OBVIOUS
    <3>4. state.requestId \in 0 .. requestId /\ state.timeout \in 0 .. requestId
      BY ONLY <3>1, <3>2, <3>3, Zenon
    <3> QED
      BY ONLY <3>1, <3>4
  <2>4. /\ subscribed \in [Sockets -> 0 .. MaxLists] /\ moment \in 0 .. MaxMoments
        /\ moment \in Nat /\ ticks \in Seq(Nat \ {0})
        /\ \A i \in 1 .. Len(ticks) : ticks[i] <= moment
    BY <1>1, Bounds DEF IInv, ExchangeTypes, UpdatesInOrder
  <2>5. \A i \in 1 .. Len(ticks) : ticks[i] \in 1 .. moment
    BY ONLY <2>4
  <2> QED
    BY <2>1, <2>2, <2>3, <2>4, <2>5 DEF TypeOK, ClientTypes
<1>2. ASSUME IInv PROVE InactiveIsGuarded
  BY <1>2 DEF IInv, InactiveIsGuarded, TimersOfSocket, StateOfSocket, IsOpen
<1>3. IInv => StopIsFinal
  BY DEF IInv
<1> QED
  BY <1>1, <1>2, <1>3, InvariantOfSpec, PTL DEF WatchedUntilStopped

\* Giving up the socket in use ends the process only while it connects.
LEMMA CrashesConnecting ==
  ASSUME IInv, process # "crashed", process' = "crashed", Reconnect
  PROVE  socket # NoSocket /\ conn[socket] = "connecting"
BY DEF Reconnect, CrashesWith

\* The process ends by a connection given up while it is made only if a timer of
\* a request outlived its connection, or stop() falls into that moment
\* (createSubscriptionTimeout, handleWSClose, disconnect).
THEOREM FeedCrashOnlyByLeftoverTimer == Spec => CrashOnlyByLeftoverTimer
<1> DEFINE Crash   == process # "crashed" /\ process' = "crashed"
           Allowed == (state.timeout # NoTimer /\ ~ IsOpen) \/ ~ shouldReconnect'
<1>1. ASSUME IInv, Next, Crash PROVE Allowed
  <2>1. \/ Stop \/ PongTimeout \/ SubscriptionTimeout
        \/ MarketsInfoUpdated /\ process' # process
        \/ \E s \in Sockets : HandleRefusal(s) /\ process' # process
    <3>1. ASSUME NEW s \in Sockets,
                 Opened(s) \/ Closed(s) \/ HandlePong(s) \/ HandleReceipt(s)
                   \/ HandleMarketUpdate(s)
          PROVE  process' = process
      BY <3>1 DEF Opened, Closed, HandlePong, HandleReceipt, HandleMarketUpdate
    <3>2. ASSUME NEW s \in Sockets,
                 \/ ConnectionEnds(s) \/ ExchangeAnswers(s)
                 \/ ExchangeRefuses(s) \/ ExchangeForgets(s)
          PROVE  process' = process
      BY <3>2 DEF ConnectionEnds, ExchangeAnswers, ExchangeRefuses, ExchangeForgets,
                  ExchangeTakes
    <3>3. ASSUME ReconnectNow \/ SendPing \/ ExchangeUpdates PROVE process' = process
      BY <3>3 DEF ReconnectNow, SendPing, ExchangeUpdates
    <3>4. ASSUME Start PROVE process' = "running"
      BY <3>4 DEF Start
    <3> QED
      BY <1>1, <3>1, <3>2, <3>3, <3>4, Zenon DEF Next, Service
  <2>2. CASE Stop
    BY <2>2, <1>1 DEF Stop, IInv, ClientTypes
  <2>3. CASE PongTimeout
    <3>1. socket # NoSocket /\ conn[socket] = "connecting"
      BY <1>1, <2>3, CrashesConnecting DEF PongTimeout
    <3> QED
      BY <1>1, <2>3, <3>1 DEF PongTimeout, IInv, TimersOfSocket
  <2>4. CASE SubscriptionTimeout
    <3>1. Reconnect /\ state.timeout # NoTimer
      BY <1>1, <2>4 DEF SubscriptionTimeout
    <3>2. conn[socket] = "connecting"
      BY <1>1, <3>1, CrashesConnecting
    <3> QED
      BY <3>1, <3>2 DEF IsOpen
  <2>5. CASE MarketsInfoUpdated /\ process' # process
    <3>1. IsOpen /\ Reconnect
      BY <2>5 DEF MarketsInfoUpdated, StartOver
    <3>2. conn[socket] = "connecting"
      BY <1>1, <3>1, CrashesConnecting
    <3> QED
      BY <3>1, <3>2 DEF IsOpen
  <2>6. ASSUME NEW s \in Sockets, HandleRefusal(s), process' # process PROVE FALSE
    <3>1. conn[s] = "open" /\ Reconnect
      BY <2>6 DEF HandleRefusal, Message
    <3>2. s = socket
      BY <1>1, <3>1 DEF IInv, OneSocket
    <3>3. conn[socket] = "connecting"
      BY <1>1, <3>1, CrashesConnecting
    <3> QED
      BY <3>1, <3>2, <3>3
  <2> QED
    BY <2>1, <2>2, <2>3, <2>4, <2>5, <2>6
<1>2. IInv /\ [Next]_vars => [Crash => Allowed]_vars
  BY <1>1
<1> QED
  BY <1>2, InvariantOfSpec, PTL DEF Spec, CrashOnlyByLeftoverTimer
=============================================================================
