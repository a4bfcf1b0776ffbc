------------------------------- MODULE WhitebitWs -------------------------------
(***************************************************************************)
(* The market feed: WhitebitWSClient (src/app/src/server/whitebit/         *)
(* ws-client.ts) with its socket and timers, and WhitebitWsService         *)
(* (src/app/src/server/services/whitebit-ws.ts), which keeps the           *)
(* subscription of the exchange equal to the list of markets.              *)
(*                                                                         *)
(* A list of markets is its version, a request the version it asks for.    *)
(* The exchange (external) answers the requests of a connection in order,  *)
(* may refuse one or leave it unanswered, and may close any connection.    *)
(* A socket of the ws library (external) that is ended while it connects   *)
(* emits `error'; an `error' nobody listens to ends the process.           *)
(***************************************************************************)
EXTENDS Naturals, Sequences, FiniteSets

CONSTANTS
  MaxSockets,  \* bound on the sockets opened one after the other
  MaxLists,    \* bound on the versions of the market list
  MaxMoments,  \* bound on the updates of the exchange
  Events       \* what may happen around the program in an instance

ASSUME FeedAssumption ==
  /\ MaxSockets \in Nat \ {0}
  /\ MaxLists \in Nat \ {0}
  /\ MaxMoments \in Nat
  /\ Events \subseteq {"close", "fail", "refuse", "lose", "late", "stop"}

VARIABLES
  process,         \* of the server: "loading", "running", "stopped", "crashed"
  list,            \* version of the market list in GlobalStateService
  conn,            \* state of each socket
  listened,        \* sockets that have their listeners
  socket,          \* WhitebitWSClient.socket, or NoSocket
  shouldReconnect,
  reconnectTimer,
  pongTimer,
  requestId,       \* the last id given to a request
  state,           \* the SubscribeState of market statistics
  sent,            \* requests on their way to the exchange
  received,        \* messages on their way to the service
  subscribed,      \* the list the exchange sends updates for, or NoList
  moment,          \* price changes of the exchange so far
  ticks            \* those the storages have been told of

clientVars == <<conn, listened, socket, shouldReconnect, reconnectTimer,
                pongTimer>>
exchangeVars == <<sent, received, subscribed, moment, ticks>>
vars == <<process, list, clientVars, requestId, state, exchangeVars>>

Sockets == 1 .. MaxSockets
NoSocket == 0
NoList == 0
NoTimer == 0

\* Bound: what makes the program open another socket happens only while
\* there is one left.
SocketsLeft == \E s \in Sockets : conn[s] = "none"

TypeOK ==
  /\ process \in {"loading", "running", "stopped", "crashed"}
  /\ list \in 1 .. MaxLists
  /\ conn \in [Sockets -> {"none", "connecting", "open", "closing", "gone"}]
  /\ listened \subseteq Sockets
  /\ socket \in Sockets \union {NoSocket}
  /\ shouldReconnect \in BOOLEAN /\ reconnectTimer \in BOOLEAN
  /\ pongTimer \in BOOLEAN
  /\ requestId \in Nat
  /\ state.status \in {"waiting socket", "subscribing", "active",
                       "unsubscribing"}
  /\ state.requestId \in 0 .. requestId
  /\ state.payload \in 0 .. MaxLists
  /\ state.timeout \in 0 .. requestId
  /\ subscribed \in [Sockets -> 0 .. MaxLists]
  /\ moment \in 0 .. MaxMoments
  /\ \A i \in 1 .. Len(ticks) : ticks[i] \in 1 .. moment

Waiting(payload) == [status |-> "waiting socket", requestId |-> 0,
                     payload |-> payload, timeout |-> NoTimer]

Init ==
  /\ process = "loading"
  /\ list = 1
  /\ conn = [s \in Sockets |-> "none"]
  /\ listened = {}
  /\ socket = NoSocket
  /\ shouldReconnect = FALSE
  /\ reconnectTimer = FALSE
  /\ pongTimer = FALSE
  /\ requestId = 0
  /\ state = Waiting(NoList)
  /\ sent = [s \in Sockets |-> <<>>]
  /\ received = [s \in Sockets |-> <<>>]
  /\ subscribed = [s \in Sockets |-> NoList]
  /\ moment = 0
  /\ ticks = <<>>

-----------------------------------------------------------------------------
(* The client.                                                             *)

\* Faulty variant: a socket is taken for open as soon as it exists.
HasSocket == socket # NoSocket

IsOpen == socket # NoSocket /\ conn[socket] = "open"

\* The socket that is opened next.
NextSocket == CHOOSE s \in Sockets :
                /\ conn[s] = "none"
                /\ \A t \in Sockets : conn[t] = "none" => s <= t

\* openSocket, with the listeners of the new socket.
OpenSocket ==
  /\ SocketsLeft
  /\ conn' = [conn EXCEPT ![NextSocket] = "connecting"]
  /\ listened' = listened \union {NextSocket}
  /\ socket' = NextSocket
  /\ pongTimer' = FALSE

\* Faulty variant: the listeners of a socket that is given up stay.
ListenedStill(s) == listened

\* removeAllListeners.
ListenedWithout(s) == listened \ {s}

\* terminate() and close(): the socket closes; while it connects, the error
\* this causes finds no listener.
GiveUp(s) ==
  /\ conn' = [conn EXCEPT ![s] = "closing"]
  /\ listened' = ListenedWithout(s)
  /\ socket' = NoSocket
  /\ sent' = [sent EXCEPT ![s] = <<>>]
  /\ received' = [received EXCEPT ![s] = <<>>]

CrashesWith(s) == conn[s] = "connecting" /\ s \notin ListenedWithout(s)

\* reconnect() and reconnectBecausePongTimedOut(): the same steps.
Reconnect ==
  /\ IF socket # NoSocket
       THEN /\ GiveUp(socket)
            /\ pongTimer' = FALSE
            /\ process' = IF CrashesWith(socket) THEN "crashed" ELSE process
       ELSE UNCHANGED <<process, conn, listened, socket, pongTimer, sent,
                        received>>
  /\ reconnectTimer' = (shouldReconnect \/ reconnectTimer)
  /\ UNCHANGED shouldReconnect

\* Requests with the id the client gives them; ids of pings are 0.
Request(method, id, payload) ==
  [method |-> method, id |-> id, payload |-> payload]

Ping == Request("ping", 0, NoList)

\* sendRequest, several in a row: the socket is open.
Send(messages) == sent' = [sent EXCEPT ![socket] = @ \o messages]

-----------------------------------------------------------------------------
(* The service.                                                            *)

\* Faulty variant: no timer waits for the receipt.
RequestedUnguarded(status, payload) ==
  [status |-> status, requestId |-> requestId + 1, payload |-> payload,
   timeout |-> NoTimer]

\* The state after a request has been sent, guarded by a timer of its own.
Requested(status, payload) ==
  [status |-> status, requestId |-> requestId + 1, payload |-> payload,
   timeout |-> requestId + 1]

\* start() registers the list and connects.
Start ==
  /\ process = "loading"
  /\ process' = "running"
  /\ state' = Waiting(list)
  /\ shouldReconnect' = TRUE
  /\ reconnectTimer' = FALSE
  /\ OpenSocket
  /\ UNCHANGED <<list, requestId, exchangeVars>>

\* stop() forgets the timers and disconnects.
Stop ==
  /\ "stop" \in Events
  /\ process = "running"
  /\ state' = [state EXCEPT !.timeout = NoTimer]
  /\ shouldReconnect' = FALSE
  /\ reconnectTimer' = FALSE
  /\ pongTimer' = FALSE
  /\ IF socket # NoSocket
       THEN /\ GiveUp(socket)
            /\ process' = IF CrashesWith(socket) THEN "crashed" ELSE "stopped"
       ELSE /\ process' = "stopped"
            /\ UNCHANGED <<conn, listened, socket, sent, received>>
  /\ UNCHANGED <<list, requestId, subscribed, moment, ticks>>

Alive == process \in {"running", "stopped"}

\* Faulty variant: while a request is under way only the payload is kept.
KeepPayload ==
  /\ state' = [state EXCEPT !.payload = list + 1]
  /\ UNCHANGED <<process, clientVars, requestId, exchangeVars>>

\* "Too frequent": the list changes while a request is under way.
StartOver ==
  /\ SocketsLeft
  /\ state' = [state EXCEPT !.payload = list + 1]
  /\ Reconnect
  /\ UNCHANGED <<requestId, subscribed, moment, ticks>>

\* handleSubscribeEvent, on a new list of markets.
MarketsInfoUpdated ==
  /\ Alive
  /\ list < MaxLists
  /\ list' = list + 1
  /\ \/ /\ ~ IsOpen
        /\ state' = Waiting(list + 1)
        /\ UNCHANGED <<process, clientVars, requestId, exchangeVars>>
     \/ /\ IsOpen
        /\ state.status = "active"
        /\ Send(<< Request("unsubscribe", requestId + 1, state.requestId) >>)
        /\ state' = Requested("unsubscribing", list + 1)
        /\ requestId' = requestId + 1
        /\ UNCHANGED <<process, clientVars, received, subscribed, moment, ticks>>
     \/ IsOpen /\ state.status # "active" /\ StartOver

\* 'open': the first ping, and resubscribeAllAfterReconnect.
Opened(s) ==
  /\ process = "running"
  /\ conn[s] = "connecting"
  /\ s \in listened
  /\ conn' = [conn EXCEPT ![s] = "open"]
  /\ pongTimer' = TRUE
  /\ state' = Requested("subscribing", state.payload)
  /\ requestId' = requestId + 1
  /\ sent' = [sent EXCEPT ![s] =
                << Ping, Request("subscribe", requestId + 1, state.payload) >>]
  /\ UNCHANGED <<process, list, listened, socket, shouldReconnect,
                 reconnectTimer, received, subscribed, moment, ticks>>

\* The connection cannot be made, or is closed by the exchange or by an error.
ConnectionEnds(s) ==
  /\ \/ "fail" \in Events /\ conn[s] = "connecting"
     \/ "close" \in Events /\ conn[s] = "open"
  /\ s \in listened
  /\ SocketsLeft
  /\ process = "running"
  /\ conn' = [conn EXCEPT ![s] = "closing"]
  /\ sent' = [sent EXCEPT ![s] = <<>>]
  /\ received' = [received EXCEPT ![s] = <<>>]
  /\ UNCHANGED <<process, list, listened, socket, shouldReconnect,
                 reconnectTimer, pongTimer, requestId, state, subscribed, moment, ticks>>

\* 'close', if anybody listens.
Closed(s) ==
  /\ Alive
  /\ conn[s] = "closing"
  /\ conn' = [conn EXCEPT ![s] = "gone"]
  /\ listened' = listened \ {s}
  /\ IF s \in listened
       THEN /\ pongTimer' = FALSE
            /\ socket' = IF socket = s THEN NoSocket ELSE socket
            /\ reconnectTimer' = (shouldReconnect \/ reconnectTimer)
       ELSE UNCHANGED <<pongTimer, socket, reconnectTimer>>
  /\ UNCHANGED <<process, list, shouldReconnect, requestId, state>>
  /\ UNCHANGED exchangeVars

\* The timer of scheduleReconnect.
ReconnectNow ==
  /\ Alive
  /\ reconnectTimer
  /\ reconnectTimer' = FALSE
  /\ OpenSocket
  /\ UNCHANGED <<process, list, shouldReconnect, requestId, state>>
  /\ UNCHANGED exchangeVars

\* The interval of startPing.
SendPing ==
  /\ process = "running"
  /\ "late" \in Events
  /\ IsOpen
  /\ ~ pongTimer
  /\ pongTimer' = TRUE
  /\ Send(<< Ping >>)
  /\ UNCHANGED <<process, list, conn, listened, socket, shouldReconnect>>
  /\ UNCHANGED <<reconnectTimer, requestId, state, received, subscribed,
                 moment, ticks>>

PongTimeout ==
  /\ process = "running"
  /\ pongTimer
  /\ "late" \in Events
  /\ SocketsLeft
  /\ Reconnect
  /\ UNCHANGED <<list, requestId, state, subscribed, moment, ticks>>

\* The request the timer was made for is still the last one.
TimerOfRequest == state.timeout = state.requestId

\* createSubscriptionTimeout.
SubscriptionTimeout ==
  /\ Alive
  /\ state.timeout # NoTimer
  /\ SocketsLeft
  /\ state' = [state EXCEPT !.timeout = NoTimer]
  /\ IF TimerOfRequest
       THEN Reconnect
       ELSE UNCHANGED <<process, clientVars, sent, received>>
  /\ UNCHANGED <<list, requestId, subscribed, moment, ticks>>

Takes(s) == received' = [received EXCEPT ![s] = Tail(@)]

\* Something has come on a socket that is listened to.
Message(s, type) ==
  /\ process = "running"
  /\ conn[s] = "open"
  /\ s \in listened
  /\ received[s] # <<>>
  /\ Head(received[s]).type = type

HandlePong(s) ==
  /\ Message(s, "pong")
  /\ Takes(s)
  /\ pongTimer' = FALSE
  /\ UNCHANGED <<process, list, conn, listened, socket, shouldReconnect>>
  /\ UNCHANGED <<reconnectTimer, requestId, state, sent, subscribed,
                 moment, ticks>>

\* An update of the exchange is a tick of the storages.
HandleMarketUpdate(s) ==
  /\ Message(s, "update")
  /\ Takes(s)
  /\ ticks' = Append(ticks, Head(received[s]).moment)
  /\ UNCHANGED <<process, list, clientVars, requestId, state, sent>>
  /\ UNCHANGED <<subscribed, moment>>

\* findSubscribeByRequestId.
ReceiptOfState(id) == id = state.requestId

\* Faulty variant: a subscription that was undone counts as made.
ConfirmedAtOnce(s) ==
  /\ state' = [state EXCEPT !.status = "active", !.timeout = NoTimer]
  /\ UNCHANGED <<requestId, sent>>

\* What a successful receipt leads to: a subscription is active, an undone
\* one is made anew with the newest list.
Confirmed(s) ==
  CASE state.status = "subscribing" ->
         /\ state' = [state EXCEPT !.status = "active", !.timeout = NoTimer]
         /\ UNCHANGED <<requestId, sent>>
    [] state.status = "unsubscribing" ->
         /\ state' = Requested("subscribing", state.payload)
         /\ requestId' = requestId + 1
         /\ Send(<< Request("subscribe", requestId + 1, state.payload) >>)
    [] OTHER ->
         /\ state' = [state EXCEPT !.timeout = NoTimer]
         /\ UNCHANGED <<requestId, sent>>

\* handleSubscriptionReceipt, of a request that succeeded.
HandleReceipt(s) ==
  /\ Message(s, "receipt")
  /\ Takes(s)
  /\ IF ReceiptOfState(Head(received[s]).id)
       THEN Confirmed(s)
       ELSE UNCHANGED <<state, requestId, sent>>
  /\ UNCHANGED <<process, list, clientVars, subscribed, moment, ticks>>

\* handleSubscriptionReceipt, of a request that was refused.
HandleRefusal(s) ==
  /\ Message(s, "refusal")
  /\ SocketsLeft
  /\ IF ReceiptOfState(Head(received[s]).id)
       THEN /\ state' = [state EXCEPT !.timeout = NoTimer]
            /\ Reconnect
       ELSE /\ Takes(s)
            /\ UNCHANGED <<state, process, clientVars, sent>>
  /\ UNCHANGED <<list, requestId, subscribed, moment, ticks>>

-----------------------------------------------------------------------------
(* The exchange (external).                                                *)

Answers(s, message) == received' = [received EXCEPT ![s] = Append(@, message)]

\* The next request of a connection.
ExchangeTakes(s) ==
  /\ conn[s] = "open"
  /\ sent[s] # <<>>
  /\ sent' = [sent EXCEPT ![s] = Tail(@)]
  /\ UNCHANGED <<process, list, clientVars, requestId, state, moment, ticks>>

ExchangeAnswers(s) ==
  LET request == Head(sent[s])
  IN  /\ ExchangeTakes(s)
      /\ IF request.method = "ping"
           THEN /\ Answers(s, [type |-> "pong"])
                /\ UNCHANGED subscribed
           ELSE /\ Answers(s, [type |-> "receipt", id |-> request.id])
                /\ subscribed' = [subscribed EXCEPT
                     ![s] = IF request.method = "subscribe"
                              THEN request.payload ELSE NoList]

ExchangeRefuses(s) ==
  /\ "refuse" \in Events
  /\ SocketsLeft
  /\ ExchangeTakes(s)
  /\ Head(sent[s]).method # "ping"
  /\ Answers(s, [type |-> "refusal", id |-> Head(sent[s]).id])
  /\ UNCHANGED subscribed

\* No answer will come.
ExchangeForgets(s) ==
  /\ "lose" \in Events
  /\ SocketsLeft
  /\ ExchangeTakes(s)
  /\ Head(sent[s]).method # "ping"
  /\ UNCHANGED <<received, subscribed>>

\* A price changes: every connection with a subscription is told.
ExchangeUpdates ==
  /\ moment < MaxMoments
  /\ moment' = moment + 1
  /\ received' = [s \in Sockets |->
       IF conn[s] = "open" /\ subscribed[s] # NoList
         THEN Append(received[s], [type |-> "update", moment |-> moment + 1])
         ELSE received[s]]
  /\ UNCHANGED <<process, list, clientVars, requestId, state, sent>>
  /\ UNCHANGED <<subscribed, ticks>>

Service(s) ==
  \/ Opened(s) \/ Closed(s)
  \/ HandlePong(s) \/ HandleReceipt(s) \/ HandleRefusal(s)
  \/ HandleMarketUpdate(s)

Next ==
  \/ Start \/ Stop
  \/ MarketsInfoUpdated
  \/ ReconnectNow \/ SendPing \/ PongTimeout \/ SubscriptionTimeout
  \/ ExchangeUpdates
  \/ \E s \in Sockets :
       \/ Service(s) \/ ConnectionEnds(s)
       \/ ExchangeAnswers(s) \/ ExchangeRefuses(s) \/ ExchangeForgets(s)

Spec == Init /\ [][Next]_vars

-----------------------------------------------------------------------------
(* Properties.                                                             *)

\* However sockets are closed, given up and replaced, no more than one is
\* listened to while it carries messages: every update of the exchange is a
\* tick once, and ticks keep their order (openSocket, reconnect).
TicksOnce == \A i, j \in 1 .. Len(ticks) : i < j => ticks[i] < ticks[j]

\* An active subscription is one of the newest list of markets, on the socket
\* in use, whatever list changes fell into the requests before it
\* (handleSubscribeEvent, handleSubscriptionReceipt).
ActiveIsNewest ==
  IsOpen /\ state.status = "active" =>
    state.payload = list /\ subscribed[socket] = list

\* While the server runs and no subscription is active, something will go on
\* by itself: a connection to be made, being made or being closed, or a timer
\* that guards the last request (createSubscriptionTimeout, scheduleReconnect).
InactiveIsGuarded ==
  process = "running" =>
    \/ reconnectTimer
    \/ socket # NoSocket /\ ~ IsOpen
    \/ IsOpen /\ state.status = "active"
    \/ IsOpen /\ state.timeout = state.requestId

\* After stop() nothing is left that connects again (stop, disconnect).
StopIsFinal ==
  process = "stopped" => socket = NoSocket /\ ~ reconnectTimer /\ listened = {}

\* A subscription is never lost sight of while the server runs, and nothing goes
\* on when it is stopped.
WatchedUntilStopped == TypeOK /\ InactiveIsGuarded /\ StopIsFinal

\* The process ends by a connection that is given up while it is made only if
\* the timer of a request of an earlier connection is still there, or the
\* server is stopped at that moment (createSubscriptionTimeout is not
\* cancelled by handleWSClose).
CrashOnlyByLeftoverTimer ==
  [][process # "crashed" /\ process' = "crashed" =>
       (state.timeout # NoTimer /\ ~ IsOpen) \/ ~ shouldReconnect']_vars

\* What the sockets, the timers and the exchange do sooner or later; nothing
\* has to fail and the list does not have to change.
Progress ==
  /\ WF_vars(Start) /\ WF_vars(ReconnectNow) /\ WF_vars(SubscriptionTimeout)
  /\ \A s \in Sockets : WF_vars(Service(s)) /\ WF_vars(ExchangeAnswers(s))

FairSpec == Spec /\ Progress

\* When connections no longer fail, requests are no longer refused or left
\* unanswered and the list of markets stays, the feed is subscribed to the
\* newest list for good, unless the server is stopped or crashes.
FeedResumes ==
  <>[](process = "running" =>
         IsOpen /\ state.status = "active" /\ subscribed[socket] = list)
=============================================================================
