---------------------------- MODULE FrontendClient ----------------------------
(***************************************************************************)
(* The browser: FrontendWsClient (src/app/src/client/src/api/frontend-ws)  *)
(* with its socket and timers, FrontendWsController and the session state  *)
(* it keeps in itself and in GlobalStateService, AppBootstrap with the     *)
(* SynchronizationService that fetches settings, markets and entities      *)
(* before the pages are shown, and one MarketStatisticsController per      *)
(* market that a page has mounted.                                         *)
(*                                                                         *)
(* An event of a socket and all it sets off, up to the state React then    *)
(* renders, is one step: nothing else of the browser runs in between.      *)
(***************************************************************************)
EXTENDS FrontendNetwork, SequencesExt

VARIABLES
  socket,       \* FrontendWsClient.socket, or NoSocket
  isReady,      \* the server's hello has come
  pongTimer,    \* a ping waits for its pong
  connectDue,   \* connect() will be called: at the start, or after the delay
  page,         \* release of the page's code
  nextClientId,
  lastServerId,
  entities,     \* the storage entities are registered
  marketList,   \* version of the markets in GlobalStateService, 0: none
  sync,         \* the run of SynchronizationService
  shown,        \* the synchronization is completed: the pages are mounted
  mounted,      \* markets whose controller has a subscriber
  storage,      \* ticks in the storage of each controller, or NoStorage
  pending,      \* pendingSubscriptions of each controller
  rollingShown  \* rolling statistics of each controller, 0: none

transportVars == <<socket, isReady, pongTimer, connectDue>>
pageVars == <<page, nextClientId>>
sessionVars == <<lastServerId, entities, marketList>>
viewVars == <<sync, shown>>
controllerVars == <<mounted, storage, pending, rollingShown>>
clientVars == <<transportVars, pageVars, sessionVars, viewVars,
                controllerVars>>

Answers == {"settings", "markets", "entities"}

\* The run of a synchronization: which socket each answer came from.
Waiting(sockets) == [state |-> "waiting", got |-> sockets]
NotRunning == [state |-> "idle", got |-> [a \in Answers |-> NoSocket]]

\* Faulty variant: a run goes on with the answers of the one it aborts.
ResumedRun == Waiting(sync.got)

NewRun == Waiting([a \in Answers |-> NoSocket])

NoStorage == MaxVersion + 1

TypeOKClient ==
  /\ socket \in Sockets \union {NoSocket}
  /\ isReady \in BOOLEAN /\ pongTimer \in BOOLEAN /\ connectDue \in BOOLEAN
  /\ page \in 1 .. 2
  /\ nextClientId \in ClientIds
  /\ lastServerId \in Nat
  /\ entities \in BOOLEAN
  /\ marketList \in 0 .. MaxMarkets
  /\ sync.state \in {"idle", "waiting"}
  /\ sync.got \in [Answers -> Sockets \union {NoSocket}]
  /\ shown \in BOOLEAN
  /\ mounted \subseteq Markets
  /\ storage \in [Markets -> 0 .. NoStorage]
  /\ pending \in [Markets -> SUBSET ClientIds]
  /\ rollingShown \in [Markets -> 0 .. MaxVersion]

InitPage ==
  /\ socket = NoSocket
  /\ isReady = FALSE
  /\ pongTimer = FALSE
  /\ connectDue = TRUE
  /\ page = 1
  /\ nextClientId = 1
  /\ lastServerId = 0
  /\ entities = FALSE
  /\ marketList = 0
  /\ sync = NotRunning
  /\ shown = FALSE
  /\ mounted = {}
  /\ storage = [m \in Markets |-> NoStorage]
  /\ pending = [m \in Markets |-> {}]
  /\ rollingShown = [m \in Markets |-> 0]

-----------------------------------------------------------------------------
(* Controllers of markets.                                                 *)

\* onLastSubscriber of the controllers of some markets; the registry drops
\* a controller without subscribers.
UnmountAll(gone) ==
  /\ mounted' = mounted \ gone
  /\ storage' = [m \in Markets |-> IF m \in gone THEN NoStorage ELSE storage[m]]
  /\ pending' = [m \in Markets |-> IF m \in gone THEN {} ELSE pending[m]]
  /\ rollingShown' = [m \in Markets |->
                        IF m \in gone THEN 0 ELSE rollingShown[m]]

\* What they send, in the order of some enumeration of the markets.
Removals(gone) ==
  LET order == SetToSeq(gone)
  IN  [i \in 1 .. 2 * Len(order) |->
         [type |-> IF i % 2 = 1 THEN "removeRolling" ELSE "removeStatistics",
          market |-> order[(i + 1) \div 2]]]

\* A page mounts a market: onFirstSubscriber asks for a full sync.  What is
\* sent while there is no open socket is dropped.
Mount(m) ==
  /\ shown
  /\ m \notin mounted
  /\ m \in scenario.traded
  /\ nextClientId + Cardinality(scenario.traded) <= scenario.clientIds
  /\ mounted' = mounted \union {m}
  /\ pending' = [pending EXCEPT ![m] = @ \union {nextClientId}]
  /\ nextClientId' = nextClientId + 1
  /\ up' = UpAfter(socket, << [type |-> "requestFullSync",
                               clientId |-> nextClientId, market |-> m] >>)
  /\ UNCHANGED <<clientEnd, serverEnd, link, down>>
  /\ UNCHANGED <<transportVars, page, sessionVars, viewVars>>
  /\ UNCHANGED <<storage, rollingShown>>

Unmount(m) ==
  /\ m \in mounted
  /\ UnmountAll({m})
  /\ up' = UpAfter(socket, Removals({m}))
  /\ UNCHANGED <<clientEnd, serverEnd, link, down>>
  /\ UNCHANGED <<transportVars, pageVars, sessionVars, viewVars>>

-----------------------------------------------------------------------------
(* The socket.                                                             *)

\* connect(), by start() or by the timer of a reconnection.
Connect ==
  /\ connectDue
  /\ SocketsLeft
  /\ connectDue' = FALSE
  /\ \E s \in Sockets :
       /\ clientEnd[s] = "none"
       /\ \A t \in Sockets : clientEnd[t] = "none" => s <= t
       /\ socket' = s
       /\ clientEnd' = [clientEnd EXCEPT ![s] = "connecting"]
  /\ UNCHANGED <<serverEnd, link, up, down>>
  /\ UNCHANGED <<isReady, pongTimer>>
  /\ UNCHANGED <<pageVars, sessionVars, viewVars, controllerVars>>

\* socket = null, timers cleared, a connection to be tried after the delay.
Disconnected ==
  /\ socket' = NoSocket
  /\ isReady' = FALSE
  /\ pongTimer' = FALSE
  /\ connectDue' = TRUE

\* Faulty variant: the entities stay registered.
ClearAllButEntities ==
  /\ lastServerId' = 0
  /\ marketList' = 0
  /\ UNCHANGED entities

ClearSessionState ==
  /\ lastServerId' = 0
  /\ entities' = FALSE
  /\ marketList' = 0

\* AppBootstrap hides the pages, and their controllers lose their
\* subscribers.
HidePages ==
  /\ shown' = FALSE
  /\ UnmountAll(mounted)

\* 'close': the server's end is closed, the connection could not be made, or
\* it broke.  The controllers are told: the session state is cleared, a
\* synchronization under way is cancelled.
SocketCloses(s) ==
  /\ s = socket
  /\ clientEnd[s] \in {"connecting", "open"}
  /\ \/ serverEnd[s] \in {"closing", "gone"} /\ link[s] = "up"
     \/ "break" \in scenario.events /\ SocketsLeft /\ link[s] = "up"
  /\ CloseClientEnd(s)
  /\ Disconnected
  /\ ClearSessionState
  /\ sync' = NotRunning
  /\ HidePages
  /\ UNCHANGED <<serverEnd, link, up>>
  /\ UNCHANGED pageVars

\* reconnect(): the socket is given up and nobody is told.
Reconnect(s) ==
  /\ CloseClientEnd(s)
  /\ Disconnected

PongTimeout ==
  /\ pongTimer
  /\ socket \in Sockets
  /\ "pongTimeout" \in scenario.events \/ link[socket] = "dead"
  /\ SocketsLeft
  /\ Reconnect(socket)
  /\ UNCHANGED <<serverEnd, link, up>>
  /\ UNCHANGED <<pageVars, sessionVars, viewVars, controllerVars>>

\* The page starts anew: its code is loaded, its state is gone.
LoadPage(r) ==
  /\ Disconnected
  /\ page' = r
  /\ nextClientId' = 1
  /\ ClearSessionState
  /\ sync' = NotRunning
  /\ HidePages

CloseSocketIfAny ==
  IF socket \in Sockets THEN CloseClientEnd(socket)
                        ELSE UNCHANGED <<clientEnd, down>>

UserReloads(r) ==
  /\ "reload" \in scenario.events
  /\ SocketsLeft
  /\ CloseSocketIfAny
  /\ LoadPage(r)
  /\ UNCHANGED <<serverEnd, link, up>>

\* AppBootstrap is unmounted and mounted again: stop() closes the socket and
\* clears the session state without an event, start() connects.  A
\* synchronization under way goes on waiting.
Remount ==
  /\ "remount" \in scenario.events
  /\ SocketsLeft
  /\ socket \in Sockets
  /\ CloseClientEnd(socket)
  /\ Disconnected
  /\ ClearSessionState
  /\ HidePages
  /\ UNCHANGED <<serverEnd, link, up>>
  /\ UNCHANGED <<pageVars, sync>>

\* The interval of startPing: the next ping, once the last one is answered.
SendClientPing ==
  /\ "pings" \in scenario.events
  /\ isReady
  /\ ~ pongTimer
  /\ pongTimer' = TRUE
  /\ up' = UpAfter(socket, << Signal("clientPing") >>)
  /\ UNCHANGED <<clientEnd, serverEnd, link, down>>
  /\ UNCHANGED <<socket, isReady, connectDue>>
  /\ UNCHANGED <<pageVars, sessionVars, viewVars, controllerVars>>

-----------------------------------------------------------------------------
(* Messages of the server.                                                 *)

ClientReceives(s, type) ==
  /\ s = socket
  /\ clientEnd[s] = "open"
  /\ link[s] = "up"
  /\ down[s] # <<>>
  /\ Head(down[s]).type = type

TakeDown(s) == down' = [down EXCEPT ![s] = Tail(@)]

\* handleServerHello: the socket is ready, the pings start, and the
\* controllers are told, whereupon AppBootstrap hides the pages and starts a
\* synchronization, which aborts one that still runs.
HandleServerHello(s) ==
  /\ ClientReceives(s, "serverHello")
  /\ Head(down[s]).release = page
  /\ TakeDown(s)
  /\ ~ isReady
  /\ isReady' = TRUE
  /\ pongTimer' = TRUE
  /\ sync' = NewRun
  /\ HidePages
  /\ up' = UpAfter(s, << Signal("webSocketReady"), Signal("clientPing"),
                         Signal("requestSettings"), Signal("setMarketInfo"),
                         Signal("requestStorageEntities") >>
                      \o Removals(mounted))
  /\ UNCHANGED <<clientEnd, serverEnd, link>>
  /\ UNCHANGED <<socket, connectDue>>
  /\ UNCHANGED <<pageVars, sessionVars>>

\* The server runs another release: the page is loaded again.
HandleHelloOfNewRelease(s) ==
  /\ ClientReceives(s, "serverHello")
  /\ Head(down[s]).release # page
  /\ SocketsLeft
  /\ CloseClientEnd(s)
  /\ LoadPage(Head(down[s]).release)
  /\ UNCHANGED <<serverEnd, link, up>>

HandleServerPong(s) ==
  /\ ClientReceives(s, "serverPong")
  /\ TakeDown(s)
  /\ pongTimer' = FALSE
  /\ UNCHANGED <<clientEnd, serverEnd, link, up>>
  /\ UNCHANGED <<socket, isReady, connectDue>>
  /\ UNCHANGED <<pageVars, sessionVars, viewVars, controllerVars>>

HandleServerPing(s) ==
  /\ ClientReceives(s, "serverPing")
  /\ TakeDown(s)
  /\ up' = UpAfter(s, << Signal("clientPong") >>)
  /\ UNCHANGED <<clientEnd, serverEnd, link>>
  /\ UNCHANGED clientVars

\* An answer reaches the run that waits; the last one completes it, and the
\* pages are shown.
Answer(a, s) ==
  LET got == [sync.got EXCEPT ![a] = s]
  IN  CASE sync.state = "idle" -> UNCHANGED viewVars
        [] sync.state = "waiting" /\ \E b \in Answers : got[b] = NoSocket ->
             sync' = Waiting(got) /\ UNCHANGED shown
        [] OTHER -> sync' = NotRunning /\ shown' = TRUE

HandleSettingsLoaded(s) ==
  /\ ClientReceives(s, "settingsLoaded")
  /\ TakeDown(s)
  /\ Answer("settings", s)
  /\ UNCHANGED <<clientEnd, serverEnd, link, up>>
  /\ UNCHANGED <<transportVars, pageVars, sessionVars, controllerVars>>

HandleMarketsUpdated(s) ==
  /\ ClientReceives(s, "marketsUpdated")
  /\ TakeDown(s)
  /\ marketList' = Head(down[s]).markets
  /\ Answer("markets", s)
  /\ UNCHANGED <<clientEnd, serverEnd, link, up>>
  /\ UNCHANGED <<transportVars, pageVars, lastServerId, entities,
                 controllerVars>>

\* addStorageEntities throws when an entity is registered already: then
\* nobody hears of the answer.
Register(s) ==
  IF entities THEN UNCHANGED <<entities, viewVars>>
              ELSE entities' = TRUE /\ Answer("entities", s)

HandleStorageEntitiesLoaded(s) ==
  /\ ClientReceives(s, "storageEntitiesLoaded")
  /\ TakeDown(s)
  /\ Register(s)
  /\ UNCHANGED <<clientEnd, serverEnd, link, up>>
  /\ UNCHANGED <<transportVars, pageVars, lastServerId, marketList,
                 controllerVars>>

HandleMarketRollingUpdated(s) ==
  LET message == Head(down[s])
      m == message.market
  IN  /\ ClientReceives(s, "marketRollingUpdated")
      /\ TakeDown(s)
      /\ rollingShown' = [rollingShown EXCEPT
                            ![m] = IF message.clientId \in pending[m]
                                     THEN message.version ELSE @]
      /\ UNCHANGED <<clientEnd, serverEnd, link, up>>
      /\ UNCHANGED <<transportVars, pageVars, sessionVars, viewVars>>
      /\ UNCHANGED <<mounted, storage, pending>>

\* The packet is the one acceptServerId expects.
InStep(message) == message.serverId = lastServerId + 1

\* The controller of the message's market waits for packets with its id.
Expected(message) == message.clientId \in pending[message.market]

\* The delta can be applied: applyDelta throws when the storage is not the
\* one the delta starts from.
Continues(message) == message.version = storage[message.market] + 1

\* A packet out of step, or one whose processing throws, ends the session:
\* its state is cleared and reconnect() is called.
SessionFails(s) ==
  /\ ClearSessionState
  /\ Reconnect(s)
  /\ UNCHANGED <<nextClientId, controllerVars, up>>

\* A packet nobody waits for counts as received and changes nothing else.
PacketIgnored(s) ==
  /\ TakeDown(s)
  /\ lastServerId' = lastServerId + 1
  /\ UNCHANGED <<clientEnd, up, transportVars, nextClientId, entities,
                 marketList, controllerVars>>

\* handleSnapshot: the storage is built, and the rolling statistics of the
\* market are subscribed to.
ApplySnapshot(s, message) ==
  LET m == message.market
  IN  /\ TakeDown(s)
      /\ lastServerId' = lastServerId + 1
      /\ storage' = [storage EXCEPT ![m] = message.version]
      /\ pending' = [pending EXCEPT ![m] = @ \union {nextClientId}]
      /\ nextClientId' = nextClientId + 1
      /\ up' = UpAfter(s, << [type |-> "addRolling",
                              clientId |-> nextClientId, market |-> m] >>)
      /\ UNCHANGED <<clientEnd, transportVars, entities, marketList, mounted,
                     rollingShown>>

ApplyDelta(s, message) ==
  /\ TakeDown(s)
  /\ lastServerId' = lastServerId + 1
  /\ storage' = [storage EXCEPT ![message.market] = message.version]
  /\ UNCHANGED <<clientEnd, up, transportVars, nextClientId, entities,
                 marketList, mounted, pending, rollingShown>>

HandleSnapshot(s) ==
  LET message == Head(down[s])
  IN  /\ ClientReceives(s, "snapshot")
      /\ CASE ~ InStep(message) -> SessionFails(s)
           [] InStep(message) /\ ~ Expected(message) -> PacketIgnored(s)
           [] OTHER -> ApplySnapshot(s, message)
      /\ UNCHANGED <<serverEnd, link, page, viewVars>>

HandleDelta(s) ==
  LET message == Head(down[s])
      applicable == /\ Expected(message)
                    /\ storage[message.market] # NoStorage
  IN  /\ ClientReceives(s, "delta")
      /\ CASE ~ InStep(message) -> SessionFails(s)
           [] InStep(message) /\ ~ applicable -> PacketIgnored(s)
           [] InStep(message) /\ applicable /\ ~ Continues(message) ->
                SessionFails(s)
           [] OTHER -> ApplyDelta(s, message)
      /\ UNCHANGED <<serverEnd, link, page, viewVars>>

HandleServerMessage(s) ==
  \/ HandleServerHello(s)
  \/ HandleHelloOfNewRelease(s)
  \/ HandleServerPong(s)
  \/ HandleServerPing(s)
  \/ HandleSettingsLoaded(s)
  \/ HandleMarketsUpdated(s)
  \/ HandleStorageEntitiesLoaded(s)
  \/ HandleMarketRollingUpdated(s)
  \/ HandleSnapshot(s)
  \/ HandleDelta(s)

\* r is the release a page that is loaded now gets.
ClientNext(r) ==
  \/ Connect
  \/ \E s \in Sockets : SocketCloses(s) \/ HandleServerMessage(s)
  \/ PongTimeout
  \/ SendClientPing
  \/ UserReloads(r)
  \/ Remount
  \/ \E m \in Markets : Mount(m) \/ Unmount(m)
=============================================================================
