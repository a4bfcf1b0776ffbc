---------------------------- MODULE FrontendServer ----------------------------
(***************************************************************************)
(* The server's end of the browser connections: AppWsServer of             *)
(* src/app/src/server/frontend/ws-server.ts (sockets, pings, the time of   *)
(* the last pong) and FrontendWsService of                                 *)
(* src/app/src/server/services/frontend-ws.ts (what each socket has        *)
(* subscribed to, and the full syncs asked of the storage service that are *)
(* not answered yet).                                                      *)
(*                                                                         *)
(* Around it: the storage service answers requests one by one and in any   *)
(* order, as each polls for the ice of its market to melt, and emits the   *)
(* delta of every tick; the rolling statistics and the market list change. *)
(* A storage is the number of ticks it holds.                              *)
(***************************************************************************)
EXTENDS FrontendNetwork

CONSTANT MaxSilent   \* server pings without a pong before a socket is cut

ASSUME SilentAssumption == MaxSilent \in Nat

VARIABLES
  clients,       \* FrontendWsService.clients: the state of each socket
  serverEvents,  \* full syncs not answered, by event id
  nextEventId,   \* serverEventId
  silent,        \* pings since the last pong, per socket of AppWsServer.clients
  requests,      \* what the storage service has been asked and not answered
  loading,       \* sockets whose settings are being read from the database
  version,       \* ticks in the storage of each market
  rolled,        \* versions of each market's rolling statistics
  markets,       \* version of the market list
  release        \* CLIENT_VERSION of the server that runs

serverVars == <<clients, serverEvents, nextEventId, silent, requests, loading,
                version, rolled, markets, release>>
serviceVars == <<requests, loading, version, rolled, markets, release>>

NoSubscriptions == [m \in Markets |-> NoId]

NewClient == [isReady |-> FALSE, nextServerId |-> 1, marketInfo |-> FALSE,
              statistics |-> NoSubscriptions, rolling |-> NoSubscriptions]

IsClient(c) ==
  c \in [isReady : BOOLEAN, nextServerId : Nat, marketInfo : BOOLEAN,
         statistics : [Markets -> ClientIds \union {NoId}],
         rolling : [Markets -> ClientIds \union {NoId}]]

TypeOKServer ==
  /\ DOMAIN clients \subseteq Sockets
  /\ \A s \in DOMAIN clients : IsClient(clients[s])
  /\ DOMAIN serverEvents \subseteq 0 .. nextEventId
  /\ \A e \in DOMAIN serverEvents :
       serverEvents[e] \in [socket : Sockets, clientId : ClientIds,
                            valid : BOOLEAN]
  /\ silent \in [Sockets -> 0 .. MaxSilent + 1]
  /\ nextEventId \in Nat
  /\ requests \subseteq [eventId : 0 .. nextEventId, market : Markets]
  /\ loading \subseteq Sockets
  /\ version \in [Markets -> 0 .. MaxVersion]
  /\ rolled \in [Markets -> 0 .. MaxVersion]
  /\ markets \in 1 .. MaxMarkets
  /\ release \in 1 .. 2

InitServer ==
  /\ clients = << >>
  /\ serverEvents = << >>
  /\ nextEventId = 0
  /\ silent = [s \in Sockets |-> 0]
  /\ requests = {}
  /\ loading = {}
  /\ version = [m \in Markets |-> 0]
  /\ rolled = [m \in Markets |-> 0]
  /\ markets = 1
  /\ release = 1

\* A Map without some of its keys, and with a value set.
Without(map, keys) == [k \in DOMAIN map \ keys |-> map[k]]
With(map, key, value) ==
  [k \in DOMAIN map \union {key} |-> IF k = key THEN value ELSE map[k]]

Connected(s) == s \in DOMAIN clients
Ready(s) == Connected(s) /\ clients[s].isReady

-----------------------------------------------------------------------------
(* Connections.                                                            *)

\* 'connection': the socket is registered and greeted.
Accept(s) ==
  /\ clientEnd[s] = "connecting"
  /\ serverEnd[s] = "none"
  /\ clientEnd' = [clientEnd EXCEPT ![s] = "open"]
  /\ serverEnd' = [serverEnd EXCEPT ![s] = "open"]
  /\ clients' = With(clients, s, NewClient)
  /\ silent' = [silent EXCEPT ![s] = 0]
  /\ down' = [down EXCEPT
                ![s] = << [type |-> "serverHello", release |-> release] >>]
  /\ UNCHANGED <<link, up, serverEvents, nextEventId>>
  /\ UNCHANGED serviceVars

\* The server's end learns that the browser's is gone, or the connection
\* breaks under it.
ServerNoticesClose(s) ==
  /\ serverEnd[s] = "open"
  /\ clientEnd[s] = "gone"
  /\ link[s] = "up"
  /\ serverEnd' = [serverEnd EXCEPT ![s] = "closing"]
  /\ up' = [up EXCEPT ![s] = <<>>]
  /\ UNCHANGED <<clientEnd, link, down>>
  /\ UNCHANGED serverVars

\* The full syncs that wait for an answer to a socket.
EventsOf(s) == {e \in DOMAIN serverEvents : serverEvents[e].socket = s}

\* 'close': handleClientClose forgets the pending events of the socket and
\* its state, AppWsServer the socket itself.
ServerCloseEvent(s) ==
  /\ serverEnd[s] = "closing"
  /\ serverEnd' = [serverEnd EXCEPT ![s] = "gone"]
  /\ serverEvents' = Without(serverEvents, EventsOf(s))
  /\ clients' = Without(clients, {s})
  /\ silent' = [silent EXCEPT ![s] = 0]
  /\ UNCHANGED <<clientEnd, link, up, down, nextEventId>>
  /\ UNCHANGED serviceVars

\* No pong has come for too long.
Late(s) == silent[s] > MaxSilent

\* Faulty variant: the silence is measured from the last ping.
SilentSincePing(s) == 0

\* Another ping goes out without a pong to the last one.
SilentLonger(s) == silent[s] + 1

\* processServerPing.  A ping that waits in the connection stands for those
\* that follow it.
ServerPing ==
  LET listed == {s \in DOMAIN clients : serverEnd[s] = "open"}
      late == {s \in listed : Late(s)}
      pinged == {s \in listed \ late :
                   \A i \in 1 .. Len(down[s]) : down[s][i].type # "serverPing"}
  IN  /\ "silence" \in scenario.events
      /\ listed # {}
      /\ (\E s \in late : clientEnd[s] = "open" /\ link[s] = "up")
           => SocketsLeft
      /\ serverEnd' = [s \in Sockets |->
                         IF s \in late THEN "closing" ELSE serverEnd[s]]
      /\ up' = [s \in Sockets |-> IF s \in late THEN <<>> ELSE up[s]]
      /\ silent' = [s \in Sockets |->
                      IF s \in listed \ late THEN SilentLonger(s) ELSE silent[s]]
      /\ down' = DownAfterAll([s \in pinged |-> << Signal("serverPing") >>])
      /\ UNCHANGED <<clientEnd, link, clients, serverEvents, nextEventId>>
      /\ UNCHANGED serviceVars

-----------------------------------------------------------------------------
(* Messages of the browser.                                                *)

Take(s) == up' = [up EXCEPT ![s] = Tail(@)]

HandleClientPing(s) ==
  /\ ServerReceives(s, "clientPing")
  /\ Take(s)
  /\ down' = DownAfter(s, << Signal("serverPong") >>)
  /\ UNCHANGED <<clientEnd, serverEnd, link>>
  /\ UNCHANGED serverVars

HandleClientPong(s) ==
  /\ ServerReceives(s, "clientPong")
  /\ Take(s)
  /\ silent' = [silent EXCEPT ![s] = 0]
  /\ UNCHANGED <<clientEnd, serverEnd, link, down>>
  /\ UNCHANGED <<clients, serverEvents, nextEventId>>
  /\ UNCHANGED serviceVars

HandleWebSocketReady(s) ==
  /\ ServerReceives(s, "webSocketReady")
  /\ Take(s)
  /\ clients' = [clients EXCEPT ![s].isReady = TRUE]
  /\ UNCHANGED <<clientEnd, serverEnd, link, down>>
  /\ UNCHANGED <<serverEvents, nextEventId, silent>>
  /\ UNCHANGED serviceVars

\* The settings are read from the database; SettingsLoaded is what follows.
HandleRequestSettings(s) ==
  /\ ServerReceives(s, "requestSettings")
  /\ Take(s)
  /\ loading' = loading \union {s}
  /\ UNCHANGED <<clientEnd, serverEnd, link, down>>
  /\ UNCHANGED <<clients, serverEvents, nextEventId, silent, requests, version,
                 rolled, markets, release>>

SettingsLoaded(s) ==
  /\ s \in loading
  /\ loading' = loading \ {s}
  /\ down' = DownAfter(s, << Signal("settingsLoaded") >>)
  /\ UNCHANGED <<clientEnd, serverEnd, link, up>>
  /\ UNCHANGED <<clients, serverEvents, nextEventId, silent, requests, version,
                 rolled, markets, release>>

HandleRequestStorageEntities(s) ==
  /\ ServerReceives(s, "requestStorageEntities")
  /\ Take(s)
  /\ down' = IF Ready(s)
               THEN DownAfter(s, << Signal("storageEntitiesLoaded") >>)
               ELSE down
  /\ UNCHANGED <<clientEnd, serverEnd, link>>
  /\ UNCHANGED serverVars

MarketsUpdated(v) == [type |-> "marketsUpdated", markets |-> v]

\* handleSetSubscription: it does not ask whether the socket is ready.
HandleSetMarketInfo(s) ==
  /\ ServerReceives(s, "setMarketInfo")
  /\ Take(s)
  /\ clients' = [clients EXCEPT ![s].marketInfo = TRUE]
  /\ down' = DownAfter(s, << MarketsUpdated(markets) >>)
  /\ UNCHANGED <<clientEnd, serverEnd, link>>
  /\ UNCHANGED <<serverEvents, nextEventId, silent>>
  /\ UNCHANGED serviceVars

PendingEvent(s, id) == [socket |-> s, clientId |-> id, valid |-> TRUE]

\* Faulty variant: one pending request of a market is thought to be enough.
AcceptedOnce(s, message) ==
  Ready(s) /\ \A r \in requests : r.market # message.market

\* Whether a request for a full sync is passed on.
Accepted(s, message) == Ready(s)

\* Faulty variant: the subscription starts with the request.
SubscribedByRequest(s, message) ==
  [clients EXCEPT ![s].statistics[message.market] = message.clientId]

\* A request leaves the subscriptions alone: its answer starts one.
AfterRequest(s, message) == clients

\* handleStorageFullSyncRequest and sendServerEvent: the request goes to the
\* storage service, which comes back to it in its own time.
HandleRequestFullSync(s) ==
  LET message == Head(up[s])
  IN  /\ ServerReceives(s, "requestFullSync")
      /\ Take(s)
      /\ clients' = AfterRequest(s, message)
      /\ IF Accepted(s, message)
           THEN /\ serverEvents' =
                     With(serverEvents, nextEventId,
                          PendingEvent(s, message.clientId))
                /\ nextEventId' = nextEventId + 1
                /\ requests' = requests
                     \union {[eventId |-> nextEventId,
                              market |-> message.market]}
           ELSE UNCHANGED <<serverEvents, nextEventId, requests>>
      /\ UNCHANGED <<clientEnd, serverEnd, link, down>>
      /\ UNCHANGED <<silent, loading, version, rolled, markets, release>>

\* handleChangeSubscription, market statistics: only removals are allowed.
HandleRemoveStatistics(s) ==
  /\ ServerReceives(s, "removeStatistics")
  /\ Take(s)
  /\ clients' = [clients EXCEPT ![s].statistics[Head(up[s]).market] = NoId]
  /\ UNCHANGED <<clientEnd, serverEnd, link, down>>
  /\ UNCHANGED <<serverEvents, nextEventId, silent>>
  /\ UNCHANGED serviceVars

RollingMessage(id, m, v) == [type |-> "marketRollingUpdated", clientId |-> id,
                             market |-> m, version |-> v]

\* sendRollingSnapshot: what is known of a market.
RollingSnapshot(id, m) ==
  IF rolled[m] > 0 THEN << RollingMessage(id, m, rolled[m]) >> ELSE <<>>

\* handleMarketRollingSubscriptionChanged, add: what is known is sent at once.
HandleAddRolling(s) ==
  LET message == Head(up[s])
      m == message.market
  IN  /\ ServerReceives(s, "addRolling")
      /\ Take(s)
      /\ clients' = [clients EXCEPT ![s].rolling[m] = message.clientId]
      /\ down' = DownAfter(s, RollingSnapshot(message.clientId, m))
      /\ UNCHANGED <<clientEnd, serverEnd, link>>
      /\ UNCHANGED <<serverEvents, nextEventId, silent>>
      /\ UNCHANGED serviceVars

HandleRemoveRolling(s) ==
  /\ ServerReceives(s, "removeRolling")
  /\ Take(s)
  /\ clients' = [clients EXCEPT ![s].rolling[Head(up[s]).market] = NoId]
  /\ UNCHANGED <<clientEnd, serverEnd, link, down>>
  /\ UNCHANGED <<serverEvents, nextEventId, silent>>
  /\ UNCHANGED serviceVars

HandleClientMessage(s) ==
  \/ HandleClientPing(s)
  \/ HandleClientPong(s)
  \/ HandleWebSocketReady(s)
  \/ HandleRequestSettings(s)
  \/ HandleRequestStorageEntities(s)
  \/ HandleSetMarketInfo(s)
  \/ HandleRequestFullSync(s)
  \/ HandleRemoveStatistics(s)
  \/ HandleAddRolling(s)
  \/ HandleRemoveRolling(s)

-----------------------------------------------------------------------------
(* Events of the other services.                                           *)

\* Faulty variant: a snapshot does not count among the packets.
AnsweredUncounted(client, m, id) == [client EXCEPT !.statistics[m] = id]

\* What an answer to a full sync leaves of the state of its socket.
Answered(client, m, id) ==
  [client EXCEPT !.nextServerId = @ + 1, !.statistics[m] = id]

\* handleStorageFullSyncResults: the snapshot, between two ticks, for a
\* request that is still valid and a socket that is still there; from now on
\* the socket gets the market's deltas.
AnswerFullSync(r) ==
  LET e == r.eventId
      m == r.market
      event == serverEvents[e]
      s == event.socket
  IN  /\ r \in requests
      /\ requests' = requests \ {r}
      /\ IF e \in DOMAIN serverEvents
           THEN /\ serverEvents' = Without(serverEvents, {e})
                /\ IF event.valid /\ Ready(s)
                     THEN /\ down' = DownAfter(s,
                                       << Packet("snapshot",
                                                 clients[s].nextServerId,
                                                 event.clientId, m,
                                                 version[m]) >>)
                          /\ clients' = [clients EXCEPT
                               ![s] = Answered(@, m, event.clientId)]
                     ELSE UNCHANGED <<down, clients>>
           ELSE UNCHANGED <<serverEvents, down, clients>>
      /\ UNCHANGED <<clientEnd, serverEnd, link, up>>
      /\ UNCHANGED <<nextEventId, silent, loading, version, rolled, markets,
                     release>>

\* SERVER_EVENT_EXPIRATION has passed since the request.
Expire(e) ==
  /\ "expire" \in scenario.events
  /\ e \in DOMAIN serverEvents
  /\ serverEvents[e].valid
  /\ serverEvents' = [serverEvents EXCEPT ![e].valid = FALSE]
  /\ UNCHANGED networkVars
  /\ UNCHANGED <<clients, nextEventId, silent>>
  /\ UNCHANGED serviceVars

ClearExpiredServerEvents ==
  LET expired == {e \in DOMAIN serverEvents : ~ serverEvents[e].valid}
  IN  /\ expired # {}
      /\ serverEvents' = Without(serverEvents, expired)
      /\ UNCHANGED networkVars
      /\ UNCHANGED <<clients, nextEventId, silent>>
      /\ UNCHANGED serviceVars

\* Faulty variant: the loop ends at the first socket that is not ready.
SubscribersBeforeUnready(m) ==
  {s \in DOMAIN clients :
     /\ clients[s].statistics[m] # NoId
     /\ \A t \in DOMAIN clients : t <= s => clients[t].isReady}

\* The sockets that get the deltas of a market.
Subscribers(m) ==
  {s \in DOMAIN clients :
     clients[s].isReady /\ clients[s].statistics[m] # NoId}

\* A tick, and handleStorageDeltaCreated: its delta to every socket that is
\* subscribed, each with that socket's next server id.
Tick(m) ==
  LET subscribed == Subscribers(m)
  IN  /\ m \in scenario.traded
      /\ version[m] < scenario.versions
      /\ version' = [version EXCEPT ![m] = @ + 1]
      /\ down' = DownAfterAll([s \in subscribed |->
                    << Packet("delta", clients[s].nextServerId,
                              clients[s].statistics[m], m, version[m] + 1) >>])
      /\ clients' = [s \in DOMAIN clients |->
                       IF s \in subscribed
                         THEN [clients[s] EXCEPT !.nextServerId = @ + 1]
                         ELSE clients[s]]
      /\ UNCHANGED <<clientEnd, serverEnd, link, up>>
      /\ UNCHANGED <<serverEvents, nextEventId, silent, requests, loading,
                     rolled, markets, release>>

\* New rolling statistics of a market, and handleMarketRollingUpdated.
PublishRolling(m) ==
  LET subscribed == {s \in DOMAIN clients :
                       clients[s].isReady /\ clients[s].rolling[m] # NoId}
  IN  /\ "rolling" \in scenario.events
      /\ m \in scenario.traded
      /\ rolled[m] < scenario.versions
      /\ rolled' = [rolled EXCEPT ![m] = @ + 1]
      /\ down' = DownAfterAll([s \in subscribed |->
                    << RollingMessage(clients[s].rolling[m], m,
                                      rolled[m] + 1) >>])
      /\ UNCHANGED <<clientEnd, serverEnd, link, up>>
      /\ UNCHANGED <<clients, serverEvents, nextEventId, silent, requests,
                     loading, version, markets, release>>

\* broadcastMarketsUpdated.
BroadcastMarkets ==
  LET subscribed == {s \in DOMAIN clients :
                       clients[s].isReady /\ clients[s].marketInfo}
  IN  /\ "markets" \in scenario.events
      /\ markets < MaxMarkets
      /\ markets' = markets + 1
      /\ down' = DownAfterAll([s \in subscribed |->
                                 << MarketsUpdated(markets + 1) >>])
      /\ UNCHANGED <<clientEnd, serverEnd, link, up>>
      /\ UNCHANGED <<clients, serverEvents, nextEventId, silent, requests,
                     loading, version, rolled, release>>

\* The server process ends and starts again, perhaps in a new release: it
\* knows no sockets, no events and no requests.  Storages, rolling statistics
\* and markets come back from the database.
ServerRestarts ==
  /\ "restart" \in scenario.events
  /\ SocketsLeft
  /\ \E s \in Sockets : serverEnd[s] \in {"open", "closing"}
  /\ serverEnd' = [s \in Sockets |->
                     IF serverEnd[s] = "none" THEN "none" ELSE "gone"]
  /\ up' = [s \in Sockets |-> <<>>]
  /\ clients' = << >>
  /\ serverEvents' = << >>
  /\ nextEventId' = 0
  /\ silent' = [s \in Sockets |-> 0]
  /\ requests' = {}
  /\ loading' = {}
  /\ release' \in IF "newVersion" \in scenario.events THEN {release, 2} ELSE {release}
  /\ UNCHANGED <<clientEnd, link, down, version, rolled, markets>>

ServerNext ==
  \/ \E s \in Sockets :
       \/ Accept(s)
       \/ ServerNoticesClose(s)
       \/ ServerCloseEvent(s)
       \/ HandleClientMessage(s)
       \/ SettingsLoaded(s)
  \/ \E r \in requests : AnswerFullSync(r)
  \/ \E e \in DOMAIN serverEvents : Expire(e)
  \/ ClearExpiredServerEvents
  \/ \E m \in Markets : Tick(m) \/ PublishRolling(m)
  \/ BroadcastMarkets
  \/ ServerPing
  \/ ServerRestarts
=============================================================================
