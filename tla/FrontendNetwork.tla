---------------------------- MODULE FrontendNetwork ----------------------------
(***************************************************************************)
(* The WebSocket connections between a browser and the server, and the     *)
(* messages of src/app/src/shared/types/frontend-ws.ts on them.  A browser *)
(* opens one socket after the other; each end has its own view of a        *)
(* socket, and each direction keeps the order of its messages.             *)
(*                                                                         *)
(* Messages keep what the properties tell apart: entities, settings and    *)
(* storage contents are versions or nothing, and only the client ids that  *)
(* the server sends back in the packets of a subscription are kept.        *)
(***************************************************************************)
EXTENDS Naturals, Sequences, FiniteSets

CONSTANTS
  Markets,      \* names of markets
  MaxSockets,   \* bound on the sockets a browser opens one after the other
  MaxClientId,  \* bound on the client ids of subscriptions
  MaxVersion,   \* bound on the ticks of a market
  MaxMarkets,   \* bound on the updates of the market list
  Scenarios     \* what may happen around the program, each with its bounds

ASSUME NetworkAssumption ==
  /\ MaxSockets \in Nat \ {0}
  /\ MaxClientId \in Nat
  /\ MaxVersion \in Nat
  /\ MaxMarkets \in Nat \ {0}
  /\ \A c \in Scenarios :
       /\ c.events \subseteq {"break", "die", "pongTimeout", "pings", "silence",
                              "expire", "reload", "remount", "restart",
                              "newVersion", "markets", "rolling"}
       /\ c.traded \subseteq Markets
       /\ c.sockets \in 1 .. MaxSockets
       /\ c.clientIds \in 0 .. MaxClientId
       /\ c.versions \in 0 .. MaxVersion

ASSUME MarketsFinite == IsFiniteSet(Markets)

VARIABLES
  clientEnd,    \* the browser's end of each socket
  serverEnd,    \* the server's end of each socket
  link,         \* whether anything gets through between the two ends
  up,           \* messages on their way to the server
  down,         \* messages on their way to the browser
  scenario      \* bound: the scenario of a behaviour

networkVars == <<clientEnd, serverEnd, link, up, down>>

Sockets == 1 .. MaxSockets
NoSocket == 0
ClientIds == Nat \ {0}
NoId == 0

-----------------------------------------------------------------------------
(* Messages.                                                               *)

\* Messages that consist of their type.
Signal(type) == [type |-> type]

ClientSignals == {"webSocketReady", "clientPing", "clientPong",
                  "requestSettings", "setMarketInfo", "requestStorageEntities"}

ClientMessage ==
  [type : ClientSignals]
    \union [type : {"requestFullSync", "addRolling"}, clientId : ClientIds,
            market : Markets]
    \union [type : {"removeRolling", "removeStatistics"}, market : Markets]

ServerMessage ==
  [type : {"serverPong", "serverPing", "settingsLoaded",
           "storageEntitiesLoaded"}]
    \union [type : {"serverHello"}, release : 1 .. 2]
    \union [type : {"marketsUpdated"}, markets : 1 .. MaxMarkets]
    \union [type : {"marketRollingUpdated"}, clientId : ClientIds,
            market : Markets, version : 0 .. MaxVersion]

\* A packet of frontend-ws-v1_0: the header with the two ids, and what its
\* binary says of the storage after it is applied.
Packet(kind, serverId, clientId, m, version) ==
  [type |-> kind, serverId |-> serverId, clientId |-> clientId,
   market |-> m, version |-> version]

BinaryMessage ==
  [type : {"snapshot", "delta"}, serverId : Nat, clientId : ClientIds,
   market : Markets, version : 0 .. MaxVersion]

TypeOKNetwork ==
  /\ scenario \in Scenarios
  /\ clientEnd \in [Sockets -> {"none", "connecting", "open", "gone"}]
  /\ serverEnd \in [Sockets -> {"none", "open", "closing", "gone"}]
  /\ link \in [Sockets -> {"up", "dead"}]
  /\ up \in [Sockets -> Seq(ClientMessage)]
  /\ down \in [Sockets -> Seq(ServerMessage \union BinaryMessage)]

InitNetwork ==
  /\ scenario \in Scenarios
  /\ clientEnd = [s \in Sockets |-> "none"]
  /\ serverEnd = [s \in Sockets |-> "none"]
  /\ link = [s \in Sockets |-> "up"]
  /\ up = [s \in Sockets |-> <<>>]
  /\ down = [s \in Sockets |-> <<>>]

-----------------------------------------------------------------------------
(* Sending and receiving.                                                  *)

\* sendJson of the browser: only a socket that is open carries anything.
\* What reaches a server's end that is gone is lost.
UpAfter(s, messages) ==
  IF s # NoSocket /\ s \in Sockets
    THEN IF clientEnd[s] = "open" /\ serverEnd[s] = "open"
           THEN [up EXCEPT ![s] = @ \o messages]
           ELSE up
    ELSE up

\* sendJson and sendBinary of the server.
Carries(s) == serverEnd[s] = "open" /\ clientEnd[s] = "open"

DownAfter(s, messages) ==
  IF Carries(s) THEN [down EXCEPT ![s] = @ \o messages] ELSE down

\* Several sockets at once: messages[s] is what socket s is sent.
DownAfterAll(messages) ==
  [s \in Sockets |-> IF s \in DOMAIN messages /\ Carries(s)
                       THEN down[s] \o messages[s]
                       ELSE down[s]]

ServerReceives(s, type) ==
  /\ serverEnd[s] = "open"
  /\ link[s] = "up"
  /\ up[s] # <<>>
  /\ Head(up[s]).type = type

\* The browser's end closes: what was on its way to it is dropped.
CloseClientEnd(s) ==
  /\ clientEnd' = [clientEnd EXCEPT ![s] = "gone"]
  /\ down' = [down EXCEPT ![s] = <<>>]

\* Bound: a session is interrupted only while another one can follow.
SocketsLeft == \E s \in 1 .. scenario.sockets : clientEnd[s] = "none"

\* The connection stops carrying anything, and neither end is told.
LinkDies(s) ==
  /\ "die" \in scenario.events
  /\ SocketsLeft
  /\ clientEnd[s] = "open"
  /\ link[s] = "up"
  /\ link' = [link EXCEPT ![s] = "dead"]
  /\ UNCHANGED <<clientEnd, serverEnd, up, down>>
=============================================================================
