---------------------------- MODULE FrontendSession ----------------------------
(***************************************************************************)
(* A browser and the server together: sessions that follow one another     *)
(* over sockets that break, go silent or are given up, synchronizations    *)
(* that are cut short, and subscriptions whose full sync is answered late, *)
(* out of order or not at all.                                             *)
(***************************************************************************)
EXTENDS FrontendServer, FrontendClient

vars == <<networkVars, serverVars, clientVars, scenario>>

Init == InitNetwork /\ InitServer /\ InitPage

Network == \E s \in Sockets : LinkDies(s)

Next ==
  \/ ServerNext /\ UNCHANGED <<clientVars, scenario>>
  \/ ClientNext(release) /\ UNCHANGED <<serverVars, scenario>>
  \/ Network /\ UNCHANGED <<serverVars, clientVars, scenario>>

Spec == Init /\ [][Next]_vars

TypeOK == TypeOKNetwork /\ TypeOKServer /\ TypeOKClient

-----------------------------------------------------------------------------
(* Safety.                                                                 *)

\* A message that would be received now.
Arriving(type) ==
  \E s \in Sockets : ClientReceives(s, type)

\* The places of the binaries among some messages.
BinariesIn(messages) ==
  {i \in 1 .. Len(messages) : messages[i].type \in {"snapshot", "delta"}}

\* Server ids count per socket on the server and per session in the browser:
\* the next packet of the session is always the one the browser expects, and
\* the packets behind it follow without a gap (acceptServerId).
ServerIdsInStep ==
  socket \in Sockets =>
    LET messages == down[socket]
    IN  \A i \in BinariesIn(messages) :
          LET earlier == {j \in BinariesIn(messages) : j < i}
          IN  /\ earlier = {} => messages[i].serverId = lastServerId + 1
              /\ \A j \in earlier :
                   (\A k \in earlier : k <= j) =>
                     messages[i].serverId = messages[j].serverId + 1

\* Whatever the order in which full syncs of a market are answered and
\* controllers come and go, a delta that a controller accepts finds a storage,
\* and one it can be applied to: applyDelta never throws (handleDelta).
DeltasContinue ==
  \A s \in Sockets :
    ClientReceives(s, "delta") /\ InStep(Head(down[s]))
      /\ Expected(Head(down[s])) => Continues(Head(down[s]))

\* A synchronization is completed by three answers of one session, also when
\* the run before it was cut short with some of its answers in hand (run and
\* getPrimaryData).
AnswersOfOneSession ==
  isReady => \A a \in Answers : sync.got[a] \in {NoSocket, socket}

\* While pages are shown the entities are registered and the markets known,
\* which mapStorageEntities and getMarkets insist on; and controllers have
\* subscribers only then.
ShownIsSynchronized ==
  /\ shown => entities /\ marketList > 0 /\ sync.state = "idle"
  /\ mounted # {} => shown

\* What a user sees is what one session of the server gave.
ShownFromOneSession == TypeOK /\ AnswersOfOneSession /\ ShownIsSynchronized

\* A full sync that waits for its answer belongs to a socket that is still
\* listed, and every listed socket is one that has not been closed
\* (handleClientClose).
PendingOfConnected ==
  /\ \A e \in DOMAIN serverEvents : serverEvents[e].socket \in DOMAIN clients
  /\ \A s \in Sockets : s \in DOMAIN clients <=>
                          serverEnd[s] \in {"open", "closing"}

\* Neither end of a session keeps or expects what the other does not.
SessionsInStep == ServerIdsInStep /\ PendingOfConnected

\* Nothing of the server waits to be handled by anybody.
Quiet ==
  /\ isReady
  /\ serverEnd[socket] = "open" /\ link[socket] = "up"
  /\ up[socket] = <<>> /\ down[socket] = <<>>
  /\ requests = {} /\ loading = {}

\* When nothing is on its way, a storage that the server sends deltas for is
\* up to date, and so are the markets and, once subscribed to, the rolling
\* statistics.
QuietClientCurrent ==
  Quiet =>
    /\ marketList = markets
    /\ \A m \in mounted :
         /\ clients[socket].statistics[m] \in pending[m] =>
              storage[m] = version[m]
         /\ clients[socket].rolling[m] \in pending[m] =>
              rollingShown[m] = rolled[m]

-----------------------------------------------------------------------------
(* Liveness.                                                               *)

\* What the event loops of both ends and the network do sooner or later on a
\* connection that lives; nobody has to mount or unmount anything, no tick
\* has to come and nothing has to fail.
Progress ==
  /\ \A s \in Sockets :
       /\ WF_vars(Accept(s) /\ UNCHANGED <<clientVars, scenario>>)
       /\ WF_vars(ServerNoticesClose(s) /\ UNCHANGED <<clientVars, scenario>>)
       /\ WF_vars(ServerCloseEvent(s) /\ UNCHANGED <<clientVars, scenario>>)
       /\ WF_vars(HandleClientMessage(s) /\ UNCHANGED <<clientVars, scenario>>)
       /\ WF_vars(SettingsLoaded(s) /\ UNCHANGED <<clientVars, scenario>>)
       /\ WF_vars(HandleServerMessage(s) /\ UNCHANGED <<serverVars, scenario>>)
       /\ WF_vars(serverEnd[s] \in {"closing", "gone"}
                    /\ SocketCloses(s) /\ UNCHANGED <<serverVars, scenario>>)
  /\ WF_vars(Connect /\ UNCHANGED <<serverVars, scenario>>)
  /\ WF_vars((\E r \in requests : AnswerFullSync(r)) /\ UNCHANGED <<clientVars, scenario>>)

FairSpec == Spec /\ Progress

\* The timers of both ends fire.
Timers ==
  /\ WF_vars(ServerPing /\ UNCHANGED <<clientVars, scenario>>)
  /\ WF_vars(SendClientPing /\ UNCHANGED <<serverVars, scenario>>)
  /\ WF_vars(PongTimeout /\ UNCHANGED <<serverVars, scenario>>)

FairTimersSpec == FairSpec /\ Timers

\* Connections may break and the server may restart; as long as no connection
\* goes silent the pages are shown again in the end, for a synchronization
\* always runs to its end or is started again (AppBootstrap,
\* SynchronizationService).  A browser does not come back from a connection
\* that dies before the hello, whose timers do not run yet, nor from one given
\* up for a late pong, whose entities stay registered.
PagesShown == <>[]shown \/ <>(\E s \in Sockets : link[s] = "dead")

\* A mounted controller gets the storage of its market, unless it is
\* unmounted first (onFirstSubscriber, handleFullSyncRequest).
MountedGetsStorage ==
  \A m \in Markets :
    m \in mounted ~> m \notin mounted \/ storage[m] # NoStorage

\* A connection that carries nothing any more is forgotten by the server, and
\* given up by a browser that has had the server's hello (processServerPing,
\* sendClientPing).
DeadConnectionsForgotten ==
  \A s \in Sockets :
    /\ link[s] = "dead" ~> s \notin DOMAIN clients
    /\ link[s] = "dead" /\ isReady /\ socket = s ~> clientEnd[s] = "gone"

\* addStorageEntities of GlobalStateService throws when an entity is already
\* registered: the answer of a session never finds the entities of another.
EntitiesNotRegisteredTwice == ~ (Arriving("storageEntitiesLoaded") /\ entities)
=============================================================================
