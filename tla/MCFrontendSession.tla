--------------------------- MODULE MCFrontendSession ---------------------------
(***************************************************************************)
(* Scenarios of FrontendSession for TLC.                                   *)
(***************************************************************************)
EXTENDS FrontendSession

CONSTANTS m1, m2

Scenario(events, traded, sockets, clientIds, versions) ==
  [ events |-> events, traded |-> traded, sockets |-> sockets,
    clientIds |-> clientIds, versions |-> versions ]

SafetyScenarios ==
  { \* A network that breaks, and answers that come too late.
    Scenario({"break", "expire"}, {m1}, 2, 3, 2),
    \* A browser that gives up on the server.
    Scenario({"pings", "pongTimeout"}, {m1}, 2, 3, 1),
    \* Pages that are mounted anew, or loaded again by the user or for a new
    \* release.
    Scenario({"reload", "remount", "restart", "newVersion"}, {m1}, 3, 2, 1),
    \* Market lists and rolling statistics that change in one session.
    Scenario({"markets", "rolling", "expire"}, {m1, m2}, 1, 4, 1) }

LiveScenarios ==
  { \* Sessions that end in ways the browser is told of.
    Scenario({"break", "restart"}, {m1}, 2, 3, 1),
    \* Connections that go silent until one of the ends gives up.
    Scenario({"pings", "silence", "die"}, {}, 2, 0, 0) }

\* A browser that gives up on the server, without any subscription.
StaleScenarios == { Scenario({"pings", "pongTimeout"}, {}, 2, 0, 0) }
=============================================================================
