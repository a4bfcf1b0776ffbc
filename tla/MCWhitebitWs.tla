------------------------------ MODULE MCWhitebitWs ------------------------------
(***************************************************************************)
(* Instances of WhitebitWs for TLC.                                        *)
(***************************************************************************)
EXTENDS WhitebitWs

\* Everything that can go wrong with a connection or a request.
FaultyEvents == {"close", "fail", "refuse", "lose", "late", "stop"}
=============================================================================
