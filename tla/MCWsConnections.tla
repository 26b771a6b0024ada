-------------------------- MODULE MCWsConnections --------------------------
(* Instances of WsConnections for TLC.                                     *)
EXTENDS WsConnections

CONSTANTS c1, c2, c3

Three == {c1, c2, c3}
Two   == {c1, c2}
=============================================================================
