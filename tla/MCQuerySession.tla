--------------------------- MODULE MCQuerySession --------------------------
(***************************************************************************)
(* Instances of QuerySession for TLC.                                      *)
(***************************************************************************)
EXTENDS QuerySession

MCChallenges == {1, 2}
MCPorts == {1, 2}
=============================================================================
