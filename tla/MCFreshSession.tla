--------------------------- MODULE MCFreshSession --------------------------
(***************************************************************************)
(* Instances of FreshSession for TLC: three ports, so that a new socket    *)
(* has a choice while two are open.                                        *)
(***************************************************************************)
EXTENDS FreshSession

MCPorts == {1, 2, 3}
=============================================================================
