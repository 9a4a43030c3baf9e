------------------------------- MODULE MCRace -------------------------------
(***************************************************************************)
(* Instance of Race for TLC: three tries for each of the two tasks, and    *)
(* two exceptions that can be told apart.                                  *)
(***************************************************************************)
EXTENDS Race

MCErrors == {"timeout", "closed"}
=============================================================================
