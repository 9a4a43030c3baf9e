-------------------------------- MODULE MCCli ------------------------------
(***************************************************************************)
(* Instance of Cli for TLC: the four exceptions main() names and three     *)
(* that it does not (an OSError of a rejected packet, a DNS timeout, a     *)
(* KeyError over the data of a response).                                  *)
(***************************************************************************)
EXTENDS Cli

MCExpected == {"gaierror", "NoNameservers", "ConnectionError", "TimeoutError"}
MCUnexpected == {"OSError", "dns.exception.Timeout", "KeyError"}
=============================================================================
