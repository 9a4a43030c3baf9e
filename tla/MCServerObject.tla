--------------------------- MODULE MCServerObject ---------------------------
(***************************************************************************)
(* Instance of ServerObject for TLC: two hosts of which one has two        *)
(* addresses, a valid port besides the default, the port 0 and one that is *)
(* out of range; two callers and three queries, so that the answers of     *)
(* overlapping calls differ and a third call comes after both.             *)
(***************************************************************************)
EXTENDS ServerObject

MCHosts == {"a", "b"}
MCPorts == {0, 4, 16}
MCNoPort == -1
MCIPs == {"ip1", "ip2", "ip3"}
MCAnswersOf == [h \in MCHosts |-> IF h = "a" THEN {"ip1", "ip2"} ELSE {"ip3"}]
=============================================================================
