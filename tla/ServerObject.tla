---------------------------- MODULE ServerObject ----------------------------
(***************************************************************************)
(* A server object from the text the user gave to the address its queries  *)
(* go to: ServerLookup makes it, then several callers share it, and each   *)
(* query resolves the object's Address (AddressResolution) before it opens *)
(* a socket to the answer and the query port.                              *)
(***************************************************************************)
EXTENDS ServerLookup

CONSTANTS Tasks, IPs, AnswersOf, None, MaxLookups

ASSUME NoneAssumption == {None, "failed", "cancelled"} \cap IPs = {}
ASSUME BoundAssumption == MaxLookups \in Nat
ASSUME AnswersAssumption == AnswersOf \in [Hosts -> SUBSET IPs]

VARIABLES variant, pc, cached, ip, result, lookups, target

resolution == <<variant, pc, cached, ip, result, lookups>>
allVars == <<vars, resolution, target>>

\* The Address of the object: its host is the one the lookup ended with.
A == INSTANCE AddressResolution WITH host <- addr.host

NoTarget == [ip |-> None, port |-> NoPort]

\* The object is made by one of the two implementations, and asked by the same.
ObjectInit ==
    /\ Init /\ A!Init
    /\ rust <=> variant = "rust"
    /\ target = [t \in Tasks |-> NoTarget]

\* The constructor or the lookup.
Make == Lookup /\ UNCHANGED <<resolution, target>>

\* A caller of the finished object is in resolve_ip or async_resolve_ip.
Resolve == phase = "ready" /\ UNCHANGED <<vars, target>> /\ A!Next

\* query: the socket is opened to the address that was resolved and to the
\* query port.
Query(t) ==
    /\ phase = "ready"
    /\ pc[t] = "idle" /\ result[t] \in IPs
    /\ target' = [target EXCEPT ![t] = [ip |-> result[t], port |-> server.query_port]]
    /\ UNCHANGED <<vars, resolution>>

Raised == phase = "raised" /\ UNCHANGED allVars

ObjectNext == Make \/ Resolve \/ (\E t \in Tasks : Query(t)) \/ Raised

ObjectSpec == ObjectInit /\ [][ObjectNext]_allVars

-----------------------------------------------------------------------------

\* Once the overlapping calls are over, what the cache holds stays.
QuietIsForever == A!QuietIsForever

\* What was asked for: of several SRV records the first, host and port.
Wanted == IF dns = "found" THEN records[1] ELSE WithDefault(given)

\* From the user's text to the datagram: the object contacts the host and port
\* of the first record, or else those that were given, and queries go to an
\* address the DNS has for that very host; a record decides only where no port
\* was given.
TargetIsGiven ==
    /\ dns = "found" => given.port = NoPort
    /\ phase = "ready" => server.port = Wanted.port
    /\ \A t \in Tasks : target[t] # NoTarget => target[t].ip \in AnswersOf[Wanted.host]
=============================================================================
