---------------------------- MODULE ServerLookup ----------------------------
(***************************************************************************)
(* From what the user gives to the ports a server object will contact:     *)
(* the constructors and lookups of server.py with _net/address.py and      *)
(* _net/dns.py, and their Rust twins in server.rs and dns.rs.  A Java      *)
(* address without a port is looked up as an SRV record; a host without a  *)
(* record gets the default port.  The DNS is external: it answers with     *)
(* records or fails.                                                       *)
(***************************************************************************)
EXTENDS Integers, Sequences

CONSTANTS
    Hosts,        \* host names
    Ports,        \* port numbers a user may give, the wrong ones included
    NoPort,       \* no port given
    DefaultPort,  \* DEFAULT_PORT of the server's class
    MaxPort       \* the largest port number (65535)

ASSUME PortsAssumption ==
    /\ Ports \subseteq Nat /\ NoPort \notin Nat
    /\ MaxPort \in Nat /\ DefaultPort \in 1 .. MaxPort

VARIABLES
    rust,       \* TRUE: server.rs and dns.rs; FALSE: server.py
    entry,      \* which function was called
    given,      \* the host and port in its arguments
    queryPort,  \* its query_port argument
    phase,      \* how far the call is
    addr,       \* host and port as far as they are known
    dns,        \* "unasked", "found" or how the SRV lookup failed
    records,    \* the SRV records found
    server      \* the ports of the server object

args == <<rust, entry, given, queryPort>>
vars == <<args, phase, addr, dns, records, server>>

\* The SRV lookups of JavaServer and LegacyServer, the lookup that only parses
\* (BedrockServer.lookup; no_srv in Rust), and JavaServer's constructor.
Entries == {"lookup_srv", "lookup_parse", "constructor"}
Valid == 0 .. MaxPort
Failures == {"NXDOMAIN", "NoAnswer", "Timeout", "NoNameservers"}
Record == [host : Hosts, port : Ports \cap Valid]
\* The ports an argument can hold: any int in Python, a u16 in Rust.
Arguments == (IF rust THEN Ports \cap Valid ELSE Ports) \cup {NoPort}
NoServer == [port |-> NoPort, query_port |-> NoPort]

TypeOK ==
    /\ rust \in BOOLEAN
    /\ entry \in Entries
    /\ given \in [host : Hosts, port : Ports \cup {NoPort}]
    /\ queryPort \in Arguments
    /\ phase \in {"parse", "srv", "construct", "ready", "raised"}
    /\ addr \in [host : Hosts, port : Ports \cup {NoPort, DefaultPort}]
    /\ dns \in {"unasked", "found"} \cup Failures
    /\ records \in Seq(Record)
    /\ server \in [port : Valid \cup {NoPort}, query_port : Valid \cup {NoPort}]

WithDefault(a) == IF a.port = NoPort THEN [a EXCEPT !.port = DefaultPort] ELSE a

Init ==
    /\ rust \in BOOLEAN
    /\ \/ /\ entry \in {"lookup_srv", "lookup_parse"}
          /\ phase = "parse"
          /\ given \in [host : Hosts, port : Ports \cup {NoPort}]
          /\ queryPort = NoPort
          /\ addr = given
       \/ /\ entry = "constructor"
          /\ phase = "construct"
          /\ given \in [host : Hosts, port : Arguments]
          /\ queryPort \in Arguments
          /\ addr = WithDefault(given)
    /\ dns = "unasked" /\ records = << >>
    /\ server = NoServer

\* Mutated forms of definitions below, for the runs that must refute them: any
\* DNS failure taken for a missing record, query_port not following the port,
\* the last record instead of the first.
NoRecordMeansAnyFailure == Failures
QueryPortFixed == IF queryPort # NoPort THEN queryPort ELSE DefaultPort
LastRecord(found) == found[Len(found)]

-----------------------------------------------------------------------------

\* _valid_urlparse / parse_address: a port out of range raises, an explicit
\* one ends the lookup, a missing one leads to the SRV record or the default.
Parse ==
    /\ phase = "parse"
    /\ \/ /\ given.port # NoPort /\ given.port \notin Valid
          /\ phase' = "raised" /\ UNCHANGED addr
       \/ /\ \/ given.port \in Valid
             \/ given.port = NoPort /\ entry = "lookup_parse"
          /\ phase' = "construct" /\ addr' = WithDefault(given)
       \/ /\ given.port = NoPort /\ entry = "lookup_srv"
          /\ phase' = "srv" /\ UNCHANGED addr
    /\ UNCHANGED <<args, dns, records, server>>

\* Of several records the first is taken.
FirstRecord(found) == found[1]

SrvFound ==
    /\ phase = "srv"
    /\ \E r \in Record, s \in Record : records' \in {<<r>>, <<r, s>>}
    /\ addr' = FirstRecord(records')
    /\ dns' = "found"
    /\ phase' = "construct"
    /\ UNCHANGED <<args, server>>

\* The failures that mean "there is no such record" (address.py catches these
\* two; dns.rs falls back on any error).
NoRecord == IF rust THEN Failures ELSE {"NXDOMAIN", "NoAnswer"}

SrvFails ==
    /\ phase = "srv"
    /\ dns' \in Failures
    /\ \/ dns' \in NoRecord /\ phase' = "construct" /\ addr' = WithDefault(addr)
       \/ dns' \notin NoRecord /\ phase' = "raised" /\ UNCHANGED addr
    /\ UNCHANGED <<args, records, server>>

\* The query_port of the server object.  Python: `port or self.DEFAULT_PORT`
\* when none was given, so a port of 0 counts as none.  Rust: new() defaults to
\* the port, lookup() to the constant.
QueryPort ==
    IF queryPort # NoPort THEN queryPort
    ELSE IF rust
         THEN IF entry = "constructor" THEN addr.port ELSE DefaultPort
         ELSE IF addr.port = 0 THEN DefaultPort ELSE addr.port

\* Address(host, port) raises for a port out of range; a u16 never is.
InRange(port) == rust \/ port \in Valid

Construct ==
    /\ phase = "construct"
    /\ \/ /\ InRange(addr.port) /\ InRange(QueryPort)
          /\ phase' = "ready"
          /\ server' = [port |-> addr.port, query_port |-> QueryPort]
       \/ /\ ~(InRange(addr.port) /\ InRange(QueryPort))
          /\ phase' = "raised" /\ UNCHANGED server
    /\ UNCHANGED <<args, addr, dns, records>>

Lookup == Parse \/ SrvFound \/ SrvFails \/ Construct

-----------------------------------------------------------------------------

\* The default port is contacted only when the DNS said that there is no SRV
\* record: an unreachable or failing DNS is reported, not taken for a host
\* without a record (the except clause of minecraft_srv_address_lookup; the Rust
\* lookup falls back on any failure).
DefaultNeedsNoRecord ==
    ~rust /\ phase = "ready" /\ dns \in Failures =>
        dns \in {"NXDOMAIN", "NoAnswer"} /\ server.port = DefaultPort

\* Where no query_port is given the query goes to the port of the game, the one
\* an SRV record named included ("Typically the same as ``port``"); not so where
\* the Rust lookup makes the object.
QueryFollowsPort ==
    /\ phase = "ready" /\ queryPort = NoPort /\ server.port # 0
    /\ rust => entry = "constructor"
    =>  server.query_port = server.port
=============================================================================
