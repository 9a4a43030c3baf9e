--------------------------- MODULE QuerySession ---------------------------
(***************************************************************************)
(* JavaServer.query and async_query (mcstatus/server.py) over QueryClient  *)
(* (_protocol/query_client.py), and JavaServer::query of server.rs: the    *)
(* host is resolved, once or in every try of the Rust code; a try opens a  *)
(* UDP socket of its own, asks for a challenge, sends it back with the     *)
(* query and takes the next datagram for the answer.  The client looks     *)
(* neither at the type nor at the session id of what it receives.          *)
(*                                                                         *)
(* A socket has a port of the client's host, which the system may hand to  *)
(* a later try once the socket is closed: what was meant for the earlier   *)
(* try then reaches the later one.  A socket counts as closed when it is   *)
(* told to close; an asyncio transport does so one tick of the loop later. *)
(*                                                                         *)
(* The network loses, delays, reorders and duplicates datagrams.  The      *)
(* server (external) keeps one valid challenge per client address and      *)
(* answers a query that carries it; each challenge request replaces it.    *)
(***************************************************************************)
EXTENDS Naturals, Sequences

CONSTANTS
    Tries,       \* the keyword `tries`
    Challenges,  \* the challenge tokens a server may give
    Ports,       \* the local ports the system hands out
    MaxDups,     \* bound on the datagrams the network duplicates
    MaxNoise     \* bound on empty or malformed datagrams sent to the client

ASSUME TriesAssumption == Tries \in Nat
ASSUME ChallengesAssumption == Challenges \subseteq Nat \ {0}
ASSUME PortsAssumption == Ports \subseteq Nat \ {0}
ASSUME BoundsAssumption == MaxDups \in Nat /\ MaxNoise \in Nat

VARIABLES
    variant,    \* which code runs: query, async_query or the Rust query
    phase,      \* where the client is
    attempt,    \* the tries begun
    calls,      \* exceptions of the tries that failed, oldest first
    outcome,    \* what the retry wrapper returned or raised
    challenge,  \* QueryClient.challenge of this try
    open,       \* the tries whose socket is open
    port,       \* port[k]: the local port of try k's socket (0: none yet)
    net,        \* datagrams on their way
    issued,     \* issued[p]: challenges the server gave to port p
    valid,      \* valid[p]: the one it accepts from that port (0: none)
    dups,       \* datagrams duplicated so far
    noise       \* empty and malformed datagrams sent so far

client == <<variant, phase, attempt, calls, outcome, challenge, open, port>>
server == <<issued, valid>>
vars == <<client, net, server, dups, noise>>

Variants == {"sync", "async", "rust"}
Errors == {"timeout", "closed", "invalid", "unresolved"}
InTry == {"resolve_try", "open", "handshake", "await_challenge", "query", "await_stat"}
Phases == InTry \cup {"resolve", "loop", "done"}

Socket == 1 .. Tries
Datagram == [kind : {"challenge?", "stat?", "challenge", "stat", "empty", "malformed"},
             port : Ports, chal : Nat]
Replies == {"challenge", "stat", "empty", "malformed"}

TypeOK ==
    /\ variant \in Variants
    /\ phase \in Phases
    /\ attempt \in 0 .. Tries
    /\ calls \in Seq(Errors) /\ Len(calls) <= attempt
    /\ outcome \in {"pending", "returned", "unbound", "cancelled", "dns"} \cup Errors
    /\ challenge \in Nat
    /\ open \subseteq Socket
    /\ port \in [Socket -> Ports \cup {0}]
    /\ net \subseteq Datagram
    /\ issued \in [Ports -> SUBSET Nat]
    /\ valid \in [Ports -> Nat]
    /\ dups \in 0 .. MaxDups
    /\ noise \in 0 .. MaxNoise

Init ==
    /\ variant \in Variants
    /\ phase = IF variant = "rust" THEN "loop" ELSE "resolve"
    /\ attempt = 0 /\ calls = << >> /\ outcome = "pending"
    /\ challenge = 0
    /\ open = {}
    /\ port = [k \in Socket |-> 0]
    /\ net = {}
    /\ issued = [p \in Ports |-> {}]
    /\ valid = [p \in Ports |-> 0]
    /\ dups = 0 /\ noise = 0

-----------------------------------------------------------------------------
(* The client.                                                             *)

\* Mutated forms of definitions below, for the runs that must refute them: the
\* challenge is not stored, a failing try leaves its socket open or its error
\* unrecorded, a wait without a timeout, a read that leaves the datagram in the
\* queue.
ForgetChallenge(d) == phase' = "query" /\ UNCHANGED challenge
FailWithoutClosing(e) ==
    /\ calls' = Append(calls, e)
    /\ phase' = "loop"
    /\ UNCHANGED <<variant, attempt, outcome, challenge, open, port>>
FailAndForget(e) ==
    /\ calls' = IF calls = << >> THEN <<e>> ELSE calls
    /\ phase' = "loop" /\ open' = {}
    /\ UNCHANGED <<variant, attempt, outcome, challenge, port>>
WaitOn ==
    /\ phase \in {"await_challenge", "await_stat"}
    /\ UNCHANGED vars
Peek(d) == UNCHANGED <<net, dups>>

FromClient(kind, chal) == [kind |-> kind, port |-> port[attempt], chal |-> chal]

\* A datagram is taken off the network, or a copy of it stays behind.
Take(d) ==
    \/ net' = net \ {d} /\ UNCHANGED dups
    \/ dups < MaxDups /\ dups' = dups + 1 /\ UNCHANGED net

\* The try raises e: `with`, or the destructor, closes its socket and the
\* wrapper goes on.
TryFails(e) ==
    /\ calls' = Append(calls, e)
    /\ phase' = "loop"
    /\ open' = {}
    /\ UNCHANGED <<variant, attempt, outcome, challenge, port>>

\* address.resolve_ip() stands before the retried function: what it raises is
\* not retried.
Resolve ==
    /\ phase = "resolve"
    /\ \/ phase' = "loop" /\ UNCHANGED outcome
       \/ phase' = "done" /\ outcome' = "dns"
    /\ UNCHANGED <<variant, attempt, calls, challenge, open, port, net, server, dups, noise>>

\* query_with_opts resolves inside the retried closure.
ResolveInTry ==
    /\ phase = "resolve_try"
    /\ \/ phase' = "open" /\ UNCHANGED <<variant, attempt, calls, outcome, challenge, open, port>>
       \/ TryFails("unresolved")
    /\ UNCHANGED <<net, server, dups, noise>>

\* A try begins with a QueryClient of its own, whose challenge is 0.
BeginTry ==
    /\ phase = "loop" /\ attempt < Tries
    /\ attempt' = attempt + 1
    /\ challenge' = 0
    /\ phase' = IF variant = "rust" THEN "resolve_try" ELSE "open"
    /\ UNCHANGED <<variant, calls, outcome, open, port, net, server, dups, noise>>

GiveUp ==
    /\ phase = "loop" /\ attempt = Tries
    /\ outcome' = IF calls = << >> THEN "unbound" ELSE calls[Len(calls)]
    /\ phase' = "done"
    /\ UNCHANGED <<variant, attempt, calls, challenge, open, port, net, server, dups, noise>>

\* The system picks a port no open socket has, an earlier try's included.
OpenSocket ==
    /\ phase = "open"
    /\ \E p \in Ports \ {port[k] : k \in open} : port' = [port EXCEPT ![attempt] = p]
    /\ open' = open \cup {attempt}
    /\ phase' = "handshake"
    /\ UNCHANGED <<variant, attempt, calls, outcome, challenge, net, server, dups, noise>>

\* socket() or bind() fails, or asyncio_dgram.connect() fails or times out.
OpenFails ==
    /\ phase = "open"
    /\ \/ TryFails("closed")
       \/ variant = "async" /\ TryFails("timeout")
    /\ UNCHANGED <<net, server, dups, noise>>

Send(kind, chal, next) ==
    /\ net' = net \cup {FromClient(kind, chal)}
    /\ phase' = next
    /\ UNCHANGED <<variant, attempt, calls, outcome, challenge, open, port, server, dups, noise>>

SendHandshake == phase = "handshake" /\ Send("challenge?", 0, "await_challenge")

SendQuery == phase = "query" /\ Send("stat?", challenge, "await_stat")

\* sendto() or the stream's send() raises; the Rust send may time out as well.
SendFails ==
    /\ phase \in {"handshake", "query"}
    /\ \/ TryFails("closed")
       \/ variant = "rust" /\ TryFails("timeout")
    /\ UNCHANGED <<net, server, dups, noise>>

Awaiting == phase \in {"await_challenge", "await_stat"}
Received(d) == d \in net /\ d.port = port[attempt] /\ d.kind \in Replies /\ Take(d)

\* The sync read() throws empty datagrams away and waits on, its timeout
\* starting anew.
SkipEmpty ==
    /\ Awaiting /\ variant = "sync"
    /\ \E d \in net : d.kind = "empty" /\ Received(d)
    /\ UNCHANGED <<client, server, noise>>

\* int(packet.read_ascii()) of handshake() succeeds.
TakeChallenge(d) == phase' = "query" /\ challenge' = d.chal

ReadChallenge ==
    /\ phase = "await_challenge"
    /\ \E d \in net : d.kind = "challenge" /\ Received(d) /\ TakeChallenge(d)
    /\ UNCHANGED <<variant, attempt, calls, outcome, open, port, server, noise>>

\* _parse_response succeeds; `with` closes the socket.
ReadStat ==
    /\ phase = "await_stat"
    /\ \E d \in net : d.kind = "stat" /\ Received(d)
    /\ outcome' = "returned"
    /\ phase' = "done"
    /\ open' = {}
    /\ UNCHANGED <<variant, attempt, calls, challenge, port, server, noise>>

\* Any other datagram makes the parse raise: a short read, an int() of text, a
\* missing key.
ReadInvalid ==
    /\ Awaiting
    /\ \E d \in net :
           /\ d.kind # (IF phase = "await_stat" THEN "stat" ELSE "challenge")
           /\ d.kind = "empty" => variant # "sync"
           /\ Received(d)
    /\ TryFails("invalid")
    /\ UNCHANGED <<server, noise>>

\* The wait ends: the timeout, or an error such as a refusal by ICMP.
RecvFails ==
    /\ Awaiting
    /\ \E e \in {"timeout", "closed"} : TryFails(e)
    /\ UNCHANGED <<net, server, dups, noise>>

\* CancelledError or KeyboardInterrupt, or the future is dropped, in Rust also
\* during the pause between tries: the socket is closed, nothing retried.
Cancelled ==
    /\ \/ phase \in InTry
       \/ variant = "rust" /\ phase = "loop" /\ attempt \in 1 .. Tries - 1
    /\ outcome' = "cancelled"
    /\ phase' = "done"
    /\ open' = {}
    /\ UNCHANGED <<variant, attempt, calls, challenge, port, net, server, dups, noise>>

Client ==
    \/ Resolve \/ ResolveInTry \/ BeginTry \/ GiveUp \/ OpenSocket \/ OpenFails
    \/ SendHandshake \/ SendQuery \/ SendFails
    \/ SkipEmpty \/ ReadChallenge \/ ReadStat \/ ReadInvalid \/ RecvFails

-----------------------------------------------------------------------------
(* The network and the server (external).                                  *)

Lose ==
    /\ \E d \in net : net' = net \ {d}
    /\ UNCHANGED <<client, server, dups, noise>>

\* Empty or malformed datagrams reach the client's socket.
Noise ==
    /\ noise < MaxNoise /\ noise' = noise + 1
    /\ \E k \in open, kind \in {"empty", "malformed"} :
           net' = net \cup {[kind |-> kind, port |-> port[k], chal |-> 0]}
    /\ UNCHANGED <<client, server, dups>>

\* A challenge request: the token given replaces the one given before.
ServerChallenges ==
    /\ \E d \in net, c \in Challenges :
           /\ d.kind = "challenge?"
           /\ \/ net' = (net \ {d}) \cup {[kind |-> "challenge", port |-> d.port, chal |-> c]}
                 /\ UNCHANGED dups
              \/ net' = net \cup {[kind |-> "challenge", port |-> d.port, chal |-> c]}
                 /\ dups < MaxDups /\ dups' = dups + 1
           /\ issued' = [issued EXCEPT ![d.port] = @ \cup {c}]
           /\ valid' = [valid EXCEPT ![d.port] = c]
    /\ UNCHANGED <<client, noise>>

\* A query: it is answered if its challenge is the valid one.
ServerAnswers ==
    /\ \E d \in net :
           /\ d.kind = "stat?" /\ d.chal = valid[d.port]
           /\ net' = (net \ {d}) \cup {[kind |-> "stat", port |-> d.port, chal |-> 0]}
    /\ UNCHANGED <<client, server, dups, noise>>

Environment == Lose \/ Noise \/ ServerChallenges \/ ServerAnswers

Finished == phase = "done" /\ UNCHANGED vars

Next == Client \/ Cancelled \/ (phase # "done" /\ Environment) \/ Finished

Spec == Init /\ [][Next]_vars

\* The client keeps running: every wait ends, by its timeout at the latest.
FairSpec == Spec /\ WF_vars(Client)

-----------------------------------------------------------------------------
(* Properties.                                                             *)

\* A query on the wire carries a challenge the server gave to the very address
\* it is sent from, in whatever order requests and replies were delayed or
\* copied: the default 0 and the challenge of another address never go out.
ChallengeWasIssued ==
    \A d \in net : d.kind = "stat?" => d.chal \in issued[d.port]

\* A try rejects what it reads only if the network made a copy or noise or the
\* system gave it the port of an earlier try: on a port of its own handshake
\* and query stay in step although no reply is identified.
PortReused(i) == \E j \in 1 .. i - 1 : port[j] = port[i]

RejectNeedsCopyOrReuse ==
    \A i \in 1 .. Len(calls) :
        calls[i] = "invalid" => dups > 0 \/ noise > 0 \/ PortReused(i)

\* However a try ends, its datagram socket has been told to close.
SocketPerTry ==
    /\ open \subseteq {attempt}
    /\ phase \in {"loop", "done"} => open = {}

\* The session is one run of the retry loop once the host is resolved.
R == INSTANCE Retry WITH Retryable <- Errors, Fatal <- {"cancelled"},
        outcome <- IF outcome = "dns" THEN "pending" ELSE outcome
ImplementsRetry == R!Spec

\* Whatever is lost, the call ends, if no more than MaxNoise empty datagrams
\* come: each restarts the timeout of the sync read.
Terminates == <>(phase = "done")
=============================================================================
