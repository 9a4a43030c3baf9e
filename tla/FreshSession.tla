---------------------------- MODULE FreshSession ----------------------------
(***************************************************************************)
(* The calls whose every try opens a connection of its own: status of      *)
(* LegacyServer and BedrockServer in server.py (sync and async), and ping  *)
(* and status of the three servers of server.rs.  They differ in the order *)
(* of their steps, in the transport, and in when a socket is closed.  A    *)
(* with statement or a destructor closes it at once, an asyncio transport  *)
(* at the next tick of the event loop; the sync BedrockClient never closes *)
(* its socket, which CPython frees with the frame that holds it.  An       *)
(* exception kept in last_exc holds the frames it passed, and as one of    *)
(* them holds last_exc, the last exception and its frames form a cycle,    *)
(* which after the call is left to the garbage collector.                  *)
(*                                                                         *)
(* A message is known by the try whose socket it left or is meant for.     *)
(* The network and the server (external) lose, delay, reorder and copy     *)
(* datagrams, garble, ignore and hang up.  Reading an answer is one step:  *)
(* what a broken-off read had collected goes with the connection.          *)
(***************************************************************************)
EXTENDS Naturals, Sequences, FiniteSets

CONSTANTS
    Tries,    \* the argument `tries`
    Ports,    \* the ephemeral ports the system hands out
    MaxDups   \* bound on the datagrams the network duplicates

ASSUME TriesAssumption == Tries \in Nat
ASSUME PortsAssumption == Ports \subseteq Nat \ {0} /\ IsFiniteSet(Ports)
ASSUME DupsAssumption == MaxDups \in Nat

VARIABLES
    kind,        \* which call it is, see Steps
    doing,       \* the step of the try, "loop" between tries, "done"
    attempt,     \* the tries begun
    calls,       \* errors of the tries that failed, oldest first
    outcome,     \* what the retry function returned or raised
    open,        \* the tries whose socket is in use, or kept by last_exc
    leaving,     \* those whose socket nobody uses, to be closed by the event
                 \* loop's next tick or by the collector
    orphaned,    \* those whose asyncio transport nobody owns or closes
    port,        \* port[k]: the UDP port of try k (0: none)
    net,         \* messages on their way
    received,    \* the try whose request was answered by what was read (0: none)
    interrupted, \* a cancellation or an interrupt has hit the call
    dups         \* datagrams duplicated so far

wrapper == <<kind, attempt, calls, outcome>>
socket == <<open, leaving, orphaned, port>>
vars == <<wrapper, doing, socket, net, received, interrupted, dups>>

\* The steps of a try.  "java" is JavaServer of server.rs, ping or status; its
\* names are resolved before the connection is opened, those of the Rust
\* Bedrock client between bind and send.  The Python `with` ends in "close".
Steps ==
    [java          |-> <<"resolve", "open", "handshake", "request", "answer">>,
     legacy_rust   |-> <<"resolve", "open", "request", "answer">>,
     bedrock_rust  |-> <<"open", "resolve", "request", "answer">>,
     legacy_sync   |-> <<"open", "request", "answer", "close">>,
     legacy_async  |-> <<"open", "request", "answer", "close">>,
     bedrock_sync  |-> <<"open", "request", "answer">>,
     bedrock_async |-> <<"open", "request", "answer">>]

Kinds == DOMAIN Steps
Udp == {"bedrock_rust", "bedrock_sync", "bedrock_async"}
With == {"legacy_sync", "legacy_async"}
Async == {"legacy_async", "bedrock_async"}
Rust == {"java", "legacy_rust", "bedrock_rust"}
Errors == {"timeout", "closed", "invalid", "dns", "close"}
InTry == {"resolve", "open", "handshake", "request", "answer", "close"}
Socket == 1 .. Tries
Message == [what : {"request", "answer", "bad"}, from : Socket]

TypeOK ==
    /\ kind \in Kinds
    /\ doing \in InTry \cup {"loop", "done"}
    /\ attempt \in 0 .. Tries
    /\ calls \in Seq(Errors) /\ Len(calls) <= attempt
    /\ outcome \in {"pending", "returned", "unbound", "cancelled"} \cup Errors
    /\ open \subseteq Socket /\ leaving \subseteq Socket /\ orphaned \subseteq Socket
    /\ port \in [Socket -> Ports \cup {0}]
    /\ net \subseteq Message
    /\ received \in 0 .. Tries
    /\ interrupted \in BOOLEAN
    /\ dups \in 0 .. MaxDups

Init ==
    /\ kind \in Kinds
    /\ doing = "loop"
    /\ attempt = 0 /\ calls = << >> /\ outcome = "pending"
    /\ open = {} /\ leaving = {} /\ orphaned = {} /\ port = [k \in Socket |-> 0]
    /\ net = {} /\ received = 0
    /\ interrupted = FALSE /\ dups = 0

\* The step that follows s.
After(s) ==
    LET i == CHOOSE j \in DOMAIN Steps[kind] : Steps[kind][j] = s
    IN  Steps[kind][i + 1]
IsLast(s) == s = Steps[kind][Len(Steps[kind])]

-----------------------------------------------------------------------------
(* How a try ends.                                                         *)

\* Mutated forms of definitions below, for the runs that must refute them: all
\* exceptions and their sockets kept, a connection shared by the tries, an
\* interrupt taken for a failure, the first error reported, a wait without a
\* timeout.
KeepAll == open
SharedConnection(d) ==
    IF kind \in Udp THEN port[d.from] = port[attempt] ELSE d.from <= attempt
InterruptIsFailure ==
    /\ doing \in InTry
    /\ interrupted' = TRUE
    /\ calls' = Append(calls, "closed") /\ doing' = "loop" /\ open' = {}
    /\ UNCHANGED <<kind, attempt, outcome, leaving, orphaned, port, net, received, dups>>
RaiseFirstError ==
    /\ doing = "loop" /\ attempt = Tries
    /\ outcome' = IF calls = << >> THEN "unbound" ELSE Head(calls)
    /\ doing' = "done"
    /\ UNCHANGED <<kind, attempt, calls, socket, net, received, interrupted, dups>>
WaitOn == doing = "answer" /\ UNCHANGED vars

\* A try fails with e; of the sockets only those in kept stay open, and those in
\* late until the event loop's next tick.
FailsKeeping(e, kept, late) ==
    /\ calls' = Append(calls, e)
    /\ doing' = "loop"
    /\ open' = kept /\ leaving' = late
    /\ UNCHANGED <<kind, attempt, outcome, port>>

\* The sockets that outlive a failing try: last_exc now holds the exception of
\* this try, whose traceback holds the frame of BedrockClient._read_status and
\* its socket; the exception of the try before, and its socket, are gone.
Surviving == IF kind = "bedrock_sync" THEN open \cap {attempt} ELSE {}

\* What stream.close() of the async Bedrock client leaves to the event loop; the
\* async `with` waits until it is closed.
ClosedLate == IF kind = "bedrock_async" THEN open ELSE {}

\* In a `with` closing may raise as well, and what it raises takes the place of
\* an error or an answer: shutdown() of the sync connection (its close() is then
\* skipped) or wait_closed() of the async one.
CloseRaises ==
    /\ kind \in With /\ attempt \in open
    /\ FailsKeeping("close", IF kind = "legacy_sync" THEN {attempt} ELSE {}, {})

\* The try fails with e, or with what closing raises.
TryFails(e) ==
    /\ FailsKeeping(e, Surviving, ClosedLate) \/ CloseRaises
    /\ UNCHANGED orphaned

\* The call returns.  The socket of this try is closed; that of the failed try
\* before hangs in the cycle of last_exc.
Returns ==
    /\ outcome' = "returned"
    /\ doing' = "done"
    /\ open' = {} /\ leaving' = (open \ {attempt}) \cup ClosedLate
    /\ UNCHANGED <<kind, attempt, calls, orphaned, port>>

-----------------------------------------------------------------------------
(* The client.                                                             *)

\* The loop of retry() goes on; in Rust after a pause.
BeginTry ==
    /\ doing = "loop" /\ attempt < Tries
    /\ attempt' = attempt + 1
    /\ doing' = Head(Steps[kind])
    /\ UNCHANGED <<kind, calls, outcome, socket, net, received, interrupted, dups>>

\* The last error is raised (with tries = 0: an unbound variable in Python, an
\* error that says so in Rust).  A socket its frames hold stays open as long as
\* the caller keeps it, and then until the collector comes.
GiveUp ==
    /\ doing = "loop" /\ attempt = Tries
    /\ outcome' = IF calls = << >> THEN "unbound" ELSE calls[Len(calls)]
    /\ doing' = "done"
    /\ open' = {} /\ leaving' = leaving \cup open
    /\ UNCHANGED <<kind, attempt, calls, orphaned, port, net, received, interrupted, dups>>

Resolve ==
    /\ doing = "resolve"
    /\ doing' = After("resolve")
    /\ UNCHANGED <<wrapper, socket, net, received, interrupted, dups>>

\* A TCP connection is made, or a UDP socket gets a port no open one has.  An
\* asyncio socket may be made before the one of the try before is closed.
Open ==
    /\ doing = "open"
    /\ doing' = After("open")
    /\ open' = open \cup {attempt}
    /\ \/ kind \notin Udp /\ UNCHANGED port
       \/ /\ kind \in Udp
          /\ \E p \in Ports \ {port[k] : k \in open \cup leaving} : port' = [port EXCEPT ![attempt] = p]
    /\ UNCHANGED <<wrapper, leaving, orphaned, net, received, interrupted, dups>>

\* Connecting fails or times out; a timeout may strike an asyncio transport that
\* is made already, which is then closed.  If setsockopt fails on a connection
\* that was made, Rust drops it; in Python nobody closes it: the exception keeps
\* the sync one, the event loop the transport of the async one.
OpenFails ==
    /\ doing = "open"
    /\ \/ \E e \in {"timeout", "closed", "dns"} : FailsKeeping(e, {}, leaving)
          /\ UNCHANGED orphaned
       \/ kind \in Async /\ FailsKeeping("timeout", {}, {attempt}) /\ UNCHANGED orphaned
       \/ kind = "legacy_sync" /\ FailsKeeping("closed", {attempt}, {}) /\ UNCHANGED orphaned
       \/ /\ kind = "legacy_async" /\ FailsKeeping("closed", {}, {})
          /\ orphaned' = orphaned \cup {attempt}
    /\ UNCHANGED <<net, received, interrupted, dups>>

\* The handshake, then the request, is written.  The tick that closes the socket
\* of the try before is over: opening this one has waited for the event loop.
Send ==
    /\ doing \in {"handshake", "request"}
    /\ doing' = After(doing)
    /\ net' = IF doing = "request"
              THEN net \cup {[what |-> "request", from |-> attempt]} ELSE net
    /\ leaving' = {}
    /\ UNCHANGED <<wrapper, open, orphaned, port, received, interrupted, dups>>

\* A step before the answer fails: the names are not resolved, a write fails or
\* times out (sendto() of the Python Bedrock client resolves the name).
SendFails ==
    /\ doing \in {"resolve", "handshake", "request"}
    /\ \E e \in {"timeout", "closed", "dns"} : TryFails(e)
    /\ UNCHANGED <<net, received, interrupted, dups>>

\* What may arrive at the socket of this try: of its own connection, or
\* addressed to its port.
Reaches(d) ==
    IF kind \in Udp THEN port[d.from] = port[attempt] ELSE d.from = attempt

\* It is taken off the network, or a copy of a datagram stays behind.
Take(d) ==
    /\ Reaches(d)
    /\ \/ net' = net \ {d} /\ UNCHANGED dups
       \/ kind \in Udp /\ dups < MaxDups /\ dups' = dups + 1 /\ UNCHANGED net

\* The answer is read and parsed; without a `with` the call returns.
Receive ==
    /\ doing = "answer"
    /\ \E d \in net : d.what = "answer" /\ Take(d) /\ received' = d.from
    /\ IF IsLast("answer") THEN Returns
       ELSE doing' = After("answer") /\ UNCHANGED <<wrapper, socket>>
    /\ UNCHANGED interrupted

\* What was read is not parsed.  The sync Bedrock client parses when the frame
\* that held its socket is gone already.
ReceiveBad ==
    /\ doing = "answer"
    /\ \E d \in net : d.what = "bad" /\ Take(d)
    /\ IF kind = "bedrock_sync" THEN FailsKeeping("invalid", {}, {}) /\ UNCHANGED orphaned
       ELSE TryFails("invalid")
    /\ UNCHANGED <<received, interrupted>>

\* The wait for the answer ends without one.
RecvFails ==
    /\ doing = "answer"
    /\ \E e \in {"timeout", "closed"} : TryFails(e)
    /\ UNCHANGED <<net, received, interrupted, dups>>

\* The end of the `with`: the connection is closed and the call returns, or
\* closing raises and a try that had its answer has failed.
Close ==
    /\ doing = "close"
    /\ Returns \/ (CloseRaises /\ UNCHANGED orphaned)
    /\ UNCHANGED <<net, received, interrupted, dups>>

\* KeyboardInterrupt, CancelledError, or the future is dropped, also during the
\* pause of the Rust loop.  It leaves the loop at once, unless the `with` it
\* passes raises in closing: that exception replaces it, and the loop takes it
\* for a failure of the try.  MayStay are the sockets of this try that may be
\* open after it: held by the frames of the interrupt (a sync call that is
\* opening, closing or has no `with`), or closed late by the event loop.
MayStay ==
    CASE kind \in Rust -> {{}}
      [] kind \notin Rust /\ doing \in {"open", "close"} -> {{}, {attempt}}
      [] OTHER -> {IF kind \in With THEN {} ELSE {attempt}}

Interrupted ==
    /\ \/ doing \in InTry
       \/ kind \in Rust /\ doing = "loop" /\ attempt \in 1 .. Tries - 1
    /\ interrupted' = TRUE
    /\ \/ /\ outcome' = "cancelled" /\ doing' = "done"
          /\ open' = {}
          /\ \E mine \in MayStay : leaving' = leaving \cup (open \ {attempt}) \cup mine
          /\ UNCHANGED <<kind, attempt, calls, port>>
       \/ CloseRaises
    /\ UNCHANGED <<orphaned, net, received, dups>>

Client ==
    \/ BeginTry \/ GiveUp \/ Resolve \/ Open \/ OpenFails \/ Send \/ SendFails
    \/ Receive \/ ReceiveBad \/ RecvFails \/ Close

-----------------------------------------------------------------------------
(* The network and the server (external), the event loop and the collector.*)

\* A request is answered, or, if the network has copied it, answered again later.
Answers ==
    /\ \E d \in net, what \in {"answer", "bad"} :
           /\ d.what = "request"
           /\ \/ /\ net' = (net \ {d}) \cup {[what |-> what, from |-> d.from]}
                 /\ UNCHANGED dups
              \/ /\ kind \in Udp /\ dups < MaxDups /\ dups' = dups + 1
                 /\ net' = net \cup {[what |-> what, from |-> d.from]}
    /\ UNCHANGED <<wrapper, doing, socket, received, interrupted>>

Loses ==
    /\ \E d \in net : net' = net \ {d}
    /\ UNCHANGED <<wrapper, doing, socket, received, interrupted, dups>>

\* Sockets nobody uses are closed, at some time.
Closes ==
    /\ \E some \in (SUBSET leaving) \ {{}} : leaving' = leaving \ some
    /\ UNCHANGED <<wrapper, doing, open, orphaned, port, net, received, interrupted, dups>>

Finished == doing = "done" /\ UNCHANGED vars

Next == Client \/ Interrupted \/ Closes \/ (doing # "done" /\ (Answers \/ Loses)) \/ Finished

Spec == Init /\ [][Next]_vars

\* The client keeps running: every wait ends, by its timeout at the latest.
FairSpec == Spec /\ WF_vars(Client)

-----------------------------------------------------------------------------
(* Properties.                                                             *)

\* A latency is that of a round trip of the try that returns it.  The only way
\* to a late answer is a UDP port handed out again; for the sync Bedrock client
\* not the port of the try just before, whose socket is still open, unless that
\* try failed in parsing its answer, when its socket was closed already.
AnswerIsFresh ==
    outcome = "returned" =>
        \/ received = attempt
        \/ /\ received < attempt
           /\ kind \in Udp /\ port[received] = port[attempt]
           /\ kind = "bedrock_sync" /\ received = attempt - 1 => calls[received] = "invalid"

\* However many tries there are, no more than two sockets are open at a time, in
\* Rust one; a call that returns leaves at most one, to the event loop or to the
\* collector, in Rust none.  Not counted are asyncio transports orphaned by a
\* setsockopt() that failed.
SocketsBounded ==
    /\ Cardinality(open \cup leaving) <= (IF kind \in Rust THEN 1 ELSE 2)
    /\ outcome = "returned" =>
           Cardinality(open \cup leaving) <= (IF kind \in Rust THEN 0 ELSE 1)

\* An interrupt ends the call, and is what its caller sees, unless closing the
\* connection raised (the with statement is inside the retried function).
InterruptIsObeyed ==
    interrupted =>
        outcome = "cancelled" \/ \E i \in 1 .. Len(calls) : calls[i] = "close"

\* The session is one run of the retry loop, whatever its steps are.
R == INSTANCE Retry WITH Retryable <- Errors, Fatal <- {"cancelled"}
ImplementsRetry == R!Spec

\* Whatever is lost, the call ends.
Terminates == <>(doing = "done")
=============================================================================
