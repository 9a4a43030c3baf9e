---------------------------- MODULE JavaSession ----------------------------
(***************************************************************************)
(* JavaServer.ping and JavaServer.status (and their async twins) of        *)
(* mcstatus/server.py: one TCP connection is opened, then the handshake    *)
(* and one request are retried up to Tries times ON THAT CONNECTION, so    *)
(* what an earlier try left in the stream is read by a later one.          *)
(*                                                                         *)
(* A byte of the stream the server sends is a record [val, from]: val is   *)
(* what the client sees, from is history (the try whose packet made the    *)
(* server send it) and no guard of the client reads it.  A packet is one   *)
(* length byte and a payload; a token, a JSON text and a varint are one    *)
(* byte each.  The server is external: it answers, ignores, garbles or     *)
(* hangs up as it likes, at any speed, but echoes tokens it was sent.      *)
(***************************************************************************)
EXTENDS Naturals, Sequences

CONSTANTS
    Tries,       \* the keyword `tries`
    TokenOf,     \* TokenOf[k]: the ping_token of try k
    Json,        \* a byte that is a complete JSON status
    Garbage,     \* a byte that is neither a token nor JSON
    Garbled      \* the operations the server may answer with something malformed

ASSUME TriesAssumption == Tries \in Nat
ASSUME TokenAssumption == TokenOf \in [1 .. Tries -> Nat \ (0 .. 3)]
ASSUME ByteAssumption ==
    /\ Json \in Nat \ (0 .. 3) /\ Garbage \in Nat \ (0 .. 3)
    /\ Json # Garbage
    /\ \A k \in 1 .. Tries : TokenOf[k] \notin {Json, Garbage}

VARIABLES
    op,         \* which of Operations was called
    phase,      \* where the client is
    attempt,    \* the tries begun
    calls,      \* exceptions of the tries that failed, oldest first
    outcome,    \* what the retry wrapper returned or raised ("pending" before)
    exitError,  \* what the with statement raised instead ("none")
    sock,       \* the client's socket
    need,       \* length prefix being read
    got,        \* payload bytes read so far
    c2s,        \* packets on their way to the server
    s2c,        \* bytes on their way to the client
    peer        \* the server's side of the connection

vars == <<op, phase, attempt, calls, outcome, exitError, sock, need, got,
          c2s, s2c, peer>>
reader == <<need, got>>
net == <<c2s, s2c, peer>>

Operations == {"ping", "status"}
Errors == {"timeout", "closed", "invalid"}
Phases == {"connect", "loop", "handshake", "request", "length", "payload",
           "exit", "done"}
\* The phases inside a try in which the client waits on the socket.
InTry == {"handshake", "request", "length", "payload"}

Byte == [val : Nat, from : 1 .. Tries]
Packet == [kind : {"handshake", "status", "ping"}, from : 1 .. Tries]

TypeOK ==
    /\ op \in Operations
    /\ phase \in Phases
    /\ attempt \in 0 .. Tries
    /\ calls \in Seq(Errors)
    /\ Len(calls) <= attempt
    /\ outcome \in {"pending", "returned", "unbound", "cancelled"} \cup Errors
    /\ exitError \in {"none", "connect", "setsockopt", "close", "cancelled"}
    /\ sock \in {"unopened", "open", "closed", "leaked"}
    /\ need \in Nat
    /\ got \in Seq(Byte)
    /\ c2s \in Seq(Packet)
    /\ s2c \in Seq(Byte)
    /\ peer \in {"new", "status", "closed"}

Init ==
    /\ op \in Operations
    /\ phase = "connect"
    /\ attempt = 0
    /\ calls = << >>
    /\ outcome = "pending"
    /\ exitError = "none"
    /\ sock = "unopened"
    /\ need = 0 /\ got = << >>
    /\ c2s = << >> /\ s2c = << >>
    /\ peer = "new"

-----------------------------------------------------------------------------
(* Payloads.                                                               *)

\* The bytes `vals` as a packet the server sends because of try k's packet.
Bytes(vals, k) == [i \in DOMAIN vals |-> [val |-> vals[i], from |-> k]]
Framed(vals, k) == Bytes(<<Len(vals)>> \o vals, k)

StatusPayload == <<0, 1, Json>>
PongPayload(k) == <<1, TokenOf[k]>>

\* Mutated forms of definitions below, for the runs that must refute them:
\* the token is not compared, the announced length is compared with the whole
\* payload, the request before the handshake, an error forgotten, a cancellation
\* taken for a failure, a reader that keeps its place after a timeout and waits
\* on.
TokenUnchecked(p) == Len(p) >= 2 /\ p[1].val = 1
LengthMisread(p) == Len(p) >= 3 /\ p[1].val = 0 /\ p[2].val = Len(p) /\ p[3].val = Json
RaiseFirstError ==
    /\ phase = "loop" /\ attempt = Tries
    /\ outcome' = IF calls = << >> THEN "unbound" ELSE Head(calls)
    /\ phase' = "exit"
    /\ UNCHANGED <<attempt, calls, exitError, sock, reader, net>>
SkipHandshake ==
    /\ phase = "handshake"
    /\ phase' = "request"
    /\ UNCHANGED <<attempt, calls, outcome, exitError, sock, reader, net>>
RestartTry(e) ==
    /\ calls' = << >> /\ attempt' = 0
    /\ phase' = "loop"
    /\ need' = 0 /\ got' = << >>
    /\ UNCHANGED <<outcome, exitError, sock>>

\* _handle_status_response accepts a payload: packet id 0, then a string of
\* exactly the length it announces that parses as JSON.
StatusAccepted(p) ==
    /\ Len(p) >= 3
    /\ p[1].val = 0
    /\ p[2].val = 1
    /\ p[3].val = Json

\* _handle_ping_response accepts a payload: packet id 1 and the token this
\* try sent; bytes after the token are not looked at.
PongAccepted(p) ==
    /\ Len(p) >= 2
    /\ p[1].val = 1
    /\ p[2].val = TokenOf[attempt]

Accepted(p) == IF op = "ping" THEN PongAccepted(p) ELSE StatusAccepted(p)

-----------------------------------------------------------------------------
(* The client.                                                             *)

Connect ==
    /\ phase = "connect"
    /\ sock' = "open"
    /\ phase' = "loop"
    /\ UNCHANGED <<attempt, calls, outcome, exitError, reader, net>>

\* socket.create_connection / asyncio.open_connection fails, or is cancelled:
\* it stands outside the retried function, so no try is spent on it.
ConnectFails ==
    /\ phase = "connect"
    /\ exitError' \in {"connect", "cancelled"}
    /\ phase' = "done"
    /\ UNCHANGED <<attempt, calls, outcome, sock, reader, net>>

\* setsockopt(TCP_NODELAY) raises: __exit__ / __aexit__ does not run, because
\* the constructor / __aenter__ has not returned, so nobody closes the socket.
NoDelayFails ==
    /\ phase = "connect"
    /\ sock' = "leaked"
    /\ exitError' = "setsockopt"
    /\ phase' = "done"
    /\ UNCHANGED <<attempt, calls, outcome, reader, net>>

\* A try begins: a JavaClient is made, with a token of its own unless the
\* caller gave one.
BeginTry ==
    /\ phase = "loop"
    /\ attempt < Tries
    /\ attempt' = attempt + 1
    /\ phase' = "handshake"
    /\ UNCHANGED <<calls, outcome, exitError, sock, reader, net>>

\* The range(tries) of the wrapper is exhausted: raise last_exc.
GiveUp ==
    /\ phase = "loop"
    /\ attempt = Tries
    /\ outcome' = IF calls = << >> THEN "unbound" ELSE calls[Len(calls)]
    /\ phase' = "exit"
    /\ UNCHANGED <<attempt, calls, exitError, sock, reader, net>>

\* The try raises e: the wrapper remembers it and the loop goes on.  What
\* read() had collected is lost with its local variable.
TryFails(e) ==
    /\ calls' = Append(calls, e)
    /\ phase' = "loop"
    /\ need' = 0 /\ got' = << >>
    /\ UNCHANGED <<attempt, outcome, exitError, sock>>

\* A write: once the server has gone its bytes vanish, or the write raises.
Send(kind, next) ==
    /\ phase' = next
    /\ c2s' = IF peer = "closed" THEN c2s
              ELSE Append(c2s, [kind |-> kind, from |-> attempt])
    /\ UNCHANGED <<attempt, calls, outcome, exitError, sock, reader, s2c, peer>>

WriteHandshake == phase = "handshake" /\ Send("handshake", "request")

WriteRequest == phase = "request" /\ Send(op, "length")

WriteFails ==
    /\ phase \in {"handshake", "request"}
    /\ peer = "closed"
    /\ TryFails("closed")
    /\ UNCHANGED net

\* read_varint of read_bytearray: one byte, the length of what follows.
ReadLength ==
    /\ phase = "length"
    /\ s2c # << >>
    /\ need' = Head(s2c).val
    /\ s2c' = Tail(s2c)
    /\ phase' = "payload"
    /\ UNCHANGED <<attempt, calls, outcome, exitError, sock, got, c2s, peer>>

\* One recv of the loop of read(): between one byte and all that is missing.
ReadPayload ==
    /\ phase = "payload"
    /\ \E n \in 1 .. Len(s2c) :
        /\ Len(got) + n <= need
        /\ got' = got \o SubSeq(s2c, 1, n)
        /\ s2c' = SubSeq(s2c, n + 1, Len(s2c))
    /\ UNCHANGED <<phase, attempt, calls, outcome, exitError, sock, need,
                   c2s, peer>>

\* The payload is complete and _handle_*_response accepts it.
Accept ==
    /\ phase = "payload"
    /\ Len(got) = need
    /\ Accepted(got)
    /\ outcome' = "returned"
    /\ phase' = "exit"
    /\ UNCHANGED <<attempt, calls, exitError, sock, reader, net>>

\* The payload is complete and _handle_*_response raises OSError.
Reject ==
    /\ phase = "payload"
    /\ Len(got) = need
    /\ ~Accepted(got)
    /\ TryFails("invalid")
    /\ UNCHANGED net

\* recv has still a byte to wait for.
Waiting == phase = "length" \/ (phase = "payload" /\ Len(got) < need)

\* recv times out: the bytes on their way, if any, have not arrived yet.
RecvTimeout ==
    /\ Waiting
    /\ TryFails("timeout")
    /\ UNCHANGED net

\* recv returns b"" (or raises ConnectionResetError): the server hung up.
RecvClosed ==
    /\ Waiting
    /\ peer = "closed" /\ s2c = << >>
    /\ TryFails("closed")
    /\ UNCHANGED net

\* KeyboardInterrupt or asyncio.CancelledError in a socket call: it is not an
\* Exception, so the wrapper does not catch it.
Cancelled ==
    /\ phase \in InTry
    /\ outcome' = "cancelled"
    /\ phase' = "exit"
    /\ UNCHANGED <<attempt, calls, exitError, sock, reader, net>>

\* __exit__ / __aexit__ closes the socket.
Close ==
    /\ phase = "exit"
    /\ sock' = "closed"
    /\ phase' = "done"
    /\ UNCHANGED <<attempt, calls, outcome, exitError, reader, net>>

\* Closing raises, and what it raises replaces the outcome: shutdown() of the
\* sync socket (before close(), which is then never called), or wait_closed()
\* of the async writer (after close(); it may also be cancelled).
CloseFails ==
    /\ phase = "exit"
    /\ \/ sock' = "leaked" /\ exitError' = "close"
       \/ sock' = "closed" /\ exitError' \in {"close", "cancelled"}
    /\ phase' = "done"
    /\ UNCHANGED <<attempt, calls, outcome, reader, net>>

Client ==
    \/ Connect \/ ConnectFails \/ NoDelayFails
    \/ BeginTry \/ GiveUp
    \/ WriteHandshake \/ WriteRequest \/ WriteFails
    \/ ReadLength \/ ReadPayload \/ Accept \/ Reject
    \/ RecvTimeout \/ RecvClosed
    \/ Close \/ CloseFails

-----------------------------------------------------------------------------
(* The server (external).                                                  *)

clientVars == <<phase, attempt, calls, outcome, exitError, sock, need, got>>

ServerHandshake ==
    /\ peer = "new" /\ c2s # << >> /\ Head(c2s).kind = "handshake"
    /\ peer' = "status"
    /\ c2s' = Tail(c2s)
    /\ UNCHANGED <<clientVars, s2c>>

\* A packet in the status state.  The handshake a retry repeats has the packet
\* id of a status request, and may be answered as one.
ServerAnswers ==
    /\ peer = "status" /\ c2s # << >>
    /\ LET p == Head(c2s)
           payload == IF p.kind = "ping" THEN PongPayload(p.from)
                                         ELSE StatusPayload
       IN  s2c' = s2c \o Framed(payload, p.from)
    /\ c2s' = Tail(c2s)
    /\ UNCHANGED <<clientVars, peer>>

ServerGarbles ==
    /\ op \in Garbled
    /\ peer = "status" /\ c2s # << >>
    /\ \E payload \in {<<0, 1, Garbage>>, <<1, Garbage>>, << >>} :
           s2c' = s2c \o Framed(payload, Head(c2s).from)
    /\ c2s' = Tail(c2s)
    /\ UNCHANGED <<clientVars, peer>>

ServerIgnores ==
    /\ peer = "status" /\ c2s # << >>
    /\ c2s' = Tail(c2s)
    /\ UNCHANGED <<clientVars, s2c, peer>>

\* The server hangs up; bytes it sent may still arrive, or be lost to a reset.
ServerCloses ==
    /\ sock = "open" /\ peer # "closed"
    /\ peer' = "closed"
    /\ c2s' = << >>
    /\ s2c' \in {s2c, << >>}
    /\ UNCHANGED clientVars

Server ==
    \/ ServerHandshake \/ ServerAnswers \/ ServerGarbles \/ ServerIgnores
    \/ ServerCloses

Finished == phase = "done" /\ UNCHANGED vars

Next ==
    /\ Client \/ Cancelled \/ (phase # "done" /\ Server) \/ Finished
    /\ UNCHANGED op

Spec == Init /\ [][Next]_vars

\* The client keeps running: every socket call ends, by its timeout at the
\* latest.  Nothing is assumed of the server.
FairSpec == Spec /\ WF_vars(Client /\ UNCHANGED op)

-----------------------------------------------------------------------------
(* Properties.                                                             *)

\* The byte of the accepted payload that carries the answer.
AnswerByte == got[IF op = "ping" THEN 2 ELSE 3]

\* A measured latency is a round trip: the answer whose arrival stops the clock
\* was sent for a packet of the try that started the clock, and is not the
\* late answer to an earlier one (start and end of read_status / test_ping).
LatencyIsRoundTrip == outcome = "returned" => AnswerByte.from = attempt

\* So it is for a ping, whose token tells the answers apart: the first answer
\* may still come while the second or third try waits.
PingIsTimed == op = "ping" => LatencyIsRoundTrip

\* The server never meets a request before the handshake that announces it,
\* whatever was lost, cancelled or retried.
HandshakeFirst ==
    peer = "new" /\ c2s # << >> => Head(c2s).kind = "handshake"

\* With a well-behaved server a try rejects an answer only after an earlier
\* try timed out: otherwise every try starts at a packet boundary.
RejectNeedsTimeout ==
    op \in Garbled \/ \A i \in 1 .. Len(calls) :
        calls[i] = "invalid" => \E j \in 1 .. i - 1 : calls[j] = "timeout"

\* The session is one run of the retry loop: opening and closing the
\* connection are no part of it, and what passes on the wire is hidden.
R == INSTANCE Retry WITH Retryable <- Errors, Fatal <- {"cancelled"}
ImplementsRetry == R!Spec

\* Whatever the server does, the call ends.
Terminates == <>(phase = "done")
=============================================================================
