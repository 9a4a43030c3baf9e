------------------------- MODULE QuerySessionProofs -------------------------
(***************************************************************************)
(* Proofs about QuerySession, for every number of tries, every set of      *)
(* challenges and of ports and every bound on copies and noise.            *)
(***************************************************************************)
EXTENDS QuerySession, SequenceTheorems, TLAPS

-----------------------------------------------------------------------------
(* Types, tries and sockets.  TypeOK is not inductive: the phase fixes how *)
(* many tries failed, which socket is open and which tries have a port.    *)

Opened == {"handshake", "await_challenge", "query", "await_stat"}

LoopInv ==
    /\ phase = "resolve" => attempt = 0 /\ calls = << >>
    /\ phase \in {"resolve", "loop"} => outcome = "pending" /\ Len(calls) = attempt
    /\ phase \in InTry =>
           outcome = "pending" /\ attempt >= 1 /\ Len(calls) = attempt - 1
    /\ phase \in {"resolve", "loop", "resolve_try", "open", "done"} => open = {}
    /\ phase = "done" => outcome # "pending"
    /\ open \subseteq {attempt}
    /\ phase \in Opened => port[attempt] \in Ports
    /\ phase \in {"resolve_try", "open"} => port[attempt] = 0
    /\ \A k \in Socket : k > attempt => port[k] = 0

IInv == TypeOK /\ LoopInv

\* Before the host is resolved there is no try, no socket and no datagram.
LEMMA InitIInv == Init => IInv
  BY TriesAssumption, BoundsAssumption
     DEF Init, IInv, TypeOK, LoopInv, Phases, InTry, Opened, Socket, Datagram

\* A try that fails leaves one more exception, the loop phase and no socket.
LEMMA FailPreservesIInv ==
    ASSUME IInv, phase \in InTry, NEW e \in Errors, TryFails(e),
           net' \subseteq net, issued' = issued, valid' = valid,
           dups' \in 0 .. MaxDups, noise' = noise
    PROVE  IInv'
  <1>1. Len(calls) \in Nat /\ calls' \in Seq(Errors) /\ Len(calls') = Len(calls) + 1
    BY DEF IInv, TypeOK, TryFails
  <1>2. phase' = "loop" /\ open' = {} /\ attempt' = attempt /\ outcome' = outcome
        /\ challenge' = challenge /\ variant' = variant /\ port' = port
    BY DEF TryFails
  <1>3. TypeOK'
    BY <1>1, <1>2, TriesAssumption DEF IInv, TypeOK, LoopInv, Phases
  <1>4. LoopInv'
    BY <1>1, <1>2, TriesAssumption DEF IInv, TypeOK, LoopInv, InTry, Opened, Socket
  <1> QED
    BY <1>3, <1>4 DEF IInv

\* Taking a datagram leaves no new one, and no more copies than the bound.
LEMMA TakeType ==
    ASSUME IInv, NEW d, Take(d)
    PROVE  net' \subseteq net /\ net' \subseteq Datagram /\ dups' \in 0 .. MaxDups
  BY BoundsAssumption DEF IInv, TypeOK, Take

\* Every step of client, network and server preserves the invariant.
LEMMA NextIInv == IInv /\ [Next]_vars => IInv'
  <1> SUFFICES ASSUME IInv, [Next]_vars PROVE IInv'
    OBVIOUS
  <1> USE TriesAssumption, BoundsAssumption
  <1>1. CASE Resolve \/ BeginTry \/ GiveUp \/ OpenSocket
    <2>1. CASE Resolve
      BY <2>1 DEF Resolve, IInv, TypeOK, LoopInv, Phases, InTry, Opened, server
    <2>2. CASE BeginTry
      <3>1. attempt' \in Socket /\ port' = port
        BY <2>2 DEF BeginTry, IInv, TypeOK, Socket
      <3>2. port[attempt'] = 0
        BY <2>2, <3>1 DEF BeginTry, IInv, TypeOK, LoopInv
      <3>3. \A k \in Socket : k > attempt' => port[k] = 0
        BY <2>2, <3>1 DEF BeginTry, IInv, TypeOK, LoopInv, Socket
      <3> QED
        BY <2>2, <3>1, <3>2, <3>3
           DEF BeginTry, IInv, TypeOK, LoopInv, Phases, InTry, Opened, server
    <2>3. CASE GiveUp
      <3>1. outcome' \in {"unbound"} \cup Errors
        BY <2>3 DEF GiveUp, IInv, TypeOK, LoopInv
      <3> QED
        BY <2>3, <3>1 DEF GiveUp, IInv, TypeOK, LoopInv, Phases, InTry, Opened, server, Errors
    <2>4. CASE OpenSocket
      <3>1. PICK p \in Ports : port' = [port EXCEPT ![attempt] = p]
        BY <2>4 DEF OpenSocket
      <3>2. attempt \in Socket
        BY <2>4 DEF OpenSocket, IInv, TypeOK, LoopInv, InTry, Socket
      <3>3. port' \in [Socket -> Ports \cup {0}] /\ port'[attempt] \in Ports
        BY <3>1, <3>2 DEF IInv, TypeOK
      <3>4. \A k \in Socket : k > attempt => port'[k] = 0
        BY <3>1, <3>2 DEF IInv, TypeOK, LoopInv, Socket
      <3> QED
        BY <2>4, <3>2, <3>3, <3>4
           DEF OpenSocket, IInv, TypeOK, LoopInv, Phases, InTry, Opened, server
    <2> QED
      BY <1>1, <2>1, <2>2, <2>3, <2>4
  <1>2. CASE SendHandshake \/ SendQuery
    <2>1. PICK kind \in {"challenge?", "stat?"}, chal \in Nat,
               next \in {"await_challenge", "await_stat"} : Send(kind, chal, next)
      BY <1>2 DEF SendHandshake, SendQuery, IInv, TypeOK
    <2>2. phase \in {"handshake", "query"}
      BY <1>2 DEF SendHandshake, SendQuery
    <2>3. port[attempt] \in Ports
      BY <2>2 DEF IInv, LoopInv, Opened
    <2>4. net' \subseteq Datagram
      BY <2>1, <2>3 DEF Send, FromClient, Datagram, IInv, TypeOK
    <2> QED
      BY <2>1, <2>2, <2>3, <2>4
         DEF Send, IInv, TypeOK, LoopInv, Phases, InTry, Opened, server
  <1>3. CASE OpenFails \/ SendFails \/ RecvFails
    <2>1. phase \in InTry /\ (\E e \in Errors : TryFails(e))
      BY <1>3 DEF OpenFails, SendFails, RecvFails, Awaiting, InTry, Errors
    <2>2. UNCHANGED <<net, server, dups, noise>>
      BY <1>3 DEF OpenFails, SendFails, RecvFails
    <2> QED
      BY <2>1, <2>2, FailPreservesIInv DEF server, IInv, TypeOK
  <1>4. CASE ReadInvalid
    <2>1. phase \in InTry /\ TryFails("invalid") /\ (\E d : Take(d))
      BY <1>4 DEF ReadInvalid, Received, Awaiting, InTry
    <2>2. issued' = issued /\ valid' = valid /\ noise' = noise
      BY <1>4 DEF ReadInvalid, server
    <2> QED
      BY <2>1, <2>2, TakeType, FailPreservesIInv DEF Errors
  <1>5. CASE SkipEmpty
    <2>1. \E d : Take(d)
      BY <1>5 DEF SkipEmpty, Received
    <2> QED
      BY <1>5, <2>1, TakeType
         DEF SkipEmpty, IInv, TypeOK, LoopInv, client, server
  <1>6. CASE ReadChallenge
    <2>1. PICK d \in net : Take(d) /\ TakeChallenge(d)
      BY <1>6 DEF ReadChallenge, Received
    <2>2. challenge' \in Nat /\ phase' = "query"
      BY <2>1 DEF TakeChallenge, IInv, TypeOK, Datagram
    <2> QED
      BY <1>6, <2>1, <2>2, TakeType
         DEF ReadChallenge, IInv, TypeOK, LoopInv, Phases, InTry, Opened, server
  <1>7. CASE ReadStat
    <2>1. \E d : Take(d)
      BY <1>7 DEF ReadStat, Received
    <2> QED
      BY <1>7, <2>1, TakeType
         DEF ReadStat, IInv, TypeOK, LoopInv, Phases, InTry, Opened, server
  <1>8. CASE Cancelled
    BY <1>8 DEF Cancelled, IInv, TypeOK, LoopInv, Phases, InTry, Opened, server
  <1>9. CASE Lose
    BY <1>9 DEF Lose, IInv, TypeOK, LoopInv, client, server
  <1>10. CASE Noise
    <2>1. net' \subseteq Datagram
      <3>1. PICK k \in open, kind \in {"empty", "malformed"} :
               net' = net \cup {[kind |-> kind, port |-> port[k], chal |-> 0]}
        BY <1>10 DEF Noise
      <3>2. k = attempt /\ phase \in Opened
        BY DEF IInv, TypeOK, LoopInv, Phases, InTry, Opened
      <3>3. port[k] \in Ports
        BY <3>2 DEF IInv, LoopInv
      <3> QED
        BY <3>1, <3>3 DEF IInv, TypeOK, Datagram
    <2>2. noise' \in 0 .. MaxNoise
      BY <1>10 DEF Noise, IInv, TypeOK
    <2> QED
      BY <1>10, <2>1, <2>2 DEF Noise, IInv, TypeOK, LoopInv, client, server
  <1>11. CASE ServerChallenges
    <2>1. PICK d \in net, c \in Challenges :
             /\ \/ net' = (net \ {d}) \cup {[kind |-> "challenge", port |-> d.port, chal |-> c]}
                   /\ UNCHANGED dups
                \/ net' = net \cup {[kind |-> "challenge", port |-> d.port, chal |-> c]}
                   /\ dups < MaxDups /\ dups' = dups + 1
             /\ issued' = [issued EXCEPT ![d.port] = @ \cup {c}]
             /\ valid' = [valid EXCEPT ![d.port] = c]
      BY <1>11 DEF ServerChallenges
    <2>2. d.port \in Ports /\ c \in Nat
      BY ChallengesAssumption DEF IInv, TypeOK, Datagram
    <2>3. net' \subseteq Datagram /\ dups' \in 0 .. MaxDups
      BY <2>1, <2>2 DEF IInv, TypeOK, Datagram
    <2>4. issued' \in [Ports -> SUBSET Nat] /\ valid' \in [Ports -> Nat]
      BY <2>1, <2>2 DEF IInv, TypeOK
    <2> QED
      BY <1>11, <2>3, <2>4 DEF ServerChallenges, IInv, TypeOK, LoopInv, client
  <1>12. CASE ServerAnswers
    <2>1. net' \subseteq Datagram
      BY <1>12 DEF ServerAnswers, IInv, TypeOK, Datagram
    <2> QED
      BY <1>12, <2>1 DEF ServerAnswers, IInv, TypeOK, LoopInv, client, server
  <1>13. CASE UNCHANGED vars
    BY <1>13 DEF vars, client, server, IInv, TypeOK, LoopInv
  <1>14. CASE ResolveInTry
    <2>1. CASE phase' = "open" /\ UNCHANGED <<variant, attempt, calls, outcome, challenge, open, port>>
      BY <1>14, <2>1 DEF ResolveInTry, IInv, TypeOK, LoopInv, Phases, InTry, Opened, server
    <2>2. CASE TryFails("unresolved")
      <3>1. phase \in InTry /\ UNCHANGED <<net, server, dups, noise>>
        BY <1>14 DEF ResolveInTry, InTry
      <3> QED
        BY <2>2, <3>1, FailPreservesIInv DEF server, IInv, TypeOK, Errors
    <2> QED
      BY <1>14, <2>1, <2>2 DEF ResolveInTry
  <1> QED
    BY <1>1, <1>2, <1>3, <1>4, <1>5, <1>6, <1>7, <1>8, <1>9, <1>10, <1>11,
       <1>12, <1>13, <1>14
       DEF Next, Client, Environment, Finished

\* The invariant holds in every reachable state.
LEMMA InvariantIInv == Spec => []IInv
  BY InitIInv, NextIInv, PTL DEF Spec

\* Every reachable state of a query is well typed.
THEOREM TypeCorrect == Spec => []TypeOK
  BY InvariantIInv, PTL DEF IInv

\* Whichever way a try ends, its datagram socket has been told to close.
THEOREM SocketsClosed == Spec => []SocketPerTry
  <1>1. IInv => SocketPerTry
    BY DEF IInv, LoopInv, SocketPerTry
  <1> QED
    BY <1>1, InvariantIInv, PTL

-----------------------------------------------------------------------------
(* Challenges.  What makes the property inductive: the challenges on their *)
(* way to the client, and the one it holds, were given to that address too.*)

ChalInv ==
    /\ \A d \in net : d.kind \in {"challenge", "stat?"} => d.chal \in issued[d.port]
    /\ phase = "query" => challenge \in issued[port[attempt]]

\* No step puts a challenge into a datagram, or into the client, that the
\* server did not give to the address of that try.
LEMMA NextChalInv == IInv /\ ChalInv /\ [Next]_vars => ChalInv'
  <1> SUFFICES ASSUME IInv, ChalInv, [Next]_vars PROVE ChalInv'
    OBVIOUS
  <1>1. CASE Resolve \/ ResolveInTry \/ BeginTry \/ GiveUp \/ OpenSocket
    BY <1>1 DEF Resolve, ResolveInTry, TryFails, BeginTry, GiveUp, OpenSocket, server, ChalInv
  <1>2. CASE SendHandshake
    BY <1>2 DEF SendHandshake, Send, FromClient, server, ChalInv
  <1>3. CASE SendQuery
    BY <1>3 DEF SendQuery, Send, FromClient, server, ChalInv
  <1>4. CASE OpenFails \/ SendFails \/ RecvFails
    BY <1>4 DEF OpenFails, SendFails, RecvFails, TryFails, server, ChalInv
  <1>5. CASE ReadInvalid
    <2>1. \E d : Take(d)
      BY <1>5 DEF ReadInvalid, Received
    <2> QED
      BY <1>5, <2>1, TakeType DEF ReadInvalid, TryFails, server, ChalInv
  <1>6. CASE SkipEmpty
    <2>1. \E d : Take(d)
      BY <1>6 DEF SkipEmpty, Received
    <2>2. phase # "query"
      BY <1>6 DEF SkipEmpty, Awaiting
    <2> QED
      BY <1>6, <2>1, <2>2, TakeType DEF SkipEmpty, client, server, ChalInv
  <1>7. CASE ReadChallenge
    <2>1. PICK d \in net :
             d.kind = "challenge" /\ d.port = port[attempt] /\ Take(d) /\ TakeChallenge(d)
      BY <1>7 DEF ReadChallenge, Received
    <2>2. challenge' \in issued[port[attempt]]
      BY <2>1 DEF TakeChallenge, ChalInv
    <2> QED
      BY <1>7, <2>1, <2>2, TakeType DEF ReadChallenge, server, ChalInv
  <1>8. CASE ReadStat
    <2>1. \E d : Take(d)
      BY <1>8 DEF ReadStat, Received
    <2> QED
      BY <1>8, <2>1, TakeType DEF ReadStat, server, ChalInv
  <1>9. CASE Cancelled
    BY <1>9 DEF Cancelled, server, ChalInv
  <1>10. CASE Lose \/ Noise \/ ServerAnswers
    BY <1>10 DEF Lose, Noise, ServerAnswers, client, server, ChalInv
  <1>11. CASE ServerChallenges
    <2>1. PICK d \in net, c \in Challenges :
             /\ net' \subseteq net \cup {[kind |-> "challenge", port |-> d.port, chal |-> c]}
             /\ issued' = [issued EXCEPT ![d.port] = @ \cup {c}]
      BY <1>11 DEF ServerChallenges
    <2>2. d.port \in Ports
      BY DEF IInv, TypeOK, Datagram
    <2>3. /\ c \in issued'[d.port]
          /\ \A p \in Ports : issued[p] \subseteq issued'[p]
      BY <2>1, <2>2 DEF IInv, TypeOK
    <2>4. \A x \in net : x.port \in Ports
      BY DEF IInv, TypeOK, Datagram
    <2>5. phase = "query" => port[attempt] \in Ports
      BY DEF IInv, LoopInv, Opened
    <2> QED
      BY <1>11, <2>1, <2>3, <2>4, <2>5 DEF ServerChallenges, client, ChalInv
  <1>12. CASE UNCHANGED vars
    BY <1>12 DEF vars, client, server, ChalInv
  <1> QED
    BY <1>1, <1>2, <1>3, <1>4, <1>5, <1>6, <1>7, <1>8, <1>9, <1>10, <1>11, <1>12
       DEF Next, Client, Environment, Finished

\* Every query that goes out carries a challenge the server gave to the address
\* it is sent from, however requests and replies are lost, copied and reordered
\* and whichever ports the tries are given: never the initial 0, never the
\* challenge of another address.
THEOREM ChallengesBelong == Spec => []ChallengeWasIssued
  <1>1. Init => ChalInv
    BY DEF Init, ChalInv
  <1>2. ChalInv => ChallengeWasIssued
    BY DEF ChalInv, ChallengeWasIssued
  <1> QED
    BY <1>1, <1>2, InvariantIInv, NextChalInv, PTL DEF Spec

-----------------------------------------------------------------------------
(* Rejected datagrams.  While the network has made no copy and no noise, a *)
(* port that no earlier try had has at most one datagram under way, and it *)
(* is what the client waits for: that is why nothing is rejected there.    *)

Quiet == dups = 0 /\ noise = 0

\* The datagrams a port of its own may have under way in each phase.
Awaited ==
    CASE phase = "await_challenge" -> {"challenge?", "challenge"}
      [] phase = "await_stat" -> {"stat?", "stat"}
      [] OTHER -> {}

\* The port of this try is its own, and it is open.
OwnPort == phase \in Opened /\ ~PortReused(attempt)

Lockstep ==
    /\ \A d \in net : \E j \in 1 .. attempt : port[j] = d.port
    /\ \A d \in net : d.kind \in {"challenge?", "challenge", "stat?", "stat"}
    /\ OwnPort => \A d \in net : d.port = port[attempt] => d.kind \in Awaited
    /\ OwnPort => \A d, e \in net : d.port = port[attempt] /\ e.port = d.port => d = e
    /\ \A i \in 1 .. Len(calls) : calls[i] = "invalid" => PortReused(i)

QuietInv == Quiet => Lockstep

\* Datagrams that vanish leave the rest in step.
LEMMA FewerInLockstep ==
    ASSUME Lockstep, net' \subseteq net,
           UNCHANGED <<phase, attempt, calls, port>>
    PROVE  Lockstep'
  BY DEF Lockstep, Awaited, OwnPort, PortReused

\* A try that fails, with a rejection only on a port an earlier try had, leaves
\* what is under way to tries with the same port.
LEMMA FailInLockstep ==
    ASSUME IInv, Lockstep, phase \in InTry, NEW e \in Errors,
           e = "invalid" => PortReused(attempt),
           TryFails(e), net' \subseteq net
    PROVE  Lockstep'
  <1>1. calls' = Append(calls, e) /\ calls \in Seq(Errors) /\ Len(calls) + 1 = attempt
    BY TriesAssumption DEF TryFails, IInv, TypeOK, LoopInv
  <1>2. phase' = "loop" /\ attempt' = attempt /\ port' = port
    BY DEF TryFails
  <1>3. \A i \in 1 .. Len(calls') : calls'[i] = "invalid" => PortReused(i)
    BY <1>1 DEF Lockstep
  <1>4. \A i : PortReused(i)' <=> PortReused(i)
    BY <1>2 DEF PortReused
  <1>5. ~OwnPort'
    BY <1>2 DEF OwnPort, Opened
  <1> QED
    BY <1>2, <1>3, <1>4, <1>5 DEF Lockstep

\* A try's datagram goes out when its port, if its own, has none under way.
LEMMA SendInLockstep ==
    ASSUME IInv, Lockstep, NEW kind, NEW chal, NEW next, Send(kind, chal, next),
           \/ phase = "handshake" /\ kind = "challenge?" /\ next = "await_challenge"
           \/ phase = "query" /\ kind = "stat?" /\ next = "await_stat"
    PROVE  Lockstep'
  <1> DEFINE new == FromClient(kind, chal)
  <1>1. net' = net \cup {new} /\ new.port = port[attempt] /\ new.kind = kind
        /\ phase' = next /\ attempt' = attempt /\ calls' = calls /\ port' = port
    BY DEF Send, FromClient
  <1>2. attempt \in 1 .. attempt
    BY TriesAssumption DEF IInv, TypeOK, LoopInv, InTry
  <1>3. OwnPort => \A d \in net : d.port # port[attempt]
    BY DEF Lockstep, Awaited
  <1>4. kind \in Awaited'
    BY <1>1 DEF Awaited
  <1>5. \A i : PortReused(i)' <=> PortReused(i)
    BY <1>1 DEF PortReused
  <1>6. OwnPort' => OwnPort
    BY <1>1, <1>5 DEF OwnPort, Opened
  <1> HIDE DEF new
  <1> QED
    BY <1>1, <1>2, <1>3, <1>4, <1>5, <1>6 DEF Lockstep

\* A datagram the server answers gives its place to the answer.
LEMMA ReplyInLockstep ==
    ASSUME IInv, Lockstep, NEW d \in net, NEW r \in Datagram,
           net' = (net \ {d}) \cup {r}, r.port = d.port,
           \/ d.kind = "challenge?" /\ r.kind = "challenge"
           \/ d.kind = "stat?" /\ r.kind = "stat",
           UNCHANGED client
    PROVE  Lockstep'
  <1>1. UNCHANGED <<phase, attempt, calls, port>>
    BY DEF client
  <1>2. OwnPort /\ r.port = port[attempt] => r.kind \in Awaited
    BY DEF Lockstep, Awaited
  <1>3. OwnPort /\ r.port = port[attempt] => \A x \in net \ {d} : x.port # r.port
    BY DEF Lockstep
  <1>4. OwnPort' <=> OwnPort
    BY <1>1 DEF OwnPort, PortReused
  <1>5. Awaited' = Awaited
    BY <1>1 DEF Awaited
  <1>6. \A i : PortReused(i)' <=> PortReused(i)
    BY <1>1 DEF PortReused
  <1> QED
    BY <1>1, <1>2, <1>3, <1>4, <1>5, <1>6 DEF Lockstep

\* What a try receives on a quiet network, on a port of its own, is its only
\* datagram and of the kind it waits for.
LEMMA QuietTake ==
    ASSUME IInv, Lockstep, Quiet', Awaiting, NEW d, Received(d)
    PROVE  /\ net' = net \ {d}
           /\ OwnPort => d.kind = IF phase = "await_stat" THEN "stat" ELSE "challenge"
           /\ OwnPort => \A x \in net' : x.port # port[attempt]
  <1>1. net' = net \ {d}
    BY DEF Received, Take, Quiet, IInv, TypeOK
  <1>2. d \in net /\ d.port = port[attempt] /\ d.kind \in Replies
    BY DEF Received
  <1>3. OwnPort => d.kind = IF phase = "await_stat" THEN "stat" ELSE "challenge"
    BY <1>2 DEF Lockstep, Awaited, Awaiting, Replies
  <1>4. OwnPort => \A x \in net' : x.port # port[attempt]
    BY <1>1, <1>2 DEF Lockstep
  <1> QED
    BY <1>1, <1>3, <1>4

\* Every step keeps the exchange in step until a copy or noise is made.
LEMMA NextQuietInv == IInv /\ QuietInv /\ [Next]_vars => QuietInv'
  <1> SUFFICES ASSUME IInv, QuietInv, [Next]_vars, Quiet' PROVE Lockstep'
    BY DEF QuietInv
  <1>1. Quiet /\ Lockstep
    <2>1. dups \in Nat /\ noise \in Nat
      BY BoundsAssumption DEF IInv, TypeOK
    <2>2. (dups' = dups \/ dups' = dups + 1) /\ (noise' = noise \/ noise' = noise + 1)
      BY DEF Next, Client, Environment, Finished, Resolve, ResolveInTry, BeginTry,
             GiveUp, OpenSocket, OpenFails, SendHandshake, SendQuery, SendFails, Send,
             SkipEmpty, ReadChallenge, ReadStat, ReadInvalid, RecvFails, Received, Take,
             Cancelled, Lose, Noise, ServerChallenges, ServerAnswers, vars
    <2>3. Quiet
      BY <2>1, <2>2 DEF Quiet
    <2> QED
      BY <2>3 DEF QuietInv
  <1>2. CASE Resolve \/ GiveUp
    <2>1. UNCHANGED <<net, attempt, calls, port>> /\ phase' \notin Opened
      BY <1>2 DEF Resolve, GiveUp, Opened
    <2> QED
      BY <1>1, <2>1 DEF Lockstep, OwnPort, PortReused
  <1>3. CASE OpenSocket
    <2>1. PICK p \in Ports : port' = [port EXCEPT ![attempt] = p]
      BY <1>3 DEF OpenSocket
    <2>2. attempt \in Socket /\ port[attempt] = 0 /\ Len(calls) = attempt - 1
      BY <1>3, TriesAssumption DEF OpenSocket, IInv, TypeOK, LoopInv, InTry, Socket
    <2>3. \A j \in 1 .. attempt - 1 : port'[j] = port[j]
      BY <2>1, <2>2, TriesAssumption DEF IInv, TypeOK, Socket
    <2>4. net' = net /\ attempt' = attempt /\ calls' = calls
      BY <1>3 DEF OpenSocket
    <2>5. \A d \in net : \E j \in 1 .. attempt - 1 : port[j] = d.port
      <3>1. \A d \in net : d.port # 0 /\ \E j \in 1 .. attempt : port[j] = d.port
        BY <1>1, PortsAssumption DEF Lockstep, IInv, TypeOK, Datagram
      <3> QED
        BY <2>2, <3>1 DEF Socket
    <2>6. \A d \in net : \E j \in 1 .. attempt - 1 : port'[j] = d.port
      BY <2>3, <2>5
    <2>7. OwnPort' => \A d \in net : d.port # port'[attempt]
      BY <2>4, <2>6 DEF OwnPort, PortReused
    <2>8. \A i \in 1 .. Len(calls) : PortReused(i)' <=> PortReused(i)
      BY <2>2, <2>3 DEF PortReused, Socket
    <2>9. \A d \in net : \E j \in 1 .. attempt : port'[j] = d.port
      BY <2>2, <2>6 DEF Socket
    <2> QED
      BY <1>1, <2>4, <2>7, <2>8, <2>9 DEF Lockstep
  <1>4. CASE BeginTry
    <2>1. attempt \in Nat /\ attempt' = attempt + 1
          /\ UNCHANGED <<net, calls, port>> /\ phase' \notin Opened
      BY <1>4, TriesAssumption DEF BeginTry, Opened, IInv, TypeOK
    <2>2. \A d \in net : \E j \in 1 .. attempt' : port[j] = d.port
      BY <1>1, <2>1 DEF Lockstep
    <2> QED
      BY <1>1, <2>1, <2>2 DEF Lockstep, OwnPort, PortReused
  <1>5. CASE ResolveInTry
    <2>1. CASE TryFails("unresolved")
      BY <1>1, <1>5, <2>1, FailInLockstep DEF ResolveInTry, InTry, Errors
    <2>2. CASE phase' = "open" /\ UNCHANGED <<variant, attempt, calls, outcome, challenge, open, port>>
      BY <1>1, <1>5, <2>2 DEF ResolveInTry, Lockstep, OwnPort, PortReused, Opened
    <2> QED
      BY <1>5, <2>1, <2>2 DEF ResolveInTry
  <1>6. CASE OpenFails \/ SendFails \/ RecvFails
    <2>1. phase \in InTry /\ net' \subseteq net
      BY <1>6 DEF OpenFails, SendFails, RecvFails, Awaiting, InTry
    <2>2. PICK e \in Errors \ {"invalid"} : TryFails(e)
      BY <1>6 DEF OpenFails, SendFails, RecvFails, Errors
    <2> QED
      BY <1>1, <2>1, <2>2, FailInLockstep
  <1>7. CASE SendHandshake \/ SendQuery
    BY <1>1, <1>7, SendInLockstep DEF SendHandshake, SendQuery
  <1>8. CASE SkipEmpty
    <2>1. PICK d \in net : d.kind = "empty"
      BY <1>8 DEF SkipEmpty
    <2> QED
      BY <1>1, <2>1 DEF Lockstep
  <1>9. CASE ReadChallenge
    <2>1. PICK d \in net : d.kind = "challenge" /\ Received(d) /\ TakeChallenge(d)
      BY <1>9 DEF ReadChallenge
    <2>2. Awaiting
      BY <1>9 DEF ReadChallenge, Awaiting
    <2>3. net' = net \ {d} /\ (OwnPort => \A x \in net' : x.port # port[attempt])
      BY <1>1, <2>1, <2>2, QuietTake
    <2>4. UNCHANGED <<attempt, calls, port>> /\ phase \in Opened
      BY <1>9 DEF ReadChallenge, Opened
    <2>5. OwnPort' => OwnPort
      BY <2>4 DEF OwnPort, PortReused
    <2> QED
      BY <1>1, <2>3, <2>4, <2>5 DEF Lockstep, PortReused
  <1>10. CASE ReadStat
    <2>1. PICK d \in net : Received(d)
      BY <1>10 DEF ReadStat
    <2>2. Awaiting
      BY <1>10 DEF ReadStat, Awaiting
    <2>3. net' \subseteq net
      BY <1>1, <2>1, <2>2, QuietTake
    <2>4. UNCHANGED <<attempt, calls, port>> /\ phase' \notin Opened
      BY <1>10 DEF ReadStat, Opened
    <2> QED
      BY <1>1, <2>3, <2>4 DEF Lockstep, OwnPort, PortReused
  <1>11. CASE ReadInvalid
    <2>1. PICK d \in net :
             d.kind # (IF phase = "await_stat" THEN "stat" ELSE "challenge") /\ Received(d)
      BY <1>11 DEF ReadInvalid
    <2>2. Awaiting /\ TryFails("invalid")
      BY <1>11 DEF ReadInvalid
    <2>3. net' \subseteq net /\ ~OwnPort
      BY <1>1, <2>1, <2>2, QuietTake
    <2>4. phase \in InTry /\ PortReused(attempt)
      BY <2>2, <2>3 DEF OwnPort, Awaiting, Opened, InTry
    <2> QED
      BY <1>1, <2>2, <2>3, <2>4, FailInLockstep DEF Errors
  <1>12. CASE Cancelled
    <2>1. UNCHANGED <<net, attempt, calls, port>> /\ phase' \notin Opened
      BY <1>12 DEF Cancelled, Opened
    <2> QED
      BY <1>1, <2>1 DEF Lockstep, OwnPort, PortReused
  <1>13. CASE Lose
    BY <1>1, <1>13, FewerInLockstep DEF Lose, client
  <1>14. CASE Noise
    BY <1>1, <1>14 DEF Noise, Quiet
  <1>15. CASE ServerChallenges
    <2>1. PICK d \in net, c \in Challenges :
             /\ d.kind = "challenge?"
             /\ \/ net' = (net \ {d}) \cup {[kind |-> "challenge", port |-> d.port, chal |-> c]}
                \/ dups' = dups + 1
      BY <1>15 DEF ServerChallenges
    <2>2. net' = (net \ {d}) \cup {[kind |-> "challenge", port |-> d.port, chal |-> c]}
      BY <1>1, <2>1 DEF Quiet
    <2>3. [kind |-> "challenge", port |-> d.port, chal |-> c] \in Datagram
      BY ChallengesAssumption DEF IInv, TypeOK, Datagram
    <2> QED
      BY <1>1, <1>15, <2>1, <2>2, <2>3, ReplyInLockstep DEF ServerChallenges
  <1>16. CASE ServerAnswers
    <2>1. PICK d \in net :
             /\ d.kind = "stat?"
             /\ net' = (net \ {d}) \cup {[kind |-> "stat", port |-> d.port, chal |-> 0]}
      BY <1>16 DEF ServerAnswers
    <2>2. [kind |-> "stat", port |-> d.port, chal |-> 0] \in Datagram
      BY DEF IInv, TypeOK, Datagram
    <2> QED
      BY <1>1, <1>16, <2>1, <2>2, ReplyInLockstep DEF ServerAnswers
  <1>17. CASE UNCHANGED vars
    BY <1>1, <1>17, FewerInLockstep DEF vars, client
  <1> QED
    BY <1>2, <1>3, <1>4, <1>5, <1>6, <1>7, <1>8, <1>9, <1>10, <1>11, <1>12,
       <1>13, <1>14, <1>15, <1>16, <1>17
       DEF Next, Client, Environment, Finished

\* As long as the network makes no copies and no noise, a try whose port no
\* earlier try had never rejects a datagram, although handshake() and the query
\* identify no reply: whatever is lost, delayed or answered late, a port of
\* one's own keeps them in step.
THEOREM OwnPortKeepsStep == Spec => []RejectNeedsCopyOrReuse
  <1>1. Init => QuietInv
    BY DEF Init, QuietInv, Lockstep
  <1>2. IInv /\ QuietInv => RejectNeedsCopyOrReuse
    <2>1. IInv => dups \in Nat /\ noise \in Nat
      BY BoundsAssumption DEF IInv, TypeOK
    <2> QED
      BY <2>1 DEF QuietInv, Quiet, Lockstep, RejectNeedsCopyOrReuse
  <1> QED
    BY <1>1, <1>2, InvariantIInv, NextQuietInv, PTL DEF Spec

-----------------------------------------------------------------------------
(* The session is a run of the retry loop.                                 *)

\* A failing try is one failing call of the decorated function.
LEMMA FailIsRetryFail ==
    ASSUME IInv, phase \in InTry, NEW e \in Errors, TryFails(e)
    PROVE  R!Fail(e)
  <1>1. Len(calls) < Tries
    BY TriesAssumption DEF IInv, TypeOK, LoopInv
  <1> QED
    BY <1>1 DEF IInv, LoopInv, TryFails, R!Fail, R!Trying

\* Every step is a step of the retry wrapper or leaves its variables alone.
LEMMA StepIsRetryStep == IInv /\ [Next]_vars => [R!Next]_(R!vars)
  <1> SUFFICES ASSUME IInv, [Next]_vars PROVE [R!Next]_(R!vars)
    OBVIOUS
  <1> USE TriesAssumption
  <1>1. CASE Resolve
    BY <1>1 DEF Resolve, IInv, LoopInv, R!vars
  <1>2. CASE \/ BeginTry \/ OpenSocket \/ SendHandshake \/ SendQuery
             \/ SkipEmpty \/ ReadChallenge \/ Environment
    BY <1>2 DEF BeginTry, OpenSocket, SendHandshake, SendQuery, Send, SkipEmpty,
                ReadChallenge, Environment, Lose, Noise, ServerChallenges,
                ServerAnswers, client, R!vars
  <1>3. CASE GiveUp
    <2>1. outcome' # "dns" /\ outcome = "pending"
      BY <1>3 DEF GiveUp, IInv, TypeOK, LoopInv, Errors
    <2>2. R!RaiseLast
      BY <1>3, <2>1 DEF GiveUp, IInv, TypeOK, LoopInv, R!RaiseLast, R!LastExc
    <2> QED
      BY <2>2 DEF R!Next
  <1>4. CASE ReadStat
    <2>1. phase \in InTry
      BY <1>4 DEF ReadStat, InTry
    <2>2. Len(calls) < Tries /\ outcome = "pending"
      BY <2>1 DEF IInv, TypeOK, LoopInv
    <2>3. R!Return
      BY <1>4, <2>2 DEF ReadStat, R!Return, R!Trying
    <2> QED
      BY <2>3 DEF R!Next
  <1>5. CASE Cancelled
    <2>1. Len(calls) < Tries /\ outcome = "pending"
      BY <1>5 DEF Cancelled, IInv, TypeOK, LoopInv
    <2>2. R!Propagate("cancelled")
      BY <1>5, <2>1 DEF Cancelled, R!Propagate, R!Trying
    <2> QED
      BY <2>2 DEF R!Next
  <1>6. CASE \/ OpenFails \/ SendFails \/ RecvFails \/ ReadInvalid
             \/ ResolveInTry /\ TryFails("unresolved")
    <2>1. phase \in InTry /\ (\E e \in Errors : TryFails(e))
      BY <1>6 DEF OpenFails, SendFails, RecvFails, ReadInvalid, ResolveInTry,
                  Awaiting, InTry, Errors
    <2> QED
      BY <2>1, FailIsRetryFail DEF R!Next
  <1>7. CASE UNCHANGED vars
    BY <1>7 DEF vars, client, R!vars
  <1>8. CASE ResolveInTry /\ phase' = "open"
    BY <1>8 DEF ResolveInTry, TryFails, R!vars
  <1> QED
    BY <1>1, <1>2, <1>3, <1>4, <1>5, <1>6, <1>7, <1>8
       DEF Next, Client, Finished, ResolveInTry

\* Every behaviour of a query is, for the variables of the retry wrapper, a
\* behaviour of the decorator, the resolution of the host being no part of it.
THEOREM QueryImplementsRetry == Spec => ImplementsRetry
  <1>1. Init => R!Init
    BY DEF Init, R!Init
  <1> QED
    BY <1>1, InvariantIInv, StepIsRetryStep, PTL DEF Spec, ImplementsRetry, R!Spec
=============================================================================
