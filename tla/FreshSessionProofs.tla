------------------------- MODULE FreshSessionProofs -------------------------
(***************************************************************************)
(* Proofs about the calls whose every try opens a connection of its own,   *)
(* for every number of tries, every set of ports and every number of       *)
(* copies.                                                                 *)
(***************************************************************************)
EXTENDS FreshSession, FiniteSetTheorems, SequenceTheorems, TLAPS

-----------------------------------------------------------------------------
(* The table of the steps.                                                 *)

\* In a table without repetition the step after the i-th is the next one.
LEMMA AfterIsNext ==
    ASSUME NEW i \in DOMAIN Steps[kind],
           \A j \in DOMAIN Steps[kind] : Steps[kind][j] = Steps[kind][i] => j = i
    PROVE  After(Steps[kind][i]) = Steps[kind][i + 1]
  BY DEF After

\* What the table says of the steps of each call.
LEMMA Table ==
    ASSUME kind \in Kinds
    PROVE  /\ Head(Steps[kind]) = IF kind \in {"java", "legacy_rust"} THEN "resolve" ELSE "open"
           /\ After("open") = IF kind = "java" THEN "handshake"
                              ELSE IF kind = "bedrock_rust" THEN "resolve" ELSE "request"
           /\ kind = "java" => After("handshake") = "request"
           /\ kind \in Rust =>
                  After("resolve") = IF kind = "bedrock_rust" THEN "request" ELSE "open"
           /\ After("request") = "answer"
           /\ IsLast("answer") <=> kind \notin With
           /\ kind \in With => After("answer") = "close"
  <1> USE DEF Rust, With
  <1>1. CASE kind = "java"
    <2>1. Steps[kind] = <<"resolve", "open", "handshake", "request", "answer">>
      BY <1>1 DEF Steps
    <2> QED
      BY <1>1, <2>1, AfterIsNext DEF IsLast
  <1>2. CASE kind = "legacy_rust"
    <2>1. Steps[kind] = <<"resolve", "open", "request", "answer">>
      BY <1>2 DEF Steps
    <2> QED
      BY <1>2, <2>1, AfterIsNext DEF IsLast
  <1>3. CASE kind = "bedrock_rust"
    <2>1. Steps[kind] = <<"open", "resolve", "request", "answer">>
      BY <1>3 DEF Steps
    <2> QED
      BY <1>3, <2>1, AfterIsNext DEF IsLast
  <1>4. CASE kind \in With
    <2>1. Steps[kind] = <<"open", "request", "answer", "close">>
      BY <1>4 DEF Steps
    <2> QED
      BY <1>4, <2>1, AfterIsNext DEF IsLast
  <1>5. CASE kind \in {"bedrock_sync", "bedrock_async"}
    <2>1. Steps[kind] = <<"open", "request", "answer">>
      BY <1>5 DEF Steps
    <2> QED
      BY <1>5, <2>1, AfterIsNext DEF IsLast
  <1> QED
    BY <1>1, <1>2, <1>3, <1>4, <1>5 DEF Kinds, Steps

-----------------------------------------------------------------------------
(* The inductive invariant.  TypeOK alone is not inductive: the step the   *)
(* try is at fixes how many tries failed and which sockets are open.       *)

\* Which calls have which step, and the count of the failed tries.
LoopInv ==
    /\ doing = "resolve" => kind \in Rust
    /\ doing = "handshake" => kind = "java"
    /\ doing = "close" => kind \in With
    /\ doing = "loop" => outcome = "pending" /\ Len(calls) = attempt
    /\ doing \in InTry => outcome = "pending" /\ attempt >= 1 /\ Len(calls) = attempt - 1
    /\ doing = "done" => outcome # "pending"

\* The calls whose last exception may keep a socket.
Leaky == {"bedrock_sync", "legacy_sync"}

AtMostOne(s) == \E k : s \subseteq {k}
AtMostTwo(s) == \E j, k : s \subseteq {j, k}

\* One and another are two.
LEMMA OneMore ==
    ASSUME NEW s, AtMostOne(s), NEW t, NEW x, t \subseteq s \cup {x}
    PROVE  AtMostTwo(t)
  <1>1. PICK k : s \subseteq {k}
    BY DEF AtMostOne
  <1>2. t \subseteq {k, x}
    BY <1>1
  <1> QED
    BY <1>2 DEF AtMostTwo

\* A socket kept by an exception is that of the last try that failed; during a
\* call only the event loop has a socket to close, and no more than one.
SocketInv ==
    /\ open \subseteq {attempt - 1, attempt}
    /\ doing = "loop" => open \subseteq {attempt}
    /\ kind \notin Leaky => open \subseteq {attempt} /\ (doing = "loop" => open = {})
    /\ kind \in Rust => leaving = {}
    /\ doing # "done" /\ kind \notin Async => leaving = {}
    /\ doing # "done" => AtMostOne(leaving)
    /\ doing \in {"answer", "close"} => leaving = {}
    /\ doing = "done" => open = {} /\ AtMostTwo(leaving)
    /\ outcome = "returned" => AtMostOne(leaving)

\* While the socket of the try before is open, its port is not given again.  The
\* sync Bedrock client keeps it unless it failed in parsing.
PortInv ==
    /\ \A k \in Socket : k > attempt => port[k] = 0
    /\ kind = "bedrock_sync" =>
        /\ doing = "loop" /\ attempt >= 1 =>
               attempt \in open \/ port[attempt] = 0 \/ calls[attempt] = "invalid"
        /\ doing = "open" =>
               /\ port[attempt] = 0
               /\ attempt >= 2 => \/ attempt - 1 \in open \/ port[attempt - 1] = 0
                                 \/ calls[attempt - 1] = "invalid"
        /\ doing \in {"request", "answer"} =>
               /\ attempt \in open
               /\ attempt >= 2 => \/ port[attempt - 1] # port[attempt]
                                 \/ calls[attempt - 1] = "invalid"

\* No message is of a try to come.
AnswerInv ==
    /\ \A d \in net : d.from <= attempt
    /\ doing = "close" => received = attempt
    /\ AnswerIsFresh

IInv == TypeOK /\ LoopInv /\ SocketInv /\ PortInv /\ AnswerInv /\ InterruptIsObeyed

\* Between the call and its first try there is no socket and no message.
LEMMA InitIInv == Init => IInv
  <1> SUFFICES ASSUME Init PROVE IInv
    OBVIOUS
  <1>1. TypeOK
    <2>1. interrupted \in BOOLEAN
      BY DEF Init
    <2> QED
      BY <2>1, TriesAssumption, DupsAssumption DEF Init, TypeOK
  <1>2. LoopInv /\ SocketInv
    BY DEF Init, LoopInv, SocketInv, AtMostOne, InTry
  <1>3. PortInv /\ AnswerInv /\ InterruptIsObeyed
    BY DEF Init, PortInv, AnswerInv, AnswerIsFresh, InterruptIsObeyed
  <1> QED
    BY <1>1, <1>2, <1>3 DEF IInv

\* A try that fails, with at most its own socket kept and one socket left to the
\* event loop.
LEMMA FailKeepsIInv ==
    ASSUME IInv, doing \in InTry, NEW e \in Errors,
           NEW kept \in SUBSET {attempt}, NEW late \in SUBSET Socket,
           FailsKeeping(e, kept, late), orphaned' \subseteq Socket,
           kind \notin Leaky => kept = {}, kind \notin Async => late = {}, AtMostOne(late),
           kind = "bedrock_sync" => attempt \in kept \/ port[attempt] = 0 \/ e = "invalid",
           net' \subseteq net, received' = received, dups' \in 0 .. MaxDups,
           interrupted' \in BOOLEAN, interrupted' = interrupted \/ e = "close"
    PROVE  IInv'
  <1>0. attempt \in Socket /\ attempt \in Nat /\ outcome = "pending" /\ Len(calls) = attempt - 1
    BY TriesAssumption DEF IInv, TypeOK, LoopInv, Socket
  <1>1. /\ calls' \in Seq(Errors) /\ Len(calls') = Len(calls) + 1 /\ Len(calls) \in Nat
        /\ calls'[Len(calls')] = e
        /\ \A i \in 1 .. Len(calls) : calls'[i] = calls[i]
    BY DEF IInv, TypeOK, FailsKeeping
  <1>2. doing' = "loop" /\ open' = kept /\ leaving' = late /\ UNCHANGED <<kind, attempt, outcome, port>>
    BY DEF FailsKeeping
  <1>3. TypeOK'
    BY <1>0, <1>1, <1>2, TriesAssumption DEF IInv, TypeOK
  <1>4. LoopInv'
    BY <1>0, <1>1, <1>2 DEF LoopInv, InTry
  <1>5. SocketInv'
    <2>1. kind \in Rust => kind \notin Async
      BY DEF Rust, Async
    <2> QED
      BY <1>0, <1>2, <2>1 DEF SocketInv, AtMostOne
  <1>6. PortInv'
    <2>1. kind = "bedrock_sync" => attempt \in kept \/ port[attempt] = 0 \/ calls'[attempt] = "invalid"
      BY <1>0, <1>1
    <2> QED
      BY <1>0, <1>2, <2>1 DEF IInv, PortInv
  <1>7. AnswerInv'
    BY <1>0, <1>2 DEF IInv, AnswerInv, AnswerIsFresh
  <1>8. InterruptIsObeyed'
    <2>1. CASE e = "close"
      BY <1>1, <2>1 DEF InterruptIsObeyed
    <2>2. CASE interrupted' = interrupted
      BY <1>0, <1>1, <1>2, <2>2 DEF IInv, InterruptIsObeyed
    <2> QED
      BY <2>1, <2>2
  <1> QED
    BY <1>3, <1>4, <1>5, <1>6, <1>7, <1>8 DEF IInv

\* Closing raises at the end of a `with`.
LEMMA CloseRaiseKeepsIInv ==
    ASSUME IInv, doing \in InTry, CloseRaises, orphaned' = orphaned,
           net' \subseteq net, received' = received, dups' \in 0 .. MaxDups,
           interrupted' \in BOOLEAN
    PROVE  IInv'
  <1> DEFINE kept == IF kind = "legacy_sync" THEN {attempt} ELSE {}
  <1>1. FailsKeeping("close", kept, {}) /\ kind \in With /\ kind # "bedrock_sync"
    BY DEF CloseRaises, With
  <1>2. kept \in SUBSET {attempt} /\ "close" \in Errors /\ (kind \notin Leaky => kept = {})
    BY DEF Errors, Leaky
  <1>3. orphaned' \subseteq Socket
    BY DEF IInv, TypeOK
  <1>4. {} \in SUBSET Socket /\ AtMostOne({})
    BY DEF AtMostOne
  <1> HIDE DEF kept
  <1> QED
    BY <1>1, <1>2, <1>3, <1>4, FailKeepsIInv

\* A step after the connection is made fails, and closing it may fail as well.
LEMMA TryFailKeepsIInv ==
    ASSUME IInv, doing \in InTry \ {"open"}, NEW e \in Errors, TryFails(e),
           net' \subseteq net, received' = received, dups' \in 0 .. MaxDups,
           interrupted' = interrupted
    PROVE  IInv'
  <1>0. /\ interrupted' \in BOOLEAN /\ orphaned' = orphaned /\ orphaned' \subseteq Socket
        /\ kind = "bedrock_sync" => doing \in {"request", "answer"}
        /\ kind = "bedrock_sync" => attempt \in open
    <2>1. kind = "bedrock_sync" => doing \in {"request", "answer"}
      BY DEF IInv, LoopInv, InTry, Rust, With
    <2>2. kind = "bedrock_sync" => attempt \in open
      BY <2>1 DEF IInv, PortInv
    <2>3. orphaned' = orphaned /\ orphaned \subseteq Socket
      BY DEF TryFails, IInv, TypeOK
    <2> QED
      BY <2>1, <2>2, <2>3 DEF IInv, TypeOK
  <1>1. CASE FailsKeeping(e, Surviving, ClosedLate)
    <2>1. Surviving \in SUBSET {attempt}
      BY DEF Surviving
    <2>2. kind \notin Leaky => Surviving = {}
      BY DEF Surviving, Leaky
    <2>3. kind = "bedrock_sync" => attempt \in Surviving
      BY <1>0 DEF Surviving
    <2>4. ClosedLate \in SUBSET Socket /\ AtMostOne(ClosedLate) /\ (kind \notin Async => ClosedLate = {})
      BY DEF ClosedLate, AtMostOne, Async, Leaky, IInv, TypeOK, SocketInv
    <2> QED
      BY <1>0, <1>1, <2>1, <2>2, <2>3, <2>4, FailKeepsIInv
  <1>2. CASE CloseRaises
    BY <1>0, <1>2, CloseRaiseKeepsIInv
  <1> QED
    BY <1>1, <1>2 DEF TryFails

\* A call that returns leaves at most one socket.
LEMMA ReturnKeepsSockets ==
    ASSUME IInv, doing \in {"answer", "close"}, Returns
    PROVE  SocketInv' /\ leaving' \subseteq Socket
  <1>1. /\ open' = {} /\ leaving' = (open \ {attempt}) \cup ClosedLate
        /\ doing' = "done" /\ UNCHANGED <<kind, attempt>>
    BY DEF Returns
  <1>2. kind \in Rust => leaving' = {}
    BY <1>1 DEF IInv, SocketInv, ClosedLate, Rust, Leaky
  <1>3. AtMostOne(leaving') /\ leaving' \subseteq Socket
    <2>1. CASE kind \in Leaky
      BY <1>1, <2>1 DEF AtMostOne, Leaky, ClosedLate, IInv, TypeOK, SocketInv
    <2>2. CASE kind \notin Leaky
      BY <1>1, <2>2 DEF AtMostOne, ClosedLate, IInv, TypeOK, SocketInv
    <2> QED
      BY <2>1, <2>2
  <1>4. AtMostTwo(leaving')
    BY <1>3 DEF AtMostOne, AtMostTwo
  <1> QED
    BY <1>1, <1>2, <1>3, <1>4 DEF SocketInv

\* What is taken off the network, or copied.
LEMMA TakeFacts ==
    ASSUME IInv, NEW d \in net, Take(d)
    PROVE  /\ net' \subseteq net /\ dups' \in 0 .. MaxDups
           /\ d.from \in Socket /\ d.from <= attempt /\ d.from \in Nat
           /\ Reaches(d)
  <1>1. net' \subseteq net /\ dups' \in 0 .. MaxDups
    BY DupsAssumption DEF Take, IInv, TypeOK
  <1>2. d.from \in Socket
    BY DEF IInv, TypeOK, Message
  <1> QED
    BY <1>1, <1>2, TriesAssumption DEF Take, IInv, AnswerInv, Socket

\* The loop goes on: a new try, whose socket is none of the open ones.
LEMMA BeginKeepsIInv == ASSUME IInv, BeginTry PROVE IInv'
  <1>0. /\ doing' = Head(Steps[kind]) /\ attempt' = attempt + 1
        /\ doing = "loop" /\ attempt < Tries
        /\ UNCHANGED <<kind, calls, outcome, open, leaving, orphaned, port>>
        /\ UNCHANGED <<net, received, interrupted, dups>>
    BY DEF BeginTry, socket
  <1>1. /\ doing' \in {"resolve", "open"} /\ doing' \in InTry /\ doing' # "loop"
        /\ doing' = "resolve" => kind \in Rust
    BY <1>0, Table DEF IInv, TypeOK, InTry, Rust
  <1>2. attempt \in Nat /\ attempt' \in 1 .. Tries /\ Tries \in Nat /\ Len(calls) = attempt /\ outcome = "pending"
    BY <1>0, TriesAssumption DEF IInv, TypeOK, LoopInv
  <1>3. TypeOK'
    BY <1>0, <1>1, <1>2 DEF IInv, TypeOK
  <1>4. LoopInv'
    BY <1>0, <1>1, <1>2 DEF LoopInv
  <1>5. SocketInv'
    BY <1>0, <1>1, <1>2 DEF IInv, SocketInv, AtMostOne
  <1>6. PortInv'
    <2>1. \A k \in Socket : k > attempt' => port'[k] = 0
      BY <1>0, <1>2 DEF IInv, PortInv, Socket
    <2>2. attempt' \in Socket /\ port'[attempt'] = 0
      BY <1>0, <1>2 DEF IInv, PortInv, Socket
    <2>3. kind = "bedrock_sync" /\ attempt' >= 2 =>
             \/ attempt' - 1 \in open' \/ port'[attempt' - 1] = 0
             \/ calls'[attempt' - 1] = "invalid"
      BY <1>0, <1>2 DEF IInv, PortInv
    <2> QED
      BY <1>0, <1>1, <2>1, <2>2, <2>3 DEF PortInv
  <1>7. AnswerInv'
    <2>1. \A d \in net : d.from \in Nat /\ d.from <= attempt
      BY <1>2 DEF IInv, AnswerInv, TypeOK, Message, Socket
    <2> QED
      BY <1>0, <1>1, <1>2, <2>1 DEF AnswerInv, AnswerIsFresh
  <1>8. InterruptIsObeyed'
    BY <1>0 DEF IInv, InterruptIsObeyed
  <1> QED
    BY <1>3, <1>4, <1>5, <1>6, <1>7, <1>8 DEF IInv

\* A socket is opened: its port is that of no open socket.
LEMMA OpenKeepsIInv == ASSUME IInv, Open PROVE IInv'
  <1>0. /\ doing = "open" /\ doing' = After("open") /\ open' = open \cup {attempt}
        /\ UNCHANGED <<kind, attempt, calls, outcome, leaving, orphaned>>
        /\ UNCHANGED <<net, received, interrupted, dups>>
    BY DEF Open, wrapper
  <1>1. /\ doing' \in {"handshake", "resolve", "request"} /\ doing' \in InTry
        /\ doing' = "resolve" => kind \in Rust
        /\ doing' = "handshake" => kind = "java"
    BY <1>0, Table DEF IInv, TypeOK, InTry, Rust
  <1>2. attempt \in Socket /\ attempt \in Nat /\ attempt >= 1
        /\ outcome = "pending" /\ Len(calls) = attempt - 1
    BY <1>0, TriesAssumption DEF IInv, TypeOK, LoopInv, Socket, InTry
  <1>3. /\ port' \in [Socket -> Ports \cup {0}]
        /\ \A k \in Socket : k # attempt => port'[k] = port[k]
    BY <1>0, <1>2 DEF Open, IInv, TypeOK
  <1>4. TypeOK'
    BY <1>0, <1>1, <1>2, <1>3 DEF IInv, TypeOK
  <1>5. LoopInv'
    BY <1>0, <1>1, <1>2 DEF LoopInv
  <1>6. SocketInv'
    BY <1>0, <1>1, <1>2 DEF IInv, SocketInv, InTry, AtMostOne
  <1>7. PortInv'
    <2>1. \A k \in Socket : k > attempt' => port'[k] = 0
      BY <1>0, <1>2, <1>3 DEF IInv, PortInv, Socket
    <2>2. ASSUME kind = "bedrock_sync", attempt >= 2
          PROVE  port'[attempt - 1] # port'[attempt] \/ calls'[attempt - 1] = "invalid"
      <3>1. PICK p \in Ports \ {port[k] : k \in open \cup leaving} : port' = [port EXCEPT ![attempt] = p]
        BY <2>2 DEF Open, Udp
      <3>2. port'[attempt] = p /\ p # 0
        BY <1>2, <3>1, PortsAssumption DEF IInv, TypeOK
      <3>3. attempt - 1 \in Socket /\ attempt - 1 # attempt
        BY <1>2, <2>2, TriesAssumption DEF Socket
      <3>4. port'[attempt - 1] = port[attempt - 1]
        BY <1>3, <3>3
      <3>5. CASE attempt - 1 \in open
        BY <3>1, <3>2, <3>4, <3>5
      <3>6. CASE port[attempt - 1] = 0
        BY <3>2, <3>4, <3>6
      <3> QED
        BY <1>0, <2>2, <3>5, <3>6 DEF IInv, PortInv
    <2> QED
      BY <1>0, <1>1, <2>1, <2>2 DEF PortInv, InTry
  <1>8. AnswerInv'
    BY <1>0, <1>1, <1>2 DEF IInv, AnswerInv, AnswerIsFresh
  <1>9. InterruptIsObeyed'
    BY <1>0 DEF IInv, InterruptIsObeyed
  <1> QED
    BY <1>4, <1>5, <1>6, <1>7, <1>8, <1>9 DEF IInv

\* The other steps of a try that goes on.
LEMMA SendKeepsIInv == ASSUME IInv, Resolve \/ Send PROVE IInv'
  <1>0. /\ doing \in {"resolve", "handshake", "request"} /\ doing' = After(doing)
        /\ UNCHANGED <<kind, attempt, calls, outcome, open, orphaned, port>>
        /\ UNCHANGED <<received, interrupted, dups>>
        /\ leaving' = {} \/ leaving' = leaving
        /\ doing = "request" => leaving' = {}
    BY DEF Resolve, Send, wrapper, socket
  <1>1. /\ doing' \in {"open", "request", "answer"}
        /\ doing' \in {"open", "request"} => kind \in Rust
        /\ kind \in Rust => kind # "bedrock_sync"
        /\ doing' = "answer" => doing = "request"
    BY <1>0, Table DEF IInv, TypeOK, LoopInv, Rust, InTry
  <1>2. attempt \in Socket /\ attempt \in Nat /\ attempt >= 1
        /\ outcome = "pending" /\ Len(calls) = attempt - 1
    BY <1>0, TriesAssumption DEF IInv, TypeOK, LoopInv, Socket, InTry
  <1>3. net' \subseteq Message /\ \A d \in net' : d.from <= attempt
    <2>1. net' \subseteq net \cup {[what |-> "request", from |-> attempt]}
      BY DEF Resolve, Send
    <2> QED
      BY <1>2, <2>1 DEF IInv, TypeOK, AnswerInv, Message
  <1>4. TypeOK'
    BY <1>0, <1>1, <1>2, <1>3 DEF IInv, TypeOK, InTry
  <1>5. LoopInv'
    BY <1>0, <1>1, <1>2 DEF LoopInv
  <1>6. SocketInv'
    BY <1>0, <1>1, <1>2 DEF IInv, SocketInv, AtMostOne
  <1>7. PortInv'
    BY <1>0, <1>1, <1>2 DEF IInv, PortInv
  <1>8. AnswerInv'
    BY <1>0, <1>1, <1>2, <1>3 DEF AnswerInv, AnswerIsFresh
  <1>9. InterruptIsObeyed'
    BY <1>0 DEF IInv, InterruptIsObeyed
  <1> QED
    BY <1>4, <1>5, <1>6, <1>7, <1>8, <1>9 DEF IInv

\* An answer is read: it reached the socket of this try, whose port the try
\* before had not, if the sync Bedrock client kept its socket.
LEMMA ReceiveKeepsIInv == ASSUME IInv, Receive PROVE IInv'
  <1>1. PICK d \in net : d.what = "answer" /\ Take(d) /\ received' = d.from
    BY DEF Receive
  <1>2. /\ net' \subseteq net /\ dups' \in 0 .. MaxDups
        /\ d.from \in Socket /\ d.from <= attempt /\ d.from \in Nat /\ Reaches(d)
    BY <1>1, TakeFacts
  <1>3. /\ attempt \in Socket /\ attempt \in Nat /\ attempt >= 1 /\ doing = "answer"
        /\ outcome = "pending" /\ Len(calls) = attempt - 1
    BY TriesAssumption DEF Receive, IInv, TypeOK, LoopInv, Socket, InTry
  <1>4. kind \notin Udp => received' = attempt
    BY <1>1, <1>2 DEF Reaches
  <1>5. kind \in Udp => port[received'] = port[attempt]
    BY <1>1, <1>2 DEF Reaches
  <1>6. kind = "bedrock_sync" /\ received' = attempt - 1 => calls[attempt - 1] = "invalid"
    <2>1. kind = "bedrock_sync" /\ attempt >= 2 =>
             port[attempt - 1] # port[attempt] \/ calls[attempt - 1] = "invalid"
      BY <1>3 DEF IInv, PortInv
    <2>2. received' >= 1
      BY <1>1, <1>2 DEF Socket
    <2> QED
      BY <1>3, <1>5, <2>1, <2>2 DEF Udp
  <1>7. received' \in 0 .. Tries /\ interrupted' = interrupted
    BY <1>1, <1>2, TriesAssumption DEF Receive, Socket
  <1>8. CASE kind \notin With
    <2>0. Returns
      BY <1>8, Table DEF Receive, IInv, TypeOK
    <2>1. /\ outcome' = "returned" /\ doing' = "done" /\ open' = {}
          /\ UNCHANGED <<kind, attempt, calls, orphaned, port>>
      BY <2>0 DEF Returns
    <2>3. SocketInv' /\ leaving' \subseteq Socket /\ PortInv'
      BY <1>3, <2>0, <2>1, ReturnKeepsSockets DEF IInv, PortInv
    <2>2. TypeOK' /\ LoopInv'
      BY <1>2, <1>7, <2>1, <2>3 DEF IInv, TypeOK, LoopInv, InTry
    <2>4. AnswerInv'
      BY <1>1, <1>2, <1>3, <1>4, <1>5, <1>6, <2>1 DEF IInv, AnswerInv, AnswerIsFresh
    <2>5. InterruptIsObeyed'
      BY <1>3, <1>7, <2>1 DEF IInv, InterruptIsObeyed
    <2> QED
      BY <2>2, <2>3, <2>4, <2>5 DEF IInv
  <1>9. CASE kind \in With
    <2>1. /\ doing' = "close" /\ UNCHANGED <<kind, attempt, calls, outcome>>
          /\ UNCHANGED <<open, leaving, orphaned, port>>
      BY <1>9, Table DEF Receive, IInv, TypeOK, wrapper, socket
    <2>2. TypeOK' /\ LoopInv'
      BY <1>2, <1>3, <1>7, <1>9, <2>1 DEF IInv, TypeOK, LoopInv, InTry
    <2>3. SocketInv' /\ PortInv'
      BY <1>3, <1>9, <2>1 DEF IInv, SocketInv, AtMostOne, PortInv, With
    <2>4. AnswerInv'
      BY <1>2, <1>3, <1>4, <1>9, <2>1 DEF IInv, AnswerInv, AnswerIsFresh, With, Udp
    <2>5. InterruptIsObeyed'
      BY <1>7, <2>1 DEF IInv, InterruptIsObeyed
    <2> QED
      BY <2>2, <2>3, <2>4, <2>5 DEF IInv
  <1> QED
    BY <1>8, <1>9

\* Every way a try can fail.
LEMMA FailureKeepsIInv ==
    ASSUME IInv, OpenFails \/ SendFails \/ ReceiveBad \/ RecvFails PROVE IInv'
  <1>1. CASE OpenFails
    <2>0. /\ doing = "open" /\ doing \in InTry /\ interrupted' \in BOOLEAN
          /\ net' \subseteq net /\ received' = received /\ interrupted' = interrupted
          /\ dups' \in 0 .. MaxDups
      BY <1>1 DEF OpenFails, InTry, IInv, TypeOK
    <2>1. kind = "bedrock_sync" => port[attempt] = 0
      BY <2>0 DEF IInv, PortInv
    <2>2. attempt \in Socket /\ leaving \subseteq Socket /\ orphaned \subseteq Socket
      BY <2>0, TriesAssumption DEF IInv, TypeOK, LoopInv, Socket
    <2>3. /\ AtMostOne(leaving) /\ AtMostOne({attempt}) /\ AtMostOne({})
          /\ kind \notin Async => leaving = {}
      BY <2>0 DEF IInv, SocketInv, AtMostOne
    <2>4. ASSUME NEW e \in {"timeout", "closed", "dns"}, FailsKeeping(e, {}, leaving),
                 UNCHANGED orphaned
          PROVE  IInv'
      <3>1. e \in Errors
        BY DEF Errors
      <3> QED
        BY <2>0, <2>1, <2>2, <2>3, <2>4, <3>1, FailKeepsIInv
    <2>5. CASE kind \in Async /\ FailsKeeping("timeout", {}, {attempt}) /\ UNCHANGED orphaned
      <3>1. "timeout" \in Errors /\ kind # "bedrock_sync"
        BY <2>5 DEF Errors, Async
      <3> QED
        BY <2>0, <2>2, <2>3, <2>5, <3>1, FailKeepsIInv
    <2>6. CASE kind = "legacy_sync" /\ FailsKeeping("closed", {attempt}, {}) /\ UNCHANGED orphaned
      <3>1. "closed" \in Errors /\ kind \in Leaky /\ kind # "bedrock_sync"
        BY <2>6 DEF Errors, Leaky
      <3> QED
        BY <2>0, <2>2, <2>3, <2>6, <3>1, FailKeepsIInv
    <2>7. CASE /\ kind = "legacy_async" /\ FailsKeeping("closed", {}, {})
               /\ orphaned' = orphaned \cup {attempt}
      <3>1. "closed" \in Errors /\ kind # "bedrock_sync" /\ orphaned' \subseteq Socket
        BY <2>2, <2>7 DEF Errors
      <3> QED
        BY <2>0, <2>2, <2>3, <2>7, <3>1, FailKeepsIInv
    <2> QED
      BY <1>1, <2>4, <2>5, <2>6, <2>7 DEF OpenFails
  <1>2. CASE SendFails \/ RecvFails
    <2>1. /\ doing \in InTry \ {"open"} /\ (\E e \in Errors : TryFails(e))
          /\ net' \subseteq net /\ received' = received /\ interrupted' = interrupted
          /\ dups' \in 0 .. MaxDups
      BY <1>2 DEF SendFails, RecvFails, InTry, Errors, IInv, TypeOK
    <2> QED
      BY <2>1, TryFailKeepsIInv
  <1>3. CASE ReceiveBad
    <2>1. /\ doing \in InTry \ {"open"} /\ doing \in InTry /\ "invalid" \in Errors
          /\ received' = received /\ interrupted' = interrupted
          /\ \E d \in net : Take(d)
      BY <1>3 DEF ReceiveBad, InTry, Errors
    <2>2. net' \subseteq net /\ dups' \in 0 .. MaxDups
      BY <2>1, TakeFacts
    <2>3. CASE TryFails("invalid")
      BY <2>1, <2>2, <2>3, TryFailKeepsIInv
    <2>4. CASE FailsKeeping("invalid", {}, {}) /\ UNCHANGED orphaned
      <3>1. orphaned' \subseteq Socket /\ interrupted' \in BOOLEAN /\ AtMostOne({})
        BY <2>1, <2>4 DEF IInv, TypeOK, AtMostOne
      <3> QED
        BY <2>1, <2>2, <2>4, <3>1, FailKeepsIInv
    <2> QED
      BY <1>3, <2>3, <2>4 DEF ReceiveBad
  <1> QED
    BY <1>1, <1>2, <1>3

\* The end of the `with`.
LEMMA CloseKeepsIInv == ASSUME IInv, Close PROVE IInv'
  <1>0. /\ doing = "close" /\ doing \in InTry /\ outcome = "pending"
        /\ UNCHANGED <<net, received, interrupted, dups>>
    BY DEF Close, IInv, LoopInv, InTry
  <1>1. CASE Returns
    <2>1. /\ outcome' = "returned" /\ doing' = "done" /\ open' = {}
          /\ UNCHANGED <<kind, attempt, calls, orphaned, port>>
      BY <1>1 DEF Returns
    <2>2. SocketInv' /\ leaving' \subseteq Socket /\ PortInv'
      BY <1>0, <1>1, <2>1, ReturnKeepsSockets DEF IInv, PortInv
    <2>3. TypeOK' /\ LoopInv'
      BY <1>0, <2>1, <2>2 DEF IInv, TypeOK, LoopInv, InTry
    <2>4. AnswerInv'
      BY <1>0, <2>1 DEF IInv, AnswerInv, AnswerIsFresh
    <2>5. InterruptIsObeyed'
      BY <1>0, <2>1 DEF IInv, InterruptIsObeyed
    <2> QED
      BY <2>2, <2>3, <2>4, <2>5 DEF IInv
  <1>2. CASE CloseRaises /\ UNCHANGED orphaned
    <2>1. /\ interrupted' \in BOOLEAN /\ dups' \in 0 .. MaxDups /\ net' \subseteq net
          /\ received' = received
      BY <1>0 DEF IInv, TypeOK
    <2> QED
      BY <1>0, <1>2, <2>1, CloseRaiseKeepsIInv
  <1> QED
    BY <1>1, <1>2 DEF Close

\* The last error is raised.
LEMMA GiveUpKeepsIInv == ASSUME IInv, GiveUp PROVE IInv'
  <1>0. /\ doing = "loop" /\ doing' = "done" /\ outcome = "pending" /\ doing \notin InTry
        /\ open' = {} /\ leaving' = leaving \cup open
        /\ UNCHANGED <<kind, attempt, calls, orphaned, port, net, received, interrupted, dups>>
    BY DEF GiveUp, IInv, LoopInv, InTry
  <1>1. outcome' \in {"unbound"} \cup Errors
    BY DEF GiveUp, IInv, TypeOK
  <1>2. outcome' \notin {"pending", "returned"}
    BY <1>1 DEF Errors
  <1>3. TypeOK' /\ LoopInv'
    BY <1>0, <1>1, <1>2 DEF IInv, TypeOK, LoopInv, InTry
  <1>4. SocketInv' /\ PortInv'
    <2>1. AtMostTwo(leaving') /\ (kind \in Rust => leaving' = {})
      <3>1. CASE kind \in Leaky
        BY <1>0, <3>1 DEF IInv, SocketInv, AtMostTwo, Leaky, Async, Rust
      <3>2. CASE kind \notin Leaky
        <4>1. AtMostOne(leaving) /\ leaving' \subseteq leaving \cup {attempt}
              /\ (kind \in Rust => leaving' = {})
          BY <1>0, <3>2 DEF IInv, SocketInv
        <4> QED
          BY <4>1, OneMore
      <3> QED
        BY <3>1, <3>2
    <2> QED
      BY <1>0, <1>2, <2>1 DEF IInv, SocketInv, PortInv
  <1>5. AnswerInv' /\ InterruptIsObeyed'
    BY <1>0, <1>2 DEF IInv, AnswerInv, AnswerIsFresh, InterruptIsObeyed
  <1> QED
    BY <1>3, <1>4, <1>5 DEF IInv

\* An interrupt ends the call, or closing the connection hides it.
LEMMA InterruptKeepsIInv == ASSUME IInv, Interrupted PROVE IInv'
  <1>0. /\ doing \in InTry \cup {"loop"} /\ doing # "done" /\ interrupted' = TRUE
        /\ UNCHANGED <<orphaned, net, received, dups>>
    BY DEF Interrupted, InTry
  <1>1. ASSUME NEW mine \in MayStay,
               outcome' = "cancelled", doing' = "done", open' = {},
               leaving' = leaving \cup (open \ {attempt}) \cup mine,
               UNCHANGED <<kind, attempt, calls, port>>
        PROVE  IInv'
    <2>0. interrupted' \in BOOLEAN
      BY <1>0
    <2>1. mine \subseteq {attempt} /\ (kind \in Rust => mine = {})
      BY DEF MayStay
    <2>2. mine \subseteq Socket
      BY <2>1, TriesAssumption DEF MayStay, Interrupted, IInv, TypeOK, LoopInv, Socket, Rust, InTry
    <2>3. leaving' \subseteq Socket
      BY <1>1, <2>2 DEF IInv, TypeOK
    <2>4. TypeOK'
      BY <1>0, <1>1, <2>0, <2>3 DEF IInv, TypeOK
    <2>5. LoopInv'
      BY <1>1 DEF IInv, LoopInv, InTry
    <2>6. AtMostTwo(leaving')
      <3>1. CASE kind \in Leaky
        BY <1>0, <1>1, <2>1, <3>1 DEF IInv, SocketInv, AtMostTwo, Leaky, Async
      <3>2. CASE kind \notin Leaky
        <4>1. AtMostOne(leaving) /\ leaving' \subseteq leaving \cup {attempt}
          BY <1>0, <1>1, <2>1, <3>2 DEF IInv, SocketInv
        <4> QED
          BY <4>1, OneMore
      <3> QED
        BY <3>1, <3>2
    <2>7. kind \in Rust => leaving' = {}
      BY <1>1, <2>1 DEF IInv, SocketInv, Rust, Leaky
    <2>8. SocketInv' /\ PortInv'
      BY <1>1, <2>6, <2>7 DEF IInv, SocketInv, PortInv
    <2>9. AnswerInv' /\ InterruptIsObeyed'
      BY <1>0, <1>1 DEF IInv, AnswerInv, AnswerIsFresh, InterruptIsObeyed
    <2> QED
      BY <2>4, <2>5, <2>8, <2>9 DEF IInv
  <1>2. CASE CloseRaises
    <2>1. /\ interrupted' \in BOOLEAN /\ dups' \in 0 .. MaxDups /\ net' \subseteq net
          /\ received' = received /\ orphaned' = orphaned
      BY <1>0 DEF IInv, TypeOK
    <2>2. doing \in InTry
      BY <1>2 DEF Interrupted, CloseRaises, With, Rust
    <2> QED
      BY <1>2, <2>1, <2>2, CloseRaiseKeepsIInv
  <1> QED
    BY <1>1, <1>2 DEF Interrupted

\* The network and the server, which may answer a copied request twice.
LEMMA NetworkKeepsIInv == ASSUME IInv, Answers \/ Loses PROVE IInv'
  <1>0. /\ UNCHANGED <<kind, doing, attempt, calls, outcome, open, leaving, orphaned, port>>
        /\ UNCHANGED <<received, interrupted>>
    BY DEF Answers, Loses, wrapper, socket
  <1>1. /\ net' \subseteq Message /\ \A d \in net' : d.from <= attempt
        /\ dups' \in 0 .. MaxDups
    <2>1. CASE Loses
      BY <2>1 DEF Loses, IInv, TypeOK, AnswerInv
    <2>2. CASE Answers
      <3>1. PICK d \in net, what \in {"answer", "bad"} :
               /\ net' \subseteq net \cup {[what |-> what, from |-> d.from]}
               /\ \/ UNCHANGED dups
                  \/ dups < MaxDups /\ dups' = dups + 1
        BY <2>2 DEF Answers
      <3>2. d.from \in Socket /\ d.from <= attempt
        BY DEF IInv, TypeOK, Message, AnswerInv
      <3>3. dups' \in 0 .. MaxDups
        BY <3>1, DupsAssumption DEF IInv, TypeOK
      <3> QED
        BY <3>1, <3>2, <3>3 DEF IInv, TypeOK, AnswerInv, Message
    <2> QED
      BY <2>1, <2>2
  <1>2. TypeOK' /\ LoopInv'
    BY <1>0, <1>1 DEF IInv, TypeOK, LoopInv
  <1>3. SocketInv' /\ PortInv'
    BY <1>0 DEF IInv, SocketInv, AtMostOne, AtMostTwo, PortInv
  <1>4. AnswerInv' /\ InterruptIsObeyed'
    BY <1>0, <1>1 DEF IInv, AnswerInv, AnswerIsFresh, InterruptIsObeyed
  <1> QED
    BY <1>2, <1>3, <1>4 DEF IInv

\* The event loop or the collector closes what is left to it.
LEMMA ClosesKeepsIInv == ASSUME IInv, Closes PROVE IInv'
  <1>0. /\ leaving' \subseteq leaving
        /\ UNCHANGED <<kind, doing, attempt, calls, outcome, open, orphaned, port>>
        /\ UNCHANGED <<net, received, interrupted, dups>>
    BY DEF Closes, wrapper
  <1>1. TypeOK' /\ LoopInv'
    BY <1>0 DEF IInv, TypeOK, LoopInv
  <1>2. SocketInv' /\ PortInv'
    BY <1>0 DEF IInv, SocketInv, AtMostOne, AtMostTwo, PortInv
  <1>3. AnswerInv' /\ InterruptIsObeyed'
    BY <1>0 DEF IInv, AnswerInv, AnswerIsFresh, InterruptIsObeyed
  <1> QED
    BY <1>1, <1>2, <1>3 DEF IInv

\* Every step of client, network and server preserves the invariant.
LEMMA NextIInv == IInv /\ [Next]_vars => IInv'
  <1> SUFFICES ASSUME IInv, [Next]_vars PROVE IInv'
    OBVIOUS
  <1>1. CASE BeginTry
    BY <1>1, BeginKeepsIInv
  <1>2. CASE GiveUp
    BY <1>2, GiveUpKeepsIInv
  <1>3. CASE Resolve \/ Send
    BY <1>3, SendKeepsIInv
  <1>4. CASE Open
    BY <1>4, OpenKeepsIInv
  <1>5. CASE OpenFails \/ SendFails \/ ReceiveBad \/ RecvFails
    BY <1>5, FailureKeepsIInv
  <1>6. CASE Receive
    BY <1>6, ReceiveKeepsIInv
  <1>7. CASE Close
    BY <1>7, CloseKeepsIInv
  <1>8. CASE Interrupted
    BY <1>8, InterruptKeepsIInv
  <1>9. CASE Answers \/ Loses
    BY <1>9, NetworkKeepsIInv
  <1>10. CASE UNCHANGED vars
    <2>0. /\ UNCHANGED <<kind, doing, attempt, calls, outcome, open, leaving, orphaned, port>>
          /\ UNCHANGED <<net, received, interrupted, dups>>
      BY <1>10 DEF vars, wrapper, socket
    <2>1. TypeOK' /\ LoopInv'
      BY <2>0 DEF IInv, TypeOK, LoopInv
    <2>2. SocketInv' /\ PortInv'
      BY <2>0 DEF IInv, SocketInv, AtMostOne, AtMostTwo, PortInv
    <2>3. AnswerInv' /\ InterruptIsObeyed'
      BY <2>0 DEF IInv, AnswerInv, AnswerIsFresh, InterruptIsObeyed
    <2> QED
      BY <2>1, <2>2, <2>3 DEF IInv
  <1>11. CASE Closes
    BY <1>11, ClosesKeepsIInv
  <1> QED
    BY <1>1, <1>2, <1>3, <1>4, <1>5, <1>6, <1>7, <1>8, <1>9, <1>10, <1>11
       DEF Next, Client, Finished

\* The inductive invariant holds throughout every call.
LEMMA InvariantIInv == Spec => []IInv
  BY InitIInv, NextIInv, PTL DEF Spec

-----------------------------------------------------------------------------
(* The theorems.                                                           *)

\* Every reachable state of the seven calls is well typed.
THEOREM TypeCorrect == Spec => []TypeOK
  <1>1. IInv => TypeOK
    BY DEF IInv
  <1> QED
    BY <1>1, InvariantIInv, PTL

\* The answer a call returns is that to the try which returns it, unless a UDP
\* port was handed out again, and for the sync Bedrock client not even then
\* where the port was that of the try just before, unless that try failed in
\* parsing and so had let go of its socket.
THEOREM FreshAnswer == Spec => []AnswerIsFresh
  <1>1. IInv => AnswerIsFresh
    BY DEF IInv, AnswerInv
  <1> QED
    BY <1>1, InvariantIInv, PTL

\* However many tries there are, at most two sockets are open at a time, in Rust
\* one, and at most one after an answer, in Rust none; the asyncio transports of
\* a failed setsockopt() are not counted.
THEOREM FewSockets == Spec => []SocketsBounded
  <1>1. ASSUME NEW s, AtMostTwo(s) PROVE Cardinality(s) <= 2
    <2>1. PICK j, k : s \subseteq {j, k}
      BY <1>1 DEF AtMostTwo
    <2>2. IsFiniteSet({j}) /\ Cardinality({j}) = 1
      BY FS_Singleton
    <2>3. IsFiniteSet({j} \cup {k}) /\ Cardinality({j} \cup {k}) <= 2
      <3>1. IsFiniteSet({j} \cup {k})
            /\ Cardinality({j} \cup {k}) = IF k \in {j} THEN 1 ELSE 2
        BY <2>2, FS_AddElement
      <3> QED
        BY <3>1
    <2>4. s \subseteq {j} \cup {k}
      BY <2>1
    <2>5. Cardinality(s) \in Nat /\ Cardinality({j} \cup {k}) \in Nat
          /\ Cardinality(s) <= Cardinality({j} \cup {k})
      BY <2>3, <2>4, FS_Subset, FS_CardinalityType
    <2> QED
      BY <2>3, <2>5
  <1>2. ASSUME NEW s, AtMostOne(s) PROVE Cardinality(s) <= 1
    <2>1. PICK k : s \subseteq {k}
      BY <1>2 DEF AtMostOne
    <2>2. IsFiniteSet({k}) /\ Cardinality({k}) = 1
      BY FS_Singleton
    <2>3. Cardinality(s) <= Cardinality({k})
      BY <2>1, <2>2, FS_Subset
    <2> QED
      BY <2>2, <2>3
  <1>3. ASSUME IInv PROVE SocketsBounded
    <2>1. AtMostTwo(open \cup leaving)
      <3>1. CASE doing = "done"
        BY <1>3, <3>1 DEF IInv, SocketInv, AtMostTwo
      <3>2. CASE doing # "done" /\ kind \in Async
        <4>1. AtMostOne(leaving) /\ open \cup leaving \subseteq leaving \cup {attempt}
          BY <1>3, <3>2 DEF IInv, SocketInv, Async, Leaky
        <4> QED
          BY <4>1, OneMore
      <3>3. CASE doing # "done" /\ kind \notin Async
        BY <1>3, <3>3 DEF IInv, SocketInv, AtMostTwo
      <3> QED
        BY <3>1, <3>2, <3>3
    <2>2. kind \in Rust => AtMostOne(open \cup leaving)
      BY <1>3 DEF IInv, SocketInv, Rust, Leaky, AtMostOne
    <2>3. outcome = "returned" =>
             AtMostOne(open \cup leaving) /\ (kind \in Rust => open \cup leaving = {})
      <3>1. outcome = "returned" => doing = "done"
        BY <1>3 DEF IInv, TypeOK, LoopInv
      <3> QED
        BY <1>3, <3>1 DEF IInv, SocketInv, AtMostOne
    <2>4. Cardinality({}) = 0
      BY FS_EmptySet
    <2>5. Cardinality(open \cup leaving) <= IF kind \in Rust THEN 1 ELSE 2
      BY <1>1, <1>2, <2>1, <2>2
    <2>6. outcome = "returned" =>
             Cardinality(open \cup leaving) <= IF kind \in Rust THEN 0 ELSE 1
      <3>1. outcome = "returned" => Cardinality(open \cup leaving) <= 1
        BY <1>2, <2>3
      <3>2. outcome = "returned" /\ kind \in Rust => Cardinality(open \cup leaving) = 0
        BY <2>3, <2>4
      <3> QED
        BY <3>1, <3>2
    <2> QED
      BY <2>5, <2>6 DEF SocketsBounded
  <1> QED
    BY <1>3, InvariantIInv, PTL

\* An interrupt ends the call unless closing the connection raised.
THEOREM InterruptObeyed == Spec => []InterruptIsObeyed
  <1>1. IInv => InterruptIsObeyed
    BY DEF IInv
  <1> QED
    BY <1>1, InvariantIInv, PTL

-----------------------------------------------------------------------------
(* The calls implement Retry.  Its state is the failed tries and the       *)
(* outcome; the step of the try, the sockets and the network are hidden.   *)

\* A try that fails is a failure of the retry loop, whatever it leaves open.
LEMMA FailIsRetryFail ==
    ASSUME IInv, doing \in InTry, NEW e \in Errors, NEW kept, NEW late, FailsKeeping(e, kept, late)
    PROVE  R!Next
  <1>1. outcome = "pending" /\ Len(calls) < Tries
    BY TriesAssumption DEF IInv, TypeOK, LoopInv
  <1>2. R!Fail(e)
    BY <1>1 DEF FailsKeeping, R!Fail, R!Trying
  <1> QED
    BY <1>2 DEF R!Next

\* Every step is a step of Retry or leaves its state alone.
LEMMA StepIsRetryStep == IInv /\ [Next]_vars => [R!Next]_(R!vars)
  <1> SUFFICES ASSUME IInv, [Next]_vars PROVE [R!Next]_(R!vars)
    OBVIOUS
  <1>1. CASE BeginTry \/ Resolve \/ Open \/ Send \/ Answers \/ Loses \/ Closes \/ UNCHANGED vars
    BY <1>1 DEF BeginTry, Resolve, Open, Send, Answers, Loses, Closes, wrapper, vars, R!vars
  <1>2. CASE GiveUp
    <2>1. outcome = "pending" /\ Len(calls) = Tries
      BY <1>2 DEF GiveUp, IInv, LoopInv
    <2>2. R!RaiseLast
      BY <1>2, <2>1 DEF GiveUp, R!RaiseLast, R!LastExc
    <2> QED
      BY <2>2 DEF R!Next
  <1>3. CASE Returns /\ doing \in InTry
    <2>1. outcome = "pending" /\ Len(calls) < Tries
      BY <1>3, TriesAssumption DEF IInv, TypeOK, LoopInv
    <2>2. R!Return
      BY <1>3, <2>1 DEF Returns, R!Return, R!Trying
    <2> QED
      BY <2>2 DEF R!Next
  <1>4. CASE OpenFails \/ SendFails \/ ReceiveBad \/ RecvFails
    <2>1. doing \in InTry /\ \E e \in Errors : \E kept, late : FailsKeeping(e, kept, late)
      BY <1>4 DEF OpenFails, SendFails, ReceiveBad, RecvFails, TryFails, CloseRaises, InTry, Errors
    <2> QED
      BY <2>1, FailIsRetryFail
  <1>5. CASE Close
    <2>1. /\ doing \in InTry /\ "close" \in Errors
          /\ Returns \/ \E kept, late : FailsKeeping("close", kept, late)
      BY <1>5 DEF Close, CloseRaises, InTry, Errors
    <2> QED
      BY <1>3, <2>1, FailIsRetryFail
  <1>6. CASE Receive
    <2>1. doing \in InTry /\ (Returns \/ UNCHANGED <<calls, outcome>>)
      BY <1>6 DEF Receive, InTry, wrapper
    <2> QED
      BY <1>3, <2>1 DEF R!vars
  <1>7. CASE Interrupted
    <2>1. CASE outcome' = "cancelled" /\ UNCHANGED calls
      <3>1. outcome = "pending" /\ Len(calls) < Tries
        BY <1>7, TriesAssumption DEF Interrupted, IInv, TypeOK, LoopInv
      <3>2. R!Propagate("cancelled")
        BY <2>1, <3>1 DEF R!Propagate, R!Trying
      <3> QED
        BY <3>2 DEF R!Next
    <2>2. CASE CloseRaises
      <3>1. doing \in InTry /\ "close" \in Errors
        BY <1>7, <2>2 DEF Interrupted, CloseRaises, Rust, With, Errors
      <3>2. \E kept, late : FailsKeeping("close", kept, late)
        BY <2>2 DEF CloseRaises
      <3> QED
        BY <3>1, <3>2, FailIsRetryFail
    <2> QED
      BY <1>7, <2>1, <2>2 DEF Interrupted
  <1> QED
    BY <1>1, <1>2, <1>4, <1>5, <1>6, <1>7 DEF Next, Client, Finished

\* Each of the seven calls is one run of the retry loop: which error is raised,
\* and how often a connection is opened, is what Retry says.
THEOREM FreshImplementsRetry == Spec => ImplementsRetry
  <1>1. Init => R!Init
    BY DEF Init, R!Init
  <1> QED
    BY <1>1, InvariantIInv, StepIsRetryStep, PTL DEF Spec, ImplementsRetry, R!Spec
=============================================================================
