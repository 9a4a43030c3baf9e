------------------------- MODULE JavaSessionProofs -------------------------
(***************************************************************************)
(* Theorems about JavaSession, for every number of tries, every choice of  *)
(* tokens and both operations.                                             *)
(***************************************************************************)
EXTENDS JavaSession, SequenceTheorems, TLAPS

CONSTANTS
    Caught, Passed  \* any exceptions for Retryable and Fatal of the decorator

-----------------------------------------------------------------------------
(* The retry decorator by itself, which the session is shown to implement  *)
(* further below: for every number of tries and every set of exceptions.   *)

Decorator == INSTANCE Retry WITH Retryable <- Caught, Fatal <- Passed

\* What the wrapper ended with says how many failures it saw.
DecoratorEnd ==
    /\ outcome \in {"returned"} \cup Passed => Len(calls) < Tries
    /\ outcome \in Caught =>
           Len(calls) = Tries /\ Tries > 0 /\ outcome = calls[Tries]
    /\ outcome = "unbound" => Tries = 0

DecoratorInv == Decorator!TypeOK /\ DecoratorEnd

\* Before the first call nothing has failed and nothing was raised.
LEMMA DecoratorInit ==
    ASSUME Decorator!RetryAssumption PROVE Decorator!Init => DecoratorInv
  BY DEF Decorator!RetryAssumption, Decorator!Init, DecoratorInv, Decorator!TypeOK, DecoratorEnd,
         Decorator!Outcomes

\* Every step of the wrapper preserves the inductive invariant.
LEMMA DecoratorStep ==
    ASSUME Decorator!RetryAssumption
    PROVE  DecoratorInv /\ [Decorator!Next]_(Decorator!vars) => DecoratorInv'
  <1> SUFFICES ASSUME DecoratorInv, [Decorator!Next]_(Decorator!vars) PROVE DecoratorInv'
    OBVIOUS
  <1> USE DEF Decorator!RetryAssumption
  <1>1. CASE Decorator!Return
    BY <1>1 DEF Decorator!Return, Decorator!Trying, DecoratorInv, Decorator!TypeOK,
                DecoratorEnd, Decorator!Outcomes
  <1>2. ASSUME NEW e \in Caught, Decorator!Fail(e) PROVE DecoratorInv'
    <2>1. calls' \in Seq(Caught) /\ Len(calls') = Len(calls) + 1
      BY <1>2 DEF Decorator!Fail, DecoratorInv, Decorator!TypeOK
    <2> QED
      BY <1>2, <2>1 DEF Decorator!Fail, Decorator!Trying, DecoratorInv, Decorator!TypeOK,
                        DecoratorEnd
  <1>3. ASSUME NEW e \in Passed, Decorator!Propagate(e) PROVE DecoratorInv'
    BY <1>3 DEF Decorator!Propagate, Decorator!Trying, DecoratorInv, Decorator!TypeOK,
                DecoratorEnd, Decorator!Outcomes
  <1>4. CASE Decorator!RaiseLast
    <2>1. calls' = calls /\ Len(calls) = Tries
      BY <1>4 DEF Decorator!RaiseLast
    <2>2. CASE calls = << >>
      <3>1. outcome' = "unbound" /\ Tries = 0
        BY <1>4, <2>1, <2>2 DEF Decorator!RaiseLast, Decorator!LastExc
      <3> QED
        BY <2>1, <3>1 DEF DecoratorInv, Decorator!TypeOK, DecoratorEnd, Decorator!Outcomes
    <2>3. CASE calls # << >>
      <3>1. Tries > 0 /\ calls[Tries] \in Caught
        BY <2>1, <2>3 DEF DecoratorInv, Decorator!TypeOK
      <3>2. outcome' = calls[Tries]
        BY <1>4, <2>1, <2>3 DEF Decorator!RaiseLast, Decorator!LastExc
      <3> QED
        BY <2>1, <3>1, <3>2 DEF DecoratorInv, Decorator!TypeOK, DecoratorEnd, Decorator!Outcomes
    <2> QED
      BY <2>2, <2>3
  <1>5. CASE UNCHANGED Decorator!vars
    BY <1>5 DEF Decorator!vars, DecoratorInv, Decorator!TypeOK, DecoratorEnd
  <1> QED
    BY <1>1, <1>2, <1>3, <1>4, <1>5 DEF Decorator!Next, Decorator!Finished

\* The inductive invariant holds in every reachable state.
LEMMA DecoratorAlways ==
    ASSUME Decorator!RetryAssumption PROVE Decorator!Spec => []DecoratorInv
  BY DecoratorInit, DecoratorStep, PTL DEF Decorator!Spec

\* A retryable exception reaches the caller only when it is the last one of all
\* the tries.
THEOREM LastOnly ==
    ASSUME Decorator!RetryAssumption PROVE Decorator!Spec => []Decorator!RaisesLastOnly
  <1>1. DecoratorInv => Decorator!RaisesLastOnly
    BY DEF DecoratorInv, DecoratorEnd, Decorator!RaisesLastOnly
  <1> QED
    BY <1>1, DecoratorAlways, PTL

\* The function is never run more than Tries times.
THEOREM TriesBound ==
    ASSUME Decorator!RetryAssumption PROVE Decorator!Spec => []Decorator!NoCallBeyondTries
  <1>1. DecoratorInv => Decorator!NoCallBeyondTries
    BY DEF DecoratorInv, DecoratorEnd, Decorator!NoCallBeyondTries
  <1> QED
    BY <1>1, DecoratorAlways, PTL

\* With at least one try the comment in the code is right: last_exc is bound
\* wherever it is raised.
THEOREM BoundWithTries ==
    ASSUME Decorator!RetryAssumption, Tries > 0
    PROVE  Decorator!Spec => []Decorator!NeverUnbound
  <1>1. DecoratorInv => Decorator!NeverUnbound
    BY DEF DecoratorInv, DecoratorEnd, Decorator!NeverUnbound
  <1> QED
    BY <1>1, DecoratorAlways, PTL

-----------------------------------------------------------------------------
(* Lemmas on sequences of bytes.                                           *)

\* What the server frames is a sequence of bytes of the try it answers.
LEMMA FramedType ==
    ASSUME NEW vals \in Seq(Nat), NEW k \in 1 .. Tries
    PROVE  /\ Framed(vals, k) \in Seq(Byte)
           /\ Len(Framed(vals, k)) = Len(vals) + 1
           /\ \A i \in 1 .. Len(vals) + 1 :
                Framed(vals, k)[i] =
                    [val |-> IF i = 1 THEN Len(vals) ELSE vals[i - 1],
                     from |-> k]
  <1> DEFINE w == <<Len(vals)>> \o vals
  <1>1. w \in Seq(Nat) /\ Len(w) = Len(vals) + 1
    OBVIOUS
  <1>2. \A i \in 1 .. Len(w) : w[i] = IF i = 1 THEN Len(vals) ELSE vals[i - 1]
    OBVIOUS
  <1>3. DOMAIN w = 1 .. Len(w)
    BY <1>1
  <1>4. Framed(vals, k) = [i \in 1 .. Len(w) |-> [val |-> w[i], from |-> k]]
    BY <1>3 DEF Framed, Bytes
  <1>5. \A i \in 1 .. Len(w) : [val |-> w[i], from |-> k] \in Byte
    BY <1>1 DEF Byte
  <1>6. Framed(vals, k) \in Seq(Byte) /\ Len(Framed(vals, k)) = Len(w)
    BY <1>1, <1>4, <1>5
  <1> QED
    BY <1>1, <1>2, <1>4, <1>6

\* Taking n bytes off a stream and putting them behind another.
LEMMA MoveBytes ==
    ASSUME NEW S, NEW s \in Seq(S), NEW t \in Seq(S), NEW n \in 1 .. Len(t)
    PROVE  /\ SubSeq(t, 1, n) \in Seq(S) /\ Len(SubSeq(t, 1, n)) = n
           /\ SubSeq(t, n + 1, Len(t)) \in Seq(S)
           /\ Len(SubSeq(t, n + 1, Len(t))) = Len(t) - n
           /\ s \o SubSeq(t, 1, n) \in Seq(S)
           /\ \A i \in 1 .. n : SubSeq(t, 1, n)[i] = t[i]
           /\ \A i \in 1 .. Len(t) - n : SubSeq(t, n + 1, Len(t))[i] = t[n + i]
  <1>1. Len(t) \in Nat /\ \A i \in 1 .. Len(t) : t[i] \in S
    OBVIOUS
  <1>2. \A i \in 1 .. n : t[i] \in S
    BY <1>1
  <1>3. \A i \in n + 1 .. Len(t) : t[i] \in S
    BY <1>1
  <1>4. /\ SubSeq(t, 1, n) \in Seq(S) /\ Len(SubSeq(t, 1, n)) = n
        /\ \A i \in 1 .. n : SubSeq(t, 1, n)[i] = t[i]
    BY <1>1, <1>2, SubSeqProperties
  <1>5. /\ SubSeq(t, n + 1, Len(t)) \in Seq(S)
        /\ Len(SubSeq(t, n + 1, Len(t))) = Len(t) - n
        /\ \A i \in 1 .. Len(t) - n : SubSeq(t, n + 1, Len(t))[i] = t[n + i]
    BY <1>1, <1>3, SubSeqProperties
  <1> QED
    BY <1>4, <1>5

-----------------------------------------------------------------------------
(* Type correctness.  TypeOK is not inductive: the tries, the failures and *)
(* the phase have to agree.                                                *)

LoopInv ==
    /\ phase = "connect" => attempt = 0
    /\ phase \in {"connect", "loop"} =>
           outcome = "pending" /\ Len(calls) = attempt
    /\ phase \in InTry =>
           outcome = "pending" /\ attempt >= 1 /\ Len(calls) = attempt - 1
    /\ phase = "exit" => outcome # "pending"
    /\ outcome = "returned" => attempt >= 1

IInv == TypeOK /\ LoopInv

\* Before the connection is opened no try was begun and none failed.
LEMMA InitIInv == Init => IInv
  BY TriesAssumption DEF Init, IInv, TypeOK, LoopInv, Phases, InTry

\* A try that fails leaves one more recorded exception and the loop phase.
LEMMA FailPreservesIInv ==
    ASSUME IInv, phase \in InTry, NEW e \in Errors, TryFails(e),
           c2s' = c2s, s2c' = s2c, peer' = peer, op' = op
    PROVE  IInv'
  <1>1. Len(calls) \in Nat /\ calls' \in Seq(Errors) /\ Len(calls') = Len(calls) + 1
    BY DEF IInv, TypeOK, TryFails
  <1> QED
    BY <1>1, TriesAssumption DEF IInv, TypeOK, LoopInv, TryFails, Phases, InTry

\* Writing a packet of the current try keeps tries and exceptions in agreement.
LEMMA SendPreservesIInv ==
    ASSUME IInv, phase \in InTry, NEW kind \in {"handshake", "status", "ping"},
           NEW next \in InTry, Send(kind, next), op' = op
    PROVE  IInv'
  <1>1. [kind |-> kind, from |-> attempt] \in Packet
    BY TriesAssumption DEF IInv, TypeOK, LoopInv, Packet
  <1>2. c2s' \in Seq(Packet)
    BY <1>1 DEF IInv, TypeOK, Send
  <1> QED
    BY <1>2 DEF IInv, TypeOK, LoopInv, Send, Phases, InTry, reader

\* Taking the next packet off the way to the server yields a packet of some
\* try and keeps the order of the others.
LEMMA NextPacket ==
    ASSUME c2s \in Seq(Packet), c2s # << >>
    PROVE  /\ Head(c2s) \in Packet /\ Tail(c2s) \in Seq(Packet)
           /\ Head(c2s).from \in 1 .. Tries
           /\ \A i \in 1 .. Len(Tail(c2s)) : Tail(c2s)[i] = c2s[i + 1]
  <1>1. /\ Head(c2s) \in Packet /\ Tail(c2s) \in Seq(Packet)
        /\ \A i \in 1 .. Len(Tail(c2s)) : Tail(c2s)[i] = c2s[i + 1]
    BY HeadTailProperties
  <1> QED
    BY <1>1 DEF Packet

\* Every step of client, server and caller preserves the inductive invariant.
LEMMA NextIInv == IInv /\ [Next]_vars => IInv'
  <1> SUFFICES ASSUME IInv, [Next]_vars PROVE IInv'
    OBVIOUS
  <1>0. op' = op
    BY DEF Next, vars
  <1> USE TriesAssumption, <1>0
  <1>1. CASE Connect \/ ConnectFails \/ NoDelayFails
    BY <1>1 DEF Connect, ConnectFails, NoDelayFails, IInv, TypeOK, LoopInv,
                Phases, InTry, reader, net
  <1>2. CASE BeginTry
    BY <1>2 DEF BeginTry, IInv, TypeOK, LoopInv, Phases, InTry, reader, net
  <1>3. CASE GiveUp
    BY <1>3 DEF GiveUp, IInv, TypeOK, LoopInv, Phases, InTry, reader, net, Errors
  <1>4. CASE WriteHandshake
    BY <1>4, SendPreservesIInv DEF WriteHandshake, InTry
  <1>5. CASE WriteRequest
    BY <1>5, SendPreservesIInv DEF WriteRequest, InTry, IInv, TypeOK, Operations
  <1>6. CASE WriteFails
    BY <1>6, FailPreservesIInv DEF WriteFails, InTry, Errors, net
  <1>7. CASE ReadLength
    <2>1. Head(s2c) \in Byte /\ Tail(s2c) \in Seq(Byte)
      BY <1>7, HeadTailProperties DEF ReadLength, IInv, TypeOK
    <2> QED
      BY <1>7, <2>1 DEF ReadLength, IInv, TypeOK, LoopInv, Phases, InTry, Byte
  <1>8. CASE ReadPayload
    <2>1. PICK n \in 1 .. Len(s2c) :
              /\ got' = got \o SubSeq(s2c, 1, n)
              /\ s2c' = SubSeq(s2c, n + 1, Len(s2c))
      BY <1>8 DEF ReadPayload
    <2>2. got' \in Seq(Byte) /\ s2c' \in Seq(Byte)
      BY <2>1, MoveBytes DEF IInv, TypeOK
    <2> QED
      BY <1>8, <2>2 DEF ReadPayload, IInv, TypeOK, LoopInv, Phases, InTry
  <1>9. CASE Accept
    BY <1>9 DEF Accept, IInv, TypeOK, LoopInv, Phases, InTry, reader, net, Errors
  <1>10. CASE Reject
    BY <1>10, FailPreservesIInv DEF Reject, InTry, Errors, net
  <1>11. CASE RecvTimeout \/ RecvClosed
    BY <1>11, FailPreservesIInv
       DEF RecvTimeout, RecvClosed, Waiting, InTry, Errors, net
  <1>12. CASE Cancelled
    BY <1>12 DEF Cancelled, IInv, TypeOK, LoopInv, Phases, InTry, reader, net, Errors
  <1>13. CASE Close \/ CloseFails
    BY <1>13 DEF Close, CloseFails, IInv, TypeOK, LoopInv, Phases, InTry, reader, net
  <1>14. CASE ServerHandshake \/ ServerIgnores
    <2>1. Tail(c2s) \in Seq(Packet)
      BY <1>14, NextPacket DEF ServerHandshake, ServerIgnores, IInv, TypeOK
    <2> QED
      BY <1>14, <2>1
         DEF ServerHandshake, ServerIgnores, clientVars, IInv, TypeOK, LoopInv
  <1>18. CASE ServerCloses
    <2>1. << >> \in Seq(Packet) /\ << >> \in Seq(Byte)
      OBVIOUS
    <2> QED
      BY <1>18, <2>1 DEF ServerCloses, clientVars, IInv, TypeOK, LoopInv
  <1>15. CASE ServerAnswers
    <2> DEFINE p == Head(c2s)
               payload == IF p.kind = "ping" THEN PongPayload(p.from)
                                             ELSE StatusPayload
    <2>1. p \in Packet /\ Tail(c2s) \in Seq(Packet) /\ p.from \in 1 .. Tries
      BY <1>15, NextPacket DEF ServerAnswers, IInv, TypeOK
    <2>2. payload \in Seq(Nat)
      <3>1. TokenOf[p.from] \in Nat
        BY <2>1, TokenAssumption
      <3>2. PongPayload(p.from) \in Seq(Nat)
        BY <3>1 DEF PongPayload
      <3>3. StatusPayload \in Seq(Nat)
        BY ByteAssumption DEF StatusPayload
      <3> QED BY <3>2, <3>3
    <2>3. s2c' = s2c \o Framed(payload, p.from)
      BY <1>15 DEF ServerAnswers
    <2>4. s2c' \in Seq(Byte)
      <3> HIDE DEF payload
      <3> QED BY <2>1, <2>2, <2>3, FramedType DEF IInv, TypeOK
    <2> QED
      BY <1>15, <2>1, <2>4 DEF ServerAnswers, clientVars, IInv, TypeOK, LoopInv
  <1>16. CASE ServerGarbles
    <2>1. Head(c2s) \in Packet /\ Tail(c2s) \in Seq(Packet)
          /\ Head(c2s).from \in 1 .. Tries
      BY <1>16, NextPacket DEF ServerGarbles, IInv, TypeOK
    <2>2. PICK payload \in {<<0, 1, Garbage>>, <<1, Garbage>>, << >>} :
              s2c' = s2c \o Framed(payload, Head(c2s).from)
      BY <1>16 DEF ServerGarbles
    <2>3. payload \in Seq(Nat)
      <3>1. /\ <<0, 1, Garbage>> \in Seq(Nat) /\ <<1, Garbage>> \in Seq(Nat)
            /\ << >> \in Seq(Nat)
        BY ByteAssumption
      <3> QED BY <3>1
    <2>4. s2c' \in Seq(Byte)
      BY <2>1, <2>2, <2>3, FramedType DEF IInv, TypeOK
    <2> QED
      BY <1>16, <2>1, <2>4 DEF ServerGarbles, clientVars, IInv, TypeOK, LoopInv
  <1>17. CASE UNCHANGED vars
    BY <1>17 DEF vars, IInv, TypeOK, LoopInv
  <1> QED
    BY <1>1, <1>2, <1>3, <1>4, <1>5, <1>6, <1>7, <1>8, <1>9, <1>10, <1>11,
       <1>12, <1>13, <1>14, <1>15, <1>16, <1>17, <1>18
       DEF Next, Client, Server, Finished

\* Every reachable state is well typed.
THEOREM TypeCorrect == Spec => []TypeOK
  <1>1. IInv => TypeOK
    BY DEF IInv
  <1> QED
    BY <1>1, InitIInv, NextIInv, PTL DEF Spec

-----------------------------------------------------------------------------
(* The session is a run of the retry loop.                                 *)

\* The inductive invariant holds in every reachable state.
LEMMA InvariantIInv == Spec => []IInv
  BY InitIInv, NextIInv, PTL DEF Spec

\* A failing try is one failing call of the decorated function.
LEMMA FailIsRetryFail ==
    ASSUME IInv, phase \in InTry, NEW e \in Errors, TryFails(e)
    PROVE  R!Fail(e)
  <1>1. Len(calls) < Tries
    BY TriesAssumption DEF IInv, TypeOK, LoopInv
  <1> QED
    BY <1>1 DEF IInv, LoopInv, TryFails, R!Fail, R!Trying

\* Every step is a step of the retry wrapper or leaves its variables alone.
LEMMA StepIsRetryStep == IInv /\ [Next]_vars => [R!Next]_(R!vars)
  <1> SUFFICES ASSUME IInv, [Next]_vars PROVE [R!Next]_(R!vars)
    OBVIOUS
  <1> USE TriesAssumption
  <1>1. CASE \/ Connect \/ ConnectFails \/ NoDelayFails \/ BeginTry
             \/ ReadLength \/ ReadPayload \/ Close \/ CloseFails
    BY <1>1 DEF Connect, ConnectFails, NoDelayFails, BeginTry, ReadLength,
                ReadPayload, Close, CloseFails, R!vars
  <1>2. CASE WriteHandshake \/ WriteRequest
    BY <1>2 DEF WriteHandshake, WriteRequest, Send, R!vars
  <1>3. CASE GiveUp
    <2>1. R!RaiseLast
      BY <1>3 DEF GiveUp, IInv, TypeOK, LoopInv, R!RaiseLast, R!LastExc
    <2> QED
      BY <2>1 DEF R!Next
  <1>4. CASE Accept
    <2>1. R!Return
      BY <1>4 DEF Accept, IInv, TypeOK, LoopInv, InTry, R!Return, R!Trying
    <2> QED
      BY <2>1 DEF R!Next
  <1>5. CASE Cancelled
    <2>1. R!Propagate("cancelled")
      BY <1>5 DEF Cancelled, IInv, TypeOK, LoopInv, InTry, R!Propagate, R!Trying
    <2> QED
      BY <2>1 DEF R!Next
  <1>6. CASE WriteFails \/ Reject \/ RecvTimeout \/ RecvClosed
    <2>1. phase \in InTry
      BY <1>6 DEF WriteFails, Reject, RecvTimeout, RecvClosed, Waiting, InTry
    <2>2. \E e \in Errors : TryFails(e)
      BY <1>6 DEF WriteFails, Reject, RecvTimeout, RecvClosed, Errors
    <2> QED
      BY <2>1, <2>2, FailIsRetryFail DEF R!Next
  <1>7. CASE Server
    BY <1>7 DEF Server, ServerHandshake, ServerAnswers, ServerGarbles,
                ServerIgnores, ServerCloses, clientVars, R!vars
  <1>8. CASE UNCHANGED vars
    BY <1>8 DEF vars, R!vars
  <1> QED
    BY <1>1, <1>2, <1>3, <1>4, <1>5, <1>6, <1>7, <1>8
       DEF Next, Client, Finished

\* Every behaviour of a ping or status call is, for the variables of the retry
\* wrapper, a behaviour of the decorator: tries are counted, errors kept and
\* the last one raised exactly as its documentation says.
THEOREM SessionImplementsRetry == Spec => ImplementsRetry
  <1>1. Init => R!Init
    BY DEF Init, R!Init
  <1> QED
    BY <1>1, InvariantIInv, StepIsRetryStep, PTL DEF Spec, ImplementsRetry, R!Spec

-----------------------------------------------------------------------------
(* Which try an answer belongs to: a byte equal to a token is the echo of  *)
(* that token.                                                             *)

Echo(b) == \A k \in 1 .. Tries : b.val = TokenOf[k] => TokenOf[b.from] = TokenOf[k]

EchoInv ==
    /\ \A i \in 1 .. Len(s2c) : Echo(s2c[i])
    /\ \A i \in 1 .. Len(got) : Echo(got[i])

\* What was accepted stays in got.
AcceptInv ==
    outcome = "returned" =>
        /\ Len(got) >= (IF op = "ping" THEN 2 ELSE 3)
        /\ op = "ping" => got[2].val = TokenOf[attempt]

\* The bytes of a packet's structure, JSON and garbage differ from all tokens.
LEMMA StructureIsNoToken ==
    ASSUME NEW k \in 1 .. Tries
    PROVE  /\ TokenOf[k] \in Nat
           /\ TokenOf[k] \notin {0, 1, 2, 3, Json, Garbage}
  <1>1. TokenOf[k] \in Nat \ (0 .. 3)
    BY TokenAssumption
  <1> QED
    BY <1>1, ByteAssumption

\* What a server sends as payload is a sequence of at most three bytes.
LEMMA PayloadType ==
    ASSUME NEW k \in 1 .. Tries,
           NEW payload \in {StatusPayload, PongPayload(k), <<0, 1, Garbage>>,
                            <<1, Garbage>>, << >>}
    PROVE  payload \in Seq(Nat) /\ Len(payload) \in {0, 2, 3}
  <1>1. TokenOf[k] \in Nat
    BY StructureIsNoToken
  <1>2. /\ <<0, 1, Json>> \in Seq(Nat) /\ Len(<<0, 1, Json>>) = 3
        /\ <<0, 1, Garbage>> \in Seq(Nat) /\ Len(<<0, 1, Garbage>>) = 3
        /\ <<1, Garbage>> \in Seq(Nat) /\ Len(<<1, Garbage>>) = 2
        /\ << >> \in Seq(Nat) /\ Len(<< >>) = 0
        /\ <<1, TokenOf[k]>> \in Seq(Nat) /\ Len(<<1, TokenOf[k]>>) = 2
    BY <1>1, ByteAssumption
  <1> QED
    BY <1>2 DEF StatusPayload, PongPayload

\* A frame holds no token but that of the try it answers.
LEMMA FramedEcho ==
    ASSUME NEW k \in 1 .. Tries,
           NEW payload \in {StatusPayload, PongPayload(k), <<0, 1, Garbage>>,
                            <<1, Garbage>>, << >>}
    PROVE  \A i \in 1 .. Len(Framed(payload, k)) : Echo(Framed(payload, k)[i])
  <1>2. payload \in Seq(Nat) /\ Len(payload) \in {0, 2, 3}
    BY PayloadType
  <1>3. \A i \in 1 .. Len(payload) :
            payload[i] \in {0, 1, Json, Garbage, TokenOf[k]}
    BY DEF StatusPayload, PongPayload
  <1> SUFFICES ASSUME NEW i \in 1 .. Len(payload) + 1
               PROVE  Echo(Framed(payload, k)[i])
    BY <1>2, FramedType
  <1>4. /\ Framed(payload, k)[i].from = k
        /\ Framed(payload, k)[i].val = IF i = 1 THEN Len(payload) ELSE payload[i - 1]
    <2>1. \A j \in 1 .. Len(payload) + 1 :
              Framed(payload, k)[j] =
                  [val |-> IF j = 1 THEN Len(payload) ELSE payload[j - 1],
                   from |-> k]
      BY <1>2, FramedType
    <2> DEFINE v == IF i = 1 THEN Len(payload) ELSE payload[i - 1]
    <2>2. Framed(payload, k)[i] = [val |-> v, from |-> k]
      BY <2>1
    <2> HIDE DEF v
    <2>3. Framed(payload, k)[i].from = k /\ Framed(payload, k)[i].val = v
      BY <2>2
    <2> QED
      BY <2>3 DEF v
  <1>5. Framed(payload, k)[i].val \in {0, 1, 2, 3, Json, Garbage, TokenOf[k]}
    BY <1>2, <1>3, <1>4
  <1> QED
    BY <1>4, <1>5, StructureIsNoToken DEF Echo

\* No step puts a token into the stream that its try did not send.
LEMMA NextEcho == IInv /\ EchoInv /\ [Next]_vars => EchoInv'
  <1> SUFFICES ASSUME IInv, EchoInv, [Next]_vars PROVE EchoInv'
    OBVIOUS
  <1> USE DEF EchoInv
  <1>1. CASE UNCHANGED <<s2c, got>>
    BY <1>1
  <1>2. CASE WriteFails \/ Reject \/ RecvTimeout \/ RecvClosed
    BY <1>2 DEF WriteFails, Reject, RecvTimeout, RecvClosed, TryFails, net
  <1>3. CASE ReadLength
    <2>1. /\ Len(Tail(s2c)) = Len(s2c) - 1 /\ Len(s2c) \in Nat
          /\ \A i \in 1 .. Len(Tail(s2c)) : Tail(s2c)[i] = s2c[i + 1]
      BY <1>3, HeadTailProperties DEF ReadLength, IInv, TypeOK
    <2> QED
      BY <1>3, <2>1 DEF ReadLength
  <1>4. CASE ReadPayload
    <2>1. PICK n \in 1 .. Len(s2c) :
              /\ got' = got \o SubSeq(s2c, 1, n)
              /\ s2c' = SubSeq(s2c, n + 1, Len(s2c))
      BY <1>4 DEF ReadPayload
    <2> DEFINE taken == SubSeq(s2c, 1, n)
               rest == SubSeq(s2c, n + 1, Len(s2c))
    <2>2. /\ taken \in Seq(Byte) /\ Len(taken) = n
          /\ Len(rest) = Len(s2c) - n
          /\ \A i \in 1 .. n : taken[i] = s2c[i]
          /\ \A i \in 1 .. Len(s2c) - n : rest[i] = s2c[n + i]
      BY <2>1, MoveBytes DEF IInv, TypeOK
    <2>3. Len(s2c) \in Nat /\ Len(got) \in Nat /\ got \in Seq(Byte)
      BY DEF IInv, TypeOK
    <2>7. got' = got \o taken /\ s2c' = rest
      BY <2>1
    <2> HIDE DEF taken, rest
    <2>4. /\ Len(got \o taken) = Len(got) + n
          /\ \A i \in 1 .. Len(got) + n :
                (got \o taken)[i] = IF i <= Len(got) THEN got[i] ELSE taken[i - Len(got)]
      BY <2>2, <2>3, ConcatProperties
    <2>5. ASSUME NEW i \in 1 .. Len(got') PROVE Echo(got'[i])
      <3>1. got'[i] = IF i <= Len(got) THEN got[i] ELSE s2c[i - Len(got)]
        BY <2>2, <2>3, <2>4, <2>7
      <3>2. i \in 1 .. Len(got) \/ (i > Len(got) /\ i - Len(got) \in 1 .. Len(s2c))
        BY <2>3, <2>4, <2>7
      <3> QED
        BY <2>3, <3>1, <3>2
    <2>6. ASSUME NEW i \in 1 .. Len(s2c') PROVE Echo(s2c'[i])
      <3>1. s2c'[i] = s2c[n + i] /\ n + i \in 1 .. Len(s2c)
        BY <2>2, <2>3, <2>7
      <3> QED
        BY <3>1
    <2> QED
      BY <2>5, <2>6
  <1>5. CASE ServerCloses
    BY <1>5 DEF ServerCloses, clientVars
  <1>6. CASE ServerAnswers \/ ServerGarbles
    <2> DEFINE k == Head(c2s).from
    <2>1. k \in 1 .. Tries
      BY <1>6, NextPacket DEF ServerAnswers, ServerGarbles, IInv, TypeOK
    <2>2. PICK payload \in {StatusPayload, PongPayload(k), <<0, 1, Garbage>>,
                            <<1, Garbage>>, << >>} :
              s2c' = s2c \o Framed(payload, k)
      BY <1>6 DEF ServerAnswers, ServerGarbles
    <2>3. payload \in Seq(Nat)
      BY <2>1, <2>2, PayloadType
    <2> DEFINE f == Framed(payload, k)
    <2>4. f \in Seq(Byte) /\ \A i \in 1 .. Len(f) : Echo(f[i])
      BY <2>1, <2>2, <2>3, FramedType, FramedEcho
    <2>5. s2c' = s2c \o f /\ s2c \in Seq(Byte)
      BY <2>2 DEF IInv, TypeOK
    <2> HIDE DEF f, k
    <2>7. /\ Len(s2c \o f) = Len(s2c) + Len(f) /\ Len(s2c) \in Nat /\ Len(f) \in Nat
          /\ \A i \in 1 .. Len(s2c) + Len(f) :
                (s2c \o f)[i] = IF i <= Len(s2c) THEN s2c[i] ELSE f[i - Len(s2c)]
      BY <2>4, <2>5, ConcatProperties, LenProperties
    <2>6. \A i \in 1 .. Len(s2c') : Echo(s2c'[i])
      BY <2>4, <2>5, <2>7
    <2> QED
      BY <1>6, <2>6 DEF ServerAnswers, ServerGarbles, clientVars
  <1> QED
    BY <1>1, <1>2, <1>3, <1>4, <1>5, <1>6
       DEF Next, Client, Connect, ConnectFails, NoDelayFails, BeginTry, GiveUp,
           WriteHandshake, WriteRequest, Send, Accept, Cancelled, Close,
           CloseFails, Server, ServerHandshake, ServerIgnores, Finished,
           clientVars, reader, net, vars

\* What the client accepted stays the accepted answer.
LEMMA NextAccept == IInv /\ AcceptInv /\ [Next]_vars => AcceptInv'
  <1> SUFFICES ASSUME IInv, AcceptInv, [Next]_vars, outcome' = "returned"
               PROVE  AcceptInv'
    BY DEF AcceptInv
  <1>0. op' = op
    BY DEF Next, vars
  <1>1. CASE Accept
    BY <1>0, <1>1
       DEF Accept, Accepted, PongAccepted, StatusAccepted, AcceptInv, reader
  <1>2. CASE outcome = "returned"
    <2>1. phase \in {"exit", "done"}
      BY <1>2 DEF IInv, TypeOK, LoopInv, Phases, InTry
    <2>2. UNCHANGED <<attempt, got>>
      BY <2>1 DEF Next, Client, Connect, ConnectFails, NoDelayFails, BeginTry,
           GiveUp, WriteHandshake, WriteRequest, WriteFails, ReadLength,
           ReadPayload, Accept, Reject, RecvTimeout, RecvClosed, Waiting,
           Cancelled, InTry, Close, CloseFails, Server, ServerHandshake,
           ServerAnswers, ServerGarbles, ServerIgnores, ServerCloses,
           clientVars, Finished, vars, reader
    <2> QED
      BY <1>0, <1>2, <2>2 DEF AcceptInv
  <1>3. CASE outcome # "returned" /\ ~Accept
    <2>1. outcome' = outcome \/ GiveUp \/ Cancelled
      BY <1>3 DEF Next, Client, Connect, ConnectFails, NoDelayFails, BeginTry,
           WriteHandshake, WriteRequest, Send, WriteFails, ReadLength,
           ReadPayload, Reject, RecvTimeout, RecvClosed, TryFails, Close,
           CloseFails, Server, ServerHandshake, ServerAnswers, ServerGarbles,
           ServerIgnores, ServerCloses, clientVars, Finished, vars
    <2>2. ~GiveUp
      BY DEF GiveUp, IInv, TypeOK, Errors
    <2> QED
      BY <1>3, <2>1, <2>2 DEF Cancelled
  <1> QED
    BY <1>1, <1>2, <1>3

\* With a token of its own for every try, as ping() draws them, the latency a
\* ping returns is the time of a round trip made by the try that returns it:
\* a late answer to an earlier try is never taken for it, however the stream
\* was left.
THEOREM PingIsRoundTrip ==
    ASSUME \A j, k \in 1 .. Tries : TokenOf[j] = TokenOf[k] => j = k
    PROVE  Spec => []PingIsTimed
  <1>1. Init => EchoInv /\ AcceptInv
    BY DEF Init, EchoInv, AcceptInv
  <1>2. IInv /\ EchoInv /\ AcceptInv => PingIsTimed
    <2> SUFFICES ASSUME IInv, EchoInv, AcceptInv, op = "ping", outcome = "returned"
                 PROVE  got[2].from = attempt
      BY DEF PingIsTimed, LatencyIsRoundTrip, AnswerByte
    <2>1. got \in Seq(Byte) /\ Len(got) >= 2 /\ got[2].val = TokenOf[attempt]
      BY DEF IInv, TypeOK, AcceptInv
    <2>2. got[2] \in Byte /\ Echo(got[2])
      BY <2>1 DEF EchoInv
    <2>3. attempt \in 1 .. Tries /\ got[2].from \in 1 .. Tries
      BY <2>2, TriesAssumption DEF IInv, TypeOK, LoopInv, Byte
    <2> QED
      BY <2>1, <2>2, <2>3 DEF Echo
  <1> QED
    BY <1>1, <1>2, InvariantIInv, NextEcho, NextAccept, PTL DEF Spec

-----------------------------------------------------------------------------
(* What the server meets first.                                            *)

\* Before the server has read the first handshake, a request is written only
\* behind one.
HandshakeInv == HandshakeFirst /\ (peer = "new" /\ phase = "request" => c2s # << >>)

\* A packet written behind others is not the first the server meets.
LEMMA HeadOfAppend ==
    ASSUME NEW S, NEW s \in Seq(S), NEW e \in S
    PROVE  /\ Append(s, e) # << >>
           /\ Head(Append(s, e)) = IF s = << >> THEN e ELSE Head(s)
  <1>1. Len(Append(s, e)) = Len(s) + 1 /\ Len(s) \in Nat
    OBVIOUS
  <1>2. Head(Append(s, e)) = Append(s, e)[1]
    BY <1>1
  <1>3. CASE s = << >>
    BY <1>2, <1>3
  <1>4. CASE s # << >>
    <2>1. Len(s) > 0 /\ Head(s) = s[1]
      BY <1>4
    <2> QED
      BY <1>1, <1>2, <1>4, <2>1
  <1> QED
    BY <1>1, <1>3, <1>4

\* No step, and no sequence of failing and repeated tries, puts a request first.
LEMMA NextHandshake == IInv /\ HandshakeInv /\ [Next]_vars => HandshakeInv'
  <1> SUFFICES ASSUME IInv, HandshakeInv, [Next]_vars PROVE HandshakeInv'
    OBVIOUS
  <1> USE DEF HandshakeInv, HandshakeFirst
  <1>1. CASE WriteHandshake \/ WriteRequest
    <2>1. PICK kind \in {"handshake", "status", "ping"}, next \in {"request", "length"} :
              /\ Send(kind, next)
              /\ kind = "handshake" \/ (phase = "request" /\ next = "length")
      BY <1>1 DEF WriteHandshake, WriteRequest, IInv, TypeOK, Operations
    <2>2. peer' = peer /\ phase' = next
      BY <2>1 DEF Send
    <2>3. CASE peer = "new"
      <3> DEFINE packet == [kind |-> kind, from |-> attempt]
      <3>1. c2s' = Append(c2s, packet)
        BY <2>1, <2>3 DEF Send
      <3>2. packet \in Packet /\ packet.kind = kind
        BY <1>1, TriesAssumption
           DEF WriteHandshake, WriteRequest, IInv, TypeOK, LoopInv, InTry, Packet
      <3> HIDE DEF packet
      <3>3. c2s' # << >> /\ Head(c2s') = IF c2s = << >> THEN packet ELSE Head(c2s)
        BY <3>1, <3>2, HeadOfAppend DEF IInv, TypeOK
      <3> QED
        BY <2>1, <2>2, <2>3, <3>2, <3>3
    <2> QED
      BY <2>2, <2>3
  <1>2. CASE peer' = peer /\ c2s' = c2s /\ phase' # "request"
    BY <1>2
  <1>3. CASE peer' # "new"
    BY <1>3
  <1>4. CASE UNCHANGED <<peer, c2s, phase>>
    BY <1>4
  <1>5. CASE Client /\ ~(WriteHandshake \/ WriteRequest)
    BY <1>2, <1>4, <1>5
       DEF Client, Connect, ConnectFails, NoDelayFails, BeginTry, GiveUp, WriteFails, ReadLength,
           ReadPayload, Accept, Reject, RecvTimeout, RecvClosed, TryFails, Close, CloseFails, net
  <1>6. CASE Cancelled
    BY <1>2, <1>6 DEF Cancelled, net
  <1>7. CASE Server
    BY <1>3, <1>7
       DEF Server, ServerHandshake, ServerAnswers, ServerGarbles, ServerIgnores, ServerCloses
  <1> QED
    BY <1>1, <1>4, <1>5, <1>6, <1>7 DEF Next, Finished, vars, net

\* The server never meets a request before the handshake, however often a try
\* is broken off and repeated on the same connection.
THEOREM HandshakeComesFirst == Spec => []HandshakeFirst
  <1>1. Init => HandshakeInv
    BY DEF Init, HandshakeInv, HandshakeFirst
  <1>2. HandshakeInv => HandshakeFirst
    BY DEF HandshakeInv
  <1> QED
    BY <1>1, <1>2, InvariantIInv, NextHandshake, PTL DEF Spec
-----------------------------------------------------------------------------
(* Rejected answers.  Until a try times out a server that garbles nothing  *)
(* and the client stay in step: the first try alone gets bytes to read,    *)
(* and they are the frame of its answer, as far as they have come.         *)

Undisturbed == op \notin Garbled /\ \A i \in 1 .. Len(calls) : calls[i] # "timeout"

Hello == [kind |-> "handshake", from |-> attempt]
Request == [kind |-> op, from |-> attempt]
Answer == IF op = "ping" THEN PongPayload(attempt) ELSE StatusPayload

\* Without timeouts a try fails because the server is gone, and for good.
GoneInv ==
    /\ \A i \in 1 .. Len(calls) : calls[i] = "closed"
    /\ calls # << >> => peer = "closed" /\ s2c = << >>
    /\ peer = "closed" => c2s = << >>

\* What is on the wire in each phase.
WireInv ==
    /\ phase \in {"connect", "loop", "handshake"} =>
           c2s = << >> /\ s2c = << >> /\ peer # "status"
    /\ phase = "request" =>
           s2c = << >> /\ c2s = IF peer = "new" THEN <<Hello>> ELSE << >>
    /\ phase = "length" =>
           \/ c2s = <<Hello, Request>> /\ peer = "new" /\ s2c = << >>
           \/ c2s = <<Request>> /\ peer = "status" /\ s2c = << >>
           \/ /\ c2s = << >> /\ peer # "new"
              /\ \A i \in 1 .. Len(s2c) :
                     s2c[i].val = IF i = 1 THEN Len(Answer) ELSE Answer[i - 1]
    /\ phase = "payload" =>
           /\ c2s = << >> /\ peer # "new"
           /\ need = Len(Answer)
           /\ \A i \in 1 .. Len(s2c) : s2c[i].val = Answer[Len(got) + i]
           /\ \A i \in 1 .. Len(got) : got[i].val = Answer[i]
    /\ phase \notin {"payload", "exit", "done"} => got = << >>

BoundaryInv == Undisturbed => GoneInv /\ WireInv

\* An answer that has come in full is accepted.
LEMMA AnswerAccepted ==
    ASSUME IInv, WireInv, phase = "payload", Len(got) = need
    PROVE  Accepted(got)
  <1>1. Len(got) = Len(Answer) /\ \A i \in 1 .. Len(got) : got[i].val = Answer[i]
    BY DEF WireInv
  <1>2. CASE op = "ping"
    <2>1. Answer = <<1, TokenOf[attempt]>>
      BY <1>2 DEF Answer, PongPayload
    <2> QED
      BY <1>1, <1>2, <2>1 DEF Accepted, PongAccepted
  <1>3. CASE op # "ping"
    <2>1. Answer = <<0, 1, Json>>
      BY <1>3 DEF Answer, StatusPayload
    <2> QED
      BY <1>1, <1>3, <2>1 DEF Accepted, StatusAccepted
  <1> QED
    BY <1>2, <1>3

\* The exceptions grow by the one of the try that fails.
LEMMA OneMoreCall ==
    ASSUME IInv, NEW e \in Errors, TryFails(e)
    PROVE  /\ Len(calls') = Len(calls) + 1 /\ Len(calls) \in Nat
           /\ \A i \in 1 .. Len(calls) : calls'[i] = calls[i]
           /\ calls'[Len(calls) + 1] = e
  BY DEF IInv, TypeOK, TryFails

\* A request behind a handshake.
LEMMA TwoPackets ==
    ASSUME NEW a, NEW b
    PROVE  Append(<<a>>, b) = <<a, b>> /\ Tail(<<a, b>>) = <<b>>
  <1> DEFINE S == {a, b}
  <1>1. <<a>> \in Seq(S) /\ <<a, b>> \in Seq(S) /\ <<b>> \in Seq(S)
    OBVIOUS
  <1>2. Append(<<a>>, b) = <<a, b>>
    <2>1. b \in S
      OBVIOUS
    <2>2. /\ Append(<<a>>, b) \in Seq(S) /\ Len(Append(<<a>>, b)) = 2
          /\ Append(<<a>>, b)[1] = a /\ Append(<<a>>, b)[2] = b
      BY <1>1, <2>1, AppendProperties
    <2>3. Len(<<a, b>>) = 2 /\ <<a, b>>[1] = a /\ <<a, b>>[2] = b
      OBVIOUS
    <2>4. \A i \in 1 .. 2 : Append(<<a>>, b)[i] = <<a, b>>[i]
      BY <2>2, <2>3
    <2> QED
      BY <1>1, <2>2, <2>3, <2>4, SeqEqual
  <1>3. /\ Tail(<<a, b>>) \in Seq(S) /\ Len(Tail(<<a, b>>)) = 1
        /\ Tail(<<a, b>>)[1] = b
    BY <1>1, HeadTailProperties
  <1>4. Tail(<<a, b>>) = <<b>>
    BY <1>1, <1>3, SeqEqual
  <1> QED
    BY <1>2, <1>4

\* A try that fails without a timeout finds the server gone.
LEMMA FailInStep ==
    ASSUME IInv, GoneInv, NEW e \in Errors, TryFails(e),
           e = "closed", UNCHANGED net, peer = "closed", s2c = << >>
    PROVE  GoneInv' /\ WireInv'
  <1>1. c2s' = << >> /\ s2c' = << >> /\ peer' = "closed"
        /\ phase' = "loop" /\ got' = << >>
    BY DEF GoneInv, net, TryFails
  <1>2. \A i \in 1 .. Len(calls') : calls'[i] = "closed"
    BY OneMoreCall DEF GoneInv
  <1> QED
    BY <1>1, <1>2 DEF GoneInv, WireInv

\* Each write of the first try finds the way to the server as it left it.
LEMMA SendInStep ==
    ASSUME IInv, GoneInv, WireInv, UNCHANGED op, WriteHandshake \/ WriteRequest
    PROVE  GoneInv' /\ WireInv'
  <1>1. UNCHANGED <<attempt, calls, need, got, s2c, peer>>
    BY DEF WriteHandshake, WriteRequest, Send, reader
  <1>2. Hello' = Hello /\ Request' = Request /\ Answer' = Answer
    BY <1>1 DEF Hello, Request, Answer, PongPayload
  <1>3. peer = "closed" => c2s' = << >>
    BY DEF WriteHandshake, WriteRequest, Send, GoneInv
  <1>4. s2c = << >> /\ got = << >>
    BY DEF WriteHandshake, WriteRequest, Send, WireInv
  <1>5. CASE WriteHandshake
    <2>1. phase' = "request" /\ c2s = << >> /\ peer # "status"
      BY <1>5 DEF WriteHandshake, Send, WireInv
    <2>2. c2s' = IF peer = "new" THEN <<Hello>> ELSE << >>
      BY <1>5, <2>1, <1>3 DEF WriteHandshake, Send, Hello, IInv, TypeOK
    <2> QED
      BY <1>1, <1>2, <1>3, <1>4, <2>1, <2>2 DEF GoneInv, WireInv
  <1>6. CASE WriteRequest
    <2>1. phase' = "length" /\ c2s = IF peer = "new" THEN <<Hello>> ELSE << >>
      BY <1>6 DEF WriteRequest, Send, WireInv
    <2>2. CASE peer = "new"
      <3>1. c2s' = Append(<<Hello>>, Request)
        BY <1>6, <2>1, <2>2 DEF WriteRequest, Send, Request
      <3>2. c2s' = <<Hello, Request>>
        BY <3>1, TwoPackets
      <3> QED
        BY <1>1, <1>2, <1>4, <2>1, <2>2, <3>2 DEF GoneInv, WireInv
    <2>3. CASE peer = "status"
      BY <1>1, <1>2, <1>4, <1>6, <2>1, <2>3
         DEF WriteRequest, Send, Request, GoneInv, WireInv
    <2>4. CASE peer = "closed"
      BY <1>1, <1>2, <1>3, <1>4, <2>1, <2>4 DEF GoneInv, WireInv
    <2> QED
      BY <2>2, <2>3, <2>4 DEF IInv, TypeOK
  <1> QED
    BY <1>5, <1>6

\* The length read is that of the answer, and the answer follows it.
LEMMA LengthInStep ==
    ASSUME IInv, GoneInv, WireInv, UNCHANGED op, ReadLength
    PROVE  GoneInv' /\ WireInv'
  <1>1. /\ phase = "length" /\ s2c # << >> /\ phase' = "payload"
        /\ need' = Head(s2c).val /\ s2c' = Tail(s2c)
        /\ UNCHANGED <<attempt, calls, got, c2s, peer>>
    BY DEF ReadLength
  <1>2. Answer' = Answer
    BY <1>1 DEF Answer, PongPayload
  <1>3. /\ c2s = << >> /\ peer # "new" /\ got = << >>
        /\ \A i \in 1 .. Len(s2c) :
               s2c[i].val = IF i = 1 THEN Len(Answer) ELSE Answer[i - 1]
    BY <1>1 DEF WireInv
  <1>4. /\ Head(s2c) = s2c[1] /\ Len(Tail(s2c)) = Len(s2c) - 1
        /\ Len(s2c) \in Nat /\ Len(s2c) > 0
        /\ \A i \in 1 .. Len(Tail(s2c)) : Tail(s2c)[i] = s2c[i + 1]
    BY <1>1, HeadTailProperties, EmptySeq DEF IInv, TypeOK
  <1>5. need' = Len(Answer)
    BY <1>1, <1>3, <1>4
  <1>6. \A i \in 1 .. Len(Tail(s2c)) : Tail(s2c)[i].val = Answer[i]
    BY <1>3, <1>4
  <1>7. calls = << >>
    BY <1>1 DEF GoneInv
  <1> QED
    BY <1>1, <1>2, <1>3, <1>5, <1>6, <1>7 DEF GoneInv, WireInv

\* Bytes taken from the stream come behind the bytes taken before.
LEMMA PayloadInStep ==
    ASSUME IInv, GoneInv, WireInv, UNCHANGED op, ReadPayload
    PROVE  GoneInv' /\ WireInv'
  <1>1. PICK n \in 1 .. Len(s2c) :
            /\ got' = got \o SubSeq(s2c, 1, n)
            /\ s2c' = SubSeq(s2c, n + 1, Len(s2c))
    BY DEF ReadPayload
  <1> DEFINE taken == SubSeq(s2c, 1, n)
             rest == SubSeq(s2c, n + 1, Len(s2c))
  <1>2. /\ taken \in Seq(Byte) /\ Len(taken) = n
        /\ Len(rest) = Len(s2c) - n
        /\ \A i \in 1 .. n : taken[i] = s2c[i]
        /\ \A i \in 1 .. Len(s2c) - n : rest[i] = s2c[n + i]
    <2>1. s2c \in Seq(Byte) /\ got \in Seq(Byte)
      BY DEF IInv, TypeOK
    <2> QED
      BY <1>1, <2>1, MoveBytes
  <1>3. got' = got \o taken /\ s2c' = rest
    BY <1>1
  <1>4. /\ phase = "payload" /\ UNCHANGED <<phase, attempt, calls, need, c2s, peer>>
        /\ Answer' = Answer
    BY DEF ReadPayload, Answer, PongPayload
  <1>5. /\ c2s = << >> /\ peer # "new" /\ need = Len(Answer)
        /\ \A i \in 1 .. Len(s2c) : s2c[i].val = Answer[Len(got) + i]
        /\ \A i \in 1 .. Len(got) : got[i].val = Answer[i]
    BY <1>4 DEF WireInv
  <1>6. Len(s2c) \in Nat /\ Len(got) \in Nat /\ got \in Seq(Byte)
    BY DEF IInv, TypeOK
  <1> HIDE DEF taken, rest
  <1>7. /\ Len(got') = Len(got) + n
        /\ \A i \in 1 .. Len(got) + n :
               got'[i] = IF i <= Len(got) THEN got[i] ELSE taken[i - Len(got)]
    BY <1>2, <1>3, <1>6, ConcatProperties
  <1>8. ASSUME NEW i \in 1 .. Len(got') PROVE got'[i].val = Answer[i]
    <2>1. CASE i <= Len(got)
      BY <1>5, <1>6, <1>7, <2>1
    <2>2. CASE i > Len(got)
      <3>1. i - Len(got) \in 1 .. n /\ i - Len(got) \in 1 .. Len(s2c)
        BY <1>6, <1>7, <2>2
      <3>2. got'[i] = s2c[i - Len(got)]
        BY <1>2, <1>6, <1>7, <2>2, <3>1
      <3>3. Len(got) + (i - Len(got)) = i
        BY <1>6
      <3> QED
        BY <1>5, <3>1, <3>2, <3>3
    <2> QED
      BY <1>6, <2>1, <2>2
  <1>9. ASSUME NEW i \in 1 .. Len(s2c') PROVE s2c'[i].val = Answer[Len(got') + i]
    <2>1. s2c'[i] = s2c[n + i] /\ n + i \in 1 .. Len(s2c)
      BY <1>2, <1>3, <1>6
    <2>2. Len(got') + i = Len(got) + (n + i)
      BY <1>6, <1>7
    <2> QED
      BY <1>5, <2>1, <2>2
  <1>10. calls = << >>
    <2>1. s2c # << >>
      BY <1>1
    <2> QED
      BY <2>1 DEF GoneInv
  <1> QED
    BY <1>4, <1>5, <1>8, <1>9, <1>10 DEF GoneInv, WireInv

\* A server in the status state answers the request of the first try.
LEMMA AnswerInStep ==
    ASSUME IInv, GoneInv, WireInv, UNCHANGED op, phase \in InTry, ServerAnswers
    PROVE  GoneInv' /\ WireInv'
  <1>1. /\ peer = "status" /\ c2s # << >> /\ c2s' = Tail(c2s) /\ peer' = peer
        /\ UNCHANGED <<phase, attempt, calls, need, got>>
    BY DEF ServerAnswers, clientVars
  <1>2. phase = "length" /\ c2s = <<Request>> /\ s2c = << >> /\ got = << >>
    BY <1>1 DEF WireInv, InTry
  <1>3. c2s' = << >> /\ Head(c2s) = Request
    BY <1>1, <1>2
  <1>4. attempt \in 1 .. Tries
    BY TriesAssumption DEF IInv, TypeOK, LoopInv
  <1>5. s2c' = s2c \o Framed(Answer, attempt)
    <2>1. Head(c2s).kind = op /\ Head(c2s).from = attempt
      BY <1>3 DEF Request
    <2> QED
      BY <2>1 DEF ServerAnswers, Answer
  <1>6. Answer \in Seq(Nat) /\ Answer' = Answer
    BY <1>1, <1>4, PayloadType DEF Answer, PongPayload
  <1> DEFINE f == Framed(Answer, attempt)
  <1>7. /\ f \in Seq(Byte)
        /\ Len(f) = Len(Answer) + 1
        /\ \A i \in 1 .. Len(Answer) + 1 :
               f[i] = [val |-> IF i = 1 THEN Len(Answer) ELSE Answer[i - 1], from |-> attempt]
    BY <1>4, <1>6, FramedType
  <1> HIDE DEF f
  <1>8. s2c' = f
    BY <1>2, <1>5, <1>7 DEF f
  <1>9. \A i \in 1 .. Len(s2c') :
            s2c'[i].val = IF i = 1 THEN Len(Answer) ELSE Answer[i - 1]
    BY <1>7, <1>8
  <1>10. calls = << >>
    BY <1>1 DEF GoneInv
  <1> QED
    BY <1>1, <1>2, <1>3, <1>6, <1>9, <1>10 DEF GoneInv, WireInv

\* Every other step of the server takes what it was sent, or hangs up.
LEMMA ServerInStep ==
    ASSUME IInv, GoneInv, WireInv, UNCHANGED op, op \notin Garbled, phase # "done", Server
    PROVE  GoneInv' /\ WireInv'
  <1>1. UNCHANGED <<phase, attempt, calls, need, got>>
    BY DEF Server, ServerHandshake, ServerAnswers, ServerGarbles, ServerIgnores,
           ServerCloses, clientVars
  <1>2. Hello' = Hello /\ Request' = Request /\ Answer' = Answer
    BY <1>1 DEF Hello, Request, Answer, PongPayload
  <1>3. ~ServerGarbles
    BY DEF ServerGarbles
  <1>4. CASE ServerHandshake
    <2>1. peer = "new" /\ peer' = "status" /\ c2s # << >> /\ c2s' = Tail(c2s) /\ s2c' = s2c
      BY <1>4 DEF ServerHandshake
    <2>2. calls = << >>
      BY <2>1 DEF GoneInv
    <2>3. phase = "request" => c2s' = << >>
      BY <2>1 DEF WireInv
    <2>4. phase = "length" => c2s' = <<Request>> /\ s2c = << >>
      BY <2>1, TwoPackets DEF WireInv
    <2> QED
      BY <1>1, <1>2, <2>1, <2>2, <2>3, <2>4 DEF GoneInv, WireInv
  <1>5. CASE ServerAnswers
    <2>1. CASE phase \in InTry
      BY <1>5, <2>1, AnswerInStep
    <2>2. CASE phase \notin InTry
      <3>1. peer = "status" /\ peer' = peer
        BY <1>5 DEF ServerAnswers
      <3>2. phase \in {"exit"} /\ calls = << >>
        BY <2>2, <3>1 DEF WireInv, GoneInv, IInv, TypeOK, Phases, InTry
      <3> QED
        BY <1>1, <3>1, <3>2 DEF GoneInv, WireInv
    <2> QED
      BY <2>1, <2>2
  <1>6. CASE ServerIgnores
    <2>1. peer = "status" /\ c2s # << >> /\ c2s' = Tail(c2s) /\ UNCHANGED <<s2c, peer>>
      BY <1>6 DEF ServerIgnores
    <2>2. calls = << >>
      BY <2>1 DEF GoneInv
    <2>3. phase = "length" => c2s' = << >> /\ s2c = << >>
      BY <2>1 DEF WireInv
    <2> QED
      BY <1>1, <1>2, <2>1, <2>2, <2>3 DEF GoneInv, WireInv
  <1>7. CASE ServerCloses
    <2>1. peer' = "closed" /\ c2s' = << >> /\ s2c' \in {s2c, << >>} /\ peer # "closed"
      BY <1>7 DEF ServerCloses
    <2>2. calls = << >>
      BY <2>1 DEF GoneInv
    <2>3. phase \in {"connect", "loop", "handshake", "request"} => s2c' = << >>
      BY <2>1 DEF WireInv
    <2>4. CASE s2c' = << >>
      BY <1>1, <1>2, <2>1, <2>2, <2>4 DEF GoneInv, WireInv
    <2>5. CASE s2c' = s2c
      BY <1>1, <1>2, <2>1, <2>2, <2>3, <2>5 DEF GoneInv, WireInv
    <2> QED
      BY <2>1, <2>4, <2>5
  <1> QED
    BY <1>3, <1>4, <1>5, <1>6, <1>7 DEF Server

\* Client and server stay in step until a try times out.
LEMMA NextBoundary == IInv /\ BoundaryInv /\ [Next]_vars => BoundaryInv'
  <1> SUFFICES ASSUME IInv, BoundaryInv, [Next]_vars, Undisturbed'
               PROVE  GoneInv' /\ WireInv'
    BY DEF BoundaryInv
  <1>0. op' = op
    BY DEF Next, vars
  <1>1. Undisturbed
    <2>1. calls' = calls \/ \E e \in Errors : TryFails(e)
      BY DEF Next, Client, Connect, ConnectFails, NoDelayFails, BeginTry, GiveUp,
             WriteHandshake, WriteRequest, Send, WriteFails, ReadLength, ReadPayload,
             Accept, Reject, RecvTimeout, RecvClosed, Cancelled, Close, CloseFails,
             Server, ServerHandshake, ServerAnswers, ServerGarbles, ServerIgnores,
             ServerCloses, clientVars, Finished, vars, Errors
    <2>2. CASE calls' = calls
      BY <1>0, <2>2 DEF Undisturbed
    <2>3. CASE \E e \in Errors : TryFails(e)
      BY <1>0, <2>3, OneMoreCall DEF Undisturbed
    <2> QED
      BY <2>1, <2>2, <2>3
  <1>2. GoneInv /\ WireInv
    BY <1>1 DEF BoundaryInv
  <1>3. CASE Connect \/ ConnectFails \/ NoDelayFails
    BY <1>2, <1>3 DEF Connect, ConnectFails, NoDelayFails, GoneInv, WireInv, reader, net
  <1>4. CASE BeginTry
    BY <1>2, <1>4 DEF BeginTry, GoneInv, WireInv, reader, net
  <1>5. CASE GiveUp \/ Accept \/ Cancelled \/ Close \/ CloseFails
    BY <1>2, <1>5
       DEF GiveUp, Accept, Cancelled, Close, CloseFails, GoneInv, WireInv, reader, net
  <1>6. CASE WriteHandshake \/ WriteRequest
    BY <1>0, <1>2, <1>6, SendInStep
  <1>7. CASE WriteFails
    <2>1. s2c = << >>
      BY <1>2, <1>7 DEF WriteFails, WireInv
    <2> QED
      BY <1>2, <1>7, <2>1, FailInStep DEF WriteFails, Errors
  <1>8. CASE ReadLength
    BY <1>0, <1>2, <1>8, LengthInStep
  <1>9. CASE ReadPayload
    BY <1>0, <1>2, <1>9, PayloadInStep
  <1>10. CASE Reject
    BY <1>2, <1>10, AnswerAccepted DEF Reject
  <1>11. CASE RecvTimeout
    <2>1. TryFails("timeout") /\ "timeout" \in Errors
      BY <1>11 DEF RecvTimeout, Errors
    <2>2. Len(calls) + 1 \in 1 .. Len(calls') /\ calls'[Len(calls) + 1] = "timeout"
      BY <2>1, OneMoreCall
    <2> QED
      BY <2>2 DEF Undisturbed
  <1>12. CASE RecvClosed
    BY <1>2, <1>12, FailInStep DEF RecvClosed, Errors
  <1>13. CASE phase # "done" /\ Server
    BY <1>0, <1>1, <1>2, <1>13, ServerInStep DEF Undisturbed
  <1>14. CASE UNCHANGED vars
    BY <1>2, <1>14 DEF vars, GoneInv, WireInv, Hello, Request, Answer, PongPayload
  <1> QED
    BY <1>3, <1>4, <1>5, <1>6, <1>7, <1>8, <1>9, <1>10, <1>11, <1>12, <1>13, <1>14
       DEF Next, Client, Finished

\* The try that rejects is one behind a timeout.
LEMMA NextReject ==
    IInv /\ BoundaryInv /\ RejectNeedsTimeout /\ [Next]_vars => RejectNeedsTimeout'
  <1> SUFFICES ASSUME IInv, BoundaryInv, RejectNeedsTimeout, [Next]_vars,
                      op \notin Garbled
               PROVE  RejectNeedsTimeout'
    BY DEF RejectNeedsTimeout, Next, vars
  <1>1. CASE calls' = calls
    BY <1>1 DEF RejectNeedsTimeout
  <1>2. ASSUME NEW e \in Errors, TryFails(e),
               e = "invalid" => \E j \in 1 .. Len(calls) : calls[j] = "timeout"
        PROVE  RejectNeedsTimeout'
    <2>1. /\ Len(calls') = Len(calls) + 1 /\ Len(calls) \in Nat
          /\ \A i \in 1 .. Len(calls) : calls'[i] = calls[i]
          /\ calls'[Len(calls) + 1] = e
      BY <1>2, OneMoreCall
    <2>2. SUFFICES ASSUME NEW i \in 1 .. Len(calls'), calls'[i] = "invalid"
                   PROVE  \E j \in 1 .. i - 1 : calls'[j] = "timeout"
      BY DEF RejectNeedsTimeout
    <2>3. CASE i \in 1 .. Len(calls)
      <3>1. PICK j \in 1 .. i - 1 : calls[j] = "timeout"
        BY <2>1, <2>2, <2>3 DEF RejectNeedsTimeout
      <3> QED
        BY <2>1, <2>3, <3>1
    <2>4. CASE i = Len(calls) + 1
      BY <1>2, <2>1, <2>2, <2>4
    <2> QED
      BY <2>1, <2>3, <2>4
  <1>3. CASE Reject
    <2>1. ~Undisturbed
      BY <1>3, AnswerAccepted DEF Reject, BoundaryInv
    <2> QED
      BY <1>2, <1>3, <2>1 DEF Reject, Undisturbed, Errors
  <1>4. CASE WriteFails \/ RecvTimeout \/ RecvClosed
    BY <1>2, <1>4 DEF WriteFails, RecvTimeout, RecvClosed, Errors
  <1> QED
    BY <1>1, <1>3, <1>4
       DEF Next, Client, Connect, ConnectFails, NoDelayFails, BeginTry, GiveUp,
           WriteHandshake, WriteRequest, Send, ReadLength, ReadPayload, Accept,
           Cancelled, Close, CloseFails, Server, ServerHandshake, ServerAnswers,
           ServerGarbles, ServerIgnores, ServerCloses, clientVars, Finished, vars

\* With a server that garbles nothing a try rejects an answer only after an
\* earlier try timed out and left its answer in the stream: hung-up
\* connections, lost requests and answers in pieces never put a try out of step.
THEOREM OnlyLateAnswersRejected == Spec => []RejectNeedsTimeout
  <1>1. Init => BoundaryInv /\ RejectNeedsTimeout
    BY DEF Init, BoundaryInv, GoneInv, WireInv, RejectNeedsTimeout
  <1> QED
    BY <1>1, InvariantIInv, NextBoundary, NextReject, PTL DEF Spec
=============================================================================
