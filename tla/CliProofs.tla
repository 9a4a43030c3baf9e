----------------------------- MODULE CliProofs ------------------------------
(***************************************************************************)
(* Proofs about the command lines, for every set of exceptions.            *)
(***************************************************************************)
EXTENDS Cli, SequenceTheorems, TLAPS

Json == {"json_status", "json_query"}

\* No call so far was interrupted.
NoInterrupt == \A i \in 1 .. Len(calls) : calls[i].outcome # "interrupt"

\* What json_cmd has is what was answered, and the error it remembers is the
\* first there was.
Remembers ==
    /\ results = {op \in {"status", "query"} : Answered(op)}
    /\ IF exn = "none" THEN \A i \in 1 .. Len(calls) : calls[i].outcome = "ok"
                       ELSE FailedFirst(exn)

\* Which calls a command has made where it is.
Made ==
    /\ pc = "lookup" => calls = << >>
    /\ pc \in {"ping", "status", "query", "json_status"} =>
           calls = <<[op |-> "lookup", outcome |-> "ok"]>>
    /\ pc = "fallback" =>
           /\ Len(calls) = 2
           /\ calls[1] = [op |-> "lookup", outcome |-> "ok"]
           /\ calls[2].op = "ping" /\ calls[2].outcome \in Exceptions

\* Until it prints, json remembers; it never pings.
JsonSoFar ==
    /\ Remembers
    /\ \A i \in 1 .. Len(calls) : calls[i].op # "ping"
    /\ rust /\ pc # "json_status" => Answered("status")

\* Until the command ends it has printed no data.
Running ==
    /\ exit = "running" /\ stdout = Nothing
    /\ NoInterrupt
    /\ WarningIsEarned
    /\ pc # "print" => ~warned
    /\ pc \in {"lookup", "ping", "fallback", "status", "query"} => results = {}
    /\ cmd # "json" \/ pc = "lookup" => exn = "none"
    /\ pc \in {"lookup", "print"} \/ (pc \in Json <=> cmd = "json")
    /\ Made
    /\ cmd = "json" /\ pc # "lookup" => JsonSoFar
    /\ pc \in {"json_query", "print"} => results # {} \/ exn # "none"

IInv ==
    /\ TypeOK
    /\ pc # "ended" => Running
    /\ pc = "ended" => exit # "running" /\ JsonIsTruthful /\ WarningIsEarned /\ ExitCodeIsHonest

-----------------------------------------------------------------------------

\* What a call adds to the record.
LEMMA CalledFacts ==
    ASSUME TypeOK, NEW op \in Ops, NEW o \in Outcomes, Called(op, o)
    PROVE  /\ calls' \in Seq([op : Ops, outcome : Outcomes])
           /\ Len(calls) \in Nat /\ Len(calls') = Len(calls) + 1
           /\ calls'[Len(calls')] = [op |-> op, outcome |-> o]
           /\ \A i \in 1 .. Len(calls) : calls'[i] = calls[i]
  BY DEF TypeOK, Called

\* An operation is answered where it was before, or by the call just made.
LEMMA AnsweredGrows ==
    ASSUME TypeOK, NEW op \in Ops, NEW o \in Outcomes, Called(op, o), NEW x
    PROVE  Answered(x)' <=> Answered(x) \/ (x = op /\ o = "ok")
  <1>1. /\ Len(calls) \in Nat /\ Len(calls') = Len(calls) + 1
        /\ calls'[Len(calls')] = [op |-> op, outcome |-> o]
        /\ \A i \in 1 .. Len(calls) : calls'[i] = calls[i]
    BY CalledFacts
  <1>2. ASSUME Answered(x)'
        PROVE  Answered(x) \/ (x = op /\ o = "ok")
    <2>1. PICK i \in 1 .. Len(calls') : calls'[i] = [op |-> x, outcome |-> "ok"]
      BY <1>2 DEF Answered
    <2>2. CASE i = Len(calls')
      <3>1. [op |-> x, outcome |-> "ok"] = [op |-> op, outcome |-> o]
        BY <1>1, <2>1, <2>2
      <3>2. x = op /\ o = "ok"
        BY <3>1
      <3> QED
        BY <3>2
    <2>3. CASE i # Len(calls')
      BY <1>1, <2>1, <2>3 DEF Answered
    <2> QED
      BY <2>2, <2>3
  <1>3. ASSUME Answered(x)
        PROVE  Answered(x)'
    <2>1. PICK i \in 1 .. Len(calls) : calls[i] = [op |-> x, outcome |-> "ok"]
      BY <1>3 DEF Answered
    <2>2. i \in 1 .. Len(calls') /\ calls'[i] = [op |-> x, outcome |-> "ok"]
      BY <1>1, <2>1
    <2> QED
      BY <2>2 DEF Answered
  <1>4. ASSUME x = op, o = "ok"
        PROVE  Answered(x)'
    BY <1>1, <1>4 DEF Answered
  <1> QED
    BY <1>2, <1>3, <1>4

\* The record of a command begins empty, and its types are those of TypeOK.
LEMMA InitIInv == Init => IInv
  <1> SUFFICES ASSUME Init PROVE IInv
    OBVIOUS
  <1>1. TypeOK
    <2>1. stdout \in [extent : {"nothing", "begun", "whole"},
                     answer : SUBSET {"ping", "status", "query"},
                     error : Exceptions \cup {"none"}, online : BOOLEAN]
      BY DEF Init, Nothing
    <2>2. rust \in BOOLEAN /\ warned \in BOOLEAN
      BY DEF Init
    <2> QED
      BY <2>1, <2>2 DEF Init, TypeOK
  <1>2. Running
    <2>1. calls = << >> /\ Len(calls) = 0
      BY DEF Init
    <2>2. NoInterrupt /\ WarningIsEarned /\ Made
      BY <2>1 DEF Init, NoInterrupt, WarningIsEarned, Made
    <2> QED
      BY <2>2 DEF Init, Running
  <1> QED
    BY <1>1, <1>2 DEF Init, IInv

\* An exception that reaches main() ends the command without output.
LEMMA RaisedFacts ==
    ASSUME TypeOK, stdout = Nothing, NEW op \in Ops, NEW o \in Outcomes \ {"ok"},
           Called(op, o), Raised(o)
    PROVE  /\ pc' = "ended" /\ exit' \in {"1", "traceback", "killed"}
           /\ UNCHANGED <<exn, results, stdout>>
           /\ ExitCodeIsHonest'
           /\ o = "interrupt" => Interrupted'
           /\ o \in Exceptions /\ rust => exit' = "1"
  <1>1. calls'[Len(calls')].outcome = o
    <2>1. calls'[Len(calls')] = [op |-> op, outcome |-> o]
      BY CalledFacts
    <2> QED
      BY <2>1
  <1>2. /\ pc' = "ended" /\ exit' \in {"1", "traceback", "killed"}
        /\ UNCHANGED <<exn, results, stdout>>
    BY DEF Raised, Ends, ExitOf
  <1>3. exit' = "traceback" => o \notin Expected
    BY DEF Raised, Ends, ExitOf
  <1>4. o = "interrupt" => exit' \in {"traceback", "killed"}
    BY DisjointAssumption DEF Raised, Ends, ExitOf
  <1>5. o \in Exceptions /\ rust => exit' = "1"
    <2>1. rust \in BOOLEAN
      BY DEF TypeOK
    <2>2. ASSUME o \in Exceptions, rust
          PROVE  o \in Expected \/ (rust /\ o \in Unexpected)
      BY <2>2 DEF Exceptions
    <2> QED
      BY <2>1, <2>2, DisjointAssumption DEF Raised, Ends, ExitOf, Exceptions
  <1>6. ExitCodeIsHonest'
    BY <1>1, <1>2, <1>3 DEF ExitCodeIsHonest, Nothing
  <1> QED
    BY <1>1, <1>2, <1>4, <1>5, <1>6 DEF Interrupted

\* A call that is not interrupted leaves the record without an interrupt.
LEMMA NoInterruptGrows ==
    ASSUME TypeOK, NoInterrupt, NEW op \in Ops, NEW o \in Outcomes \ {"interrupt"},
           Called(op, o)
    PROVE  NoInterrupt'
  <1>1. /\ Len(calls) \in Nat /\ Len(calls') = Len(calls) + 1
        /\ calls'[Len(calls')] = [op |-> op, outcome |-> o]
        /\ \A i \in 1 .. Len(calls) : calls'[i] = calls[i]
    BY CalledFacts
  <1>2. calls'[Len(calls')].outcome = o
    BY <1>1
  <1> QED
    BY <1>1, <1>2 DEF NoInterrupt

\* What is printed of a response or an error is well typed.
LEMMA OutputTyped ==
    ASSUME TypeOK, NEW extent \in {"begun", "whole"}
    PROVE  /\ Output(extent) \in [extent : {"nothing", "begun", "whole"},
                                  answer : SUBSET {"ping", "status", "query"},
                                  error : Exceptions \cup {"none"}, online : BOOLEAN]
           /\ Output(extent).extent = extent
           /\ Output(extent).answer = results
           /\ Output(extent).online = (results # {})
           /\ Output(extent).error = IF results # {} THEN "none" ELSE exn
  BY DEF TypeOK, Output, Online

-----------------------------------------------------------------------------
(* The commands.                                                           *)

\* A command other than json ends as the invariant says, if it warned rightly.
LEMMA EndsRightly ==
    ASSUME TypeOK', pc' = "ended", exit' # "running", ExitCodeIsHonest',
           cmd' # "json", WarningIsEarned'
    PROVE  IInv'
  BY DEF IInv, JsonIsTruthful

\* No ping, no warning.
LEMMA NoPingNoWarning ==
    ASSUME TypeOK, NEW op \in Ops \ {"ping"}, NEW o \in Outcomes, Called(op, o),
           \A i \in 1 .. Len(calls) : calls[i].op # "ping", ~warned'
    PROVE  WarningIsEarned' /\ \A i \in 1 .. Len(calls') : calls'[i].op # "ping"
  <1>1. /\ Len(calls) \in Nat /\ Len(calls') = Len(calls) + 1
        /\ calls'[Len(calls')] = [op |-> op, outcome |-> o]
        /\ \A i \in 1 .. Len(calls) : calls'[i] = calls[i]
    BY CalledFacts
  <1>2. calls'[Len(calls')].op = op
    BY <1>1
  <1>3. \A i \in 1 .. Len(calls') : calls'[i].op # "ping"
    BY <1>1, <1>2
  <1> QED
    BY <1>3 DEF WarningIsEarned

\* A failing call other than a ping, and without a warning, ends the command.
LEMMA RaisedEnds ==
    ASSUME TypeOK, Running, NEW op \in Ops \ {"ping"}, NEW o \in Outcomes \ {"ok"},
           Called(op, o), Raised(o), UNCHANGED <<rust, kind, cmd, warned>>,
           \A i \in 1 .. Len(calls) : calls[i].op # "ping", ~warned,
           JsonIsTruthful'
    PROVE  IInv'
  <1>1. /\ pc' = "ended" /\ exit' \in {"1", "traceback", "killed"}
        /\ UNCHANGED <<exn, results, stdout>> /\ ExitCodeIsHonest'
    BY RaisedFacts DEF Running
  <1>2. calls' \in Seq([op : Ops, outcome : Outcomes])
    BY CalledFacts
  <1>3. TypeOK'
    BY <1>1, <1>2 DEF TypeOK
  <1>4. WarningIsEarned'
    BY NoPingNoWarning
  <1> QED
    BY <1>1, <1>3, <1>4 DEF IInv

\* The status, the ping or the query of a command of its own that answers is
\* printed next.
LEMMA AnswerGoesOn ==
    ASSUME TypeOK, Running, NEW op \in {"ping", "status", "query"}, cmd # "json",
           Called(op, "ok"), Answers(op, "print"),
           UNCHANGED <<rust, kind, cmd>>, warned' \in BOOLEAN, WarningIsEarned'
    PROVE  IInv'
  <1>0. op \in Ops /\ "ok" \in Outcomes \ {"interrupt"}
    BY DEF Ops, Outcomes
  <1>1. calls' \in Seq([op : Ops, outcome : Outcomes])
    BY <1>0, CalledFacts
  <1>2. /\ results' = results \cup {op} /\ pc' = "print"
        /\ UNCHANGED <<exn, stdout, exit>>
    BY DEF Answers, Obtained
  <1>3. results' \subseteq {"ping", "status", "query"}
    BY <1>2 DEF TypeOK
  <1>4. TypeOK'
    BY <1>1, <1>2, <1>3 DEF TypeOK
  <1>5. NoInterrupt'
    BY <1>0, NoInterruptGrows DEF Running
  <1>6. Running'
    BY <1>2, <1>5 DEF Running, Made
  <1> QED
    BY <1>2, <1>4, <1>6 DEF IInv

\* Where nothing but the lookup was called, nothing was a ping or interrupted.
LEMMA LookupOnly ==
    ASSUME TypeOK, Running, pc \in {"ping", "status", "query", "json_status"}
    PROVE  /\ Len(calls) = 1 /\ calls[1] = [op |-> "lookup", outcome |-> "ok"]
           /\ \A i \in 1 .. Len(calls) : calls[i].op = "lookup" /\ calls[i].outcome = "ok"
  BY DEF Running, Made

\* The lookup is the first call; after it the command begins.
LEMMA LookupStep == ASSUME TypeOK, Running, Lookup PROVE IInv'
  <1>0. calls = << >> /\ pc = "lookup" /\ exn = "none" /\ results = {} /\ Len(calls) = 0 /\ ~warned
    BY DEF Lookup, Running, Made
  <1>1. PICK o \in Outcomes :
            /\ Called("lookup", o)
            /\ \/ /\ o = "ok"
                  /\ pc' = FirstCall
                  /\ UNCHANGED <<exn, results, stdout, exit>>
               \/ o # "ok" /\ Raised(o)
    BY DEF Lookup
  <1>2. "lookup" \in Ops \ {"ping"} /\ UNCHANGED <<rust, kind, cmd, warned>>
    BY DEF Ops, Lookup
  <1>3. CASE o = "ok"
    <2>0. UNCHANGED <<exn, results, stdout, exit>> /\ pc' = FirstCall
      BY <1>1, <1>3 DEF Raised
    <2>1. pc' \in {"ping", "status", "query", "json_status"} /\ (pc' = "json_status" <=> cmd = "json")
      BY <2>0 DEF FirstCall, TypeOK
    <2>2. calls' = <<[op |-> "lookup", outcome |-> "ok"]>>
      BY <1>0, <1>1, <1>3 DEF Called
    <2>3. TypeOK'
      <3>1. calls' \in Seq([op : Ops, outcome : Outcomes])
        BY <1>1, <1>2, CalledFacts
      <3> QED
        BY <1>2, <2>0, <2>1, <3>1 DEF TypeOK
    <2>4. Remembers' /\ NoInterrupt' /\ WarningIsEarned' /\ ~Answered("status")'
      <3>1. \A i \in 1 .. Len(calls') : calls'[i].outcome = "ok" /\ calls'[i].op = "lookup"
        BY <2>2
      <3>2. ~Answered("status")' /\ ~Answered("query")'
        BY <3>1 DEF Answered
      <3>3. Remembers'
        BY <1>0, <2>0, <3>1, <3>2 DEF Remembers
      <3>4. NoInterrupt' /\ WarningIsEarned'
        BY <1>0, <1>2, <3>1 DEF NoInterrupt, WarningIsEarned
      <3> QED
        BY <3>2, <3>3, <3>4
    <2>5. \A i \in 1 .. Len(calls') : calls'[i].op # "ping"
      BY <2>2
    <2>6. Running'
      BY <1>0, <1>2, <2>0, <2>1, <2>2, <2>4, <2>5 DEF Running, JsonSoFar, Made, Json
    <2> QED
      BY <2>1, <2>3, <2>6 DEF IInv
  <1>4. CASE o # "ok"
    <2>1. ~Answered("lookup")'
      <3>1. ~Answered("lookup")
        BY <1>0 DEF Answered
      <3> QED
        BY <1>1, <1>2, <1>4, <3>1, AnsweredGrows
    <2>2. JsonIsTruthful'
      BY <2>1 DEF JsonIsTruthful
    <2>3. \A i \in 1 .. Len(calls) : calls[i].op # "ping"
      BY <1>0
    <2> QED
      BY <1>0, <1>1, <1>2, <1>4, <2>2, <2>3, RaisedEnds
  <1> QED
    BY <1>3, <1>4

\* A ping that answers ends the command; one that raises leads to the status.
LEMMA PingStep == ASSUME TypeOK, Running, Ping PROVE IInv'
  <1>0. /\ pc = "ping" /\ cmd # "json" /\ ~warned
        /\ "ping" \in Ops /\ rust \in BOOLEAN /\ UNCHANGED <<rust, kind, cmd, warned>>
    BY DEF Ping, Running, Json, Ops, TypeOK
  <1>1. /\ Len(calls) = 1 /\ calls[1] = [op |-> "lookup", outcome |-> "ok"]
        /\ \A i \in 1 .. Len(calls) : calls[i].op = "lookup" /\ calls[i].outcome = "ok"
    BY <1>0, LookupOnly
  <1>2. PICK o \in Outcomes :
            /\ Called("ping", o)
            /\ \/ o = "ok" /\ Answers("ping", "print")
               \/ o \in Exceptions /\ pc' = "fallback" /\ UNCHANGED <<exn, results, stdout, exit>>
               \/ o = "interrupt" /\ Raised(o)
    BY DEF Ping
  <1>3. /\ calls' \in Seq([op : Ops, outcome : Outcomes])
        /\ Len(calls') = 2 /\ calls'[2] = [op |-> "ping", outcome |-> o]
        /\ calls'[1] = [op |-> "lookup", outcome |-> "ok"]
    <2>1. /\ calls' \in Seq([op : Ops, outcome : Outcomes])
          /\ Len(calls) \in Nat /\ Len(calls') = Len(calls) + 1
          /\ calls'[Len(calls')] = [op |-> "ping", outcome |-> o]
          /\ \A i \in 1 .. Len(calls) : calls'[i] = calls[i]
      BY <1>0, <1>2, CalledFacts
    <2> QED
      BY <1>1, <2>1
  <1>4. calls'[2].op = "ping" /\ calls'[2].outcome = o
    BY <1>3
  <1>5. WarningIsEarned'
    <2>1. ~Answered("status")'
      BY <1>3 DEF Answered
    <2>2. \A i \in 1 .. Len(calls') : calls'[i].op # "status"
      BY <1>3, <1>4
    <2> QED
      BY <1>0, <2>1, <2>2 DEF WarningIsEarned
  <1>6. CASE o = "ok"
    <2>1. Answers("ping", "print")
      BY <1>2, <1>6, DisjointAssumption DEF Exceptions
    <2>2. warned' \in BOOLEAN
      BY <1>0 DEF TypeOK
    <2> QED
      BY <1>0, <1>2, <1>5, <1>6, <2>1, <2>2, AnswerGoesOn
  <1>7. CASE o \in Exceptions
    <2>1. pc' = "fallback" /\ UNCHANGED <<exn, results, stdout, exit>>
      BY <1>2, <1>7, DisjointAssumption DEF Exceptions
    <2>2. TypeOK'
      BY <1>0, <1>3, <2>1 DEF TypeOK
    <2>3. NoInterrupt'
      <3>1. o \in Outcomes \ {"interrupt"}
        BY <1>7, DisjointAssumption DEF Exceptions
      <3> QED
        BY <1>0, <1>2, <3>1, NoInterruptGrows DEF Running
    <2>4. Running'
      BY <1>0, <1>3, <1>4, <1>5, <1>7, <2>1, <2>3 DEF Running, Made, Json
    <2> QED
      BY <2>1, <2>2, <2>4 DEF IInv
  <1>8. CASE o = "interrupt"
    <2>0. Raised(o) /\ o \in Outcomes \ {"ok"} /\ stdout = Nothing
      BY <1>2, <1>8, DisjointAssumption DEF Exceptions, Running
    <2>1. /\ pc' = "ended" /\ exit' \in {"1", "traceback", "killed"}
          /\ UNCHANGED <<exn, results, stdout>> /\ ExitCodeIsHonest'
      BY <1>0, <1>2, <2>0, RaisedFacts
    <2>2. TypeOK'
      BY <1>0, <1>3, <2>1 DEF TypeOK
    <2> QED
      BY <1>0, <1>5, <2>1, <2>2, EndsRightly
  <1> QED
    BY <1>6, <1>7, <1>8 DEF Outcomes

\* The status after a ping that failed, with the warning.
LEMMA FallbackStep == ASSUME TypeOK, Running, Fallback PROVE IInv'
  <1>0. /\ pc = "fallback" /\ cmd # "json" /\ stdout = Nothing
        /\ "status" \in Ops /\ UNCHANGED <<rust, kind, cmd>> /\ rust \in BOOLEAN
    BY DEF Fallback, Running, Json, Ops, TypeOK
  <1>1. /\ Len(calls) = 2 /\ calls[1] = [op |-> "lookup", outcome |-> "ok"]
        /\ calls[2].op = "ping" /\ calls[2].outcome \in Exceptions
    BY <1>0 DEF Running, Made
  <1>2. PICK o \in Outcomes :
            /\ Called("status", o)
            /\ warned' = Warns(o)
            /\ \/ o = "ok" /\ Answers("status", "print")
               \/ o # "ok" /\ Raised(o)
    BY DEF Fallback
  <1>3. /\ calls' \in Seq([op : Ops, outcome : Outcomes])
        /\ Len(calls') = 3 /\ calls'[3] = [op |-> "status", outcome |-> o]
        /\ calls'[1] = calls[1] /\ calls'[2] = calls[2]
    <2>1. /\ calls' \in Seq([op : Ops, outcome : Outcomes])
          /\ Len(calls) \in Nat /\ Len(calls') = Len(calls) + 1
          /\ calls'[Len(calls')] = [op |-> "status", outcome |-> o]
          /\ \A i \in 1 .. Len(calls) : calls'[i] = calls[i]
      BY <1>0, <1>2, CalledFacts
    <2> QED
      BY <1>1, <2>1
  <1>4. WarningIsEarned'
    <2>1. warned' = (rust \/ o = "ok")
      BY <1>2 DEF Warns
    <2>2. calls'[2].op = "ping" /\ calls'[2].outcome # "ok" /\ 2 \in 1 .. Len(calls')
      BY <1>1, <1>3, DisjointAssumption DEF Exceptions
    <2>3. \E i \in 1 .. Len(calls') : calls'[i].op = "status"
      <3>1. calls'[3].op = "status" /\ 3 \in 1 .. Len(calls')
        BY <1>3
      <3> QED
        BY <3>1
    <2>4. Answered("status")' <=> o = "ok"
      <3>1. ~Answered("status")
        BY <1>1, DisjointAssumption DEF Answered, Exceptions
      <3> QED
        BY <1>0, <1>2, <3>1, AnsweredGrows
    <2>5. \E i \in 1 .. Len(calls') : calls'[i].op = "ping" /\ calls'[i].outcome # "ok"
      BY <2>2
    <2>6. CASE rust
      BY <1>0, <2>1, <2>3, <2>5, <2>6 DEF WarningIsEarned
    <2>7. CASE ~rust
      BY <1>0, <2>1, <2>4, <2>5, <2>7 DEF WarningIsEarned
    <2> QED
      BY <2>6, <2>7
  <1>5. warned' \in BOOLEAN
    BY <1>2 DEF Warns
  <1>6. CASE o = "ok"
    BY <1>0, <1>2, <1>4, <1>5, <1>6, AnswerGoesOn
  <1>7. CASE o # "ok"
    <2>1. /\ pc' = "ended" /\ exit' \in {"1", "traceback", "killed"}
          /\ UNCHANGED <<exn, results, stdout>> /\ ExitCodeIsHonest'
      BY <1>0, <1>2, <1>7, RaisedFacts
    <2>2. TypeOK'
      BY <1>0, <1>3, <1>5, <2>1 DEF TypeOK
    <2> QED
      BY <1>0, <1>4, <2>1, <2>2, EndsRightly
  <1> QED
    BY <1>6, <1>7

\* The only call of a status or query command, whose failure ends it.
LEMMA SingleCall ==
    ASSUME TypeOK, Running, NEW op \in {"status", "query"}, NEW o \in Outcomes,
           pc = op, Called(op, o), UNCHANGED <<rust, kind, cmd, warned>>,
           \/ o = "ok" /\ Answers(op, "print")
           \/ o # "ok" /\ Raised(o)
    PROVE  IInv'
  <1>0. cmd # "json" /\ op \in Ops \ {"ping"} /\ ~warned /\ warned' \in BOOLEAN /\ op # "lookup"
    BY DEF Running, Json, Ops, TypeOK
  <1>1. \A i \in 1 .. Len(calls) : calls[i].op # "ping" /\ calls[i].outcome # "interrupt"
    BY LookupOnly
  <1>2. WarningIsEarned'
    BY <1>0, <1>1, NoPingNoWarning
  <1>3. CASE o = "ok"
    BY <1>0, <1>2, <1>3, AnswerGoesOn
  <1>4. CASE o # "ok"
    <2>1. JsonIsTruthful'
      BY <1>0 DEF JsonIsTruthful
    <2> QED
      BY <1>0, <1>1, <1>4, <2>1, RaisedEnds
  <1> QED
    BY <1>3, <1>4

\* The status command makes one call.
LEMMA StatusStep == ASSUME TypeOK, Running, Status PROVE IInv'
  BY SingleCall DEF Status

\* A query may also end in a timeout that is explained.
LEMMA QueryStep == ASSUME TypeOK, Running, Query \/ QueryUnsupported PROVE IInv'
  <1>0. /\ pc = "query" /\ cmd # "json" /\ stdout = Nothing /\ ~warned
        /\ UNCHANGED <<rust, kind, cmd, warned>> /\ "query" \in Ops \ {"ping"}
    BY DEF Query, QueryUnsupported, Running, Json, Ops
  <1>1. \A i \in 1 .. Len(calls) : calls[i].op # "ping" /\ calls[i].outcome # "interrupt"
    BY <1>0, LookupOnly
  <1>2. CASE QueryUnsupported
    <2>1. /\ pc' = "ended" /\ exit' = "1"
          /\ UNCHANGED <<calls, exn, results, stdout>>
      BY <1>2 DEF QueryUnsupported, Ends
    <2>2. TypeOK'
      BY <1>0, <2>1 DEF TypeOK
    <2>3. WarningIsEarned'
      BY <1>0, <1>1, <2>1 DEF WarningIsEarned
    <2>4. ExitCodeIsHonest'
      BY <1>0, <2>1 DEF ExitCodeIsHonest, Nothing
    <2> QED
      BY <1>0, <2>1, <2>2, <2>3, <2>4, EndsRightly
  <1>3. CASE Query
    <2>1. PICK o \in Outcomes :
              /\ Called("query", o)
              /\ \/ o = "ok" /\ Answers("query", "print")
                 \/ o = Timeout /\ Ends("1") /\ UNCHANGED <<exn, results, stdout>>
                 \/ o \notin {"ok", Timeout} /\ Raised(o)
      BY <1>3 DEF Query
    <2>2. CASE o = Timeout /\ Ends("1") /\ UNCHANGED <<exn, results, stdout>>
      <3>1. calls' \in Seq([op : Ops, outcome : Outcomes])
        BY <1>0, <2>1, CalledFacts
      <3>2. TypeOK'
        BY <1>0, <2>2, <3>1 DEF TypeOK, Ends
      <3>3. WarningIsEarned'
        BY <1>0, <1>1, <2>1, NoPingNoWarning
      <3>4. ExitCodeIsHonest'
        BY <1>0, <2>2 DEF ExitCodeIsHonest, Nothing, Ends
      <3>5. pc' = "ended" /\ exit' # "running"
        BY <2>2 DEF Ends
      <3> QED
        BY <1>0, <3>2, <3>3, <3>4, <3>5, EndsRightly
    <2>3. CASE \/ o = "ok" /\ Answers("query", "print")
               \/ o # "ok" /\ Raised(o)
      BY <1>0, <2>1, <2>3, SingleCall
    <2> QED
      BY <2>1, <2>2, <2>3
  <1> QED
    BY <1>2, <1>3

-----------------------------------------------------------------------------
(* json.                                                                   *)

\* A call that was not interrupted keeps the results and the first error.
LEMMA RemembersGrows ==
    ASSUME TypeOK, Remembers, NEW op \in {"status", "query"},
           NEW o \in {"ok"} \cup Exceptions, Called(op, o),
           \/ o = "ok" /\ results' = Obtained(op) /\ UNCHANGED exn
           \/ o \in Exceptions /\ exn' = Remembered(o) /\ UNCHANGED results
    PROVE  Remembers' /\ (results' # {} \/ exn' # "none")
  <1>1. o \in Outcomes /\ op \in Ops /\ o # "interrupt" /\ o # "none"
        /\ (o \in Exceptions => o # "ok")
    BY DisjointAssumption DEF Outcomes, Ops, Exceptions
  <1>2. /\ Len(calls) \in Nat /\ Len(calls') = Len(calls) + 1
        /\ calls'[Len(calls')] = [op |-> op, outcome |-> o]
        /\ \A i \in 1 .. Len(calls) : calls'[i] = calls[i]
    BY <1>1, CalledFacts
  <1>3. calls'[Len(calls')].outcome = o
    BY <1>2
  <1>4. results' = {x \in {"status", "query"} : Answered(x)'}
    <2>1. \A x \in {"status", "query"} : x \in results <=> Answered(x)
      BY DEF Remembers
    <2>2. \A x \in {"status", "query"} : Answered(x)' <=> Answered(x) \/ (x = op /\ o = "ok")
      BY <1>1, AnsweredGrows
    <2>3. \A x \in {"status", "query"} : x \in results' <=> x \in results \/ (x = op /\ o = "ok")
      BY <1>1 DEF Obtained
    <2>4. results' \subseteq {"status", "query"}
      BY DEF Remembers, Obtained
    <2> QED
      BY <2>1, <2>2, <2>3, <2>4
  <1>5. CASE exn = "none"
    <2>1. \A i \in 1 .. Len(calls) : calls'[i].outcome = "ok"
      BY <1>2, <1>5 DEF Remembers
    <2>2. CASE o = "ok"
      <3>1. exn' = "none" /\ \A i \in 1 .. Len(calls') : calls'[i].outcome = "ok"
        BY <1>1, <1>2, <1>3, <1>5, <2>1, <2>2
      <3>2. results' # {}
        BY <1>1, <2>2 DEF Obtained
      <3> QED
        BY <1>4, <3>1, <3>2 DEF Remembers
    <2>3. CASE o # "ok"
      <3>1. exn' = o /\ exn' # "none"
        BY <1>1, <1>5, <2>3 DEF Remembered
      <3>2. FailedFirst(exn)'
        BY <1>2, <1>3, <2>1, <2>3, <3>1 DEF FailedFirst
      <3> QED
        BY <1>4, <3>1, <3>2 DEF Remembers
    <2> QED
      BY <2>2, <2>3
  <1>6. CASE exn # "none"
    <2>1. exn' = exn
      BY <1>6 DEF Remembered
    <2>2. PICK i \in 1 .. Len(calls) :
              /\ calls[i].outcome = exn /\ exn # "ok"
              /\ \A j \in 1 .. i - 1 : calls[j].outcome = "ok"
      BY <1>6 DEF Remembers, FailedFirst
    <2>3. FailedFirst(exn)'
      BY <1>2, <2>1, <2>2 DEF FailedFirst
    <2> QED
      BY <1>4, <1>6, <2>1, <2>3 DEF Remembers
  <1> QED
    BY <1>5, <1>6

\* One call of json: it goes on with what it got, or an exception ends it.
LEMMA JsonStep ==
    ASSUME TypeOK, Running, NEW op \in {"status", "query"}, pc \in Json,
           NEW next \in {"json_query", "print"}, JsonCall(op, next),
           UNCHANGED <<rust, kind, cmd, warned>>,
           pc = "json_status" <=> op = "status"
    PROVE  IInv'
  <1>0. /\ Remembers /\ cmd = "json" /\ ~warned /\ op \in Ops \ {"ping"} /\ rust \in BOOLEAN
        /\ \A i \in 1 .. Len(calls) : calls[i].op # "ping"
        /\ rust /\ pc # "json_status" => Answered("status")
        /\ stdout = Nothing /\ exit = "running" /\ NoInterrupt
    BY DEF Running, JsonSoFar, Json, Ops, TypeOK
  <1>1. PICK o \in Outcomes :
            /\ Called(op, o)
            /\ \/ o = "ok" /\ Answers(op, next)
               \/ /\ o \in Exceptions /\ Tried(op)
                  /\ exn' = Remembered(o) /\ pc' = next
                  /\ UNCHANGED <<results, stdout, exit>>
               \/ o = "interrupt" /\ Raised(o)
               \/ o \in Exceptions /\ ~Tried(op) /\ Raised(o)
    BY DEF JsonCall
  <1>2. calls' \in Seq([op : Ops, outcome : Outcomes])
    BY <1>0, <1>1, CalledFacts
  <1>3. WarningIsEarned' /\ \A i \in 1 .. Len(calls') : calls'[i].op # "ping"
    BY <1>0, <1>1, NoPingNoWarning
  <1>4. Answered("status")' <=> Answered("status") \/ (op = "status" /\ o = "ok")
    BY <1>0, <1>1, AnsweredGrows
  <1>5. CASE \/ o = "ok" /\ Answers(op, next)
             \/ /\ o \in Exceptions /\ Tried(op)
                /\ exn' = Remembered(o) /\ pc' = next
                /\ UNCHANGED <<results, stdout, exit>>
    <2>1. Remembers' /\ (results' # {} \/ exn' # "none")
      BY <1>0, <1>1, <1>5, RemembersGrows DEF Answers
    <2>2. pc' \in {"json_query", "print"} /\ UNCHANGED <<stdout, exit>>
      BY <1>5 DEF Answers
    <2>3. exn' \in Exceptions \cup {"none"} /\ results' \subseteq {"ping", "status", "query"}
      BY <1>5 DEF TypeOK, Answers, Remembered, Obtained
    <2>4. TypeOK'
      BY <1>0, <1>2, <2>2, <2>3 DEF TypeOK
    <2>5. rust' => Answered("status")'
      BY <1>0, <1>4, <1>5 DEF Tried
    <2>6. NoInterrupt'
      <3>1. o \in Outcomes \ {"interrupt"}
        BY <1>5, DisjointAssumption DEF Exceptions
      <3> QED
        BY <1>0, <1>1, <3>1, NoInterruptGrows
    <2>7. JsonSoFar'
      BY <1>3, <2>1, <2>5 DEF JsonSoFar
    <2>8. Running'
      BY <1>0, <1>3, <2>1, <2>2, <2>6, <2>7 DEF Running, Made, Json
    <2> QED
      BY <2>2, <2>4, <2>8 DEF IInv
  <1>6. CASE (o = "interrupt" \/ (o \in Exceptions /\ ~Tried(op))) /\ Raised(o)
    <2>1. o \in Outcomes \ {"ok"}
      BY <1>6, DisjointAssumption DEF Exceptions
    <2>2. (o = "interrupt" => Interrupted') /\ (o \in Exceptions /\ rust => exit' = "1")
      BY <1>0, <1>1, <1>6, <2>1, RaisedFacts
    <2>3. CASE o = "interrupt"
      <3>1. JsonIsTruthful'
        BY <2>2, <2>3 DEF JsonIsTruthful
      <3> QED
        BY <1>0, <1>1, <1>6, <2>1, <3>1, RaisedEnds
    <2>4. CASE o \in Exceptions /\ ~Tried(op)
      <3>1. rust' /\ op = "status" /\ exit' = "1"
        BY <1>0, <2>2, <2>4 DEF Tried
      <3>2. ~Answered("status")
        <4>1. \A i \in 1 .. Len(calls) : calls[i].op = "lookup"
          BY <3>1, LookupOnly
        <4> QED
          BY <4>1 DEF Answered
      <3>3. ~Answered("status")'
        BY <1>4, <2>1, <3>2
      <3>4. JsonIsTruthful'
        BY <3>1, <3>3 DEF JsonIsTruthful
      <3> QED
        BY <1>0, <1>1, <1>6, <2>1, <3>4, RaisedEnds
    <2> QED
      BY <1>6, <2>3, <2>4
  <1> QED
    BY <1>1, <1>5, <1>6

-----------------------------------------------------------------------------
(* Printing.                                                               *)

\* What is printed is neither a ping nor a status, so the record says the same
\* of both as before.
LEMMA PrintKeepsWarning ==
    ASSUME TypeOK, WarningIsEarned, NEW o \in Outcomes, Called("print", o),
           UNCHANGED <<rust, warned>>
    PROVE  WarningIsEarned'
  <1>0. "print" \in Ops /\ rust \in BOOLEAN
    BY DEF Ops, TypeOK
  <1>1. /\ Len(calls) \in Nat /\ Len(calls') = Len(calls) + 1
        /\ calls'[Len(calls')] = [op |-> "print", outcome |-> o]
        /\ \A i \in 1 .. Len(calls) : calls'[i] = calls[i]
    BY <1>0, CalledFacts
  <1>2. calls'[Len(calls')].op = "print"
    BY <1>1
  <1>3. (\E i \in 1 .. Len(calls') : calls'[i].op = "ping" /\ calls'[i].outcome # "ok")
            <=> \E i \in 1 .. Len(calls) : calls[i].op = "ping" /\ calls[i].outcome # "ok"
    BY <1>1, <1>2
  <1>4. (\E i \in 1 .. Len(calls') : calls'[i].op = "status")
            <=> \E i \in 1 .. Len(calls) : calls[i].op = "status"
    BY <1>1, <1>2
  <1>5. Answered("status")' <=> Answered("status")
    BY <1>0, AnsweredGrows
  <1> QED
    BY <1>0, <1>3, <1>4, <1>5 DEF WarningIsEarned

\* The first failure stays the first.
LEMMA FirstStaysFirst ==
    ASSUME TypeOK, NEW op \in Ops, NEW o \in Outcomes, Called(op, o),
           NEW e, FailedFirst(e)
    PROVE  \E i \in 1 .. Len(calls') :
               /\ calls'[i].outcome = e /\ e # "ok"
               /\ \A j \in 1 .. i - 1 : calls'[j].outcome = "ok"
  <1>1. /\ Len(calls) \in Nat /\ Len(calls') = Len(calls) + 1
        /\ \A i \in 1 .. Len(calls) : calls'[i] = calls[i]
    BY CalledFacts
  <1>2. PICK i \in 1 .. Len(calls) :
            /\ calls[i].outcome = e /\ e # "ok"
            /\ \A j \in 1 .. i - 1 : calls[j].outcome = "ok"
    BY DEF FailedFirst
  <1> QED
    BY <1>1, <1>2

\* Something was obtained or an error is known, so the assertion of the code
\* holds; the command ends with its output, or with a traceback or a signal.
LEMMA PrintStep == ASSUME TypeOK, Running, PrintAnswers PROVE IInv'
  <1>0. /\ pc = "print" /\ stdout = Nothing /\ rust \in BOOLEAN /\ "print" \in Ops
        /\ results # {} \/ exn # "none"
        /\ cmd = "json" => JsonSoFar
        /\ cmd # "json" => exn = "none"
        /\ NoInterrupt /\ WarningIsEarned
        /\ UNCHANGED <<rust, kind, cmd, warned>>
    BY DEF PrintAnswers, Running, TypeOK, Ops
  <1>1. PICK o \in {"ok", "interrupt"} \cup Unprintable : Printing(o)
    BY <1>0 DEF PrintAnswers, Online
  <1>2. /\ o \in Outcomes /\ o \notin Expected
        /\ o \in {"ok", "interrupt"} \/ (o \in Unexpected /\ ~rust /\ results # {} /\ o # "ok")
    BY DisjointAssumption DEF Unprintable, Outcomes, Exceptions
  <1>3. Called("print", o) /\ UNCHANGED <<exn, results>>
    BY <1>1 DEF Printing
  <1>4. /\ calls' \in Seq([op : Ops, outcome : Outcomes])
        /\ Len(calls) \in Nat /\ Len(calls') = Len(calls) + 1
        /\ calls'[Len(calls')] = [op |-> "print", outcome |-> o]
        /\ \A i \in 1 .. Len(calls) : calls'[i] = calls[i]
    BY <1>0, <1>2, <1>3, CalledFacts
  <1>5. calls'[Len(calls')].op = "print" /\ calls'[Len(calls')].outcome = o
    BY <1>4
  <1>6. WarningIsEarned'
    BY <1>0, <1>2, <1>3, PrintKeepsWarning
  <1>7. \A x \in {"lookup", "status", "query"} : Answered(x)' <=> Answered(x)
    BY <1>0, <1>2, <1>3, AnsweredGrows
  <1>8. CASE o = "ok"
    <2>1. stdout' = Output("whole") /\ pc' = "ended" /\ exit' = "0"
      BY <1>1, <1>8 DEF Printing, Ends
    <2>2. /\ stdout' \in [extent : {"nothing", "begun", "whole"},
                          answer : SUBSET {"ping", "status", "query"},
                          error : Exceptions \cup {"none"}, online : BOOLEAN]
          /\ stdout'.extent = "whole" /\ stdout'.answer = results
          /\ stdout'.online = (results # {})
          /\ stdout'.error = IF results # {} THEN "none" ELSE exn
      BY <2>1, OutputTyped
    <2>3. TypeOK'
      BY <1>0, <1>3, <1>4, <2>1, <2>2 DEF TypeOK
    <2>4. NoInterrupt'
      BY <1>0, <1>2, <1>3, <1>8, NoInterruptGrows
    <2>5. ExitCodeIsHonest'
      BY <1>0, <1>4, <1>8, <2>1, <2>2, <2>4 DEF ExitCodeIsHonest, NoInterrupt
    <2>6. JsonIsTruthful'
      <3>1. SUFFICES ASSUME cmd = "json" PROVE JsonIsTruthful'
        BY <1>0 DEF JsonIsTruthful
      <3>2. Remembers /\ (rust => Answered("status"))
        BY <1>0, <3>1 DEF JsonSoFar
      <3>3. stdout'.answer = {op \in {"status", "query"} : Answered(op)'}
        BY <1>7, <2>2, <3>2 DEF Remembers
      <3>4. stdout'.online = (stdout'.answer # {})
        BY <2>2
      <3>5. ASSUME ~stdout'.online PROVE ~rust' /\ FailedFirst(stdout.error)'
        <4>1. results = {} /\ stdout'.error = exn /\ exn # "none"
          BY <1>0, <2>2, <3>5
        <4>2. ~Answered("status")
          BY <3>2, <4>1 DEF Remembers
        <4>3. FailedFirst(exn)
          BY <3>2, <4>1 DEF Remembers
        <4>4. FailedFirst(stdout.error)'
          BY <1>0, <1>2, <1>3, <4>1, <4>3, FirstStaysFirst DEF FailedFirst
        <4> QED
          BY <1>0, <3>2, <4>2, <4>4
      <3> QED
        BY <2>1, <3>3, <3>4, <3>5 DEF JsonIsTruthful
    <2> QED
      BY <1>6, <2>1, <2>3, <2>5, <2>6 DEF IInv
  <1>9. CASE o # "ok"
    <2>1. /\ stdout' \in {Nothing, Output("begun")} /\ pc' = "ended"
          /\ exit' = ExitOf(o)
      BY <1>1, <1>9 DEF Printing, Ends
    <2>2. exit' \in {"traceback", "killed"} /\ (rust => exit' = "killed")
      BY <1>0, <1>2, <1>9, <2>1, DisjointAssumption DEF ExitOf
    <2>3. stdout'.extent \in {"nothing", "begun"}
      BY <2>1, OutputTyped DEF Nothing
    <2>4. stdout' \in [extent : {"nothing", "begun", "whole"},
                       answer : SUBSET {"ping", "status", "query"},
                       error : Exceptions \cup {"none"}, online : BOOLEAN]
      BY <1>0, <2>1, OutputTyped DEF TypeOK
    <2>5. TypeOK'
      BY <1>0, <1>3, <1>4, <2>1, <2>2, <2>4 DEF TypeOK
    <2>6. ExitCodeIsHonest'
      BY <1>0, <1>2, <1>5, <2>2, <2>3 DEF ExitCodeIsHonest
    <2>7. JsonIsTruthful'
      <3>1. SUFFICES ASSUME cmd = "json" PROVE JsonIsTruthful'
        BY <1>0 DEF JsonIsTruthful
      <3>2. CASE o = "interrupt"
        <4>1. Interrupted'
          BY <1>5, <2>2, <3>2 DEF Interrupted
        <4> QED
          BY <4>1 DEF JsonIsTruthful
      <3>3. CASE o \in Unexpected /\ ~rust /\ results # {}
        <4>1. exit' = "traceback"
          BY <1>2, <2>1, <3>3, DisjointAssumption DEF ExitOf
        <4>2. Unprinted'
          BY <1>0, <1>5, <3>3, <4>1 DEF Unprinted
        <4>3. Answered("status") \/ Answered("query")
          BY <1>0, <3>1, <3>3 DEF JsonSoFar, Remembers
        <4>4. Answered("status")' \/ Answered("query")'
          BY <1>7, <4>3
        <4> QED
          BY <4>2, <4>4 DEF JsonIsTruthful
      <3> QED
        BY <1>2, <1>9, <3>2, <3>3
    <2> QED
      BY <1>6, <2>1, <2>2, <2>5, <2>6, <2>7 DEF IInv
  <1> QED
    BY <1>8, <1>9

-----------------------------------------------------------------------------
(* The theorems.                                                           *)

\* Every step of a command preserves the inductive invariant.
LEMMA NextIInv == IInv /\ [Next]_vars => IInv'
  <1> SUFFICES ASSUME IInv, [Next]_vars PROVE IInv'
    OBVIOUS
  <1>0. TypeOK
    BY DEF IInv
  <1>1. CASE UNCHANGED vars
    BY <1>1 DEF vars, IInv, TypeOK, Running, NoInterrupt, Made, JsonSoFar, Remembers, Answered,
                FailedFirst, Interrupted, Unprinted, JsonIsTruthful, WarningIsEarned, ExitCodeIsHonest
  <1>2. CASE pc # "ended"
    <2>0. Running
      BY <1>2 DEF IInv
    <2>1. CASE Lookup
      BY <1>0, <2>0, <2>1, LookupStep
    <2>2. CASE Ping
      BY <1>0, <2>0, <2>2, PingStep
    <2>3. CASE Fallback
      BY <1>0, <2>0, <2>3, FallbackStep
    <2>4. CASE Status
      BY <1>0, <2>0, <2>4, StatusStep
    <2>5. CASE JsonStatus
      <3>1. /\ pc = "json_status" /\ pc \in Json /\ UNCHANGED <<rust, kind, cmd, warned>>
            /\ \E next \in {"json_query", "print"} : JsonCall("status", next)
        BY <2>5 DEF JsonStatus, Json
      <3> QED
        BY <1>0, <2>0, <3>1, JsonStep
    <2>6. CASE JsonQuery
      <3>1. /\ pc = "json_query" /\ pc \in Json /\ UNCHANGED <<rust, kind, cmd, warned>>
            /\ JsonCall("query", "print")
        BY <2>6 DEF JsonQuery, Json
      <3> QED
        BY <1>0, <2>0, <3>1, JsonStep
    <2>7. CASE PrintAnswers
      BY <1>0, <2>0, <2>7, PrintStep
    <2>8. CASE Query \/ QueryUnsupported
      BY <1>0, <2>0, <2>8, QueryStep
    <2> QED
      BY <1>1, <1>2, <2>1, <2>2, <2>3, <2>4, <2>5, <2>6, <2>7, <2>8 DEF Next, Finished
  <1>3. CASE pc = "ended" /\ Next
    <2>1. Finished
      BY <1>3 DEF Next, Lookup, Ping, Fallback, Status, JsonStatus, JsonQuery, PrintAnswers,
                  Query, QueryUnsupported
    <2> QED
      BY <1>1, <2>1 DEF Finished
  <1> QED
    BY <1>1, <1>2, <1>3

\* The inductive invariant holds throughout every command.
LEMMA InvariantIInv == Spec => []IInv
  BY InitIInv, NextIInv, PTL DEF Spec

\* The variables of both programs keep their types.
THEOREM TypeCorrect == Spec => []TypeOK
  <1>1. IInv => TypeOK
    BY DEF IInv
  <1> QED
    BY <1>1, InvariantIInv, PTL

\* json reports exactly what was obtained, and the first error where nothing was.
THEOREM ReportsTruthfully == Spec => []JsonIsTruthful
  <1>1. IInv => JsonIsTruthful
    BY DEF IInv, JsonIsTruthful
  <1> QED
    BY <1>1, InvariantIInv, PTL

\* The warning is printed exactly after a failed ping whose status was asked for.
THEOREM WarnsRightly == Spec => []WarningIsEarned
  <1>1. IInv => WarningIsEarned
    BY DEF IInv, Running
  <1> QED
    BY <1>1, InvariantIInv, PTL

\* The exit code, the output and the traceback agree.
THEOREM ExitsHonestly == Spec => []ExitCodeIsHonest
  <1>1. IInv => ExitCodeIsHonest
    BY DEF IInv, Running, Nothing, ExitCodeIsHonest
  <1> QED
    BY <1>1, InvariantIInv, PTL
=============================================================================
