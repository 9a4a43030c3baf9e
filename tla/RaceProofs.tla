----------------------------- MODULE RaceProofs -----------------------------
(***************************************************************************)
(* Proofs about the race of a Java and a Bedrock status, for every number  *)
(* of tries and every set of exceptions.                                   *)
(***************************************************************************)
EXTENDS Race, SequenceTheorems, TLAPS

Endings == {"returned", "failed", Cancelled}

\* What a step of task t does to the record of the tasks: it goes on, or ends.
TaskMoves(t) ==
    /\ phase[t] # "ended"
    /\ \/ /\ UNCHANGED <<result, finished>>
          /\ \E p \in Phases \ {"ended"} : phase' = [phase EXCEPT ![t] = p]
       \/ \E how \in Endings : EndsWith(t, how)
    /\ UNCHANGED caller

\* The record of the tasks: those that ended have a result and are in
\* `finished`, once.
Record ==
    /\ \A t \in Tasks : phase[t] = "ended" <=> \E i \in 1 .. Len(finished) : finished[i] = t
    /\ \A t \in Tasks : phase[t] = "ended" => result[t] \in Endings
    /\ \A i, j \in 1 .. Len(finished) : finished[i] = finished[j] => i = j

\* What the caller knows of the completions it has looked at.
Looked ==
    /\ main = "waiting" => \A i \in 1 .. taken : result[finished[i]] = "failed"
    /\ main = "ValueError" => taken = 2 /\ \A i \in 1 .. 2 : result[finished[i]] = "failed"
    /\ main = "returned" =>
        \E i \in 1 .. Len(finished) :
            /\ winner = finished[i] /\ result[winner] = "returned"
            /\ \A j \in 1 .. i - 1 : result[finished[j]] # "returned"

IInv == TypeOK /\ Record /\ Looked /\ NoOrphan

-----------------------------------------------------------------------------
(* The retry loops.                                                        *)

\* A step of the Java task's loop keeps its types.
LEMMA JavaLoopTyped ==
    ASSUME Java!TypeOK,
           \/ Java!Return \/ (\E e \in Errors : Java!Fail(e)) \/ Java!RaiseLast
           \/ Java!Propagate(Cancelled)
    PROVE  Java!TypeOK'
  <1> USE TriesAssumption DEF Java!TypeOK, Java!Outcomes
  <1>1. CASE Java!Return
    BY <1>1 DEF Java!Return
  <1>2. ASSUME NEW e \in Errors, Java!Fail(e) PROVE Java!TypeOK'
    <2>1. javaCalls' \in Seq(Errors) /\ Len(javaCalls') = Len(javaCalls) + 1
      BY <1>2 DEF Java!Fail
    <2> QED
      BY <1>2, <2>1 DEF Java!Fail, Java!Trying
  <1>3. CASE Java!RaiseLast
    BY <1>3 DEF Java!RaiseLast, Java!LastExc
  <1>4. CASE Java!Propagate(Cancelled)
    BY <1>4 DEF Java!Propagate
  <1> QED
    BY <1>1, <1>2, <1>3, <1>4

\* A step of the Bedrock task's loop keeps its types.
LEMMA BedrockLoopTyped ==
    ASSUME Bedrock!TypeOK,
           \/ Bedrock!Return \/ (\E e \in Errors : Bedrock!Fail(e)) \/ Bedrock!RaiseLast
           \/ Bedrock!Propagate(Cancelled)
    PROVE  Bedrock!TypeOK'
  <1> USE TriesAssumption DEF Bedrock!TypeOK, Bedrock!Outcomes
  <1>1. CASE Bedrock!Return
    BY <1>1 DEF Bedrock!Return
  <1>2. ASSUME NEW e \in Errors, Bedrock!Fail(e) PROVE Bedrock!TypeOK'
    <2>1. bedrockCalls' \in Seq(Errors) /\ Len(bedrockCalls') = Len(bedrockCalls) + 1
      BY <1>2 DEF Bedrock!Fail
    <2> QED
      BY <1>2, <2>1 DEF Bedrock!Fail, Bedrock!Trying
  <1>3. CASE Bedrock!RaiseLast
    BY <1>3 DEF Bedrock!RaiseLast, Bedrock!LastExc
  <1>4. CASE Bedrock!Propagate(Cancelled)
    BY <1>4 DEF Bedrock!Propagate
  <1> QED
    BY <1>1, <1>2, <1>3, <1>4

\* A task that tries is inside its loop, which ends a cancelled one at once.
LEMMA JavaTrial ==
    ASSUME JavaTries
    PROVE  /\ javaOutcome = "pending"
           /\ \/ Java!Return \/ (\E e \in Errors : Java!Fail(e)) \/ Java!RaiseLast
              \/ Java!Propagate(Cancelled)
           /\ marked' \subseteq marked
           /\ "java" \in marked => "java" \in marked' \/ javaOutcome' = Cancelled
           /\ "bedrock" \in marked => "bedrock" \in marked'
  BY DEF JavaTries, Java!Return, Java!Fail, Java!RaiseLast, Java!Propagate, Java!Trying

\* The same of the Bedrock task.
LEMMA BedrockTrial ==
    ASSUME BedrockTries
    PROVE  /\ \/ Bedrock!Return \/ (\E e \in Errors : Bedrock!Fail(e)) \/ Bedrock!RaiseLast
              \/ Bedrock!Propagate(Cancelled)
           /\ marked' \subseteq marked
           /\ "bedrock" \in marked => "bedrock" \in marked' \/ bedrockOutcome' = Cancelled
           /\ "java" \in marked => "java" \in marked'
  BY DEF BedrockTries, Bedrock!Return, Bedrock!Fail, Bedrock!RaiseLast, Bedrock!Propagate, Bedrock!Trying
-----------------------------------------------------------------------------
(* The record of the tasks.                                                *)

\* Every step of the Java task is one of TaskMoves.
LEMMA JavaMoves == ASSUME TypeOK, JavaStep PROVE TaskMoves("java")
  <1> USE DEF Endings, GoesTo, caller
  <1>0. Java!TypeOK /\ phase \in [Tasks -> Phases] /\ "java" \in Tasks
    BY DEF TypeOK, Tasks
  <1>1. CASE CancelOutside("java")
    BY <1>1 DEF CancelOutside, TaskMoves
  <1>2. CASE JavaBegins
    BY <1>2 DEF JavaBegins, TaskMoves, Phases
  <1>3. CASE JavaLooksUp
    BY <1>3 DEF JavaLooksUp, TaskMoves, Phases
  <1>4. CASE JavaConnects
    BY <1>4 DEF JavaConnects, TaskMoves, Phases
  <1>5. CASE JavaTries
    <2>1. phase = [phase EXCEPT !["java"] = "retry"]
      BY <1>0, <1>5 DEF JavaTries
    <2> QED
      BY <1>5, <2>1 DEF JavaTries, TaskMoves, Phases
  <1>6. CASE JavaCloses
    BY <1>6 DEF JavaCloses, TaskMoves, Handed
  <1> QED
    BY <1>1, <1>2, <1>3, <1>4, <1>5, <1>6 DEF JavaStep

\* Every step of the Bedrock task is one of TaskMoves.
LEMMA BedrockMoves == ASSUME TypeOK, BedrockStep PROVE TaskMoves("bedrock")
  <1> USE DEF Endings, GoesTo, caller
  <1>0. phase \in [Tasks -> Phases] /\ "bedrock" \in Tasks
    BY DEF TypeOK, Tasks
  <1>1. CASE CancelOutside("bedrock")
    BY <1>1 DEF CancelOutside, TaskMoves
  <1>2. CASE BedrockBegins
    BY <1>2 DEF BedrockBegins, TaskMoves, Phases
  <1>3. CASE BedrockTries
    <2>1. phase = [phase EXCEPT !["bedrock"] = "retry"]
      BY <1>0, <1>3 DEF BedrockTries
    <2> QED
      BY <1>3, <2>1 DEF BedrockTries, TaskMoves, Phases, Handed
  <1> QED
    BY <1>1, <1>2, <1>3 DEF BedrockStep

\* A task that moves keeps the record, what the caller has looked at, and the
\* types of both.
LEMMA MovesKeepRecord ==
    ASSUME TypeOK, Record, Looked, NEW t \in Tasks, TaskMoves(t)
    PROVE  /\ Record' /\ Looked'
           /\ phase' \in [Tasks -> Phases] /\ finished' \in Seq(Tasks)
           /\ result' \in [Tasks -> {"none", "returned", "failed", Cancelled}]
           /\ taken' \in 0 .. Len(finished')
           /\ \A s \in Tasks : phase'[s] # "ended" => phase[s] # "ended"
  <1>0. /\ phase \in [Tasks -> Phases] /\ finished \in Seq(Tasks)
        /\ result \in [Tasks -> {"none", "returned", "failed", Cancelled}]
        /\ taken \in 0 .. Len(finished)
    BY DEF TypeOK
  <1>1. ASSUME UNCHANGED <<result, finished>>,
               NEW p \in Phases \ {"ended"}, phase' = [phase EXCEPT ![t] = p]
        PROVE  /\ Record' /\ Looked'
               /\ phase' \in [Tasks -> Phases]
               /\ \A s \in Tasks : phase'[s] # "ended" => phase[s] # "ended"
    <2>1. \A s \in Tasks : phase'[s] = "ended" <=> phase[s] = "ended"
      BY <1>0, <1>1 DEF TaskMoves
    <2>2. Record'
      BY <1>1, <2>1 DEF Record
    <2>3. Looked'
      BY <1>1 DEF Looked, TaskMoves, caller
    <2> QED
      BY <1>0, <1>1, <2>1, <2>2, <2>3
  <1>2. ASSUME NEW how \in Endings, EndsWith(t, how)
        PROVE  /\ Record' /\ Looked'
               /\ phase' \in [Tasks -> Phases] /\ finished' \in Seq(Tasks)
               /\ result' \in [Tasks -> {"none", "returned", "failed", Cancelled}]
               /\ Len(finished') = Len(finished) + 1
               /\ \A s \in Tasks : phase'[s] # "ended" => phase[s] # "ended"
    <2>1. /\ finished' \in Seq(Tasks) /\ Len(finished') = Len(finished) + 1
          /\ \A i \in 1 .. Len(finished) : finished'[i] = finished[i]
          /\ finished'[Len(finished) + 1] = t
      BY <1>0, <1>2 DEF EndsWith
    <2>2. /\ \A s \in Tasks : phase'[s] = "ended" <=> phase[s] = "ended" \/ s = t
          /\ \A s \in Tasks : s # t => result'[s] = result[s]
          /\ result'[t] = how
      BY <1>0, <1>2 DEF EndsWith
    <2>3. \A i \in 1 .. Len(finished) : finished[i] \in Tasks /\ finished[i] # t
      BY <1>0 DEF TaskMoves, Record
    <2>4. \A i \in 1 .. Len(finished) : result'[finished'[i]] = result[finished[i]]
      BY <2>1, <2>2, <2>3
    <2>5. Record'
      <3>1. \A s \in Tasks : phase'[s] = "ended" <=>
                \E i \in 1 .. Len(finished') : finished'[i] = s
        BY <1>0, <2>1, <2>2, <2>3 DEF Record
      <3>2. \A s \in Tasks : phase'[s] = "ended" => result'[s] \in Endings
        BY <2>2 DEF Record
      <3>3. \A i, j \in 1 .. Len(finished') : finished'[i] = finished'[j] => i = j
        BY <1>0, <2>1, <2>3 DEF Record
      <3> QED
        BY <3>1, <3>2, <3>3 DEF Record
    <2>6. Looked'
      <3>1. UNCHANGED <<main, taken, winner>>
        BY DEF TaskMoves, caller
      <3>2. main = "waiting" => \A i \in 1 .. taken : result'[finished'[i]] = "failed"
        BY <1>0, <2>4 DEF Looked
      <3>3. main = "ValueError" => taken = 2 /\ \A i \in 1 .. 2 : result'[finished'[i]] = "failed"
        BY <1>0, <2>4 DEF Looked
      <3>4. ASSUME main = "returned"
            PROVE  \E i \in 1 .. Len(finished') :
                      /\ winner = finished'[i] /\ result'[winner] = "returned"
                      /\ \A j \in 1 .. i - 1 : result'[finished'[j]] # "returned"
        <4>1. PICK i \in 1 .. Len(finished) :
                  /\ winner = finished[i] /\ result[winner] = "returned"
                  /\ \A j \in 1 .. i - 1 : result[finished[j]] # "returned"
          BY <3>4 DEF Looked
        <4>2. i \in 1 .. Len(finished') /\ winner = finished'[i] /\ result'[winner] = "returned"
          BY <1>0, <2>1, <2>4, <4>1
        <4>3. \A j \in 1 .. i - 1 : j \in 1 .. Len(finished)
          BY <1>0, <4>1
        <4>4. \A j \in 1 .. i - 1 : result'[finished'[j]] # "returned"
          BY <2>4, <4>1, <4>3
        <4> QED
          BY <4>2, <4>4
      <3> QED
        BY <3>1, <3>2, <3>3, <3>4 DEF Looked
    <2>7. /\ phase' \in [Tasks -> Phases]
          /\ result' \in [Tasks -> {"none", "returned", "failed", Cancelled}]
      BY <1>0, <1>2 DEF EndsWith, Endings, Phases
    <2> QED
      BY <2>1, <2>2, <2>5, <2>6, <2>7
  <1>3. UNCHANGED <<main, taken, winner>>
    BY DEF TaskMoves, caller
  <1>4. CASE UNCHANGED <<result, finished>>
             /\ \E p \in Phases \ {"ended"} : phase' = [phase EXCEPT ![t] = p]
    BY <1>0, <1>1, <1>3, <1>4
  <1>5. CASE \E how \in Endings : EndsWith(t, how)
    BY <1>0, <1>2, <1>3, <1>5
  <1> QED
    BY <1>4, <1>5 DEF TaskMoves
-----------------------------------------------------------------------------
(* The inductive invariant.                                                *)

\* It holds before the tasks begin.
LEMMA InitIInv == Init => IInv
  <1> SUFFICES ASSUME Init PROVE IInv
    OBVIOUS
  <1>1. Java!TypeOK /\ Bedrock!TypeOK
    BY TriesAssumption DEF Init, Java!Init, Java!TypeOK, Java!Outcomes,
                           Bedrock!Init, Bedrock!TypeOK, Bedrock!Outcomes
  <1>2. TypeOK
    BY <1>1 DEF Init, TypeOK, Tasks, Phases
  <1>3. Record /\ Looked /\ NoOrphan
    BY DEF Init, Record, Looked, NoOrphan
  <1> QED
    BY <1>2, <1>3 DEF IInv

\* A step of a task leaves no task without its mark.
LEMMA TasksKeepMarks ==
    ASSUME TypeOK, NoOrphan, JavaStep \/ BedrockStep
    PROVE  NoOrphan' /\ marked' \subseteq marked
  <1> USE DEF GoesTo, EndsWith, caller, javaLoop, bedrockLoop
  <1>0. phase \in [Tasks -> Phases] /\ Tasks = {"java", "bedrock"}
    BY DEF TypeOK, Tasks
  <1>1. ASSUME NEW t \in Tasks, CancelOutside(t) PROVE NoOrphan' /\ marked' \subseteq marked
    BY <1>0, <1>1 DEF CancelOutside, NoOrphan, Running
  <1>2. CASE JavaBegins
    BY <1>0, <1>2 DEF JavaBegins, NoOrphan, Running
  <1>3. CASE JavaLooksUp
    BY <1>0, <1>3 DEF JavaLooksUp, NoOrphan, Running
  <1>4. CASE JavaConnects
    BY <1>0, <1>4 DEF JavaConnects, NoOrphan, Running
  <1>5. CASE BedrockBegins
    BY <1>0, <1>5 DEF BedrockBegins, NoOrphan, Running
  <1>6. CASE JavaTries
    <2>1. \A t \in Tasks : phase'[t] # "ended" => phase[t] # "ended"
      BY <1>0, <1>6 DEF JavaTries
    <2>2. UNCHANGED main
      BY <1>6 DEF JavaTries
    <2>3. phase["java"] # "ended"
      BY <1>6 DEF JavaTries
    <2> QED
      BY <1>0, <1>6, <2>1, <2>2, <2>3, JavaTrial DEF NoOrphan, Running, Cancelled
  <1>7. CASE JavaCloses
    BY <1>0, <1>7 DEF JavaCloses, NoOrphan, Running
  <1>8. CASE BedrockTries
    <2>1. \A t \in Tasks : phase'[t] # "ended" => phase[t] # "ended"
      BY <1>0, <1>8 DEF BedrockTries
    <2>2. UNCHANGED <<main, javaOutcome>>
      BY <1>8 DEF BedrockTries
    <2>3. bedrockOutcome' = Cancelled => phase'["bedrock"] = "ended"
      BY <1>0, <1>8 DEF BedrockTries, Cancelled
    <2> QED
      BY <1>0, <1>8, <2>1, <2>2, <2>3, BedrockTrial DEF NoOrphan, Running
  <1> QED
    BY <1>0, <1>1, <1>2, <1>3, <1>4, <1>5, <1>6, <1>7, <1>8 DEF JavaStep, BedrockStep

\* A step of a task keeps the types of both loops.
LEMMA TasksKeepLoops ==
    ASSUME TypeOK, JavaStep \/ BedrockStep
    PROVE  Java!TypeOK' /\ Bedrock!TypeOK'
  <1>0. Java!TypeOK /\ Bedrock!TypeOK
    BY DEF TypeOK
  <1>1. CASE JavaTries
    <2>1. UNCHANGED bedrockLoop
      BY <1>1 DEF JavaTries
    <2> QED
      BY <1>0, <1>1, <2>1, JavaTrial, JavaLoopTyped DEF bedrockLoop, Bedrock!TypeOK
  <1>2. CASE BedrockTries
    <2>1. UNCHANGED javaLoop
      BY <1>2 DEF BedrockTries
    <2> QED
      BY <1>0, <1>2, <2>1, BedrockTrial, BedrockLoopTyped DEF javaLoop, Java!TypeOK
  <1>3. CASE UNCHANGED <<javaLoop, bedrockLoop>>
    BY <1>0, <1>3 DEF javaLoop, bedrockLoop, Java!TypeOK, Bedrock!TypeOK
  <1> QED
    BY <1>1, <1>2, <1>3 DEF JavaStep, BedrockStep, CancelOutside, JavaBegins, JavaLooksUp,
       JavaConnects, JavaCloses, BedrockBegins

\* Every step of a task preserves the invariant.
LEMMA TasksKeepIInv == ASSUME IInv, JavaStep \/ BedrockStep PROVE IInv'
  <1>0. TypeOK /\ Record /\ Looked /\ NoOrphan
    BY DEF IInv
  <1>1. PICK t \in Tasks : TaskMoves(t)
    BY <1>0, JavaMoves, BedrockMoves DEF Tasks
  <1>2. UNCHANGED <<main, taken, winner>>
    BY <1>1 DEF TaskMoves, caller
  <1>3. TypeOK'
    <2>1. marked' \subseteq Tasks
      BY <1>0, TasksKeepMarks DEF TypeOK
    <2>2. Java!TypeOK' /\ Bedrock!TypeOK'
      BY <1>0, TasksKeepLoops
    <2> QED
      BY <1>0, <1>1, <1>2, <2>1, <2>2, MovesKeepRecord DEF TypeOK
  <1> QED
    BY <1>0, <1>1, <1>3, MovesKeepRecord, TasksKeepMarks DEF IInv

\* Every step of the caller preserves the invariant.
LEMMA MainKeepsIInv == ASSUME IInv, MainStep \/ MainInterrupted PROVE IInv'
  <1> USE DEF javaLoop, bedrockLoop
  <1>0. TypeOK /\ Record /\ Looked /\ NoOrphan
    BY DEF IInv
  <1>1. UNCHANGED <<phase, javaCalls, javaOutcome, bedrockCalls, bedrockOutcome, result, finished>>
    BY DEF MainStep, MainReturns, MainContinues, MainInterrupted
  <1>2. Java!TypeOK' /\ Bedrock!TypeOK'
    BY <1>0, <1>1 DEF TypeOK, Java!TypeOK, Bedrock!TypeOK
  <1>3. Record'
    BY <1>0, <1>1 DEF Record
  <1>4. /\ main = "waiting" /\ finished \in Seq(Tasks) /\ taken \in 0 .. Len(finished)
        /\ \A i \in 1 .. taken : result[finished[i]] = "failed"
    BY <1>0 DEF MainStep, MainReturns, MainContinues, MainInterrupted, Looked, TypeOK
  <1>5. CASE MainInterrupted
    <2>1. TypeOK'
      BY <1>0, <1>1, <1>2, <1>5 DEF MainInterrupted, TypeOK, Cleanup, Running
    <2>2. Looked' /\ NoOrphan'
      BY <1>1, <1>5 DEF MainInterrupted, Looked, NoOrphan, Cleanup, Running, Cancelled
    <2> QED
      BY <1>3, <2>1, <2>2 DEF IInv
  <1>6. ASSUME MainStep PROVE IInv'
    <2>0. taken + 1 \in 1 .. Len(finished) /\ taken' = taken + 1
      BY <1>4, <1>6 DEF MainStep, MainReturns, MainContinues
    <2>1. Completed \in Tasks /\ result[Completed] \in Endings
      BY <1>0, <1>4, <2>0 DEF Completed, Record
    <2>2. CASE MainReturns
      <3>1. TypeOK'
        BY <1>0, <1>1, <1>2, <2>0, <2>1, <2>2 DEF MainReturns, TypeOK, Cleanup, Running
      <3>2. Looked'
        <4>1. /\ winner' = finished[taken + 1] /\ result[winner'] = "returned"
              /\ main' = "returned"
          BY <2>2 DEF MainReturns, Completed
        <4>2. \A j \in 1 .. (taken + 1) - 1 : result[finished[j]] # "returned"
          BY <1>4
        <4> QED
          BY <1>1, <2>0, <4>1, <4>2 DEF Looked
      <3>3. NoOrphan'
        BY <1>1, <2>2 DEF MainReturns, NoOrphan, Cleanup, Running
      <3> QED
        BY <1>3, <3>1, <3>2, <3>3 DEF IInv
    <2>3. CASE MainContinues
      <3>1. TypeOK'
        BY <1>0, <1>1, <1>2, <2>0, <2>3 DEF MainContinues, TypeOK, Cleanup, Running
      <3>2. Looked'
        <4>1. CASE result[Completed] = Cancelled
          BY <2>3, <4>1 DEF MainContinues, Looked, Cancelled
        <4>2. CASE result[Completed] # Cancelled
          <5>1. result[finished[taken + 1]] = "failed"
            BY <2>1, <2>3, <4>2 DEF MainContinues, Endings, Completed
          <5>2. \A i \in 1 .. taken' : result'[finished'[i]] = "failed"
            BY <1>1, <1>4, <2>0, <5>1
          <5>3. main' = IF taken' = 2 THEN "ValueError" ELSE "waiting"
            BY <2>3, <4>2 DEF MainContinues
          <5> QED
            BY <5>2, <5>3 DEF Looked
        <4> QED
          BY <4>1, <4>2
      <3>3. NoOrphan'
        BY <1>1, <2>3 DEF MainContinues, NoOrphan, Cleanup, Running
      <3> QED
        BY <1>3, <3>1, <3>2, <3>3 DEF IInv
    <2> QED
      BY <1>6, <2>2, <2>3 DEF MainStep
  <1> QED
    BY <1>5, <1>6

\* Every step preserves the invariant.
LEMMA NextIInv == IInv /\ [Next]_vars => IInv'
  <1> SUFFICES ASSUME IInv, [Next]_vars PROVE IInv'
    OBVIOUS
  <1>1. CASE UNCHANGED vars
    BY <1>1 DEF vars, javaLoop, bedrockLoop, caller, IInv, TypeOK, Record, Looked, NoOrphan,
                Running, Java!TypeOK, Bedrock!TypeOK
  <1> QED
    BY <1>1, TasksKeepIInv, MainKeepsIInv DEF Next, AllOver

\* The inductive invariant holds in every reachable state.
LEMMA InvariantIInv == Spec => []IInv
  BY InitIInv, NextIInv, PTL DEF Spec

-----------------------------------------------------------------------------
(* The theorems.                                                           *)

\* The variables keep their types, those of both retry loops included.
THEOREM TypeCorrect == Spec => []TypeOK
  BY InvariantIInv, PTL DEF IInv

\* However status() is left, no task goes on that was not told to stop.
THEOREM TasksAreCleanedUp == Spec => []NoOrphan
  BY InvariantIInv, PTL DEF IInv

\* The response returned is that of the first task that had one; ValueError
\* means that both tasks failed.
THEOREM FirstValidResponse == Spec => []OutcomeIsEarned
  <1>1. IInv => OutcomeIsEarned
    <2> SUFFICES ASSUME IInv PROVE OutcomeIsEarned
      OBVIOUS
    <2>1. CASE main = "ValueError"
      <3>1. /\ \A i \in 1 .. 2 : result[finished[i]] = "failed"
            /\ 1 \in 1 .. Len(finished) /\ 2 \in 1 .. Len(finished)
            /\ finished \in Seq(Tasks)
        BY <2>1 DEF IInv, TypeOK, Looked
      <3>2. finished[1] \in Tasks /\ finished[2] \in Tasks /\ finished[1] # finished[2]
        BY <3>1 DEF IInv, Record
      <3>3. \A t \in Tasks : t = finished[1] \/ t = finished[2]
        BY <3>2 DEF Tasks
      <3> QED
        BY <2>1, <3>1, <3>3 DEF OutcomeIsEarned
    <2>2. CASE main # "ValueError"
      BY <2>2 DEF IInv, Looked, OutcomeIsEarned
    <2> QED
      BY <2>1, <2>2
  <1> QED
    BY <1>1, InvariantIInv, PTL

\* A task that is marked while it tries begins no further try.
THEOREM CancelledTriesNoMore == Spec => CancelEndsRetry
  <1>1. [Next]_vars =>
            [/\ "java" \in marked /\ Java!Trying /\ javaOutcome' = "pending"
                    => javaCalls' = javaCalls
             /\ "bedrock" \in marked /\ Bedrock!Trying /\ bedrockOutcome' = "pending"
                    => bedrockCalls' = bedrockCalls]_vars
    <2> SUFFICES ASSUME Next
                 PROVE  /\ "java" \in marked /\ Java!Trying => javaCalls' = javaCalls
                        /\ "bedrock" \in marked /\ Bedrock!Trying => bedrockCalls' = bedrockCalls
      OBVIOUS
    <2>1. CASE JavaTries
      BY <2>1 DEF JavaTries, Java!Propagate, bedrockLoop
    <2>2. CASE BedrockTries
      BY <2>2 DEF BedrockTries, Bedrock!Propagate, javaLoop
    <2>3. CASE UNCHANGED <<javaLoop, bedrockLoop>>
      BY <2>3 DEF javaLoop, bedrockLoop
    <2> QED
      BY <2>1, <2>2, <2>3 DEF Next, JavaStep, BedrockStep, MainStep, CancelOutside, JavaBegins,
         JavaLooksUp, JavaConnects, JavaCloses, BedrockBegins, MainReturns, MainContinues,
         MainInterrupted, AllOver, vars
  <1> QED
    BY <1>1, PTL DEF Spec, CancelEndsRetry
=============================================================================
