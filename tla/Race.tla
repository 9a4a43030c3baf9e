-------------------------------- MODULE Race --------------------------------
(***************************************************************************)
(* status() of docs/examples/code/ping_as_java_and_bedrock_in_one_time.py: *)
(* two asyncio tasks ask one host as a Java and as a Bedrock server, each  *)
(* with a retry loop of its own (module Retry, instantiated twice), and    *)
(* the caller returns the first valid response and cancels what is left.   *)
(*                                                                         *)
(* Tasks interleave at their awaits.  cancel() only marks a task: the      *)
(* CancelledError is raised in it by its next step.                        *)
(***************************************************************************)
EXTENDS Naturals, Sequences

CONSTANTS
    Tries,   \* the keyword `tries` of the two status calls
    Errors   \* what a try may raise

ASSUME TriesAssumption == Tries \in Nat

VARIABLES
    phase,                        \* phase[t]: where task t is
    javaCalls, javaOutcome,       \* the retry loop of async_status, Java
    bedrockCalls, bedrockOutcome, \* the retry loop of async_status, Bedrock
    marked,                       \* the tasks cancel() was called on
    result,                       \* result[t]: how task t ended
    finished,                     \* the tasks that ended, in that order
    main,                         \* status() itself
    taken,                        \* completions status() has looked at
    winner                        \* the task whose response it returns

javaLoop == <<javaCalls, javaOutcome>>
bedrockLoop == <<bedrockCalls, bedrockOutcome>>
caller == <<main, taken, winner>>
vars == <<phase, javaLoop, bedrockLoop, marked, result, finished, caller>>

Tasks == {"java", "bedrock"}
Phases == {"created", "lookup", "connect", "retry", "close", "ended"}
Cancelled == "cancelled"

Java == INSTANCE Retry WITH calls <- javaCalls, outcome <- javaOutcome,
                            Retryable <- Errors, Fatal <- {Cancelled}
Bedrock == INSTANCE Retry WITH calls <- bedrockCalls, outcome <- bedrockOutcome,
                               Retryable <- Errors, Fatal <- {Cancelled}

TypeOK ==
    /\ phase \in [Tasks -> Phases]
    /\ Java!TypeOK /\ Bedrock!TypeOK
    /\ marked \subseteq Tasks
    /\ result \in [Tasks -> {"none", "returned", "failed", Cancelled}]
    /\ finished \in Seq(Tasks)
    /\ main \in {"waiting", "returned", "ValueError", Cancelled}
    /\ taken \in 0 .. Len(finished)
    /\ winner \in Tasks \cup {"none"}

Init ==
    /\ phase = [t \in Tasks |-> "created"]
    /\ Java!Init /\ Bedrock!Init
    /\ marked = {}
    /\ result = [t \in Tasks |-> "none"]
    /\ finished = << >>
    /\ main = "waiting" /\ taken = 0 /\ winner = "none"

Running == {t \in Tasks : phase[t] # "ended"}

\* Mutated forms of definitions below, for the runs that must refute them: the
\* last of the completed tasks is looked at, no cleanup in `finally`.
LastCompleted == finished[Len(finished)]
NoCleanup == {}

-----------------------------------------------------------------------------
(* The tasks.                                                              *)

GoesTo(t, next) ==
    /\ phase' = [phase EXCEPT ![t] = next]
    /\ UNCHANGED <<result, finished>>

EndsWith(t, how) ==
    /\ phase' = [phase EXCEPT ![t] = "ended"]
    /\ result' = [result EXCEPT ![t] = how]
    /\ finished' = Append(finished, t)

\* What a retry loop that is over hands on: its value or an exception.
Handed(outcome) == IF outcome \in {"returned", Cancelled} THEN outcome ELSE "failed"

\* A marked task meets the CancelledError where it waits outside a retry loop;
\* one that has not begun never runs.
CancelOutside(t) ==
    /\ t \in marked /\ phase[t] \in {"created", "lookup", "connect"}
    /\ EndsWith(t, Cancelled)
    /\ marked' = marked \ {t}
    /\ UNCHANGED <<javaLoop, bedrockLoop, caller>>

\* handle_java: the lookup waits for the DNS, the connection is opened outside
\* the retry loop; each may fail.
JavaBegins ==
    /\ phase["java"] = "created" /\ "java" \notin marked
    /\ GoesTo("java", "lookup")
    /\ UNCHANGED <<javaLoop, bedrockLoop, marked, caller>>

JavaLooksUp ==
    /\ phase["java"] = "lookup" /\ "java" \notin marked
    /\ GoesTo("java", "connect") \/ EndsWith("java", "failed")
    /\ UNCHANGED <<javaLoop, bedrockLoop, marked, caller>>

JavaConnects ==
    /\ phase["java"] = "connect" /\ "java" \notin marked
    /\ GoesTo("java", "retry") \/ EndsWith("java", "failed")
    /\ UNCHANGED <<javaLoop, bedrockLoop, marked, caller>>

\* handle_bedrock: its lookup only parses, so it fails at once or the first try
\* begins.
BedrockBegins ==
    /\ phase["bedrock"] = "created" /\ "bedrock" \notin marked
    /\ GoesTo("bedrock", "retry") \/ EndsWith("bedrock", "failed")
    /\ UNCHANGED <<javaLoop, bedrockLoop, marked, caller>>

\* A try ends; the CancelledError of a marked task ends the loop.  Once the loop
\* is over the connection is left with `async with`.
JavaTries ==
    /\ phase["java"] = "retry"
    /\ IF "java" \in marked /\ Java!Trying
       THEN Java!Propagate(Cancelled) /\ marked' = marked \ {"java"}
       ELSE /\ Java!Return \/ (\E e \in Errors : Java!Fail(e)) \/ Java!RaiseLast
            /\ UNCHANGED marked
    /\ IF javaOutcome' = "pending" THEN UNCHANGED <<phase, result, finished>>
                                   ELSE GoesTo("java", "close")
    /\ UNCHANGED <<bedrockLoop, caller>>

\* __aexit__ waits until the stream is closed: that may raise, or be cancelled,
\* whatever the loop handed on.
JavaCloses ==
    /\ phase["java"] = "close"
    /\ \/ "java" \notin marked /\ EndsWith("java", Handed(javaOutcome))
       \/ "java" \notin marked /\ EndsWith("java", "failed")
       \/ "java" \in marked /\ EndsWith("java", Cancelled)
    /\ marked' = marked \ {"java"}
    /\ UNCHANGED <<javaLoop, bedrockLoop, caller>>

\* A Bedrock try closes its stream without waiting, so the task ends with the
\* loop.
BedrockTries ==
    /\ phase["bedrock"] = "retry"
    /\ IF "bedrock" \in marked /\ Bedrock!Trying
       THEN Bedrock!Propagate(Cancelled) /\ marked' = marked \ {"bedrock"}
       ELSE /\ Bedrock!Return \/ (\E e \in Errors : Bedrock!Fail(e)) \/ Bedrock!RaiseLast
            /\ UNCHANGED marked
    /\ IF bedrockOutcome' = "pending" THEN UNCHANGED <<phase, result, finished>>
       ELSE EndsWith("bedrock", Handed(bedrockOutcome'))
    /\ UNCHANGED <<javaLoop, caller>>

JavaStep ==
    \/ CancelOutside("java") \/ JavaBegins \/ JavaLooksUp \/ JavaConnects
    \/ JavaTries \/ JavaCloses
BedrockStep == CancelOutside("bedrock") \/ BedrockBegins \/ BedrockTries

-----------------------------------------------------------------------------
(* The caller.                                                             *)

\* as_completed hands the tasks out in the order in which they ended.
Completed == finished[taken + 1]

\* What `finally` calls cancel() on; a task that has ended ignores it.
Cleanup == Running

\* A response: the caller cancels every task and returns it.
MainReturns ==
    /\ main = "waiting" /\ taken < Len(finished)
    /\ result[Completed] = "returned"
    /\ main' = "returned" /\ winner' = Completed /\ taken' = taken + 1
    /\ marked' = marked \cup Cleanup
    /\ UNCHANGED <<phase, javaLoop, bedrockLoop, result, finished>>

\* `except Exception: continue`; after the last task, raise ValueError.
MainContinues ==
    /\ main = "waiting" /\ taken < Len(finished)
    /\ result[Completed] # "returned"
    /\ taken' = taken + 1
    /\ main' = IF result[Completed] = Cancelled THEN Cancelled
               ELSE IF taken' = 2 THEN "ValueError" ELSE "waiting"
    /\ marked' = IF main' = "waiting" THEN marked ELSE marked \cup Cleanup
    /\ UNCHANGED <<phase, javaLoop, bedrockLoop, result, finished, winner>>

\* status() itself is cancelled while it waits.
MainInterrupted ==
    /\ main = "waiting"
    /\ main' = Cancelled
    /\ marked' = marked \cup Cleanup
    /\ UNCHANGED <<phase, javaLoop, bedrockLoop, result, finished, taken, winner>>

MainStep == MainReturns \/ MainContinues

AllOver == main # "waiting" /\ Running = {} /\ UNCHANGED vars

Next == JavaStep \/ BedrockStep \/ MainStep \/ MainInterrupted \/ AllOver

\* The event loop runs every task that is ready, and every wait of a task ends,
\* by a timeout at the latest.
Spec ==
    /\ Init /\ [][Next]_vars
    /\ WF_vars(JavaStep) /\ WF_vars(BedrockStep) /\ WF_vars(MainStep)

-----------------------------------------------------------------------------

\* "return the first valid response, or fail": the response returned is that of
\* the task that was first to end with one, and ValueError means that neither
\* did; a failure that came first never hides a response.
OutcomeIsEarned ==
    /\ main = "returned" =>
        \E i \in 1 .. Len(finished) :
            /\ winner = finished[i] /\ result[winner] = "returned"
            /\ \A j \in 1 .. i - 1 : result[finished[j]] # "returned"
    /\ main = "ValueError" => \A t \in Tasks : result[t] = "failed"

\* "Ensure all tasks are cleaned up": once status() is left, whichever way, every
\* task has ended, is marked, or is closing after its CancelledError.
NoOrphan ==
    main # "waiting" => \A t \in Running :
        t \in marked \/ (t = "java" /\ javaOutcome = Cancelled)

\* A task that is cancelled begins no further try: retry does not take the
\* CancelledError for a failed try (`except exceptions`).
CancelEndsRetry ==
    [][/\ "java" \in marked /\ Java!Trying /\ javaOutcome' = "pending" => javaCalls' = javaCalls
       /\ "bedrock" \in marked /\ Bedrock!Trying /\ bedrockOutcome' = "pending"
              => bedrockCalls' = bedrockCalls]_vars

\* Everything ends: status(), and both tasks, the cancelled one included.
AllEnd == <>(main # "waiting" /\ Running = {})
=============================================================================
