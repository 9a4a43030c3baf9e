------------------------------- MODULE Retry -------------------------------
(***************************************************************************)
(* The `retry` decorator (mcstatus/_utils/retry.py).  A decorated function *)
(* is called up to Tries times.  The first call that returns ends the loop *)
(* with its value; a call that raises one of Retryable is remembered in    *)
(* last_exc and the loop goes on; any other exception (KeyboardInterrupt,  *)
(* asyncio.CancelledError) leaves the loop at once.                        *)
(*                                                                         *)
(* This module is both the model of the decorator and the abstract         *)
(* specification that the retried calls of the clients implement.          *)
(***************************************************************************)
EXTENDS Naturals, Sequences

CONSTANTS
    Tries,       \* the value of the `tries` keyword
    Retryable,   \* exceptions matched by `exceptions` (default: Exception)
    Fatal        \* exceptions that are not (BaseException only)

\* What the theorems assume of the constants; exceptions are told apart from
\* the other outcomes.
RetryAssumption ==
    /\ Tries \in Nat
    /\ Retryable \cap Fatal = {}
    /\ {"pending", "returned", "unbound"} \cap (Retryable \cup Fatal) = {}

VARIABLES
    calls,      \* the exceptions of the failed calls so far, oldest first
    outcome     \* "pending", "returned", or what the wrapper raised

vars == <<calls, outcome>>

Outcomes == {"pending", "returned", "unbound"} \cup Retryable \cup Fatal

\* What the variable last_exc holds: it is unbound until a call has failed.
LastExc == IF calls = << >> THEN "unbound" ELSE calls[Len(calls)]

TypeOK ==
    /\ calls \in Seq(Retryable)
    /\ Len(calls) <= Tries
    /\ outcome \in Outcomes

Init ==
    /\ calls = << >>
    /\ outcome = "pending"

\* The loop still has a try to give.
Trying == outcome = "pending" /\ Len(calls) < Tries

\* Mutated forms of definitions below, for the runs that must refute them: an
\* uncounted failure, a cancellation taken for a failed try.
FailUncounted(e) ==
    outcome = "pending" /\ calls' = <<e>> /\ UNCHANGED outcome
PropagateAsFailure(e) ==
    Trying /\ calls' = Append(calls, e) /\ UNCHANGED outcome

\* `return func(...)`: the call returned.
Return ==
    /\ Trying
    /\ outcome' = "returned"
    /\ UNCHANGED calls

\* `except exceptions as exc: last_exc = exc`: the loop goes on.
Fail(e) ==
    /\ Trying
    /\ calls' = Append(calls, e)
    /\ UNCHANGED outcome

\* An exception the except clause does not name passes through the loop.
Propagate(e) ==
    /\ Trying
    /\ outcome' = e
    /\ UNCHANGED calls

\* `raise last_exc` once range(tries) is exhausted.
RaiseLast ==
    /\ outcome = "pending"
    /\ Len(calls) = Tries
    /\ outcome' = LastExc
    /\ UNCHANGED calls

Finished == outcome # "pending" /\ UNCHANGED vars

Next ==
    \/ Return
    \/ \E e \in Retryable : Fail(e)
    \/ \E e \in Fatal : Propagate(e)
    \/ RaiseLast
    \/ Finished

Spec == Init /\ [][Next]_vars

-----------------------------------------------------------------------------

\* A retryable exception reaches the caller only after every try was spent,
\* and it is the one of the last try: an earlier failure is never reported
\* (docstring of retry: "this will only raise the last one").
RaisesLastOnly ==
    outcome \in Retryable =>
        Len(calls) = Tries /\ Tries > 0 /\ outcome = calls[Tries]

\* A call that succeeds, or is interrupted, was not preceded by Tries failures:
\* the function is never run more than Tries times (docstring of retry:
\* "re-runs given function tries times").
NoCallBeyondTries ==
    outcome \in {"returned"} \cup Fatal => Len(calls) < Tries

\* `raise last_exc` is never reached with last_exc unbound (the comment "This
\* won't actually be unbound").
NeverUnbound == outcome # "unbound"
=============================================================================
