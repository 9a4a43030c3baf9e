-------------------------------- MODULE Cli --------------------------------
(***************************************************************************)
(* The command line of mcstatus/__main__.py, and that of src/main.rs: one  *)
(* of four commands on one of three kinds of server.  The library calls it *)
(* makes are seen as what they return or raise; the sessions behind them   *)
(* have modules of their own.  Writing to stdout does not fail by itself:  *)
(* what may fail is making text or JSON of the data.                       *)
(***************************************************************************)
EXTENDS Naturals, Sequences

CONSTANTS
    Expected,   \* the exceptions main() reports without a traceback
    Unexpected, \* any other subclass of Exception
    Timeout     \* TimeoutError

ASSUME TimeoutAssumption == Timeout \in Expected
ASSUME DisjointAssumption ==
    /\ Expected \cap Unexpected = {}
    /\ {"ok", "none", "interrupt", "assert"} \cap (Expected \cup Unexpected) = {}

VARIABLES
    rust,      \* which of the two programs runs
    kind,      \* the class of the server object
    cmd,       \* the command
    pc,        \* the next call to the library, or where the command is
    calls,     \* the library calls made and, last, the printing: what was
               \* called, with what outcome
    exn,       \* json_cmd: the first exception caught
    results,   \* the responses obtained that are to be printed
    stdout,    \* what was printed, and how far: the source of the data, or an error
    warned,    \* TRUE after the warning that only a status answered
    exit       \* "running", the exit code, "traceback", or "killed" by a signal

vars == <<rust, kind, cmd, pc, calls, exn, results, stdout, warned, exit>>

Exceptions == Expected \cup Unexpected
\* KeyboardInterrupt is not an Exception: no handler of this program takes it.
Outcomes == {"ok", "interrupt"} \cup Exceptions
Ops == {"lookup", "ping", "status", "query", "print"}
Nothing == [extent |-> "nothing", answer |-> {}, error |-> "none", online |-> FALSE]

TypeOK ==
    /\ rust \in BOOLEAN
    /\ kind \in {"java", "legacy", "bedrock"}
    /\ cmd \in {"ping", "status", "query", "json"}
    /\ pc \in {"lookup", "ping", "fallback", "status", "query",
               "json_status", "json_query", "print", "ended"}
    /\ calls \in Seq([op : Ops, outcome : Outcomes])
    /\ exn \in Exceptions \cup {"none"}
    /\ results \subseteq {"ping", "status", "query"}
    /\ stdout \in [extent : {"nothing", "begun", "whole"},
                   answer : SUBSET {"ping", "status", "query"},
                   error : Exceptions \cup {"none"}, online : BOOLEAN]
    /\ warned \in BOOLEAN
    /\ exit \in {"running", "0", "1", "traceback", "killed"}

Init ==
    /\ rust \in BOOLEAN
    /\ kind \in {"java", "legacy", "bedrock"}
    /\ cmd \in {"ping", "status", "query", "json"}
    /\ pc = "lookup"
    /\ calls = << >>
    /\ exn = "none" /\ results = {}
    /\ stdout = Nothing
    /\ warned = FALSE
    /\ exit = "running"

-----------------------------------------------------------------------------

\* A library call, or the printing, ends in outcome o.
Called(op, o) == calls' = Append(calls, [op |-> op, outcome |-> o])

Ends(code) == pc' = "ended" /\ exit' = code

\* Mutated forms of definitions below, for the runs that must refute them: the
\* later exception kept, the warning printed before the status answers, an
\* error reported with exit code 0, `except BaseException` in json_cmd.
KeepLast(o) == o
WarnFirst(o) == o # "interrupt"
RaisedIsSuccess(o) ==
    /\ Ends("0")
    /\ UNCHANGED <<exn, results, stdout>>
CatchEverything(op, next) ==
    \E o \in Outcomes :
        /\ Called(op, o)
        /\ pc' = next
        /\ IF o = "ok" THEN results' = results \cup {op} /\ UNCHANGED exn
                       ELSE exn' = o /\ UNCHANGED results
        /\ UNCHANGED <<stdout, exit>>

\* An exception reaches main(): in Python the expected ones become a line on
\* stderr, in Rust every error does, and an interrupt ends the process.
ExitOf(o) ==
    CASE o \in Expected \/ (rust /\ o \in Unexpected) -> "1"
      [] rust /\ o = "interrupt" -> "killed"
      [] OTHER -> "traceback"

Raised(o) ==
    /\ Ends(ExitOf(o))
    /\ UNCHANGED <<exn, results, stdout>>

Obtained(op) == results \cup {op}

\* The call answers; the command goes on.
Answers(op, next) ==
    /\ results' = Obtained(op)
    /\ pc' = next
    /\ UNCHANGED <<exn, stdout, exit>>

\* args.func(server): the first call of the command; only Java has a ping.
FirstCall ==
    CASE cmd = "json" -> "json_status"
      [] cmd = "ping" /\ kind # "java" -> "status"
      [] OTHER -> cmd

\* lookup(args.address) of the class the options chose.
Lookup ==
    /\ pc = "lookup"
    /\ \E o \in Outcomes :
        /\ Called("lookup", o)
        /\ \/ /\ o = "ok"
              /\ pc' = FirstCall
              /\ UNCHANGED <<exn, results, stdout, exit>>
           \/ o # "ok" /\ Raised(o)
    /\ UNCHANGED <<rust, kind, cmd, warned>>

\* server.ping(tries=1): any Exception leads to the status.
Ping ==
    /\ pc = "ping"
    /\ \E o \in Outcomes :
        /\ Called("ping", o)
        /\ \/ o = "ok" /\ Answers("ping", "print")
           \/ o \in Exceptions /\ pc' = "fallback" /\ UNCHANGED <<exn, results, stdout, exit>>
           \/ o = "interrupt" /\ Raised(o)
    /\ UNCHANGED <<rust, kind, cmd, warned>>

\* The warning follows a status that answered; in Rust it precedes the status.
Warns(o) == rust \/ o = "ok"

Fallback ==
    /\ pc = "fallback"
    /\ \E o \in Outcomes :
        /\ Called("status", o)
        /\ warned' = Warns(o)
        /\ \/ o = "ok" /\ Answers("status", "print")
           \/ o # "ok" /\ Raised(o)
    /\ UNCHANGED <<rust, kind, cmd>>

\* status_cmd, and ping_cmd on a server without a ping packet.
Status ==
    /\ pc = "status"
    /\ \E o \in Outcomes :
        /\ Called("status", o)
        /\ \/ o = "ok" /\ Answers("status", "print")
           \/ o # "ok" /\ Raised(o)
    /\ UNCHANGED <<rust, kind, cmd, warned>>

\* `exn = exn or e`
Remembered(o) == IF exn = "none" THEN o ELSE exn

\* One try of json_cmd: any Exception is remembered, the command goes on.  In
\* Rust the status is not tried: its error ends the command.
Tried(op) == ~(rust /\ op = "status")

JsonCall(op, next) ==
    \E o \in Outcomes :
        /\ Called(op, o)
        /\ \/ o = "ok" /\ Answers(op, next)
           \/ /\ o \in Exceptions /\ Tried(op)
              /\ exn' = Remembered(o) /\ pc' = next
              /\ UNCHANGED <<results, stdout, exit>>
           \/ o = "interrupt" /\ Raised(o)
           \/ o \in Exceptions /\ ~Tried(op) /\ Raised(o)

JsonStatus ==
    /\ pc = "json_status"
    /\ JsonCall("status", IF kind = "java" THEN "json_query" ELSE "print")
    /\ UNCHANGED <<rust, kind, cmd, warned>>

JsonQuery ==
    /\ pc = "json_query"
    /\ JsonCall("query", "print")
    /\ UNCHANGED <<rust, kind, cmd, warned>>

\* query_cmd: only Java servers have it; a timeout is explained.
Query ==
    /\ pc = "query" /\ kind = "java"
    /\ \E o \in Outcomes :
        /\ Called("query", o)
        /\ \/ o = "ok" /\ Answers("query", "print")
           \/ o = Timeout /\ Ends("1") /\ UNCHANGED <<exn, results, stdout>>
           \/ o \notin {"ok", Timeout} /\ Raised(o)
    /\ UNCHANGED <<rust, kind, cmd, warned>>

QueryUnsupported ==
    /\ pc = "query" /\ kind # "java"
    /\ Ends("1")
    /\ UNCHANGED <<rust, kind, cmd, calls, exn, results, stdout, warned>>

\* bool(status_res or query_res)
Online(found) == found # {}

Output(extent) ==
    [extent |-> extent, answer |-> results, online |-> Online(results),
     error |-> IF Online(results) THEN "none" ELSE exn]

\* Python may raise while it makes text or JSON of a response (as_dict(),
\* json.dump(), raw['hostip'], to_ansi() of a Bedrock colour), when lines may
\* have been printed already.  A latency is always printed.
Unprintable == IF rust \/ cmd = "ping" \/ results = {} THEN {} ELSE Unexpected

\* The data is printed, unless that raises or is interrupted.
Printing(o) ==
    /\ Called("print", o)
    /\ \/ o = "ok" /\ stdout' = Output("whole") /\ Ends("0")
       \/ o # "ok" /\ stdout' \in {Nothing, Output("begun")} /\ Ends(ExitOf(o))
    /\ UNCHANGED <<exn, results>>

\* The end of every command.  In json_cmd `assert exn` fails where nothing was
\* obtained and nothing was caught.
PrintAnswers ==
    /\ pc = "print"
    /\ \/ /\ Online(results) \/ exn # "none"
          /\ \E o \in {"ok", "interrupt"} \cup Unprintable : Printing(o)
       \/ ~Online(results) /\ exn = "none" /\ Raised("assert") /\ UNCHANGED calls
    /\ UNCHANGED <<rust, kind, cmd, warned>>

Finished == pc = "ended" /\ UNCHANGED vars

Next ==
    \/ Lookup \/ Ping \/ Fallback \/ Status
    \/ JsonStatus \/ JsonQuery \/ Query \/ QueryUnsupported
    \/ PrintAnswers \/ Finished

Spec == Init /\ [][Next]_vars

-----------------------------------------------------------------------------

Answered(op) == \E i \in 1 .. Len(calls) : calls[i] = [op |-> op, outcome |-> "ok"]

\* The first call that raised ended in o.
FailedFirst(o) ==
    \E i \in 1 .. Len(calls) :
        /\ calls[i].outcome = o /\ o # "ok"
        /\ \A j \in 1 .. i - 1 : calls[j].outcome = "ok"

Interrupted == calls[Len(calls)].outcome = "interrupt" /\ exit \in {"traceback", "killed"}

\* The data of an answer could not be printed: Python shows a traceback.
Unprinted ==
    /\ ~rust /\ exit = "traceback"
    /\ calls[Len(calls)].op = "print" /\ calls[Len(calls)].outcome \in Unexpected

\* What json prints agrees with what happened: each part is there iff its call
\* answered, the server is called online iff one did, and the error of an
\* offline server is the first that occurred; the assertion never fails.  Rust
\* prints nothing when the status fails, and says so with its exit code.  Other
\* than by an interrupt Python fails only over an answer it cannot print ("to
\* ensure data processing errors are noticed"), never when the server is offline.
JsonIsTruthful ==
    cmd = "json" /\ pc = "ended" /\ Answered("lookup") =>
        \/ Interrupted
        \/ rust /\ ~Answered("status") /\ exit = "1"
        \/ Unprinted /\ (Answered("status") \/ Answered("query"))
        \/ /\ exit = "0"
           /\ stdout.answer = {op \in {"status", "query"} : Answered(op)}
           /\ stdout.online = (stdout.answer # {})
           /\ ~stdout.online => ~rust /\ FailedFirst(stdout.error)

\* The warning that the server answers a status but no ping is printed exactly
\* when that is what happened, so a latency without it is that of a ping packet
\* wherever the server has one.  Rust says beforehand that it will try.
WarningIsEarned ==
    warned <=> /\ \E i \in 1 .. Len(calls) : calls[i].op = "ping" /\ calls[i].outcome # "ok"
               /\ IF rust THEN \E i \in 1 .. Len(calls) : calls[i].op = "status"
                          ELSE Answered("status")

\* What a script may rely on.  Exit code 0: the whole output is there (json may
\* say that the server is offline), printing it did not fail and nothing was
\* interrupted.  Exit code 1: stdout is empty.  "catch and hide traceback for
\* expected user-facing errors": what is behind a traceback is none of them.
\* Output that a traceback or a signal breaks off is of a command whose calls
\* are all made: it was printing.
ExitCodeIsHonest ==
    /\ exit = "0" => /\ stdout.extent = "whole"
                     /\ stdout.online \/ stdout.error # "none"
                     /\ calls[Len(calls)] = [op |-> "print", outcome |-> "ok"]
                     /\ \A i \in 1 .. Len(calls) : calls[i].outcome # "interrupt"
    /\ exit = "1" => stdout.extent = "nothing"
    /\ exit = "traceback" => calls[Len(calls)].outcome \notin Expected
    /\ stdout.extent = "begun" => /\ exit \in {"traceback", "killed"}
                                 /\ calls[Len(calls)].op = "print"
                                 /\ (rust => exit = "killed")
=============================================================================
