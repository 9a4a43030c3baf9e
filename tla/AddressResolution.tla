------------------------- MODULE AddressResolution -------------------------
(***************************************************************************)
(* Address.resolve_ip and async_resolve_ip: several threads, coroutines or *)
(* tasks share one Address and its _cached_ip.  A call looks at the cache, *)
(* waits for the DNS answer and writes the cache: what it read may be      *)
(* stale by the time it writes.  A host that is an IP literal is the case  *)
(* of an answer that comes at once.  The DNS (external) may answer with a  *)
(* different address each time, or fail.                                   *)
(***************************************************************************)
EXTENDS Naturals, FiniteSets

CONSTANTS
    Tasks,      \* the threads or coroutines that share the Address
    IPs,        \* the addresses the DNS may answer
    AnswersOf,  \* AnswersOf[h]: those among them it may answer for host h
    None,       \* the empty cache
    MaxLookups  \* bound on the DNS queries of a behaviour

VARIABLES
    host,       \* Address.host, which never changes
    variant,    \* which code runs, see Variants
    pc,         \* pc[t]: "idle", "waiting" for the DNS or "returning"
    cached,     \* Address._cached_ip / Address::cached_ip
    ip,         \* ip[t]: the answer t got last
    result,     \* result[t]: what the last call of t returned, None if nothing
    lookups     \* DNS queries begun

vars == <<host, variant, pc, cached, ip, result, lookups>>

\* "threads": resolve_ip of address.py in threads; "coroutines": its
\* async_resolve_ip in one event loop; "rust": both functions of address.rs.
Variants == {"threads", "coroutines", "rust"}

TypeOK ==
    /\ host \in DOMAIN AnswersOf
    /\ variant \in Variants
    /\ pc \in [Tasks -> {"idle", "waiting", "returning"}]
    /\ cached \in IPs \cup {None}
    /\ ip \in [Tasks -> IPs \cup {None}]
    /\ result \in [Tasks -> IPs \cup {None, "failed", "cancelled"}]
    /\ lookups \in 0 .. MaxLookups

Init ==
    /\ host \in DOMAIN AnswersOf
    /\ variant \in Variants
    /\ pc = [t \in Tasks |-> "idle"]
    /\ cached = None
    /\ ip = [t \in Tasks |-> None]
    /\ result = [t \in Tasks |-> None]
    /\ lookups = 0

\* Mutated form of Miss, for the run that must refute it: the cache is not
\* looked at.
LookupAnyway(t) ==
    /\ pc[t] = "idle"
    /\ lookups < MaxLookups /\ lookups' = lookups + 1
    /\ pc' = [pc EXCEPT ![t] = "waiting"]
    /\ UNCHANGED <<host, variant, cached, ip, result>>

\* A call of t ends with what it finds in the cache: at once where no other
\* caller can come between, in a step of its own for a thread, which reads the
\* attribute a second time.
ReturnCached(t) ==
    IF variant = "threads"
    THEN /\ pc' = [pc EXCEPT ![t] = "returning"] /\ UNCHANGED result
    ELSE /\ pc' = [pc EXCEPT ![t] = "idle"]
         /\ result' = [result EXCEPT ![t] = cached']

\* The cache is set: no query is made.
Hit(t) ==
    /\ pc[t] = "idle" /\ cached # None
    /\ UNCHANGED <<host, variant, cached, ip, lookups>>
    /\ ReturnCached(t)

\* The cache is empty: the A record is asked for, and the call waits.
Miss(t) ==
    /\ pc[t] = "idle" /\ cached = None
    /\ lookups < MaxLookups /\ lookups' = lookups + 1
    /\ pc' = [pc EXCEPT ![t] = "waiting"]
    /\ UNCHANGED <<host, variant, cached, ip, result>>

\* address.py: self._cached_ip = ip, whatever it holds by now.
AnsweredPython(t) ==
    /\ cached' = ip'[t]
    /\ ReturnCached(t)

\* OnceLock::set does nothing if a value is there, and its error is ignored.
SetOnce(answer) == IF cached = None THEN answer ELSE cached

\* address.rs: the call returns its own answer.
AnsweredRust(t) ==
    /\ cached' = SetOnce(ip'[t])
    /\ pc' = [pc EXCEPT ![t] = "idle"]
    /\ result' = [result EXCEPT ![t] = ip'[t]]

\* The DNS answers a waiting call.
Answered(t) ==
    /\ pc[t] = "waiting"
    /\ \E answer \in AnswersOf[host] : ip' = [ip EXCEPT ![t] = answer]
    /\ IF variant = "rust" THEN AnsweredRust(t) ELSE AnsweredPython(t)
    /\ UNCHANGED <<host, variant, lookups>>

\* The thread's second read of the attribute.
Return(t) ==
    /\ pc[t] = "returning"
    /\ result' = [result EXCEPT ![t] = cached]
    /\ pc' = [pc EXCEPT ![t] = "idle"]
    /\ UNCHANGED <<host, variant, cached, ip, lookups>>

\* The DNS fails, or the coroutine is cancelled while it waits: the call ends,
\* the cache is not touched.
WaitEnds(t) ==
    /\ pc[t] = "waiting"
    /\ \/ result' = [result EXCEPT ![t] = "failed"]
       \/ /\ variant # "threads"
          /\ result' = [result EXCEPT ![t] = "cancelled"]
    /\ pc' = [pc EXCEPT ![t] = "idle"]
    /\ UNCHANGED <<host, variant, cached, ip, lookups>>

\* Only the bound stops the callers.
Exhausted == lookups = MaxLookups /\ UNCHANGED vars

Next ==
    \/ \E t \in Tasks : Hit(t) \/ Miss(t) \/ Answered(t) \/ Return(t) \/ WaitEnds(t)
    \/ Exhausted

Spec == Init /\ [][Next]_vars

-----------------------------------------------------------------------------

\* Nobody is between a look at the cache and the end of the call.
Quiet == \A t \in Tasks : pc[t] = "idle"

\* Overlapping calls may replace each other's answers, but once all of them are
\* over and one has left its answer, that is the address for ever.
QuietIsForever == \A a \in IPs : [](Quiet /\ cached = a => [](cached = a))
=============================================================================
