------------------------- MODULE ServerObjectProofs -------------------------
(***************************************************************************)
(* Proofs about a server object, from its lookup to the datagrams of its   *)
(* callers, for every set of hosts, ports, addresses and callers.          *)
(***************************************************************************)
EXTENDS ServerObject, SequenceTheorems, TLAPS

-----------------------------------------------------------------------------
(* The lookup.  TypeOK is not inductive: what a Rust object is made of is  *)
(* a u16 because of where it comes from.                                   *)

\* What is known of the address at each phase.
AddressInv ==
    /\ phase \in {"parse", "srv"} =>
           addr = given /\ dns = "unasked" /\ entry # "constructor"
    /\ phase = "srv" => given.port = NoPort
    /\ dns = "found" => given.port = NoPort /\ Len(records) > 0
    /\ phase \in {"construct", "ready"} => addr = Wanted
    /\ phase \in {"construct", "ready"} /\ dns \in Failures =>
           dns \in NoRecord /\ addr.port = DefaultPort
    /\ phase = "construct" /\ rust => addr.port \in Valid
    /\ phase = "ready" =>
           server.port = addr.port /\ server.query_port = QueryPort

\* Before the object exists nobody uses it.
UnusedInv ==
    phase # "ready" =>
        /\ pc = [t \in Tasks |-> "idle"] /\ cached = None
        /\ ip = [t \in Tasks |-> None] /\ result = [t \in Tasks |-> None]
        /\ target = [t \in Tasks |-> NoTarget]

\* Everything the callers hold came from the DNS, for the host of the object.
HeldInv ==
    LET held == AnswersOf[addr.host] \cup {None}
    IN  /\ cached \in held
        /\ \A t \in Tasks :
              /\ ip[t] \in held
              /\ result[t] \in held \cup {"failed", "cancelled"}
              /\ target[t] # NoTarget => target[t].ip \in AnswersOf[addr.host] /\ phase = "ready"

IInv ==
    /\ TypeOK /\ A!TypeOK /\ target \in [Tasks -> [ip : IPs \cup {None}, port : Valid \cup {NoPort}]]
    /\ AddressInv /\ UnusedInv /\ HeldInv

\* A missing port becomes the default one.
LEMMA DefaultFacts ==
    ASSUME NEW a \in [host : Hosts, port : Ports \cup {NoPort}]
    PROVE  /\ WithDefault(a) \in [host : Hosts, port : Ports \cup {DefaultPort}]
           /\ WithDefault(a).host = a.host
           /\ a.port = NoPort => WithDefault(a).port = DefaultPort
           /\ a.port # NoPort => WithDefault(a) = a
  BY DEF WithDefault

\* A lookup begins with the arguments, a constructor with a whole address.
LEMMA InitIInv == ObjectInit => IInv
  <1> SUFFICES ASSUME ObjectInit PROVE IInv
    OBVIOUS
  <1>0. Init /\ A!Init /\ rust \in BOOLEAN /\ Valid \subseteq Nat
    BY PortsAssumption DEF ObjectInit, Init, Valid
  <1>1. given \in [host : Hosts, port : Ports \cup {NoPort}] /\ queryPort \in Arguments
    BY <1>0 DEF Init, Arguments
  <1>2. addr \in [host : Hosts, port : Ports \cup {NoPort, DefaultPort}]
    BY <1>0, <1>1, DefaultFacts DEF Init
  <1>3. server \in [port : Valid \cup {NoPort}, query_port : Valid \cup {NoPort}]
    BY <1>0 DEF Init, NoServer
  <1>4. TypeOK
    BY <1>0, <1>1, <1>2, <1>3 DEF Init, TypeOK, Entries
  <1>5. A!TypeOK /\ target \in [Tasks -> [ip : IPs \cup {None}, port : Valid \cup {NoPort}]]
    BY <1>0, <1>2, BoundAssumption DEF A!Init, A!TypeOK, ObjectInit, NoTarget
  <1>6. AddressInv
    <2>1. phase = "construct" => addr = WithDefault(given) /\ (rust => given.port \in Valid \cup {NoPort})
      BY <1>0 DEF Init, Arguments
    <2>2. DefaultPort \in Valid
      BY PortsAssumption DEF Valid
    <2>3. phase = "construct" /\ rust => addr.port \in Valid
      BY <1>1, <2>1, <2>2, DefaultFacts
    <2> QED
      BY <1>0, <2>1, <2>3 DEF Init, AddressInv, Wanted, Failures
  <1>7. UnusedInv /\ HeldInv
    BY <1>0 DEF ObjectInit, A!Init, UnusedInv, HeldInv
  <1> QED
    BY <1>4, <1>5, <1>6, <1>7 DEF IInv

\* A step of the lookup keeps its types and what is known of the address.
LEMMA LookupKeeps ==
    ASSUME TypeOK, AddressInv, Lookup
    PROVE  TypeOK' /\ AddressInv'
  <1>0. /\ given \in [host : Hosts, port : Ports \cup {NoPort}]
        /\ rust \in BOOLEAN /\ Valid \subseteq Nat /\ NoPort \notin Nat /\ Ports \subseteq Nat
        /\ DefaultPort \in Valid /\ DefaultPort \in Nat /\ DefaultPort # NoPort
        /\ "found" \notin Failures /\ "unasked" \notin Failures
    BY PortsAssumption DEF TypeOK, Valid, Failures
  <1>1. Arguments' = Arguments /\ UNCHANGED <<rust, entry, given, queryPort>>
    BY DEF Lookup, Parse, SrvFound, SrvFails, Construct, args, Arguments
  <1>2. CASE Parse
    <2>1. /\ phase = "parse" /\ addr = given /\ dns = "unasked" /\ entry # "constructor"
          /\ UNCHANGED <<rust, entry, given, queryPort, dns, records, server>>
      BY <1>2 DEF Parse, args, AddressInv
    <2>2. CASE phase' = "raised" /\ UNCHANGED addr
      <3>1. TypeOK'
        BY <1>0, <1>1, <2>1, <2>2 DEF TypeOK
      <3>2. AddressInv'
        BY <1>0, <1>1, <2>1, <2>2 DEF AddressInv
      <3> QED
        BY <3>1, <3>2
    <2>3. CASE /\ given.port \in Valid \cup {NoPort}
               /\ phase' = "construct" /\ addr' = WithDefault(given)
      <3>1. addr' \in [host : Hosts, port : Ports \cup {NoPort, DefaultPort}] /\ addr'.port \in Valid
        BY <1>0, <2>3, DefaultFacts
      <3>2. Wanted' = WithDefault(given)
        BY <2>1 DEF Wanted, WithDefault
      <3>3. TypeOK'
        BY <1>0, <1>1, <2>1, <2>3, <3>1, <3>2 DEF TypeOK
      <3>4. AddressInv'
        BY <1>0, <1>1, <2>1, <2>3, <3>1, <3>2 DEF AddressInv
      <3> QED
        BY <3>3, <3>4
    <2>4. CASE given.port = NoPort /\ entry = "lookup_srv" /\ phase' = "srv" /\ UNCHANGED addr
      <3>1. TypeOK'
        BY <1>0, <1>1, <2>1, <2>4 DEF TypeOK
      <3>2. AddressInv'
        BY <1>0, <1>1, <2>1, <2>4 DEF AddressInv
      <3> QED
        BY <3>1, <3>2
    <2> QED
      BY <1>2, <2>1, <2>2, <2>3, <2>4 DEF Parse
  <1>3. CASE SrvFound
    <2>1. /\ phase = "srv" /\ given.port = NoPort /\ phase' = "construct" /\ dns' = "found"
          /\ addr' = records'[1] /\ entry # "constructor"
          /\ UNCHANGED <<rust, entry, given, queryPort, server>>
      BY <1>3 DEF SrvFound, args, AddressInv, FirstRecord
    <2>2. PICK r \in Record, s \in Record : records' \in {<<r>>, <<r, s>>}
      BY <1>3 DEF SrvFound
    <2>3. records' \in Seq(Record) /\ Len(records') > 0 /\ records'[1] = r
      <3>1. CASE records' = <<r>>
        BY <3>1
      <3>2. CASE records' = <<r, s>>
        BY <3>2
      <3> QED
        BY <2>2, <3>1, <3>2
    <2>4. addr' \in [host : Hosts, port : Ports \cup {NoPort, DefaultPort}] /\ addr'.port \in Valid
      BY <2>1, <2>3 DEF Record
    <2>5. Wanted' = addr'
      BY <2>1 DEF Wanted
    <2>6. TypeOK'
      BY <1>0, <1>1, <2>1, <2>3, <2>4, <2>5 DEF TypeOK
    <2>7. AddressInv'
      BY <1>0, <1>1, <2>1, <2>3, <2>4, <2>5 DEF AddressInv
    <2> QED
      BY <2>6, <2>7
  <1>4. CASE SrvFails
    <2>1. /\ phase = "srv" /\ addr = given /\ given.port = NoPort /\ dns' \in Failures
          /\ entry # "constructor"
          /\ UNCHANGED <<rust, entry, given, queryPort, records, server>>
      BY <1>4 DEF SrvFails, args, AddressInv
    <2>2. CASE dns' \in NoRecord /\ phase' = "construct" /\ addr' = WithDefault(addr)
      <3>1. /\ addr' \in [host : Hosts, port : Ports \cup {NoPort, DefaultPort}]
            /\ addr'.port = DefaultPort
        BY <1>0, <2>1, <2>2, DefaultFacts
      <3>2. Wanted' = addr'
        BY <1>0, <2>1, <2>2 DEF Wanted, WithDefault
      <3>3. dns' \in NoRecord'
        BY <2>1, <2>2 DEF NoRecord
      <3>4. TypeOK'
        BY <1>0, <1>1, <2>1, <2>2, <3>1, <3>2, <3>3 DEF TypeOK
      <3>5. AddressInv'
        BY <1>0, <1>1, <2>1, <2>2, <3>1, <3>2, <3>3 DEF AddressInv
      <3> QED
        BY <3>4, <3>5
    <2>3. CASE phase' = "raised" /\ UNCHANGED addr
      <3>1. TypeOK'
        BY <1>0, <1>1, <2>1, <2>3 DEF TypeOK
      <3>2. AddressInv'
        BY <1>0, <1>1, <2>1, <2>3 DEF AddressInv
      <3> QED
        BY <3>1, <3>2
    <2> QED
      BY <1>4, <2>2, <2>3 DEF SrvFails
  <1>5. CASE Construct
    <2>1. /\ phase = "construct" /\ addr = Wanted
          /\ UNCHANGED <<rust, entry, given, queryPort, addr, dns, records>>
      BY <1>5 DEF Construct, args, AddressInv
    <2>2. CASE phase' = "raised" /\ UNCHANGED server
      <3>1. TypeOK'
        BY <1>0, <1>1, <2>1, <2>2 DEF TypeOK
      <3>2. AddressInv'
        BY <1>0, <1>1, <2>1, <2>2 DEF AddressInv
      <3> QED
        BY <3>1, <3>2
    <2>3. CASE /\ InRange(addr.port) /\ InRange(QueryPort)
               /\ phase' = "ready"
               /\ server' = [port |-> addr.port, query_port |-> QueryPort]
      <3>1. addr.port \in Valid
        BY <2>1, <2>3 DEF InRange, AddressInv
      <3>2. QueryPort \in Valid
        BY <1>0, <2>3, <3>1 DEF InRange, QueryPort, TypeOK, Arguments
      <3>3. server' \in [port : Valid \cup {NoPort}, query_port : Valid \cup {NoPort}]
        BY <2>3, <3>1, <3>2
      <3>4. Wanted' = Wanted /\ QueryPort' = QueryPort /\ NoRecord' = NoRecord
        BY <2>1 DEF Wanted, WithDefault, QueryPort, NoRecord
      <3>5. TypeOK'
        BY <1>0, <1>1, <2>1, <2>3, <3>3, <3>4 DEF TypeOK
      <3>6. AddressInv'
        BY <1>0, <1>1, <2>1, <2>3, <3>3, <3>4 DEF AddressInv
      <3> QED
        BY <3>5, <3>6
    <2> QED
      BY <1>5, <2>2, <2>3 DEF Construct
  <1> QED
    BY <1>2, <1>3, <1>4, <1>5 DEF Lookup

-----------------------------------------------------------------------------
(* The object and its callers.                                             *)

TargetType == [Tasks -> [ip : IPs \cup {None}, port : Valid \cup {NoPort}]]

\* Making the object leaves the callers where they are.
LEMMA MakeKeepsIInv == ASSUME IInv, Make PROVE IInv'
  <1>1. TypeOK' /\ AddressInv'
    BY LookupKeeps DEF IInv, Make
  <1>2. phase # "ready" /\ UNCHANGED <<variant, pc, cached, ip, result, lookups, target>>
    BY DEF Make, resolution, Lookup, Parse, SrvFound, SrvFails, Construct
  <1>3. addr'.host \in Hosts
    BY <1>1 DEF TypeOK
  <1>4. A!TypeOK' /\ target' \in TargetType
    BY <1>2, <1>3, AnswersAssumption DEF IInv, A!TypeOK, TargetType
  <1>5. UnusedInv' /\ HeldInv'
    <2>1. /\ pc = [t \in Tasks |-> "idle"] /\ cached = None
          /\ ip = [t \in Tasks |-> None] /\ result = [t \in Tasks |-> None]
          /\ target = [t \in Tasks |-> NoTarget]
      BY <1>2 DEF IInv, UnusedInv
    <2> QED
      BY <1>2, <2>1 DEF UnusedInv, HeldInv
  <1> QED
    BY <1>1, <1>4, <1>5 DEF IInv, TargetType

\* A step of the resolution gives a caller what the DNS has for the host.
LEMMA ResolveKeepsIInv == ASSUME IInv, Resolve PROVE IInv'
  <1> DEFINE known == AnswersOf[addr.host]
  <1>0. /\ phase = "ready" /\ UNCHANGED <<rust, entry, given, queryPort, phase, addr, dns, records, server, target>>
        /\ addr.host \in Hosts /\ known \subseteq IPs
        /\ pc \in [Tasks -> {"idle", "waiting", "returning"}]
        /\ ip \in [Tasks -> IPs \cup {None}]
        /\ result \in [Tasks -> IPs \cup {None, "failed", "cancelled"}]
        /\ cached \in known \cup {None}
        /\ \A t \in Tasks : ip[t] \in known \cup {None} /\ result[t] \in known \cup {None, "failed", "cancelled"}
    BY AnswersAssumption DEF Resolve, vars, args, IInv, TypeOK, HeldInv, A!TypeOK
  <1>1. TypeOK' /\ AddressInv'
    BY <1>0 DEF IInv, TypeOK, AddressInv, Arguments, Wanted, WithDefault, NoRecord, QueryPort
  <1>2. UnusedInv'
    BY <1>0 DEF UnusedInv
  <1>3. /\ pc' \in [Tasks -> {"idle", "waiting", "returning"}]
        /\ cached' \in known \cup {None}
        /\ ip' \in [Tasks -> known \cup {None}]
        /\ result' \in [Tasks -> known \cup {None, "failed", "cancelled"}]
        /\ lookups' \in 0 .. MaxLookups /\ variant' = variant
    <2> HIDE DEF known
    <2>0. /\ ip \in [Tasks -> known \cup {None}]
          /\ result \in [Tasks -> known \cup {None, "failed", "cancelled"}]
          /\ lookups \in 0 .. MaxLookups /\ MaxLookups \in Nat
      BY <1>0, BoundAssumption DEF IInv, A!TypeOK
    <2>1. ASSUME NEW t \in Tasks, A!Hit(t) PROVE <1>3!:
      BY <1>0, <2>0, <2>1 DEF A!Hit, A!ReturnCached
    <2>2. ASSUME NEW t \in Tasks, A!Miss(t) PROVE <1>3!:
      BY <1>0, <2>0, <2>2 DEF A!Miss
    <2>3. ASSUME NEW t \in Tasks, A!Answered(t) PROVE <1>3!:
      <3>1. PICK answer \in known : ip' = [ip EXCEPT ![t] = answer]
        BY <2>3 DEF A!Answered, known
      <3>2. ip' \in [Tasks -> known \cup {None}] /\ ip'[t] \in known
        BY <2>0, <3>1
      <3>3. variant' = variant /\ lookups' = lookups
        BY <2>3 DEF A!Answered
      <3>4. CASE A!AnsweredRust(t)
        BY <1>0, <2>0, <3>2, <3>3, <3>4 DEF A!AnsweredRust, A!SetOnce
      <3>5. CASE A!AnsweredPython(t)
        BY <1>0, <2>0, <3>2, <3>3, <3>5 DEF A!AnsweredPython, A!ReturnCached
      <3> QED
        BY <2>3, <3>4, <3>5 DEF A!Answered
    <2>4. ASSUME NEW t \in Tasks, A!Return(t) PROVE <1>3!:
      BY <1>0, <2>0, <2>4 DEF A!Return
    <2>5. ASSUME NEW t \in Tasks, A!WaitEnds(t) PROVE <1>3!:
      BY <1>0, <2>0, <2>5 DEF A!WaitEnds
    <2>6. CASE A!Exhausted
      BY <1>0, <2>0, <2>6 DEF A!Exhausted, A!vars
    <2> QED
      BY <2>1, <2>2, <2>3, <2>4, <2>5, <2>6 DEF Resolve, A!Next
  <1>4. A!TypeOK'
    BY <1>0, <1>3 DEF IInv, A!TypeOK
  <1>5. HeldInv'
    BY <1>0, <1>3 DEF IInv, HeldInv
  <1>6. target' \in TargetType
    BY <1>0 DEF IInv, TargetType
  <1> QED
    BY <1>1, <1>2, <1>4, <1>5, <1>6 DEF IInv, TargetType

\* A query goes to an address that was resolved for the object's host.
LEMMA QueryKeepsIInv == ASSUME IInv, NEW t \in Tasks, Query(t) PROVE IInv'
  <1>0. /\ phase = "ready" /\ result[t] \in IPs
        /\ UNCHANGED <<rust, entry, given, queryPort, phase, addr, dns, records, server>>
        /\ UNCHANGED <<variant, pc, cached, ip, result, lookups>>
        /\ target' = [target EXCEPT ![t] = [ip |-> result[t], port |-> server.query_port]]
    BY DEF Query, vars, args, resolution
  <1>1. TypeOK' /\ AddressInv'
    BY <1>0 DEF IInv, TypeOK, AddressInv, Arguments, Wanted, WithDefault, NoRecord, QueryPort
  <1>2. A!TypeOK' /\ UnusedInv'
    BY <1>0 DEF IInv, A!TypeOK, UnusedInv
  <1>3. result[t] \in AnswersOf[addr.host]
    BY <1>0, NoneAssumption DEF IInv, HeldInv
  <1>4. target' \in TargetType
    BY <1>0 DEF IInv, TypeOK, TargetType
  <1>5. \A u \in Tasks : target'[u] # NoTarget => target'[u].ip \in AnswersOf[addr.host]
    BY <1>0, <1>3 DEF IInv, HeldInv
  <1>6. HeldInv'
    BY <1>0, <1>5 DEF IInv, HeldInv
  <1> QED
    BY <1>1, <1>2, <1>4, <1>6 DEF IInv, TargetType

\* Every step preserves the invariant.
LEMMA NextIInv == IInv /\ [ObjectNext]_allVars => IInv'
  <1> SUFFICES ASSUME IInv, [ObjectNext]_allVars PROVE IInv'
    OBVIOUS
  <1>1. CASE UNCHANGED allVars
    BY <1>1 DEF allVars, vars, args, resolution, IInv, TypeOK, A!TypeOK, AddressInv, UnusedInv, HeldInv,
                Arguments, Wanted, WithDefault, NoRecord, QueryPort
  <1>2. CASE Make
    BY <1>2, MakeKeepsIInv
  <1>3. CASE Resolve
    BY <1>3, ResolveKeepsIInv
  <1>4. CASE \E t \in Tasks : Query(t)
    BY <1>4, QueryKeepsIInv
  <1> QED
    BY <1>1, <1>2, <1>3, <1>4 DEF ObjectNext, Raised

\* The invariant holds throughout.
LEMMA InvariantIInv == ObjectSpec => []IInv
  BY InitIInv, NextIInv, PTL DEF ObjectSpec

-----------------------------------------------------------------------------
(* The theorems.                                                           *)

\* The object, its address and its callers are well typed.
THEOREM TypeCorrect == ObjectSpec => [](TypeOK /\ A!TypeOK)
  <1>1. IInv => TypeOK /\ A!TypeOK
    BY DEF IInv
  <1> QED
    BY <1>1, InvariantIInv, PTL

\* Python contacts the default port only where the DNS says there is no record.
THEOREM DefaultIsEarned == ObjectSpec => []DefaultNeedsNoRecord
  <1>1. IInv => DefaultNeedsNoRecord
    BY DEF IInv, AddressInv, DefaultNeedsNoRecord, NoRecord
  <1> QED
    BY <1>1, InvariantIInv, PTL

\* Without a query port the query goes to the port of the game.
THEOREM QueryFollows == ObjectSpec => []QueryFollowsPort
  <1>1. IInv => QueryFollowsPort
    BY DEF IInv, TypeOK, AddressInv, QueryFollowsPort, QueryPort
  <1> QED
    BY <1>1, InvariantIInv, PTL

\* The object contacts what was asked for, and its queries go to an address the
\* DNS has for that host.
THEOREM TargetAsGiven == ObjectSpec => []TargetIsGiven
  <1>1. IInv => TargetIsGiven
    BY DEF IInv, AddressInv, HeldInv, TargetIsGiven
  <1> QED
    BY <1>1, InvariantIInv, PTL

\* Once the overlapping calls are over, what the cache holds stays: with a value
\* in the cache and nobody waiting for the DNS, nobody will wait again.
THEOREM QuietForGood == ObjectSpec => QuietIsForever
  <1> DEFINE Kept(a) == cached = a /\ a # None /\ \A t \in Tasks : pc[t] # "waiting"
  <1>1. ASSUME NEW a \in IPs PROVE ObjectSpec => [](A!Quiet /\ cached = a => [](cached = a))
    <2>1. A!Quiet /\ cached = a => Kept(a)
      BY NoneAssumption DEF A!Quiet
    <2>2. ASSUME IInv, Kept(a), [ObjectNext]_allVars PROVE Kept(a)'
      <3>1. CASE UNCHANGED <<pc, cached>>
        BY <2>2, <3>1
      <3>2. CASE Resolve
        <4>0. pc \in [Tasks -> {"idle", "waiting", "returning"}]
          BY <2>2 DEF IInv, A!TypeOK
        <4>1. \A u \in Tasks : ~A!Miss(u) /\ ~A!Answered(u) /\ ~A!WaitEnds(u)
          BY <2>2 DEF A!Miss, A!Answered, A!WaitEnds
        <4>2. ASSUME NEW u \in Tasks, A!Hit(u) \/ A!Return(u) PROVE Kept(a)'
          BY <2>2, <4>0, <4>2 DEF A!Hit, A!ReturnCached, A!Return
        <4>3. CASE A!Exhausted
          BY <3>1, <4>3 DEF A!Exhausted, A!vars
        <4> QED
          BY <3>2, <4>1, <4>2, <4>3 DEF Resolve, A!Next
      <3> QED
        BY <2>2, <3>1, <3>2 DEF ObjectNext, Make, Query, Raised, allVars, resolution
    <2>3. Kept(a) => cached = a
      OBVIOUS
    <2>4. IInv /\ Kept(a) /\ [ObjectNext]_allVars => Kept(a)'
      BY <2>2
    <2> HIDE DEF Kept
    <2> QED
      BY <2>1, <2>3, <2>4, InvariantIInv, PTL DEF ObjectSpec
  <1> QED
    BY <1>1 DEF QuietIsForever, A!QuietIsForever
=============================================================================
