------------------------------ MODULE Requests ------------------------------
(***************************************************************************)
(* Requests of data subjects, each served in a session of its own that     *)
(* commits when the engine returns and rolls back when it raises.  What a  *)
(* session writes shows with its commit; the audit trail does not wait for *)
(* it, because the sink commits every event by itself.                     *)
(***************************************************************************)
EXTENDS Naturals, Sequences, FiniteSets

CONSTANTS
    Sessions,
    NoRequest,      \* an idle session
    MaxRequests,    \* bound: requests made
    MaxFaults       \* bound: requests that end by a failure from outside

ASSUME RequestsAssumption == MaxRequests \in Nat /\ MaxFaults \in Nat

VARIABLES
    request,    \* request[s]: the request that session s serves
    place,      \* place[s]: where the engine is
    number,     \* number[s]: requests are numbered in the order of their calls
    asked,      \* requests made so far
    committed,  \* the committed requests that change something, in commit order
    trail,      \* the audit events written
    faults      \* failures so far

requestVars == <<request, place, number, asked, committed, trail, faults>>

RequestsInit ==
    /\ request = [s \in Sessions |-> NoRequest]
    /\ place = [s \in Sessions |-> "idle"]
    /\ number = [s \in Sessions |-> 0]
    /\ asked = 0
    /\ committed = <<>>
    /\ trail = {}
    /\ faults = 0

Event(s, type, target) == [request |-> number[s], type |-> type, target |-> target]

\* A request arrives at an idle session.
Begin(s, what) ==
    /\ place[s] = "idle"
    /\ asked < MaxRequests
    /\ asked' = asked + 1
    /\ number' = [number EXCEPT ![s] = asked + 1]
    /\ request' = [request EXCEPT ![s] = what]
    /\ place' = [place EXCEPT ![s] = "begun"]
    /\ UNCHANGED <<committed, trail, faults>>

\* The engine goes on, with or without an event.
GoTo(s, to) ==
    /\ place' = [place EXCEPT ![s] = to]
    /\ UNCHANGED <<request, number, asked, committed, faults>>

AppendEvent(s, type, target) == trail' = trail \cup {Event(s, type, target)}

Quietly(s, to) == GoTo(s, to) /\ UNCHANGED trail

Audited(s, type, target, to) == GoTo(s, to) /\ AppendEvent(s, type, target)

\* The session is given back.
Release(s) ==
    /\ place' = [place EXCEPT ![s] = "idle"]
    /\ request' = [request EXCEPT ![s] = NoRequest]
    /\ UNCHANGED <<number, asked>>

Commits(s) ==
    /\ Release(s)
    /\ committed' = Append(committed, [number |-> number[s], what |-> request[s]])
    /\ UNCHANGED <<trail, faults>>

Returns(s) == Release(s) /\ UNCHANGED <<committed, trail, faults>>

\* An append or a statement raises, the connection is lost or the process dies.
Fails(s) ==
    /\ place[s] # "idle"
    /\ faults < MaxFaults
    /\ faults' = faults + 1
    /\ Release(s)
    /\ UNCHANGED committed

=============================================================================
