--------------------------- MODULE DeliveryPromise ---------------------------
(***************************************************************************)
(* What the saga promises to whoever enqueues an external call, without    *)
(* runners, claims, leases or an outbox: a call that is owed is delivered  *)
(* or given up; what is delivered was applied and stays delivered; only an *)
(* erasure that was given up may be owed again; and a certificate (the     *)
(* *_COMPLETED event) names applied calls only and is never missing when   *)
(* the last call of an operation is delivered.                             *)
(***************************************************************************)
EXTENDS Naturals

CONSTANTS Calls, subjectOf, operationOf

VARIABLES
    verdict,        \* verdict[c]: what is recorded about call c
    applied,        \* the calls their external systems have applied
    certified       \* the calls some certificate names

vars == <<verdict, applied, certified>>

Verdicts == {"none", "owed", "delivered", "given_up"}

TypeOK ==
    /\ verdict \in [Calls -> Verdicts]
    /\ applied \subseteq Calls
    /\ certified \subseteq Calls

Init ==
    /\ verdict = [c \in Calls |-> "none"]
    /\ applied = {}
    /\ certified = {}

\* The calls recorded for the subject and operation of c.
Operation(c) == {d \in Calls : /\ subjectOf[d] = subjectOf[c]
                               /\ operationOf[d] = operationOf[c]
                               /\ verdict[d] # "none"}

Record(calls, from, to) ==
    /\ calls # {}
    /\ \A c \in calls : verdict[c] = from
    /\ verdict' = [c \in Calls |-> IF c \in calls THEN to ELSE verdict[c]]

Ask(calls) ==
    /\ Record(calls, "none", "owed")
    /\ UNCHANGED <<applied, certified>>

Apply(c) ==
    /\ verdict[c] # "none"
    /\ applied' = applied \cup {c}
    /\ UNCHANGED <<verdict, certified>>

\* A certificate for calls of c's operation, c itself the last one owed.
Certify(c, calls) ==
    /\ c \in calls
    /\ calls \subseteq Operation(c) \cap applied
    /\ verdict[c] = "owed"
    /\ \A d \in calls \ {c} : verdict[d] = "delivered"
    /\ certified' = certified \cup calls
    /\ UNCHANGED <<verdict, applied>>

Deliver(c) ==
    /\ c \in applied
    /\ \/ Operation(c) \subseteq certified
       \/ \E d \in Operation(c) \ {c} : verdict[d] # "delivered"
    /\ Record({c}, "owed", "delivered")
    /\ UNCHANGED <<applied, certified>>

GiveUp(c) ==
    /\ Record({c}, "owed", "given_up")
    /\ UNCHANGED <<applied, certified>>

OweAgain(calls) ==
    /\ \A c \in calls : operationOf[c] = "erase"
    /\ Record(calls, "given_up", "owed")
    /\ UNCHANGED <<applied, certified>>

Next ==
    \/ \E c \in Calls : Apply(c) \/ Deliver(c) \/ GiveUp(c)
    \/ \E calls \in SUBSET Calls : Ask(calls) \/ OweAgain(calls)
    \/ \E c \in Calls : \E calls \in SUBSET Calls : Certify(c, calls)

Spec == Init /\ [][Next]_vars

=============================================================================
