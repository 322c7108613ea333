--------------------------- MODULE ErasureAttempts ---------------------------
(***************************************************************************)
(* Erasure attempts as the audit trail sees them, without rows, locks or   *)
(* plans: a call requests the erasure of a subject, fails or completes it, *)
(* and its caller commits, or does not.  Events are durable at once, the   *)
(* erasure only with the commit, and an attempt may end without an event.  *)
(*                                                                         *)
(* LocalErasure is shown to implement this specification; Replay builds on *)
(* it.                                                                     *)
(***************************************************************************)
EXTENDS Naturals, Sequences

CONSTANTS
    Calls,          \* the sessions in which callers run erase_subject
    Subjects,
    NoSubject

ASSUME NoSubjectAssumption == NoSubject \notin Subjects

VARIABLES
    trail,          \* the audit trail
    attempting,     \* attempting[c]: the subject whose attempt is open, or NoSubject
    finished,       \* finished[c]: subjects erased in c's transaction, uncommitted
    erased          \* erased[s]: erasures of s the database has committed

attemptVars == <<trail, attempting, finished, erased>>

EventTypes == {"requested", "step_failed", "local_completed", "replayed"}

Event(type, s) == [type |-> type, subject |-> s]

AttemptsTypeOK ==
    /\ trail \in Seq([type : EventTypes, subject : Subjects])
    /\ attempting \in [Calls -> Subjects \cup {NoSubject}]
    /\ finished \in [Calls -> SUBSET Subjects]
    /\ erased \in [Subjects -> Nat]

AttemptsInit ==
    /\ trail = <<>>
    /\ attempting = [c \in Calls |-> NoSubject]
    /\ finished = [c \in Calls |-> {}]
    /\ erased = [s \in Subjects |-> 0]

Requested(c, s) ==
    /\ attempting[c] = NoSubject
    /\ trail' = Append(trail, Event("requested", s))
    /\ attempting' = [attempting EXCEPT ![c] = s]
    /\ UNCHANGED <<finished, erased>>

LocallyCompleted(c) ==
    /\ attempting[c] # NoSubject
    /\ trail' = Append(trail, Event("local_completed", attempting[c]))
    /\ finished' = [finished EXCEPT ![c] = finished[c] \cup {attempting[c]}]
    /\ attempting' = [attempting EXCEPT ![c] = NoSubject]
    /\ UNCHANGED erased

\* The transaction is gone, with everything finished in it.
RolledBack(c) ==
    /\ attempting' = [attempting EXCEPT ![c] = NoSubject]
    /\ finished' = [finished EXCEPT ![c] = {}]
    /\ UNCHANGED erased

StepFailed(c) ==
    /\ attempting[c] # NoSubject
    /\ trail' = Append(trail, Event("step_failed", attempting[c]))
    /\ RolledBack(c)

\* A crash, a failed append, or a caller who rolls back.
GivenUp(c) ==
    /\ attempting[c] # NoSubject \/ finished[c] # {}
    /\ RolledBack(c)
    /\ UNCHANGED trail

Committed(c) ==
    /\ attempting[c] = NoSubject
    /\ finished[c] # {}
    /\ erased' = [s \in Subjects |-> IF s \in finished[c] THEN erased[s] + 1 ELSE erased[s]]
    /\ finished' = [finished EXCEPT ![c] = {}]
    /\ UNCHANGED <<trail, attempting>>

AttemptsNext ==
    \E c \in Calls :
        \/ \E s \in Subjects : Requested(c, s)
        \/ LocallyCompleted(c) \/ StepFailed(c) \/ GivenUp(c) \/ Committed(c)

AttemptsSpec == AttemptsInit /\ [][AttemptsNext]_attemptVars

=============================================================================
