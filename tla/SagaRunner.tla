----------------------------- MODULE SagaRunner -----------------------------
(***************************************************************************)
(* The saga: runners (saga/runner.py) that drain the outbox, the external  *)
(* systems behind the resolvers, the operator who requeues abandoned       *)
(* entries, and the audit trail all of them append to.                     *)
(*                                                                         *)
(* A runner's pass claims a batch, awaits one resolver call per entry, and *)
(* then books the outcomes one entry after the other.  Between any two of  *)
(* its database transactions and audit appends other actors may act, a     *)
(* lease may run out, and the pass may end: the process dies, the audit    *)
(* sink or the database raises, or the call was cancelled.                 *)
(*                                                                         *)
(* The trail is a set: the append-only table never loses an event, and the *)
(* properties ask whether one was ever written.  Only completion events    *)
(* are counted.                                                            *)
(***************************************************************************)
EXTENDS Outbox

CONSTANTS
    Runners,            \* concurrent SagaRunner.run_once passes
    Operator,           \* the session of Outbox.requeue
    Transactions,       \* the sets of entries one erasure or rectification commits
    RequeueRequests,    \* the id sets the operator may pass to requeue
    RetentionOnly,      \* erase entries whose resolver is a RetentionOnlyResolver
    Verifying,          \* erase entries whose resolver is a VerifyingResolver
    MaxAttempts,        \* SagaRunner.max_attempts
    BatchSize,          \* SagaRunner.batch_size
    MaxFaults,          \* bound: passes and requeues that end halfway
    MaxLapses           \* bound: leases that run out under a working runner

ASSUME SagaAssumption ==
    /\ Operator \notin Runners
    /\ Sessions = Runners \cup {Operator}
    /\ RequeueRequests \subseteq SUBSET Entries
    /\ MaxAttempts \in 1..MaxCounted
    /\ BatchSize \in Nat \ {0}
    /\ MaxFaults \in Nat
    /\ MaxLapses \in Nat

\* One transaction enqueues entries of one subject and one operation, with
\* fresh ids: rectification and erasure each have their own transaction.
ASSUME TransactionAssumption ==
    /\ Transactions \subseteq SUBSET Entries
    /\ \A T \in Transactions : \A e, f \in T : SameScope(e, f)

\* Both resolver capabilities only concern erase entries; for a resolver that
\* has both, the schedule comes first and the read-back is never reached.
ASSUME ResolverAssumption ==
    /\ \A e \in RetentionOnly \cup Verifying : e \in Entries /\ operationOf[e] = "erase"
    /\ RetentionOnly \cap Verifying = {}

VARIABLES
    pc,             \* pc[r]: where runner r is in run_once
    held,           \* held[r]: entries of r's batch not yet booked
    claim,          \* claim[r][e]: r's copy of e, made by claim_batch, and its outcome
    effect,         \* effect[e]: e's external system has applied the call of e
    trail,          \* the audit events written about entries
    completions,    \* completions[e]: completion events written that cover e
    announced,      \* rows whose ERASURE_REQUEUED the open requeue has written
    faults,         \* passes and requeues that ended halfway so far
    lapses          \* leases that ran out under a working runner so far

sagaVars == <<pc, held, claim, effect, trail, completions, announced, faults, lapses>>
vars == <<row, locked, pc, held, claim, effect, trail, completions, announced,
          faults, lapses>>

-----------------------------------------------------------------------------

\* Outcomes of one resolver call: "done" is an erasure, a rectification or a
\* verified expiry, "expires" a schedule with a future horizon, "refused" a
\* ResolverError, "transient" any other Exception.
Answers == {"none", "done", "expires", "refused", "transient"}

Claim == [attempts : Nat, corrections : BOOLEAN, answer : Answers]
NoClaim == [attempts |-> 0, corrections |-> FALSE, answer |-> "none"]

Places == {"idle", "running", "succeeding", "completing", "committing",
           "parking", "abandoning"}

EventTypes == {"step_succeeded", "step_failed", "expiry_scheduled", "requeued",
               "verdict"}
Event(type, e) == [type |-> type, entry |-> e]

TypeOK ==
    /\ OutboxTypeOK
    /\ pc \in [Runners -> Places]
    /\ held \in [Runners -> SUBSET Entries]
    /\ claim \in [Runners -> [Entries -> Claim]]
    /\ effect \in [Entries -> BOOLEAN]
    /\ trail \subseteq [type : EventTypes, entry : Entries]
    /\ completions \in [Entries -> Nat]
    /\ announced \subseteq Entries
    /\ faults \in 0..MaxFaults
    /\ lapses \in 0..MaxLapses

Init ==
    /\ OutboxInit
    /\ pc = [r \in Runners |-> "idle"]
    /\ held = [r \in Runners |-> {}]
    /\ claim = [r \in Runners |-> [e \in Entries |-> NoClaim]]
    /\ effect = [e \in Entries |-> FALSE]
    /\ trail = {}
    /\ completions = [e \in Entries |-> 0]
    /\ announced = {}
    /\ faults = 0
    /\ lapses = 0

-----------------------------------------------------------------------------
(* The claim, the resolver calls, and the order of settlement.             *)

EnqueueTransaction(T) ==
    /\ T # {}
    /\ Enqueue(T)
    /\ UNCHANGED sagaVars

\* run_once, first half: one claim_batch; the batch is the runner's own copy.
TakeBatch(r) ==
    LET batch == Oldest(Due, BatchSize)
    IN  /\ pc[r] = "idle"
        /\ batch # {}
        /\ ClaimBatch(batch)
        /\ pc' = [pc EXCEPT ![r] = "running"]
        /\ held' = [held EXCEPT ![r] = batch]
        /\ claim' = [claim EXCEPT ![r] =
                       [e \in Entries |->
                          IF e \in batch
                          THEN [attempts |-> OneMore(row[e].attempts),
                                corrections |-> row[e].payload,
                                answer |-> "none"]
                          ELSE NoClaim]]
        /\ UNCHANGED <<effect, trail, completions, announced, faults, lapses>>

\* Mutant: a schedule counts as an erasure before anything has expired.
AnswerOptimistically(r, e, answer) ==
    /\ pc[r] = "running"
    /\ e \in held[r]
    /\ claim[r][e].answer = "none"
    /\ answer \in {"done", "refused", "transient"}
    /\ effect' = IF e \in RetentionOnly THEN effect
                 ELSE [effect EXCEPT ![e] = answer = "done"]
    /\ claim' = [claim EXCEPT ![r][e] =
                    [attempts |-> claim[r][e].attempts, answer |-> answer,
                     corrections |-> claim[r][e].corrections]]
    /\ UNCHANGED <<row, locked, pc, held, trail, completions, announced, faults, lapses>>

\* What a call of e may bring about: an on-demand resolver erases, or applies
\* the corrections it was handed, which may be none; a retention-only one
\* changes nothing.
Applied(r, e) ==
    IF operationOf[e] = "rectify" THEN effect[e] \/ claim[r][e].corrections
    ELSE effect[e] \/ e \notin RetentionOnly

\* _execute: one resolver call ends.  A retention-only system answers with a
\* horizon until the data is gone.  A call that raises may have been applied.
Answer(r, e, answer) ==
    /\ pc[r] = "running"
    /\ e \in held[r]
    /\ claim[r][e].answer = "none"
    /\ \/ /\ answer = "done"
          /\ e \in RetentionOnly => effect[e]
          /\ effect' = [effect EXCEPT ![e] = Applied(r, e)]
       \/ /\ answer = "expires"
          /\ e \in RetentionOnly
          /\ ~effect[e]
          /\ UNCHANGED effect
       \/ /\ answer \in {"refused", "transient"}
          /\ effect' \in {effect, [effect EXCEPT ![e] = Applied(r, e)]}
    /\ claim' = [claim EXCEPT ![r][e] =
                    [attempts |-> claim[r][e].attempts, answer |-> answer,
                     corrections |-> claim[r][e].corrections]]
    /\ UNCHANGED <<row, locked, pc, held, trail, completions, announced, faults, lapses>>

\* Every call of the batch has returned (asyncio.gather) and e is the oldest
\* entry of the batch that has not been settled yet.
Settling(r, e) ==
    /\ e \in held[r]
    /\ \A f \in held[r] : e <= f /\ claim[r][f].answer # "none"

\* The entry is booked: the loop of run_once goes on with the rest of the batch.
Booked(r, e) ==
    /\ held' = [held EXCEPT ![r] = held[r] \ {e}]
    /\ pc' = [pc EXCEPT ![r] = IF held[r] = {e} THEN "idle" ELSE "running"]
    /\ claim' = [claim EXCEPT ![r][e] = NoClaim]

-----------------------------------------------------------------------------
(* _settle and what it calls.  The append always comes first.              *)

\* Mutant: a failed append is swallowed and the pass goes on.
AppendEventIfPossible(r, event, place) ==
    /\ trail' \in {trail, trail \cup {event}}
    /\ pc' = [pc EXCEPT ![r] = place]
    /\ UNCHANGED <<row, locked, held, claim, effect, completions, announced,
                   faults, lapses>>

\* An append to the trail by r, which then stands at the given place.
AppendEvent(r, event, place) ==
    /\ trail' = trail \cup {event}
    /\ pc' = [pc EXCEPT ![r] = place]
    /\ UNCHANGED <<row, locked, held, claim, effect, completions, announced,
                   faults, lapses>>

\* _succeed, up to its append of *_STEP_SUCCEEDED.
Succeed(r, e) ==
    /\ pc[r] = "running"
    /\ Settling(r, e)
    /\ claim[r][e].answer = "done"
    /\ AppendEvent(r, Event("step_succeeded", e), "succeeding")

\* mark_succeeded takes its locks and decides whether the operation is complete.
CheckCompletion(r, e) ==
    /\ pc[r] = "succeeding"
    /\ Settling(r, e)
    /\ LockSiblings(r, e)
    /\ pc' = [pc EXCEPT ![r] = IF LastOfItsOperation(e) THEN "completing"
                                                        ELSE "committing"]
    /\ UNCHANGED <<held, claim, effect, trail, completions, announced, faults, lapses>>

\* on_subject_complete appends ERASURE_COMPLETED or RECTIFICATION_COMPLETED
\* inside mark_succeeded's transaction; the event covers every locked row.
Complete(r, e) ==
    /\ pc[r] = "completing"
    /\ Settling(r, e)
    /\ completions' = [f \in Entries |->
                         IF f \in locked[r] THEN completions[f] + 1 ELSE completions[f]]
    /\ pc' = [pc EXCEPT ![r] = "committing"]
    /\ UNCHANGED <<row, locked, held, claim, effect, trail, announced, faults, lapses>>

\* mark_succeeded commits.  For a verifying resolver _record_verification then
\* appends the read-back verdict; it may have none, or its append may fail.
Commit(r, e) ==
    /\ pc[r] = "committing"
    /\ Settling(r, e)
    /\ CommitSucceeded(r, e)
    /\ Booked(r, e)
    /\ \/ UNCHANGED trail
       \/ e \in Verifying /\ trail' = trail \cup {Event("verdict", e)}
    /\ UNCHANGED <<effect, completions, announced, faults, lapses>>

\* _park, up to its append of ERASURE_EXPIRY_SCHEDULED, then mark_scheduled.
Park(r, e) ==
    /\ pc[r] = "running"
    /\ Settling(r, e)
    /\ claim[r][e].answer = "expires"
    /\ AppendEvent(r, Event("expiry_scheduled", e), "parking")

Parked(r, e) ==
    /\ pc[r] = "parking"
    /\ Settling(r, e)
    /\ MarkScheduled(r, e)
    /\ Booked(r, e)
    /\ UNCHANGED <<effect, trail, completions, announced, faults, lapses>>

\* Mutant: one attempt too many.
OverExhausted(r, e) == claim[r][e].attempts > MaxAttempts

\* The attempts a runner goes by are those of its own copy of the entry.
Exhausted(r, e) == claim[r][e].attempts >= MaxAttempts

\* _abandon, up to its append of *_STEP_FAILED, then mark_abandoned.
Abandon(r, e) ==
    /\ pc[r] = "running"
    /\ Settling(r, e)
    /\ \/ claim[r][e].answer = "refused"
       \/ claim[r][e].answer = "transient" /\ Exhausted(r, e)
    /\ AppendEvent(r, Event("step_failed", e), "abandoning")

GiveUp(r, e) ==
    /\ pc[r] = "abandoning"
    /\ Settling(r, e)
    /\ MarkAbandoned(r, e)
    /\ Booked(r, e)
    /\ UNCHANGED <<effect, trail, completions, announced, faults, lapses>>

\* _retry: a transient failure within the budget is not audited.
Retry(r, e) ==
    /\ pc[r] = "running"
    /\ Settling(r, e)
    /\ claim[r][e].answer = "transient"
    /\ ~Exhausted(r, e)
    /\ MarkFailed(r, e)
    /\ Booked(r, e)
    /\ UNCHANGED <<effect, trail, completions, announced, faults, lapses>>

\* The pass ends with entries left: the process dies, an append or a mark
\* raises, or an outcome is no Exception and _settle raises it.  Open
\* transactions roll back, the rest of the batch stays in_flight for its lease.
Interrupt(r) ==
    /\ pc[r] # "idle"
    /\ faults < MaxFaults
    /\ faults' = faults + 1
    /\ Rollback(r)
    /\ pc' = [pc EXCEPT ![r] = "idle"]
    /\ held' = [held EXCEPT ![r] = {}]
    /\ claim' = [claim EXCEPT ![r] = [e \in Entries |-> NoClaim]]
    /\ UNCHANGED <<effect, trail, completions, announced, lapses>>

-----------------------------------------------------------------------------
(* Outbox.requeue: lock, one append per abandoned row, flip and commit.    *)

Requeue(ids) ==
    /\ locked[Operator] = {}
    /\ LockForRequeue(Operator, ids)
    /\ UNCHANGED sagaVars

Announce(e) ==
    /\ e \in Abandoned(locked[Operator]) \ announced
    /\ trail' = trail \cup {Event("requeued", e)}
    /\ announced' = announced \cup {e}
    /\ UNCHANGED <<row, locked, pc, held, claim, effect, completions, faults, lapses>>

Reopen ==
    /\ locked[Operator] # {}
    /\ announced = Abandoned(locked[Operator])
    /\ CommitRequeue(Operator)
    /\ announced' = {}
    /\ UNCHANGED <<pc, held, claim, effect, trail, completions, faults, lapses>>

InterruptRequeue ==
    /\ locked[Operator] # {}
    /\ faults < MaxFaults
    /\ faults' = faults + 1
    /\ Rollback(Operator)
    /\ announced' = {}
    /\ UNCHANGED <<pc, held, claim, effect, trail, completions, lapses>>

-----------------------------------------------------------------------------
(* Time and the external systems.                                          *)

Working(e) == \E r \in Runners : e \in held[r]

\* A gate opens.  It is a lapse when a lease ends under a runner still at work.
GateOpens(e) ==
    /\ OpenGate(e)
    /\ IF row[e].status = "in_flight" /\ Working(e)
       THEN lapses < MaxLapses /\ lapses' = lapses + 1
       ELSE UNCHANGED lapses
    /\ UNCHANGED <<pc, held, claim, effect, trail, completions, announced, faults>>

\* The retention period of a vendor that deletes by itself comes to its end.
Expire(e) ==
    /\ e \in RetentionOnly
    /\ Stored(e)
    /\ ~effect[e]
    /\ effect' = [effect EXCEPT ![e] = TRUE]
    /\ UNCHANGED <<row, locked, pc, held, claim, trail, completions, announced,
                   faults, lapses>>

-----------------------------------------------------------------------------

Settle(r, e) ==
    \/ Succeed(r, e) \/ CheckCompletion(r, e) \/ Complete(r, e) \/ Commit(r, e)
    \/ Park(r, e) \/ Parked(r, e)
    \/ Abandon(r, e) \/ GiveUp(r, e)
    \/ Retry(r, e)

RunOnce(r) ==
    \/ TakeBatch(r)
    \/ \E e \in Entries : Settle(r, e) \/ \E a \in Answers : Answer(r, e, a)

OperatorStep ==
    \/ \E ids \in RequeueRequests : Requeue(ids)
    \/ \E e \in Entries : Announce(e)
    \/ Reopen
    \/ InterruptRequeue

Next ==
    \/ \E T \in Transactions : EnqueueTransaction(T)
    \/ \E r \in Runners : RunOnce(r) \/ Interrupt(r)
    \/ OperatorStep
    \/ \E e \in Entries : GateOpens(e) \/ Expire(e)

Spec == Init /\ [][Next]_vars

=============================================================================
