----------------------------- MODULE SagaProofs -----------------------------
(***************************************************************************)
(* Proofs about the saga, for every set of entries, runners and resolvers, *)
(* and about the worker that repeats its passes.                           *)
(***************************************************************************)
EXTENDS SagaProperties, SagaWorker, FiniteSetTheorems, TLAPS

USE DEF Statuses, Row, Places, Answers, Claim, EventTypes

\* The count of attempts stays a number.
LEMMA Counted == \A n \in Nat : OneMore(n) \in Nat
BY OutboxAssumption DEF OneMore

\* Every action leaves the state well typed.
LEMMA TypeStep == TypeOK /\ [Next]_vars => TypeOK'
<1> SUFFICES ASSUME TypeOK, [Next]_vars PROVE TypeOK'
  OBVIOUS
<1> USE OutboxAssumption, SagaAssumption DEF OutboxTypeOK
<1>1. ASSUME NEW T \in Transactions, EnqueueTransaction(T) PROVE TypeOK'
  BY <1>1, TransactionAssumption DEF EnqueueTransaction, Enqueue, sagaVars, TypeOK
<1>2. ASSUME NEW r \in Runners, TakeBatch(r) PROVE TypeOK'
  <2> DEFINE batch == Oldest(Due, BatchSize)
             copies == [e \in Entries |-> IF e \in batch
                                         THEN [attempts |-> OneMore(row[e].attempts),
                                               corrections |-> row[e].payload,
                                               answer |-> "none"]
                                         ELSE NoClaim]
  <2>1. batch \subseteq Entries
    BY DEF Oldest, Due
  <2>2. row' \in [Entries -> Row]
    BY <1>2, Counted DEF TakeBatch, ClaimBatch, TypeOK
  <2>3. copies \in [Entries -> Claim]
    BY Counted DEF NoClaim, TypeOK
  <2>4. claim' = [claim EXCEPT ![r] = copies]
    BY <1>2 DEF TakeBatch
  <2> HIDE DEF batch, copies
  <2>5. claim' \in [Runners -> [Entries -> Claim]]
    BY <2>3, <2>4 DEF TypeOK
  <2>6. held' \in [Runners -> SUBSET Entries]
    BY <1>2, <2>1 DEF TakeBatch, TypeOK, batch
  <2> QED
    BY <1>2, <2>2, <2>5, <2>6 DEF TakeBatch, ClaimBatch, TypeOK
<1>3. ASSUME NEW r \in Runners, NEW e \in Entries, NEW a \in Answers,
                Answer(r, e, a)
      PROVE TypeOK'
  <2>1. claim' \in [Runners -> [Entries -> Claim]]
    BY <1>3 DEF Answer, TypeOK
  <2>2. Applied(r, e) \in BOOLEAN
    BY DEF Applied, TypeOK
  <2>3. effect' \in [Entries -> BOOLEAN]
    BY <1>3, <2>2 DEF Answer, TypeOK
  <2> QED
    BY <1>3, <2>1, <2>3 DEF Answer, TypeOK
<1>4. ASSUME NEW r \in Runners, NEW e \in Entries, Settle(r, e) PROVE TypeOK'
  <2>1. ASSUME NEW t \in EventTypes, NEW p \in Places, AppendEvent(r, Event(t, e), p)
        PROVE TypeOK'
    BY <2>1 DEF AppendEvent, Event, TypeOK
  <2>2. CASE Succeed(r, e) \/ Park(r, e) \/ Abandon(r, e)
    BY <2>1, <2>2 DEF Succeed, Park, Abandon
  <2>3. CASE CheckCompletion(r, e)
    BY <2>3 DEF CheckCompletion, LockSiblings, Siblings, TypeOK
  <2>4. CASE Complete(r, e)
    BY <2>4 DEF Complete, TypeOK
  <2>5. ASSUME Booked(r, e)
        PROVE /\ held' \in [Runners -> SUBSET Entries]
              /\ pc' \in [Runners -> Places]
              /\ claim' \in [Runners -> [Entries -> Claim]]
    BY <2>5 DEF Booked, NoClaim, TypeOK
  <2>6. CASE Commit(r, e)
    BY <2>5, <2>6 DEF Commit, CommitSucceeded, Event, TypeOK
  <2>7. CASE Parked(r, e)
    BY <2>5, <2>7 DEF Parked, MarkScheduled, Mark, TypeOK
  <2>8. CASE GiveUp(r, e)
    BY <2>5, <2>8 DEF GiveUp, MarkAbandoned, Mark, TypeOK
  <2>9. CASE Retry(r, e)
    BY <2>5, <2>9 DEF Retry, MarkFailed, Mark, TypeOK
  <2> QED
    BY <1>4, <2>2, <2>3, <2>4, <2>6, <2>7, <2>8, <2>9 DEF Settle
<1>5. ASSUME NEW r \in Runners, Interrupt(r) PROVE TypeOK'
  BY <1>5 DEF Interrupt, Rollback, NoClaim, TypeOK
<1>6. CASE OperatorStep
  <2>1. ASSUME NEW ids \in RequeueRequests, Requeue(ids) PROVE TypeOK'
    BY <2>1 DEF Requeue, LockForRequeue, sagaVars, TypeOK
  <2>2. ASSUME NEW e \in Entries, Announce(e) PROVE TypeOK'
    BY <2>2 DEF Announce, Event, TypeOK
  <2>3. CASE Reopen
    BY <2>3 DEF Reopen, CommitRequeue, TypeOK
  <2>4. CASE InterruptRequeue
    BY <2>4 DEF InterruptRequeue, Rollback, TypeOK
  <2> QED
    BY <1>6, <2>1, <2>2, <2>3, <2>4 DEF OperatorStep
<1>7. ASSUME NEW e \in Entries, GateOpens(e) PROVE TypeOK'
  BY <1>7 DEF GateOpens, OpenGate, TypeOK
<1>8. ASSUME NEW e \in Entries, Expire(e) PROVE TypeOK'
  BY <1>8 DEF Expire, TypeOK
<1>9. CASE UNCHANGED vars
  BY <1>9 DEF vars, TypeOK
<1> QED
  BY <1>1, <1>2, <1>3, <1>4, <1>5, <1>6, <1>7, <1>8, <1>9 DEF Next, RunOnce

LEMMA TypeInit == Init => TypeOK
BY OutboxAssumption, SagaAssumption
   DEF Init, OutboxInit, TypeOK, OutboxTypeOK, NoRow, NoClaim

\* The state is well typed in every reachable state.
THEOREM TypeCorrect == Spec => []TypeOK
BY TypeInit, TypeStep, PTL DEF Spec

-----------------------------------------------------------------------------
(* How one step can change one row, and where the runners stand.           *)

\* The six ways a row's status and payload can come out of a step.
LEMMA RowStep ==
    ASSUME TypeOK, [Next]_vars, NEW e \in Entries
    PROVE  \/ row'[e].status = row[e].status /\ row'[e].payload = row[e].payload
           \/ row[e].status = "absent" /\ row'[e].status = "pending"
           \/ /\ row[e].status \in Claimable
              /\ row'[e].status = "in_flight"
              /\ row'[e].payload = row[e].payload
              /\ \A s \in Sessions : e \notin locked[s]
           \/ \E r \in Runners : Commit(r, e)
           \/ \E r \in Runners : Parked(r, e) \/ GiveUp(r, e) \/ Retry(r, e)
           \/ e \in Abandoned(locked[Operator]) /\ Reopen
<1> USE DEF TypeOK, OutboxTypeOK
<1>1. ASSUME NEW T \in Transactions, EnqueueTransaction(T)
      PROVE  \/ row'[e] = row[e]
             \/ row[e].status = "absent" /\ row'[e].status = "pending"
  BY <1>1, TransactionAssumption DEF EnqueueTransaction, Enqueue, Stored
<1>2. ASSUME NEW r \in Runners, TakeBatch(r)
      PROVE  \/ row'[e] = row[e]
             \/ /\ row[e].status \in Claimable
                /\ row'[e].status = "in_flight"
                /\ row'[e].payload = row[e].payload
                /\ \A s \in Sessions : e \notin locked[s]
  BY <1>2 DEF TakeBatch, ClaimBatch, Oldest, Due
<1>3. ASSUME NEW r \in Runners, NEW f \in Entries, NEW a \in Answers, Answer(r, f, a)
      PROVE  row'[e] = row[e]
  BY <1>3 DEF Answer
<1>4. ASSUME NEW r \in Runners, NEW f \in Entries, Settle(r, f)
      PROVE  \/ row'[e] = row[e]
             \/ f = e /\ (Commit(r, f) \/ Parked(r, f) \/ GiveUp(r, f) \/ Retry(r, f))
  <2>1. CASE Succeed(r, f) \/ Park(r, f) \/ Abandon(r, f)
    BY <2>1 DEF Succeed, Park, Abandon, AppendEvent
  <2>2. CASE CheckCompletion(r, f) \/ Complete(r, f)
    BY <2>2 DEF CheckCompletion, LockSiblings, Complete
  <2>3. CASE Commit(r, f)
    BY <2>3 DEF Commit, CommitSucceeded
  <2>4. CASE Parked(r, f)
    BY <2>4 DEF Parked, MarkScheduled, Mark
  <2>5. CASE GiveUp(r, f)
    BY <2>5 DEF GiveUp, MarkAbandoned, Mark
  <2>6. CASE Retry(r, f)
    BY <2>6 DEF Retry, MarkFailed, Mark
  <2> QED
    BY <1>4, <2>1, <2>2, <2>3, <2>4, <2>5, <2>6 DEF Settle
<1>5. ASSUME NEW r \in Runners, Interrupt(r) PROVE row'[e] = row[e]
  BY <1>5 DEF Interrupt, Rollback
<1>6. CASE OperatorStep
  <2>1. ASSUME NEW ids \in RequeueRequests, Requeue(ids) PROVE row'[e] = row[e]
    BY <2>1 DEF Requeue, LockForRequeue
  <2>2. ASSUME NEW f \in Entries, Announce(f) PROVE row'[e] = row[e]
    BY <2>2 DEF Announce
  <2>3. CASE Reopen
    BY <2>3 DEF Reopen, CommitRequeue
  <2>4. CASE InterruptRequeue
    BY <2>4 DEF InterruptRequeue, Rollback
  <2> QED
    BY <1>6, <2>1, <2>2, <2>3, <2>4 DEF OperatorStep
<1>7. ASSUME NEW f \in Entries, GateOpens(f)
      PROVE  row'[e].status = row[e].status /\ row'[e].payload = row[e].payload
  BY <1>7 DEF GateOpens, OpenGate
<1>8. ASSUME NEW f \in Entries, Expire(f) PROVE row'[e] = row[e]
  BY <1>8 DEF Expire
<1>9. CASE UNCHANGED vars
  BY <1>9 DEF vars
<1> HIDE DEF TypeOK, OutboxTypeOK
<1> QED
  BY <1>1, <1>2, <1>3, <1>4, <1>5, <1>6, <1>7, <1>8, <1>9 DEF Next, RunOnce

\* What the four settling transactions write.
LEMMA SettledRow ==
    ASSUME TypeOK, NEW r \in Runners, NEW e \in Entries
    PROVE  /\ Commit(r, e) => /\ row'[e].status = "succeeded"
                              /\ ~row'[e].payload
           /\ GiveUp(r, e) => /\ row'[e].status = "abandoned"
                              /\ ~row'[e].payload
                              /\ Unlocked(r, {e})
           /\ Parked(r, e) => /\ row'[e].status = "scheduled"
                              /\ row'[e].payload = row[e].payload
                              /\ Unlocked(r, {e})
           /\ Retry(r, e)  => /\ row'[e].status = "failed"
                              /\ row'[e].payload = row[e].payload
                              /\ Unlocked(r, {e})
BY DEF TypeOK, OutboxTypeOK, Commit, CommitSucceeded, GiveUp, MarkAbandoned, Parked,
       MarkScheduled, Retry, MarkFailed, Mark

LEMMA ReopenedRow ==
    ASSUME TypeOK, NEW e \in Entries, Reopen, e \in Abandoned(locked[Operator])
    PROVE  /\ row[e].status = "abandoned"
           /\ row'[e].status = "pending"
           /\ row'[e].payload = row[e].payload
BY DEF TypeOK, OutboxTypeOK, Reopen, CommitRequeue, Abandoned

\* Terminal rows keep no corrections in any reachable state, however late a
\* mark arrives.
THEOREM NoCorrectionsLeft == Spec => []TerminalRowsKeepNoCorrections
<1>1. Init => TerminalRowsKeepNoCorrections
  BY DEF Init, OutboxInit, NoRow, TerminalRowsKeepNoCorrections, Terminal
<1>2. ASSUME TypeOK, TerminalRowsKeepNoCorrections, [Next]_vars
      PROVE  TerminalRowsKeepNoCorrections'
  <2> SUFFICES ASSUME NEW e \in Entries, row'[e].status \in Terminal
               PROVE  ~row'[e].payload
    BY DEF TerminalRowsKeepNoCorrections
  <2>1. row[e].status \in Terminal => ~row[e].payload
    BY <1>2 DEF TerminalRowsKeepNoCorrections
  <2> QED
    BY <1>2, <2>1, RowStep, SettledRow, ReopenedRow DEF Terminal
<1> QED
  BY <1>1, <1>2, TypeCorrect, PTL DEF Spec

-----------------------------------------------------------------------------
(* Where a runner stands in the settlement of the entry it is settling.    *)

\* The runner r stands at one of the places, in the settlement of e.
At(r, e, places) == pc[r] \in places /\ Settling(r, e)

AfterSuccess == {"succeeding", "completing", "committing"}
AppendPlaces == AfterSuccess \cup {"parking", "abandoning"}
Finishing(r, e) == At(r, e, {"completing", "committing"})

\* Only one entry is being settled by a runner.
LEMMA OneAtATime ==
    ASSUME TypeOK, NEW r \in Runners, NEW e \in Entries, NEW f \in Entries,
           Settling(r, e), Settling(r, f)
    PROVE  e = f
BY OutboxAssumption DEF Settling

\* A runner comes to a place of the settlement of e only by its own step there.
LEMMA PlaceStep ==
    ASSUME TypeOK, [Next]_vars, NEW r \in Runners, NEW e \in Entries,
           At(r, e, AppendPlaces)'
    PROVE  \/ /\ pc'[r] = pc[r] /\ Settling(r, e)
              /\ locked'[r] = locked[r] /\ claim'[r] = claim[r]
           \/ Succeed(r, e) \/ Park(r, e) \/ Abandon(r, e)
           \/ CheckCompletion(r, e) \/ Complete(r, e)
<1> USE SagaAssumption DEF TypeOK, OutboxTypeOK, At, AppendPlaces, AfterSuccess
<1> DEFINE Same == /\ pc'[r] = pc[r] /\ Settling(r, e)
                   /\ locked'[r] = locked[r] /\ claim'[r] = claim[r]
<1>1. ASSUME NEW T \in Transactions, EnqueueTransaction(T) PROVE Same
  BY <1>1 DEF EnqueueTransaction, Enqueue, sagaVars, Settling
<1>2. ASSUME NEW q \in Runners, TakeBatch(q) PROVE Same
  BY <1>2 DEF TakeBatch, ClaimBatch, Settling
<1>3. ASSUME NEW q \in Runners, NEW f \in Entries, NEW a \in Answers, Answer(q, f, a)
      PROVE  Same
  BY <1>3 DEF Answer, Settling
<1>4. ASSUME NEW q \in Runners, NEW f \in Entries, Settle(q, f), q # r
      PROVE  Same
  <2>1. CASE Succeed(q, f) \/ Park(q, f) \/ Abandon(q, f)
    BY <1>4, <2>1 DEF Succeed, Park, Abandon, AppendEvent, Settling
  <2>2. CASE CheckCompletion(q, f) \/ Complete(q, f)
    BY <1>4, <2>2 DEF CheckCompletion, LockSiblings, Complete, Settling
  <2>3. CASE Commit(q, f)
    BY <1>4, <2>3 DEF Commit, CommitSucceeded, Booked, Settling
  <2>4. CASE Parked(q, f) \/ GiveUp(q, f) \/ Retry(q, f)
    BY <1>4, <2>4 DEF Parked, MarkScheduled, GiveUp, MarkAbandoned, Retry, MarkFailed,
                      Mark, Booked, Settling
  <2> QED
    BY <1>4, <2>1, <2>2, <2>3, <2>4 DEF Settle
<1>5. ASSUME NEW f \in Entries, Settle(r, f)
      PROVE  \/ Succeed(r, e) \/ Park(r, e) \/ Abandon(r, e)
             \/ CheckCompletion(r, e) \/ Complete(r, e)
  <2>1. CASE Booked(r, f)
    BY <2>1 DEF Booked
  <2>2. CASE UNCHANGED <<held, claim>>
    <3>1. Settling(r, e)
      BY <2>2 DEF Settling
    <3>2. Settling(r, f)
      BY <1>5 DEF Settle, Succeed, CheckCompletion, Complete, Commit, Park, Parked,
                  Abandon, GiveUp, Retry
    <3>3. e = f
      BY <3>1, <3>2, OneAtATime
    <3> QED
      BY <1>5, <2>1, <3>3 DEF Settle, Commit, Parked, GiveUp, Retry
  <2> QED
    BY <1>5, <2>1, <2>2 DEF Settle, Succeed, Park, Abandon, AppendEvent,
       CheckCompletion, Complete, Commit, Parked, GiveUp, Retry
<1>6. ASSUME NEW q \in Runners, Interrupt(q) PROVE Same
  BY <1>6 DEF Interrupt, Rollback, Settling
<1>7. CASE OperatorStep
  <2>1. UNCHANGED <<pc, held, claim>>
    BY <1>7 DEF OperatorStep, Requeue, sagaVars, Announce, Reopen, InterruptRequeue
  <2>2. locked'[r] = locked[r]
    BY <1>7 DEF OperatorStep, Requeue, LockForRequeue, Announce, Reopen, CommitRequeue,
       InterruptRequeue, Rollback
  <2> QED
    BY <2>1, <2>2 DEF Settling
<1>8. ASSUME NEW f \in Entries, GateOpens(f) \/ Expire(f) PROVE Same
  BY <1>8 DEF GateOpens, OpenGate, Expire, Settling
<1>9. CASE UNCHANGED vars
  BY <1>9 DEF vars, Settling
<1> HIDE DEF TypeOK, At, Same
<1>10. Same => /\ pc'[r] = pc[r] /\ Settling(r, e)
               /\ locked'[r] = locked[r] /\ claim'[r] = claim[r]
  BY DEF Same
<1> QED
  BY <1>1, <1>2, <1>3, <1>4, <1>5, <1>6, <1>7, <1>8, <1>9, <1>10 DEF Next, RunOnce

\* No event ever leaves the trail.
LEMMA TrailGrows ==
    ASSUME [Next]_vars
    PROVE  trail \subseteq trail'
BY DEF Next, vars, EnqueueTransaction, sagaVars, RunOnce, TakeBatch, Answer, Settle, Succeed,
   Park, Abandon, AppendEvent, CheckCompletion, Complete, Commit, Parked, GiveUp, Retry,
   Interrupt, OperatorStep, Requeue, Announce, Reopen, InterruptRequeue, GateOpens, Expire

\* The append-first rule, in terms of where the runners stand: whoever is past
\* an append has its event in the trail.
AppendFirst ==
    \A r \in Runners, e \in Entries :
        /\ At(r, e, AfterSuccess)   => Event("step_succeeded", e) \in trail
        /\ At(r, e, {"parking"})    => Event("expiry_scheduled", e) \in trail
        /\ At(r, e, {"abandoning"}) => Event("step_failed", e) \in trail

\* Every recorded outcome has its audit event, whatever crashed or raised.
THEOREM OutcomesAudited == Spec => []EveryOutcomeIsAudited
<1>1. Init => AppendFirst /\ EveryOutcomeIsAudited
  BY DEF Init, OutboxInit, NoRow, AppendFirst, EveryOutcomeIsAudited, At, AfterSuccess
<1>2. ASSUME TypeOK, AppendFirst, [Next]_vars PROVE AppendFirst'
  <2> SUFFICES ASSUME NEW r \in Runners, NEW e \in Entries
               PROVE  /\ At(r, e, AfterSuccess)'   => Event("step_succeeded", e) \in trail'
                      /\ At(r, e, {"parking"})'    => Event("expiry_scheduled", e) \in trail'
                      /\ At(r, e, {"abandoning"})' => Event("step_failed", e) \in trail'
    BY DEF AppendFirst, Event
  <2>1. CASE pc'[r] = pc[r] /\ Settling(r, e)
    BY <1>2, <2>1, TrailGrows DEF AppendFirst, At
  <2>2. CASE Succeed(r, e) \/ Park(r, e) \/ Abandon(r, e)
    BY <1>2, <2>2 DEF Succeed, Park, Abandon, AppendEvent, At, AfterSuccess, TypeOK
  <2>3. CASE CheckCompletion(r, e) \/ Complete(r, e)
    BY <1>2, <2>3 DEF CheckCompletion, Complete, AppendFirst, At, AfterSuccess, TypeOK
  <2> QED
    BY <1>2, <2>1, <2>2, <2>3, PlaceStep DEF At, AppendPlaces, AfterSuccess
<1>3. ASSUME TypeOK, AppendFirst, EveryOutcomeIsAudited, [Next]_vars
      PROVE  EveryOutcomeIsAudited'
  <2> SUFFICES ASSUME NEW e \in Entries
      PROVE  /\ row'[e].status = "succeeded" => Event("step_succeeded", e) \in trail
             /\ row'[e].status = "abandoned" => Event("step_failed", e) \in trail
             /\ row'[e].status = "scheduled" => Event("expiry_scheduled", e) \in trail
    BY <1>3, TrailGrows DEF EveryOutcomeIsAudited, Event
  <2>1. ASSUME NEW r \in Runners
        PROVE  /\ Commit(r, e) => Event("step_succeeded", e) \in trail
               /\ GiveUp(r, e) => Event("step_failed", e) \in trail
               /\ Parked(r, e) => Event("expiry_scheduled", e) \in trail
    BY <1>3 DEF AppendFirst, At, AfterSuccess, Commit, GiveUp, Parked
  <2>2. CASE row'[e].status = row[e].status
    BY <1>3, <2>2 DEF EveryOutcomeIsAudited
  <2> QED
    BY <1>3, <2>1, <2>2, RowStep, SettledRow, ReopenedRow
<1> QED
  BY <1>1, <1>2, <1>3, TypeCorrect, PTL DEF Spec

-----------------------------------------------------------------------------
(* The row locks.  mark_succeeded decides about completion with all the     *)
(* siblings locked; no two runners can be inside it for the same scope.     *)

LocksExclude ==
    \A s, t \in Sessions : s # t => locked[s] \cap locked[t] = {}

\* A runner holds locks only inside mark_succeeded, and then on siblings.
LocksFit ==
    \A r \in Runners :
        /\ pc[r] \notin {"completing", "committing"} => locked[r] = {}
        /\ \A e \in Entries :
              Finishing(r, e) => e \in locked[r] /\ locked[r] \subseteq Siblings(e)

OneFinisherPerScope ==
    \A r, q \in Runners : \A e, f \in Entries :
        r # q /\ Finishing(r, e) /\ Finishing(q, f) => ~SameScope(e, f)

HeldIsStored == \A r \in Runners : \A e \in held[r] : Stored(e)

LockInv == LocksExclude /\ LocksFit /\ OneFinisherPerScope /\ HeldIsStored

\* No row is ever deleted.
LEMMA StoredStays ==
    ASSUME TypeOK, [Next]_vars, NEW e \in Entries, Stored(e)
    PROVE  Stored(e)'
BY RowStep, SettledRow, ReopenedRow DEF Stored

LEMMA LocksExcludeStep == TypeOK /\ LocksExclude /\ [Next]_vars => LocksExclude'
<1> SUFFICES ASSUME TypeOK, LocksExclude, [Next]_vars PROVE LocksExclude'
  OBVIOUS
<1> USE SagaAssumption DEF LocksExclude, TypeOK, OutboxTypeOK
<1>1. ASSUME NEW s \in Sessions, NEW rows \in SUBSET Entries, Unlocked(s, rows),
             locked' = [locked EXCEPT ![s] = rows]
      PROVE  LocksExclude'
  BY <1>1 DEF Unlocked
<1>2. ASSUME NEW s \in Sessions, locked' = [locked EXCEPT ![s] = {}]
      PROVE  LocksExclude'
  BY <1>2
<1>3. CASE UNCHANGED locked
  BY <1>3
<1> HIDE DEF TypeOK, OutboxTypeOK
<1>4. ASSUME NEW r \in Runners, NEW e \in Entries, Settle(r, e) PROVE LocksExclude'
  <2>1. CASE CheckCompletion(r, e)
    <3>1. Siblings(e) \subseteq Entries
      BY DEF Siblings
    <3>2. /\ Unlocked(r, Siblings(e))
          /\ locked' = [locked EXCEPT ![r] = Siblings(e)]
      BY <2>1 DEF CheckCompletion, LockSiblings
    <3> HIDE DEF LocksExclude
    <3> QED
      BY <1>1, <3>1, <3>2
  <2>2. CASE Commit(r, e)
    BY <1>2, <2>2 DEF Commit, CommitSucceeded
  <2>3. CASE /\ ~CheckCompletion(r, e)
             /\ ~Commit(r, e)
    BY <1>3, <1>4, <2>3 DEF Settle, Succeed, Park, Abandon, AppendEvent, Complete,
       Parked, MarkScheduled, GiveUp, MarkAbandoned, Retry, MarkFailed, Mark
  <2> QED
    BY <2>1, <2>2, <2>3
<1>5. CASE OperatorStep
  <2>1. ASSUME NEW ids \in RequeueRequests, Requeue(ids) PROVE LocksExclude'
    <3> DEFINE rows == {e \in ids : Stored(e)}
    <3>1. rows \in SUBSET Entries
      OBVIOUS
    <3>2. Unlocked(Operator, rows) /\ locked' = [locked EXCEPT ![Operator] = rows]
      BY <2>1 DEF Requeue, LockForRequeue
    <3> HIDE DEF rows, LocksExclude
    <3> QED
      BY <1>1, <3>1, <3>2
  <2>2. CASE Reopen \/ InterruptRequeue
    BY <1>2, <2>2 DEF Reopen, CommitRequeue, InterruptRequeue, Rollback
  <2>3. ASSUME NEW e \in Entries, Announce(e) PROVE LocksExclude'
    BY <1>3, <2>3 DEF Announce
  <2> QED
    BY <1>5, <2>1, <2>2, <2>3 DEF OperatorStep
<1>6. ASSUME NEW r \in Runners, Interrupt(r) PROVE LocksExclude'
  BY <1>2, <1>6 DEF Interrupt, Rollback
<1>7. CASE /\ ~OperatorStep
           /\ \A r \in Runners : ~Interrupt(r)
           /\ \A r \in Runners, e \in Entries : ~Settle(r, e)
  <2>1. UNCHANGED locked
    BY <1>7 DEF Next, vars, EnqueueTransaction, Enqueue, RunOnce, TakeBatch, ClaimBatch,
       Answer, GateOpens, OpenGate, Expire
  <2> QED
    BY <1>3, <2>1
<1> QED
  BY <1>4, <1>5, <1>6, <1>7

\* Who is not finishing after a step either was not, or has just let go.
LEMMA LetGo ==
    ASSUME TypeOK, LocksFit, [Next]_vars, NEW r \in Runners,
           pc'[r] \notin {"completing", "committing"}
    PROVE  locked'[r] = {}
<1> USE SagaAssumption DEF TypeOK, OutboxTypeOK, LocksFit
<1>1. ASSUME NEW T \in Transactions, EnqueueTransaction(T) PROVE locked'[r] = {}
  BY <1>1 DEF EnqueueTransaction, Enqueue, sagaVars
<1>2. ASSUME NEW q \in Runners, TakeBatch(q) PROVE locked'[r] = {}
  BY <1>2 DEF TakeBatch, ClaimBatch
<1>3. ASSUME NEW q \in Runners, NEW f \in Entries, NEW a \in Answers, Answer(q, f, a)
      PROVE  locked'[r] = {}
  BY <1>3 DEF Answer
<1>4. ASSUME NEW q \in Runners, NEW f \in Entries, Settle(q, f) PROVE locked'[r] = {}
  <2>1. CASE Succeed(q, f) \/ Park(q, f) \/ Abandon(q, f)
    BY <2>1 DEF Succeed, Park, Abandon, AppendEvent
  <2>2. CASE CheckCompletion(q, f) \/ Complete(q, f)
    BY <2>2 DEF CheckCompletion, LockSiblings, Complete
  <2>3. CASE Commit(q, f)
    BY <2>3 DEF Commit, CommitSucceeded, Booked
  <2>4. CASE Parked(q, f) \/ GiveUp(q, f) \/ Retry(q, f)
    BY <2>4 DEF Parked, MarkScheduled, GiveUp, MarkAbandoned, Retry, MarkFailed, Mark, Booked
  <2> QED
    BY <1>4, <2>1, <2>2, <2>3, <2>4 DEF Settle
<1>5. ASSUME NEW q \in Runners, Interrupt(q) PROVE locked'[r] = {}
  BY <1>5 DEF Interrupt, Rollback
<1>6. CASE OperatorStep
  <2>1. pc' = pc
    BY <1>6 DEF OperatorStep, Requeue, sagaVars, Announce, Reopen, InterruptRequeue
  <2>2. locked'[r] = locked[r]
    BY <1>6 DEF OperatorStep, Requeue, LockForRequeue, Announce, Reopen, CommitRequeue,
       InterruptRequeue, Rollback
  <2> QED
    BY <2>1, <2>2
<1>7. ASSUME NEW f \in Entries, GateOpens(f) \/ Expire(f) PROVE locked'[r] = {}
  BY <1>7 DEF GateOpens, OpenGate, Expire
<1>8. CASE UNCHANGED vars
  BY <1>8 DEF vars
<1> HIDE DEF TypeOK
<1> QED
  BY <1>1, <1>2, <1>3, <1>4, <1>5, <1>6, <1>7, <1>8 DEF Next, RunOnce

\* Entering mark_succeeded is the only way to become a finisher.
LEMMA FinishingStep ==
    ASSUME TypeOK, [Next]_vars, NEW r \in Runners, NEW e \in Entries, Finishing(r, e)'
    PROVE  \/ Finishing(r, e) /\ locked'[r] = locked[r]
           \/ CheckCompletion(r, e) /\ UNCHANGED <<row, held, claim>>
<1>1. At(r, e, AppendPlaces)'
  BY DEF Finishing, At, AppendPlaces, AfterSuccess
<1>2. pc'[r] \in {"completing", "committing"}
  BY DEF Finishing, At
<1>3. CASE pc'[r] = pc[r] /\ Settling(r, e) /\ locked'[r] = locked[r]
  BY <1>2, <1>3 DEF Finishing, At
<1>4. CASE Succeed(r, e) \/ Park(r, e) \/ Abandon(r, e)
  BY <1>2, <1>4 DEF Succeed, Park, Abandon, AppendEvent, TypeOK
<1>5. CASE CheckCompletion(r, e)
  BY <1>5 DEF CheckCompletion, LockSiblings
<1>6. CASE Complete(r, e)
  BY <1>6 DEF Complete, Finishing, At
<1> QED
  BY <1>1, <1>3, <1>4, <1>5, <1>6, PlaceStep

LEMMA HeldIsStoredStep == TypeOK /\ HeldIsStored /\ [Next]_vars => HeldIsStored'
<1> SUFFICES ASSUME TypeOK, HeldIsStored, [Next]_vars,
                    NEW r \in Runners, NEW e \in Entries, e \in held'[r]
             PROVE  Stored(e)'
  BY TypeStep DEF HeldIsStored, TypeOK
<1>1. CASE e \in held[r]
  BY <1>1, StoredStays DEF HeldIsStored
<1>2. CASE \E q \in Runners : TakeBatch(q) /\ e \in Oldest(Due, BatchSize)
  BY <1>2 DEF TakeBatch, ClaimBatch, TypeOK, OutboxTypeOK, Stored
<1>3. ASSUME NEW q \in Runners, NEW f \in Entries, Booked(q, f) PROVE e \in held[r]
  BY <1>3 DEF Booked, TypeOK
<1>4. ASSUME NEW q \in Runners, NEW f \in Entries, Settle(q, f) PROVE e \in held[r]
  BY <1>3, <1>4 DEF Settle, Succeed, Park, Abandon, AppendEvent, CheckCompletion,
     Complete, Commit, Parked, GiveUp, Retry
<1>5. ASSUME NEW q \in Runners, TakeBatch(q)
      PROVE  e \in held[r] \/ e \in Oldest(Due, BatchSize)
  BY <1>5 DEF TakeBatch, TypeOK
<1>6. ASSUME NEW q \in Runners, Interrupt(q) PROVE e \in held[r]
  BY <1>6 DEF Interrupt, TypeOK
<1>7. CASE OperatorStep
  BY <1>1, <1>7 DEF OperatorStep, Requeue, sagaVars, Announce, Reopen, InterruptRequeue
<1>8. ASSUME NEW q \in Runners, NEW f \in Entries, NEW a \in Answers, Answer(q, f, a)
      PROVE  e \in held[r]
  BY <1>8 DEF Answer
<1>9. CASE UNCHANGED held
  BY <1>1, <1>9
<1>10. \/ \E q \in Runners : TakeBatch(q) \/ Interrupt(q)
       \/ \E q \in Runners, f \in Entries : Settle(q, f) \/ \E a \in Answers : Answer(q, f, a)
       \/ OperatorStep
       \/ UNCHANGED held
  BY DEF Next, vars, EnqueueTransaction, sagaVars, RunOnce, GateOpens, Expire
<1> QED
  BY <1>1, <1>2, <1>4, <1>5, <1>6, <1>7, <1>8, <1>9, <1>10

LEMMA LockInvStep == TypeOK /\ LockInv /\ [Next]_vars => LockInv'
<1> SUFFICES ASSUME TypeOK, LockInv, [Next]_vars PROVE LockInv'
  OBVIOUS
<1>1. LocksExclude'
  BY LocksExcludeStep DEF LockInv
<1>2. HeldIsStored'
  BY HeldIsStoredStep DEF LockInv
<1>3. LocksFit'
  <2>1. ASSUME NEW r \in Runners, NEW e \in Entries, Finishing(r, e)'
        PROVE  e \in locked'[r] /\ locked'[r] \subseteq Siblings(e)'
    <3>1. CASE Finishing(r, e) /\ locked'[r] = locked[r]
      BY <3>1, StoredStays DEF LockInv, LocksFit, Siblings
    <3>2. CASE CheckCompletion(r, e) /\ UNCHANGED <<row, held, claim>>
      <4>1. locked'[r] = Siblings(e) /\ e \in held[r]
        BY <3>2, SagaAssumption DEF CheckCompletion, LockSiblings, Settling, TypeOK, OutboxTypeOK
      <4>2. e \in Siblings(e)
        BY <4>1 DEF LockInv, HeldIsStored, Siblings, SameScope
      <4>3. Siblings(e)' = Siblings(e)
        BY <3>2 DEF Siblings, Stored
      <4> QED
        BY <4>1, <4>2, <4>3
    <3> QED
      BY <2>1, <3>1, <3>2, FinishingStep
  <2>2. ASSUME NEW r \in Runners, pc'[r] \notin {"completing", "committing"}
        PROVE  locked'[r] = {}
    BY <2>2, LetGo DEF LockInv
  <2> QED
    BY <2>1, <2>2 DEF LocksFit
<1>4. OneFinisherPerScope'
  <2>1. SUFFICES ASSUME NEW r \in Runners, NEW q \in Runners,
                        NEW e \in Entries, NEW f \in Entries,
                        r # q, Finishing(r, e)', Finishing(q, f)'
                 PROVE  ~SameScope(e, f)
    BY DEF OneFinisherPerScope, SameScope
  <2>2. ASSUME NEW x \in Runners, NEW y \in Runners, x # y,
               NEW g \in Entries, NEW h \in Entries,
               CheckCompletion(x, g), Finishing(y, h)
        PROVE  ~SameScope(g, h)
    <3>1. h \in locked[y] /\ Stored(h)
      BY <2>2 DEF LockInv, LocksFit, Siblings
    <3>2. Unlocked(x, Siblings(g))
      BY <2>2 DEF CheckCompletion, LockSiblings
    <3> QED
      BY <2>2, <3>1, <3>2, SagaAssumption DEF Unlocked, Siblings
  <2>3. ~(CheckCompletion(r, e) /\ CheckCompletion(q, f))
    BY <2>1, SagaAssumption DEF CheckCompletion, TypeOK
  <2> QED
    BY <2>1, <2>2, <2>3, FinishingStep DEF LockInv, OneFinisherPerScope, SameScope
<1> QED
  BY <1>1, <1>2, <1>3, <1>4 DEF LockInv

LEMMA LockInvInit == Init => LockInv
BY SagaAssumption
   DEF Init, OutboxInit, LockInv, LocksExclude, LocksFit, OneFinisherPerScope,
       HeldIsStored, Finishing, At

\* A row that a runner has locked keeps its status until that runner commits.
LEMMA LockedRowIsStable ==
    ASSUME TypeOK, LockInv, [Next]_vars, NEW r \in Runners, NEW e \in Entries,
           NEW f \in Entries, Finishing(r, e)', f \in locked'[r]
    PROVE  row'[f].status = row[f].status
<1>1. CASE CheckCompletion(r, e) /\ UNCHANGED <<row, held, claim>>
  BY <1>1
<1>2. CASE Finishing(r, e) /\ locked'[r] = locked[r]
  <2>1. f \in locked[r] /\ Stored(f)
    BY <1>2 DEF LockInv, LocksFit, Siblings
  <2>2. ASSUME NEW q \in Runners, Commit(q, f) PROVE FALSE
    <3>1. Finishing(q, f)
      BY <2>2 DEF Commit, Finishing, At
    <3>2. q # r
      BY <1>2, <2>2, SagaAssumption DEF Commit, Booked, TypeOK, Finishing, At
    <3>3. f \in locked[q]
      BY <3>1 DEF LockInv, LocksFit
    <3> QED
      BY <2>1, <3>2, <3>3, SagaAssumption DEF LockInv, LocksExclude
  <2>3. ASSUME NEW q \in Runners, Parked(q, f) \/ GiveUp(q, f) \/ Retry(q, f) PROVE FALSE
    <3>1. Unlocked(q, {f})
      BY <2>3, SettledRow
    <3>2. pc[q] # pc[r]
      BY <1>2, <2>3 DEF Parked, GiveUp, Retry, Finishing, At
    <3> QED
      BY <2>1, <3>1, <3>2, SagaAssumption DEF Unlocked
  <2>4. ~(f \in Abandoned(locked[Operator]))
    BY <2>1, SagaAssumption DEF LockInv, LocksExclude, Abandoned
  <2>5. \E s \in Sessions : f \in locked[s]
    BY <2>1, SagaAssumption
  <2> QED
    BY <2>1, <2>2, <2>3, <2>4, <2>5, RowStep DEF Stored
<1> QED
  BY <1>1, <1>2, FinishingStep

-----------------------------------------------------------------------------
(* Honest completion events.  The argument is the same for erasures, where  *)
(* it needs nothing, and for all entries, where it needs leases that hold:  *)
(* it is made for any set S of entries whose successful calls take effect.  *)

\* Past the append of its success a runner still has the answer it is about,
\* and once completion is decided all the locked siblings have succeeded.
AnswersKept ==
    \A r \in Runners, e \in Entries :
        At(r, e, AfterSuccess) => claim[r][e].answer = "done"

Decided ==
    \A r \in Runners, e \in Entries :
        At(r, e, {"completing"}) =>
            \A f \in locked[r] \ {e} : row[f].status = "succeeded"

HonestAbout(S) ==
    \A e \in S :
        /\ \A r \in Runners : claim[r][e].answer = "done" => effect[e]
        /\ row[e].status = "succeeded" => effect[e]
        /\ completions[e] > 0 => effect[e]

LEMMA AnswersKeptStep == TypeOK /\ AnswersKept /\ [Next]_vars => AnswersKept'
<1> SUFFICES ASSUME TypeOK, AnswersKept, [Next]_vars,
                    NEW r \in Runners, NEW e \in Entries, At(r, e, AfterSuccess)'
             PROVE  claim'[r][e].answer = "done"
  BY DEF AnswersKept
<1>1. CASE pc'[r] = pc[r] /\ Settling(r, e) /\ claim'[r] = claim[r]
  BY <1>1 DEF AnswersKept, At
<1>2. CASE Succeed(r, e)
  BY <1>2 DEF Succeed, AppendEvent
<1>3. CASE Park(r, e) \/ Abandon(r, e)
  BY <1>3 DEF Park, Abandon, AppendEvent, At, AfterSuccess, TypeOK
<1>4. CASE CheckCompletion(r, e) \/ Complete(r, e)
  BY <1>4 DEF CheckCompletion, Complete, AnswersKept, At, AfterSuccess
<1>5. At(r, e, AppendPlaces)'
  BY DEF At, AppendPlaces
<1> QED
  BY <1>1, <1>2, <1>3, <1>4, <1>5, PlaceStep

LEMMA DecidedStep == TypeOK /\ LockInv /\ Decided /\ [Next]_vars => Decided'
<1> SUFFICES ASSUME TypeOK, LockInv, Decided, [Next]_vars,
                    NEW r \in Runners, NEW e \in Entries, At(r, e, {"completing"})',
                    NEW f \in locked'[r] \ {e}
             PROVE  row'[f].status = "succeeded"
  BY DEF Decided
<1>1. Finishing(r, e)'
  BY DEF At, Finishing
<1>2. f \in Entries
  BY TypeStep, SagaAssumption DEF TypeOK, OutboxTypeOK
<1>3. row'[f].status = row[f].status
  BY <1>1, <1>2, LockedRowIsStable
<1>4. CASE pc'[r] = pc[r] /\ Settling(r, e) /\ locked'[r] = locked[r]
  BY <1>3, <1>4 DEF Decided, At
<1>5. CASE CheckCompletion(r, e)
  <2>1. locked'[r] = Siblings(e) /\ LastOfItsOperation(e)
    BY <1>5, SagaAssumption DEF CheckCompletion, LockSiblings, At, TypeOK, OutboxTypeOK
  <2> QED
    BY <1>3, <2>1 DEF LastOfItsOperation
<1>6. ~(Complete(r, e) \/ Succeed(r, e) \/ Park(r, e) \/ Abandon(r, e))
  BY DEF Complete, Succeed, Park, Abandon, AppendEvent, At, TypeOK
<1> QED
  BY <1>4, <1>5, <1>6, PlaceStep DEF At, AppendPlaces, AfterSuccess

LEMMA HonestStep ==
    ASSUME TypeOK, LockInv, AnswersKept, Decided, [Next]_vars,
           NEW S, S \subseteq Entries,
           \A e \in Entries \ S, f \in S : ~SameScope(e, f),
           \A r \in Runners, e \in S : Answer(r, e, "done") => effect'[e],
           HonestAbout(S)
    PROVE  HonestAbout(S)'
<1> SUFFICES ASSUME NEW e \in S
             PROVE  /\ \A r \in Runners : claim'[r][e].answer = "done" => effect'[e]
                    /\ row'[e].status = "succeeded" => effect'[e]
                    /\ completions'[e] > 0 => effect'[e]
  BY DEF HonestAbout
<1>1. effect[e] => effect'[e]
  <2>1. ASSUME NEW r \in Runners, NEW f \in Entries, NEW a \in Answers, Answer(r, f, a),
               effect[e]
        PROVE  effect'[e]
    BY <2>1 DEF Answer, Applied, TypeOK
  <2>2. ASSUME NEW f \in Entries, Expire(f), effect[e] PROVE effect'[e]
    BY <2>2 DEF Expire, TypeOK
  <2>3. CASE UNCHANGED effect
    BY <2>3
  <2> QED
    BY <2>1, <2>2, <2>3 DEF Next, vars, EnqueueTransaction, sagaVars, RunOnce, TakeBatch,
       Settle, Succeed, Park, Abandon, AppendEvent, CheckCompletion, Complete, Commit,
       Parked, GiveUp, Retry, Interrupt, OperatorStep, Requeue, Announce, Reopen,
       InterruptRequeue, GateOpens
<1>2. ASSUME NEW r \in Runners, claim'[r][e].answer = "done" PROVE effect'[e]
  <2>1. ASSUME NEW q \in Runners, NEW f \in Entries, NEW a \in Answers, Answer(q, f, a)
        PROVE  effect'[e]
    <3>1. CASE q = r /\ f = e
      <4>1. a = "done"
        BY <1>2, <2>1, <3>1 DEF Answer, TypeOK
      <4> QED
        BY <2>1, <3>1, <4>1
    <3>2. CASE ~(q = r /\ f = e)
      <4>1. claim'[r][e].answer = claim[r][e].answer
        BY <2>1, <3>2 DEF Answer, TypeOK
      <4> QED
        BY <1>1, <1>2, <4>1 DEF HonestAbout
    <3> QED
      BY <3>1, <3>2
  <2>2. ASSUME NEW q \in Runners, NEW f \in Entries, Booked(q, f) PROVE effect'[e]
    <3>1. claim[r][e].answer = "done"
      BY <1>2, <2>2 DEF Booked, NoClaim, TypeOK
    <3> QED
      BY <1>1, <3>1 DEF HonestAbout
  <2>3. ASSUME NEW q \in Runners, TakeBatch(q) \/ Interrupt(q) PROVE effect'[e]
    <3>1. claim'[q][e].answer = "none"
      BY <2>3 DEF TakeBatch, Interrupt, NoClaim, TypeOK
    <3>2. q # r => claim'[r] = claim[r]
      BY <2>3 DEF TakeBatch, Interrupt, TypeOK
    <3> QED
      BY <1>1, <1>2, <3>1, <3>2 DEF HonestAbout
  <2>4. CASE UNCHANGED claim
    BY <1>1, <1>2, <2>4 DEF HonestAbout
  <2> QED
    BY <2>1, <2>2, <2>3, <2>4 DEF Next, vars, EnqueueTransaction, sagaVars, RunOnce,
       Settle, Succeed, Park, Abandon, AppendEvent, CheckCompletion, Complete, Commit,
       Parked, GiveUp, Retry, OperatorStep, Requeue, Announce, Reopen,
       InterruptRequeue, GateOpens, Expire
<1>3. row'[e].status = "succeeded" => effect'[e]
  <2>1. ASSUME NEW r \in Runners, Commit(r, e) PROVE effect[e]
    BY <2>1 DEF Commit, AnswersKept, At, AfterSuccess, HonestAbout
  <2>2. row[e].status = "succeeded" => effect[e]
    BY DEF HonestAbout
  <2> QED
    BY <1>1, <2>1, <2>2, RowStep, SettledRow, ReopenedRow
<1>4. completions'[e] > 0 => effect'[e]
  <2>1. ASSUME NEW r \in Runners, NEW f \in Entries, Complete(r, f)
        PROVE  completions'[e] > 0 => effect'[e]
    <3>1. CASE e \in locked[r]
      <4>1. At(r, f, {"completing"}) /\ Finishing(r, f)
        BY <2>1 DEF Complete, At, Finishing
      <4>2. locked[r] \subseteq Siblings(f)
        BY <4>1 DEF LockInv, LocksFit
      <4>3. f \in S
        BY <3>1, <4>2 DEF Siblings, SameScope
      <4>4. claim[r][f].answer = "done"
        BY <4>1 DEF AnswersKept, At, AfterSuccess
      <4>5. e # f => row[e].status = "succeeded"
        BY <3>1, <4>1 DEF Decided
      <4> QED
        BY <1>1, <4>3, <4>4, <4>5 DEF HonestAbout
    <3>2. CASE e \notin locked[r]
      <4>1. completions'[e] = completions[e]
        BY <2>1, <3>2 DEF Complete
      <4> QED
        BY <1>1, <4>1 DEF HonestAbout
    <3> QED
      BY <3>1, <3>2
  <2>2. CASE UNCHANGED completions
    BY <1>1, <2>2 DEF HonestAbout
  <2> QED
    BY <2>1, <2>2 DEF Next, vars, EnqueueTransaction, sagaVars, RunOnce, TakeBatch, Answer,
       Settle, Succeed, Park, Abandon, AppendEvent, CheckCompletion, Commit,
       Parked, GiveUp, Retry, Interrupt, OperatorStep, Requeue, Announce, Reopen,
       InterruptRequeue, GateOpens, Expire
<1> QED
  BY <1>2, <1>3, <1>4

LEMMA HonestInit ==
    ASSUME Init, NEW S, S \subseteq Entries
    PROVE  AnswersKept /\ Decided /\ HonestAbout(S)
BY DEF Init, OutboxInit, NoRow, NoClaim, AnswersKept, Decided, HonestAbout, At, AfterSuccess

\* ERASURE_COMPLETED never covers an erase entry whose external system has not
\* applied it, even when leases run out under working runners.
THEOREM HonestErasures == Spec => []ErasureCompletionIsHonest
<1> DEFINE S == {e \in Entries : operationOf[e] = "erase"}
           Inv == TypeOK /\ LockInv /\ AnswersKept /\ Decided /\ HonestAbout(S)
<1>1. Init => Inv
  BY TypeInit, LockInvInit, HonestInit
<1>2. Inv /\ [Next]_vars => Inv'
  <2> SUFFICES ASSUME Inv, [Next]_vars PROVE Inv'
    OBVIOUS
  <2>1. \A r \in Runners, e \in S : Answer(r, e, "done") => effect'[e]
    BY DEF Answer, Applied, TypeOK
  <2>2. \A e \in Entries \ S, f \in S : ~SameScope(e, f)
    BY DEF SameScope
  <2>3. HonestAbout(S)'
    BY <2>1, <2>2, HonestStep
  <2> QED
    BY <2>3, TypeStep, LockInvStep, AnswersKeptStep, DecidedStep
<1>3. Inv => ErasureCompletionIsHonest
  BY DEF ErasureCompletionIsHonest, HonestAbout
<1> QED
  BY <1>1, <1>2, <1>3, PTL DEF Spec

-----------------------------------------------------------------------------
(* No completion is lost.  Between the decision and the commit, either the  *)
(* event is written or an unfinished sibling is locked, and no sibling that *)
(* was enqueued after the locks were taken can finish first.                *)

Settled ==
    \A r \in Runners, e \in Entries :
        /\ Finishing(r, e) =>
              \A f \in Siblings(e) \ locked[r] : row[f].status # "succeeded"
        /\ At(r, e, {"committing"}) =>
              \/ \A f \in locked[r] : completions[f] > 0
              \/ \E f \in locked[r] \ {e} : row[f].status # "succeeded"

LEMMA CompletionsGrow ==
    ASSUME TypeOK, [Next]_vars, NEW e \in Entries, completions[e] > 0
    PROVE  completions'[e] > 0
<1>1. ASSUME NEW r \in Runners, NEW f \in Entries, Complete(r, f)
      PROVE  completions'[e] > 0
  BY <1>1 DEF Complete, TypeOK
<1>2. CASE UNCHANGED completions
  BY <1>2
<1> QED
  BY <1>1, <1>2 DEF Next, vars, EnqueueTransaction, sagaVars, RunOnce, TakeBatch, Answer,
     Settle, Succeed, Park, Abandon, AppendEvent, CheckCompletion, Commit,
     Parked, GiveUp, Retry, Interrupt, OperatorStep, Requeue, Announce, Reopen,
     InterruptRequeue, GateOpens, Expire

\* Only mark_succeeded's commit makes a row succeeded.
LEMMA SuccessStep ==
    ASSUME TypeOK, [Next]_vars, NEW e \in Entries,
           row'[e].status = "succeeded", row[e].status # "succeeded"
    PROVE  \E r \in Runners : Commit(r, e) /\ Finishing(r, e)
<1>1. \E r \in Runners : Commit(r, e)
  BY RowStep, SettledRow, ReopenedRow
<1> QED
  BY <1>1 DEF Commit, Finishing, At

LEMMA SettledStep == TypeOK /\ LockInv /\ Decided /\ Settled /\ [Next]_vars => Settled'
<1> SUFFICES ASSUME TypeOK, LockInv, Decided, Settled, [Next]_vars,
                    NEW r \in Runners, NEW e \in Entries, Finishing(r, e)'
             PROVE  /\ \A f \in Siblings(e)' \ locked'[r] : row'[f].status # "succeeded"
                    /\ At(r, e, {"committing"})' =>
                          \/ \A f \in locked'[r] : completions'[f] > 0
                          \/ \E f \in locked'[r] \ {e} : row'[f].status # "succeeded"
  BY DEF Settled, Finishing, At
<1>1. locked'[r] \subseteq Entries /\ Siblings(e)' \subseteq Entries
  BY TypeStep, SagaAssumption DEF TypeOK, OutboxTypeOK, Siblings
<1>2. ASSUME NEW f \in Siblings(e)' \ locked'[r], row'[f].status = "succeeded" PROVE FALSE
  <2>1. f \in Entries /\ SameScope(e, f)
    BY <1>2 DEF Siblings, SameScope
  <2>2. row[f].status # "succeeded"
    <3>1. CASE Finishing(r, e) /\ locked'[r] = locked[r]
      <4>1. row[f].status = "succeeded" => f \in Siblings(e) \ locked[r]
        BY <1>2, <2>1, <3>1 DEF Siblings, Stored
      <4> QED
        BY <3>1, <4>1 DEF Settled
    <3>2. CASE CheckCompletion(r, e) /\ UNCHANGED <<row, held, claim>>
      <4>1. locked'[r] = Siblings(e)
        BY <3>2, SagaAssumption DEF CheckCompletion, LockSiblings, TypeOK, OutboxTypeOK
      <4> QED
        BY <1>2, <2>1, <4>1 DEF Siblings, Stored
    <3> QED
      BY <3>1, <3>2, FinishingStep
  <2>3. PICK q \in Runners : Commit(q, f) /\ Finishing(q, f)
    BY <1>2, <2>1, <2>2, SuccessStep
  <2>4. Finishing(r, e)
    <3>1. ~CheckCompletion(r, e)
      BY <2>3, SagaAssumption DEF CheckCompletion, LockSiblings, Commit, CommitSucceeded,
         Booked, TypeOK
    <3> QED
      BY <3>1, FinishingStep
  <2>5. q # r
    BY <2>3, SagaAssumption DEF Commit, Booked, TypeOK, Finishing, At
  <2> QED
    BY <2>1, <2>3, <2>4, <2>5 DEF LockInv, OneFinisherPerScope
<1>3. ASSUME At(r, e, {"committing"})'
      PROVE  \/ \A f \in locked'[r] : completions'[f] > 0
             \/ \E f \in locked'[r] \ {e} : row'[f].status # "succeeded"
  <2>1. CASE pc'[r] = pc[r] /\ Settling(r, e) /\ locked'[r] = locked[r]
    <3>1. At(r, e, {"committing"})
      BY <1>3, <2>1 DEF At
    <3>2. CASE \A f \in locked[r] : completions[f] > 0
      BY <1>1, <2>1, <3>2, CompletionsGrow
    <3>3. ASSUME NEW f \in locked[r] \ {e}, row[f].status # "succeeded"
          PROVE  row'[f].status # "succeeded"
      BY <1>1, <2>1, <3>3, LockedRowIsStable
    <3> QED
      BY <2>1, <3>1, <3>2, <3>3 DEF Settled
  <2>2. CASE CheckCompletion(r, e)
    <3>1. locked'[r] = Siblings(e) /\ ~LastOfItsOperation(e) /\ row' = row
      BY <1>3, <2>2, SagaAssumption
         DEF CheckCompletion, LockSiblings, At, TypeOK, OutboxTypeOK
    <3> QED
      BY <3>1 DEF LastOfItsOperation
  <2>3. CASE Complete(r, e)
    <3>1. locked' = locked /\ \A f \in locked[r] : completions'[f] > 0
      BY <1>1, <2>3 DEF Complete, TypeOK
    <3> QED
      BY <3>1
  <2>4. ~(Succeed(r, e) \/ Park(r, e) \/ Abandon(r, e))
    BY <1>3 DEF Succeed, Park, Abandon, AppendEvent, At, TypeOK
  <2> QED
    BY <1>3, <2>1, <2>2, <2>3, <2>4, PlaceStep DEF At, AppendPlaces, AfterSuccess
<1> QED
  BY <1>2, <1>3

\* When the last entry of a subject's operation is recorded as succeeded, its
\* completion event is in the trail.
THEOREM NoCompletionLost == Spec => []CompletionIsNeverLost
<1> DEFINE Inv == TypeOK /\ LockInv /\ Decided /\ Settled /\ CompletionIsNeverLost
<1>1. Init => Inv
  <2>1. Init => Settled /\ CompletionIsNeverLost
    BY DEF Init, OutboxInit, NoRow, Settled, Finishing, At, CompletionIsNeverLost, Stored
  <2>2. Init => Decided
    BY HonestInit
  <2> QED
    BY <2>1, <2>2, TypeInit, LockInvInit
<1>2. Inv /\ [Next]_vars => Inv'
  <2> SUFFICES ASSUME Inv, [Next]_vars PROVE CompletionIsNeverLost'
    BY TypeStep, LockInvStep, DecidedStep, SettledStep
  <2> SUFFICES ASSUME NEW e \in Entries, Stored(e)',
                      \A f \in Siblings(e)' : row'[f].status = "succeeded"
               PROVE  completions'[e] > 0
    BY DEF CompletionIsNeverLost
  <2>1. e \in Siblings(e)'
    BY DEF Siblings, SameScope
  <2>2. Siblings(e) \subseteq Siblings(e)'
    BY StoredStays DEF Siblings
  <2>3. CASE \A f \in Siblings(e)' : row[f].status = "succeeded"
    <3>1. Stored(e)
      BY <2>1, <2>3 DEF Stored
    <3>2. \A f \in Siblings(e) : row[f].status = "succeeded"
      BY <2>2, <2>3
    <3> QED
      BY <3>1, <3>2, CompletionsGrow DEF CompletionIsNeverLost
  <2>4. ASSUME NEW g \in Siblings(e)', row[g].status # "succeeded"
        PROVE  completions'[e] > 0
    <3>1. g \in Entries /\ SameScope(e, g) /\ row'[g].status = "succeeded"
      BY <2>4 DEF Siblings
    <3>2. PICK r \in Runners : Commit(r, g) /\ Finishing(r, g)
      BY <2>4, <3>1, SuccessStep
    <3>3. \A f \in Entries \ {g} : row'[f] = row[f]
      BY <3>2 DEF Commit, CommitSucceeded, TypeOK, OutboxTypeOK
    <3>4. locked[r] \subseteq Siblings(g) /\ Siblings(g) \subseteq Siblings(e)'
      BY <2>2, <3>1, <3>2, StoredStays DEF LockInv, LocksFit, Siblings, SameScope
    <3>5. \A f \in locked[r] \ {g} : row[f].status = "succeeded"
      BY <3>3, <3>4 DEF Siblings
    <3>6. At(r, g, {"committing"})
      BY <3>2 DEF Commit, At
    <3>7. \A f \in locked[r] : completions[f] > 0
      BY <3>1, <3>5, <3>6 DEF Settled
    <3>8. e \in locked[r]
      <4>1. row'[e].status = "succeeded"
        BY <2>1
      <4>2. CASE e = g
        BY <3>1, <3>2, <4>2 DEF LockInv, LocksFit
      <4>3. CASE e # g
        <5>1. row[e].status = "succeeded"
          BY <3>3, <4>1, <4>3
        <5>2. e \in Siblings(g)
          BY <3>1, <5>1 DEF Siblings, SameScope, Stored
        <5> QED
          BY <3>1, <3>2, <5>1, <5>2 DEF Settled
      <4> QED
        BY <4>2, <4>3
    <3> QED
      BY <3>7, <3>8, CompletionsGrow
  <2> QED
    BY <2>3, <2>4
<1> QED
  BY <1>1, <1>2, PTL DEF Spec

-----------------------------------------------------------------------------
(* One entry: its row, the runners that hold it and their copies of it.     *)

Idle == \A r \in Runners : pc[r] = "idle" => held[r] = {}

LEMMA IdleStep == TypeOK /\ Idle /\ [Next]_vars => Idle'
<1> SUFFICES ASSUME TypeOK, Idle, [Next]_vars, NEW r \in Runners, pc'[r] = "idle" PROVE held'[r] = {}
  BY DEF Idle
<1> USE DEF TypeOK, Idle
<1>1. ASSUME NEW q \in Runners, TakeBatch(q) PROVE held'[r] = {}
  BY <1>1 DEF TakeBatch
<1>2. ASSUME NEW q \in Runners, NEW f \in Entries, NEW a \in Answers, Answer(q, f, a) PROVE held'[r] = {}
  BY <1>2 DEF Answer
<1>3. ASSUME NEW q \in Runners, NEW f \in Entries, Settle(q, f) PROVE held'[r] = {}
  <2>1. CASE Succeed(q, f) \/ Park(q, f) \/ Abandon(q, f)
    BY <2>1 DEF Succeed, Park, Abandon, AppendEvent
  <2>2. CASE CheckCompletion(q, f) \/ Complete(q, f)
    BY <2>2 DEF CheckCompletion, Complete
  <2>3. CASE Commit(q, f) \/ Parked(q, f) \/ GiveUp(q, f) \/ Retry(q, f)
    <3>1. Booked(q, f)
      BY <2>3 DEF Commit, Parked, GiveUp, Retry
    <3>2. CASE q = r
      <4>1. held[r] = {f}
        BY <3>1, <3>2 DEF Booked
      <4> QED
        BY <3>1, <3>2, <4>1 DEF Booked
    <3>3. CASE q # r
      BY <3>1, <3>3 DEF Booked
    <3> QED
      BY <3>2, <3>3
  <2> QED
    BY <1>3, <2>1, <2>2, <2>3 DEF Settle
<1>4. ASSUME NEW q \in Runners, Interrupt(q) PROVE held'[r] = {}
  BY <1>4 DEF Interrupt
<1>5. CASE UNCHANGED <<pc, held>>
  BY <1>5
<1> HIDE DEF TypeOK
<1> QED
  BY <1>1, <1>2, <1>3, <1>4, <1>5
     DEF Next, vars, EnqueueTransaction, sagaVars, RunOnce, OperatorStep, Requeue, Announce, Reopen,
         InterruptRequeue, GateOpens, Expire

\* The runners outside a set keep their copies of e, or keep to have none.
SameClaims(e, runners) ==
    \A r \in runners :
        /\ e \in held'[r] <=> e \in held[r]
        /\ e \in held[r] => /\ claim'[r][e].attempts = claim[r][e].attempts
                            /\ claim'[r][e].corrections = claim[r][e].corrections

Keeps(e) == row'[e] = row[e] /\ SameClaims(e, Runners)

Enqueues(e) ==
    /\ row[e].status = "absent" /\ row'[e].status = "pending" /\ row'[e].attempts = 0
    /\ row'[e].payload = (operationOf[e] = "rectify")
    /\ SameClaims(e, Runners)

Takes(r, e) ==
    /\ row[e].status \in Claimable /\ row[e].due /\ \A s \in Sessions : e \notin locked[s]
    /\ row'[e].status = "in_flight" /\ row'[e].due = FALSE
    /\ row'[e].attempts = OneMore(row[e].attempts) /\ row'[e].payload = row[e].payload
    /\ e \notin held[r] /\ e \in held'[r]
    /\ claim'[r][e].attempts = OneMore(row[e].attempts) /\ claim'[r][e].corrections = row[e].payload
    /\ SameClaims(e, Runners \ {r})

Books(r, e) ==
    /\ Commit(r, e) \/ Parked(r, e) \/ GiveUp(r, e) \/ Retry(r, e)
    /\ e \in held[r] /\ e \notin held'[r]
    /\ SameClaims(e, Runners \ {r})

Drops(r, e) ==
    /\ faults' = faults + 1 /\ lapses' = lapses /\ row'[e] = row[e]
    /\ e \in held[r] /\ e \notin held'[r]
    /\ SameClaims(e, Runners \ {r})

Reopens(e) == e \in Abandoned(locked[Operator]) /\ Reopen /\ SameClaims(e, Runners)

Opens(e) == GateOpens(e) /\ SameClaims(e, Runners)

\* Everything that a step can be to one entry.
LEMMA EntryStep ==
    ASSUME TypeOK, Idle, [Next]_vars, NEW e \in Entries
    PROVE  \/ Keeps(e) \/ Enqueues(e) \/ Reopens(e) \/ Opens(e)
           \/ \E r \in Runners : Takes(r, e) \/ Books(r, e) \/ Drops(r, e)
<1> DEFINE Goal == \/ Keeps(e) \/ Enqueues(e) \/ Reopens(e) \/ Opens(e)
                   \/ \E r \in Runners : Takes(r, e) \/ Books(r, e) \/ Drops(r, e)
<1> USE DEF TypeOK, OutboxTypeOK
<1>0. UNCHANGED <<held, claim>> => SameClaims(e, Runners)
  BY DEF SameClaims
<1>1. ASSUME NEW T \in Transactions, EnqueueTransaction(T) PROVE Goal
  <2>1. SameClaims(e, Runners)
    BY <1>0, <1>1 DEF EnqueueTransaction, sagaVars
  <2>2. row'[e] = row[e] \/ Enqueues(e)
    BY <1>1, <2>1, TransactionAssumption DEF EnqueueTransaction, Enqueue, Stored, Enqueues
  <2> QED
    BY <2>1, <2>2 DEF Keeps
<1>2. ASSUME NEW r \in Runners, TakeBatch(r) PROVE Goal
  <2>1. SameClaims(e, Runners \ {r})
    BY <1>2 DEF TakeBatch, SameClaims
  <2>2. held[r] = {}
    BY <1>2 DEF TakeBatch, Idle
  <2>3. CASE e \in Oldest(Due, BatchSize)
    <3>1. e \in Due
      BY <2>3 DEF Oldest
    <3>2. row'[e] = [status |-> "in_flight", due |-> FALSE, attempts |-> OneMore(row[e].attempts),
                     payload |-> row[e].payload]
      BY <1>2, <2>3 DEF TakeBatch, ClaimBatch
    <3>3. /\ e \in held'[r]
          /\ claim'[r][e] = [attempts |-> OneMore(row[e].attempts), corrections |-> row[e].payload,
                             answer |-> "none"]
      BY <1>2, <2>3 DEF TakeBatch
    <3>4. /\ row'[e].status = "in_flight" /\ row'[e].due = FALSE
          /\ row'[e].attempts = OneMore(row[e].attempts) /\ row'[e].payload = row[e].payload
      BY <3>2
    <3>5. /\ claim'[r][e].attempts = OneMore(row[e].attempts) /\ claim'[r][e].corrections = row[e].payload
      BY <3>3
    <3>6. Takes(r, e)
      BY <2>1, <2>2, <3>1, <3>3, <3>4, <3>5 DEF Takes, Due
    <3> QED
      BY <3>6
  <2>4. CASE e \notin Oldest(Due, BatchSize)
    <3>1. row'[e] = row[e] /\ e \notin held'[r]
      BY <1>2, <2>4 DEF TakeBatch, ClaimBatch
    <3> QED
      BY <2>1, <2>2, <3>1 DEF Keeps, SameClaims
  <2> QED
    BY <2>3, <2>4
<1>3. ASSUME NEW r \in Runners, NEW f \in Entries, NEW a \in Answers, Answer(r, f, a) PROVE Goal
  BY <1>3 DEF Answer, Keeps, SameClaims
<1>4. ASSUME NEW r \in Runners, NEW f \in Entries, Settle(r, f) PROVE Goal
  <2>1. ASSUME UNCHANGED <<held, claim>>, row'[e] = row[e] PROVE Goal
    BY <1>0, <2>1 DEF Keeps
  <2>2. CASE Succeed(r, f) \/ Park(r, f) \/ Abandon(r, f) \/ CheckCompletion(r, f) \/ Complete(r, f)
    BY <2>1, <2>2 DEF Succeed, Park, Abandon, AppendEvent, CheckCompletion, LockSiblings, Complete
  <2>3. CASE Commit(r, f) \/ Parked(r, f) \/ GiveUp(r, f) \/ Retry(r, f)
    <3>1. Booked(r, f) /\ f \in held[r]
      BY <2>3 DEF Commit, Parked, GiveUp, Retry, Settling
    <3>2. SameClaims(e, Runners \ {r}) /\ f \notin held'[r]
      BY <3>1 DEF Booked, SameClaims
    <3>3. CASE e = f
      BY <2>3, <3>1, <3>2, <3>3 DEF Books
    <3>4. CASE e # f
      <4>1. row'[e] = row[e]
        BY <2>3, <3>4 DEF Commit, CommitSucceeded, Parked, MarkScheduled, GiveUp, MarkAbandoned, Retry,
                          MarkFailed, Mark
      <4>2. (e \in held'[r] <=> e \in held[r]) /\ claim'[r][e] = claim[r][e]
        BY <3>1, <3>4 DEF Booked
      <4> QED
        BY <3>2, <4>1, <4>2 DEF Keeps, SameClaims
    <3> QED
      BY <3>3, <3>4
  <2> QED
    BY <1>4, <2>2, <2>3 DEF Settle
<1>5. ASSUME NEW r \in Runners, Interrupt(r) PROVE Goal
  <2>1. SameClaims(e, Runners \ {r}) /\ row'[e] = row[e] /\ e \notin held'[r]
    BY <1>5 DEF Interrupt, Rollback, SameClaims
  <2> QED
    BY <1>5, <2>1 DEF Interrupt, Drops, Keeps, SameClaims
<1>6. CASE OperatorStep
  <2>1. SameClaims(e, Runners)
    BY <1>0, <1>6 DEF OperatorStep, Requeue, sagaVars, Announce, Reopen, InterruptRequeue
  <2>2. row'[e] = row[e] \/ (Reopen /\ e \in Abandoned(locked[Operator]))
    BY <1>6 DEF OperatorStep, Requeue, LockForRequeue, Announce, Reopen, CommitRequeue,
                InterruptRequeue, Rollback
  <2> QED
    BY <2>1, <2>2 DEF Keeps, Reopens
<1>7. ASSUME NEW f \in Entries, GateOpens(f) PROVE Goal
  <2>1. SameClaims(e, Runners) /\ (e # f => row'[e] = row[e])
    BY <1>0, <1>7 DEF GateOpens, OpenGate
  <2> QED
    BY <1>7, <2>1 DEF Keeps, Opens
<1>8. ASSUME NEW f \in Entries, Expire(f) PROVE Goal
  BY <1>0, <1>8 DEF Expire, Keeps
<1>9. CASE UNCHANGED vars
  BY <1>0, <1>9 DEF vars, Keeps
<1> QED
  BY <1>1, <1>2, <1>3, <1>4, <1>5, <1>6, <1>7, <1>8, <1>9 DEF Next, RunOnce

\* Faults and lapses are only ever added.
LEMMA CountersGrow ==
    ASSUME TypeOK, [Next]_vars
    PROVE  /\ faults \in Nat /\ lapses \in Nat /\ faults' \in Nat /\ lapses' \in Nat
           /\ faults <= faults' /\ lapses <= lapses'
<1>1. faults \in Nat /\ lapses \in Nat
  BY SagaAssumption DEF TypeOK
<1> QED
  BY <1>1 DEF Next, vars, EnqueueTransaction, sagaVars, RunOnce, TakeBatch, Answer, Settle, Succeed,
     Park, Abandon, AppendEvent, CheckCompletion, Complete, Commit, Parked, GiveUp, Retry,
     Interrupt, OperatorStep, Requeue, Announce, Reopen, InterruptRequeue, GateOpens, Expire

-----------------------------------------------------------------------------
(* Leases that hold.  While no lease runs out under a working runner, an    *)
(* entry has one holder at most, and its row is as that holder claimed it.  *)

LeasesHold ==
    \A r \in Runners : \A e \in held[r] :
        /\ row[e].status = "in_flight" /\ ~row[e].due
        /\ claim[r][e].corrections = row[e].payload
        /\ \A q \in Runners \ {r} : e \notin held[q]

LEMMA LeasesHoldStep ==
    ASSUME MaxLapses = 0, TypeOK, TypeOK', Idle, LeasesHold, [Next]_vars
    PROVE  LeasesHold'
<1> SUFFICES ASSUME NEW r \in Runners, NEW e \in held'[r]
             PROVE  /\ row'[e].status = "in_flight" /\ ~row'[e].due
                    /\ claim'[r][e].corrections = row'[e].payload
                    /\ \A q \in Runners \ {r} : e \notin held'[q]
  BY DEF LeasesHold
<1>0. e \in Entries
  BY DEF TypeOK
<1>1. CASE Keeps(e)
  BY <1>1 DEF Keeps, SameClaims, LeasesHold
<1>2. CASE Enqueues(e) \/ Reopens(e)
  BY <1>2 DEF Enqueues, Reopens, Abandoned, SameClaims, LeasesHold
<1>3. CASE Opens(e)
  <2>1. e \in held[r] /\ row[e].status = "in_flight"
    BY <1>3 DEF Opens, SameClaims, LeasesHold
  <2>2. lapses < MaxLapses /\ lapses \in 0..MaxLapses
    BY <1>3, <2>1 DEF Opens, GateOpens, Working, TypeOK
  <2> QED
    BY <2>2
<1>4. ASSUME NEW q \in Runners, Takes(q, e)
      PROVE  /\ row'[e].status = "in_flight" /\ ~row'[e].due
             /\ claim'[r][e].corrections = row'[e].payload
             /\ \A p \in Runners \ {r} : e \notin held'[p]
  <2>1. \A p \in Runners : e \notin held[p]
    BY <1>4 DEF Takes, LeasesHold
  <2>2. q = r
    BY <1>4, <2>1 DEF Takes, SameClaims
  <2> QED
    BY <1>4, <2>1, <2>2 DEF Takes, SameClaims
<1>5. ASSUME NEW q \in Runners, Books(q, e) \/ Drops(q, e) PROVE FALSE
  BY <1>5 DEF Books, Drops, SameClaims, LeasesHold
<1> QED
  BY <1>0, <1>1, <1>2, <1>3, <1>4, <1>5, EntryStep

\* What an open requeue has locked and written.
RequeueInv ==
    /\ \A e \in Abandoned(locked[Operator]) : operationOf[e] = "erase"
    /\ \A e \in announced : Event("requeued", e) \in trail

LEMMA RequeueInvStep == TypeOK /\ RequeueInv /\ [Next]_vars => RequeueInv'
<1> SUFFICES ASSUME TypeOK, RequeueInv, [Next]_vars PROVE RequeueInv'
  OBVIOUS
<1>1. \A e \in Abandoned(locked[Operator])' : operationOf[e] = "erase"
  <2> SUFFICES ASSUME NEW e \in locked'[Operator], row'[e].status = "abandoned"
               PROVE  operationOf[e] = "erase"
    BY DEF Abandoned
  <2>1. ASSUME NEW ids \in RequeueRequests, Requeue(ids) PROVE operationOf[e] = "erase"
    BY <2>1, SagaAssumption DEF Requeue, LockForRequeue, Abandoned, TypeOK, OutboxTypeOK
  <2>2. CASE Reopen \/ InterruptRequeue
    BY <2>2, SagaAssumption DEF Reopen, CommitRequeue, InterruptRequeue, Rollback, TypeOK, OutboxTypeOK
  <2>3. CASE locked'[Operator] = locked[Operator]
    <3>1. e \in Entries
      BY <2>3, SagaAssumption DEF TypeOK, OutboxTypeOK
    <3>2. \A r \in Runners : ~GiveUp(r, e)
      BY <2>3, <3>1, SettledRow, SagaAssumption DEF Unlocked
    <3>3. row[e].status = "abandoned"
      BY <3>1, <3>2, RowStep, SettledRow, ReopenedRow
    <3> QED
      BY <2>3, <3>3 DEF RequeueInv, Abandoned
  <2>4. \/ \E ids \in RequeueRequests : Requeue(ids)
        \/ Reopen \/ InterruptRequeue
        \/ locked'[Operator] = locked[Operator]
    <3>1. ASSUME NEW r \in Runners, NEW f \in Entries, Settle(r, f)
          PROVE  locked'[Operator] = locked[Operator]
      BY <3>1, SagaAssumption
         DEF Settle, Succeed, Park, Abandon, AppendEvent, CheckCompletion, LockSiblings, Complete, Commit,
             CommitSucceeded, Parked, MarkScheduled, GiveUp, MarkAbandoned, Retry, MarkFailed, Mark,
             TypeOK, OutboxTypeOK
    <3>2. ASSUME NEW r \in Runners, Interrupt(r) PROVE locked'[Operator] = locked[Operator]
      BY <3>2, SagaAssumption DEF Interrupt, Rollback, TypeOK, OutboxTypeOK
    <3> QED
      BY <3>1, <3>2 DEF Next, vars, EnqueueTransaction, Enqueue, RunOnce, TakeBatch, ClaimBatch, Answer,
                        OperatorStep, Announce, GateOpens, OpenGate, Expire
  <2> QED
    BY <2>1, <2>2, <2>3, <2>4
<1>2. \A e \in announced' : Event("requeued", e) \in trail'
  <2>1. \A e \in announced' : e \in announced \/ Announce(e)
    BY DEF Next, vars, EnqueueTransaction, sagaVars, RunOnce, TakeBatch, Answer, Settle, Succeed,
           Park, Abandon, AppendEvent, CheckCompletion, Complete, Commit, Parked, GiveUp, Retry,
           Interrupt, OperatorStep, Requeue, Announce, Reopen, InterruptRequeue, GateOpens, Expire
  <2> QED
    BY <2>1, TrailGrows DEF RequeueInv, Announce, Event
<1> QED
  BY <1>1, <1>2 DEF RequeueInv, Event

\* A rectification that is still owed has its corrections.
CorrectionsKept ==
    \A e \in Entries : operationOf[e] = "rectify" /\ row[e].status \in Claimable => row[e].payload

LEMMA CorrectionsKeptStep ==
    TypeOK /\ Idle /\ LeasesHold /\ RequeueInv /\ CorrectionsKept /\ [Next]_vars => CorrectionsKept'
<1> SUFFICES ASSUME TypeOK, Idle, LeasesHold, RequeueInv, CorrectionsKept, [Next]_vars, NEW e \in Entries,
                    operationOf[e] = "rectify", row'[e].status \in Claimable
             PROVE  row'[e].payload
  BY DEF CorrectionsKept
<1>1. CASE Keeps(e)
  BY <1>1 DEF Keeps, CorrectionsKept
<1>2. CASE Enqueues(e)
  BY <1>2 DEF Enqueues
<1>3. CASE Reopens(e)
  BY <1>3 DEF Reopens, RequeueInv
<1>4. CASE Opens(e)
  BY <1>4 DEF Opens, GateOpens, OpenGate, CorrectionsKept, TypeOK, OutboxTypeOK
<1>5. ASSUME NEW r \in Runners, Takes(r, e) \/ Drops(r, e) PROVE row'[e].payload
  BY <1>5 DEF Takes, Drops, CorrectionsKept
<1>6. ASSUME NEW r \in Runners, Books(r, e) PROVE row'[e].payload
  <2>1. row[e].status = "in_flight"
    BY <1>6 DEF Books, LeasesHold
  <2> QED
    BY <1>6, <2>1, SettledRow DEF Books, CorrectionsKept, Claimable
<1> QED
  BY <1>1, <1>2, <1>3, <1>4, <1>5, <1>6, EntryStep

LeaseInv == Idle /\ LeasesHold /\ RequeueInv /\ CorrectionsKept

LEMMA LeaseInvInit == Init => LeaseInv
BY SagaAssumption DEF Init, OutboxInit, NoRow, LeaseInv, Idle, LeasesHold, RequeueInv, CorrectionsKept,
                      Abandoned, Claimable

LEMMA LeaseInvStep ==
    ASSUME MaxLapses = 0, TypeOK, LeaseInv, [Next]_vars
    PROVE  LeaseInv'
BY TypeStep, IdleStep, LeasesHoldStep, RequeueInvStep, CorrectionsKeptStep DEF LeaseInv

\* While leases hold, a settled row only ever changes by a requeue that was announced.
THEOREM OutcomesStand ==
    ASSUME MaxLapses = 0
    PROVE  Spec => OutcomesAreFinal
<1>1. ASSUME TypeOK, LeaseInv, [Next]_vars, NEW e \in Entries, row[e].status \in Terminal, row'[e] # row[e]
      PROVE  /\ row[e].status = "abandoned" /\ row'[e].status = "pending" /\ operationOf[e] = "erase"
             /\ e \in announced /\ Event("requeued", e) \in trail
  <2>1. CASE Reopens(e)
    BY <1>1, <2>1, ReopenedRow DEF Reopens, Reopen, LeaseInv, RequeueInv
  <2>2. ~Keeps(e) /\ ~Enqueues(e) /\ ~Opens(e)
    BY <1>1 DEF Keeps, Enqueues, Opens, GateOpens, OpenGate, Claimable, Terminal
  <2>3. ASSUME NEW r \in Runners, Takes(r, e) \/ Books(r, e) \/ Drops(r, e) PROVE FALSE
    BY <1>1, <2>3 DEF Takes, Books, Drops, LeaseInv, LeasesHold, Claimable, Terminal
  <2> QED
    BY <1>1, <2>1, <2>2, <2>3, EntryStep DEF LeaseInv
<1>2. TypeOK /\ LeaseInv /\ [Next]_vars =>
        [\A e \in Entries :
           row[e].status \in Terminal /\ row'[e] # row[e]
             => /\ row[e].status = "abandoned"
                /\ row'[e].status = "pending"
                /\ operationOf[e] = "erase"
                /\ e \in announced /\ Event("requeued", e) \in trail]_vars
  BY <1>1
<1> QED
  BY <1>2, LeaseInvInit, LeaseInvStep, TypeCorrect, PTL DEF Spec, OutcomesAreFinal

\* While leases hold, a rectification is never certified that was not sent.
THEOREM HonestCompletions ==
    ASSUME MaxLapses = 0
    PROVE  Spec => []CompletionIsHonest
<1> DEFINE Inv == TypeOK /\ LockInv /\ LeaseInv /\ AnswersKept /\ Decided /\ HonestAbout(Entries)
<1>1. Init => Inv
  BY TypeInit, LockInvInit, LeaseInvInit, HonestInit
<1>2. Inv /\ [Next]_vars => Inv'
  <2> SUFFICES ASSUME Inv, [Next]_vars PROVE Inv'
    OBVIOUS
  <2>1. ASSUME NEW r \in Runners, NEW e \in Entries, Answer(r, e, "done") PROVE effect'[e]
    <3>1. operationOf[e] = "rectify" => claim[r][e].corrections
      BY <2>1 DEF Answer, LeaseInv, LeasesHold, CorrectionsKept, Claimable
    <3> QED
      BY <2>1, <3>1 DEF Answer, Applied, TypeOK
  <2>2. HonestAbout(Entries)'
    BY <2>1, HonestStep
  <2> QED
    BY <2>2, TypeStep, LockInvStep, LeaseInvStep, AnswersKeptStep, DecidedStep
<1>3. Inv => CompletionIsHonest
  BY DEF CompletionIsHonest, HonestAbout
<1> QED
  BY <1>1, <1>2, <1>3, PTL DEF Spec

-----------------------------------------------------------------------------
(* The promise.  The row of an entry is its verdict, and each step of the   *)
(* saga is a step of DeliveryPromise or changes nothing that it sees.       *)

VerdictOf == [e \in Entries |-> Verdict(e)]
AppliedCalls == {e \in Entries : effect[e]}
CertifiedCalls == {e \in Entries : completions[e] > 0}

Recorded(calls, from, to) ==
    /\ calls # {} /\ \A c \in calls : VerdictOf[c] = from
    /\ VerdictOf' = [c \in Entries |-> IF c \in calls THEN to ELSE VerdictOf[c]]

Operation(c) == {d \in Entries : SameScope(c, d) /\ VerdictOf[d] # "none"}

Unseen == UNCHANGED <<VerdictOf, AppliedCalls, CertifiedCalls>>

LEMMA PromiseActions ==
    /\ \A calls \in SUBSET Entries :
         (Recorded(calls, "none", "owed") /\ UNCHANGED <<AppliedCalls, CertifiedCalls>>) => Promise!Next
    /\ \A calls \in SUBSET Entries :
         (/\ \A c \in calls : operationOf[c] = "erase"
          /\ Recorded(calls, "given_up", "owed") /\ UNCHANGED <<AppliedCalls, CertifiedCalls>>)
         => Promise!Next
    /\ \A c \in Entries :
         (/\ VerdictOf[c] # "none"
          /\ AppliedCalls' = AppliedCalls \cup {c} /\ UNCHANGED <<VerdictOf, CertifiedCalls>>)
         => Promise!Next
    /\ \A c \in Entries :
         (Recorded({c}, "owed", "given_up") /\ UNCHANGED <<AppliedCalls, CertifiedCalls>>) => Promise!Next
    /\ \A c \in AppliedCalls :
         (/\ \/ Operation(c) \subseteq CertifiedCalls
             \/ \E d \in Operation(c) \ {c} : VerdictOf[d] # "delivered"
          /\ Recorded({c}, "owed", "delivered") /\ UNCHANGED <<AppliedCalls, CertifiedCalls>>)
         => Promise!Next
    /\ \A calls \in SUBSET Entries : \A c \in calls :
         (/\ calls \subseteq Operation(c) \cap AppliedCalls
          /\ VerdictOf[c] = "owed" /\ \A d \in calls \ {c} : VerdictOf[d] = "delivered"
          /\ CertifiedCalls' = CertifiedCalls \cup calls /\ UNCHANGED <<VerdictOf, AppliedCalls>>)
         => Promise!Next
    /\ Unseen => UNCHANGED Promise!vars
<1>1. \A calls, from, to : Recorded(calls, from, to) => Promise!Record(calls, from, to)
  BY DEF Recorded, Promise!Record, VerdictOf
<1>2. \A c : Operation(c) = Promise!Operation(c)
  BY DEF Operation, Promise!Operation, VerdictOf, SameScope
<1>3. ASSUME NEW calls \in SUBSET Entries, Recorded(calls, "none", "owed"),
             UNCHANGED <<AppliedCalls, CertifiedCalls>>
      PROVE  Promise!Next
  BY <1>1, <1>3 DEF Promise!Next, Promise!Ask, AppliedCalls, CertifiedCalls
<1>4. ASSUME NEW calls \in SUBSET Entries, \A c \in calls : operationOf[c] = "erase",
             Recorded(calls, "given_up", "owed"), UNCHANGED <<AppliedCalls, CertifiedCalls>>
      PROVE  Promise!Next
  BY <1>1, <1>4 DEF Promise!Next, Promise!OweAgain, AppliedCalls, CertifiedCalls
<1>5. ASSUME NEW c \in Entries, VerdictOf[c] # "none", AppliedCalls' = AppliedCalls \cup {c},
             UNCHANGED <<VerdictOf, CertifiedCalls>>
      PROVE  Promise!Next
  <2>1. Promise!Apply(c)
    BY <1>5 DEF Promise!Apply, VerdictOf, AppliedCalls, CertifiedCalls
  <2> QED
    BY <2>1 DEF Promise!Next
<1>6. ASSUME NEW c \in Entries, Recorded({c}, "owed", "given_up"),
             UNCHANGED <<AppliedCalls, CertifiedCalls>>
      PROVE  Promise!Next
  BY <1>1, <1>6 DEF Promise!Next, Promise!GiveUp, AppliedCalls, CertifiedCalls
<1>7. ASSUME NEW c \in AppliedCalls,
             \/ Operation(c) \subseteq CertifiedCalls
             \/ \E d \in Operation(c) \ {c} : VerdictOf[d] # "delivered",
             Recorded({c}, "owed", "delivered"), UNCHANGED <<AppliedCalls, CertifiedCalls>>
      PROVE  Promise!Next
  <2>1. Promise!Deliver(c)
    BY <1>1, <1>2, <1>7 DEF Promise!Deliver, VerdictOf, AppliedCalls, CertifiedCalls
  <2>2. c \in Entries
    BY DEF AppliedCalls
  <2> QED
    BY <2>1, <2>2 DEF Promise!Next
<1>8. ASSUME NEW calls \in SUBSET Entries, NEW c \in calls,
             calls \subseteq Operation(c) \cap AppliedCalls,
             VerdictOf[c] = "owed", \A d \in calls \ {c} : VerdictOf[d] = "delivered",
             CertifiedCalls' = CertifiedCalls \cup calls, UNCHANGED <<VerdictOf, AppliedCalls>>
      PROVE  Promise!Next
  <2>1. Promise!Certify(c, calls)
    BY <1>2, <1>8 DEF Promise!Certify, VerdictOf, AppliedCalls, CertifiedCalls
  <2> QED
    BY <2>1 DEF Promise!Next
<1>9. Unseen => UNCHANGED Promise!vars
  BY DEF Unseen, Promise!vars, VerdictOf, AppliedCalls, CertifiedCalls
<1> QED
  BY <1>3, <1>4, <1>5, <1>6, <1>7, <1>8, <1>9

\* What an entry's row says of its verdict.
LEMMA VerdictIs ==
    ASSUME TypeOK, NEW e \in Entries
    PROVE  /\ VerdictOf[e] = Verdict(e)
           /\ Verdict(e) = "none" <=> row[e].status = "absent"
           /\ Verdict(e) = "delivered" <=> row[e].status = "succeeded"
           /\ Verdict(e) = "given_up" <=> row[e].status = "abandoned"
           /\ Verdict(e) = "owed" <=> row[e].status \in Claimable
BY DEF VerdictOf, Verdict, TypeOK, OutboxTypeOK, Claimable

SameVerdict(e) ==
    \/ row'[e].status = row[e].status
    \/ row[e].status \in Claimable /\ row'[e].status \in Claimable

LEMMA SameVerdicts ==
    (\A e \in Entries : SameVerdict(e))
      => UNCHANGED VerdictOf
<1> SUFFICES ASSUME \A e \in Entries : SameVerdict(e)
             PROVE  UNCHANGED VerdictOf
  OBVIOUS
<1>1. \A e \in Entries : Verdict(e)' = Verdict(e)
  BY DEF Verdict, Claimable, SameVerdict
<1> QED
  BY <1>1 DEF VerdictOf

\* The verdicts of some entries move together.
LEMMA VerdictsMove ==
    ASSUME NEW calls \in SUBSET Entries, NEW from, NEW to, calls # {},
           \A c \in calls : Verdict(c) = from /\ Verdict(c)' = to,
           \A c \in Entries \ calls : Verdict(c)' = Verdict(c)
    PROVE  Recorded(calls, from, to)
BY DEF Recorded, VerdictOf

PromiseInv ==
    TypeOK /\ LockInv /\ LeaseInv /\ AnswersKept /\ Decided /\ Settled /\ HonestAbout(Entries)

LEMMA PromiseStep ==
    ASSUME PromiseInv, TypeOK', [Next]_vars
    PROVE  [Promise!Next]_(Promise!vars)
<1> DEFINE Goal == Promise!Next \/ Unseen
<1> SUFFICES Goal
  BY PromiseActions
<1>a. TypeOK
  BY DEF PromiseInv
<1>0. UNCHANGED row => UNCHANGED VerdictOf
  <2> SUFFICES ASSUME UNCHANGED row PROVE UNCHANGED VerdictOf
    OBVIOUS
  <2>1. \A e \in Entries : row'[e].status = row[e].status
    OBVIOUS
  <2> QED
    BY <2>1, SameVerdicts DEF SameVerdict
<1>1. ASSUME UNCHANGED <<row, effect, completions>> PROVE Goal
  BY <1>1, <1>0 DEF PromiseInv, Unseen, AppliedCalls, CertifiedCalls
<1>2. ASSUME UNCHANGED <<effect, completions>>, UNCHANGED VerdictOf PROVE Goal
  BY <1>2 DEF Unseen, AppliedCalls, CertifiedCalls
<1>3. ASSUME NEW T \in Transactions, EnqueueTransaction(T) PROVE Goal
  <2>1. T \in SUBSET Entries /\ T # {}
    BY <1>3, TransactionAssumption DEF EnqueueTransaction
  <2>2. /\ \A e \in T : row[e].status = "absent" /\ row'[e].status = "pending"
        /\ \A e \in Entries \ T : row'[e] = row[e]
    BY <1>3, <2>1 DEF EnqueueTransaction, Enqueue, Stored
  <2>3. Recorded(T, "none", "owed")
    <3>1. \A e \in T : Verdict(e) = "none" /\ Verdict(e)' = "owed"
      BY <2>2 DEF Verdict
    <3>2. \A e \in Entries \ T : Verdict(e)' = Verdict(e)
      BY <2>2 DEF Verdict
    <3> QED
      BY <2>1, <3>1, <3>2, VerdictsMove
  <2>4. UNCHANGED <<AppliedCalls, CertifiedCalls>>
    BY <1>3 DEF EnqueueTransaction, sagaVars, AppliedCalls, CertifiedCalls
  <2> QED
    BY <2>1, <2>3, <2>4, PromiseActions
<1>4. ASSUME NEW r \in Runners, TakeBatch(r) PROVE Goal
  <2>1. \A e \in Entries : SameVerdict(e)
    <3>1. PICK batch \in SUBSET Due : ClaimBatch(batch)
      BY <1>4 DEF TakeBatch, Oldest
    <3>2. \A e \in Entries \ batch : row'[e] = row[e]
      BY <3>1 DEF ClaimBatch
    <3>3. \A e \in batch : row[e].status \in Claimable /\ row'[e].status = "in_flight"
      BY <3>1 DEF ClaimBatch, Due
    <3>4. "in_flight" \in Claimable
      BY DEF Claimable
    <3> QED
      BY <3>2, <3>3, <3>4 DEF SameVerdict
  <2>2. UNCHANGED VerdictOf
    BY <2>1, SameVerdicts
  <2> QED
    BY <1>2, <1>4, <2>2 DEF TakeBatch
<1>5. ASSUME NEW e \in Entries, row[e].status # "absent", UNCHANGED <<row, completions>>,
             \/ UNCHANGED effect
             \/ \E v \in BOOLEAN : (effect[e] => v) /\ effect' = [effect EXCEPT ![e] = v]
      PROVE  Goal
  <2>1. UNCHANGED <<VerdictOf, CertifiedCalls>>
    BY <1>0, <1>5 DEF PromiseInv, CertifiedCalls
  <2>2. VerdictOf[e] # "none"
    BY <1>5, VerdictIs DEF PromiseInv
  <2>3. AppliedCalls' = AppliedCalls \/ AppliedCalls' = AppliedCalls \cup {e}
    BY <1>5 DEF AppliedCalls, PromiseInv, TypeOK
  <2>4. CASE AppliedCalls' = AppliedCalls
    BY <2>1, <2>4 DEF Unseen
  <2>5. CASE AppliedCalls' = AppliedCalls \cup {e}
    BY <2>1, <2>2, <2>5, PromiseActions
  <2> QED
    BY <2>3, <2>4, <2>5
<1>6. ASSUME NEW r \in Runners, NEW e \in Entries, NEW a \in Answers, Answer(r, e, a) PROVE Goal
  <2>1. row[e].status # "absent" /\ UNCHANGED <<row, completions>>
    BY <1>6 DEF Answer, PromiseInv, LockInv, HeldIsStored, Stored
  <2>2. Applied(r, e) \in BOOLEAN /\ (effect[e] => Applied(r, e))
    BY DEF Applied, PromiseInv, TypeOK
  <2>3. \/ UNCHANGED effect
        \/ effect' = [effect EXCEPT ![e] = Applied(r, e)]
    BY <1>6 DEF Answer
  <2> QED
    BY <1>5, <2>1, <2>2, <2>3
<1>7. ASSUME NEW r \in Runners, NEW e \in Entries, Complete(r, e) PROVE Goal
  <2>1. /\ At(r, e, {"completing"}) /\ Finishing(r, e) /\ At(r, e, AfterSuccess) /\ e \in held[r]
    BY <1>7 DEF Complete, At, Finishing, AfterSuccess, Settling
  <2>2. e \in locked[r] /\ locked[r] \subseteq Siblings(e)
    BY <2>1 DEF PromiseInv, LockInv, LocksFit
  <2>3. /\ row[e].status = "in_flight" /\ effect[e]
        /\ \A f \in locked[r] \ {e} : row[f].status = "succeeded" /\ effect[f]
    BY <2>1, <2>2 DEF PromiseInv, LeaseInv, LeasesHold, AnswersKept, Decided, HonestAbout, Siblings
  <2>4. locked[r] \in SUBSET Entries /\ locked[r] \subseteq Operation(e) \cap AppliedCalls
    BY <2>2, <2>3, VerdictIs DEF Siblings, Stored, Operation, AppliedCalls, PromiseInv
  <2>5. VerdictOf[e] = "owed" /\ \A d \in locked[r] \ {e} : VerdictOf[d] = "delivered"
    BY <2>3, <2>4, VerdictIs DEF PromiseInv, Claimable
  <2>6. CertifiedCalls' = CertifiedCalls \cup locked[r]
    BY <1>7, <2>4 DEF Complete, CertifiedCalls, PromiseInv, TypeOK
  <2>7. UNCHANGED <<VerdictOf, AppliedCalls>>
    BY <1>0, <1>7 DEF Complete, AppliedCalls, PromiseInv
  <2> QED
    BY <2>2, <2>4, <2>5, <2>6, <2>7, PromiseActions
<1>8. ASSUME NEW r \in Runners, NEW e \in Entries, Commit(r, e) PROVE Goal
  <2>1. /\ At(r, e, {"committing"}) /\ Finishing(r, e) /\ At(r, e, AfterSuccess) /\ e \in held[r]
    BY <1>8 DEF Commit, At, Finishing, AfterSuccess, Settling
  <2>2. row[e].status = "in_flight" /\ effect[e]
    BY <2>1 DEF PromiseInv, LeaseInv, LeasesHold, AnswersKept, HonestAbout
  <2>3. row'[e].status = "succeeded" /\ \A f \in Entries \ {e} : row'[f] = row[f]
    BY <1>8, <1>a DEF Commit, CommitSucceeded, TypeOK, OutboxTypeOK
  <2>4. Recorded({e}, "owed", "delivered")
    <3>1. Verdict(e) = "owed" /\ Verdict(e)' = "delivered"
      BY <2>2, <2>3 DEF Verdict
    <3>2. \A f \in Entries \ {e} : Verdict(f)' = Verdict(f)
      BY <2>3 DEF Verdict
    <3> QED
      BY <3>1, <3>2, VerdictsMove
  <2>5. \/ Operation(e) \subseteq CertifiedCalls
        \/ \E d \in Operation(e) \ {e} : VerdictOf[d] # "delivered"
    <3>1. Operation(e) = Siblings(e)
      BY VerdictIs DEF Operation, Siblings, Stored, PromiseInv
    <3>2. e \in locked[r] /\ locked[r] \subseteq Siblings(e) /\ Siblings(e) \subseteq Entries
      BY <2>1 DEF PromiseInv, LockInv, LocksFit, Siblings
    <3>3. CASE \E f \in Siblings(e) \ {e} : row[f].status # "succeeded"
      BY <3>1, <3>2, <3>3, VerdictIs DEF PromiseInv
    <3>4. CASE \A f \in Siblings(e) \ {e} : row[f].status = "succeeded"
      BY <2>1, <3>1, <3>2, <3>4 DEF PromiseInv, Settled, CertifiedCalls
    <3> QED
      BY <3>3, <3>4
  <2>6. UNCHANGED <<AppliedCalls, CertifiedCalls>> /\ e \in AppliedCalls
    BY <1>8, <2>2 DEF Commit, AppliedCalls, CertifiedCalls
  <2> QED
    BY <2>4, <2>5, <2>6, PromiseActions
<1>9. ASSUME NEW r \in Runners, NEW e \in Entries, GiveUp(r, e) PROVE Goal
  <2>1. row[e].status = "in_flight"
    BY <1>9 DEF GiveUp, Settling, PromiseInv, LeaseInv, LeasesHold
  <2>2. row'[e].status = "abandoned" /\ \A f \in Entries \ {e} : row'[f] = row[f]
    BY <1>9, <1>a DEF GiveUp, MarkAbandoned, Mark, TypeOK, OutboxTypeOK
  <2>3. Recorded({e}, "owed", "given_up")
    <3>1. Verdict(e) = "owed" /\ Verdict(e)' = "given_up"
      BY <2>1, <2>2 DEF Verdict
    <3>2. \A f \in Entries \ {e} : Verdict(f)' = Verdict(f)
      BY <2>2 DEF Verdict
    <3> QED
      BY <3>1, <3>2, VerdictsMove
  <2>4. UNCHANGED <<AppliedCalls, CertifiedCalls>>
    BY <1>9 DEF GiveUp, AppliedCalls, CertifiedCalls
  <2> QED
    BY <2>3, <2>4, PromiseActions
<1>10. ASSUME NEW r \in Runners, NEW e \in Entries, Settle(r, e) PROVE Goal
  <2>1. CASE Succeed(r, e) \/ Park(r, e) \/ Abandon(r, e) \/ CheckCompletion(r, e)
    BY <1>1, <2>1 DEF Succeed, Park, Abandon, AppendEvent, CheckCompletion, LockSiblings
  <2>2. CASE Parked(r, e) \/ Retry(r, e)
    <3>1. row[e].status = "in_flight"
      BY <2>2 DEF Parked, Retry, Settling, PromiseInv, LeaseInv, LeasesHold
    <3>2. row'[e].status \in Claimable /\ \A f \in Entries \ {e} : row'[f] = row[f]
      BY <2>2, <1>a DEF Parked, MarkScheduled, Retry, MarkFailed, Mark, TypeOK, OutboxTypeOK, Claimable
    <3>3. "in_flight" \in Claimable
      BY DEF Claimable
    <3>4. \A f \in Entries : SameVerdict(f)
      BY <3>1, <3>2, <3>3 DEF SameVerdict
    <3>5. UNCHANGED VerdictOf
      BY <3>4, SameVerdicts
    <3> QED
      BY <1>2, <2>2, <3>5 DEF Parked, Retry
  <2> QED
    BY <1>7, <1>8, <1>9, <1>10, <2>1, <2>2 DEF Settle
<1>11. ASSUME NEW r \in Runners, Interrupt(r) PROVE Goal
  BY <1>1, <1>11 DEF Interrupt, Rollback
<1>12. CASE Reopen
  <2> DEFINE calls == Abandoned(locked[Operator])
  <2>1. calls \in SUBSET Entries
    BY SagaAssumption DEF Abandoned, PromiseInv, TypeOK, OutboxTypeOK
  <2>2. /\ \A e \in calls : row[e].status = "abandoned" /\ row'[e].status = "pending"
        /\ \A e \in Entries \ calls : row'[e] = row[e]
    BY <1>12, <2>1 DEF Reopen, CommitRequeue, Abandoned
  <2>3. UNCHANGED <<AppliedCalls, CertifiedCalls>>
    BY <1>12 DEF Reopen, AppliedCalls, CertifiedCalls
  <2>4. \A e \in calls : operationOf[e] = "erase"
    BY DEF PromiseInv, LeaseInv, RequeueInv
  <2> HIDE DEF calls
  <2>5. CASE calls = {}
    <3>1. \A f \in Entries : row'[f].status = row[f].status
      BY <2>2, <2>5
    <3>2. UNCHANGED VerdictOf
      BY <3>1, SameVerdicts DEF SameVerdict
    <3> QED
      BY <2>3, <3>2 DEF Unseen
  <2>6. CASE calls # {}
    <3>1. \A e \in calls : Verdict(e) = "given_up" /\ Verdict(e)' = "owed"
      BY <2>2 DEF Verdict
    <3>2. \A e \in Entries \ calls : Verdict(e)' = Verdict(e)
      BY <2>2 DEF Verdict
    <3>3. Recorded(calls, "given_up", "owed")
      BY <2>1, <2>6, <3>1, <3>2, VerdictsMove
    <3> QED
      BY <2>1, <2>3, <2>4, <3>3, PromiseActions
  <2> QED
    BY <2>5, <2>6
<1>13. CASE OperatorStep
  <2>1. Reopen \/ UNCHANGED <<row, effect, completions>>
    BY <1>13 DEF OperatorStep, Requeue, LockForRequeue, sagaVars, Announce, InterruptRequeue, Rollback
  <2> QED
    BY <1>1, <1>12, <2>1
<1>14. ASSUME NEW e \in Entries, GateOpens(e) PROVE Goal
  <2>1. \A f \in Entries : row'[f].status = row[f].status
    BY <1>14 DEF GateOpens, OpenGate, PromiseInv, TypeOK, OutboxTypeOK
  <2> QED
    BY <1>2, <1>14, <2>1, SameVerdicts DEF GateOpens, SameVerdict
<1>15. ASSUME NEW e \in Entries, Expire(e) PROVE Goal
  BY <1>5, <1>15 DEF Expire, Stored
<1>16. CASE UNCHANGED vars
  BY <1>1, <1>16 DEF vars
<1> HIDE DEF Goal
<1> QED
  BY <1>3, <1>4, <1>6, <1>10, <1>11, <1>13, <1>14, <1>15, <1>16 DEF Next, RunOnce

\* While leases hold, the outbox and its runners keep the promise: all they do is one of
\* its steps, or invisible from outside.
THEOREM PromiseIsKept ==
    ASSUME MaxLapses = 0
    PROVE  Spec => KeepsThePromise
<1>1. Init => PromiseInv
  <2>1. Init => Settled
    BY DEF Init, Settled, Finishing, At
  <2> QED
    BY <2>1, TypeInit, LockInvInit, LeaseInvInit, HonestInit DEF PromiseInv
<1>2. PromiseInv /\ [Next]_vars => PromiseInv'
  <2> SUFFICES ASSUME PromiseInv, [Next]_vars PROVE PromiseInv'
    OBVIOUS
  <2>1. ASSUME NEW r \in Runners, NEW e \in Entries, Answer(r, e, "done") PROVE effect'[e]
    <3>1. operationOf[e] = "rectify" => claim[r][e].corrections
      BY <2>1 DEF Answer, PromiseInv, LeaseInv, LeasesHold, CorrectionsKept, Claimable
    <3> QED
      BY <2>1, <3>1 DEF Answer, Applied, PromiseInv, TypeOK
  <2>2. HonestAbout(Entries)'
    BY <2>1, HonestStep DEF PromiseInv
  <2> QED
    BY <2>2, TypeStep, LockInvStep, LeaseInvStep, AnswersKeptStep, DecidedStep, SettledStep DEF PromiseInv
<1>3. Init => Promise!Init
  <2>1. Init => /\ VerdictOf = [e \in Entries |-> "none"]
                /\ AppliedCalls = {} /\ CertifiedCalls = {}
    BY DEF Init, OutboxInit, NoRow, VerdictOf, Verdict, AppliedCalls, CertifiedCalls
  <2> QED
    BY <2>1 DEF Promise!Init, VerdictOf, AppliedCalls, CertifiedCalls
<1>4. PromiseInv /\ PromiseInv' /\ [Next]_vars => [Promise!Next]_(Promise!vars)
  BY PromiseStep DEF PromiseInv
<1> QED
  BY <1>1, <1>2, <1>3, <1>4, PTL DEF Spec, KeepsThePromise, Promise!Spec

-----------------------------------------------------------------------------
(* The budget.  While leases hold, the copy by which a runner decides counts *)
(* the same claims as the row, and nobody else claims the row meanwhile.     *)

CopiesCount == \A r \in Runners : \A e \in held[r] : claim[r][e].attempts = row[e].attempts

LEMMA CopiesCountStep ==
    ASSUME MaxLapses = 0, TypeOK, TypeOK', Idle, LeasesHold, CopiesCount, [Next]_vars
    PROVE  CopiesCount'
<1> SUFFICES ASSUME NEW r \in Runners, NEW e \in held'[r]
             PROVE  claim'[r][e].attempts = row'[e].attempts
  BY DEF CopiesCount
<1>0. e \in Entries
  BY DEF TypeOK
<1>1. CASE Keeps(e)
  BY <1>1 DEF Keeps, SameClaims, CopiesCount
<1>2. CASE Enqueues(e) \/ Reopens(e)
  BY <1>2 DEF Enqueues, Reopens, Abandoned, SameClaims, LeasesHold
<1>3. CASE Opens(e)
  <2>1. e \in held[r] /\ row[e].status = "in_flight"
    BY <1>3 DEF Opens, SameClaims, LeasesHold
  <2>2. lapses < MaxLapses /\ lapses \in 0..MaxLapses
    BY <1>3, <2>1 DEF Opens, GateOpens, Working, TypeOK
  <2> QED
    BY <2>2
<1>4. ASSUME NEW q \in Runners, Takes(q, e) PROVE claim'[r][e].attempts = row'[e].attempts
  <2>1. \A p \in Runners : e \notin held[p]
    BY <1>4 DEF Takes, LeasesHold
  <2>2. q = r
    BY <1>4, <2>1 DEF Takes, SameClaims
  <2> QED
    BY <1>4, <2>2 DEF Takes
<1>5. ASSUME NEW q \in Runners, Books(q, e) \/ Drops(q, e) PROVE FALSE
  BY <1>5 DEF Books, Drops, SameClaims, LeasesHold
<1> QED
  BY <1>0, <1>1, <1>2, <1>3, <1>4, <1>5, EntryStep

\* What the settling transactions and a requeue do to the count.
LEMMA SettledCount ==
    ASSUME TypeOK, NEW r \in Runners, NEW e \in Entries
    PROVE  /\ Retry(r, e) => row'[e].attempts = row[e].attempts /\ ~Exhausted(r, e)
           /\ Parked(r, e) => row'[e].attempts = 0
BY DEF TypeOK, OutboxTypeOK, Retry, MarkFailed, Parked, MarkScheduled, Mark

LEMMA ReopenedCount ==
    ASSUME TypeOK, NEW e \in Entries, Reopens(e)
    PROVE  row'[e].attempts = 0
BY DEF TypeOK, OutboxTypeOK, Reopens, Reopen, CommitRequeue, Abandoned

BudgetInv == LeaseInv /\ CopiesCount /\ WaitingEntriesHaveAttemptsLeft

LEMMA WaitingStep ==
    ASSUME TypeOK, Idle, LeasesHold, CopiesCount, WaitingEntriesHaveAttemptsLeft, [Next]_vars
    PROVE  WaitingEntriesHaveAttemptsLeft'
<1> DEFINE Waiting(e) == row[e].status \in {"pending", "failed", "scheduled"}
<1> SUFFICES ASSUME NEW e \in Entries, Waiting(e)' PROVE row'[e].attempts < MaxAttempts
  BY DEF WaitingEntriesHaveAttemptsLeft
<1>1. MaxAttempts \in Nat /\ 0 < MaxAttempts
  BY SagaAssumption, OutboxAssumption
<1>2. row[e].attempts \in Nat
  BY DEF TypeOK, OutboxTypeOK
<1>3. CASE Keeps(e)
  BY <1>3 DEF Keeps, WaitingEntriesHaveAttemptsLeft
<1>4. CASE Enqueues(e)
  BY <1>1, <1>4 DEF Enqueues
<1>5. CASE Reopens(e)
  BY <1>1, <1>5, ReopenedCount
<1>6. CASE Opens(e)
  <2>1. row'[e].status = row[e].status /\ row'[e].attempts = row[e].attempts
    BY <1>6 DEF Opens, GateOpens, OpenGate, TypeOK, OutboxTypeOK
  <2> QED
    BY <2>1 DEF WaitingEntriesHaveAttemptsLeft
<1>7. ASSUME NEW r \in Runners, Takes(r, e) PROVE FALSE
  BY <1>7 DEF Takes
<1>8. ASSUME NEW r \in Runners, Drops(r, e) PROVE row'[e].attempts < MaxAttempts
  BY <1>8 DEF Drops, WaitingEntriesHaveAttemptsLeft
<1>9. ASSUME NEW r \in Runners, Books(r, e) PROVE row'[e].attempts < MaxAttempts
  <2>1. CASE Commit(r, e) \/ GiveUp(r, e)
    BY <2>1, SettledRow
  <2>2. CASE Parked(r, e)
    BY <1>1, <2>2, SettledCount
  <2>3. CASE Retry(r, e)
    <3>1. claim[r][e].attempts = row[e].attempts
      BY <1>9 DEF Books, CopiesCount
    <3>2. row'[e].attempts = row[e].attempts /\ ~(row[e].attempts >= MaxAttempts)
      BY <2>3, <3>1, SettledCount DEF Exhausted
    <3> QED
      BY <1>1, <1>2, <3>2
  <2> QED
    BY <1>9, <2>1, <2>2, <2>3 DEF Books
<1> HIDE DEF Waiting
<1> QED
  BY <1>3, <1>4, <1>5, <1>6, <1>7, <1>8, <1>9, EntryStep

\* While leases hold, whoever leaves an entry to be tried again leaves it an attempt within
\* its budget, whatever number of passes have broken off with it.
THEOREM WaitingWithinBudget ==
    ASSUME MaxLapses = 0
    PROVE  Spec => []WaitingEntriesHaveAttemptsLeft
<1>1. Init => BudgetInv
  BY LeaseInvInit
     DEF BudgetInv, Init, OutboxInit, NoRow, CopiesCount, WaitingEntriesHaveAttemptsLeft
<1>2. TypeOK /\ BudgetInv /\ [Next]_vars => BudgetInv'
  BY TypeStep, LeaseInvStep, CopiesCountStep, WaitingStep DEF BudgetInv, LeaseInv
<1>3. BudgetInv => WaitingEntriesHaveAttemptsLeft
  BY DEF BudgetInv
<1> QED
  BY <1>1, <1>2, <1>3, TypeCorrect, PTL DEF Spec

-----------------------------------------------------------------------------
(* The completion events.  One more is due to an operation while a runner   *)
(* is about to write it, and one while an entry is left whose success could *)
(* bring another.                                                           *)

Ending(e) == \E r \in Runners : At(r, e, {"completing"})
Certified(e) ==
    \E r \in Runners : /\ At(r, e, {"committing"})
                       /\ \A f \in locked[r] \ {e} : row[f].status = "succeeded"

Completing(e) == \E f \in Entries : SameScope(e, f) /\ Ending(f)
Unfinished(e) ==
    \E f \in Siblings(e) : row[f].status # "succeeded" /\ ~Ending(f) /\ ~Certified(f)

DueEvents(e) == (IF Completing(e) THEN 1 ELSE 0) + (IF Unfinished(e) THEN 1 ELSE 0)

\* The transactions that have enqueued entries of the operation.
Enqueued(e) == {T \in Transactions : T \cap Siblings(e) # {}}

EventsFit(e) == completions[e] + DueEvents(e) <= faults + Cardinality(Enqueued(e))

\* The finishers of the operation of e stay where they are.
SameFinishers(e) ==
    \A r \in Runners, f \in Entries : SameScope(e, f) =>
        /\ At(r, f, {"completing"})' <=> At(r, f, {"completing"})
        /\ At(r, f, {"committing"})' <=> At(r, f, {"committing"})
        /\ Finishing(r, f) => locked'[r] = locked[r]

\* A step of a finisher, or of one who becomes one.
FinisherStep(r, f) ==
    \/ CheckCompletion(r, f) \/ Complete(r, f) \/ Commit(r, f)
    \/ Finishing(r, f) /\ Interrupt(r)

Stays(r, f) == pc'[r] = pc[r] /\ Settling(r, f)' /\ locked'[r] = locked[r]

LEMMA FinishersMove ==
    ASSUME TypeOK, LockInv, [Next]_vars, NEW r \in Runners, NEW f \in Entries,
           ~FinisherStep(r, f)
    PROVE  /\ At(r, f, {"completing"})' <=> At(r, f, {"completing"})
           /\ At(r, f, {"committing"})' <=> At(r, f, {"committing"})
           /\ Finishing(r, f) => locked'[r] = locked[r]
<1>1. ASSUME Finishing(r, f)'
      PROVE  pc'[r] = pc[r] /\ Settling(r, f) /\ locked'[r] = locked[r]
  <2>1. At(r, f, AppendPlaces)'
    BY <1>1 DEF Finishing, At, AppendPlaces, AfterSuccess
  <2>2. ~(Succeed(r, f) \/ Park(r, f) \/ Abandon(r, f))
    BY <1>1 DEF Succeed, Park, Abandon, AppendEvent, Finishing, At, TypeOK
  <2> QED
    BY <2>1, <2>2, PlaceStep DEF FinisherStep
<1>2. ASSUME Finishing(r, f)
      PROVE  pc'[r] = pc[r] /\ Settling(r, f)' /\ locked'[r] = locked[r]
  <2> USE SagaAssumption DEF TypeOK, OutboxTypeOK
  <2> USE DEF Stays
  <2>0. Settling(r, f) /\ pc[r] \in {"completing", "committing"}
    BY <1>2 DEF Finishing, At
  <2>1. CASE pc'[r] = pc[r] /\ held'[r] = held[r] /\ claim'[r] = claim[r] /\ locked'[r] = locked[r]
    BY <2>0, <2>1 DEF Settling
  <2>2. ASSUME NEW q \in Runners, TakeBatch(q) PROVE Stays(r, f)
    <3>1. q # r
      BY <2>0, <2>2 DEF TakeBatch
    <3> QED
      BY <2>1, <2>2, <3>1 DEF TakeBatch, ClaimBatch
  <2>3. ASSUME NEW q \in Runners, NEW g \in Entries, NEW a \in Answers, Answer(q, g, a) PROVE Stays(r, f)
    <3>1. q # r
      BY <2>0, <2>3 DEF Answer
    <3> QED
      BY <2>1, <2>3, <3>1 DEF Answer
  <2>4. ASSUME NEW q \in Runners, NEW g \in Entries, Settle(q, g) PROVE Stays(r, f)
    <3>1. q # r
      <4>1. SUFFICES ASSUME q = r PROVE FALSE
        OBVIOUS
      <4>2. Settling(r, g)
        BY <2>4, <4>1 DEF Settle, Succeed, CheckCompletion, Complete, Commit, Park, Parked,
                          Abandon, GiveUp, Retry
      <4>3. g = f
        BY <2>0, <4>2, OneAtATime
      <4> QED
        BY <2>0, <2>4, <4>1, <4>3 DEF FinisherStep, Settle, Succeed, Park, Parked, Abandon, GiveUp, Retry
    <3>2. CASE Succeed(q, g) \/ Park(q, g) \/ Abandon(q, g)
      BY <2>1, <3>1, <3>2 DEF Succeed, Park, Abandon, AppendEvent
    <3>3. CASE CheckCompletion(q, g) \/ Complete(q, g)
      BY <2>1, <3>1, <3>3 DEF CheckCompletion, LockSiblings, Complete
    <3>4. CASE Commit(q, g)
      BY <2>1, <3>1, <3>4 DEF Commit, CommitSucceeded, Booked
    <3>5. CASE Parked(q, g) \/ GiveUp(q, g) \/ Retry(q, g)
      BY <2>1, <3>1, <3>5 DEF Parked, MarkScheduled, GiveUp, MarkAbandoned, Retry, MarkFailed, Mark, Booked
    <3> QED
      BY <2>4, <3>2, <3>3, <3>4, <3>5 DEF Settle
  <2>5. ASSUME NEW q \in Runners, Interrupt(q) PROVE Stays(r, f)
    <3>1. q # r
      BY <1>2, <2>5 DEF FinisherStep
    <3> QED
      BY <2>1, <2>5, <3>1 DEF Interrupt, Rollback
  <2>6. ASSUME OperatorStep PROVE Stays(r, f)
    <3>1. UNCHANGED <<pc, held, claim>>
      BY <2>6 DEF OperatorStep, Requeue, sagaVars, Announce, Reopen, InterruptRequeue
    <3>2. locked'[r] = locked[r]
      BY <2>6 DEF OperatorStep, Requeue, LockForRequeue, Announce, Reopen, CommitRequeue,
         InterruptRequeue, Rollback
    <3> QED
      BY <2>1, <3>1, <3>2
  <2>7. CASE UNCHANGED <<pc, held, claim, locked>>
    BY <2>1, <2>7
  <2> HIDE DEF TypeOK, OutboxTypeOK
  <2>8. ASSUME NEW T \in Transactions, EnqueueTransaction(T) PROVE Stays(r, f)
    BY <2>7, <2>8 DEF EnqueueTransaction, Enqueue, sagaVars
  <2>9. ASSUME NEW g \in Entries, GateOpens(g) \/ Expire(g) PROVE Stays(r, f)
    BY <2>7, <2>9 DEF GateOpens, OpenGate, Expire
  <2>10. ASSUME UNCHANGED vars PROVE Stays(r, f)
    BY <2>7, <2>10 DEF vars
  <2> HIDE DEF Stays
  <2>11. ASSUME NEW q \in Runners, RunOnce(q) PROVE Stays(r, f)
    BY <2>2, <2>3, <2>4, <2>11 DEF RunOnce
  <2>12. ASSUME Next PROVE Stays(r, f)
    BY <2>5, <2>6, <2>8, <2>9, <2>11, <2>12 DEF Next
  <2>13. Stays(r, f)
    BY <2>10, <2>12
  <2> QED
    BY <2>13 DEF Stays
<1> QED
  BY <1>1, <1>2 DEF Finishing, At

\* While leases hold, what has succeeded stays so.
LEMMA SuccessStays ==
    ASSUME TypeOK, LeaseInv, [Next]_vars, NEW e \in Entries, row[e].status = "succeeded"
    PROVE  row'[e].status = "succeeded"
<1>1. ~Enqueues(e) /\ ~Opens(e) /\ ~Reopens(e)
  BY DEF Enqueues, Opens, GateOpens, OpenGate, Claimable, Reopens, Abandoned
<1>2. ASSUME NEW r \in Runners, Takes(r, e) \/ Books(r, e) \/ Drops(r, e) PROVE FALSE
  BY <1>2 DEF Takes, Books, Drops, LeaseInv, LeasesHold, Claimable
<1> QED
  BY <1>1, <1>2, EntryStep DEF LeaseInv, Keeps

\* Without a step of a finisher nothing more is due to the entries there are.
LEMMA QuietDues ==
    ASSUME TypeOK, LockInv, LeaseInv, [Next]_vars, NEW e \in Entries,
           \A r \in Runners, f \in Entries : SameScope(e, f) => ~FinisherStep(r, f)
    PROVE  /\ Completing(e)' => Completing(e)
           /\ Siblings(e)' = Siblings(e) => (Unfinished(e)' => Unfinished(e))
<1>1. SameFinishers(e)
  BY FinishersMove DEF SameFinishers
<1>2. ASSUME Completing(e)' PROVE Completing(e)
  BY <1>1, <1>2 DEF SameFinishers, Completing, Ending, SameScope
<1>3. ASSUME Siblings(e)' = Siblings(e), Unfinished(e)' PROVE Unfinished(e)
  <2>1. PICK f \in Siblings(e) : row'[f].status # "succeeded" /\ ~Ending(f)' /\ ~Certified(f)'
    BY <1>3 DEF Unfinished
  <2>2. f \in Entries /\ SameScope(e, f) /\ row[f].status # "succeeded"
    BY <2>1, SuccessStays DEF Siblings
  <2>3. ~Ending(f)
    BY <1>1, <2>1, <2>2 DEF SameFinishers, Ending
  <2>4. ~Certified(f)
    <3> SUFFICES ASSUME NEW r \in Runners, At(r, f, {"committing"}),
                        \A g \in locked[r] \ {f} : row[g].status = "succeeded"
                 PROVE  FALSE
      BY DEF Certified
    <3>1. At(r, f, {"committing"})' /\ locked'[r] = locked[r]
      BY <1>1, <2>2 DEF SameFinishers, Finishing, At
    <3>2. locked[r] \subseteq Entries
      BY SagaAssumption DEF TypeOK, OutboxTypeOK
    <3> QED
      BY <2>1, <3>1, <3>2, SuccessStays DEF Certified
  <2> QED
    BY <2>1, <2>2, <2>3, <2>4 DEF Unfinished
<1> QED
  BY <1>2, <1>3

\* What the numbers are.
LEMMA DueTypes ==
    ASSUME TypeOK, IsFiniteSet(Transactions), NEW e \in Entries
    PROVE  /\ DueEvents(e) \in 0..2 /\ faults \in Nat /\ completions[e] \in Nat
           /\ IsFiniteSet(Enqueued(e)) /\ Cardinality(Enqueued(e)) \in Nat
<1>1. IsFiniteSet(Enqueued(e))
  BY FS_Subset DEF Enqueued
<1> QED
  BY <1>1, FS_CardinalityType, SagaAssumption DEF DueEvents, TypeOK

\* Completion events are written by a finisher, about the entries of its operation.
LEMMA CompletionsStay ==
    ASSUME TypeOK, LockInv, [Next]_vars, NEW e \in Entries,
           \A r \in Runners, f \in Entries : SameScope(e, f) => ~Complete(r, f)
    PROVE  completions'[e] = completions[e]
<1>1. ASSUME NEW r \in Runners, NEW f \in Entries, Complete(r, f) PROVE completions'[e] = completions[e]
  <2>1. Finishing(r, f) /\ ~SameScope(e, f)
    BY <1>1 DEF Complete, Finishing, At
  <2>2. e \notin locked[r]
    BY <2>1 DEF LockInv, LocksFit, Siblings, SameScope
  <2> QED
    BY <1>1, <2>2 DEF Complete
<1>2. CASE UNCHANGED completions
  BY <1>2
<1> QED
  BY <1>1, <1>2 DEF Next, vars, EnqueueTransaction, sagaVars, RunOnce, TakeBatch, Answer,
     Settle, Succeed, Park, Abandon, AppendEvent, CheckCompletion, Commit,
     Parked, GiveUp, Retry, Interrupt, OperatorStep, Requeue, Announce, Reopen,
     InterruptRequeue, GateOpens, Expire

\* An operation that has not grown has as many transactions as before; one that has grown
\* has one more at least, and one more event may be due to it.
LEMMA EnqueuedGrows ==
    ASSUME TypeOK, LockInv, IsFiniteSet(Transactions), [Next]_vars, NEW e \in Entries
    PROVE  /\ IsFiniteSet(Enqueued(e)') /\ Cardinality(Enqueued(e)') \in Nat
           /\ Cardinality(Enqueued(e)) <= Cardinality(Enqueued(e)')
           /\ Siblings(e)' # Siblings(e) => Cardinality(Enqueued(e)) < Cardinality(Enqueued(e)')
<1>1. Siblings(e) \subseteq Siblings(e)'
  BY StoredStays DEF Siblings
<1>2. Enqueued(e) \subseteq Enqueued(e)'
  BY <1>1 DEF Enqueued
<1>3. IsFiniteSet(Enqueued(e)')
  BY FS_Subset DEF Enqueued
<1>4. Cardinality(Enqueued(e)) <= Cardinality(Enqueued(e)')
  BY <1>2, <1>3, FS_Subset
<1>5. ASSUME Siblings(e)' # Siblings(e)
      PROVE  Cardinality(Enqueued(e)) < Cardinality(Enqueued(e)')
  <2>1. PICK f \in Entries : f \in Siblings(e)' /\ f \notin Siblings(e)
    BY <1>1, <1>5 DEF Siblings
  <2>2. row[f].status = "absent" /\ row'[f].status # "absent"
    BY <2>1 DEF Siblings, Stored
  <2>3. PICK T \in Transactions : EnqueueTransaction(T) /\ f \in T
    <3>1. ASSUME NEW T \in Transactions, EnqueueTransaction(T) PROVE f \in T
      BY <2>2, <3>1 DEF EnqueueTransaction, Enqueue
    <3>2. ASSUME NEW r \in Runners, NEW g \in Entries, Settle(r, g) PROVE row'[f] = row[f]
      <4>1. f # g
        BY <2>2, <3>2 DEF Settle, Succeed, CheckCompletion, Complete, Commit, Park, Parked, Abandon, GiveUp,
           Retry, Settling, LockInv, HeldIsStored, Stored
      <4> QED
        BY <3>2, <4>1 DEF Settle, Succeed, Park, Abandon, AppendEvent, CheckCompletion, LockSiblings,
           Complete, Commit, CommitSucceeded, Parked, MarkScheduled, GiveUp, MarkAbandoned, Retry,
           MarkFailed, Mark, TypeOK, OutboxTypeOK
    <3>3. ASSUME NEW r \in Runners, TakeBatch(r) PROVE row'[f] = row[f]
      BY <2>2, <3>3 DEF TakeBatch, ClaimBatch, Oldest, Due, Claimable
    <3>4. ASSUME OperatorStep PROVE row'[f] = row[f]
      BY <2>2, <3>4 DEF OperatorStep, Requeue, LockForRequeue, Announce, Reopen, CommitRequeue, Abandoned,
         InterruptRequeue, Rollback
    <3>5. ASSUME NEW g \in Entries, GateOpens(g) PROVE row'[f] = row[f]
      BY <2>2, <3>5 DEF GateOpens, OpenGate, Claimable
    <3>6. \E T \in Transactions : EnqueueTransaction(T)
      BY <2>2, <3>2, <3>3, <3>4, <3>5 DEF Next, vars, RunOnce, Answer, Interrupt, Rollback, Expire
    <3> QED
      BY <3>1, <3>6
  <2>4. T \in Enqueued(e)'
    BY <2>1, <2>3 DEF Enqueued
  <2>5. T \notin Enqueued(e)
    BY <2>3 DEF EnqueueTransaction, Enqueue, Enqueued, Siblings
  <2>6. IsFiniteSet(Enqueued(e)) /\ IsFiniteSet(Enqueued(e)' \ {T})
    BY <1>2, <1>3, FS_Subset
  <2>7. Cardinality(Enqueued(e)' \ {T}) = Cardinality(Enqueued(e)') - 1
    BY <1>3, <2>4, FS_RemoveElement
  <2>8. Enqueued(e) \subseteq Enqueued(e)' \ {T}
    BY <1>2, <2>5
  <2>9. Cardinality(Enqueued(e)) <= Cardinality(Enqueued(e)' \ {T})
    BY <2>6, <2>8, FS_Subset
  <2> QED
    BY <1>3, <2>6, <2>7, <2>9, FS_CardinalityType
<1> QED
  BY <1>3, <1>4, <1>5, FS_CardinalityType

\* Nobody else finishes an entry of the operation that r finishes, now or after the step.
LEMMA OnlyFinisher ==
    ASSUME TypeOK, LockInv, [Next]_vars, NEW r \in Runners, NEW e \in Entries, NEW f \in Entries,
           SameScope(e, f), FinisherStep(r, f), NEW q \in Runners, NEW g \in Entries, SameScope(e, g)
    PROVE  /\ Finishing(q, g) => q = r /\ g = f /\ Finishing(r, f)
           /\ Finishing(q, g)' => q = r /\ g = f
<1>1. SameScope(f, g)
  BY DEF SameScope
<1>2. CheckCompletion(r, f) \/ Finishing(r, f)
  BY DEF FinisherStep, Complete, Commit, Finishing, At
<1>3. ASSUME Finishing(q, g) PROVE q = r /\ g = f /\ Finishing(r, f)
  <2>1. CASE CheckCompletion(r, f)
    <3>1. g \in locked[q] /\ Stored(g)
      BY <1>3 DEF LockInv, LocksFit, Siblings
    <3>2. Unlocked(r, Siblings(f)) /\ pc[r] = "succeeding"
      BY <2>1 DEF CheckCompletion, LockSiblings
    <3> QED
      BY <1>1, <1>3, <3>1, <3>2, SagaAssumption DEF Unlocked, Siblings, Finishing, At
  <2>2. CASE Finishing(r, f)
    <3>1. q = r
      BY <1>1, <1>3, <2>2 DEF LockInv, OneFinisherPerScope, SameScope
    <3> QED
      BY <1>3, <2>2, <3>1, OneAtATime DEF Finishing, At
  <2> QED
    BY <1>2, <2>1, <2>2
<1>4. ASSUME Finishing(q, g)' PROVE q = r /\ g = f
  <2>1. CASE Finishing(q, g)
    BY <1>3, <2>1
  <2>2. CASE CheckCompletion(q, g) /\ UNCHANGED <<row, held, claim>>
    <3>1. CheckCompletion(r, f)
      BY <2>2 DEF FinisherStep, CheckCompletion, Complete, Commit, Booked, Interrupt, Finishing, At,
                  Settling, LockSiblings, TypeOK
    <3>2. q = r
      BY <2>2, <3>1 DEF CheckCompletion, TypeOK
    <3> QED
      BY <2>2, <3>1, <3>2, OneAtATime DEF CheckCompletion
  <2> QED
    BY <1>4, <2>1, <2>2, FinishingStep
<1> QED
  BY <1>3, <1>4

\* The check finds an entry whose success is still to come: its own.
LEMMA CheckDues ==
    ASSUME TypeOK, LockInv, LeaseInv, [Next]_vars, NEW r \in Runners,
           NEW e \in Entries, NEW f \in Entries, SameScope(e, f), CheckCompletion(r, f)
    PROVE  ~Completing(e) /\ Unfinished(e) /\ ~(Completing(e)' /\ Unfinished(e)')
<1>1. FinisherStep(r, f) /\ ~Finishing(r, f) /\ row' = row
  BY DEF FinisherStep, CheckCompletion, LockSiblings, Finishing, At
<1>2. \A q \in Runners, g \in Entries : SameScope(e, g) => ~Finishing(q, g)
  BY <1>1, OnlyFinisher
<1>3. \A g \in Entries : SameScope(e, g) => ~Ending(g) /\ ~Certified(g)
  BY <1>2 DEF Ending, Certified, Finishing, At
<1>4. row[f].status = "in_flight" /\ f \in Siblings(e)
  BY DEF CheckCompletion, Settling, LeaseInv, LeasesHold, Siblings, Stored
<1>5. ~Completing(e) /\ Unfinished(e)
  BY <1>3, <1>4 DEF Completing, Unfinished
<1>6. ASSUME Completing(e)', Unfinished(e)' PROVE FALSE
  <2>1. PICK g \in Entries : SameScope(e, g) /\ Ending(g)'
    BY <1>6 DEF Completing, SameScope
  <2>2. PICK q \in Runners : At(q, g, {"completing"})'
    BY <2>1 DEF Ending
  <2>3. q = r /\ g = f
    BY <1>1, <2>1, <2>2, OnlyFinisher DEF Finishing, At
  <2>4. LastOfItsOperation(f)
    BY <2>2, <2>3 DEF CheckCompletion, At, TypeOK
  <2>5. PICK h \in Siblings(e)' : row'[h].status # "succeeded" /\ ~Ending(h)'
    BY <1>6 DEF Unfinished
  <2>6. h \in Siblings(f)
    BY <1>1, <2>5 DEF Siblings, Stored, SameScope
  <2> QED
    BY <1>1, <2>1, <2>3, <2>4, <2>5, <2>6 DEF LastOfItsOperation
<1> QED
  BY <1>5, <1>6

\* The event that was due has been written, and whoever wrote it needs no other.
LEMMA CompleteDues ==
    ASSUME TypeOK, LockInv, Decided, [Next]_vars, NEW r \in Runners,
           NEW e \in Entries, NEW f \in Entries, SameScope(e, f), Complete(r, f)
    PROVE  Completing(e) /\ ~Completing(e)' /\ (Unfinished(e)' => Unfinished(e))
<1>1. /\ FinisherStep(r, f) /\ Finishing(r, f) /\ At(r, f, {"completing"})
      /\ UNCHANGED <<row, locked>> /\ pc'[r] = "committing" /\ At(r, f, {"committing"})'
  BY DEF FinisherStep, Complete, Finishing, At, Settling, TypeOK
<1>2. Completing(e)
  BY <1>1 DEF Completing, Ending
<1>3. ASSUME Completing(e)' PROVE FALSE
  <2>1. PICK g \in Entries : SameScope(e, g) /\ Ending(g)'
    BY <1>3 DEF Completing, SameScope
  <2>2. PICK q \in Runners : At(q, g, {"completing"})'
    BY <2>1 DEF Ending
  <2>3. q = r
    BY <1>1, <2>1, <2>2, OnlyFinisher DEF Finishing, At
  <2> QED
    BY <1>1, <2>2, <2>3 DEF At
<1>4. ASSUME Unfinished(e)' PROVE Unfinished(e)
  <2>1. PICK g \in Siblings(e)' : row'[g].status # "succeeded" /\ ~Certified(g)'
    BY <1>4 DEF Unfinished
  <2>2. g \in Siblings(e) /\ g \in Entries /\ SameScope(e, g) /\ row[g].status # "succeeded"
    BY <1>1, <2>1 DEF Siblings, Stored, SameScope
  <2>3. Certified(f)'
    BY <1>1 DEF Certified, Decided
  <2>4. \A q \in Runners : ~Finishing(q, g)
    BY <1>1, <2>1, <2>2, <2>3, OnlyFinisher
  <2> QED
    BY <2>2, <2>4 DEF Unfinished, Ending, Certified, Finishing, At
<1> QED
  BY <1>2, <1>3, <1>4

LEMMA CommitDues ==
    ASSUME TypeOK, LockInv, [Next]_vars, NEW r \in Runners,
           NEW e \in Entries, NEW f \in Entries, SameScope(e, f), Commit(r, f)
    PROVE  ~Completing(e)' /\ (Unfinished(e)' => Unfinished(e))
<1>1. /\ FinisherStep(r, f) /\ Finishing(r, f) /\ pc'[r] \in {"idle", "running"}
      /\ row'[f].status = "succeeded" /\ \A g \in Entries \ {f} : row'[g] = row[g]
  BY SettledRow DEF FinisherStep, Commit, Booked, CommitSucceeded, Finishing, At, TypeOK, OutboxTypeOK
<1>2. ASSUME Completing(e)' PROVE FALSE
  <2>1. PICK g \in Entries : SameScope(e, g) /\ Ending(g)'
    BY <1>2 DEF Completing, SameScope
  <2>2. PICK q \in Runners : At(q, g, {"completing"})'
    BY <2>1 DEF Ending
  <2>3. q = r
    BY <1>1, <2>1, <2>2, OnlyFinisher DEF Finishing, At
  <2> QED
    BY <1>1, <2>2, <2>3 DEF At
<1>3. ASSUME Unfinished(e)' PROVE Unfinished(e)
  <2>1. PICK g \in Siblings(e)' : row'[g].status # "succeeded"
    BY <1>3 DEF Unfinished
  <2>2. g # f /\ g \in Siblings(e) /\ g \in Entries /\ SameScope(e, g) /\ row[g].status # "succeeded"
    BY <1>1, <2>1 DEF Siblings, Stored, SameScope
  <2>3. \A q \in Runners : ~Finishing(q, g)
    BY <1>1, <2>2, OnlyFinisher
  <2> QED
    BY <2>2, <2>3 DEF Unfinished, Ending, Certified, Finishing, At
<1> QED
  BY <1>2, <1>3

\* An interrupted finisher may leave its entry to be finished again; that is the fault.
LEMMA InterruptDues ==
    ASSUME TypeOK, LockInv, [Next]_vars, NEW r \in Runners,
           NEW e \in Entries, NEW f \in Entries, SameScope(e, f), FinisherStep(r, f), Interrupt(r)
    PROVE  ~Completing(e)' /\ faults' = faults + 1
<1>1. pc'[r] = "idle" /\ faults' = faults + 1
  BY DEF Interrupt, TypeOK
<1>2. ASSUME NEW g \in Entries, SameScope(e, g), NEW q \in Runners, At(q, g, {"completing"})' PROVE FALSE
  <2>1. q = r
    BY <1>2, OnlyFinisher DEF Finishing, At
  <2> QED
    BY <1>1, <1>2, <2>1 DEF At
<1> QED
  BY <1>1, <1>2 DEF Completing, Ending, SameScope

\* No step makes more events due than it pays for: a further transaction and a fault pay
\* for one each, and an event that is written is due no more.
LEMMA EventsStep ==
    ASSUME TypeOK, TypeOK', LockInv, LeaseInv, Decided, IsFiniteSet(Transactions), [Next]_vars,
           NEW e \in Entries, EventsFit(e)
    PROVE  EventsFit(e)'
<1> DEFINE
      C == completions[e]
      D == DueEvents(e)
      K == Cardinality(Enqueued(e))
<1>1. C \in Nat /\ D \in 0..2 /\ K \in Nat /\ faults \in Nat /\ C + D <= faults + K
  BY DueTypes DEF EventsFit
<1>2. C' \in Nat /\ D' \in 0..2 /\ K' \in Nat /\ faults' \in Nat /\ faults <= faults' /\ K <= K'
  BY DueTypes, CountersGrow, EnqueuedGrows DEF DueEvents, TypeOK
<1>3. SUFFICES C' + D' <= faults' + K'
  BY DEF EventsFit
<1>4. CASE \A r \in Runners, f \in Entries : SameScope(e, f) => ~FinisherStep(r, f)
  <2>1. C' = C
    BY <1>4, CompletionsStay DEF FinisherStep
  <2>2. Completing(e)' => Completing(e)
    BY <1>4, QuietDues
  <2>3. CASE Siblings(e)' = Siblings(e)
    <3>1. Unfinished(e)' => Unfinished(e)
      BY <1>4, <2>3, QuietDues
    <3>2. D' <= D
      BY <2>2, <3>1 DEF DueEvents
    <3> QED
      BY <1>1, <1>2, <2>1, <3>2
  <2>4. CASE Siblings(e)' # Siblings(e)
    <3>1. K < K'
      BY <2>4, EnqueuedGrows
    <3>2. D' <= D + 1
      BY <2>2 DEF DueEvents
    <3> QED
      BY <1>1, <1>2, <2>1, <3>1, <3>2
  <2> QED
    BY <2>3, <2>4
<1>5. ASSUME NEW r \in Runners, NEW f \in Entries, SameScope(e, f), CheckCompletion(r, f)
      PROVE  C' + D' <= faults' + K'
  <2>1. C' = C
    BY <1>5 DEF CheckCompletion
  <2>2. D = 1 /\ D' <= 1
    BY <1>5, CheckDues DEF DueEvents
  <2> QED
    BY <1>1, <1>2, <2>1, <2>2
<1>6. ASSUME NEW r \in Runners, NEW f \in Entries, SameScope(e, f), Complete(r, f)
      PROVE  C' + D' <= faults' + K'
  <2>1. C' = C \/ C' = C + 1
    BY <1>6 DEF Complete
  <2>2. D' <= D - 1
    BY <1>6, CompleteDues DEF DueEvents
  <2> QED
    BY <1>1, <1>2, <2>1, <2>2
<1>7. ASSUME NEW r \in Runners, NEW f \in Entries, SameScope(e, f), Commit(r, f)
      PROVE  C' + D' <= faults' + K'
  <2>1. C' = C
    BY <1>7 DEF Commit
  <2>2. D' <= D
    BY <1>7, CommitDues DEF DueEvents
  <2> QED
    BY <1>1, <1>2, <2>1, <2>2
<1>8. ASSUME NEW r \in Runners, NEW f \in Entries, SameScope(e, f),
             FinisherStep(r, f), Interrupt(r)
      PROVE  C' + D' <= faults' + K'
  <2>1. C' = C
    BY <1>8 DEF Interrupt
  <2>2. D' <= D + 1 /\ faults' = faults + 1
    BY <1>8, InterruptDues DEF DueEvents
  <2> QED
    BY <1>1, <1>2, <2>1, <2>2
<1> QED
  BY <1>4, <1>5, <1>6, <1>7, <1>8 DEF FinisherStep

\* While leases hold, a completion event is repeated only for a reason: a further
\* transaction of the same operation, or a pass that broke off.
THEOREM CompletionsCounted ==
    ASSUME MaxLapses = 0, IsFiniteSet(Transactions)
    PROVE  Spec => []CompletionsAreAccountedFor
<1> DEFINE Inv == TypeOK /\ LockInv /\ LeaseInv /\ Decided /\ (\A e \in Entries : EventsFit(e))
<1>1. Init => Inv
  <2> SUFFICES ASSUME Init, NEW e \in Entries PROVE EventsFit(e)
    BY TypeInit, LockInvInit, LeaseInvInit, HonestInit
  <2>1. completions[e] = 0 /\ faults = 0 /\ Siblings(e) = {}
    BY DEF Init, OutboxInit, NoRow, Siblings, Stored
  <2>2. DueEvents(e) = 0
    BY <2>1 DEF Init, DueEvents, Completing, Unfinished, Ending, At
  <2>3. Cardinality(Enqueued(e)) \in Nat
    BY TypeInit, DueTypes
  <2> QED
    BY <2>1, <2>2, <2>3 DEF EventsFit
<1>2. Inv /\ [Next]_vars => Inv'
  BY TypeStep, LockInvStep, LeaseInvStep, DecidedStep, EventsStep
<1>3. Inv => CompletionsAreAccountedFor
  <2> SUFFICES ASSUME Inv, NEW e \in Entries
               PROVE  completions[e] <= faults + Cardinality(Enqueued(e))
    BY DEF CompletionsAreAccountedFor, Enqueued
  <2> QED
    BY DueTypes DEF EventsFit
<1> QED
  BY <1>1, <1>2, <1>3, PTL DEF Spec

-----------------------------------------------------------------------------
(* One worker drains with one thread, for any number of threads, entries,  *)
(* callers and joins that time out, as long as no two calls overlap.  The  *)
(* strengthening is that the worker knows the thread that is alive, and    *)
(* that a call which is about to replace or to drop the handle has seen    *)
(* its thread ended: without overlap nothing has started it since.         *)

Replacing == {"clearing", "making", "launching", "dropping"}

KnowsItsThread ==
    /\ \A r \in Runners : is_alive(r) => _thread = r
    /\ \A c \in Callers : at[c] \in Replacing => ~is_alive(_thread)

LEMMA KnownFirst == WorkerInit => WorkerTypeOK /\ KnowsItsThread
BY DEF WorkerInit, WorkerTypeOK, KnowsItsThread, ThreadPlaces, Replacing, is_alive

\* What one step does to the worker's own state, whatever the saga does with it.
LEMMA WorkerTypeStep == WorkerTypeOK /\ [WorkerNext]_allVars => WorkerTypeOK'
<1> SUFFICES ASSUME WorkerTypeOK, [WorkerNext]_allVars PROVE WorkerTypeOK'
  OBVIOUS
<1> USE DEF WorkerTypeOK, ThreadPlaces, StartPlaces, StopPlaces
<1>1. CASE Exit
  BY <1>1 DEF Exit
<1>2. ASSUME NEW c \in Callers, start(c) \/ stop(c) \/ GoOn(c) PROVE WorkerTypeOK'
  <2>1. Unused \in Runners \/ ~MakeThread(c)
    BY DEF MakeThread, Unused
  <2> QED
    BY <1>2, <2>1 DEF start, stop, GoOn, AskAlive, ClearStop, MakeThread, LaunchThread, LookForThread,
                      JoinThread, CheckEnded, DropThread, Moves, Goto
<1>3. ASSUME NEW r \in Runners, Drain(r) \/ Raised(r) \/ Cancelled(r) PROVE WorkerTypeOK'
  <2>1. PICK place \in ThreadPlaces : Goto(r, place)
    BY <1>3 DEF Drain, Check, Pass, Sleep, Wake, Raised, Cancelled
  <2>2. UNCHANGED callVars /\ cancelled' \in {cancelled, cancelled \cup {r}}
    BY <1>3 DEF Drain, Check, Pass, Sleep, Wake, Raised, Cancelled
  <2> QED
    BY <2>1, <2>2 DEF Goto, callVars
<1>4. CASE UNCHANGED workerVars
  BY <1>4 DEF workerVars, callVars
<1> QED
  BY <1>1, <1>2, <1>3, <1>4 DEF WorkerNext, allVars

\* A step of start or stop.
LEMMA CallKeeps ==
    ASSUME WorkerTypeOK, KnowsItsThread, OneCallAtATime, NEW c \in Callers, start(c) \/ stop(c) \/ GoOn(c)
    PROVE  KnowsItsThread'
<1> USE DEF WorkerTypeOK, KnowsItsThread, ThreadPlaces, StartPlaces, StopPlaces, Replacing, Moves
<1>1. \A d \in Callers \ {c} : at'[d] \in Replacing => at[d] \in Replacing
  BY DEF start, stop, GoOn, AskAlive, ClearStop, MakeThread, LaunchThread, LookForThread, JoinThread,
         CheckEnded, DropThread
<1>2. ASSUME at[c] # "out", NEW d \in Callers \ {c} PROVE at[d] = "out" /\ at'[d] = "out"
  BY <1>2 DEF OneCallAtATime, GoOn, start, stop, AskAlive, ClearStop, MakeThread, LaunchThread,
              LookForThread, JoinThread, CheckEnded, DropThread
<1>3. CASE start(c) \/ AskAlive(c) \/ CheckEnded(c)
  BY <1>1, <1>3, NoThreadAssumption DEF start, AskAlive, CheckEnded, is_alive
<1>4. CASE ClearStop(c) \/ stop(c) \/ LookForThread(c) \/ JoinThread(c)
  BY <1>1, <1>4 DEF ClearStop, stop, LookForThread, JoinThread, is_alive
<1>5. CASE MakeThread(c)
  <2>1. Unused \in Runners /\ ~is_alive(Unused)
    BY <1>5 DEF MakeThread, Unused
  <2>2. \A r \in Runners : ~is_alive(r)
    BY <1>5 DEF MakeThread
  <2>3. thread' = [thread EXCEPT ![Unused] = "made"] /\ _thread' = Unused
    BY <1>5 DEF MakeThread, Goto
  <2> HIDE DEF Unused
  <2>4. \A r \in Runners : ~is_alive(r)'
    BY <2>1, <2>2, <2>3 DEF is_alive
  <2> QED
    BY <2>1, <2>3, <2>4 DEF is_alive
<1>6. CASE LaunchThread(c)
  <2>1. at[c] = "launching" /\ at'[c] = "out" /\ _thread' = _thread
    BY <1>6 DEF LaunchThread
  <2>2. \A d \in Callers : at'[d] = "out"
    BY <1>2, <2>1
  <2>3. \A r \in Runners : ~is_alive(r)
    BY <2>1
  <2>4. CASE Unstarted(_thread)
    <3>1. _thread \in Runners /\ thread' = [thread EXCEPT ![_thread] = "checking"]
      BY <1>6, <2>4 DEF LaunchThread, Goto, Unstarted
    <3> QED
      BY <2>1, <2>2, <2>3, <3>1 DEF is_alive
  <2>5. CASE ~Unstarted(_thread)
    BY <1>6, <2>1, <2>2, <2>5 DEF LaunchThread, is_alive
  <2> QED
    BY <2>4, <2>5
<1>7. CASE DropThread(c)
  <2>1. \A r \in Runners : ~is_alive(r)
    BY <1>7 DEF DropThread
  <2>2. thread' = thread /\ \A d \in Callers : at'[d] = "out"
    BY <1>2, <1>7 DEF DropThread
  <2> QED
    BY <2>1, <2>2 DEF is_alive
<1> QED
  BY <1>3, <1>4, <1>5, <1>6, <1>7 DEF GoOn

\* A thread that is alive moves, or ends.
LEMMA DrainKeeps ==
    ASSUME WorkerTypeOK, KnowsItsThread, NEW r \in Runners, Drain(r) \/ Raised(r) \/ Cancelled(r)
    PROVE  KnowsItsThread'
<1>1. PICK place \in ThreadPlaces : Goto(r, place)
  BY DEF Drain, Check, Pass, Sleep, Wake, Raised, Cancelled, ThreadPlaces
<1>2. is_alive(r) /\ UNCHANGED <<_thread, at>>
  BY DEF Drain, Check, Pass, Sleep, Wake, Raised, Cancelled, is_alive, callVars
<1>3. \A q \in Runners : is_alive(q)' => is_alive(q)
  BY <1>1, <1>2 DEF Goto, WorkerTypeOK, is_alive
<1>4. is_alive(_thread)' => is_alive(_thread)
  BY <1>2, <1>3 DEF is_alive
<1> QED
  BY <1>2, <1>3, <1>4 DEF KnowsItsThread

LEMMA NextKeeps ==
    ASSUME WorkerTypeOK, KnowsItsThread, OneCallAtATime, [WorkerNext]_allVars
    PROVE  KnowsItsThread'
<1>1. CASE Exit
  BY <1>1 DEF KnowsItsThread, Exit, Replacing, is_alive
<1>2. CASE UNCHANGED workerVars
  BY <1>2 DEF KnowsItsThread, workerVars, callVars, is_alive
<1> QED
  BY <1>1, <1>2, CallKeeps, DrainKeeps DEF WorkerNext, allVars

\* As long as no two calls of start and stop overlap, two drain loops are never alive at once,
\* however timed-out joins, failing passes and the end of the process come in between.
THEOREM OneLoop == WorkerSpec /\ []OneCallAtATime => []OneDrainLoop
<1>1. KnowsItsThread => OneDrainLoop
  BY DEF KnowsItsThread, OneDrainLoop
<1>2. WorkerTypeOK /\ KnowsItsThread /\ OneCallAtATime /\ [WorkerNext]_allVars => KnowsItsThread'
  BY NextKeeps
<1> QED
  BY <1>1, <1>2, KnownFirst, WorkerTypeStep, PTL DEF WorkerSpec

=============================================================================
