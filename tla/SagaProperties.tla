--------------------------- MODULE SagaProperties ---------------------------
(***************************************************************************)
(* What the saga of SagaRunner must and must not do.  The first group      *)
(* holds of every behaviour; the second only when no lease runs out under  *)
(* a working runner (MaxLapses = 0), which is the operating condition the  *)
(* lease parameter of claim_batch asks for.                                *)
(***************************************************************************)
EXTENDS SagaRunner

\* A terminal row keeps no corrected personal data: mark_succeeded and
\* mark_abandoned clear the payload, and no late mark brings it back.
TerminalRowsKeepNoCorrections ==
    \A e \in Entries : row[e].status \in Terminal => ~row[e].payload

\* No recorded outcome lacks its audit event, whatever fails in between: a
\* success, an abandonment and a parked schedule were each appended first.
EveryOutcomeIsAudited ==
    \A e \in Entries :
        /\ row[e].status = "succeeded" => Event("step_succeeded", e) \in trail
        /\ row[e].status = "abandoned" => Event("step_failed", e) \in trail
        /\ row[e].status = "scheduled" => Event("expiry_scheduled", e) \in trail

\* mark_succeeded never records the last success of a subject's operation
\* without its completion event: two runners finishing the last two entries,
\* or an entry enqueued in between, cannot make both of them miss it.
CompletionIsNeverLost ==
    \A e \in Entries :
        Stored(e) /\ (\A f \in Siblings(e) : row[f].status = "succeeded")
            => completions[e] > 0

\* ERASURE_COMPLETED is true when it is written and stays true: the external
\* system of every erase entry it covers has applied the erasure, or has been
\* seen to have expired the data.
ErasureCompletionIsHonest ==
    \A e \in Entries :
        operationOf[e] = "erase" /\ completions[e] > 0 => effect[e]

-----------------------------------------------------------------------------

\* RECTIFICATION_COMPLETED is as true as ERASURE_COMPLETED: nothing completes
\* a rectification whose corrections were never sent.
CompletionIsHonest == \A e \in Entries : completions[e] > 0 => effect[e]

\* Whoever leaves an entry to be tried again, an enqueue, a retry, a park or a requeue,
\* leaves it an attempt within its budget, however many claims of it have crashed: claims
\* are counted in the row and the budget is applied to the runner's copy.  Only an entry
\* whose claims all end before their outcome is booked is in flight beyond the budget.
WaitingEntriesHaveAttemptsLeft ==
    \A e \in Entries :
        row[e].status \in {"pending", "failed", "scheduled"} => row[e].attempts < MaxAttempts

\* An outcome is final: a succeeded row never changes again, and an abandoned
\* one only returns to pending, through requeue, after its event, and never
\* for a rectification.
OutcomesAreFinal ==
    [][\A e \in Entries :
         row[e].status \in Terminal /\ row'[e] # row[e]
           => /\ row[e].status = "abandoned"
              /\ row'[e].status = "pending"
              /\ operationOf[e] = "erase"
              /\ e \in announced /\ Event("requeued", e) \in trail]_vars

\* Completion events are repeated only for a reason: a further transaction of
\* the same subject and operation, or a pass that ended between the append of
\* the event and the commit of the row.
CompletionsAreAccountedFor ==
    \A e \in Entries :
        completions[e] <= faults +
            Cardinality({T \in Transactions : T \cap Siblings(e) # {}})

\* Seen from outside, a row is owed until it is terminal, and the completion
\* events are the certificates.
Verdict(e) ==
    CASE row[e].status = "absent"    -> "none"
      [] row[e].status = "succeeded" -> "delivered"
      [] row[e].status = "abandoned" -> "given_up"
      [] OTHER                       -> "owed"

Promise == INSTANCE DeliveryPromise WITH
    Calls <- Entries,
    verdict <- [e \in Entries |-> Verdict(e)],
    applied <- {e \in Entries : effect[e]},
    certified <- {e \in Entries : completions[e] > 0}

\* The outbox and its runners keep the promise of DeliveryPromise: whatever
\* they do is one of its steps, or invisible from outside.
KeepsThePromise == Promise!Spec

=============================================================================
