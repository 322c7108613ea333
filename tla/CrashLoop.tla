------------------------------- MODULE CrashLoop -------------------------------
(***************************************************************************)
(* A saga with an entry whose resolver call ends the process, whenever a   *)
(* pass has claimed it: before its answer, after it, or before its batch   *)
(* is booked.  A new process goes on with what the lease has freed.        *)
(***************************************************************************)
EXTENDS SagaRunner

CONSTANT Poison     \* the entries that crash their runner every time

\* The process dies in the middle of a pass.  Unlike Interrupt it is not counted.
Crash(r) ==
    /\ held[r] \cap Poison # {}
    /\ Rollback(r)
    /\ pc' = [pc EXCEPT ![r] = "idle"]
    /\ held' = [held EXCEPT ![r] = {}]
    /\ claim' = [claim EXCEPT ![r] = [e \in Entries |-> NoClaim]]
    /\ UNCHANGED <<effect, trail, completions, announced, faults, lapses>>

\* A pass that has claimed such an entry only ever gets as far as an answer.
CrashingPass(r) ==
    \/ TakeBatch(r)
    \/ \E e \in Entries, a \in Answers : Answer(r, e, a)
    \/ held[r] \cap Poison = {} /\ \E e \in Entries : Settle(r, e)

LoopNext ==
    \/ \E T \in Transactions : EnqueueTransaction(T)
    \/ \E r \in Runners : CrashingPass(r) \/ Crash(r)
    \/ \E e \in Entries : GateOpens(e)

\* A process that has died is started again, and gates open with time.
LoopSpec ==
    /\ Init /\ [][LoopNext]_vars
    /\ \A r \in Runners : WF_vars(CrashingPass(r)) /\ WF_vars(Crash(r))
    /\ \A e \in Entries : WF_vars(GateOpens(e))

-----------------------------------------------------------------------------

\* "The claim is the attempt, so an entry that crashes its runner every time still
\* converges to abandonment" (saga/outbox.py:113).
CrashLoopsConverge ==
    \A e \in Poison : Stored(e) ~> row[e].status = "abandoned"

=============================================================================
