------------------------------- MODULE Outbox -------------------------------
(***************************************************************************)
(* The saga outbox (saga/outbox.py): the database table that holds the     *)
(* external calls still owed for an erasure or a rectification, and the    *)
(* row locks its transactions hold.  Every operator here is one database   *)
(* transaction of Outbox, or one step of a transaction that other sessions *)
(* can see between; the module SagaRunner composes them with the runners,  *)
(* the operator and the audit trail.                                       *)
(*                                                                         *)
(* Data that no property tells apart is abstracted: a row's resolver, ref  *)
(* and last_error are left out, its payload is the question whether it     *)
(* still carries corrections, and next_attempt_at is the question whether  *)
(* the gate is open (NULL or past).                                        *)
(***************************************************************************)
EXTENDS Naturals, FiniteSets

CONSTANTS
    Entries,        \* entry ids, numbered in claim order (enqueued_at, entry_id)
    subjectOf,      \* the subject_id column
    operationOf,    \* the operation column: "erase" or "rectify"
    Sessions,       \* the database sessions that can hold row locks
    MaxCounted      \* bound: the attempts of a row are counted up to here

ASSUME OutboxAssumption ==
    /\ MaxCounted \in Nat
    /\ Entries \subseteq Nat
    /\ DOMAIN subjectOf = Entries
    /\ operationOf \in [Entries -> {"erase", "rectify"}]

VARIABLES
    row,        \* row[e]: the outbox row of entry e
    locked      \* locked[s]: the rows session s holds FOR UPDATE

outboxVars == <<row, locked>>

Statuses == {"absent", "pending", "in_flight", "scheduled", "failed",
             "succeeded", "abandoned"}

\* _CLAIMABLE: every status a claim may pick up again.
Claimable == {"pending", "failed", "in_flight", "scheduled"}

Terminal == {"succeeded", "abandoned"}

Row == [status: Statuses, attempts: Nat, due: BOOLEAN, payload: BOOLEAN]

NoRow == [status |-> "absent", attempts |-> 0, due |-> FALSE, payload |-> FALSE]

OutboxTypeOK ==
    /\ row \in [Entries -> Row]
    /\ locked \in [Sessions -> SUBSET Entries]

OutboxInit ==
    /\ row = [e \in Entries |-> NoRow]
    /\ locked = [s \in Sessions |-> {}]

-----------------------------------------------------------------------------

Stored(e) == row[e].status # "absent"

SameScope(e, f) ==
    /\ subjectOf[e] = subjectOf[f]
    /\ operationOf[e] = operationOf[f]

\* The rows mark_succeeded selects: the subject's entries of the operation.
Siblings(e) == {f \in Entries : SameScope(e, f) /\ Stored(f)}

\* No other session holds one of the rows: a FOR UPDATE or an UPDATE by s
\* would not have to wait.
Unlocked(s, rows) == \A t \in Sessions \ {s} : locked[t] \cap rows = {}

-----------------------------------------------------------------------------

\* enqueue, seen from outside: the caller's transaction commits its entries,
\* all of them or none.
Enqueue(entries) ==
    /\ \A e \in entries : ~Stored(e)
    /\ row' = [e \in Entries |->
                 IF e \in entries
                 THEN [status |-> "pending", attempts |-> 0, due |-> TRUE,
                       payload |-> operationOf[e] = "rectify"]
                 ELSE row[e]]
    /\ UNCHANGED locked

\* What claim_batch's query can return: due, not terminal, and not locked by
\* a session that is still open (SKIP LOCKED).
Due == {e \in Entries : /\ row[e].status \in Claimable
                        /\ row[e].due
                        /\ \A s \in Sessions : e \notin locked[s]}

\* The oldest limit entries of a set.
Oldest(entries, limit) ==
    {e \in entries : Cardinality({f \in entries : f < e}) < limit}

\* One more attempt.  The column counts on beyond the bound; nothing reads it but the
\* comparison with max_attempts, which is below it.
OneMore(attempts) == IF attempts < MaxCounted THEN attempts + 1 ELSE attempts

\* claim_batch's update: the claim is the attempt, and the lease closes the gate.
ClaimBatch(batch) ==
    /\ row' = [e \in Entries |->
                 IF e \in batch
                 THEN [status |-> "in_flight", due |-> FALSE,
                       attempts |-> OneMore(row[e].attempts),
                       payload |-> row[e].payload]
                 ELSE row[e]]
    /\ UNCHANGED locked

\* Mutant: the completion check locks the finished row instead of its siblings.
LockOwnRow(s, e) ==
    /\ Unlocked(s, {e})
    /\ locked' = [locked EXCEPT ![s] = {e}]
    /\ UNCHANGED row

\* mark_succeeded, first half: SELECT the siblings FOR UPDATE.  The update
\* that follows is invisible until the commit.
LockSiblings(s, e) ==
    /\ Unlocked(s, Siblings(e))
    /\ locked' = [locked EXCEPT ![s] = Siblings(e)]
    /\ UNCHANGED row

\* Mutants: an abandoned sibling counts as finished; every success is the last.
NoSiblingIsOpen(e) == \A f \in Siblings(e) \ {e} : row[f].status \in Terminal
EverySuccessIsLast(e) == e \in Entries

\* The completion check, made while the locks are held.
LastOfItsOperation(e) ==
    \A f \in Siblings(e) \ {e} : row[f].status = "succeeded"

\* mark_succeeded, second half: the commit publishes the update and frees the rows.
CommitSucceeded(s, e) ==
    /\ row' = [row EXCEPT ![e] = [status |-> "succeeded", due |-> TRUE,
                                  attempts |-> row[e].attempts,
                                  payload |-> FALSE]]
    /\ locked' = [locked EXCEPT ![s] = {}]

\* A transaction ends without committing: an exception or a lost connection.
Rollback(s) ==
    /\ locked' = [locked EXCEPT ![s] = {}]
    /\ UNCHANGED row

\* The three marks below are single updates keyed by entry_id alone: they
\* test neither the row's status nor whose claim it is.
Mark(s, e, values) ==
    /\ Unlocked(s, {e})
    /\ row' = [row EXCEPT ![e] = values]
    /\ UNCHANGED locked

MarkFailed(s, e) ==
    Mark(s, e, [status |-> "failed", due |-> FALSE,
                attempts |-> row[e].attempts, payload |-> row[e].payload])

MarkScheduled(s, e) ==
    Mark(s, e, [status |-> "scheduled", due |-> FALSE,
                attempts |-> 0, payload |-> row[e].payload])

\* Mutant: the abandoned row keeps its payload for the operator to look at.
MarkAbandonedKeeping(s, e) ==
    Mark(s, e, [status |-> "abandoned", due |-> TRUE,
                attempts |-> row[e].attempts, payload |-> row[e].payload])

MarkAbandoned(s, e) ==
    Mark(s, e, [status |-> "abandoned", due |-> TRUE,
                attempts |-> row[e].attempts, payload |-> FALSE])

-----------------------------------------------------------------------------

\* requeue, first step: lock the rows behind the ids, keep the abandoned ones
\* and refuse the whole call when one of them is a rectify entry.
Abandoned(rows) == {e \in rows : row[e].status = "abandoned"}

\* Mutant: requeue without _reject_rectify_entries.
LockForRequeueOfAny(s, ids) ==
    LET rows == {e \in ids : Stored(e)}
    IN  /\ Abandoned(rows) # {}
        /\ Unlocked(s, rows)
        /\ locked' = [locked EXCEPT ![s] = rows]
        /\ UNCHANGED row

LockForRequeue(s, ids) ==
    LET rows == {e \in ids : Stored(e)}
    IN  /\ Abandoned(rows) # {}
        /\ \A e \in Abandoned(rows) : operationOf[e] = "erase"
        /\ Unlocked(s, rows)
        /\ locked' = [locked EXCEPT ![s] = rows]
        /\ UNCHANGED row

\* requeue, last step: flip the abandoned rows with a fresh budget and commit.
CommitRequeue(s) ==
    /\ row' = [e \in Entries |->
                 IF e \in Abandoned(locked[s])
                 THEN [status |-> "pending", attempts |-> 0, due |-> TRUE,
                       payload |-> row[e].payload]
                 ELSE row[e]]
    /\ locked' = [locked EXCEPT ![s] = {}]

\* Time passes a row's next_attempt_at: a backoff, a horizon or a lease ends.
OpenGate(e) ==
    /\ row[e].status \in Claimable
    /\ ~row[e].due
    /\ row' = [row EXCEPT ![e] = [status |-> row[e].status, due |-> TRUE,
                                  attempts |-> row[e].attempts,
                                  payload |-> row[e].payload]]
    /\ UNCHANGED locked

=============================================================================
