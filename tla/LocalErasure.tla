---------------------------- MODULE LocalErasure ----------------------------
(***************************************************************************)
(* The local phase of an erasure: ErasurePlanner.erase_subject running in  *)
(* its caller's transaction, with or without the SubjectErasureLock, while *)
(* the application keeps writing rows of the same subject.                 *)
(*                                                                         *)
(* A call's transaction is invisible to the others until it commits; the   *)
(* audit trail is not part of it, because DatabaseAuditSink commits every  *)
(* event on its own.  The database is PostgreSQL at READ COMMITTED: every  *)
(* statement sees what is committed when it runs, a statement that needs a *)
(* row another transaction has locked waits, and an insert that references *)
(* a parent row holds FOR KEY SHARE on it until its transaction ends.      *)
(***************************************************************************)
EXTENDS Naturals, Sequences, FiniteSets

CONSTANTS
    Calls,          \* concurrent erase_subject calls, each with its own session
    Writers,        \* application sessions that insert rows
    Subjects,
    Rows,           \* the rows that may come to exist
    Initial,        \* the rows stored at the start
    ownerOf,        \* the subject whose hop chain reaches the row
    tableOf,        \* the table of a row
    parentOf,       \* the row its foreign key references; a subject row's own self
    Plans,          \* the plans modelled: an erasure strategy for every table
    SubjectTable,   \* tables are numbered in deletion order, the subject table last
    NoRow,
    Locking,        \* a SubjectErasureLock is wired to the planner
    MaxCalls,       \* bound: erase_subject calls that may start
    MaxFaults       \* bound: calls that fail or are given up

Tables == 1..SubjectTable
Strategies == {"delete", "anonymize", "retain"}

ASSUME ErasureAssumption ==
    /\ SubjectTable \in Nat \ {0}
    /\ Plans \subseteq [Tables -> Strategies]
    /\ Initial \subseteq Rows
    /\ NoRow \notin Rows
    /\ Locking \in BOOLEAN
    /\ MaxCalls \in Nat
    /\ MaxFaults \in Nat

ASSUME SchemaAssumption ==
    /\ ownerOf \in [Rows -> Subjects]
    /\ tableOf \in [Rows -> Tables]
    /\ parentOf \in [Rows -> Rows]
    /\ \A r \in Rows : /\ tableOf[r] = SubjectTable <=> parentOf[r] = r
                       /\ tableOf[r] # SubjectTable => tableOf[r] < tableOf[parentOf[r]]
                       /\ ownerOf[parentOf[r]] = ownerOf[r]
    /\ \A r \in Initial : parentOf[r] \in Initial

\* _check_conflicts: no table keeps its rows below a table that loses its own;
\* a planner for such a data map cannot be built.
ASSUME PlanAssumption ==
    \A plan \in Plans : \A r \in Rows :
        plan[tableOf[parentOf[r]]] = "delete" => plan[tableOf[r]] = "delete"

VARIABLES
    strategyOf, \* the plan of the data map, which no call changes
    stored,     \* the committed rows
    personal,   \* the committed rows whose erasable cells hold personal data
    tombstone,  \* the committed effaced_subject_erasures row of each subject
    owed,       \* committed transactions that enqueued the subject's external calls
    trail,      \* the audit trail, in the order of its appends
    place,      \* place[c]: where call c is in erase_subject
    subject,    \* subject[c]: the subject it erases
    next,       \* next[c]: the next table of its plan
    wiped,      \* wiped[c]: rows its uncommitted steps have deleted or anonymized
    anchors,    \* anchors[c]: the subject rows it holds FOR UPDATE
    writing,    \* writing[w]: the row an open application transaction has inserted
    calls,      \* calls started so far
    faults      \* calls that failed or were given up so far

database == <<strategyOf, stored, personal, tombstone, owed>>
transaction == <<subject, next, wiped, anchors>>
vars == <<strategyOf, stored, personal, tombstone, owed, trail, place, subject, next, wiped,
          anchors, writing, calls, faults>>

Places == {"idle", "locking", "anchoring", "requesting", "stepping", "enqueueing",
           "completing", "committing"}

EventTypes == {"requested", "step_succeeded", "step_failed", "local_completed"}

\* A tombstone in "requested" is written by acquire and overwritten by mark_erased.
TombstoneStatuses == {"absent", "requested", "completed"}

Event(type, s) == [type |-> type, subject |-> s]

TypeOK ==
    /\ strategyOf \in Plans
    /\ stored \subseteq Rows
    /\ personal \subseteq stored
    /\ tombstone \in [Subjects -> TombstoneStatuses]
    /\ owed \in [Subjects -> Nat]
    /\ trail \in Seq([type : EventTypes, subject : Subjects])
    /\ place \in [Calls -> Places]
    /\ subject \in [Calls -> Subjects]
    /\ next \in [Calls -> Tables]
    /\ wiped \in [Calls -> SUBSET Rows]
    /\ anchors \in [Calls -> SUBSET Rows]
    /\ writing \in [Writers -> Rows \cup {NoRow}]
    /\ calls \in 0..MaxCalls
    /\ faults \in 0..MaxFaults

Init ==
    /\ strategyOf \in Plans
    /\ stored = Initial
    /\ personal = Initial
    /\ tombstone = [s \in Subjects |-> "absent"]
    /\ owed = [s \in Subjects |-> 0]
    /\ trail = <<>>
    /\ place = [c \in Calls |-> "idle"]
    /\ subject \in [Calls -> Subjects]
    /\ next = [c \in Calls |-> 1]
    /\ wiped = [c \in Calls |-> {}]
    /\ anchors = [c \in Calls |-> {}]
    /\ writing = [w \in Writers |-> NoRow]
    /\ calls = 0
    /\ faults = 0

-----------------------------------------------------------------------------

Goto(c, p) == place' = [place EXCEPT ![c] = p]

Audit(c, type) == trail' = Append(trail, Event(type, subject[c]))

\* Who owns a tombstone: everyone between its upsert and the end of the transaction.
HoldsTombstone(c, s) ==
    Locking /\ subject[c] = s /\ place[c] \notin {"idle", "locking"}

\* The parents that open application transactions hold FOR KEY SHARE.
Referenced == {parentOf[writing[w]] : w \in {v \in Writers : writing[v] # NoRow}}

\* erase_subject starts; its plan and outbox entries are valid, or it had raised
\* before doing anything.
EraseSubject(c, s) ==
    /\ place[c] = "idle"
    /\ calls < MaxCalls
    /\ calls' = calls + 1
    /\ subject' = [subject EXCEPT ![c] = s]
    /\ Goto(c, IF Locking THEN "locking" ELSE "requesting")
    /\ UNCHANGED <<database, trail, next, wiped, anchors, writing, faults>>

\* Mutant: the tombstone is written but nobody waits for its row.
UpsertWithoutLock(c) ==
    /\ place[c] = "locking"
    /\ Goto(c, "anchoring")
    /\ UNCHANGED <<database, trail, transaction, writing, calls, faults>>

\* acquire: _upsert_tombstone and _lock_tombstone wait for a call that holds it.
LockTombstone(c) ==
    /\ place[c] = "locking"
    /\ \A d \in Calls \ {c} : ~HoldsTombstone(d, subject[c])
    /\ Goto(c, "anchoring")
    /\ UNCHANGED <<database, trail, transaction, writing, calls, faults>>

\* The rows that the statements of other calls have locked.
LockedByOthers(c) == UNION {wiped[d] \cup anchors[d] : d \in Calls \ {c}}

\* The subject rows that are there to be locked.
Anchors(s) == {r \in stored : tableOf[r] = SubjectTable /\ ownerOf[r] = s}

\* Mutant: the subject rows are locked in a mode that open inserts do not conflict with.
LockAnchorsBesideInserts(c) ==
    /\ place[c] = "anchoring"
    /\ Anchors(subject[c]) \cap LockedByOthers(c) = {}
    /\ anchors' = [anchors EXCEPT ![c] = Anchors(subject[c])]
    /\ Goto(c, "requesting")
    /\ UNCHANGED <<database, trail, subject, next, wiped, writing, calls, faults>>

\* acquire: _lock_anchor_rows waits for open inserts that reference them.
LockAnchors(c) ==
    /\ place[c] = "anchoring"
    /\ Anchors(subject[c]) \cap (Referenced \cup LockedByOthers(c)) = {}
    /\ anchors' = [anchors EXCEPT ![c] = Anchors(subject[c])]
    /\ Goto(c, "requesting")
    /\ UNCHANGED <<database, trail, subject, next, wiped, writing, calls, faults>>

Request(c) ==
    /\ place[c] = "requesting"
    /\ Audit(c, "requested")
    /\ Goto(c, "stepping")
    /\ UNCHANGED <<database, transaction, writing, calls, faults>>

\* Mutant: the plan walks from the subject table down.
ParentsFirst(c) == {r \in stored \ wiped[c] : /\ ownerOf[r] = subject[c]
                                              /\ tableOf[r] = SubjectTable + 1 - next[c]}

\* The rows of the next step, located through the hop chain.
Targets(c) == {r \in stored \ wiped[c] : /\ ownerOf[r] = subject[c]
                                         /\ tableOf[r] = next[c]}

\* The statement of the next step does not have to wait: nobody else has locked
\* its rows, and no open insert references a row it deletes.
Granted(c) ==
    /\ strategyOf[next[c]] # "retain" => Targets(c) \cap LockedByOthers(c) = {}
    /\ strategyOf[next[c]] = "delete" => Targets(c) \cap Referenced = {}

\* Rows that would lose their parent: the database refuses the delete.
Orphans(c) == {r \in stored \ (wiped[c] \cup Targets(c)) :
                 parentOf[r] \in Targets(c) /\ strategyOf[next[c]] = "delete"}

\* The loop over the steps of the plan.
Advance(c) ==
    IF next[c] = SubjectTable THEN Goto(c, "enqueueing") /\ UNCHANGED next
    ELSE next' = [next EXCEPT ![c] = next[c] + 1] /\ UNCHANGED place

\* One step of _run_local_steps and its event.
Step(c) ==
    /\ place[c] = "stepping"
    /\ Granted(c)
    /\ Orphans(c) = {}
    /\ wiped' = [wiped EXCEPT ![c] = IF strategyOf[next[c]] = "retain" THEN wiped[c]
                                     ELSE wiped[c] \cup Targets(c)]
    /\ Audit(c, "step_succeeded")
    /\ Advance(c)
    /\ UNCHANGED <<database, subject, anchors, writing, calls, faults>>

\* Mutant: the outbox entries are written in a transaction of their own.
EnqueueOutside(c) ==
    /\ place[c] = "enqueueing"
    /\ owed' = [owed EXCEPT ![subject[c]] = owed[subject[c]] + 1]
    /\ Goto(c, "completing")
    /\ UNCHANGED <<strategyOf, stored, personal, tombstone, trail, transaction, writing, calls, faults>>

\* outbox.enqueue and mark_erased: both write in the caller's session, on rows
\* nobody else can touch, and show only with its commit.
EnqueueAndMark(c) ==
    /\ place[c] = "enqueueing"
    /\ Goto(c, "completing")
    /\ UNCHANGED <<database, trail, transaction, writing, calls, faults>>

\* Mutant: the caller commits although the last append has failed.
CompleteUnrecorded(c) ==
    /\ place[c] = "completing"
    /\ Audit(c, "local_completed") \/ UNCHANGED trail
    /\ Goto(c, "committing")
    /\ UNCHANGED <<database, transaction, writing, calls, faults>>

LocalCompleted(c) ==
    /\ place[c] = "completing"
    /\ Audit(c, "local_completed")
    /\ Goto(c, "committing")
    /\ UNCHANGED <<database, transaction, writing, calls, faults>>

\* Mutant: a session that outlives its transaction keeps the row locks.
CloseKeepingLocks(c) ==
    /\ Goto(c, "idle")
    /\ next' = [next EXCEPT ![c] = 1]
    /\ wiped' = [wiped EXCEPT ![c] = {}]
    /\ UNCHANGED <<subject, anchors, writing, calls>>

\* The transaction ends and lets its locks go.
Close(c) ==
    /\ Goto(c, "idle")
    /\ next' = [next EXCEPT ![c] = 1]
    /\ wiped' = [wiped EXCEPT ![c] = {}]
    /\ anchors' = [anchors EXCEPT ![c] = {}]
    /\ UNCHANGED <<subject, writing, calls>>

\* The caller commits: rows, tombstone and outbox entries together.
Commit(c) ==
    /\ place[c] = "committing"
    /\ stored' = {r \in stored : r \in wiped[c] => strategyOf[tableOf[r]] # "delete"}
    /\ personal' = personal \ wiped[c]
    /\ tombstone' = IF Locking THEN [tombstone EXCEPT ![subject[c]] = "completed"]
                    ELSE tombstone
    /\ owed' = [owed EXCEPT ![subject[c]] = owed[subject[c]] + 1]
    /\ Close(c)
    /\ UNCHANGED <<strategyOf, trail, faults>>

\* An Exception in a step, in its append or in the enqueue: STEP_FAILED is
\* appended if the sink still works, erase_subject raises, the caller rolls back.
StepFailed(c) ==
    /\ place[c] \in {"stepping", "enqueueing"}
    /\ faults < MaxFaults
    /\ faults' = faults + 1
    /\ Audit(c, "step_failed")
    /\ Close(c)
    /\ UNCHANGED database

\* The same end, when the step is a delete that leaves orphans.
Refused(c) ==
    /\ place[c] = "stepping"
    /\ Granted(c)
    /\ Orphans(c) # {}
    /\ Audit(c, "step_failed")
    /\ Close(c)
    /\ UNCHANGED <<database, faults>>

\* Every other end without a commit: the process dies, the sink is down, the
\* connection is lost, the caller rolls back a finished erasure.
RollBack(c) ==
    /\ place[c] # "idle"
    /\ faults < MaxFaults
    /\ faults' = faults + 1
    /\ Close(c)
    /\ UNCHANGED <<database, trail>>

-----------------------------------------------------------------------------
(* The application, whose code is not under src/.                          *)

\* An open transaction inserts a row of the subject.  It waits for a parent that
\* is locked FOR UPDATE or deleted; an anonymized parent does not stop it.
Insert(w, r) ==
    /\ writing[w] = NoRow
    /\ r \notin stored
    /\ \A v \in Writers : writing[v] # r
    /\ tableOf[r] # SubjectTable =>
         /\ parentOf[r] \in stored
         /\ \A c \in Calls : /\ parentOf[r] \notin anchors[c]
                             /\ strategyOf[tableOf[parentOf[r]]] = "delete"
                                  => parentOf[r] \notin wiped[c]
    /\ writing' = [writing EXCEPT ![w] = r]
    /\ UNCHANGED <<database, trail, place, transaction, calls, faults>>

Inserted(w) ==
    /\ writing[w] # NoRow
    /\ stored' = stored \cup {writing[w]}
    /\ personal' = personal \cup {writing[w]}
    /\ writing' = [writing EXCEPT ![w] = NoRow]
    /\ UNCHANGED <<strategyOf, tombstone, owed, trail, place, transaction, calls, faults>>

-----------------------------------------------------------------------------

\* erase_subject and its caller go on.
Proceed(c) ==
    \/ LockTombstone(c) \/ LockAnchors(c)
    \/ Request(c) \/ Step(c) \/ Refused(c)
    \/ EnqueueAndMark(c) \/ LocalCompleted(c)
    \/ Commit(c)

Next ==
    \/ \E c \in Calls : \/ \E s \in Subjects : EraseSubject(c, s)
                        \/ Proceed(c)
                        \/ StepFailed(c) \/ RollBack(c)
    \/ \E w \in Writers : (\E r \in Rows : Insert(w, r)) \/ Inserted(w)

Spec == Init /\ [][Next]_vars

\* A call goes on when its locks are granted, and application transactions end.
Fairness ==
    /\ \A c \in Calls : WF_vars(Proceed(c))
    /\ \A w \in Writers : WF_vars(Inserted(w))

FairSpec == Spec /\ Fairness

=============================================================================
