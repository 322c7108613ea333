---------------------------- MODULE Rectification ----------------------------
(***************************************************************************)
(* Rectifier.rectify_subject in its caller's transaction, beside erasures  *)
(* of the same subject.  Every table holds one row of the subject.  A cell *)
(* is known by its table and the category of its column, and a corrected   *)
(* one holds the number of the request that corrected it.  Tables are      *)
(* numbered in deletion order, the subject table last.                     *)
(*                                                                         *)
(* An UPDATE keeps its row locked until the transaction ends.  Sessions    *)
(* that wait for each other in a circle are a deadlock to the database,    *)
(* which raises in one of them.                                            *)
(***************************************************************************)
EXTENDS Requests

LOCAL INSTANCE Relation

CONSTANTS
    SubjectTable,
    Plans,          \* the annotations modelled: the strategy of every cell
    kindOf,         \* the kind of every external ref of the subject
    Registered,     \* kinds that a resolver is registered for
    Rectifying      \* those whose resolver can rectify

Tables == 1..SubjectTable

Refs == DOMAIN kindOf

Strategies == {"delete", "anonymize", "retain"}

ASSUME RectificationAssumption ==
    /\ SubjectTable \in Nat \ {0}
    /\ Rectifying \subseteq Registered
    /\ \A plan \in Plans : \A cell \in DOMAIN plan : /\ cell[1] \in Tables
                                                     /\ plan[cell] \in Strategies

VARIABLES
    strategyOf,     \* the plan of the data map, which no request changes
    held,           \* held[s]: the rows that s has locked, by their tables
    done,           \* done[s]: the cells whose steps s has run
    stored,         \* the tables whose row of the subject is in the database
    cells,          \* the committed cells: 0 as entered, a request, or Surrogate
    owed            \* committed outbox entries of rectifications, as <<request, ref>>

rowVars == <<strategyOf, held, done, stored, cells, owed>>

Cells == DOMAIN strategyOf

Surrogate == MaxRequests + 1

RectificationInit ==
    /\ strategyOf \in Plans
    /\ held = [s \in Sessions |-> {}]
    /\ done = [s \in Sessions |-> {}]
    /\ stored = Tables
    /\ cells = [cell \in Cells |-> 0]
    /\ owed = {}

Serves(s, kind) == request[s] # NoRequest /\ request[s].kind = kind

\* Mutant: a column that an erasure would retain is not corrected.
StepsUnlessRetained(s) ==
    {cell \in Cells : cell[2] \in request[s].corrections /\ strategyOf[cell] # "retain"}

\* One step for every cell of a corrected category, whatever its strategy.
_local_steps(s) == {cell \in Cells : cell[2] \in request[s].corrections}

\* The tables that s has yet to come to, in their order.
NextTable(s, steps) ==
    {t \in Tables : /\ \E cell \in steps \ done[s] : cell[1] = t
                    /\ \A cell \in steps \ done[s] : t <= cell[1]}

\* The rows that the next statement of s locks.
Wanted(s) ==
    stored \cap CASE Serves(s, "rectify") /\ place[s] = "stepping" -> NextTable(s, _local_steps(s))
                  [] Serves(s, "erase") /\ place[s] = "begun"      -> {SubjectTable}
                  [] Serves(s, "erase") /\ place[s] = "erasing"    ->
                       {t \in NextTable(s, Cells) :
                          \E cell \in Cells : cell[1] = t /\ strategyOf[cell] # "retain"}
                  [] OTHER -> {}

WaitsFor(s, q) == q # s /\ Wanted(s) \cap held[q] # {}

Granted(s) == \A q \in Sessions : ~WaitsFor(s, q)

Lock(s) == held' = [held EXCEPT ![s] = held[s] \cup Wanted(s)]

InCircle(s) == TransitiveClosure([p \in Sessions \X Sessions |-> WaitsFor(p[1], p[2])], Sessions)[s, s]

\* The transaction ends.
Unlock(s) ==
    /\ held' = [held EXCEPT ![s] = {}]
    /\ done' = [done EXCEPT ![s] = {}]
    /\ UNCHANGED strategyOf

RollsBack(s) == Unlock(s) /\ UNCHANGED <<stored, cells, owed>>

-----------------------------------------------------------------------------
(* rectify_subject.                                                        *)

Valid(s) == request[s].corrections # {} /\ {kindOf[r] : r \in request[s].refs} \subseteq Registered

\* _validate or _outbox_entries raises before there is any event.
RejectRectification(s) ==
    /\ Serves(s, "rectify") /\ place[s] = "begun"
    /\ ~Valid(s)
    /\ Returns(s)
    /\ UNCHANGED rowVars

RequestRectification(s) ==
    /\ Serves(s, "rectify") /\ place[s] = "begun"
    /\ Valid(s)
    /\ Audited(s, "rectification_requested", "", "stepping")
    /\ UNCHANGED rowVars

\* One step, a single UPDATE of the row, if it is still there, and its event.
RectificationStep(s, cell) ==
    /\ Serves(s, "rectify") /\ place[s] = "stepping"
    /\ cell \in _local_steps(s) \ done[s] /\ cell[1] \in NextTable(s, _local_steps(s))
    /\ Granted(s)
    /\ Lock(s)
    /\ done' = [done EXCEPT ![s] = done[s] \cup {cell}]
    /\ Audited(s, "rectification_step_succeeded", cell, "stepping")
    /\ UNCHANGED <<strategyOf, stored, cells, owed>>

\* One entry for every ref whose resolver can rectify.
_outbox_entries(s) == {number[s]} \X {r \in request[s].refs : kindOf[r] \in Rectifying}

\* The outbox entries are written in the session, unseen by others, and the event follows.
CompleteRectification(s) ==
    /\ Serves(s, "rectify") /\ place[s] = "stepping"
    /\ _local_steps(s) \subseteq done[s]
    /\ Audited(s, "rectification_local_completed", "", "committing")
    /\ UNCHANGED rowVars

CommitRectification(s) ==
    /\ Serves(s, "rectify") /\ place[s] = "committing"
    /\ cells' = [cell \in Cells |-> IF cell \in done[s] /\ cell[1] \in held[s]
                                    THEN number[s] ELSE cells[cell]]
    /\ owed' = owed \cup _outbox_entries(s)
    /\ UNCHANGED stored
    /\ Unlock(s)
    /\ Commits(s)

\* A step raises, here because the database has chosen it to end a circle.
StepRaised(s) ==
    /\ Serves(s, "rectify") /\ place[s] = "stepping"
    /\ InCircle(s)
    /\ Release(s)
    /\ AppendEvent(s, "rectification_step_failed", "")
    /\ RollsBack(s)
    /\ UNCHANGED <<committed, faults>>

-----------------------------------------------------------------------------
(* erase_subject as far as its row locks and its commit go: LocalErasure has *)
(* the rest.                                                               *)

LockAnchorRow(s) ==
    /\ Serves(s, "erase") /\ place[s] = "begun"
    /\ \A q \in Sessions \ {s} : ~(Serves(q, "erase") /\ place[q] # "begun")
    /\ Granted(s)
    /\ Lock(s)
    /\ Quietly(s, "erasing")
    /\ UNCHANGED <<strategyOf, done, stored, cells, owed>>

ErasureStep(s) ==
    /\ Serves(s, "erase") /\ place[s] = "erasing"
    /\ Granted(s)
    /\ \E t \in NextTable(s, Cells) :
         done' = [done EXCEPT ![s] = done[s] \cup {cell \in Cells : cell[1] = t}]
    /\ Lock(s)
    /\ Quietly(s, "erasing")
    /\ UNCHANGED <<strategyOf, stored, cells, owed>>

_row_deleted(t) == \A cell \in Cells : cell[1] = t => strategyOf[cell] = "delete"

CommitErasure(s) ==
    /\ Serves(s, "erase") /\ place[s] = "erasing"
    /\ done[s] = Cells
    /\ stored' = {t \in stored : ~_row_deleted(t)}
    /\ cells' = [cell \in Cells |-> IF strategyOf[cell] = "retain" THEN cells[cell] ELSE Surrogate]
    /\ UNCHANGED owed
    /\ Unlock(s)
    /\ Commits(s)

ErasureRaised(s) ==
    /\ Serves(s, "erase") /\ InCircle(s)
    /\ Release(s)
    /\ RollsBack(s)
    /\ UNCHANGED <<committed, trail, faults>>

=============================================================================
