-------------------------- MODULE ErasureProperties --------------------------
(***************************************************************************)
(* What a local erasure guarantees while the application keeps writing.    *)
(***************************************************************************)
EXTENDS LocalErasure

\* A schema that one locked row guards: a subject has one row in the subject table, and
\* every other row references it directly.
OneRowGuards ==
    /\ \A r, q \in Rows : /\ tableOf[r] = SubjectTable /\ tableOf[q] = SubjectTable
                          /\ ownerOf[r] = ownerOf[q]
                          => r = q
    /\ \A r \in Rows : tableOf[parentOf[r]] = SubjectTable

\* Erased means erased: when a call that found and locked the subject's rows
\* commits, no personal data of the subject is left outside retained tables,
\* whatever the application inserted since the call began.
NothingSlipsIn ==
    [][\A c \in Calls :
         Commit(c) /\ anchors[c] # {} =>
            \A r \in personal' :
                ownerOf[r] = subject[c] => strategyOf[tableOf[r]] = "retain"]_vars

\* One commit for everything: rows lose their data, external calls become owed
\* and the tombstone says completed together, or none of it ever shows.  An attempt that
\* failed or crashed leaves no tombstone in "requested", so no report can name it.
CommittedTogether ==
    \A s \in Subjects :
        /\ (\E r \in Initial \ personal : ownerOf[r] = s) => owed[s] > 0
        /\ Locking => tombstone[s] = IF owed[s] > 0 THEN "completed" ELSE "absent"

\* The n-th of a set of positions, and the events that t has at them, in order.
Before(positions, i) == Cardinality({j \in positions : j < i})

Nth(positions, n) == CHOOSE i \in positions : Before(positions, i) = n - 1

EventsAt(t, positions) == [n \in 1..Cardinality(positions) |-> t[Nth(positions, n)]]

TrailOf(s) == EventsAt(trail, {i \in DOMAIN trail : trail[i].subject = s})

TypeAt(t, i) == IF i \in DOMAIN t THEN t[i].type ELSE "nothing"

\* Every step event follows the request or another step, and a completion follows its
\* request and one success for each step of the plan.
Whole(spans) ==
    \A i \in DOMAIN spans :
        /\ TypeAt(spans, i) \in {"step_succeeded", "step_failed"}
             => TypeAt(spans, i - 1) \in {"requested", "step_succeeded"}
        /\ TypeAt(spans, i) = "local_completed"
             => /\ \A j \in 1..SubjectTable : TypeAt(spans, i - j) = "step_succeeded"
                /\ TypeAt(spans, i - SubjectTable - 1) = "requested"

\* The audit spans of one subject do not overlap, however many calls erase it.
SpansAreWhole == \A s \in Subjects : Whole(TrailOf(s))

\* Children before parents, and nothing is inserted below a locked subject row:
\* the database has no reason to refuse a delete of a call that holds one.
NothingIsOrphaned ==
    \A c \in Calls : place[c] = "stepping" /\ anchors[c] # {} => Orphans(c) = {}

\* The abstract attempts that backup replay reads from the trail.
Attempts == INSTANCE ErasureAttempts WITH
    NoSubject <- "nobody",
    trail <- EventsAt(trail, {i \in DOMAIN trail : trail[i].type # "step_succeeded"}),
    attempting <- [c \in Calls |->
                      IF place[c] \in {"stepping", "enqueueing", "completing"}
                      THEN subject[c] ELSE "nobody"],
    finished <- [c \in Calls |-> IF place[c] = "committing" THEN {subject[c]} ELSE {}],
    erased <- owed

\* erase_subject implements the attempts: an erasure is committed only after its
\* completion is on the trail, a failure is on the trail only when nothing can be
\* committed any more, and what is on the trail stays.
KeepsTheTrail == Attempts!AttemptsSpec

\* No call waits for ever: on another erasure of the subject, or on the application.
EveryCallEnds ==
    \A c \in Calls : place[c] # "idle" ~> place[c] = "idle"

=============================================================================
