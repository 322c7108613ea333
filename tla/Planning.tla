------------------------------ MODULE Planning ------------------------------
(***************************************************************************)
(* One erasure from its declarations to its verification: the subject      *)
(* graph is resolved, the planner decides per table whether rows go or     *)
(* cells are rewritten, the executor runs the steps in deletion order      *)
(* against a database that enforces its foreign keys, and the verifier     *)
(* counts what is left.  Tables of the same round come in any order.       *)
(***************************************************************************)
EXTENDS Manifest

CONSTANTS
    Ids,        \* rows of a table; row 1 of the subject table is the subject
    Pointings   \* what the foreign keys of the rows may point to, 0 for NULL

ASSUME PlanningAssumption ==
    /\ 1 \in Ids /\ 0 \notin Ids
    /\ Pointings \subseteq [Keys -> [Ids -> Ids \cup {0}]]

VARIABLES
    how,        \* who builds the graph: by mappers, by foreign keys, from Django models
    points,     \* points[k][i]: the row that row i of k.from refers to
    phase,
    done,       \* tables whose steps have run
    rows,       \* rows[t]: the rows in the database
    erased,     \* cells that hold a surrogate, as <<table, row, column>>
    culprit,    \* the key and the row that made a step fail
    created,    \* rows inserted after the erasure
    verdict     \* what the verifier reported

vars == <<schema, how, points, phase, done, rows, erased, culprit, created, verdict>>

Phases == {"declared", "failed", "resolved", "refused", "erasing", "stuck", "erased", "verified"}

Full == [t \in Tables |-> Ids]

Graph == collect_data_map

Path(t) == hops(how, t)

Joins(hop, i, j) == IF hop.back THEN points[hop.key][j] = i ELSE points[hop.key][i] = j

\* The rows of t from which the hops lead to subject u, built from the subject outward.
Scope(db, t, u) ==
    LET path == Path(t)
        inner[n \in 0..Len(path)] ==
            IF n = 0 THEN db[Subject] \cap {u}
            ELSE LET p == Len(path) - n + 1
                 IN  {i \in db[At(t, path, p)] : \E j \in inner[n - 1] : Joins(path[p], i, j)}
    IN  inner[Len(path)]

subject_scope(db, t) == Scope(db, t, 1)

\* Mutant: the subject id is taken from the first table of the chain.
AttributeToNearest(t, expired, u) ==
    {walk \in [1..Len(Path(t)) + 1 -> Ids] :
       /\ walk[1] \in expired \cap rows[t]
       /\ walk[IF Len(Path(t)) = 0 THEN 1 ELSE 2] = u
       /\ \A p \in DOMAIN Path(t) : /\ walk[p + 1] \in rows[Far(Path(t)[p])]
                                    /\ Joins(Path(t)[p], walk[p], walk[p + 1])}

\* The retention sweeper joins every hop of the path: what it counts for a subject are the
\* walks that lead to it from rows whose retention has expired.
_attribution_statement(t, expired, u) ==
    {walk \in [1..Len(Path(t)) + 1 -> Ids] :
       /\ walk[1] \in expired \cap rows[t]
       /\ walk[Len(Path(t)) + 1] = u
       /\ \A p \in DOMAIN Path(t) : /\ walk[p + 1] \in rows[Far(Path(t)[p])]
                                    /\ Joins(Path(t)[p], walk[p], walk[p + 1])}

\* Nothing in the row but keys and annotated columns.
fully_pii_owned(t) == DOMAIN content[t] = Annotated(t)

\* Mutant: any table whose annotated columns are all deleted loses its rows.
RowDeletedUnowned(t) == \A c \in Annotated(t) : content[t][c] = "delete"

_row_deleted(t) == fully_pii_owned(t) /\ \A c \in Annotated(t) : content[t][c] = "delete"

Deleted == {t \in Graph : _row_deleted(t)}

\* Mutant: only the table a survivor refers to is looked at, not the rest of its path.
ConflictsAtFirstHop ==
    {t \in Graph \ Deleted : Path(t) # <<>> /\ Far(Path(t)[1]) \in Deleted /\ Annotated(t) = {}}

\* The surviving tables with a table on their path whose rows go.
_check_conflicts ==
    {t \in Graph \ Deleted : \E p \in DOMAIN Path(t) : Far(Path(t)[p]) \in Deleted}

\* Mutant: in a surviving table only the columns declared so are rewritten.
AnonymizedAsDeclared(t) == {c \in Annotated(t) : content[t][c] = "anonymize"}

\* In a surviving table every annotated column is rewritten that is not retained.
_table_steps(t) == {c \in Annotated(t) : content[t][c] # "retain"}

-----------------------------------------------------------------------------
Init ==
    /\ keys \in Layouts /\ mapped \in Mappings
    /\ link \in {l \in [Tables -> UNION {Links[t] : t \in Tables}] :
                   \A t \in Tables : l[t] \in Links[t]}
    /\ content \in {c \in [Tables -> UNION {Contents[t] : t \in Tables}] :
                      \A t \in Tables : c[t] \in Contents[t]}
    /\ how \in {"orm", "fk", "django"}
    /\ points \in Pointings
    /\ phase = "declared"
    /\ done = {} /\ rows = Full /\ erased = {} /\ culprit = <<>>
    /\ created = [t \in Tables |-> {}]
    /\ verdict = "none"

Resolve ==
    /\ phase = "declared"
    /\ phase' = IF Resolves(how) THEN "resolved" ELSE "failed"
    /\ UNCHANGED <<schema, how, points, done, rows, erased, culprit, created, verdict>>

Plan ==
    /\ phase = "resolved"
    /\ phase' = IF _check_conflicts = {} THEN "erasing" ELSE "refused"
    /\ UNCHANGED <<schema, how, points, done, rows, erased, culprit, created, verdict>>

\* The tables of the round that the execution has come to.
Round ==
    LET sorted == fk_safe_deletion_order(Graph)
        n == CHOOSE n \in DOMAIN sorted : sorted[n] \subseteq done /\ ~(sorted[n + 1] \subseteq done)
    IN  sorted[n + 1] \ done

\* References that would dangle if these rows of t went.
Dangling(t, gone) ==
    {ref \in keys \X Ids :
       LET k == ref[1]  i == ref[2]
       IN  /\ k.to = t
           /\ i \in rows[k.from] /\ ~(k.from = t /\ i \in gone)
           /\ points[k][i] \in gone}

_delete(t) ==
    /\ phase = "erasing" /\ done # Graph /\ t \in Round \cap Deleted
    /\ Dangling(t, subject_scope(rows, t)) = {}
    /\ rows' = [rows EXCEPT ![t] = @ \ subject_scope(rows, t)]
    /\ done' = done \cup {t}
    /\ UNCHANGED <<schema, how, points, phase, erased, culprit, created, verdict>>

_anonymize(t) ==
    /\ phase = "erasing" /\ done # Graph /\ t \in Round \ Deleted
    /\ erased' = erased \cup ({t} \X subject_scope(rows, t) \X _table_steps(t))
    /\ done' = done \cup {t}
    /\ UNCHANGED <<schema, how, points, phase, rows, culprit, created, verdict>>

\* The database refuses a step, and the caller rolls back.
Violate(t) ==
    /\ phase = "erasing" /\ done # Graph /\ t \in Round \cap Deleted
    /\ \E ref \in Dangling(t, subject_scope(rows, t)) : culprit' = ref
    /\ phase' = "stuck"
    /\ rows' = Full /\ erased' = {} /\ done' = {}
    /\ UNCHANGED <<schema, how, points, created, verdict>>

Commit ==
    /\ phase = "erasing" /\ done = Graph
    /\ phase' = "erased"
    /\ UNCHANGED <<schema, how, points, done, rows, erased, culprit, created, verdict>>

\* The application inserts rows again before anyone verifies.
ComeBack ==
    /\ phase = "erased" /\ \A t \in Tables : created[t] = {}
    /\ \E ts \in SUBSET {t \in Tables : 1 \notin rows[t]} :
         LET db == [t \in Tables |-> IF t \in ts THEN rows[t] \cup {1} ELSE rows[t]]
         IN  /\ ts # {}
             /\ \A k \in keys : k.from \in ts => points[k][1] \in db[k.to] \cup {0}
             /\ rows' = db
             /\ created' = [t \in Tables |-> db[t] \ rows[t]]
    /\ UNCHANGED <<schema, how, points, phase, done, erased, culprit, verdict>>

\* Mutant: a table whose rows go is verified by its subject's row.
CountSubjectRow(t) == rows[Subject] \cap {1}

\* The rows that the verifier counts in t.
_count(t) == subject_scope(rows, t)

verify_subject_erased ==
    /\ phase = "erased"
    /\ verdict' = IF \A t \in Deleted : _count(t) = {}
                  THEN "ERASURE_VERIFIED" ELSE "ERASURE_VERIFICATION_FAILED"
    /\ phase' = "verified"
    /\ UNCHANGED <<schema, how, points, done, rows, erased, culprit, created>>

Next ==
    \/ Resolve \/ Plan
    \/ \E t \in Tables : _delete(t) \/ _anonymize(t) \/ Violate(t)
    \/ Commit \/ ComeBack \/ verify_subject_erased

Spec == Init /\ [][Next]_vars

-----------------------------------------------------------------------------
\* Every variable has its type, and no step touches what the graph does not hold.
TypeOK ==
    /\ how \in {"orm", "fk", "django"} /\ points \in Pointings /\ phase \in Phases
    /\ done \subseteq Graph
    /\ rows \in [Tables -> SUBSET Ids] /\ created \in [Tables -> SUBSET Ids]
    /\ \A cell \in erased : cell[1] \in Tables /\ cell[2] \in Ids

\* The reachability linter is quiet exactly where resolve_subject_graph raises nothing:
\* a clean build never fails at run time, and a red one always would.
LintForetellsResolution == (lint_reachability = {}) <=> resolve_subject_graph

\* resolve_subject_graph_from_fk builds the graph that the mappers would have given,
\* wherever both resolve: same hops for every table, so the same rows are the subject's.
ResolversAgree ==
    resolve_subject_graph /\ resolve_subject_graph_from_fk
      => \A t \in Graph : hops("orm", t) = hops("fk", t)

\* The rows that the declarations give the subject, on the database as it was.
Declared(t) == subject_scope(Full, t)

\* A committed erasure left none of the subject's rows in a table whose rows go, and in
\* every other table no erasable value: no step ran after the rows its scope needs.
\* Where the completeness linter found nothing, what stays is retained, cell by cell.
NothingIsLeft ==
    phase \in {"erased", "verified"} =>
        \A t \in Graph : \A i \in Declared(t) \cap (rows[t] \ created[t]) :
            /\ t \notin Deleted
            /\ \A c \in DOMAIN content[t] :
                 \/ content[t][c] = "retain" \/ <<t, i, c>> \in erased
                 \/ content[t][c] = "none" /\ <<t, c>> \in lint_completeness

\* An erasure takes only the subject's rows, never a row with a value that is retained or
\* not declared at all, and rewrites only the subject's declared values.
OnlyWhatIsDeclared ==
    phase \in {"declared", "failed", "refused"} \/
    /\ \A t \in Tables : \A i \in Ids \ rows[t] :
         /\ t \in Graph /\ i \in Declared(t)
         /\ \A c \in DOMAIN content[t] : content[t][c] = "delete"
    /\ \A cell \in erased :
         /\ cell[2] \in Declared(cell[1])
         /\ content[cell[1]][cell[3]] \in {"delete", "anonymize"}

\* A plan that the planner accepts is never refused by the subject's own rows along a
\* declared path: what makes the database raise is somebody else's row, or a row of a
\* surviving table by a key that is not on its path to the subject.
KeyErrorsAreForeign ==
    phase = "stuck" =>
        LET k == culprit[1]  i == culprit[2]
        IN  \/ k.from \notin Graph
            \/ i \notin Declared(k.from)
            \/ k.from \notin Deleted /\ \A p \in DOMAIN Path(k.from) : Path(k.from)[p].key # k

\* ERASURE_VERIFIED is reported exactly when no row of the subject is in a table whose
\* rows go: rows that came back are found, although the scope starts at the subject's row.
VerdictIsRight ==
    phase = "verified" =>
        ((verdict = "ERASURE_VERIFIED") <=> \A t \in Deleted : rows[t] \cap Declared(t) = {})

\* The sweeper reports a subject's expired rows, and no others, under that subject: rows
\* are attributed by a join per hop, and erased by nested subqueries that follow the
\* declared path from its other end, before the erasure and after it.
SweepsAgreeWithErasures ==
    phase \in {"resolved", "erased"} =>
        \A t \in Graph : \A u \in Ids : \A expired \in SUBSET Ids :
            {walk[1] : walk \in _attribution_statement(t, expired, u)}
              = expired \cap Scope(rows, t, u)

=============================================================================
