-------------------------------- MODULE Export --------------------------------
(***************************************************************************)
(* Exporter.export_subject: one statement after the other reads the tables *)
(* of the data map, each seeing what is committed when it runs, and then   *)
(* the resolvers of all refs are called at once.                           *)
(***************************************************************************)
EXTENDS Rectification

VARIABLES
    records,    \* records[s]: what has been collected, as <<cell, value>>
    read,       \* read[s]: the tables read so far
    delivered,  \* delivered[s]: the refs whose resolver has answered
    incomplete, \* incomplete[s]: the sources reported as incomplete
    seen        \* seen[s]: what every cell has held since the export was requested

exportVars == <<records, read, delivered, incomplete, seen>>

Gone == MaxRequests + 2

Value(cell) == IF cell[1] \in stored THEN cells[cell] ELSE Gone

ExportInit ==
    /\ records = [s \in Sessions |-> {}]
    /\ read = [s \in Sessions |-> {}]
    /\ delivered = [s \in Sessions |-> {}]
    /\ incomplete = [s \in Sessions |-> {}]
    /\ seen = [s \in Sessions |-> {}]

Exporting(s) == Serves(s, "export") /\ place[s] # "begun"

\* What the exports under way could have read, as a commit changes it.
Watch == seen' = [s \in Sessions |-> IF Exporting(s)
                                     THEN seen[s] \cup {<<cell, Value(cell)'>> : cell \in Cells}
                                     ELSE seen[s]]

Unmatched(s) == {kindOf[r] : r \in request[s].refs} \ Registered

\* _match_refs raises, and no event was written.
RejectExport(s) ==
    /\ Serves(s, "export") /\ place[s] = "begun"
    /\ Unmatched(s) # {}
    /\ Returns(s)
    /\ UNCHANGED exportVars

RequestExport(s) ==
    /\ Serves(s, "export") /\ place[s] = "begun"
    /\ Unmatched(s) = {}
    /\ seen' = [seen EXCEPT ![s] = {<<cell, Value(cell)>> : cell \in Cells}]
    /\ Audited(s, "export_requested", "", "reading")
    /\ UNCHANGED <<records, read, delivered, incomplete>>

\* _local_records: the annotated columns of one table, retained ones included.
ReadTable(s, t) ==
    /\ Serves(s, "export") /\ place[s] = "reading"
    /\ t \notin read[s]
    /\ read' = [read EXCEPT ![s] = read[s] \cup {t}]
    /\ records' = [records EXCEPT ![s] =
                     records[s] \cup {<<cell, Value(cell)>> :
                                        cell \in {c \in Cells : c[1] = t /\ t \in stored}}]
    /\ Quietly(s, "reading")
    /\ UNCHANGED <<delivered, incomplete, seen>>

\* Mutant: a source is incomplete when none of its calls has delivered.
IncompleteIfNone(raised, answered) == {kindOf[r] : r \in raised} \ {kindOf[r] : r \in answered}

\* The resolvers with a call that has raised, each once.
Incomplete(raised, answered) == {kindOf[r] : r \in raised}

\* _collect_external: every call is awaited, and an exception is an outcome.
CollectExternal(s) ==
    /\ Serves(s, "export") /\ place[s] = "reading"
    /\ read[s] = Tables
    /\ \E raised \in SUBSET request[s].refs :
         /\ delivered' = [delivered EXCEPT ![s] = request[s].refs \ raised]
         /\ incomplete' = [incomplete EXCEPT ![s] = Incomplete(raised, request[s].refs \ raised)]
    /\ Quietly(s, "completing")
    /\ UNCHANGED <<records, read, seen>>

CompleteExport(s) ==
    /\ Serves(s, "export") /\ place[s] = "completing"
    /\ Audited(s, "export_completed", "", "answered")
    /\ UNCHANGED exportVars

\* The bundle is handed over.
Discard(s) ==
    /\ records' = [records EXCEPT ![s] = {}]
    /\ read' = [read EXCEPT ![s] = {}]
    /\ delivered' = [delivered EXCEPT ![s] = {}]
    /\ incomplete' = [incomplete EXCEPT ![s] = {}]
    /\ seen' = [seen EXCEPT ![s] = {}]

ReturnBundle(s) ==
    /\ Serves(s, "export") /\ place[s] = "answered"
    /\ Returns(s)
    /\ Discard(s)

=============================================================================
