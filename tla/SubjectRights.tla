---------------------------- MODULE SubjectRights ----------------------------
(***************************************************************************)
(* The requests of one data subject side by side: consent and restriction  *)
(* records, rectifications, exports, and erasures as far as the others see *)
(* them.                                                                   *)
(***************************************************************************)
EXTENDS Ledgers, Export

CONSTANT Offers     \* the sets of requests that an application may offer

Erasures == [kind : {"erase"}]
Rectifications == [kind : {"rectify"}, corrections : SUBSET UNION {{c[2] : c \in DOMAIN plan} : plan \in Plans},
                   refs : SUBSET Refs]
Exports == [kind : {"export"}, refs : SUBSET Refs]

ASSUME OffersAssumption ==
    \A offer \in Offers :
        offer \subseteq Consents \cup Restrictions \cup Erasures \cup Rectifications \cup Exports

VARIABLE offered    \* the requests that the application offers

vars == <<requestVars, ledgerVars, rowVars, exportVars, offered>>

Init ==
    /\ RequestsInit /\ LedgersInit /\ RectificationInit /\ ExportInit
    /\ offered \in Offers

Ask(s) ==
    /\ \E what \in offered : Begin(s, what)
    /\ UNCHANGED <<ledgerVars, rowVars, exportVars, offered>>

RecordConsentOrRestriction(s) ==
    /\ Record(s) \/ CommitRecord(s)
    /\ UNCHANGED <<rowVars, exportVars, offered>>

Rectify(s) ==
    /\ \/ RejectRectification(s) \/ RequestRectification(s)
       \/ \E cell \in Cells : RectificationStep(s, cell)
       \/ CompleteRectification(s) \/ StepRaised(s)
    /\ UNCHANGED <<ledgerVars, exportVars, offered>>

Erase(s) ==
    /\ LockAnchorRow(s) \/ ErasureStep(s) \/ ErasureRaised(s)
    /\ UNCHANGED <<ledgerVars, exportVars, offered>>

\* A commit that exports under way may see, or miss.
CommitRows(s) ==
    /\ CommitRectification(s) \/ CommitErasure(s)
    /\ Watch
    /\ UNCHANGED <<ledgerVars, records, read, delivered, incomplete, offered>>

ExportRecords(s) ==
    /\ \/ RejectExport(s) \/ RequestExport(s)
       \/ \E t \in Tables : ReadTable(s, t)
       \/ CollectExternal(s) \/ CompleteExport(s) \/ ReturnBundle(s)
    /\ UNCHANGED <<ledgerVars, rowVars, offered>>

\* Any request may fail at any point, with an event if a step of a rectification
\* failed and the sink still works.
Fail(s) ==
    /\ Fails(s)
    /\ \/ UNCHANGED trail
       \/ Serves(s, "rectify") /\ place[s] = "stepping"
            /\ AppendEvent(s, "rectification_step_failed", "")
    /\ RollsBack(s)
    /\ Discard(s)
    /\ UNCHANGED <<ledgerVars, offered>>

\* Everything has been asked and answered.
Rest ==
    /\ asked = MaxRequests
    /\ \A s \in Sessions : place[s] = "idle"
    /\ UNCHANGED vars

Next ==
    \/ \E s \in Sessions : \/ Ask(s)
                           \/ RecordConsentOrRestriction(s)
                           \/ Rectify(s) \/ Erase(s) \/ CommitRows(s)
                           \/ ExportRecords(s)
                           \/ Fail(s)
    \/ Rest

Spec == Init /\ [][Next]_vars

-----------------------------------------------------------------------------

Places == {"idle", "begun", "recorded", "stepping", "committing", "erasing", "reading",
           "completing", "answered"}

Values == 0..Gone

TypeOK ==
    /\ offered \in Offers
    /\ request \in [Sessions -> offered \cup {NoRequest}]
    /\ place \in [Sessions -> Places]
    /\ number \in [Sessions -> 0..MaxRequests] /\ asked \in 0..MaxRequests
    /\ committed \in Seq([number : 0..MaxRequests, what : offered])
    /\ consents \subseteq Consents /\ restrictions \subseteq Restrictions
    /\ strategyOf \in Plans
    /\ held \in [Sessions -> SUBSET Tables] /\ done \in [Sessions -> SUBSET Cells]
    /\ stored \subseteq Tables /\ cells \in [Cells -> 0..Surrogate]
    /\ owed \subseteq (0..MaxRequests) \X Refs
    /\ records \in [Sessions -> SUBSET (Cells \X Values)]
    /\ read \in [Sessions -> SUBSET Tables]
    /\ delivered \in [Sessions -> SUBSET Refs]
    /\ incomplete \in [Sessions -> SUBSET {kindOf[r] : r \in Refs}]
    /\ seen \in [Sessions -> SUBSET (Cells \X Values)]
    /\ faults \in 0..MaxFaults

\* Whatever the order in which records were stamped and committed, the ledgers answer for
\* the subject: consent holds at an instant only by a grant that every withdrawal known by
\* then precedes, and a restriction ends only by a later lift of its own scope, so that
\* lifting it for a purpose never undoes one of all processing.
TheLastWordProtects ==
    /\ \A p \in Purposes, at \in Stamps :
         status_as_of(p, at) <=>
            \E g \in consents :
               /\ g.purpose = p /\ g.granted /\ g.recorded_at <= at
               /\ \A w \in consents : /\ w.purpose = p /\ ~w.granted /\ w.recorded_at <= at
                                      => w.recorded_at < g.recorded_at
    /\ \A scope \in Purposes \cup {All} :
         restriction_status(scope) <=>
            \E r \in restrictions :
               /\ r.restricted /\ r.purpose \in {scope, All}
               /\ \A lift \in restrictions : lift.purpose = r.purpose /\ ~lift.restricted
                                               => lift.recorded_at <= r.recorded_at

Written(i, type, target) ==
    [request |-> committed[i].number, type |-> type, target |-> target] \in trail

\* No change is in the database without its evidence: a committed consent or restriction
\* has its event, and a committed rectification its request, a success for every cell of
\* its categories, its completion and no failure.
CommitsAreEvidenced ==
    \A i \in DOMAIN committed :
        LET what == committed[i].what
        IN  CASE what.kind \in {"consent", "restriction"} -> Written(i, EventOf(what), what.purpose)
              [] what.kind = "rectify" ->
                   /\ Written(i, "rectification_requested", "")
                   /\ \A cell \in Cells : cell[2] \in what.corrections
                        => Written(i, "rectification_step_succeeded", cell)
                   /\ Written(i, "rectification_local_completed", "")
                   /\ ~Written(i, "rectification_step_failed", "")
              [] OTHER -> TRUE

\* The committed requests that changed a cell.
Changes(cell) ==
    {i \in DOMAIN committed :
       LET what == committed[i].what
       IN  \/ what.kind = "rectify" /\ cell[2] \in what.corrections
           \/ what.kind = "erase" /\ strategyOf[cell] # "retain"}

\* What the last of them wrote.
LastChange(cell) ==
    IF Changes(cell) = {} THEN 0
    ELSE LET last == committed[CHOOSE i \in Changes(cell) : \A j \in Changes(cell) : j <= i]
         IN  IF last.what.kind = "erase" THEN Surrogate ELSE last.number

\* Rectifications and erasures of one subject never mix, although only erasures exclude
\* each other: the database is as if they had run one after the other in the order of
\* their commits, in every table and under any strategy, so that cells of one category
\* agree, and the external calls owed are those of the committed rectifications.
CommitsAreSerial ==
    /\ \A cell \in Cells : cell[1] \in stored => cells[cell] = LastChange(cell)
    /\ owed = UNION {{committed[i].number} \X
                       {r \in committed[i].what.refs : kindOf[r] \in Rectifying} :
                     i \in {i \in DOMAIN committed : committed[i].what.kind = "rectify"}}

\* A bundle is whole: it has every value that was there from the request to the answer and
\* only values that were there at some time, and every source whose records it lacks is
\* named in it, whatever other sources of the same resolver have delivered.
BundlesAreWhole ==
    \A s \in Sessions : Serves(s, "export") /\ place[s] = "answered" =>
        /\ \A cell \in Cells : \A v \in 0..Surrogate :
             (\A w \in 0..Gone : <<cell, w>> \in seen[s] <=> w = v) => <<cell, v>> \in records[s]
        /\ records[s] \subseteq seen[s]
        /\ \A r \in request[s].refs : r \in delivered[s] \/ kindOf[r] \in incomplete[s]

=============================================================================
