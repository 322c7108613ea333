----------------------------- MODULE AuditChain -----------------------------
(***************************************************************************)
(* The audit trail as a hash chain: DatabaseAuditSink.append, which reads  *)
(* the tail and inserts a row citing it in one transaction of its own, and *)
(* AuditChainVerifier, which walks the rows from the genesis row.          *)
(*                                                                         *)
(* A hash is the identity of the row it was computed for: it covers the    *)
(* event_id, so two rows never share one.  What matters of a row is which  *)
(* hash it cites and whether it still recomputes to its own.               *)
(***************************************************************************)
EXTENDS Naturals, FiniteSets

CONSTANTS
    Events,         \* event ids; their order is not the order of insertion
    Appenders,      \* sessions that append through the sink
    NoHash,         \* the prior_hash of a genesis row
    MaxChanges      \* bound: out-of-band changes of the table

ASSUME ChainAssumption ==
    /\ Events \subseteq Nat
    /\ NoHash \notin Events
    /\ MaxChanges \in Nat

VARIABLES
    rows,           \* the committed rows of effaced_audit_events
    appending,      \* appending[a]: the event of a's open append, or NoHash
    seen,           \* seen[a]: the tail it has read
    overlapped,     \* two appends have been open at the same time
    changes         \* out-of-band changes so far

vars == <<rows, appending, seen, overlapped, changes>>

Row == [chained : BOOLEAN, prior : Events \cup {NoHash}, genuine : BOOLEAN]

Stored == DOMAIN rows

\* Rows of a custom sink, or of a release without the chain, carry no hash.
Chained == {e \in Stored : rows[e].chained}

TypeOK ==
    /\ Stored \subseteq Events /\ IsFiniteSet(Stored)
    /\ rows \in [Stored -> Row]
    /\ \A e \in Stored : ~rows[e].chained => rows[e].prior = NoHash
    /\ appending \in [Appenders -> Events \cup {NoHash}]
    /\ seen \in [Appenders -> Events \cup {NoHash}]
    /\ overlapped \in BOOLEAN
    /\ changes \in 0..MaxChanges

Init ==
    /\ rows = [e \in {} |-> NoHash]
    /\ appending = [a \in Appenders |-> NoHash]
    /\ seen = [a \in Appenders |-> NoHash]
    /\ overlapped = FALSE
    /\ changes = 0

-----------------------------------------------------------------------------

\* children_by_prior: the chained rows that cite a hash.
Citing(hash) == {e \in Chained : rows[e].prior = hash}

\* Mutant: the newest event is the tail, wherever it hangs.
TailsByClock == {e \in Chained : \A f \in Chained : f <= e}

\* The rows append may take for the tail: no row cites them.
Tails == {e \in Chained : Citing(e) = {}}

Open(a) == appending[a] # NoHash

\* append, up to its read of the tail: the first row of an unordered result.
\* The caller may hand in an event it has handed in before.
ReadTail(a, e) ==
    /\ ~Open(a)
    /\ \A b \in Appenders : appending[b] # e
    /\ seen' \in {[seen EXCEPT ![a] = t] : t \in IF Tails = {} THEN {NoHash} ELSE Tails}
    /\ appending' = [appending EXCEPT ![a] = e]
    /\ overlapped' = (overlapped \/ \E b \in Appenders : Open(b))
    /\ UNCHANGED <<rows, changes>>

Close(a) ==
    /\ appending' = [appending EXCEPT ![a] = NoHash]
    /\ seen' = [seen EXCEPT ![a] = NoHash]
    /\ UNCHANGED <<overlapped, changes>>

WithRow(e, record) == [f \in Stored \cup {e} |-> IF f = e THEN record ELSE rows[f]]

\* Mutant: an event that is there already is written again.
InsertOrReplace(a) ==
    /\ Open(a)
    /\ rows' = WithRow(appending[a],
                       [chained |-> TRUE, prior |-> seen[a], genuine |-> TRUE])
    /\ Close(a)

\* append: insert and commit.
Insert(a) ==
    /\ Open(a)
    /\ appending[a] \notin Stored
    /\ rows' = WithRow(appending[a],
                       [chained |-> TRUE, prior |-> seen[a], genuine |-> TRUE])
    /\ Close(a)

\* The append raises: the event_id is taken, or the connection is lost.
Rejected(a) ==
    /\ Open(a)
    /\ Close(a)
    /\ UNCHANGED rows

\* A writer that does not chain adds a row.
InsertUnchained(e) ==
    /\ e \notin Stored
    /\ \A a \in Appenders : appending[a] # e
    /\ rows' = WithRow(e, [chained |-> FALSE, prior |-> NoHash, genuine |-> TRUE])
    /\ UNCHANGED <<appending, seen, overlapped, changes>>

-----------------------------------------------------------------------------
(* Out-of-band changes of the table, which the verifier is there to show.  *)

Change(newRows) ==
    /\ changes < MaxChanges
    /\ changes' = changes + 1
    /\ rows' = newRows
    /\ UNCHANGED <<appending, seen, overlapped>>

\* A field the hash covers is edited.
Edit(e) ==
    /\ e \in Chained
    /\ Change(WithRow(e, [chained |-> TRUE, prior |-> rows[e].prior, genuine |-> FALSE]))

\* The row is moved to another place in the list.
Repoint(e, hash) ==
    /\ e \in Chained
    /\ rows[e].prior # hash
    /\ Change(WithRow(e, [chained |-> TRUE, prior |-> hash, genuine |-> FALSE]))

Delete(e) ==
    /\ e \in Chained
    /\ Change([f \in Stored \ {e} |-> rows[f]])

-----------------------------------------------------------------------------
(* AuditChainVerifier.                                                     *)

\* The walk goes on through single rows that recompute to their own hash.
GoesOn(place) == \E e \in Chained : place = {e} /\ rows[e].genuine

\* The rows that `current` may be in each iteration of the walk: more than one row is a
\* fork, none the end of the list.  There are no more iterations than rows.
current[n \in 1..Cardinality(Chained)] ==
    IF n = 1 THEN Citing(NoHash)
    ELSE LET before == current[n - 1]
         IN  IF GoesOn(before) THEN UNION {Citing(e) : e \in before} ELSE {}

Walk == {current[n] : n \in 1..Cardinality(Chained)}

Breaks(walk) == {place \in walk : place # {} /\ ~GoesOn(place)}

Earliest == {e \in Chained : \A f \in Chained : e <= f}

\* Mutant: a walk that ends without having met every row is good enough.
BlamedOnTheWalk == UNION Breaks(Walk)

\* Mutant: the break reported is a row of the trail, but not the first one.
BlamedAnyhow == IF Breaks(Walk) # {} \/ UNION Walk # Chained THEN Chained ELSE {}

\* The rows that verify may name as first_broken_event_id; none when it verifies.
\* Rows the walk has not met at its end are orphans.
Blamed == LET walk == Walk
          IN  IF Breaks(walk) # {} THEN UNION Breaks(walk)
              ELSE IF UNION walk # Chained THEN Earliest ELSE {}

Verified == Blamed = {}

-----------------------------------------------------------------------------

Next ==
    \/ \E a \in Appenders : (\E e \in Events : ReadTail(a, e)) \/ Insert(a) \/ Rejected(a)
    \/ \E e \in Events : \/ InsertUnchained(e)
                         \/ Edit(e) \/ Delete(e)
                         \/ \E hash \in Events \cup {NoHash} : Repoint(e, hash)

Spec == Init /\ [][Next]_vars

-----------------------------------------------------------------------------

\* What the verdict means: every chained row recomputes to its hash and cites the
\* genesis mark or another one, no two cite the same, and they form no cycle, so
\* that they are one list from its genesis row to its tail.
IntactList ==
    /\ \A e \in Chained : rows[e].genuine /\ rows[e].prior \in Chained \cup {NoHash}
    /\ \A e, f \in Chained : rows[e].prior = rows[f].prior => e = f
    /\ \A part \in (SUBSET Chained) \ {{}} : \E e \in part : rows[e].prior \notin part

\* verify says verified exactly of an intact list, whatever the table went through.
VerdictIsRight == Verified <=> IntactList

\* No false alarm: as long as no two appends have overlapped and nobody has
\* touched the table, the trail is one list, whatever order its events have.
AppendsMakeOneList == ~overlapped /\ changes = 0 => IntactList

\* A fork is never healed by what the sink does: once overlapping appends have
\* broken the list, no later append, retry or rejected duplicate mends it.
NeverHealed ==
    [][~IntactList /\ changes' = 0 => ~IntactList']_vars

\* An edit or a moved row of an intact trail is reported at that very row; a
\* deleted one is reported unless it was the tail.
ChangesAreLocated ==
    [][\A e \in Chained :
         Verified => /\ Edit(e) => Blamed' = {e}
                     /\ (\E hash \in Events \cup {NoHash} : Repoint(e, hash)) => ~Verified'
                     /\ Delete(e) => (Verified' <=> e \in Tails)]_vars

=============================================================================
