------------------------------- MODULE Ledgers -------------------------------
(***************************************************************************)
(* The consent and the restriction ledger: append-only records, stamped by *)
(* the caller's clock and committed in any order, from which the current   *)
(* and past answers are derived.                                           *)
(***************************************************************************)
EXTENDS Requests

CONSTANTS
    Stamps,     \* what recorded_at may be
    Purposes,
    All         \* the scope of a restriction without a purpose

ASSUME LedgersAssumption == Stamps \subseteq Nat /\ All \notin Purposes

VARIABLES
    consents,       \* committed consent records
    restrictions    \* committed restriction records

ledgerVars == <<consents, restrictions>>

Consents == [kind : {"consent"}, purpose : Purposes, granted : BOOLEAN, recorded_at : Stamps]

Restrictions ==
    [kind : {"restriction"}, purpose : Purposes \cup {All}, restricted : BOOLEAN,
     recorded_at : Stamps]

LedgersInit == consents = {} /\ restrictions = {}

Recording(s) == request[s] # NoRequest /\ request[s].kind \in {"consent", "restriction"}

EventOf(record) ==
    CASE record.kind = "consent"     -> IF record.granted THEN "granted" ELSE "withdrawn"
      [] record.kind = "restriction" -> IF record.restricted THEN "placed" ELSE "lifted"

\* Mutant: a change counts more than its audit event, which is written if possible.
RecordAnyhow(s) ==
    /\ Recording(s) /\ place[s] = "begun"
    /\ GoTo(s, "recorded")
    /\ UNCHANGED trail \/ AppendEvent(s, EventOf(request[s]), request[s].purpose)
    /\ UNCHANGED ledgerVars

\* record: the insert, unseen by others, and its event.
Record(s) ==
    /\ Recording(s) /\ place[s] = "begun"
    /\ Audited(s, EventOf(request[s]), request[s].purpose, "recorded")
    /\ UNCHANGED ledgerVars

\* The request's transaction commits.
CommitRecord(s) ==
    /\ Recording(s) /\ place[s] = "recorded"
    /\ IF request[s].kind = "consent"
       THEN consents' = consents \cup {request[s]} /\ UNCHANGED restrictions
       ELSE restrictions' = restrictions \cup {request[s]} /\ UNCHANGED consents
    /\ Commits(s)

-----------------------------------------------------------------------------

\* Mutant: of two records with one stamp the grant comes first.
GrantFirst(r, q) ==
    \/ r.recorded_at > q.recorded_at
    \/ r.recorded_at = q.recorded_at /\ (r.granted \/ ~q.granted)

\* The order of the rows of _latest_granted, up to records that say the same.
GrantedBefore(r, q) ==
    \/ r.recorded_at > q.recorded_at
    \/ r.recorded_at = q.recorded_at /\ (~r.granted \/ q.granted)

\* The first row of the consent records of a purpose up to an instant.
_latest_granted(purpose, at) ==
    LET rows == {r \in consents : r.purpose = purpose /\ r.recorded_at <= at}
    IN  IF rows = {} THEN FALSE
        ELSE (CHOOSE r \in rows : \A q \in rows : GrantedBefore(r, q)).granted

Last == CHOOSE at \in Stamps : \A t \in Stamps : t <= at

status(purpose) == _latest_granted(purpose, Last)

status_as_of(purpose, at) == _latest_granted(purpose, at)

RestrictedBefore(r, q) ==
    \/ r.recorded_at > q.recorded_at
    \/ r.recorded_at = q.recorded_at /\ (r.restricted \/ ~q.restricted)

_latest_scope_restricted(scope) ==
    LET rows == {r \in restrictions : r.purpose = scope}
    IN  IF rows = {} THEN FALSE
        ELSE (CHOOSE r \in rows : \A q \in rows : RestrictedBefore(r, q)).restricted

\* A purpose is restricted by its own records or by those about all processing.
restriction_status(scope) ==
    \/ _latest_scope_restricted(All)
    \/ scope # All /\ _latest_scope_restricted(scope)

=============================================================================
