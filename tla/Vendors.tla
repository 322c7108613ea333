------------------------------- MODULE Vendors -------------------------------
(***************************************************************************)
(* Every resolver package against its system, and what the saga, the       *)
(* exporter and the people asking are owed by it.                          *)
(***************************************************************************)
EXTENDS SupabaseResolvers, ContactResolvers

CallStep(c) == S3Step(c) \/ SupabaseStep(c) \/ ContactStep(c)

Environment == \E s \in OwnSlots : Write(s) \/ Discard(s)

Next == \/ \E c \in Callers : Begin(c) \/ CallAgain(c) \/ CallStep(c)
        \/ Environment

Spec == Init /\ [][Next]_vars

-----------------------------------------------------------------------------

\* What an erasure reports is true, whatever was written, retried or lost meanwhile:
\* a success leaves nothing of what the subject had when the attempt began, and
\* already_absent says that the attempt itself removed nothing.  Intercom, resend and
\* GoTrue answer for the contact alone.
ErasuresReportTruly ==
    \A c \in Callers :
        /\ result[c] \in {"erased", "absent"} =>
             \A e \in begun[c] \cap held :
                system \in Rooted \ {"stripe"} /\ e[1] # Root
        /\ result[c] = "absent" => took[c] = {}

\* An export that returns has everything that was there from its start to its end,
\* and nothing of a sibling's.
ExportsAreWhole ==
    \A c \in Callers :
        result[c] = "exported" =>
            /\ steady[c] \subseteq call[c].got
            /\ \A e \in call[c].got : e[1] \in OwnSlots

\* No request reaches an entry of a sibling.
NothingOfOthers ==
    \A c \in Callers : \A e \in took[c] : e[1] \in OwnSlots

\* A call is abandoned only for a cause that a repetition cannot remove: credentials,
\* a malformed reference, or an object over the cap; never because the subject is gone.
RejectedForCause ==
    \A c \in Callers :
        result[c] = "rejected" =>
            \/ ~allowed
            \/ ~checked_prefix(call[c].ref)
            \/ call[c].verb = "export" /\ Oversized # {}

\* A rectification that succeeds leaves every field it maps corrected, unless someone
\* else has changed the field since the call began or the customer is gone.
RectificationsHold ==
    \A c \in Callers :
        result[c] \in {"rectified", "consistent"} /\ RootHeld =>
            \A f \in Targets(c) : profile[f] = Target(c, f) \/ f \in touched[c]

=============================================================================
