------------------------------ MODULE MCErasure ------------------------------
(***************************************************************************)
(* Instances of the local erasure for TLC.  Rows are numbered; row 1 is    *)
(* the subject's row in the subject table and the rest hang below it.      *)
(***************************************************************************)
EXTENDS ErasureProperties

CONSTANTS c1, c2, w1, w2, s1

TwoCalls == {c1, c2}
TwoWriters == {w1, w2}
OneSubject == {s1}

SameOwner == [r \in Rows |-> s1]

\* Comments and invoices below the user.  Either every row goes, the user's last, who
\* may then sign up again, or the invoices are retained and the user is pseudonymized.
BesideTables == <<3, 2, 1, 1, 2>>
BesideParents == <<1, 1, 1, 1, 1>>
AllGoesOrSomeIsKept == {<<"delete", "delete", "delete">>, <<"delete", "retain", "anonymize">>}

ASSUME InstanceAssumption == OneRowGuards

=============================================================================
