--------------------------- MODULE MCSubjectRights ---------------------------
(* A user with a name and an e-mail address, which an order repeats. *)
EXTENDS SubjectRights

CONSTANTS s1, s2

TwoSessions == {s1, s2}

\* Two customers at one vendor, an account at another, and a kind nobody serves.
MCKindOf == [customer |-> "stripe", former |-> "stripe", account |-> "auth", typo |-> "strip"]

Plan(order, user) ==
    [cell \in {<<1, "email">>, <<2, "name">>, <<2, "email">>} |->
       IF cell[1] = 1 THEN order ELSE user]

MCPlans == {Plan("delete", "delete"), Plan("retain", "anonymize"), Plan("anonymize", "anonymize")}

Corrections(categories, refs) == [kind |-> "rectify", corrections |-> categories, refs |-> refs]

Data == {[kind |-> "erase"],
         Corrections({"email"}, {"customer", "account"}), Corrections({"name", "email"}, {}),
         Corrections({}, {}), Corrections({"name"}, {"typo"}),
         [kind |-> "export", refs |-> {"customer", "former"}], [kind |-> "export", refs |-> {"typo"}]}

MCOffers == {Consents \cup Restrictions, Data}

=============================================================================
