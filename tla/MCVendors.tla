------------------------------ MODULE MCVendors ------------------------------
(***************************************************************************)
(* Two calls on each system: two slots of the subject, one of a sibling.   *)
(***************************************************************************)
EXTENDS Vendors, TLC

CONSTANTS c1, c2

TwoCallers == {c1, c2}
AllSystems == Storages \cup Rooted \cup {"supabase_postgrest"}

LargeObjects == {<<2, 2>>}

\* A saga pass, and an exporter or the pass of another request beside it.
Methods == (c1 :> {"erase", "rectify"}) @@ (c2 :> {"export", "rectify"})

\* The older call corrects one field, the newer one two, and a category that only
\* the test double holds.
Corrections == (c1 :> [identity |-> "second"])
                  @@ (c2 :> [identity |-> "third", contact |-> "third",
                             financial |-> "third"])

=============================================================================
