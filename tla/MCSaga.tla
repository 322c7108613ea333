------------------------------- MODULE MCSaga -------------------------------
(***************************************************************************)
(* Instances of the saga for TLC.  Entries 1 and 2 are the erasure of one  *)
(* subject at two external systems, entry 3 the rectification of the same  *)
(* subject at one of them.                                                 *)
(***************************************************************************)
EXTENDS SagaProperties, TLC

CONSTANTS r1, r2, op

OneSubject == [e \in Entries |-> "subject"]

EraseAndRectify == [e \in Entries |-> IF e = 3 THEN "rectify" ELSE "erase"]
RectifyOnly == [e \in Entries |-> "rectify"]

ErasureThenThird == {{1, 2}, {3}}
OneEntry == {{1}}

TwoRunners == {r1, r2}
TwoRunnersAndOperator == {r1, r2, op}

RunnersAreAlike == Permutations({r1, r2})

=============================================================================
