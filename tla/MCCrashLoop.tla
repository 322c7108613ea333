----------------------------- MODULE MCCrashLoop -----------------------------
(* An erasure at two external systems, one of which crashes the runner. *)
EXTENDS CrashLoop

CONSTANTS r1, op

OneSubject == [e \in Entries |-> "subject"]
EraseOnly == [e \in Entries |-> "erase"]
OneErasure == {{1, 2}}
OneRunner == {r1}
OneRunnerAndOperator == {r1, op}

=============================================================================
