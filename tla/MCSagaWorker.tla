----------------------------- MODULE MCSagaWorker -----------------------------
(* An erasure at two external systems, one of which only lets data expire. *)
EXTENDS SagaWorker

CONSTANTS r1, r2, op, c1

OneSubject == [e \in Entries |-> "subject"]
EraseOnly == [e \in Entries |-> "erase"]
OneErasure == {{1, 2}}
OneCaller == {c1}
TwoThreads == {r1, r2}
TwoThreadsAndOperator == {r1, r2, op}

=============================================================================
