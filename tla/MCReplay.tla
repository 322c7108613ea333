------------------------------ MODULE MCReplay ------------------------------
(***************************************************************************)
(* Instances of the backup replay for TLC.                                 *)
(***************************************************************************)
EXTENDS Replay, TLC

CONSTANTS c1, c2, replay, s1, s2

TwoCallsAndReplay == {c1, c2, replay}
TwoSubjects == {s1, s2}

=============================================================================
