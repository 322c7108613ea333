---------------------------- MODULE MCAuditChain ----------------------------
(***************************************************************************)
(* Instances of the audit chain for TLC.                                   *)
(***************************************************************************)
EXTENDS AuditChain, TLC

CONSTANTS a1, a2

TwoAppenders == {a1, a2}
AppendersAreAlike == Permutations({a1, a2})

=============================================================================
