-------------------------- MODULE MCSourceBinding --------------------------
(* Instances of SourceBinding for TLC. *)
EXTENDS SourceBinding, TLC

CONSTANTS c1, c2, c3, code, src
Symmetric == Permutations(Calls)
=============================================================================
