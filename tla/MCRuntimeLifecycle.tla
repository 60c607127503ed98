------------------------ MODULE MCRuntimeLifecycle ------------------------
(* Instances of RuntimeLifecycle for TLC. *)
EXTENDS RuntimeLifecycle, TLC

CONSTANTS c1, c2, c3
Symmetric == Permutations(Calls)
=============================================================================
