-------------------------- MODULE MCDeferredRuntime --------------------------
(* Instances of DeferredRuntime for TLC.                                   *)
EXTENDS DeferredRuntime, TLC

CONSTANTS m1, m2, m3

Symmetry == Permutations(Message)
=============================================================================
