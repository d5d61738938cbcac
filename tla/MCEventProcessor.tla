-------------------------- MODULE MCEventProcessor --------------------------
(* Instances of EventProcessor for TLC.                                    *)
EXTENDS EventProcessor

CONSTANTS task, call, u1, u2

Symmetry == Permutations({u1, u2})
=============================================================================
