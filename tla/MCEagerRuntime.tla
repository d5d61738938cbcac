--------------------------- MODULE MCEagerRuntime ---------------------------
(* Instances of EagerRuntime for TLC.                                      *)
EXTENDS EagerRuntime, TLC

CONSTANTS m1, m2, m3, r1, r2

(* Sends are interchangeable, and so are permission requests.              *)
Symmetry == Permutations(Message) \cup Permutations(Request)
=============================================================================
