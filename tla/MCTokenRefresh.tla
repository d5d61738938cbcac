--------------------------- MODULE MCTokenRefresh ---------------------------
(* Instances of TokenRefresh for TLC.                                      *)
EXTENDS TokenRefresh

CONSTANTS s1, s2, r1, r2
=============================================================================
