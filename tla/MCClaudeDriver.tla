--------------------------- MODULE MCClaudeDriver ---------------------------
(* Instances of ClaudeDriver for TLC.                                      *)
EXTENDS ClaudeDriver

CONSTANTS m1, m2, m3
=============================================================================
