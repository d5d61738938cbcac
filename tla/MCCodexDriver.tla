---------------------------- MODULE MCCodexDriver ----------------------------
(* Instances of CodexDriver for TLC.                                       *)
EXTENDS CodexDriver

CONSTANTS m1, m2, m3
=============================================================================
