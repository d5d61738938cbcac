---------------------------- MODULE MCChatSession ----------------------------
(* Instances of ChatSession for TLC.                                       *)
EXTENDS ChatSession

CONSTANTS f1, f2
=============================================================================
