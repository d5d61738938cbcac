---------------------------- MODULE MCAutomations ----------------------------
(* Instances of Automations for TLC.                                       *)
EXTENDS Automations

CONSTANTS w1, w2
=============================================================================
