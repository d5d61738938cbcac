---------------------------- MODULE MCRetryQueue ----------------------------
(* Instances of RetryQueue for TLC.                                        *)
EXTENDS RetryQueue

CONSTANTS w1, w2
=============================================================================
