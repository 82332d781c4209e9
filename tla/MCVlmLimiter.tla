---------------------------- MODULE MCVlmLimiter ----------------------------
(* Instances of VlmLimiter for TLC. *)
EXTENDS VlmLimiter

CONSTANTS c1, c2, c3, c4
==============================================================================
