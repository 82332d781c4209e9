--------------------------- MODULE MCJobProcessing ---------------------------
(* Instances of JobProcessing for TLC. *)
EXTENDS JobProcessing, TLC

CONSTANTS ev, cf, re, sw
==============================================================================
