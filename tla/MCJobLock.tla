------------------------------ MODULE MCJobLock ------------------------------
(* Instances of JobLock for TLC; a tick is five seconds in the timed runs. *)
EXTENDS JobLock

CONSTANTS d1, d2, d3

TwoDeliveries == {d1, d2}
ThreeDeliveries == {d1, d2, d3}
==============================================================================
