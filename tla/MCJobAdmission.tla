--------------------------- MODULE MCJobAdmission ---------------------------
(* Instances of JobAdmission for TLC. *)
EXTENDS JobAdmission, TLC

CONSTANTS j1, j2, j3, b1, b2, x, y

\* Two of the Jobs are of the same user and document.
CapDocOf == [j \in Jobs |-> IF j = j3 THEN y ELSE x]
\* Three requests and sweeps without exceptions, or two and an exception.
CapScenes ==
    {[quiet |-> {}, faults |-> 1], [quiet |-> {j2}, faults |-> 0]}
==============================================================================
