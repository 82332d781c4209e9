-------------------------------- MODULE JobRow --------------------------------
(***************************************************************************)
(* What the transition protocol promises of the Job row to those who read   *)
(* it: versions count the transitions one by one, and a transition commits  *)
(* only if it is legal from a status the Job had recently.  Recently is     *)
(* MaxAttempts - 1 versions ago at most: one per missed swap of the call    *)
(* that commits.  A call whose first swap hits is legal from the status the *)
(* row has.                                                                 *)
(***************************************************************************)
EXTENDS Integers, JobStates

CONSTANTS MaxAttempts, InitStatus

VARIABLES
    version,    \* Job.version
    was         \* was[v]: Job.status at version v

rowVars == <<version, was>>

Init ==
    /\ version = 0
    /\ was = [v \in {0} |-> InitStatus]

\* A session commits a swap to status "to".
Move(to) ==
    /\ \E v \in 0..version :
        /\ version - v < MaxAttempts
        /\ IsValidTransition(was[v], to)
    /\ version' = version + 1
    /\ was' = [v \in 0..(version + 1) |-> IF v <= version THEN was[v] ELSE to]

Next == \E to \in Statuses : Move(to)

Spec == Init /\ [][Next]_rowVars
===============================================================================
