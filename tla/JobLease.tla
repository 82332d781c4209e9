------------------------------- MODULE JobLease -------------------------------
(***************************************************************************)
(* What the Job lock promises those who work under it: a task enters the    *)
(* block only when the key does not exist, and from then on the key exists  *)
(* until the block is over.  The key may outlive its task, which keeps      *)
(* everybody out for a while, but never the other way round.                *)
(***************************************************************************)
CONSTANT Holder

VARIABLES
    free,       \* the key does not exist
    inside      \* the tasks whose block runs

leaseVars == <<free, inside>>

Init ==
    /\ free = TRUE
    /\ inside = {}

\* __enter__ returns.
Enter(h) ==
    /\ free /\ free' = FALSE
    /\ inside' = inside \cup {h}

\* The block ends: the key is deleted, or a failing release or the death of the
\* process leaves it behind.
Leave(h) ==
    /\ h \in inside /\ inside' = inside \ {h}
    /\ free' \in BOOLEAN

\* The key is set for a task that never learns of it.
Spoil ==
    /\ free /\ free' = FALSE
    /\ UNCHANGED inside

\* A key that nobody renews expires.
Expire ==
    /\ inside = {}
    /\ ~free /\ free' = TRUE
    /\ UNCHANGED inside

Next == Spoil \/ Expire \/ \E h \in Holder : Enter(h) \/ Leave(h)

Spec == Init /\ [][Next]_leaseVars
===============================================================================
