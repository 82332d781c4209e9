------------------------ MODULE MCDocumentPublication ------------------------
(* Instances of DocumentPublication for TLC. *)
EXTENDS DocumentPublication, TLC

CONSTANTS d1, d2, j1, j2, j3, k1, k2, ar, ed, u1, u2

PublishDocOf  == [t \in Tx |-> IF t \in {k1, k2} THEN d2 ELSE d1]
PublishUserOf == [j \in Jobs |-> IF j \in {j3} THEN u2 ELSE u1]
PublishRelated == {{d1, d2}}
\* Both Documents were published before and are published again; only the first
\* one was, and the second one is; the first is published by two Users at once.
PublishScenes ==
    {[done |-> {j1, k1}, quiet |-> {j2, ed}],
     [done |-> {j1}, quiet |-> {j2, ed}],
     [done |-> {j1}, quiet |-> {k1, k2}]}
==============================================================================
