---------------------- MODULE DocumentPublication_proofs ----------------------
(***************************************************************************)
(* What publication and archiving leave in the database, for any Documents, *)
(* Jobs, requests and orders of creation.                                   *)
(*                                                                          *)
(* The argument: only one transaction at a time has a Document locked       *)
(* (LockInv), and a Document's status, revision and node change only at the *)
(* commit of one that has.  What such a transaction has read under the lock *)
(* is therefore still so when it commits: that its Job is not older than    *)
(* the current revision's (AheadInv), which node it removes (DropInv), and  *)
(* which attribute rows of revisions there are (CutInv).  Edges cross       *)
(* Documents, so the locks do not guard them: what does is that a deleted   *)
(* node's edges are all deleted with it and nobody can insert one until the *)
(* deletion commits (GoneInv).                                              *)
(***************************************************************************)
EXTENDS DocumentPublication, FiniteSetTheorems, WellFoundedInduction, TLAPS

JobPhases     == {"idle", "resolved", "parsed", "ready", "empty", "stale",
                  "doomed", "closed"} \cup Publishes
ArchivePhases == {"idle", "update", "edges", "node", "dropped", "doomed", "closed"}
EditPhases    == {"idle", "deleting", "inserting", "inserted", "doomed", "closed"}

\* Every transaction is at a statement of its own program.
PcInv ==
    /\ \A j \in Jobs : pc[j] \in JobPhases
    /\ \A a \in Archivers : pc[a] \in ArchivePhases
    /\ \A e \in Editors : pc[e] \in EditPhases

TypeInv == TypeOK /\ PcInv

------------------------------------------------------------------------------
LEMMA Kinds ==
    /\ Jobs \subseteq Tx /\ Archivers \subseteq Tx /\ Editors \subseteq Tx
    /\ \A t \in Tx : DocOf[t] \in Docs
    /\ None \notin Jobs
BY PublicationAssumption DEF Tx

LEMMA SeedType ==
    ASSUME NEW S \in SUBSET Jobs, NEW d \in Docs
    PROVE  \/ SeedOf(S, d) = None /\ \A j \in S : DocOf[j] # d
           \/ SeedOf(S, d) \in S /\ DocOf[SeedOf(S, d)] = d
BY DEF SeedOf

LEMMA TypeInit == Init => TypeInv
<1> SUFFICES ASSUME Init PROVE TypeInv
  OBVIOUS
<1> USE PublicationAssumption
<1> DEFINE Start(S, Q, turn, clock) ==
        /\ status = [d \in Docs |-> IF SeedOf(S, d) = None THEN "absent" ELSE "active"]
        /\ current = [d \in Docs |-> SeedOf(S, d)]
        /\ attrs = [d \in Docs |-> {SeedOf(S, d)} \ {None}]
        /\ content = S
        /\ node = [d \in Docs |-> SeedOf(S, d)]
        /\ edges = {Link(p[1], DocOf[p[2]]) :
               p \in {q \in S \X S :
                         /\ turn[q[1]] > turn[q[2]]
                         /\ {DocOf[q[1]], DocOf[q[2]]} \in Related}}
        /\ job = [j \in Jobs |-> IF j \in S THEN "done" ELSE "none"]
        /\ created = [j \in Jobs |-> IF j \in S THEN clock[j] ELSE 0]
        /\ archives = [d \in Docs |-> 0]
        /\ since = [j \in Jobs |-> 0]
        /\ pc = [t \in Tx |-> IF t \in S \cup Q THEN "closed" ELSE "idle"]
        /\ seen = [t \in Tx |-> {}]
        /\ cut = [t \in Tx |-> {}]
        /\ gone = [t \in Tx |-> {}]
        /\ drop = [t \in Tx |-> None]
        /\ put = [t \in Tx |-> {}]
        /\ peers = [t \in Tx |-> {}]
        /\ want = [t \in Tx |-> None]
        /\ tries = [j \in Jobs |-> 0]
<1>0. PICK scene \in Scenes :
          \E turn \in Turns(scene.done), clock \in [scene.done -> Clock] :
              Start(scene.done, scene.quiet, turn, clock)
  BY DEF Init
<1>1. PICK turn \in Turns(scene.done), clock \in [scene.done -> Clock] :
          Start(scene.done, scene.quiet, turn, clock)
  BY <1>0
<1>2. scene.done \subseteq Jobs
  OBVIOUS
<1>3. /\ status \in [Docs -> {"absent", "active", "archived"}]
      /\ current \in [Docs -> Jobs \cup {None}]
      /\ attrs \in [Docs -> SUBSET (Jobs \cup Editors)]
      /\ content \subseteq Jobs
      /\ node \in [Docs -> Jobs \cup {None}]
  BY <1>1, <1>2, SeedType
<1>4. ASSUME NEW e \in edges PROVE e \in Edge
  <2>1. PICK q \in scene.done \X scene.done : e = Link(q[1], DocOf[q[2]])
    BY <1>1, <1>4
  <2>2. q[1] \in Jobs /\ q[2] \in Jobs
    BY <1>2
  <2> QED
    BY <2>1, <2>2, Kinds DEF Edge, Link
<1>5. /\ job \in [Jobs -> {"none", "active", "done", "failed"}]
      /\ created \in [Jobs -> Nat]
      /\ archives \in [Docs -> Nat]
      /\ since \in [Jobs -> Nat]
      /\ tries \in [Jobs -> Nat]
  BY <1>1, <1>2
<1>6. pc \in [Tx -> {"idle", "closed"}]
  BY <1>1
<1>7. /\ seen \in [Tx -> SUBSET (Jobs \cup Editors)]
      /\ cut \in [Tx -> SUBSET (Jobs \cup Editors)]
      /\ gone \in [Tx -> SUBSET Edge]
      /\ drop \in [Tx -> Jobs \cup {None}]
      /\ put \in [Tx -> SUBSET Edge]
      /\ peers \in [Tx -> SUBSET Docs]
      /\ want \in [Tx -> Docs \cup {None}]
  BY <1>1
<1>8. pc \in [Tx -> Phases]
  BY <1>6 DEF Phases
<1>9. PcInv
  BY <1>6, Kinds DEF PcInv, JobPhases, ArchivePhases, EditPhases
<1> QED
  BY <1>3, <1>4, <1>5, <1>7, <1>8, <1>9 DEF TypeOK, TypeInv

\* The phases a transaction may go to.
LEMMA Goes ==
    ASSUME TypeInv, NEW t \in Tx, NEW p, At(t, p),
           t \in Jobs => p \in JobPhases,
           t \in Archivers => p \in ArchivePhases,
           t \in Editors => p \in EditPhases
    PROVE  PcInv' /\ pc' \in [Tx -> Phases]
<1>0. /\ JobPhases \subseteq Phases /\ ArchivePhases \subseteq Phases
      /\ EditPhases \subseteq Phases
  BY DEF Phases, JobPhases, ArchivePhases, EditPhases, Publishes
<1>1. p \in Phases
  BY <1>0 DEF Tx
<1>2. pc' \in [Tx -> Phases]
  BY <1>1 DEF TypeInv, TypeOK, At
<1>3. PcInv'
  BY Kinds DEF TypeInv, TypeOK, PcInv, At
<1> QED
  BY <1>2, <1>3

LEMMA DeletionGoes ==
    ASSUME TypeInv, NEW t \in Tx, CommitDeletion(t, "closed")
    PROVE  /\ PcInv' /\ pc' \in [Tx -> Phases]
           /\ want' \in [Tx -> Docs \cup {None}]
<1>1. pc' \in [Tx -> Phases]
  BY DEF TypeInv, TypeOK, CommitDeletion, Phases
<1>2. PcInv'
  BY Kinds DEF TypeInv, TypeOK, PcInv, CommitDeletion, JobPhases, ArchivePhases, EditPhases
<1>3. want' \in [Tx -> Docs \cup {None}]
  BY DEF TypeInv, TypeOK, CommitDeletion
<1> QED
  BY <1>1, <1>2, <1>3

LEMMA Cleared ==
    ASSUME TypeOK, NEW t \in Tx, Clear(t)
    PROVE  /\ seen' \in [Tx -> SUBSET (Jobs \cup Editors)]
           /\ cut' \in [Tx -> SUBSET (Jobs \cup Editors)]
           /\ gone' \in [Tx -> SUBSET Edge]
           /\ drop' \in [Tx -> Jobs \cup {None}]
           /\ put' \in [Tx -> SUBSET Edge]
           /\ peers' \in [Tx -> SUBSET Docs]
BY DEF TypeOK, Clear

LEMMA JobTypeStep ==
    ASSUME TypeInv, NEW j \in Jobs, JobStep(j)
    PROVE  TypeInv'
<1> USE PublicationAssumption DEF TypeInv
<1>0. j \in Tx /\ j \notin Archivers /\ j \notin Editors
  BY Kinds
<1>1. CASE ResolveScope(j)
  <2>1. PcInv' /\ pc' \in [Tx -> Phases]
    BY <1>0, <1>1, Goes DEF ResolveScope, JobPhases
  <2> QED
    BY <1>1, <2>1, Kinds DEF ResolveScope, TypeOK, committed, local
<1>2. CASE CreateJob(j)
  <2>1. PcInv' /\ pc' \in [Tx -> Phases]
    BY <1>0, <1>2, Goes DEF CreateJob, JobPhases
  <2>2. job' \in [Jobs -> {"none", "active", "done", "failed"}] /\ created' \in [Jobs -> Nat]
    <3>1. CASE UNCHANGED <<job, created>>
      BY <3>1 DEF TypeOK
    <3>2. ASSUME NEW now \in Clock, job' = [job EXCEPT ![j] = "active"],
                 created' = [created EXCEPT ![j] = now]
          PROVE  job' \in [Jobs -> {"none", "active", "done", "failed"}] /\ created' \in [Jobs -> Nat]
      BY <3>2 DEF TypeOK
    <3> QED
      BY <1>2, <3>1, <3>2 DEF CreateJob
  <2> QED
    BY <1>2, <2>1, <2>2 DEF CreateJob, TypeOK, committed, local
<1>3. CASE FailJob(j)
  BY <1>3 DEF FailJob, TypeOK, PcInv, committed, local
<1>4. CASE BeginPublication(j)
  <2>1. PcInv' /\ pc' \in [Tx -> Phases]
    BY <1>0, <1>4, Goes DEF BeginPublication, JobPhases, Publishes
  <2> QED
    BY <1>4, <2>1 DEF BeginPublication, TypeOK, committed, local
<1>5. CASE LockDocument(j) \/ Linked(j) \/ RejectCompletion(j)
  <2>1. PcInv' /\ pc' \in [Tx -> Phases]
    BY <1>0, <1>5, Goes
    DEF LockDocument, Linked, RejectCompletion, JobPhases, Publishes
  <2> QED
    BY <1>5, <2>1
    DEF LockDocument, Linked, RejectCompletion, TypeOK, committed, local, life
<1>6. CASE ReplaceAttributes(j)
  <2>1. PcInv' /\ pc' \in [Tx -> Phases]
    BY <1>0, <1>6, Goes DEF ReplaceAttributes, JobPhases, Publishes
  <2> QED
    BY <1>0, <1>6, <2>1, Kinds DEF ReplaceAttributes, TypeOK, committed, life
<1>7. CASE ReadPeers(j)
  <2>1. PcInv' /\ pc' \in [Tx -> Phases]
    BY <1>0, <1>7, Goes DEF ReadPeers, JobPhases, Publishes
  <2> QED
    BY <1>0, <1>7, <2>1 DEF ReadPeers, TypeOK, committed, life
<1>8. ASSUME NEW d \in Docs, LinkPeer(j, d) PROVE TypeInv'
  <2>1. Link(j, d) \in Edge
    BY Kinds DEF Link, Edge
  <2>2. PcInv' /\ pc' \in [Tx -> Phases]
    BY <1>0, <1>8, Goes DEF LinkPeer, JobPhases, TypeOK, PcInv
  <2>3. /\ put' \in [Tx -> SUBSET Edge] /\ peers' \in [Tx -> SUBSET Docs]
        /\ want' \in [Tx -> Docs \cup {None}]
    <3>1. put' = put \/ put' = [put EXCEPT ![j] = @ \cup {Link(j, d)}]
      BY <1>8 DEF LinkPeer
    <3>2. peers' = peers \/ peers' = [peers EXCEPT ![j] = @ \ {d}]
      BY <1>8 DEF LinkPeer
    <3>3. want' = [want EXCEPT ![j] = d] \/ want' = [want EXCEPT ![j] = None]
      BY <1>8 DEF LinkPeer
    <3>4. put' \in [Tx -> SUBSET Edge]
      BY <1>0, <2>1, <3>1 DEF TypeOK
    <3>5. peers' \in [Tx -> SUBSET Docs]
      BY <1>0, <3>2 DEF TypeOK
    <3>6. want' \in [Tx -> Docs \cup {None}]
      BY <1>0, <3>3 DEF TypeOK
    <3> QED
      BY <3>4, <3>5, <3>6
  <2> QED
    BY <1>8, <2>2, <2>3 DEF LinkPeer, TypeOK, committed, life
<1>9. CASE CommitPublication(j)
  <2>1. PcInv' /\ pc' \in [Tx -> Phases] /\ want' \in [Tx -> Docs \cup {None}]
    BY <1>0, <1>9, DeletionGoes DEF CommitPublication
  <2>2. /\ seen' \in [Tx -> SUBSET (Jobs \cup Editors)]
        /\ cut' \in [Tx -> SUBSET (Jobs \cup Editors)]
        /\ gone' \in [Tx -> SUBSET Edge]
        /\ drop' \in [Tx -> Jobs \cup {None}]
        /\ put' \in [Tx -> SUBSET Edge]
        /\ peers' \in [Tx -> SUBSET Docs]
    BY <1>0, <1>9, Cleared DEF CommitPublication
  <2>3. /\ job' \in [Jobs -> {"none", "active", "done", "failed"}]
        /\ status' \in [Docs -> {"absent", "active", "archived"}]
        /\ current' \in [Docs -> Jobs \cup {None}]
        /\ attrs' \in [Docs -> SUBSET (Jobs \cup Editors)]
        /\ content' \subseteq Jobs
        /\ node' \in [Docs -> Jobs \cup {None}]
        /\ edges' \subseteq Edge
    BY <1>0, <1>9 DEF CommitPublication, TypeOK
  <2> QED
    BY <1>9, <2>1, <2>2, <2>3 DEF CommitPublication, TypeOK
<1>10. CASE CommitCompletion(j)
  <2>1. PcInv' /\ pc' \in [Tx -> Phases]
    BY <1>0, <1>10, Goes DEF CommitCompletion, JobPhases
  <2> QED
    BY <1>10, <2>1 DEF CommitCompletion, TypeOK, committed, local
<1> QED
  BY <1>1, <1>2, <1>3, <1>4, <1>5, <1>6, <1>7, <1>8, <1>9, <1>10 DEF JobStep

LEMMA GraphTypeStep ==
    ASSUME TypeInv, NEW t \in Tx, GraphStep(t)
    PROVE  TypeInv'
<1> USE PublicationAssumption DEF TypeInv
<1>0. t \notin Editors /\ (t \in Jobs \/ t \in Archivers)
  BY DEF GraphStep, DropEdges, DropNode, Runs, PcInv, EditPhases, Tx
<1>1. Touches(DocOf[t]) \subseteq Edge
  BY DEF TypeOK, Touches
<1>2. CASE DropEdges(t)
  <2>1. PcInv' /\ pc' \in [Tx -> Phases]
    BY <1>0, <1>2, Goes DEF DropEdges, JobPhases, ArchivePhases, Publishes
  <2> QED
    BY <1>1, <1>2, <2>1, Kinds DEF DropEdges, TypeOK, committed, life
<1>3. CASE DropNode(t)
  <2>1. PcInv' /\ pc' \in [Tx -> Phases]
    BY <1>0, <1>3, Goes, Kinds DEF DropNode, JobPhases, ArchivePhases, Publishes
  <2> QED
    BY <1>1, <1>3, <2>1 DEF DropNode, TypeOK, committed, life
<1> QED
  BY <1>2, <1>3 DEF GraphStep

LEMMA EndTypeStep ==
    ASSUME TypeInv, NEW t \in Tx, EndStep(t)
    PROVE  TypeInv'
<1> USE PublicationAssumption DEF TypeInv
<1>1. CASE BreakDeadlock(t)
  <2>1. PcInv' /\ pc' \in [Tx -> Phases]
    BY <1>1, Goes DEF BreakDeadlock, JobPhases, ArchivePhases, EditPhases
  <2>2. want' \in [Tx -> Docs \cup {None}]
    BY <1>1 DEF BreakDeadlock, TypeOK
  <2> QED
    BY <1>1, <2>1, <2>2 DEF BreakDeadlock, TypeOK, committed, life
<1>2. CASE Rollback(t)
  <2>1. PcInv' /\ pc' \in [Tx -> Phases]
    BY <1>2, Goes, Kinds DEF Rollback, JobPhases, ArchivePhases, EditPhases
  <2>2. /\ seen' \in [Tx -> SUBSET (Jobs \cup Editors)]
        /\ cut' \in [Tx -> SUBSET (Jobs \cup Editors)]
        /\ gone' \in [Tx -> SUBSET Edge]
        /\ drop' \in [Tx -> Jobs \cup {None}]
        /\ put' \in [Tx -> SUBSET Edge]
        /\ peers' \in [Tx -> SUBSET Docs]
    BY <1>2, Cleared DEF Rollback
  <2>3. want' \in [Tx -> Docs \cup {None}]
    BY <1>2 DEF Rollback, TypeOK
  <2>4. job' \in [Jobs -> {"none", "active", "done", "failed"}]
    BY <1>2 DEF Rollback, TypeOK
  <2> QED
    BY <1>2, <2>1, <2>2, <2>3, <2>4 DEF Rollback, TypeOK, committed
<1> QED
  BY <1>1, <1>2 DEF EndStep

LEMMA ArchiveTypeStep ==
    ASSUME TypeInv, NEW a \in Archivers, ArchiveStep(a)
    PROVE  TypeInv'
<1> USE PublicationAssumption DEF TypeInv
<1>0. a \in Tx /\ a \notin Jobs /\ a \notin Editors
  BY Kinds
<1>1. CASE ReadDocument(a) \/ UpdateDocument(a)
  <2>1. PcInv' /\ pc' \in [Tx -> Phases]
    BY <1>0, <1>1, Goes DEF ReadDocument, UpdateDocument, ArchivePhases
  <2> QED
    BY <1>1, <2>1 DEF ReadDocument, UpdateDocument, TypeOK, committed, local, life
<1>2. CASE CommitArchive(a)
  <2>1. PcInv' /\ pc' \in [Tx -> Phases] /\ want' \in [Tx -> Docs \cup {None}]
    BY <1>0, <1>2, DeletionGoes DEF CommitArchive
  <2>2. /\ seen' \in [Tx -> SUBSET (Jobs \cup Editors)]
        /\ cut' \in [Tx -> SUBSET (Jobs \cup Editors)]
        /\ gone' \in [Tx -> SUBSET Edge]
        /\ drop' \in [Tx -> Jobs \cup {None}]
        /\ put' \in [Tx -> SUBSET Edge]
        /\ peers' \in [Tx -> SUBSET Docs]
    BY <1>0, <1>2, Cleared DEF CommitArchive
  <2>3. /\ status' \in [Docs -> {"absent", "active", "archived"}]
        /\ node' \in [Docs -> Jobs \cup {None}]
        /\ edges' \subseteq Edge
        /\ archives' \in [Docs -> Nat]
    BY <1>0, <1>2 DEF CommitArchive, TypeOK
  <2> QED
    BY <1>2, <2>1, <2>2, <2>3 DEF CommitArchive, TypeOK
<1> QED
  BY <1>1, <1>2 DEF ArchiveStep

LEMMA EditTypeStep ==
    ASSUME TypeInv, NEW e \in Editors, EditStep(e)
    PROVE  TypeInv'
<1> USE DEF TypeInv
<1>0. e \in Tx /\ e \notin Jobs /\ e \notin Archivers
  BY PublicationAssumption, Kinds
<1>1. PcInv' /\ pc' \in [Tx -> Phases]
  <2>1. \E p \in EditPhases : At(e, p)
    BY DEF EditStep, DeleteAttributes, AttributesDeleted, InsertAttributes,
           CommitAttributes, EditPhases
  <2> QED
    BY <1>0, <2>1, Goes
<1>2. CASE DeleteAttributes(e)
  <2>1. seen' = seen \/ seen' = [seen EXCEPT ![e] = attrs[DocOf[e]]]
    BY <1>2 DEF DeleteAttributes
  <2>2. seen' \in [Tx -> SUBSET (Jobs \cup Editors)]
    BY <1>0, <2>1, Kinds DEF TypeOK
  <2> QED
    BY <1>1, <1>2, <2>2 DEF DeleteAttributes, TypeOK, committed, life
<1>3. CASE AttributesDeleted(e)
  BY <1>0, <1>1, <1>3, Kinds DEF AttributesDeleted, TypeOK, committed, life
<1>4. CASE InsertAttributes(e)
  BY <1>0, <1>1, <1>4 DEF InsertAttributes, TypeOK, committed, local, life
<1>5. CASE CommitAttributes(e)
  <2>1. /\ seen' \in [Tx -> SUBSET (Jobs \cup Editors)]
        /\ cut' \in [Tx -> SUBSET (Jobs \cup Editors)]
        /\ gone' \in [Tx -> SUBSET Edge]
        /\ drop' \in [Tx -> Jobs \cup {None}]
        /\ put' \in [Tx -> SUBSET Edge]
        /\ peers' \in [Tx -> SUBSET Docs]
    BY <1>0, <1>5, Cleared DEF CommitAttributes
  <2>2. attrs' \in [Docs -> SUBSET (Jobs \cup Editors)]
    BY <1>5 DEF CommitAttributes, TypeOK
  <2> QED
    BY <1>1, <1>5, <2>1, <2>2 DEF CommitAttributes, TypeOK, life
<1> QED
  BY <1>2, <1>3, <1>4, <1>5 DEF EditStep

LEMMA TypeStep == TypeInv /\ [Next]_vars => TypeInv'
<1> SUFFICES ASSUME TypeInv, [Next]_vars PROVE TypeInv'
  OBVIOUS
<1>1. CASE UNCHANGED vars
  BY <1>1 DEF TypeInv, TypeOK, PcInv, vars, committed, local, life
<1> QED
  BY <1>1, JobTypeStep, GraphTypeStep, EndTypeStep, ArchiveTypeStep, EditTypeStep DEF Next

\* Tables and transactions keep their types, and every transaction stays within
\* its own program.
THEOREM PublicationTypeCorrect == Spec => []TypeOK
<1>1. TypeInv => TypeOK
  BY DEF TypeInv
<1> QED
  BY <1>1, TypeInit, TypeStep, PTL DEF Spec

------------------------------------------------------------------------------
\* Who has its Document's row locked, has it alone.
LockInv ==
    \A t, u \in Tx :
        DocOf[t] = DocOf[u] /\ HoldsDocument(t) /\ HoldsDocument(u) => t = u

\* Only who is about to insert an edge waits for a node.
WantInv == \A t \in Tx : want[t] # None => pc[t] = "link" /\ want[t] \in peers[t]

\* The phases in which t has the lock.
Holding(t, p) ==
    \/ t \in Jobs /\ p \in Publishes \cup {"stale"}
    \/ t \in Archivers /\ p \in {"edges", "node", "dropped"}

LEMMA HoldFrame ==
    ASSUME TypeInv, LockInv, NEW t \in Tx, NEW p, At(t, p),
           HoldsDocument(t) \/ ~Holding(t, p)
    PROVE  LockInv'
BY DEF TypeInv, TypeOK, LockInv, HoldsDocument, Holding, At

LEMMA HoldAlone ==
    ASSUME TypeInv, LockInv, NEW t \in Tx, NEW p, At(t, p),
           pc[t] \in {"ready", "update"}, WaitsFor(t) = {}
    PROVE  LockInv'
<1>1. \A u \in Tx \ {t} : DocOf[u] = DocOf[t] => ~HoldsDocument(u)
  BY DEF WaitsFor, SameDoc, Others
<1>2. \A u \in Tx \ {t} : HoldsDocument(u)' => HoldsDocument(u)
  BY DEF HoldsDocument, At, TypeInv, TypeOK
<1> QED
  BY <1>1, <1>2 DEF LockInv

LEMMA HoldCommit ==
    ASSUME TypeInv, LockInv, NEW t \in Tx, CommitDeletion(t, "closed")
    PROVE  LockInv'
<1>1. \A u \in Tx : HoldsDocument(u)' => HoldsDocument(u)
  BY DEF HoldsDocument, CommitDeletion, TypeInv, TypeOK, Publishes
<1> QED
  BY <1>1 DEF LockInv

LEMMA LockStep == TypeInv /\ LockInv /\ [Next]_vars => LockInv'
<1> SUFFICES ASSUME TypeInv, LockInv, [Next]_vars PROVE LockInv'
  OBVIOUS
<1>0. /\ \A j \in Jobs : j \in Tx /\ j \notin Archivers
      /\ \A a \in Archivers : a \in Tx /\ a \notin Jobs
      /\ \A e \in Editors : e \in Tx /\ e \notin Jobs /\ e \notin Archivers
  BY PublicationAssumption DEF Tx
<1>1. ASSUME NEW j \in Jobs, JobStep(j) PROVE LockInv'
  <2>1. CASE LockDocument(j)
    BY <1>0, <2>1, HoldAlone DEF LockDocument, Runs
  <2>2. CASE ResolveScope(j) \/ BeginPublication(j) \/ CommitCompletion(j) \/ RejectCompletion(j)
    BY <1>0, <2>2, HoldFrame
    DEF ResolveScope, BeginPublication, CommitCompletion, RejectCompletion, Holding, Publishes
  <2>3. CASE CreateJob(j)
    BY <1>0, <2>3, HoldFrame DEF CreateJob, Holding, Publishes
  <2>4. CASE FailJob(j)
    BY <2>4 DEF FailJob, LockInv, HoldsDocument
  <2>5. CASE ReplaceAttributes(j) \/ ReadPeers(j) \/ Linked(j)
    BY <1>0, <2>5, HoldFrame
    DEF ReplaceAttributes, ReadPeers, Linked, Runs, HoldsDocument, Publishes
  <2>6. ASSUME NEW d \in Docs, LinkPeer(j, d) PROVE LockInv'
    <3>1. CASE UNCHANGED pc
      BY <3>1 DEF LockInv, HoldsDocument
    <3>2. CASE At(j, "doomed")
      BY <1>0, <3>2, HoldFrame DEF Holding, Publishes
    <3> QED
      BY <2>6, <3>1, <3>2 DEF LinkPeer
  <2>7. CASE CommitPublication(j)
    BY <1>0, <2>7, HoldCommit DEF CommitPublication
  <2> QED
    BY <1>1, <2>1, <2>2, <2>3, <2>4, <2>5, <2>6, <2>7 DEF JobStep
<1>2. ASSUME NEW t \in Tx, DropEdges(t) PROVE LockInv'
  BY <1>2, HoldFrame DEF DropEdges, Runs, HoldsDocument, Holding, Publishes
<1>3. ASSUME NEW t \in Tx, DropNode(t) PROVE LockInv'
  BY <1>3, HoldFrame DEF DropNode, Runs, HoldsDocument, Holding, Publishes
<1>4. ASSUME NEW t \in Tx, EndStep(t) PROVE LockInv'
  BY <1>4, HoldFrame DEF EndStep, BreakDeadlock, Rollback, Holding, Publishes
<1>5. ASSUME NEW a \in Archivers, ArchiveStep(a) PROVE LockInv'
  <2>1. CASE ReadDocument(a)
    BY <1>0, <2>1, HoldFrame DEF ReadDocument, Holding
  <2>2. CASE UpdateDocument(a)
    BY <1>0, <2>2, HoldAlone DEF UpdateDocument, Runs
  <2>3. CASE CommitArchive(a)
    BY <1>0, <2>3, HoldCommit DEF CommitArchive
  <2> QED
    BY <1>5, <2>1, <2>2, <2>3 DEF ArchiveStep
<1>6. ASSUME NEW e \in Editors, EditStep(e) PROVE LockInv'
  <2>1. \E p \in EditPhases : At(e, p)
    BY <1>6 DEF EditStep, DeleteAttributes, AttributesDeleted, InsertAttributes,
           CommitAttributes, EditPhases
  <2> QED
    BY <1>0, <2>1, HoldFrame DEF Holding
<1>7. CASE UNCHANGED vars
  BY <1>7 DEF LockInv, HoldsDocument, vars
<1> QED
  BY <1>1, <1>2, <1>3, <1>4, <1>5, <1>6, <1>7 DEF Next, GraphStep

LEMMA WantStep == TypeInv /\ WantInv /\ [Next]_vars => WantInv'
<1> SUFFICES ASSUME TypeInv, WantInv, [Next]_vars, NEW u \in Tx, want'[u] # None
             PROVE  pc'[u] = "link" /\ want'[u] \in peers'[u]
  BY DEF WantInv
<1>0. Jobs \subseteq Tx /\ Archivers \subseteq Tx /\ Editors \subseteq Tx
  BY Kinds
<1> DEFINE Goal == pc'[u] = "link" /\ want'[u] \in peers'[u]
<1>1. ASSUME NEW j \in Jobs, JobStep(j) PROVE Goal
  <2>1. CASE \/ ResolveScope(j) \/ CreateJob(j) \/ FailJob(j) \/ BeginPublication(j)
             \/ LockDocument(j) \/ ReplaceAttributes(j) \/ CommitCompletion(j)
             \/ RejectCompletion(j)
    BY <1>0, <2>1 DEF ResolveScope, CreateJob, FailJob, BeginPublication, LockDocument,
       ReplaceAttributes, CommitCompletion, RejectCompletion, Runs, At, WantInv,
       TypeInv, TypeOK, local, life, committed
  <2>2. CASE ReadPeers(j) \/ Linked(j)
    BY <1>0, <2>2 DEF ReadPeers, Linked, At, WantInv, TypeInv, TypeOK, local
  <2>3. ASSUME NEW d \in Docs, LinkPeer(j, d) PROVE Goal
    <3>1. CASE u # j
      <4>1. want'[u] = want[u] /\ pc'[u] = pc[u] /\ peers'[u] = peers[u]
        BY <1>0, <2>3, <3>1 DEF LinkPeer, At, TypeInv, TypeOK
      <4> QED
        BY <4>1 DEF WantInv
    <3>2. CASE u = j
      BY <1>0, <2>3, <3>2 DEF LinkPeer, At, TypeInv, TypeOK
    <3> QED
      BY <3>1, <3>2
  <2>4. CASE CommitPublication(j)
    BY <1>0, <2>4 DEF CommitPublication, CommitDeletion, Clear, WantInv, TypeInv, TypeOK
  <2> QED
    BY <1>1, <2>1, <2>2, <2>3, <2>4 DEF JobStep
<1>2. ASSUME NEW t \in Tx, GraphStep(t) PROVE Goal
  BY <1>2 DEF GraphStep, DropEdges, DropNode, Runs, At, WantInv, TypeInv, TypeOK
<1>3. ASSUME NEW t \in Tx, EndStep(t) PROVE Goal
  <2>1. CASE BreakDeadlock(t)
    BY <2>1 DEF BreakDeadlock, At, WantInv, TypeInv, TypeOK
  <2>2. CASE Rollback(t)
    BY <2>2 DEF Rollback, At, Clear, WantInv, TypeInv, TypeOK
  <2> QED
    BY <1>3, <2>1, <2>2 DEF EndStep
<1>4. ASSUME NEW a \in Archivers, ArchiveStep(a) PROVE Goal
  <2>1. CASE ReadDocument(a) \/ UpdateDocument(a)
    BY <1>0, <2>1 DEF ReadDocument, UpdateDocument, Runs, At, WantInv, TypeInv, TypeOK, local
  <2>2. CASE CommitArchive(a)
    BY <1>0, <2>2 DEF CommitArchive, CommitDeletion, Clear, WantInv, TypeInv, TypeOK
  <2> QED
    BY <1>4, <2>1, <2>2 DEF ArchiveStep
<1>5. ASSUME NEW e \in Editors, EditStep(e) PROVE Goal
  BY <1>0, <1>5 DEF EditStep, DeleteAttributes, AttributesDeleted, InsertAttributes,
     CommitAttributes, Runs, At, Clear, WantInv, TypeInv, TypeOK, local
<1>6. CASE UNCHANGED vars
  BY <1>6 DEF WantInv, vars, local
<1> QED
  BY <1>1, <1>2, <1>3, <1>4, <1>5, <1>6 DEF Next

------------------------------------------------------------------------------
(* What a step changes of the Documents. *)

Publication == \E j \in Jobs : CommitPublication(j)
Archival    == \E a \in Archivers : CommitArchive(a)

\* Only commits write Documents, content and the graph.
LEMMA Still ==
    ASSUME [Next]_vars, ~Publication, ~Archival
    PROVE  UNCHANGED <<status, current, content, node, edges, archives>>
<1>1. ASSUME NEW j \in Jobs, JobStep(j)
      PROVE  UNCHANGED <<status, current, content, node, edges, archives>>
  BY <1>1 DEF Publication, JobStep, ResolveScope, CreateJob, FailJob, BeginPublication,
     LockDocument, ReplaceAttributes, ReadPeers, LinkPeer, Linked, CommitCompletion,
     RejectCompletion, committed, life
<1>2. ASSUME NEW t \in Tx, GraphStep(t) \/ EndStep(t)
      PROVE  UNCHANGED <<status, current, content, node, edges, archives>>
  BY <1>2 DEF GraphStep, EndStep, DropEdges, DropNode, BreakDeadlock, Rollback, committed, life
<1>3. ASSUME NEW a \in Archivers, ArchiveStep(a)
      PROVE  UNCHANGED <<status, current, content, node, edges, archives>>
  BY <1>3 DEF Archival, ArchiveStep, ReadDocument, UpdateDocument, committed, life
<1>4. ASSUME NEW e \in Editors, EditStep(e)
      PROVE  UNCHANGED <<status, current, content, node, edges, archives>>
  BY <1>4 DEF EditStep, DeleteAttributes, AttributesDeleted, InsertAttributes,
     CommitAttributes, committed, life
<1> QED
  BY <1>1, <1>2, <1>3, <1>4 DEF Next, vars, committed, life

\* A publication, and what it leaves alone.
LEMMA Published ==
    ASSUME TypeInv, WantInv, NEW j \in Jobs, CommitPublication(j)
    PROVE  LET d == DocOf[j] IN
           /\ j \in Tx /\ d \in Docs /\ HoldsDocument(j) /\ pc[j] = "linked" /\ pc'[j] = "closed"
           /\ status' = [status EXCEPT ![d] = "active"]
           /\ current' = [current EXCEPT ![d] = j]
           /\ attrs' = [attrs EXCEPT ![d] = (attrs[d] \ cut[j]) \cup {j}]
           /\ content' = content \cup {j}
           /\ node' = [node EXCEPT ![d] = j]
           /\ edges' = (edges \ gone[j]) \cup put[j] /\ put'[j] = {}
           /\ UNCHANGED <<created, archives, since>>
           /\ \A t \in Tx \ {j} :
                  /\ cut'[t] = cut[t] /\ drop'[t] = drop[t]
                  /\ gone'[t] = gone[t] /\ put'[t] = put[t]
                  /\ pc'[t] = pc[t] \/ (pc[t] = "link" /\ pc'[t] = "doomed")
<1>1. j \in Tx /\ DocOf[j] \in Docs
  BY Kinds
<1>2. pc[j] = "linked" /\ pc'[j] = "closed" /\ HoldsDocument(j)
  BY <1>1 DEF CommitPublication, CommitDeletion, HoldsDocument, Publishes
<1>3. ASSUME NEW t \in Tx \ {j}
      PROVE  /\ cut'[t] = cut[t] /\ drop'[t] = drop[t]
             /\ gone'[t] = gone[t] /\ put'[t] = put[t]
             /\ pc'[t] = pc[t] \/ (pc[t] = "link" /\ pc'[t] = "doomed")
  <2>1. cut'[t] = cut[t] /\ drop'[t] = drop[t] /\ gone'[t] = gone[t] /\ put'[t] = put[t]
    BY <1>1 DEF CommitPublication, Clear, TypeInv, TypeOK
  <2>2. CASE t \in Waiting(j)
    <3>1. want[t] # None
      BY <1>1, <2>2, PublicationAssumption DEF Waiting
    <3> QED
      BY <2>1, <2>2, <3>1 DEF CommitPublication, CommitDeletion, WantInv
  <2>3. CASE t \notin Waiting(j)
    BY <2>1, <2>3 DEF CommitPublication, CommitDeletion
  <2> QED
    BY <2>2, <2>3
<1>4. put'[j] = {}
  BY <1>1 DEF CommitPublication, Clear, TypeInv, TypeOK
<1> QED
  BY <1>1, <1>2, <1>3, <1>4 DEF CommitPublication

LEMMA Archived ==
    ASSUME TypeInv, WantInv, NEW a \in Archivers, CommitArchive(a)
    PROVE  LET d == DocOf[a] IN
           /\ a \in Tx /\ d \in Docs /\ HoldsDocument(a)
           /\ pc[a] = "dropped" /\ pc'[a] = "closed"
           /\ status' = [status EXCEPT ![d] = "archived"]
           /\ node' = [node EXCEPT ![d] = IF node[d] = drop[a] THEN None ELSE node[d]]
           /\ edges' = edges \ gone[a] /\ put'[a] = {}
           /\ archives' = [archives EXCEPT ![d] = archives[d] + 1]
           /\ UNCHANGED <<current, attrs, content, created, since>>
           /\ \A t \in Tx \ {a} :
                  /\ cut'[t] = cut[t] /\ drop'[t] = drop[t]
                  /\ gone'[t] = gone[t] /\ put'[t] = put[t]
                  /\ pc'[t] = pc[t] \/ (pc[t] = "link" /\ pc'[t] = "doomed")
<1>1. a \in Tx /\ DocOf[a] \in Docs
  BY Kinds
<1>2. pc[a] = "dropped" /\ pc'[a] = "closed" /\ HoldsDocument(a)
  BY <1>1 DEF CommitArchive, CommitDeletion, HoldsDocument
<1>3. ASSUME NEW t \in Tx \ {a}
      PROVE  /\ cut'[t] = cut[t] /\ drop'[t] = drop[t]
             /\ gone'[t] = gone[t] /\ put'[t] = put[t]
             /\ pc'[t] = pc[t] \/ (pc[t] = "link" /\ pc'[t] = "doomed")
  <2>1. cut'[t] = cut[t] /\ drop'[t] = drop[t] /\ gone'[t] = gone[t] /\ put'[t] = put[t]
    BY <1>1 DEF CommitArchive, Clear, TypeInv, TypeOK
  <2>2. CASE t \in Waiting(a)
    <3>1. want[t] # None
      BY <1>1, <2>2, PublicationAssumption DEF Waiting
    <3> QED
      BY <2>1, <2>2, <3>1 DEF CommitArchive, CommitDeletion, WantInv
  <2>3. CASE t \notin Waiting(a)
    BY <2>1, <2>3 DEF CommitArchive, CommitDeletion
  <2> QED
    BY <2>2, <2>3
<1>4. put'[a] = {}
  BY <1>1 DEF CommitArchive, Clear, TypeInv, TypeOK
<1> QED
  BY <1>1, <1>2, <1>3, <1>4 DEF CommitArchive

\* A transaction that is over makes no step; only its own steps take it from one
\* phase to another, but for the failure of its INSERT.
LEMMA ClosedStays ==
    ASSUME TypeInv, WantInv, [Next]_vars, NEW t \in Tx, pc[t] = "closed"
    PROVE  pc'[t] = "closed"
<1>0. Jobs \subseteq Tx /\ Archivers \subseteq Tx /\ Editors \subseteq Tx
  BY Kinds
<1>1. ASSUME NEW j \in Jobs, JobStep(j) PROVE pc'[t] = "closed"
  <2>1. CASE CommitPublication(j)
    BY <2>1, Published
  <2>2. ASSUME NEW d \in Docs, LinkPeer(j, d) PROVE pc'[t] = "closed"
    BY <1>0, <2>2 DEF LinkPeer, At, TypeInv, TypeOK
  <2> QED
    BY <1>0, <1>1, <2>1, <2>2
    DEF JobStep, ResolveScope, CreateJob, FailJob, BeginPublication, LockDocument,
       ReplaceAttributes, ReadPeers, Linked, CommitCompletion, RejectCompletion, Runs,
       At, TypeInv, TypeOK
<1>2. ASSUME NEW u \in Tx, GraphStep(u) PROVE pc'[t] = "closed"
  BY <1>2 DEF GraphStep, DropEdges, DropNode, Runs, At, TypeInv, TypeOK
<1>3. ASSUME NEW u \in Tx, BreakDeadlock(u) PROVE pc'[t] = "closed"
  <2>1. pc[u] # "closed"
    BY <1>3 DEF BreakDeadlock, WaitsFor
  <2> QED
    BY <1>3, <2>1 DEF BreakDeadlock, At, TypeInv, TypeOK
<1>4. ASSUME NEW u \in Tx, Rollback(u) PROVE pc'[t] = "closed"
  BY <1>4 DEF Rollback, At, TypeInv, TypeOK
<1>5. ASSUME NEW a \in Archivers, ArchiveStep(a) PROVE pc'[t] = "closed"
  <2>1. CASE CommitArchive(a)
    BY <2>1, Archived
  <2> QED
    BY <1>0, <1>5, <2>1 DEF ArchiveStep, ReadDocument, UpdateDocument, Runs, At, TypeInv, TypeOK
<1>6. ASSUME NEW e \in Editors, EditStep(e) PROVE pc'[t] = "closed"
  BY <1>0, <1>6 DEF EditStep, DeleteAttributes, AttributesDeleted, InsertAttributes,
     CommitAttributes, Runs, At, TypeInv, TypeOK
<1>7. CASE UNCHANGED vars
  BY <1>7 DEF vars
<1> QED
  BY <1>1, <1>2, <1>3, <1>4, <1>5, <1>6, <1>7 DEF Next, EndStep

------------------------------------------------------------------------------
(* What a step does to a request that is not at its commit. *)

\* The statements of an archiver, in their order.
LEMMA ArchiverPhase ==
    ASSUME TypeInv, [Next]_vars, ~Publication, ~Archival, NEW a \in Archivers
    PROVE  \/ pc'[a] = pc[a] /\ drop'[a] = drop[a]
           \/ pc'[a] \in {"closed", "doomed"}
           \/ pc'[a] = "update" /\ status[DocOf[a]] = "active"
           \/ pc[a] = "update" /\ pc'[a] = "edges"
           \/ pc[a] = "edges" /\ pc'[a] = "node" /\ drop'[a] = node[DocOf[a]]
           \/ pc[a] = "node" /\ pc'[a] = "dropped" /\ drop'[a] = drop[a]
<1>0. /\ Jobs \subseteq Tx /\ Archivers \subseteq Tx /\ Editors \subseteq Tx
      /\ a \in Tx /\ a \notin Jobs /\ a \notin Editors
  BY Kinds, PublicationAssumption
<1> DEFINE Same == pc'[a] = pc[a] /\ drop'[a] = drop[a]
<1>1. ASSUME NEW j \in Jobs, JobStep(j) PROVE Same
  <2>1. ASSUME NEW d \in Docs, LinkPeer(j, d) PROVE Same
    BY <1>0, <2>1 DEF LinkPeer, At, TypeInv, TypeOK
  <2> QED
    BY <1>0, <1>1, <2>1
    DEF Publication, JobStep, ResolveScope, CreateJob, FailJob, BeginPublication,
       LockDocument, ReplaceAttributes, ReadPeers, Linked, CommitCompletion,
       RejectCompletion, At, TypeInv, TypeOK, local
<1>2. ASSUME NEW t \in Tx, DropEdges(t)
      PROVE  Same \/ (pc[a] = "edges" /\ pc'[a] = "node" /\ drop'[a] = node[DocOf[a]])
  BY <1>0, <1>2 DEF DropEdges, Runs, At, TypeInv, TypeOK
<1>3. ASSUME NEW t \in Tx, DropNode(t)
      PROVE  Same \/ (pc[a] = "node" /\ pc'[a] = "dropped" /\ drop'[a] = drop[a])
  BY <1>0, <1>3 DEF DropNode, Runs, At, TypeInv, TypeOK
<1>4. ASSUME NEW t \in Tx, BreakDeadlock(t) PROVE Same \/ pc'[a] = "doomed"
  BY <1>0, <1>4 DEF BreakDeadlock, At, TypeInv, TypeOK
<1>5. ASSUME NEW t \in Tx, Rollback(t) PROVE Same \/ pc'[a] = "closed"
  BY <1>0, <1>5 DEF Rollback, Clear, At, TypeInv, TypeOK
<1>6. ASSUME NEW b \in Archivers, ReadDocument(b)
      PROVE  \/ Same \/ pc'[a] = "closed"
             \/ pc'[a] = "update" /\ status[DocOf[a]] = "active"
  BY <1>0, <1>6 DEF ReadDocument, At, TypeInv, TypeOK, local
<1>7. ASSUME NEW b \in Archivers, UpdateDocument(b)
      PROVE  Same \/ (pc[a] = "update" /\ pc'[a] = "edges")
  BY <1>0, <1>7 DEF UpdateDocument, Runs, At, TypeInv, TypeOK, local
<1>8. ASSUME NEW e \in Editors, EditStep(e) PROVE Same
  BY <1>0, <1>8 DEF EditStep, DeleteAttributes, AttributesDeleted, InsertAttributes,
     CommitAttributes, At, Clear, TypeInv, TypeOK, local
<1>9. CASE UNCHANGED vars
  BY <1>9 DEF vars, local
<1> QED
  BY <1>1, <1>2, <1>3, <1>4, <1>5, <1>6, <1>7, <1>8, <1>9
  DEF Next, GraphStep, EndStep, ArchiveStep, Archival

\* The statements of a Job that matter to what it publishes.
LEMMA JobPhase ==
    ASSUME TypeInv, [Next]_vars, ~Publication, ~Archival, NEW j \in Jobs
    PROVE  \/ pc'[j] = pc[j] /\ cut'[j] = cut[j] /\ since'[j] = since[j]
           \/ pc'[j] = "closed"
           \/ /\ pc'[j] = "resolved" /\ status[DocOf[j]] # "archived"
              /\ since'[j] = archives[DocOf[j]]
           \/ /\ pc[j] \notin {"idle", "closed"} /\ since'[j] = since[j]
              /\ \/ pc'[j] \notin Publishes
                 \/ pc'[j] = "attributes" /\ ~IsStale(j)
                 \/ pc'[j] = "edges" /\ cut'[j] = attrs[DocOf[j]]
                    /\ pc[j] = "attributes"
                 \/ /\ pc[j] \in Publishes \ {"attributes"}
                    /\ pc'[j] \in Publishes \ {"attributes"} /\ cut'[j] = cut[j]
<1>0. /\ Jobs \subseteq Tx /\ Archivers \subseteq Tx /\ Editors \subseteq Tx
      /\ j \in Tx /\ j \notin Archivers /\ j \notin Editors
  BY Kinds, PublicationAssumption
<1> DEFINE Same == pc'[j] = pc[j] /\ cut'[j] = cut[j] /\ since'[j] = since[j]
           On == pc[j] \notin {"idle", "closed"} /\ since'[j] = since[j]
           Further == /\ On
                      /\ pc[j] \in Publishes \ {"attributes"}
                      /\ pc'[j] \in Publishes \ {"attributes"} /\ cut'[j] = cut[j]
           Away == On /\ pc'[j] \notin Publishes
<1>1. ASSUME NEW k \in Jobs, ResolveScope(k)
      PROVE  \/ Same \/ pc'[j] = "closed"
             \/ /\ pc'[j] = "resolved" /\ status[DocOf[j]] # "archived"
                /\ since'[j] = archives[DocOf[j]]
  BY <1>0, <1>1 DEF ResolveScope, At, TypeInv, TypeOK, local
<1>2. ASSUME NEW k \in Jobs, LockDocument(k)
      PROVE  Same \/ Away \/ (On /\ pc'[j] = "attributes" /\ ~IsStale(j))
  <2>1. CASE k = j
    BY <1>0, <1>2, <2>1 DEF LockDocument, Runs, At, TypeInv, TypeOK, local, life, Publishes
  <2>2. CASE k # j
    BY <1>0, <1>2, <2>2 DEF LockDocument, At, TypeInv, TypeOK, local, life
  <2> QED
    BY <2>1, <2>2
<1>3. ASSUME NEW k \in Jobs, ReplaceAttributes(k)
      PROVE  \/ Same
             \/ On /\ pc[j] = "attributes" /\ pc'[j] = "edges" /\ cut'[j] = attrs[DocOf[j]]
  BY <1>0, <1>3 DEF ReplaceAttributes, Runs, At, TypeInv, TypeOK, life
<1>4. ASSUME NEW k \in Jobs, ReadPeers(k) \/ Linked(k) PROVE Same \/ Further
  BY <1>0, <1>4 DEF ReadPeers, Linked, At, TypeInv, TypeOK, local, life, Publishes
<1>5. ASSUME NEW k \in Jobs, NEW d \in Docs, LinkPeer(k, d) PROVE Same \/ Away
  BY <1>0, <1>5 DEF LinkPeer, At, TypeInv, TypeOK, life, Publishes
<1>6. ASSUME NEW k \in Jobs,
             CreateJob(k) \/ FailJob(k) \/ BeginPublication(k) \/ CommitCompletion(k)
             \/ RejectCompletion(k)
      PROVE  Same \/ Away \/ pc'[j] = "closed"
  <2>1. CASE CreateJob(k)
    BY <1>0, <2>1 DEF CreateJob, At, TypeInv, TypeOK, local, Publishes
  <2>2. CASE FailJob(k) \/ RejectCompletion(k)
    BY <1>0, <2>2 DEF FailJob, RejectCompletion, At, TypeInv, TypeOK, local, life, Publishes
  <2>3. CASE BeginPublication(k) \/ CommitCompletion(k)
    BY <1>0, <2>3 DEF BeginPublication, CommitCompletion, At, TypeInv, TypeOK, local, Publishes
  <2> QED
    BY <1>6, <2>1, <2>2, <2>3
<1>7. ASSUME NEW t \in Tx, GraphStep(t) PROVE Same \/ Further
  <2>1. CASE DropEdges(t)
    BY <1>0, <2>1 DEF DropEdges, Runs, At, TypeInv, TypeOK, life, Publishes
  <2>2. CASE DropNode(t)
    BY <1>0, <2>2 DEF DropNode, Runs, At, TypeInv, TypeOK, life, Publishes
  <2> QED
    BY <1>7, <2>1, <2>2 DEF GraphStep
<1>8. ASSUME NEW t \in Tx, BreakDeadlock(t) PROVE Same \/ Away
  <2>1. pc[t] \notin {"idle", "closed"}
    BY <1>8 DEF BreakDeadlock, WaitsFor
  <2> QED
    BY <1>0, <1>8, <2>1 DEF BreakDeadlock, At, TypeInv, TypeOK, life, Publishes
<1>9. ASSUME NEW t \in Tx, Rollback(t) PROVE Same \/ Away
  <2>1. CASE t # j
    BY <1>0, <1>9, <2>1 DEF Rollback, Clear, At, TypeInv, TypeOK
  <2>2. CASE t = j
    BY <1>0, <1>9, <2>2 DEF Rollback, At, TypeInv, TypeOK, Publishes
  <2> QED
    BY <2>1, <2>2
<1>10. ASSUME NEW a \in Archivers, ReadDocument(a) \/ UpdateDocument(a) PROVE Same
  BY <1>0, <1>10 DEF ReadDocument, UpdateDocument, At, TypeInv, TypeOK, local, life
<1>11. ASSUME NEW e \in Editors, EditStep(e) PROVE Same
  BY <1>0, <1>11 DEF EditStep, DeleteAttributes, AttributesDeleted, InsertAttributes,
     CommitAttributes, At, Clear, TypeInv, TypeOK, local, life
<1>12. CASE UNCHANGED vars
  BY <1>12 DEF vars, local, life
<1>13. ASSUME NEW k \in Jobs, JobStep(k)
       PROVE  \/ Same \/ Away \/ Further \/ pc'[j] = "closed"
              \/ /\ pc'[j] = "resolved" /\ status[DocOf[j]] # "archived"
                 /\ since'[j] = archives[DocOf[j]]
              \/ On /\ pc'[j] = "attributes" /\ ~IsStale(j)
              \/ On /\ pc[j] = "attributes" /\ pc'[j] = "edges" /\ cut'[j] = attrs[DocOf[j]]
  BY <1>13, <1>1, <1>2, <1>3, <1>4, <1>5, <1>6 DEF JobStep, Publication
<1> QED
  BY <1>7, <1>8, <1>9, <1>10, <1>11, <1>12, <1>13
  DEF Next, GraphStep, EndStep, ArchiveStep, Archival

------------------------------------------------------------------------------
(* The beginning: some Documents with one revision each, nobody under way. *)

Begun(S) ==
    /\ \A j, k \in S : DocOf[j] = DocOf[k] => j = k
    /\ status = [d \in Docs |-> IF SeedOf(S, d) = None THEN "absent" ELSE "active"]
    /\ current = [d \in Docs |-> SeedOf(S, d)]
    /\ attrs = [d \in Docs |-> {SeedOf(S, d)} \ {None}]
    /\ content = S
    /\ node = [d \in Docs |-> SeedOf(S, d)]
    /\ created \in [Jobs -> Nat]
    /\ \A t \in Tx : pc[t] \in {"idle", "closed"} /\ want[t] = None
    /\ \A j \in S : pc[j] = "closed"

LEMMA InitBegun == Init => \E S \in SUBSET Jobs : Begun(S)
<1> SUFFICES ASSUME Init PROVE \E S \in SUBSET Jobs : Begun(S)
  OBVIOUS
<1>1. PICK scene \in Scenes :
          /\ status = [d \in Docs |-> IF SeedOf(scene.done, d) = None THEN "absent" ELSE "active"]
          /\ current = [d \in Docs |-> SeedOf(scene.done, d)]
          /\ attrs = [d \in Docs |-> {SeedOf(scene.done, d)} \ {None}]
          /\ content = scene.done
          /\ node = [d \in Docs |-> SeedOf(scene.done, d)]
          /\ pc = [t \in Tx |-> IF t \in scene.done \cup scene.quiet THEN "closed" ELSE "idle"]
          /\ want = [t \in Tx |-> None]
  BY DEF Init
<1>2. scene.done \subseteq Jobs /\ \A j, k \in scene.done : DocOf[j] = DocOf[k] => j = k
  BY PublicationAssumption
<1>3. created \in [Jobs -> Nat]
  BY TypeInit DEF TypeInv, TypeOK
<1>4. Begun(scene.done)
  BY <1>1, <1>2, <1>3, Kinds DEF Begun
<1> QED
  BY <1>2, <1>4

LEMMA LockInit == Init => LockInv
BY InitBegun DEF Begun, LockInv, HoldsDocument, Publishes

LEMMA WantInit == Init => WantInv
BY InitBegun DEF Begun, WantInv

------------------------------------------------------------------------------
\* What is known of a Document while its row is locked, and of its content.
\* The node that an archiver removes is the Document's.
DropInv ==
    \A a \in Archivers : pc[a] \in {"node", "dropped"} => drop[a] = node[DocOf[a]]

\* Only a Document that is there is archived.
ThereInv ==
    \A a \in Archivers :
        pc[a] \in {"update", "edges", "node", "dropped"} => status[DocOf[a]] # "absent"

\* A Job whose content is published is through; it belongs to a Document that is
\* there, whose current revision is one of them.
ContentInv ==
    /\ \A j \in content : pc[j] = "closed" /\ status[DocOf[j]] # "absent"
    /\ \A d \in Docs : IF status[d] = "absent" THEN current[d] = None
                       ELSE current[d] \in content /\ DocOf[current[d]] = d

\* The current revision is of the newest Job, and a Job that has passed the
\* staleness check is not older.
AheadInv ==
    \A d \in Docs : current[d] # None =>
        /\ \A j \in content : DocOf[j] = d => created[current[d]] >= created[j]
        /\ \A j \in Jobs : DocOf[j] = d /\ pc[j] \in Publishes =>
               created[j] >= created[current[d]]

\* Attribute rows of a revision are of the current one, and a publisher past its
\* DELETE has deleted them.
CutInv ==
    /\ \A d \in Docs : status[d] # "absent" =>
           attrs[d] # {} /\ attrs[d] \cap Jobs \subseteq {current[d]}
    /\ \A j \in Jobs : pc[j] \in Publishes \ {"attributes"} =>
           attrs[DocOf[j]] \cap Jobs \subseteq cut[j]

\* A Job that is under way was admitted before its Document was archived.
SinceInv ==
    \A j \in Jobs : pc[j] \notin {"idle", "closed"} =>
        /\ since[j] <= archives[DocOf[j]]
        /\ status[DocOf[j]] = "archived" => since[j] < archives[DocOf[j]]

LEMMA RestInit ==
    Init => GraphFollowsDocument /\ DropInv /\ ThereInv /\ ContentInv /\ AheadInv
            /\ CutInv /\ SinceInv
<1> SUFFICES ASSUME Init
             PROVE  GraphFollowsDocument /\ DropInv /\ ThereInv /\ ContentInv /\ AheadInv
                    /\ CutInv /\ SinceInv
  OBVIOUS
<1>1. PICK S \in SUBSET Jobs : Begun(S)
  BY InitBegun
<1>2. DropInv /\ ThereInv /\ SinceInv
  BY <1>1, Kinds DEF Begun, DropInv, ThereInv, SinceInv
<1>3. GraphFollowsDocument
  BY <1>1 DEF Begun, GraphFollowsDocument
<1>4. \A d \in Docs : \/ SeedOf(S, d) = None /\ \A j \in S : DocOf[j] # d
                      \/ SeedOf(S, d) \in S /\ DocOf[SeedOf(S, d)] = d
  BY SeedType
<1>5. ContentInv
  BY <1>1, <1>4, Kinds DEF Begun, ContentInv
<1>6. AheadInv
  <2>1. \A j \in Jobs : pc[j] \notin Publishes
    BY <1>1, Kinds DEF Begun, Publishes
  <2>2. ASSUME NEW d \in Docs, current[d] # None, NEW j \in content, DocOf[j] = d
        PROVE  created[current[d]] >= created[j]
    <3>1. j = current[d] /\ j \in Jobs
      BY <1>1, <1>4, <2>2 DEF Begun
    <3>2. created[j] \in Nat
      BY <1>1, <3>1 DEF Begun
    <3> QED
      BY <3>1, <3>2
  <2> QED
    BY <2>1, <2>2 DEF AheadInv
<1>7. CutInv
  <2>1. \A j \in Jobs : pc[j] \notin Publishes
    BY <1>1, Kinds DEF Begun, Publishes
  <2>2. ASSUME NEW d \in Docs, status[d] # "absent"
        PROVE  attrs[d] # {} /\ attrs[d] \cap Jobs \subseteq {current[d]}
    BY <1>1, <2>2 DEF Begun
  <2> QED
    BY <2>1, <2>2 DEF CutInv
<1> QED
  BY <1>2, <1>3, <1>5, <1>6, <1>7

------------------------------------------------------------------------------
LEMMA DropStep ==
    TypeInv /\ WantInv /\ LockInv /\ DropInv /\ [Next]_vars => DropInv'
<1> SUFFICES ASSUME TypeInv, WantInv, LockInv, DropInv, [Next]_vars,
                    NEW a \in Archivers, pc'[a] \in {"node", "dropped"}
             PROVE  drop'[a] = node'[DocOf[a]]
  BY DEF DropInv
<1>0. a \in Tx /\ a \notin Jobs /\ DocOf[a] \in Docs
  BY Kinds, PublicationAssumption
<1>1. ASSUME NEW j \in Jobs, CommitPublication(j) PROVE drop'[a] = node'[DocOf[a]]
  <2>1. pc'[a] = pc[a] /\ drop'[a] = drop[a] /\ HoldsDocument(j) /\ j \in Tx
    BY <1>0, <1>1, Published
  <2>2. HoldsDocument(a)
    BY <2>1 DEF HoldsDocument
  <2>3. DocOf[j] # DocOf[a]
    BY <1>0, <2>1, <2>2 DEF LockInv
  <2>4. node'[DocOf[a]] = node[DocOf[a]]
    BY <1>0, <1>1, <2>3, Published DEF TypeInv, TypeOK
  <2> QED
    BY <2>1, <2>4 DEF DropInv
<1>2. ASSUME NEW b \in Archivers, CommitArchive(b) PROVE drop'[a] = node'[DocOf[a]]
  <2>1. a # b /\ pc'[a] = pc[a] /\ drop'[a] = drop[a] /\ HoldsDocument(b) /\ b \in Tx
    BY <1>0, <1>2, Archived
  <2>2. HoldsDocument(a)
    BY <2>1 DEF HoldsDocument
  <2>3. DocOf[b] # DocOf[a]
    BY <1>0, <2>1, <2>2 DEF LockInv
  <2>4. node'[DocOf[a]] = node[DocOf[a]]
    BY <1>0, <1>2, <2>3, Archived DEF TypeInv, TypeOK
  <2> QED
    BY <2>1, <2>4 DEF DropInv
<1>3. CASE ~Publication /\ ~Archival
  BY <1>3, Still, ArchiverPhase DEF DropInv
<1> QED
  BY <1>1, <1>2, <1>3 DEF Publication, Archival

LEMMA GraphInvStep ==
    TypeInv /\ WantInv /\ DropInv /\ GraphFollowsDocument /\ [Next]_vars
        => GraphFollowsDocument'
<1> SUFFICES ASSUME TypeInv, WantInv, DropInv, GraphFollowsDocument, [Next]_vars
             PROVE  GraphFollowsDocument'
  OBVIOUS
<1>1. ASSUME NEW j \in Jobs, CommitPublication(j) PROVE GraphFollowsDocument'
  BY <1>1, Published DEF GraphFollowsDocument, TypeInv, TypeOK
<1>2. ASSUME NEW a \in Archivers, CommitArchive(a) PROVE GraphFollowsDocument'
  <2>1. drop[a] = node[DocOf[a]]
    BY <1>2, Archived DEF DropInv
  <2> QED
    BY <1>2, <2>1, Archived DEF GraphFollowsDocument, TypeInv, TypeOK
<1>3. CASE ~Publication /\ ~Archival
  BY <1>3, Still DEF GraphFollowsDocument
<1> QED
  BY <1>1, <1>2, <1>3 DEF Publication, Archival

\* The graph's node of a Document is its current revision while it is active, and
\* gone when it is archived, whichever publications and archivings interleave.
THEOREM GraphCorrect == Spec => []GraphFollowsDocument
<1> DEFINE I == TypeInv /\ WantInv /\ LockInv /\ DropInv /\ GraphFollowsDocument
<1>1. Init => I
  BY TypeInit, WantInit, LockInit, RestInit
<1>2. I /\ [Next]_vars => I'
  BY TypeStep, WantStep, LockStep, DropStep, GraphInvStep
<1>3. I => GraphFollowsDocument
  OBVIOUS
<1> QED
  BY <1>1, <1>2, <1>3, PTL DEF Spec

------------------------------------------------------------------------------
LEMMA ThereStep ==
    TypeInv /\ WantInv /\ ThereInv /\ [Next]_vars => ThereInv'
<1> SUFFICES ASSUME TypeInv, WantInv, ThereInv, [Next]_vars, NEW a \in Archivers,
                    pc'[a] \in {"update", "edges", "node", "dropped"}
             PROVE  status'[DocOf[a]] # "absent"
  BY DEF ThereInv
<1>0. a \in Tx /\ a \notin Jobs /\ DocOf[a] \in Docs
  BY Kinds, PublicationAssumption
<1>1. ASSUME NEW j \in Jobs, CommitPublication(j) PROVE status'[DocOf[a]] # "absent"
  <2>1. pc'[a] = pc[a]
    BY <1>0, <1>1, Published
  <2>2. status[DocOf[a]] # "absent"
    BY <2>1 DEF ThereInv
  <2> QED
    BY <1>0, <1>1, <2>2, Published DEF TypeInv, TypeOK
<1>2. ASSUME NEW b \in Archivers, CommitArchive(b) PROVE status'[DocOf[a]] # "absent"
  <2>1. pc'[a] = pc[a]
    BY <1>0, <1>2, Archived
  <2>2. status[DocOf[a]] # "absent"
    BY <2>1 DEF ThereInv
  <2> QED
    BY <1>0, <1>2, <2>2, Archived DEF TypeInv, TypeOK
<1>3. CASE ~Publication /\ ~Archival
  BY <1>3, Still, ArchiverPhase DEF ThereInv
<1> QED
  BY <1>1, <1>2, <1>3 DEF Publication, Archival

LEMMA ContentStep ==
    TypeInv /\ WantInv /\ ThereInv /\ ContentInv /\ [Next]_vars => ContentInv'
<1> SUFFICES ASSUME TypeInv, WantInv, ThereInv, ContentInv, [Next]_vars PROVE ContentInv'
  OBVIOUS
<1>0. content \subseteq Jobs /\ Jobs \subseteq Tx
  BY Kinds DEF TypeInv, TypeOK
<1>1. \A j \in content : pc'[j] = "closed"
  BY <1>0, ClosedStays DEF ContentInv
<1>2. ASSUME NEW j \in Jobs, CommitPublication(j) PROVE ContentInv'
  <2>1. \A k \in content' : pc'[k] = "closed" /\ status'[DocOf[k]] # "absent"
    <3>1. pc'[j] = "closed" /\ content' = content \cup {j}
          /\ status' = [status EXCEPT ![DocOf[j]] = "active"]
      BY <1>2, Published
    <3> QED
      BY <1>0, <1>1, <3>1, Kinds DEF ContentInv, TypeInv, TypeOK
  <2>2. ASSUME NEW d \in Docs
        PROVE  IF status'[d] = "absent" THEN current'[d] = None
               ELSE current'[d] \in content' /\ DocOf[current'[d]] = d
    <3>1. CASE d = DocOf[j]
      BY <1>2, <3>1, Published DEF TypeInv, TypeOK
    <3>2. CASE d # DocOf[j]
      BY <1>2, <3>2, Published DEF ContentInv, TypeInv, TypeOK
    <3> QED
      BY <3>1, <3>2
  <2> QED
    BY <2>1, <2>2 DEF ContentInv
<1>3. ASSUME NEW a \in Archivers, CommitArchive(a) PROVE ContentInv'
  <2>1. status[DocOf[a]] # "absent"
    BY <1>3, Archived DEF ThereInv
  <2>2. /\ status' = [status EXCEPT ![DocOf[a]] = "archived"]
        /\ current' = current /\ content' = content /\ DocOf[a] \in Docs
    BY <1>3, Archived
  <2>3. \A d \in Docs : status'[d] = "absent" <=> status[d] = "absent"
    BY <2>1, <2>2 DEF TypeInv, TypeOK
  <2> QED
    BY <1>0, <1>1, <2>2, <2>3, Kinds DEF ContentInv
<1>4. CASE ~Publication /\ ~Archival
  BY <1>1, <1>4, Still DEF ContentInv
<1> QED
  BY <1>2, <1>3, <1>4 DEF Publication, Archival

\* A Job is created once, on its way to its first phases.
LEMMA Creation ==
    ASSUME TypeInv, [Next]_vars, NEW k \in Jobs
    PROVE  created'[k] = created[k] \/ (pc[k] = "resolved" /\ pc'[k] = "parsed")
<1>0. Jobs \subseteq Tx
  BY Kinds
<1>1. ASSUME NEW j \in Jobs, CreateJob(j)
      PROVE  created'[k] = created[k] \/ (pc[k] = "resolved" /\ pc'[k] = "parsed")
  <2>1. CASE created' = created
    BY <2>1
  <2>2. ASSUME NEW now \in Clock, created' = [created EXCEPT ![j] = now],
               At(j, "parsed")
        PROVE  created'[k] = created[k] \/ (pc[k] = "resolved" /\ pc'[k] = "parsed")
    BY <1>0, <1>1, <2>2 DEF CreateJob, At, TypeInv, TypeOK
  <2> QED
    BY <1>1, <2>1, <2>2 DEF CreateJob
<1>2. ASSUME NEW j \in Jobs, JobStep(j), ~CreateJob(j) PROVE created' = created
  BY <1>2 DEF JobStep, ResolveScope, FailJob, BeginPublication, LockDocument,
     ReplaceAttributes, ReadPeers, LinkPeer, Linked, CommitPublication, CommitCompletion,
     RejectCompletion, life
<1>3. ASSUME NEW t \in Tx, GraphStep(t) \/ EndStep(t) PROVE created' = created
  BY <1>3 DEF GraphStep, EndStep, DropEdges, DropNode, BreakDeadlock, Rollback, life
<1>4. ASSUME NEW a \in Archivers, ArchiveStep(a) PROVE created' = created
  BY <1>4 DEF ArchiveStep, ReadDocument, UpdateDocument, CommitArchive, life
<1>5. ASSUME NEW e \in Editors, EditStep(e) PROVE created' = created
  BY <1>5 DEF EditStep, DeleteAttributes, AttributesDeleted, InsertAttributes,
     CommitAttributes, life
<1>6. CASE UNCHANGED vars
  BY <1>6 DEF vars, life
<1> QED
  BY <1>1, <1>2, <1>3, <1>4, <1>5, <1>6 DEF Next

LEMMA AheadStep ==
    TypeInv /\ WantInv /\ LockInv /\ ContentInv /\ AheadInv /\ [Next]_vars => AheadInv'
<1> SUFFICES ASSUME TypeInv, WantInv, LockInv, ContentInv, AheadInv, [Next]_vars,
                    NEW d \in Docs, current'[d] # None
             PROVE  /\ \A j \in content' : DocOf[j] = d => created'[current'[d]] >= created'[j]
                    /\ \A j \in Jobs : DocOf[j] = d /\ pc'[j] \in Publishes =>
                           created'[j] >= created'[current'[d]]
  BY DEF AheadInv
<1> DEFINE Newest == \A j \in content' : DocOf[j] = d => created'[current'[d]] >= created'[j]
           Ahead == \A j \in Jobs : DocOf[j] = d /\ pc'[j] \in Publishes =>
                        created'[j] >= created'[current'[d]]
<1>0. content \subseteq Jobs /\ Jobs \subseteq Tx /\ created \in [Jobs -> Nat]
  BY Kinds DEF TypeInv, TypeOK
\* The Jobs whose content is published are no longer created.
<1>1. \A j \in content : created'[j] = created[j]
  BY <1>0, Creation DEF ContentInv
<1>2. ASSUME NEW k \in Jobs, CommitPublication(k) PROVE Newest /\ Ahead
  <2>1. /\ created' = created /\ content' = content \cup {k} /\ k \in Tx
        /\ current' = [current EXCEPT ![DocOf[k]] = k]
        /\ HoldsDocument(k) /\ pc[k] = "linked" /\ pc'[k] = "closed"
        /\ \A t \in Tx \ {k} : pc'[t] = pc[t] \/ (pc[t] = "link" /\ pc'[t] = "doomed")
    BY <1>2, Published
  <2>2. \A j \in Jobs \ {k} : pc'[j] \in Publishes => pc[j] \in Publishes /\ HoldsDocument(j)
    BY <1>0, <2>1 DEF Publishes, HoldsDocument
  <2>3. pc[k] \in Publishes /\ pc'[k] \notin Publishes
    BY <2>1 DEF Publishes
  <2>4. CASE d # DocOf[k]
    <3>1. current'[d] = current[d]
      BY <2>1, <2>4 DEF TypeInv, TypeOK
    <3> QED
      BY <1>0, <2>1, <2>2, <2>3, <2>4, <3>1 DEF AheadInv
  <2>5. CASE d = DocOf[k]
    <3>1. current'[d] = k
      BY <2>1, <2>5 DEF TypeInv, TypeOK
    <3>2. ASSUME NEW j \in content, DocOf[j] = d PROVE created[k] >= created[j]
      <4>1. status[d] # "absent" /\ current[d] \in content
        BY <3>2 DEF ContentInv
      <4>2. current[d] # None /\ current[d] \in Jobs /\ j \in Jobs
        BY <1>0, <4>1, Kinds
      <4>3. created[current[d]] >= created[j] /\ created[k] >= created[current[d]]
        BY <2>3, <2>5, <3>2, <4>2 DEF AheadInv
      <4> QED
        BY <1>0, <4>2, <4>3
    <3>3. Newest
      BY <1>0, <2>1, <3>1, <3>2
    <3>4. Ahead
      BY <1>0, <2>1, <2>2, <2>3, <2>5 DEF LockInv
    <3> QED
      BY <3>3, <3>4
  <2> QED
    BY <2>4, <2>5
<1>3. ASSUME NEW a \in Archivers, CommitArchive(a) PROVE Newest /\ Ahead
  <2>1. /\ created' = created /\ content' = content /\ current' = current /\ a \notin Jobs
        /\ \A t \in Tx \ {a} : pc'[t] = pc[t] \/ (pc[t] = "link" /\ pc'[t] = "doomed")
    BY <1>3, Archived, PublicationAssumption
  <2>2. \A j \in Jobs : pc'[j] \in Publishes => pc[j] \in Publishes
    BY <1>0, <2>1 DEF Publishes
  <2> QED
    BY <2>1, <2>2 DEF AheadInv
<1>4. CASE ~Publication /\ ~Archival
  <2>1. current' = current /\ content' = content /\ status' = status
    BY <1>4, Still
  <2>2. status[d] # "absent" /\ current[d] \in content /\ DocOf[current[d]] = d
    BY <2>1 DEF ContentInv
  <2>3. created'[current'[d]] = created[current[d]] /\ created[current[d]] \in Nat
    BY <1>0, <1>1, <2>1, <2>2
  <2>4. Newest
    BY <1>0, <1>1, <2>1, <2>3 DEF AheadInv
  <2>5. ASSUME NEW j \in Jobs, DocOf[j] = d, pc'[j] \in Publishes
        PROVE  created'[j] >= created'[current'[d]]
    <3>1. created'[j] = created[j] /\ created[j] \in Nat
      BY <1>0, <2>5, Creation DEF Publishes
    <3>2. CASE pc[j] \in Publishes
      BY <2>1, <2>3, <2>5, <3>1, <3>2 DEF AheadInv
    <3>3. CASE pc[j] \notin Publishes
      <4>1. ~IsStale(j)
        BY <1>4, <2>5, <3>3, JobPhase DEF Publishes
      <4>2. ~(created[current[d]] > created[j])
        BY <2>1, <2>5, <4>1 DEF IsStale
      <4> QED
        BY <2>3, <3>1, <4>2
    <3> QED
      BY <3>2, <3>3
  <2> QED
    BY <2>4, <2>5
<1> QED
  BY <1>2, <1>3, <1>4 DEF Publication, Archival

\* What becomes of the attribute rows outside of a publication.
LEMMA Edited ==
    ASSUME [Next]_vars, ~Publication
    PROVE  \/ attrs' = attrs
           \/ \E e \in Editors :
                  attrs' = [attrs EXCEPT ![DocOf[e]] = (attrs[DocOf[e]] \ cut[e]) \cup {e}]
<1>1. ASSUME NEW j \in Jobs, JobStep(j) PROVE attrs' = attrs
  BY <1>1 DEF Publication, JobStep, ResolveScope, CreateJob, FailJob, BeginPublication,
     LockDocument, ReplaceAttributes, ReadPeers, LinkPeer, Linked, CommitCompletion,
     RejectCompletion, committed
<1>2. ASSUME NEW t \in Tx, GraphStep(t) \/ EndStep(t) PROVE attrs' = attrs
  BY <1>2 DEF GraphStep, EndStep, DropEdges, DropNode, BreakDeadlock, Rollback, committed
<1>3. ASSUME NEW a \in Archivers, ArchiveStep(a) PROVE attrs' = attrs
  BY <1>3 DEF ArchiveStep, ReadDocument, UpdateDocument, CommitArchive, committed
<1>4. ASSUME NEW e \in Editors, EditStep(e)
      PROVE  \/ attrs' = attrs
             \/ attrs' = [attrs EXCEPT ![DocOf[e]] = (attrs[DocOf[e]] \ cut[e]) \cup {e}]
  BY <1>4 DEF EditStep, DeleteAttributes, AttributesDeleted, InsertAttributes,
     CommitAttributes, committed
<1> QED
  BY <1>1, <1>2, <1>3, <1>4 DEF Next, vars, committed

LEMMA CutStep ==
    TypeInv /\ WantInv /\ LockInv /\ ThereInv /\ CutInv /\ [Next]_vars => CutInv'
<1> SUFFICES ASSUME TypeInv, WantInv, LockInv, ThereInv, CutInv, [Next]_vars PROVE CutInv'
  OBVIOUS
<1> DEFINE Rows == \A d \in Docs : status'[d] # "absent" =>
               attrs'[d] # {} /\ attrs'[d] \cap Jobs \subseteq {current'[d]}
           Cuts == \A j \in Jobs : pc'[j] \in Publishes \ {"attributes"} =>
               attrs'[DocOf[j]] \cap Jobs \subseteq cut'[j]
<1>0. Jobs \subseteq Tx /\ \A j \in Jobs : DocOf[j] \in Docs
  BY Kinds
<1>1. ASSUME NEW k \in Jobs, CommitPublication(k) PROVE Rows /\ Cuts
  <2> DEFINE c == DocOf[k]
  <2>1. /\ k \in Tx /\ HoldsDocument(k) /\ pc[k] = "linked" /\ pc'[k] = "closed"
        /\ status' = [status EXCEPT ![c] = "active"]
        /\ current' = [current EXCEPT ![c] = k]
        /\ attrs' = [attrs EXCEPT ![c] = (attrs[c] \ cut[k]) \cup {k}]
        /\ \A t \in Tx \ {k} : /\ cut'[t] = cut[t]
                               /\ pc'[t] = pc[t] \/ (pc[t] = "link" /\ pc'[t] = "doomed")
    BY <1>1, Published
  <2>2. attrs[c] \cap Jobs \subseteq cut[k]
    BY <2>1 DEF CutInv, Publishes
  <2>3. Rows
    <3> SUFFICES ASSUME NEW d \in Docs, status'[d] # "absent"
                 PROVE  attrs'[d] # {} /\ attrs'[d] \cap Jobs \subseteq {current'[d]}
      OBVIOUS
    <3>1. CASE d = c
      <4>1. attrs'[d] = (attrs[c] \ cut[k]) \cup {k} /\ current'[d] = k
        BY <2>1, <3>1 DEF TypeInv, TypeOK
      <4> QED
        BY <2>2, <4>1
    <3>2. CASE d # c
      <4>1. attrs'[d] = attrs[d] /\ current'[d] = current[d] /\ status'[d] = status[d]
        BY <2>1, <3>2 DEF TypeInv, TypeOK
      <4> QED
        BY <4>1 DEF CutInv
    <3> QED
      BY <3>1, <3>2
  <2>4. Cuts
    <3> SUFFICES ASSUME NEW j \in Jobs, pc'[j] \in Publishes \ {"attributes"}
                 PROVE  attrs'[DocOf[j]] \cap Jobs \subseteq cut'[j]
      OBVIOUS
    <3>1. j # k
      BY <2>1 DEF Publishes
    <3>2. pc[j] = pc'[j] /\ cut'[j] = cut[j] /\ HoldsDocument(j)
      BY <1>0, <2>1, <3>1 DEF Publishes, HoldsDocument
    <3>3. DocOf[j] # c
      BY <1>0, <2>1, <3>1, <3>2 DEF LockInv
    <3>4. attrs'[DocOf[j]] = attrs[DocOf[j]]
      BY <1>0, <2>1, <3>3 DEF TypeInv, TypeOK
    <3> QED
      BY <3>2, <3>4 DEF CutInv
  <2> QED
    BY <2>3, <2>4
<1>2. ASSUME NEW a \in Archivers, CommitArchive(a) PROVE Rows /\ Cuts
  <2>1. /\ status' = [status EXCEPT ![DocOf[a]] = "archived"] /\ DocOf[a] \in Docs
        /\ current' = current /\ attrs' = attrs
        /\ pc[a] = "dropped" /\ a \notin Jobs
        /\ \A t \in Tx \ {a} : /\ cut'[t] = cut[t]
                               /\ pc'[t] = pc[t] \/ (pc[t] = "link" /\ pc'[t] = "doomed")
    BY <1>2, Archived, PublicationAssumption
  <2>2. \A d \in Docs : status'[d] # "absent" => status[d] # "absent"
    BY <2>1 DEF ThereInv, TypeInv, TypeOK
  <2>3. Rows
    BY <2>1, <2>2 DEF CutInv
  <2>4. Cuts
    BY <1>0, <2>1 DEF CutInv, Publishes
  <2> QED
    BY <2>3, <2>4
<1>3. CASE ~Publication /\ ~Archival
  <2>1. current' = current /\ status' = status
    BY <1>3, Still
  \* An editor adds no row of a revision.
  <2>2. \A d \in Docs : /\ attrs'[d] \cap Jobs \subseteq attrs[d]
                        /\ attrs[d] # {} => attrs'[d] # {}
    <3>1. CASE attrs' = attrs
      BY <3>1
    <3>2. ASSUME NEW e \in Editors,
                 attrs' = [attrs EXCEPT ![DocOf[e]] = (attrs[DocOf[e]] \ cut[e]) \cup {e}]
          PROVE  \A d \in Docs : /\ attrs'[d] \cap Jobs \subseteq attrs[d]
                                 /\ attrs[d] # {} => attrs'[d] # {}
      <4>1. e \notin Jobs
        BY PublicationAssumption
      <4>2. \A d \in Docs : \/ attrs'[d] = attrs[d]
                            \/ attrs'[d] = (attrs[d] \ cut[e]) \cup {e}
        BY <3>2 DEF TypeInv, TypeOK
      <4> QED
        BY <4>1, <4>2
    <3> QED
      BY <1>3, <3>1, <3>2, Edited
  <2>3. Rows
    BY <2>1, <2>2 DEF CutInv
  <2>4. Cuts
    <3> SUFFICES ASSUME NEW j \in Jobs, pc'[j] \in Publishes \ {"attributes"}
                 PROVE  attrs'[DocOf[j]] \cap Jobs \subseteq cut'[j]
      OBVIOUS
    <3>1. \/ pc[j] \in Publishes \ {"attributes"} /\ cut'[j] = cut[j]
          \/ cut'[j] = attrs[DocOf[j]]
      BY <1>3, JobPhase DEF Publishes
    <3> QED
      BY <1>0, <2>2, <3>1 DEF CutInv
  <2> QED
    BY <2>3, <2>4 DEF CutInv
<1> QED
  BY <1>1, <1>2, <1>3 DEF Publication, Archival, CutInv

\* A Document's revision is of the newest Job that published for it, its content is
\* there, and no attribute row of an older revision outlives it, for any number of
\* Jobs completing in any order.
THEOREM NewestCorrect == Spec => []NewestRevisionIsCurrent
<1> DEFINE I == TypeInv /\ WantInv /\ LockInv /\ ThereInv /\ ContentInv /\ AheadInv /\ CutInv
<1>1. Init => I
  BY TypeInit, WantInit, LockInit, RestInit
<1>2. I /\ [Next]_vars => I'
  BY TypeStep, WantStep, LockStep, ThereStep, ContentStep, AheadStep, CutStep
<1>3. I => NewestRevisionIsCurrent
  <2> SUFFICES ASSUME I, NEW d \in Docs, status[d] # "absent"
               PROVE  /\ current[d] \in content
                      /\ \A j \in content : DocOf[j] = d => created[current[d]] >= created[j]
                      /\ attrs[d] # {} /\ attrs[d] \cap Jobs \subseteq {current[d]}
    BY DEF NewestRevisionIsCurrent
  <2>1. current[d] \in content /\ current[d] # None
    BY Kinds DEF ContentInv, TypeInv, TypeOK
  <2> QED
    BY <2>1 DEF AheadInv, CutInv
<1> QED
  BY <1>1, <1>2, <1>3, PTL DEF Spec

------------------------------------------------------------------------------
LEMMA SinceStep ==
    TypeInv /\ WantInv /\ SinceInv /\ [Next]_vars => SinceInv'
<1> SUFFICES ASSUME TypeInv, WantInv, SinceInv, [Next]_vars, NEW j \in Jobs,
                    pc'[j] \notin {"idle", "closed"}
             PROVE  /\ since'[j] <= archives'[DocOf[j]]
                    /\ status'[DocOf[j]] = "archived" => since'[j] < archives'[DocOf[j]]
  BY DEF SinceInv
<1>0. /\ j \in Tx /\ DocOf[j] \in Docs /\ since[j] \in Nat
      /\ archives \in [Docs -> Nat]
  BY Kinds DEF TypeInv, TypeOK
<1>1. ASSUME NEW k \in Jobs, CommitPublication(k)
      PROVE  /\ since'[j] <= archives'[DocOf[j]]
             /\ status'[DocOf[j]] = "archived" => since'[j] < archives'[DocOf[j]]
  <2>1. /\ since' = since /\ archives' = archives /\ pc[j] \notin {"idle", "closed"}
        /\ status' = [status EXCEPT ![DocOf[k]] = "active"]
    BY <1>0, <1>1, Published
  <2>2. status'[DocOf[j]] = "archived" => status[DocOf[j]] = "archived"
    BY <1>0, <2>1 DEF TypeInv, TypeOK
  <2> QED
    BY <2>1, <2>2 DEF SinceInv
<1>2. ASSUME NEW a \in Archivers, CommitArchive(a)
      PROVE  /\ since'[j] <= archives'[DocOf[j]]
             /\ status'[DocOf[j]] = "archived" => since'[j] < archives'[DocOf[j]]
  <2>1. /\ since' = since /\ DocOf[a] \in Docs
        /\ archives' = [archives EXCEPT ![DocOf[a]] = archives[DocOf[a]] + 1]
        /\ status' = [status EXCEPT ![DocOf[a]] = "archived"]
        /\ a # j /\ pc[j] \notin {"idle", "closed"}
    BY <1>0, <1>2, Archived, PublicationAssumption
  <2>2. /\ since[j] <= archives[DocOf[j]]
        /\ status[DocOf[j]] = "archived" => since[j] < archives[DocOf[j]]
    BY <2>1 DEF SinceInv
  <2>3. CASE DocOf[a] = DocOf[j]
    BY <1>0, <2>1, <2>2, <2>3
  <2>4. CASE DocOf[a] # DocOf[j]
    BY <1>0, <2>1, <2>2, <2>4 DEF TypeInv, TypeOK
  <2> QED
    BY <2>3, <2>4
<1>3. CASE ~Publication /\ ~Archival
  <2>1. archives' = archives /\ status' = status
    BY <1>3, Still
  <2>2. \/ pc[j] \notin {"idle", "closed"} /\ since'[j] = since[j]
        \/ status[DocOf[j]] # "archived" /\ since'[j] = archives[DocOf[j]]
    BY <1>3, JobPhase
  <2> QED
    BY <1>0, <2>1, <2>2 DEF SinceInv
<1> QED
  BY <1>1, <1>2, <1>3 DEF Publication, Archival

\* A Document that was archived becomes active again only by a Job whose scope was
\* resolved before the archiving.
THEOREM ReviveCorrect == Spec => OnlyEarlierJobsRevive
<1> DEFINE I == TypeInv /\ WantInv /\ SinceInv
           Revives == \A d \in Docs : status[d] = "archived" /\ status'[d] = "active" =>
                          since[current'[d]] < archives[d]
<1>1. Init => I
  BY TypeInit, WantInit, RestInit
<1>2. I /\ [Next]_vars => I'
  BY TypeStep, WantStep, SinceStep
<1>3. I /\ [Next]_vars => [Revives]_vars
  <2> SUFFICES ASSUME I, [Next]_vars, NEW d \in Docs,
                      status[d] = "archived", status'[d] = "active"
               PROVE  since[current'[d]] < archives[d]
    OBVIOUS
  <2>1. ASSUME NEW j \in Jobs, CommitPublication(j) PROVE since[current'[d]] < archives[d]
    <3>1. /\ status' = [status EXCEPT ![DocOf[j]] = "active"] /\ pc[j] = "linked"
          /\ current' = [current EXCEPT ![DocOf[j]] = j]
      BY <2>1, Published
    <3>2. d = DocOf[j] /\ current'[d] = j
      BY <3>1 DEF TypeInv, TypeOK
    <3> QED
      BY <3>1, <3>2 DEF SinceInv
  <2>2. ASSUME NEW a \in Archivers, CommitArchive(a) PROVE FALSE
    BY <2>2, Archived DEF TypeInv, TypeOK
  <2>3. CASE ~Publication /\ ~Archival
    BY <2>3, Still
  <2> QED
    BY <2>1, <2>2, <2>3 DEF Publication, Archival
<1> QED
  BY <1>1, <1>2, <1>3, PTL DEF Spec, OnlyEarlierJobsRevive

------------------------------------------------------------------------------
(* The graph's edges.  From the deletion of its Document's node to its commit, a *)
(* transaction has every edge of that node deleted, and nobody inserts another. *)

GraphPhases == {"node", "peers", "link", "linked", "dropped"}
Past        == GraphPhases \ {"node"}
Linking     == {"link", "linked"}

\* The node that a transaction deletes is the one its Document has.
NodeInv == \A t \in Tx : pc[t] \in GraphPhases => drop[t] = node[DocOf[t]]

\* An inserted edge is one of its publication's, to a Document that has a node.
PutInv ==
    \A t \in Tx :
        /\ pc[t] \notin Linking \cup {"doomed"} => put[t] = {}
        /\ pc[t] \in Linking => \A e \in put[t] : \E d \in Docs : e = Link(t, d) /\ node[d] # None

GoneInv ==
    \A t \in Tx : pc[t] \in Past =>
        /\ Touches(DocOf[t]) \subseteq gone[t]
        /\ \A u \in Tx \ {t} : pc[u] \in Linking => \A e \in put[u] : DocOf[t] \notin e.ends

EdgeInv == EdgesAreCurrent /\ \A e \in edges : e.owner \in e.ends

LEMMA GraphHolds ==
    ASSUME TypeInv, NEW t \in Tx, pc[t] \in GraphPhases
    PROVE  HoldsDocument(t) /\ DocOf[t] \in Docs
BY Kinds DEF TypeInv, PcInv, JobPhases, ArchivePhases, EditPhases, GraphPhases,
             HoldsDocument, Publishes, Tx

\* What a transaction does to the graph, step by step.
LEMMA GraphPhase ==
    ASSUME TypeInv, [Next]_vars, ~Publication, ~Archival, NEW t \in Tx
    PROVE  \/ /\ pc'[t] = pc[t] /\ gone'[t] = gone[t] /\ drop'[t] = drop[t]
              /\ put'[t] = put[t]
           \/ pc'[t] = "doomed"
           \/ /\ pc'[t] \notin GraphPhases \cup {"doomed"}
              /\ put'[t] = {} \/ (put'[t] = put[t] /\ pc[t] \notin Linking \cup {"doomed"})
           \/ /\ pc[t] = "edges" /\ pc'[t] = "node"
              /\ drop'[t] = node[DocOf[t]] /\ put'[t] = put[t]
           \/ /\ DropNode(t) /\ pc[t] = "node" /\ pc'[t] \in {"peers", "dropped"}
              /\ gone'[t] = gone[t] \cup Touches(DocOf[t])
              /\ drop'[t] = drop[t] /\ put'[t] = put[t]
           \/ /\ pc[t] \in {"peers", "link"} /\ pc'[t] \in Linking
              /\ gone'[t] = gone[t] /\ drop'[t] = drop[t] /\ put'[t] = put[t]
           \/ /\ pc[t] = "link" /\ pc'[t] = "link"
              /\ gone'[t] = gone[t] /\ drop'[t] = drop[t]
              /\ \E d \in Docs : /\ node[d] # None /\ Droppers(t, d) = {}
                                 /\ put'[t] = put[t] \cup {Link(t, d)}
<1>0. Jobs \subseteq Tx /\ Archivers \subseteq Tx /\ Editors \subseteq Tx
  BY Kinds
<1> DEFINE Same == /\ pc'[t] = pc[t] /\ gone'[t] = gone[t] /\ drop'[t] = drop[t]
                   /\ put'[t] = put[t]
           Away == /\ pc'[t] \notin GraphPhases \cup {"doomed"}
                   /\ put'[t] = {} \/ (put'[t] = put[t] /\ pc[t] \notin Linking \cup {"doomed"})
           On == /\ pc[t] \in {"peers", "link"} /\ pc'[t] \in Linking
                 /\ gone'[t] = gone[t] /\ drop'[t] = drop[t] /\ put'[t] = put[t]
           Links == /\ pc[t] = "link" /\ pc'[t] = "link"
                    /\ gone'[t] = gone[t] /\ drop'[t] = drop[t]
                    /\ \E d \in Docs : /\ node[d] # None /\ Droppers(t, d) = {}
                                       /\ put'[t] = put[t] \cup {Link(t, d)}
<1>1. ASSUME NEW j \in Jobs, ResolveScope(j) \/ CreateJob(j) \/ FailJob(j) \/ BeginPublication(j)
      PROVE  Same \/ Away
  <2>1. CASE ResolveScope(j)
    BY <1>0, <2>1 DEF ResolveScope, At, TypeInv, TypeOK, local, GraphPhases, Linking
  <2>2. CASE CreateJob(j)
    BY <1>0, <2>2 DEF CreateJob, At, TypeInv, TypeOK, local, GraphPhases, Linking
  <2>3. CASE FailJob(j)
    BY <2>3 DEF FailJob, local
  <2>4. CASE BeginPublication(j)
    BY <1>0, <2>4 DEF BeginPublication, At, TypeInv, TypeOK, local, GraphPhases, Linking
  <2> QED
    BY <1>1, <2>1, <2>2, <2>3, <2>4
<1>2. ASSUME NEW j \in Jobs, LockDocument(j) \/ ReplaceAttributes(j) \/ CommitCompletion(j)
      PROVE  Same \/ Away
  <2>1. CASE LockDocument(j)
    BY <1>0, <2>1 DEF LockDocument, Runs, At, TypeInv, TypeOK, local, GraphPhases, Linking
  <2>2. CASE ReplaceAttributes(j)
    BY <1>0, <2>2 DEF ReplaceAttributes, Runs, At, TypeInv, TypeOK, GraphPhases, Linking
  <2>3. CASE CommitCompletion(j)
    BY <1>0, <2>3 DEF CommitCompletion, At, TypeInv, TypeOK, local, GraphPhases, Linking
  <2> QED
    BY <1>2, <2>1, <2>2, <2>3
<1>3. ASSUME NEW j \in Jobs, RejectCompletion(j) PROVE Same \/ pc'[t] = "doomed"
  BY <1>0, <1>3 DEF RejectCompletion, At, TypeInv, TypeOK, local
<1>4. ASSUME NEW j \in Jobs, ReadPeers(j) \/ Linked(j) PROVE Same \/ On
  BY <1>0, <1>4 DEF ReadPeers, Linked, At, TypeInv, TypeOK, local, Linking
<1>5. ASSUME NEW j \in Jobs, NEW d \in Docs, LinkPeer(j, d)
      PROVE  Same \/ pc'[t] = "doomed" \/ Links
  <2>1. gone' = gone /\ drop' = drop /\ pc[j] = "link"
    BY <1>5 DEF LinkPeer
  <2>2. CASE UNCHANGED <<put, pc>>
    BY <2>1, <2>2
  <2>3. CASE At(j, "doomed") /\ UNCHANGED put
    BY <1>0, <2>1, <2>3 DEF At, TypeInv, TypeOK
  <2>4. CASE /\ Droppers(j, d) = {} /\ node[d] # None /\ UNCHANGED pc
             /\ put' = [put EXCEPT ![j] = @ \cup {Link(j, d)}]
    <3>1. CASE t = j
      <4>1. put'[t] = put[t] \cup {Link(t, d)}
        BY <1>0, <2>4, <3>1 DEF TypeInv, TypeOK
      <4> QED
        BY <2>1, <2>4, <3>1, <4>1
    <3>2. CASE t # j
      BY <1>0, <2>1, <2>4, <3>2 DEF TypeInv, TypeOK
    <3> QED
      BY <3>1, <3>2
  <2> QED
    BY <1>5, <2>2, <2>3, <2>4 DEF LinkPeer
<1>6. ASSUME NEW u \in Tx, DropEdges(u)
      PROVE  \/ Same
             \/ /\ pc[t] = "edges" /\ pc'[t] = "node"
                /\ drop'[t] = node[DocOf[t]] /\ put'[t] = put[t]
  BY <1>6 DEF DropEdges, Runs, At, TypeInv, TypeOK
<1>7. ASSUME NEW u \in Tx, DropNode(u)
      PROVE  \/ Same
             \/ /\ DropNode(t) /\ pc[t] = "node" /\ pc'[t] \in {"peers", "dropped"}
                /\ gone'[t] = gone[t] \cup Touches(DocOf[t])
                /\ drop'[t] = drop[t] /\ put'[t] = put[t]
  <2>1. CASE u = t
    BY <1>7, <2>1 DEF DropNode, Runs, At, TypeInv, TypeOK
  <2>2. CASE u # t
    BY <1>7, <2>2 DEF DropNode, At, TypeInv, TypeOK
  <2> QED
    BY <2>1, <2>2
<1>8. ASSUME NEW u \in Tx, BreakDeadlock(u) PROVE Same \/ pc'[t] = "doomed"
  BY <1>8 DEF BreakDeadlock, At, TypeInv, TypeOK
<1>9. ASSUME NEW u \in Tx, Rollback(u) PROVE Same \/ Away
  <2>1. CASE u = t
    BY <1>9, <2>1 DEF Rollback, At, Clear, TypeInv, TypeOK, GraphPhases
  <2>2. CASE u # t
    BY <1>9, <2>2 DEF Rollback, At, Clear, TypeInv, TypeOK
  <2> QED
    BY <2>1, <2>2
<1>10. ASSUME NEW a \in Archivers, ReadDocument(a) \/ UpdateDocument(a) PROVE Same \/ Away
  BY <1>0, <1>10 DEF ReadDocument, UpdateDocument, Runs, At, TypeInv, TypeOK, local,
     GraphPhases, Linking
<1>11. ASSUME NEW e \in Editors, EditStep(e) PROVE Same \/ Away
  <2>1. CASE DeleteAttributes(e)
    BY <1>0, <2>1 DEF DeleteAttributes, At, TypeInv, TypeOK, GraphPhases, Linking
  <2>2. CASE AttributesDeleted(e) \/ InsertAttributes(e)
    BY <1>0, <2>2 DEF AttributesDeleted, InsertAttributes, Runs, At, TypeInv, TypeOK,
       local, GraphPhases, Linking
  <2>3. CASE CommitAttributes(e)
    BY <1>0, <2>3 DEF CommitAttributes, At, Clear, TypeInv, TypeOK, GraphPhases, Linking
  <2> QED
    BY <1>11, <2>1, <2>2, <2>3 DEF EditStep
<1>12. CASE UNCHANGED vars
  BY <1>12 DEF vars, local
<1>13. ASSUME NEW j \in Jobs, JobStep(j)
       PROVE  Same \/ Away \/ On \/ Links \/ pc'[t] = "doomed"
  BY <1>13, <1>1, <1>2, <1>3, <1>4, <1>5 DEF JobStep, Publication
<1>14. ASSUME NEW a \in Archivers, ArchiveStep(a) PROVE Same \/ Away
  BY <1>14, <1>10 DEF ArchiveStep, Archival
<1> QED
  BY <1>6, <1>7, <1>8, <1>9, <1>11, <1>12, <1>13, <1>14 DEF Next, GraphStep, EndStep

LEMMA NodeStep ==
    TypeInv /\ WantInv /\ LockInv /\ NodeInv /\ [Next]_vars => NodeInv'
<1> SUFFICES ASSUME TypeInv, WantInv, LockInv, NodeInv, [Next]_vars,
                    NEW t \in Tx, pc'[t] \in GraphPhases
             PROVE  drop'[t] = node'[DocOf[t]]
  BY DEF NodeInv
\* A commit of another transaction is of another Document.
<1>1. ASSUME NEW u \in Tx, HoldsDocument(u), pc'[u] = "closed",
             t # u => pc'[t] = pc[t] \/ (pc[t] = "link" /\ pc'[t] = "doomed")
      PROVE  t # u /\ pc[t] \in GraphPhases /\ DocOf[t] # DocOf[u]
  <2>1. t # u /\ pc[t] \in GraphPhases
    BY <1>1 DEF GraphPhases
  <2>2. HoldsDocument(t)
    BY <2>1, GraphHolds
  <2> QED
    BY <1>1, <2>1, <2>2 DEF LockInv
<1>2. ASSUME NEW j \in Jobs, CommitPublication(j) PROVE drop'[t] = node'[DocOf[t]]
  <2>1. /\ j \in Tx /\ HoldsDocument(j) /\ pc'[j] = "closed"
        /\ node' = [node EXCEPT ![DocOf[j]] = j]
        /\ t # j => /\ drop'[t] = drop[t]
                    /\ pc'[t] = pc[t] \/ (pc[t] = "link" /\ pc'[t] = "doomed")
    BY <1>2, Published
  <2>2. t # j /\ pc[t] \in GraphPhases /\ DocOf[t] # DocOf[j]
    BY <1>1, <2>1
  <2>3. node'[DocOf[t]] = node[DocOf[t]]
    BY <2>1, <2>2, Kinds DEF TypeInv, TypeOK
  <2> QED
    BY <2>1, <2>2, <2>3 DEF NodeInv
<1>3. ASSUME NEW a \in Archivers, CommitArchive(a) PROVE drop'[t] = node'[DocOf[t]]
  <2>1. /\ a \in Tx /\ HoldsDocument(a) /\ pc'[a] = "closed"
        /\ node' = [node EXCEPT ![DocOf[a]] = IF node[DocOf[a]] = drop[a] THEN None
                                              ELSE node[DocOf[a]]]
        /\ t # a => /\ drop'[t] = drop[t]
                    /\ pc'[t] = pc[t] \/ (pc[t] = "link" /\ pc'[t] = "doomed")
    BY <1>3, Archived
  <2>2. t # a /\ pc[t] \in GraphPhases /\ DocOf[t] # DocOf[a]
    BY <1>1, <2>1
  <2>3. node'[DocOf[t]] = node[DocOf[t]]
    BY <2>1, <2>2, Kinds DEF TypeInv, TypeOK
  <2> QED
    BY <2>1, <2>2, <2>3 DEF NodeInv
<1>4. CASE ~Publication /\ ~Archival
  <2>1. node' = node
    BY <1>4, Still
  <2>2. \/ pc[t] \in GraphPhases /\ drop'[t] = drop[t]
        \/ drop'[t] = node[DocOf[t]]
    BY <1>4, GraphPhase DEF GraphPhases
  <2> QED
    BY <2>1, <2>2 DEF NodeInv
<1> QED
  BY <1>2, <1>3, <1>4 DEF Publication, Archival

LEMMA PutStep ==
    TypeInv /\ WantInv /\ PutInv /\ GoneInv /\ [Next]_vars => PutInv'
<1> SUFFICES ASSUME TypeInv, WantInv, PutInv, GoneInv, [Next]_vars, NEW t \in Tx
             PROVE  /\ pc'[t] \notin Linking \cup {"doomed"} => put'[t] = {}
                    /\ pc'[t] \in Linking =>
                           \A e \in put'[t] : \E d \in Docs : e = Link(t, d) /\ node'[d] # None
  BY DEF PutInv
<1> DEFINE Goal == /\ pc'[t] \notin Linking \cup {"doomed"} => put'[t] = {}
                   /\ pc'[t] \in Linking =>
                          \A e \in put'[t] : \E d \in Docs : e = Link(t, d) /\ node'[d] # None
<1>1. ASSUME NEW j \in Jobs, CommitPublication(j) PROVE Goal
  <2>1. CASE t = j
    BY <1>1, <2>1, Published DEF Linking
  <2>2. CASE t # j
    <3>1. put'[t] = put[t] /\ (pc'[t] = pc[t] \/ (pc[t] = "link" /\ pc'[t] = "doomed"))
      BY <1>1, <2>2, Published
    <3>2. \A d \in Docs : node[d] # None => node'[d] # None
      <4>1. node' = [node EXCEPT ![DocOf[j]] = j] /\ j # None
        BY <1>1, Published, Kinds
      <4> QED
        BY <4>1 DEF TypeInv, TypeOK
    <3>3. pc'[t] \notin Linking \cup {"doomed"} => put'[t] = {}
      BY <3>1 DEF PutInv, Linking
    <3>4. ASSUME pc'[t] \in Linking, NEW e \in put'[t]
          PROVE  \E d \in Docs : e = Link(t, d) /\ node'[d] # None
      <4>1. pc[t] \in Linking /\ e \in put[t]
        BY <3>1, <3>4 DEF Linking
      <4> QED
        BY <3>2, <4>1 DEF PutInv
    <3> QED
      BY <3>3, <3>4
  <2> QED
    BY <2>1, <2>2
<1>2. ASSUME NEW a \in Archivers, CommitArchive(a) PROVE Goal
  <2>1. CASE t = a
    BY <1>2, <2>1, Archived DEF Linking
  <2>2. CASE t # a
    <3>1. put'[t] = put[t] /\ (pc'[t] = pc[t] \/ (pc[t] = "link" /\ pc'[t] = "doomed"))
      BY <1>2, <2>2, Archived
    <3>2. \A d \in Docs \ {DocOf[a]} : node'[d] = node[d]
      BY <1>2, Archived DEF TypeInv, TypeOK
    <3>3. pc'[t] \notin Linking \cup {"doomed"} => put'[t] = {}
      BY <3>1 DEF PutInv, Linking
    <3>4. ASSUME pc'[t] \in Linking, NEW e \in put'[t]
          PROVE  \E d \in Docs : e = Link(t, d) /\ node'[d] # None
      <4>1. pc[t] \in Linking /\ e \in put[t]
        BY <3>1, <3>4 DEF Linking
      <4>2. PICK d \in Docs : e = Link(t, d) /\ node[d] # None
        BY <4>1 DEF PutInv
      <4>3. DocOf[a] \notin e.ends
        BY <1>2, <2>2, <4>1, Archived DEF GoneInv, Past, GraphPhases
      <4>4. d \in e.ends
        BY <4>2 DEF Link
      <4> QED
        BY <3>2, <4>2, <4>3, <4>4
    <3> QED
      BY <3>3, <3>4
  <2> QED
    BY <2>1, <2>2
<1>3. CASE ~Publication /\ ~Archival
  <2>1. node' = node
    BY <1>3, Still
  <2>2. CASE pc'[t] = pc[t] /\ put'[t] = put[t]
    BY <2>1, <2>2 DEF PutInv
  <2>3. CASE pc'[t] = "doomed"
    BY <2>3 DEF Linking
  <2>4. CASE /\ pc'[t] \notin GraphPhases \cup {"doomed"}
             /\ put'[t] = {} \/ (put'[t] = put[t] /\ pc[t] \notin Linking \cup {"doomed"})
    BY <2>4 DEF PutInv, GraphPhases, Linking
  <2>5. CASE /\ pc[t] \in {"edges", "node"} /\ pc'[t] \in {"node", "peers", "dropped"}
             /\ put'[t] = put[t]
    BY <2>5 DEF PutInv, Linking
  <2>6. CASE pc[t] \in {"peers", "link"} /\ pc'[t] \in Linking /\ put'[t] = put[t]
    BY <2>1, <2>6 DEF PutInv, Linking
  <2>7. CASE pc[t] = "link" /\ pc'[t] = "link"
             /\ \E d \in Docs : node[d] # None /\ put'[t] = put[t] \cup {Link(t, d)}
    BY <2>1, <2>7 DEF PutInv, Linking
  <2>8. \/ pc'[t] = pc[t] /\ put'[t] = put[t]
        \/ pc'[t] = "doomed"
        \/ /\ pc'[t] \notin GraphPhases \cup {"doomed"}
           /\ put'[t] = {} \/ (put'[t] = put[t] /\ pc[t] \notin Linking \cup {"doomed"})
        \/ /\ pc[t] \in {"edges", "node"} /\ pc'[t] \in {"node", "peers", "dropped"}
           /\ put'[t] = put[t]
        \/ pc[t] \in {"peers", "link"} /\ pc'[t] \in Linking /\ put'[t] = put[t]
        \/ pc[t] = "link" /\ pc'[t] = "link"
           /\ \E d \in Docs : node[d] # None /\ put'[t] = put[t] \cup {Link(t, d)}
    BY <1>3, GraphPhase
  <2> QED
    BY <2>2, <2>3, <2>4, <2>5, <2>6, <2>7, <2>8
<1> QED
  BY <1>1, <1>2, <1>3 DEF Publication, Archival

LEMMA GoneStep ==
    TypeInv /\ WantInv /\ LockInv /\ NodeInv /\ PutInv /\ GoneInv /\ [Next]_vars => GoneInv'
<1> SUFFICES ASSUME TypeInv, WantInv, LockInv, NodeInv, PutInv, GoneInv, [Next]_vars,
                    NEW t \in Tx, pc'[t] \in Past
             PROVE  /\ Touches(DocOf[t])' \subseteq gone'[t]
                    /\ \A u \in Tx \ {t} : pc'[u] \in Linking =>
                           \A e \in put'[u] : DocOf[t] \notin e.ends
  BY DEF GoneInv, Touches
<1> DEFINE Goal == /\ Touches(DocOf[t])' \subseteq gone'[t]
                   /\ \A u \in Tx \ {t} : pc'[u] \in Linking =>
                          \A e \in put'[u] : DocOf[t] \notin e.ends
<1>0. \A u \in Tx \ {t} : pc[u] \in GraphPhases /\ pc[t] \in GraphPhases => DocOf[u] # DocOf[t]
  BY GraphHolds DEF LockInv
\* Another one commits: what it inserts does not touch t's Document.
<1>1. ASSUME NEW w \in Tx, pc'[w] = "closed",
             pc[w] \in Linking \/ edges' \subseteq edges, edges' \subseteq edges \cup put[w],
             \A u \in Tx \ {w} : /\ gone'[u] = gone[u] /\ put'[u] = put[u]
                                 /\ pc'[u] = pc[u] \/ (pc[u] = "link" /\ pc'[u] = "doomed")
      PROVE  Goal
  <2>1. t # w /\ pc'[t] = pc[t] /\ pc[t] \in Past /\ gone'[t] = gone[t]
    BY <1>1 DEF Past, GraphPhases
  <2>2. Touches(DocOf[t])' \subseteq gone'[t]
    <3> SUFFICES ASSUME NEW e \in edges', DocOf[t] \in e.ends PROVE e \in gone[t]
      BY <2>1 DEF Touches
    <3>1. e \in edges
      BY <1>1, <2>1 DEF GoneInv
    <3> QED
      BY <2>1, <3>1 DEF GoneInv, Touches
  <2>3. ASSUME NEW u \in Tx \ {t}, pc'[u] \in Linking, NEW e \in put'[u]
        PROVE  DocOf[t] \notin e.ends
    <3>1. u # w
      BY <1>1, <2>3 DEF Linking
    <3>2. pc[u] \in Linking /\ put'[u] = put[u]
      BY <1>1, <2>3, <3>1 DEF Linking
    <3> QED
      BY <2>1, <2>3, <3>2 DEF GoneInv
  <2> QED
    BY <2>2, <2>3
<1>2. ASSUME NEW j \in Jobs, CommitPublication(j) PROVE Goal
  <2>1. /\ j \in Tx /\ pc'[j] = "closed" /\ pc[j] \in Linking
        /\ edges' \subseteq edges \cup put[j]
        /\ \A u \in Tx \ {j} : /\ gone'[u] = gone[u] /\ put'[u] = put[u]
                               /\ pc'[u] = pc[u] \/ (pc[u] = "link" /\ pc'[u] = "doomed")
    BY <1>2, Published DEF Linking
  <2> QED
    BY <1>1, <2>1
<1>3. ASSUME NEW a \in Archivers, CommitArchive(a) PROVE Goal
  <2>1. /\ a \in Tx /\ pc'[a] = "closed" /\ edges' \subseteq edges
        /\ \A u \in Tx \ {a} : /\ gone'[u] = gone[u] /\ put'[u] = put[u]
                               /\ pc'[u] = pc[u] \/ (pc[u] = "link" /\ pc'[u] = "doomed")
    BY <1>3, Archived
  <2> QED
    BY <1>1, <2>1
\* A node is deleted: nobody has inserted an edge to it, or the deletion waited.
<1>4. ASSUME ~Publication, ~Archival, NEW w \in Tx, DropNode(w) PROVE Goal
  <2>1. /\ put' = put /\ edges' = edges /\ pc[w] = "node" /\ WaitsFor(w) = {}
        /\ gone' = [gone EXCEPT ![w] = gone[w] \cup Touches(DocOf[w])]
        /\ pc'[w] \in {"peers", "dropped"}
        /\ \A u \in Tx \ {w} : pc'[u] = pc[u]
    BY <1>4 DEF DropNode, Runs, At, committed, TypeInv, TypeOK
  <2>2. CASE t = w
    <3>1. Touches(DocOf[t])' \subseteq gone'[t]
      BY <2>1, <2>2 DEF Touches, TypeInv, TypeOK
    <3>2. ASSUME NEW u \in Tx \ {t}, pc'[u] \in Linking, NEW e \in put'[u]
          PROVE  DocOf[t] \notin e.ends
      <4>1. pc[u] \in Linking /\ e \in put[u]
        BY <2>1, <2>2, <3>2
      <4>2. DocOf[u] # DocOf[t]
        BY <1>0, <2>1, <2>2, <4>1 DEF Linking, GraphPhases
      <4>3. ~RefersToNode(u, DocOf[t])
        BY <2>1, <2>2 DEF WaitsFor, Others
      <4> QED
        BY <4>1, <4>2, <4>3 DEF RefersToNode
    <3> QED
      BY <3>1, <3>2
  <2>3. CASE t # w
    <3>1. pc[t] \in Past /\ gone'[t] = gone[t]
      BY <2>1, <2>3 DEF TypeInv, TypeOK
    <3>2. Touches(DocOf[t])' \subseteq gone'[t]
      BY <2>1, <3>1 DEF GoneInv, Touches
    <3>3. \A u \in Tx \ {t} : pc'[u] \in Linking => pc[u] \in Linking
      BY <2>1 DEF Linking
    <3> QED
      BY <2>1, <3>1, <3>2, <3>3 DEF GoneInv
  <2> QED
    BY <2>2, <2>3
\* An edge is inserted: not to a node that t has deleted.
<1>5. ASSUME ~Publication, ~Archival, \A w \in Tx : ~DropNode(w) PROVE Goal
  <2>1. pc[t] \in Past /\ gone'[t] = gone[t]
    BY <1>5, GraphPhase DEF Past, GraphPhases, Linking
  <2>2. Touches(DocOf[t])' \subseteq gone'[t]
    BY <1>5, <2>1, Still DEF GoneInv, Touches
  <2>3. ASSUME NEW u \in Tx \ {t}, pc'[u] \in Linking, NEW e \in put'[u]
        PROVE  DocOf[t] \notin e.ends
    <3>1. \/ pc[u] \in Linking /\ put'[u] = put[u]
          \/ pc[u] = "peers" /\ put'[u] = put[u]
          \/ pc[u] = "link" /\ \E d \in Docs : /\ node[d] # None /\ Droppers(u, d) = {}
                                               /\ put'[u] = put[u] \cup {Link(u, d)}
      BY <1>5, <2>3, GraphPhase DEF Linking, GraphPhases
    <3>2. CASE e \in put[u]
      <4>1. pc[u] \in Linking
        BY <3>1, <3>2 DEF PutInv, Linking
      <4> QED
        BY <2>1, <3>2, <4>1 DEF GoneInv
    <3>3. CASE e \notin put[u]
      <4>1. PICK d \in Docs : node[d] # None /\ Droppers(u, d) = {} /\ e = Link(u, d)
        BY <2>3, <3>1, <3>3
      <4>2. DocOf[u] # DocOf[t]
        BY <1>0, <2>1, <3>1, <3>3, <2>3 DEF Past, GraphPhases, Linking
      <4>3. ~DropsNode(t, d)
        BY <2>3, <4>1 DEF Droppers, Others
      <4>4. d # DocOf[t]
        BY <2>1, <4>1, <4>3 DEF DropsNode, NodeInv, Past, GraphPhases
      <4> QED
        BY <4>1, <4>2, <4>4 DEF Link
    <3> QED
      BY <3>2, <3>3
  <2> QED
    BY <2>2, <2>3
<1> QED
  BY <1>2, <1>3, <1>4, <1>5 DEF Publication, Archival

LEMMA EdgeStep ==
    TypeInv /\ WantInv /\ PutInv /\ GoneInv /\ EdgeInv /\ [Next]_vars => EdgeInv'
<1> SUFFICES ASSUME TypeInv, WantInv, PutInv, GoneInv, EdgeInv, [Next]_vars PROVE EdgeInv'
  OBVIOUS
<1> DEFINE Sound(e) == /\ \A x \in e.ends : node'[x] # None
                       /\ e.rev = node'[e.owner] /\ e.owner \in e.ends
<1>1. \A e \in edges : e.ends \subseteq Docs
  BY DEF TypeInv, TypeOK, Edge
\* An edge that does not touch a Document does not mind its node.
<1>2. ASSUME NEW d \in Docs, \A x \in Docs \ {d} : node'[x] = node[x],
             NEW e \in edges, d \notin e.ends
      PROVE  Sound(e)
  <2>1. e.owner \in e.ends /\ e.rev = node[e.owner] /\ \A x \in e.ends : node[x] # None
    BY DEF EdgeInv, EdgesAreCurrent
  <2>2. \A x \in e.ends : node'[x] = node[x]
    BY <1>1, <1>2
  <2> QED
    BY <2>1, <2>2
<1>3. ASSUME NEW j \in Jobs, CommitPublication(j) PROVE EdgeInv'
  <2> DEFINE d == DocOf[j]
  <2>1. /\ j \in Tx /\ d \in Docs /\ pc[j] = "linked" /\ j # None
        /\ node' = [node EXCEPT ![d] = j] /\ edges' = (edges \ gone[j]) \cup put[j]
    BY <1>3, Published, Kinds
  <2>2. node'[d] = j /\ \A x \in Docs \ {d} : node'[x] = node[x]
    BY <2>1 DEF TypeInv, TypeOK
  <2>3. \A e \in edges \ gone[j] : d \notin e.ends
    BY <2>1 DEF GoneInv, Past, GraphPhases, Touches
  <2>4. \A e \in put[j] : \E x \in Docs : e = Link(j, x) /\ node[x] # None
    BY <2>1 DEF PutInv, Linking
  <2>5. ASSUME NEW e \in put[j] PROVE Sound(e) /\ d \in e.ends
    <3>1. PICK x \in Docs : e = Link(j, x) /\ node[x] # None
      BY <2>4
    <3>2. e.ends = {x, d} /\ e.owner = d /\ e.rev = j
      BY <3>1 DEF Link
    <3> QED
      BY <2>1, <2>2, <3>1, <3>2
  <2>6. \A e \in edges' : Sound(e)
    BY <1>2, <2>1, <2>2, <2>3, <2>5
  <2>7. ASSUME NEW e \in put[j], NEW f \in put[j], f.ends = e.ends PROVE f = e
    <3>1. PICK x \in Docs : e = Link(j, x)
      BY <2>4
    <3>2. PICK y \in Docs : f = Link(j, y)
      BY <2>4
    <3>3. {x, d} = {y, d}
      BY <2>7, <3>1, <3>2 DEF Link
    <3>4. x = y
      BY <3>3
    <3> QED
      BY <3>1, <3>2, <3>4
  <2>8. ASSUME NEW e \in edges', NEW f \in edges', f.ends = e.ends PROVE f = e
    <3>1. CASE e \in put[j] /\ f \in put[j]
      BY <2>7, <2>8, <3>1
    <3>2. CASE e \notin put[j] /\ f \notin put[j]
      BY <2>1, <2>8, <3>2 DEF EdgeInv, EdgesAreCurrent
    <3>3. CASE e \in put[j] /\ f \notin put[j]
      BY <2>1, <2>3, <2>5, <2>8, <3>3
    <3>4. CASE e \notin put[j] /\ f \in put[j]
      BY <2>1, <2>3, <2>5, <2>8, <3>4
    <3> QED
      BY <3>1, <3>2, <3>3, <3>4
  <2> QED
    BY <2>6, <2>8 DEF EdgeInv, EdgesAreCurrent
<1>4. ASSUME NEW a \in Archivers, CommitArchive(a) PROVE EdgeInv'
  <2>1. /\ a \in Tx /\ DocOf[a] \in Docs /\ pc[a] = "dropped" /\ edges' = edges \ gone[a]
        /\ \A x \in Docs \ {DocOf[a]} : node'[x] = node[x]
    BY <1>4, Archived DEF TypeInv, TypeOK
  <2>2. \A e \in edges' : e \in edges /\ DocOf[a] \notin e.ends
    BY <2>1 DEF GoneInv, Past, GraphPhases, Touches
  <2>3. \A e \in edges' : Sound(e)
    BY <1>2, <2>1, <2>2
  <2> QED
    BY <2>2, <2>3 DEF EdgeInv, EdgesAreCurrent
<1>5. CASE ~Publication /\ ~Archival
  BY <1>5, Still DEF EdgeInv, EdgesAreCurrent
<1> QED
  BY <1>3, <1>4, <1>5 DEF Publication, Archival

LEMMA EdgeInit == Init => NodeInv /\ PutInv /\ GoneInv /\ EdgeInv
<1> SUFFICES ASSUME Init PROVE NodeInv /\ PutInv /\ GoneInv /\ EdgeInv
  OBVIOUS
<1> DEFINE Start(S, turn) ==
        /\ node = [d \in Docs |-> SeedOf(S, d)]
        /\ edges = {Link(p[1], DocOf[p[2]]) :
               p \in {q \in S \X S :
                         /\ turn[q[1]] > turn[q[2]]
                         /\ {DocOf[q[1]], DocOf[q[2]]} \in Related}}
        /\ put = [t \in Tx |-> {}]
<1>0. PICK scene \in Scenes : \E turn \in Turns(scene.done) : Start(scene.done, turn)
  BY DEF Init
<1>1. PICK turn \in Turns(scene.done) : Start(scene.done, turn)
  BY <1>0
<1> DEFINE S == scene.done
<1>2. S \in SUBSET Jobs /\ \A j, k \in S : DocOf[j] = DocOf[k] => j = k
  BY PublicationAssumption
<1>3. \A t \in Tx : pc[t] \in {"idle", "closed"} /\ put[t] = {}
  BY <1>1, InitBegun DEF Begun
<1>4. NodeInv /\ PutInv /\ GoneInv
  BY <1>3 DEF NodeInv, PutInv, GoneInv, Past, GraphPhases, Linking
<1>5. \A j \in S : DocOf[j] \in Docs /\ node[DocOf[j]] = j /\ j # None
  <2> SUFFICES ASSUME NEW j \in S PROVE DocOf[j] \in Docs /\ node[DocOf[j]] = j /\ j # None
    OBVIOUS
  <2>1. j \in Jobs /\ DocOf[j] \in Docs /\ j # None
    BY <1>2, Kinds
  <2>2. SeedOf(S, DocOf[j]) = j
    BY <1>2, <2>1, SeedType
  <2> QED
    BY <1>1, <2>1, <2>2
<1>6. \A e \in edges : \E a, b \in S : e = Link(a, DocOf[b]) /\ turn[a] > turn[b]
  BY <1>1
<1>7. ASSUME NEW e \in edges
      PROVE  /\ \A x \in e.ends : node[x] # None
             /\ e.rev = node[e.owner] /\ e.owner \in e.ends
  BY <1>5, <1>6 DEF Link
<1>8. ASSUME NEW e \in edges, NEW f \in edges, f.ends = e.ends PROVE f = e
  <2>1. PICK a \in S : \E b \in S : e = Link(a, DocOf[b]) /\ turn[a] > turn[b]
    BY <1>6
  <2>2. PICK b \in S : e = Link(a, DocOf[b]) /\ turn[a] > turn[b]
    BY <2>1
  <2>3. PICK c \in S : \E d \in S : f = Link(c, DocOf[d]) /\ turn[c] > turn[d]
    BY <1>6
  <2>4. PICK d \in S : f = Link(c, DocOf[d]) /\ turn[c] > turn[d]
    BY <2>3
  <2>5. {DocOf[b], DocOf[a]} = {DocOf[d], DocOf[c]}
    BY <1>8, <2>2, <2>4 DEF Link
  <2>6. (a = c /\ b = d) \/ (a = d /\ b = c)
    BY <1>2, <2>5, <2>2, <2>4
  <2>7. turn[a] \in Int /\ turn[b] \in Int
    BY DEF Turns
  <2>8. a = c /\ b = d
    BY <2>2, <2>4, <2>6, <2>7
  <2> QED
    BY <2>2, <2>4, <2>8
<1>9. EdgeInv
  BY <1>7, <1>8 DEF EdgeInv, EdgesAreCurrent
<1> QED
  BY <1>4, <1>9

\* The graph has no edge to a Document that is not in it, none of an older revision,
\* and none twice, although publications link to each other's nodes while they and
\* archivers delete them.
THEOREM EdgesCorrect == Spec => []EdgesAreCurrent
<1> DEFINE I == TypeInv /\ WantInv /\ LockInv /\ NodeInv /\ PutInv /\ GoneInv /\ EdgeInv
<1>1. Init => I
  BY TypeInit, WantInit, LockInit, EdgeInit
<1>2. I /\ [Next]_vars => I'
  BY TypeStep, WantStep, LockStep, NodeStep, PutStep, GoneStep, EdgeStep
<1>3. I => EdgesAreCurrent
  BY DEF EdgeInv
<1> QED
  BY <1>1, <1>2, <1>3, PTL DEF Spec
------------------------------------------------------------------------------
(* That nobody is left waiting: what of EveryTransactionEnds does not rest on   *)
(* fairness.                                                                    *)

\* The phases in which a transaction waits for others, INSERT of an edge aside.
Blocking == {"ready", "update", "attributes", "edges", "node", "deleting", "inserting"}

\* The next statement of t's own has its guard true.
CanAdvance(t) ==
    \/ pc[t] \in {"resolved", "peers", "linked", "stale", "empty", "dropped", "inserted",
                  "doomed"}
    \/ pc[t] = "parsed" /\ tries[t] < MaxTries
    \/ pc[t] \in Blocking /\ WaitsFor(t) = {}
    \/ pc[t] = "link" /\ (want[t] = None \/ (want[t] \in peers[t] /\ Droppers(t, want[t]) = {}))

UnderWay == {t \in Tx : pc[t] \notin {"idle", "closed"}}

\* As long as somebody is under way, somebody can go on, or is in a deadlock that the
\* database finds.
SomebodyGoesOn ==
    UnderWay # {} =>
        \/ \E t \in UnderWay : CanAdvance(t)
        \/ \E S \in SUBSET {t \in Tx : WaitsFor(t) # {}} : S # {} /\ Cycle(S)

\* Only who is past its first write has rows deleted or inserted.
Blank == {"idle", "resolved", "parsed", "ready", "empty", "stale", "closed"}

LocalInv == \A t \in Tx : pc[t] \in Blank => cut[t] = {} /\ gone[t] = {} /\ put[t] = {}

\* A Job that awaits its completion has an attempt left.
TriesInv ==
    \A j \in Jobs : /\ tries[j] <= MaxTries
                    /\ pc[j] \in {"idle", "resolved"} => tries[j] = 0
                    /\ pc[j] = "parsed" => tries[j] < MaxTries

\* What t's own step to the phase p leaves of the others' rows, and of t's.
LEMMA BlankFrame ==
    ASSUME TypeInv, LocalInv, NEW t \in Tx, NEW p, At(t, p), UNCHANGED <<cut, gone, put>>,
           pc[t] \in Blank \/ p \notin Blank
    PROVE  LocalInv'
BY DEF TypeInv, TypeOK, LocalInv, At

\* Whoever has something to lose is not Blank; the end of a transaction clears it.
LEMMA LocalStep == TypeInv /\ LocalInv /\ [Next]_vars => LocalInv'
<1> SUFFICES ASSUME TypeInv, LocalInv, [Next]_vars PROVE LocalInv'
  OBVIOUS
<1>0. Jobs \subseteq Tx /\ Archivers \subseteq Tx /\ Editors \subseteq Tx
  BY Kinds
<1>1. ASSUME NEW t \in Tx, NEW p \in Phases \ Blank, At(t, p),
             \A u \in Tx \ {t} : cut'[u] = cut[u] /\ gone'[u] = gone[u] /\ put'[u] = put[u]
      PROVE  LocalInv'
  BY <1>1 DEF TypeInv, TypeOK, LocalInv, At
<1>2. ASSUME NEW t \in Tx, Clear(t),
             \A u \in Tx \ {t} : pc'[u] = pc[u] \/ pc'[u] = "doomed"
      PROVE  LocalInv'
  <2>1. cut'[t] = {} /\ gone'[t] = {} /\ put'[t] = {}
    BY <1>2 DEF Clear, TypeInv, TypeOK
  <2>2. \A u \in Tx \ {t} : cut'[u] = cut[u] /\ gone'[u] = gone[u] /\ put'[u] = put[u]
    BY <1>2 DEF Clear, TypeInv, TypeOK
  <2>3. "doomed" \notin Blank
    BY DEF Blank
  <2> QED
    BY <1>2, <2>1, <2>2, <2>3 DEF LocalInv
<1>3. ASSUME NEW j \in Jobs, JobStep(j) PROVE LocalInv'
  <2>1. CASE ResolveScope(j) \/ BeginPublication(j) \/ LockDocument(j) \/ Linked(j)
             \/ CommitCompletion(j) \/ RejectCompletion(j)
    BY <1>0, <2>1, BlankFrame
    DEF ResolveScope, BeginPublication, LockDocument, Linked, CommitCompletion,
        RejectCompletion, Runs, Blank, local
  <2>2. CASE CreateJob(j)
    BY <1>0, <2>2, BlankFrame DEF CreateJob, Blank, local
  <2>3. CASE FailJob(j)
    BY <2>3 DEF FailJob, LocalInv, local
  <2>4. CASE ReplaceAttributes(j) \/ ReadPeers(j)
    <3>1. /\ \A u \in Tx \ {j} : cut'[u] = cut[u] /\ gone'[u] = gone[u] /\ put'[u] = put[u]
          /\ At(j, "edges") \/ At(j, "link")
      BY <1>0, <2>4 DEF ReplaceAttributes, ReadPeers, TypeInv, TypeOK
    <3> QED
      BY <1>0, <1>1, <3>1 DEF Phases, Publishes, Blank
  <2>5. ASSUME NEW d \in Docs, LinkPeer(j, d) PROVE LocalInv'
    <3>1. /\ \A u \in Tx \ {j} : cut'[u] = cut[u] /\ gone'[u] = gone[u] /\ put'[u] = put[u]
          /\ At(j, "doomed") \/ pc' = pc
          /\ pc[j] = "link"
      BY <1>0, <2>5 DEF LinkPeer, TypeInv, TypeOK
    <3>2. CASE At(j, "doomed")
      BY <1>0, <1>1, <3>1, <3>2 DEF Phases, Blank
    <3>3. CASE pc' = pc
      BY <3>1, <3>3 DEF LocalInv, Blank
    <3> QED
      BY <3>1, <3>2, <3>3
  <2>6. CASE CommitPublication(j)
    BY <1>0, <1>2, <2>6 DEF CommitPublication, CommitDeletion
  <2> QED
    BY <1>3, <2>1, <2>2, <2>3, <2>4, <2>5, <2>6 DEF JobStep
<1>4. ASSUME NEW t \in Tx, GraphStep(t) PROVE LocalInv'
  <2>1. /\ \A u \in Tx \ {t} : cut'[u] = cut[u] /\ gone'[u] = gone[u] /\ put'[u] = put[u]
        /\ At(t, "node") \/ At(t, "peers") \/ At(t, "dropped")
    BY <1>4 DEF GraphStep, DropEdges, DropNode, TypeInv, TypeOK
  <2> QED
    BY <1>1, <2>1 DEF Phases, Publishes, Blank
<1>5. ASSUME NEW t \in Tx, BreakDeadlock(t) PROVE LocalInv'
  BY <1>5, BlankFrame DEF BreakDeadlock, Blank
<1>6. ASSUME NEW t \in Tx, Rollback(t) PROVE LocalInv'
  BY <1>2, <1>6 DEF Rollback, At, TypeInv, TypeOK
<1>7. ASSUME NEW a \in Archivers, ArchiveStep(a) PROVE LocalInv'
  <2>1. CASE ReadDocument(a) \/ UpdateDocument(a)
    BY <1>0, <2>1, BlankFrame DEF ReadDocument, UpdateDocument, Runs, Blank, local
  <2>2. CASE CommitArchive(a)
    BY <1>0, <1>2, <2>2 DEF CommitArchive, CommitDeletion
  <2> QED
    BY <1>7, <2>1, <2>2 DEF ArchiveStep
<1>8. ASSUME NEW e \in Editors, EditStep(e) PROVE LocalInv'
  <2>1. CASE DeleteAttributes(e) \/ InsertAttributes(e)
    BY <1>0, <2>1, BlankFrame DEF DeleteAttributes, InsertAttributes, Runs, Blank, local
  <2>2. CASE AttributesDeleted(e)
    <3>1. \A u \in Tx \ {e} : cut'[u] = cut[u] /\ gone'[u] = gone[u] /\ put'[u] = put[u]
      BY <1>0, <2>2 DEF AttributesDeleted, TypeInv, TypeOK
    <3> QED
      BY <1>0, <1>1, <2>2, <3>1 DEF AttributesDeleted, Phases, Blank
  <2>3. CASE CommitAttributes(e)
    BY <1>0, <1>2, <2>3 DEF CommitAttributes, At, TypeInv, TypeOK
  <2> QED
    BY <1>8, <2>1, <2>2, <2>3 DEF EditStep
<1>9. CASE UNCHANGED vars
  BY <1>9 DEF LocalInv, vars, local
<1> QED
  BY <1>3, <1>4, <1>5, <1>6, <1>7, <1>8, <1>9 DEF Next, EndStep

\* Only the beginning of a completion uses up an attempt.
LEMMA TriesStep == TypeInv /\ WantInv /\ TriesInv /\ [Next]_vars => TriesInv'
<1> SUFFICES ASSUME TypeInv, WantInv, TriesInv, [Next]_vars PROVE TriesInv'
  OBVIOUS
<1>0. /\ Jobs \subseteq Tx /\ Archivers \subseteq Tx /\ Editors \subseteq Tx
      /\ MaxTries \in Nat \ {0}
  BY Kinds, PublicationAssumption
<1>1. ASSUME NEW t \in Tx, NEW p, At(t, p), UNCHANGED tries,
             p \notin {"idle", "resolved", "parsed"}
      PROVE  TriesInv'
  BY <1>0, <1>1 DEF TriesInv, At, TypeInv, TypeOK
<1>2. ASSUME NEW t \in Tx, CommitDeletion(t, "closed"), UNCHANGED tries PROVE TriesInv'
  BY <1>0, <1>2 DEF TriesInv, CommitDeletion, TypeInv, TypeOK
<1>3. ASSUME NEW j \in Jobs, JobStep(j) PROVE TriesInv'
  <2>1. CASE ResolveScope(j)
    BY <1>0, <2>1 DEF ResolveScope, TriesInv, At, TypeInv, TypeOK
  <2>2. CASE CreateJob(j)
    BY <1>0, <2>2 DEF CreateJob, TriesInv, At, TypeInv, TypeOK
  <2>3. CASE BeginPublication(j)
    <3>1. PICK p \in {"ready", "empty"} : At(j, p)
      BY <2>3 DEF BeginPublication
    <3> QED
      BY <1>0, <2>3, <3>1 DEF BeginPublication, TriesInv, At, TypeInv, TypeOK
  <2>4. CASE FailJob(j)
    BY <2>4 DEF FailJob, TriesInv
  <2>5. CASE LockDocument(j) \/ ReplaceAttributes(j) \/ ReadPeers(j) \/ Linked(j)
             \/ RejectCompletion(j) \/ CommitCompletion(j)
    BY <1>0, <1>1, <2>5
    DEF LockDocument, ReplaceAttributes, ReadPeers, Linked, RejectCompletion,
        CommitCompletion, life
  <2>6. ASSUME NEW d \in Docs, LinkPeer(j, d) PROVE TriesInv'
    <3>1. UNCHANGED tries /\ (At(j, "doomed") \/ pc' = pc)
      BY <2>6 DEF LinkPeer, life
    <3>2. CASE pc' = pc
      BY <3>1, <3>2 DEF TriesInv
    <3> QED
      BY <1>0, <1>1, <3>1, <3>2
  <2>7. CASE CommitPublication(j)
    BY <1>0, <1>2, <2>7 DEF CommitPublication
  <2> QED
    BY <1>3, <2>1, <2>2, <2>3, <2>4, <2>5, <2>6, <2>7 DEF JobStep
<1>4. ASSUME NEW t \in Tx, GraphStep(t) \/ BreakDeadlock(t) PROVE TriesInv'
  BY <1>1, <1>4 DEF GraphStep, DropEdges, DropNode, BreakDeadlock, life
<1>5. ASSUME NEW t \in Tx, Rollback(t) PROVE TriesInv'
  BY <1>0, <1>5 DEF Rollback, TriesInv, At, TypeInv, TypeOK
<1>6. ASSUME NEW a \in Archivers, ArchiveStep(a) PROVE TriesInv'
  <2>1. CASE CommitArchive(a)
    BY <1>0, <1>2, <2>1 DEF CommitArchive
  <2>2. CASE ReadDocument(a) \/ UpdateDocument(a)
    BY <1>0, <1>1, <2>2 DEF ReadDocument, UpdateDocument, life
  <2> QED
    BY <1>6, <2>1, <2>2 DEF ArchiveStep
<1>7. ASSUME NEW e \in Editors, EditStep(e) PROVE TriesInv'
  BY <1>0, <1>1, <1>7 DEF EditStep, DeleteAttributes, AttributesDeleted, InsertAttributes,
     CommitAttributes, life
<1>8. CASE UNCHANGED vars
  BY <1>8 DEF TriesInv, vars, life
<1> QED
  BY <1>3, <1>4, <1>5, <1>6, <1>7, <1>8 DEF Next, EndStep

\* Whom somebody waits for is under way.
LEMMA WaitsForUnderWay ==
    ASSUME TypeInv, LocalInv, NEW t \in Tx, NEW u \in WaitsFor(t)
    PROVE  u \in UnderWay
<1>1. u \in Tx
  BY DEF WaitsFor, SameDoc, Others, Droppers
<1>2. pc[u] \in Blank => cut[u] = {} /\ gone[u] = {} /\ put[u] = {}
  BY <1>1 DEF LocalInv
<1> SUFFICES ASSUME pc[u] \in {"idle", "closed"} PROVE FALSE
  BY <1>1 DEF UnderWay
<1>3. cut[u] = {} /\ gone[u] = {} /\ put[u] = {}
  BY <1>2 DEF Blank
<1>4. /\ ~HoldsDocument(u) /\ ~RefersToDocument(u)
      /\ \A d : ~DropsNode(u, d) /\ ~RefersToNode(u, d)
  BY <1>3 DEF HoldsDocument, RefersToDocument, DropsNode, RefersToNode, Publishes
<1> QED
  BY <1>3, <1>4 DEF WaitsFor, Droppers

\* Who is under way and cannot go on waits for somebody.
LEMMA StuckWaits ==
    ASSUME TypeInv, WantInv, TriesInv, NEW t \in UnderWay, ~CanAdvance(t)
    PROVE  WaitsFor(t) # {}
<1>1. t \in Tx /\ pc[t] \in Phases /\ pc[t] \notin {"idle", "closed"}
  BY DEF UnderWay, TypeInv, TypeOK
<1>2. pc[t] \in Blocking \cup {"parsed", "link"}
  BY <1>1 DEF CanAdvance, Phases, Publishes, Blocking
<1>3. CASE pc[t] \in Blocking
  BY <1>3 DEF CanAdvance
<1>4. CASE pc[t] = "parsed"
  <2>1. t \in Jobs
    BY <1>1, <1>4 DEF TypeInv, PcInv, ArchivePhases, EditPhases, Tx
  <2> QED
    BY <1>4, <2>1 DEF CanAdvance, TriesInv
<1>5. CASE pc[t] = "link"
  <2>1. want[t] # None /\ Droppers(t, want[t]) # {}
    BY <1>1, <1>5 DEF CanAdvance, WantInv
  <2> QED
    BY <1>5, <2>1 DEF WaitsFor
<1> QED
  BY <1>2, <1>3, <1>4, <1>5

\* Finitely many who all wait for one another contain a cycle: the least set of them
\* that is closed under waiting.
LEMMA CycleExists ==
    ASSUME IsFiniteSet(Tx), NEW W \in SUBSET Tx, W # {},
           \A t \in W : \E u \in W : u \in WaitsFor(t)
    PROVE  \E S \in SUBSET {t \in Tx : WaitsFor(t) # {}} : S # {} /\ Cycle(S)
<1> DEFINE Closed(S) == \A t \in S : \E u \in S : u \in WaitsFor(t)
           All == {S \in SUBSET Tx : S # {} /\ Closed(S)}
<1>1. IsWellFoundedOn(StrictSubsetOrdering(Tx), SUBSET Tx)
  BY FS_StrictSubsetOrderingWellFounded, FS_FiniteSubsetsOfFinite
<1>2. All \subseteq SUBSET Tx /\ All # {}
  <2>1. W \in All
    OBVIOUS
  <2> QED
    BY <2>1
<1>3. PICK S \in All : \A R \in All : <<R, S>> \notin StrictSubsetOrdering(Tx)
  <2> HIDE DEF All
  <2> QED
    BY <1>1, <1>2, WFMin
<1>4. S \in SUBSET Tx /\ S # {} /\ Closed(S)
  OBVIOUS
<1> DEFINE R == {u \in S : \E t \in S : u \in WaitsFor(t)}
<1>5. R \in All
  <2>1. R \in SUBSET Tx /\ R # {}
    BY <1>4
  <2>2. ASSUME NEW u \in R PROVE \E v \in R : v \in WaitsFor(u)
    <3>1. u \in S
      OBVIOUS
    <3>2. PICK v \in S : v \in WaitsFor(u)
      BY <1>4, <3>1
    <3> QED
      BY <3>1, <3>2
  <2> QED
    BY <2>1, <2>2
<1>6. R = S
  <2>1. R \subseteq S
    OBVIOUS
  <2>2. <<R, S>> \notin StrictSubsetOrdering(Tx)
    BY <1>3, <1>5
  <2>3. R \in SUBSET Tx
    BY <1>4
  <2> HIDE DEF R
  <2> QED
    BY <1>4, <2>1, <2>2, <2>3 DEF StrictSubsetOrdering
<1>7. Cycle(S)
  BY <1>4, <1>6 DEF Cycle
<1>8. S \in SUBSET {t \in Tx : WaitsFor(t) # {}}
  BY <1>4
<1> QED
  BY <1>4, <1>7, <1>8

LEMMA GoesOn ==
    ASSUME IsFiniteSet(Tx), TypeInv, WantInv, LocalInv, TriesInv
    PROVE  SomebodyGoesOn
<1> SUFFICES ASSUME UnderWay # {}, \A t \in UnderWay : ~CanAdvance(t)
             PROVE  \E S \in SUBSET {t \in Tx : WaitsFor(t) # {}} : S # {} /\ Cycle(S)
  BY DEF SomebodyGoesOn
<1>1. UnderWay \in SUBSET Tx
  BY DEF UnderWay
<1>2. \A t \in UnderWay : WaitsFor(t) # {} /\ \A u \in WaitsFor(t) : u \in UnderWay
  BY <1>1, StuckWaits, WaitsForUnderWay
<1>3. \A t \in UnderWay : \E u \in UnderWay : u \in WaitsFor(t)
  BY <1>2
<1> QED
  BY <1>1, <1>3, CycleExists

LEMMA GoesOnInit == Init => LocalInv /\ TriesInv
<1> SUFFICES ASSUME Init PROVE LocalInv /\ TriesInv
  OBVIOUS
<1>1. /\ cut = [t \in Tx |-> {}] /\ gone = [t \in Tx |-> {}] /\ put = [t \in Tx |-> {}]
      /\ tries = [j \in Jobs |-> 0]
      /\ \A t \in Tx : pc[t] \in {"idle", "closed"}
  BY DEF Init
<1> QED
  BY <1>1, Kinds, PublicationAssumption DEF LocalInv, TriesInv

\* Requests never end up all waiting for each other unnoticed: if none of those under
\* way can go on, some of them wait in a cycle, which is what the database looks for.
\* The lock waits of the code have no other way to stop.
THEOREM DeadlockIsFound ==
    ASSUME IsFiniteSet(Tx)
    PROVE  Spec => []SomebodyGoesOn
<1>1. TypeInv /\ WantInv /\ LocalInv /\ TriesInv => SomebodyGoesOn
  BY GoesOn
<1> QED
  BY <1>1, TypeInit, TypeStep, WantInit, WantStep, GoesOnInit, LocalStep, TriesStep, PTL
  DEF Spec

\* How far a phase is from the end of its transaction, a retry aside.
Rank(p) ==
    CASE p \in {"idle", "ready"} -> 9
      [] p \in {"update", "deleting", "attributes"} -> 8
      [] p \in {"edges", "inserting"} -> 7
      [] p = "node" -> 6
      [] p = "peers" -> 5
      [] p = "link" -> 4
      [] p \in {"linked", "stale", "empty", "dropped", "inserted"} -> 3
      [] p \in {"doomed", "resolved"} -> 2
      [] p = "parsed" -> 1
      [] OTHER -> 0

\* The most phases that t has yet to enter; each attempt of a Job starts it over.
Budget(t) == (IF t \in Jobs THEN 10 * (MaxTries - tries[t]) ELSE 0) + Rank(pc[t])

\* Nothing goes on for ever: a step takes some transaction further, and none back; or
\* it fails a Job, links a peer, or begins to wait for one; and nobody stops waiting,
\* or is given more peers, but by a step of the first kind.
Costs ==
    /\ \A t \in Tx : Budget(t)' \in 0..Budget(t) /\ (pc'[t] # pc[t] => Budget(t)' # Budget(t))
    /\ \/ \E t \in Tx : Budget(t)' # Budget(t)
       \/ /\ pc' = pc /\ peers' = peers /\ want' = want
          /\ \E j \in Jobs : job[j] = "active" /\ job' = [job EXCEPT ![j] = "failed"]
       \/ /\ pc' = pc /\ job' = job
          /\ \E j \in Jobs : \E d \in peers[j] :
                 /\ peers' = [peers EXCEPT ![j] = @ \ {d}]
                 /\ \A t \in Tx \ {j} : want'[t] = want[t]
       \/ /\ pc' = pc /\ job' = job /\ peers' = peers
          /\ \E j \in Jobs : \E d \in peers[j] :
                 want[j] = None /\ want' = [want EXCEPT ![j] = d]

EveryStepCosts == [][Costs]_vars

LEMMA RankBound == \A p : Rank(p) \in 0..9
BY DEF Rank

\* A budget is never overdrawn.
LEMMA BudgetBound ==
    ASSUME NEW k \in Nat, k <= MaxTries, NEW r \in 0..9
    PROVE  10 * (MaxTries - k) + r \in Nat /\ 0 + r \in Nat
BY PublicationAssumption

\* t's budget does not rise, and falls when t goes on.
Falls(t) == Budget(t)' <= Budget(t) /\ (pc'[t] # pc[t] => Budget(t)' < Budget(t))

LEMMA FallsAlone ==
    ASSUME TypeInv, NEW t \in Tx,
           pc'[t] = pc[t] \/ Rank(pc'[t]) < Rank(pc[t]),
           t \in Jobs => tries'[t] = tries[t]
    PROVE  Falls(t) /\ (pc'[t] # pc[t] => Budget(t)' # Budget(t))
<1>1. Rank(pc[t]) \in 0..9 /\ Rank(pc'[t]) \in 0..9
  BY RankBound
<1>2. t \in Jobs => tries[t] \in Nat /\ MaxTries \in Nat
  BY PublicationAssumption DEF TypeInv, TypeOK
<1>3. pc'[t] = pc[t] => Rank(pc'[t]) = Rank(pc[t])
  OBVIOUS
<1> QED
  BY <1>1, <1>2, <1>3 DEF Falls, Budget

\* A statement takes its transaction on, and leaves the others where they are.
LEMMA StatementFalls ==
    ASSUME TypeInv, NEW t \in Tx, NEW p, At(t, p), UNCHANGED tries, Rank(p) < Rank(pc[t])
    PROVE  (\A u \in Tx : Falls(u)) /\ Budget(t)' # Budget(t)
<1>1. pc'[t] = p /\ pc'[t] # pc[t]
  <2>1. pc'[t] = p
    BY DEF At, TypeInv, TypeOK
  <2>2. p = pc[t] => Rank(p) = Rank(pc[t]) /\ Rank(p) \in 0..9
    BY RankBound
  <2>3. Rank(pc[t]) \in 0..9
    BY RankBound
  <2> QED
    BY <2>1, <2>2, <2>3
<1>2. \A u \in Tx \ {t} : pc'[u] = pc[u]
  BY DEF At, TypeInv, TypeOK
<1>3. Falls(t) /\ Budget(t)' # Budget(t)
  BY <1>1, FallsAlone
<1>4. \A u \in Tx \ {t} : Falls(u)
  BY <1>2, FallsAlone
<1> QED
  BY <1>3, <1>4

LEMMA DeletionFalls ==
    ASSUME TypeInv, WantInv, NEW t \in Tx, CommitDeletion(t, "closed"), UNCHANGED tries,
           pc[t] \in {"linked", "dropped"}
    PROVE  (\A u \in Tx : Falls(u)) /\ Budget(t)' # Budget(t)
<1>0. /\ Rank("closed") = 0 /\ Rank("doomed") = 2 /\ Rank("link") = 4
      /\ Rank(pc[t]) = 3 /\ pc[t] # "closed"
  BY DEF Rank
<1>1. pc'[t] = "closed"
  BY DEF CommitDeletion
<1>2. Falls(t) /\ Budget(t)' # Budget(t)
  BY <1>0, <1>1, FallsAlone
<1>3. ASSUME NEW u \in Tx \ {t} PROVE Falls(u)
  <2>1. CASE u \in Waiting(t)
    <3>1. want[u] # None
      BY <2>1, Kinds, PublicationAssumption DEF Waiting
    <3>2. pc[u] = "link" /\ pc'[u] = "doomed"
      BY <2>1, <3>1 DEF WantInv, CommitDeletion
    <3>3. Rank(pc'[u]) < Rank(pc[u])
      BY <1>0, <3>2
    <3> QED
      BY <3>3, FallsAlone
  <2>2. CASE u \notin Waiting(t)
    <3>1. pc'[u] = pc[u]
      BY <2>2 DEF CommitDeletion
    <3> QED
      BY <3>1, FallsAlone
  <2> QED
    BY <2>1, <2>2
<1> QED
  BY <1>2, <1>3

\* A step that takes some transaction on costs.
LEMMA FallCosts ==
    ASSUME TypeInv, TypeInv', TriesInv', \A u \in Tx : Falls(u),
           \/ \E t \in Tx : Budget(t)' # Budget(t)
           \/ /\ pc' = pc /\ peers' = peers /\ want' = want
              /\ \E j \in Jobs : job[j] = "active" /\ job' = [job EXCEPT ![j] = "failed"]
           \/ /\ pc' = pc /\ job' = job
              /\ \E j \in Jobs : \E d \in peers[j] :
                     /\ peers' = [peers EXCEPT ![j] = @ \ {d}]
                     /\ \A t \in Tx \ {j} : want'[t] = want[t]
           \/ /\ pc' = pc /\ job' = job /\ peers' = peers
              /\ \E j \in Jobs : \E d \in peers[j] :
                     want[j] = None /\ want' = [want EXCEPT ![j] = d]
    PROVE  Costs
<1>1. ASSUME NEW t \in Tx
      PROVE  Budget(t)' \in 0..Budget(t) /\ (pc'[t] # pc[t] => Budget(t)' # Budget(t))
  <2>1. Rank(pc'[t]) \in 0..9 /\ Rank(pc[t]) \in 0..9
    BY RankBound
  <2>2. t \in Jobs => tries'[t] \in Nat /\ tries'[t] <= MaxTries /\ tries[t] \in Nat
    BY DEF TypeInv, TypeOK, TriesInv
  <2>3. Budget(t)' \in Nat
    BY <2>1, <2>2, BudgetBound DEF Budget
  <2>4. Budget(t) \in Int
    BY <2>1, <2>2, PublicationAssumption DEF Budget
  <2>5. Budget(t)' <= Budget(t) /\ (pc'[t] # pc[t] => Budget(t)' < Budget(t))
    BY DEF Falls
  <2> QED
    BY <2>3, <2>4, <2>5
<1> QED
  BY <1>1 DEF Costs

LEMMA JobCosts ==
    ASSUME TypeInv, WantInv, TriesInv, NEW j \in Jobs, JobStep(j)
    PROVE  /\ \A u \in Tx : Falls(u)
           /\ \/ \E t \in Tx : Budget(t)' # Budget(t)
              \/ /\ pc' = pc /\ peers' = peers /\ want' = want
                 /\ \E k \in Jobs : job[k] = "active" /\ job' = [job EXCEPT ![k] = "failed"]
              \/ /\ pc' = pc /\ job' = job
                 /\ \E k \in Jobs : \E d \in peers[k] :
                        /\ peers' = [peers EXCEPT ![k] = @ \ {d}]
                        /\ \A t \in Tx \ {k} : want'[t] = want[t]
              \/ /\ pc' = pc /\ job' = job /\ peers' = peers
                 /\ \E k \in Jobs : \E d \in peers[k] :
                        want[k] = None /\ want' = [want EXCEPT ![k] = d]
<1>0. j \in Tx
  BY Kinds
<1> DEFINE Fallen == (\A u \in Tx : Falls(u)) /\ Budget(j)' # Budget(j)
           Stays == pc' = pc /\ UNCHANGED tries
<1>1. Stays => \A u \in Tx : Falls(u)
  BY FallsAlone
<1>2. CASE ResolveScope(j) \/ LockDocument(j) \/ ReplaceAttributes(j) \/ ReadPeers(j)
           \/ Linked(j) \/ RejectCompletion(j) \/ CommitCompletion(j)
  <2>1. UNCHANGED tries /\ \E p : At(j, p) /\ Rank(p) < Rank(pc[j])
    BY <1>2 DEF ResolveScope, LockDocument, ReplaceAttributes, ReadPeers, Linked,
       RejectCompletion, CommitCompletion, Runs, life, Rank
  <2> QED
    BY <1>0, <2>1, StatementFalls
<1>3. CASE CreateJob(j)
  <2>1. UNCHANGED tries /\ (At(j, "closed") \/ At(j, "parsed")) /\ pc[j] = "resolved"
    BY <1>3 DEF CreateJob
  <2>2. Rank("closed") < Rank("resolved") /\ Rank("parsed") < Rank("resolved")
    BY DEF Rank
  <2> QED
    BY <1>0, <2>1, <2>2, StatementFalls
<1>4. CASE FailJob(j)
  BY <1>1, <1>4 DEF FailJob, local
<1>5. CASE BeginPublication(j)
  <2>1. PICK p \in {"ready", "empty"} : At(j, p)
    BY <1>5 DEF BeginPublication
  <2>2. /\ pc[j] = "parsed" /\ pc'[j] = p /\ Rank(pc'[j]) \in 0..9 /\ Rank(pc[j]) = 1
        /\ tries'[j] = tries[j] + 1
        /\ tries[j] \in Nat /\ MaxTries \in Nat
    BY <1>0, <1>5, <2>1, RankBound, PublicationAssumption
    DEF BeginPublication, At, TypeInv, TypeOK, Rank
  <2>3. Budget(j)' < Budget(j) /\ Budget(j)' # Budget(j)
    BY <2>2 DEF Budget
  <2>4. \A u \in Tx \ {j} : pc'[u] = pc[u] /\ (u \in Jobs => tries'[u] = tries[u])
    BY <1>0, <1>5, <2>1 DEF BeginPublication, At, TypeInv, TypeOK
  <2>5. \A u \in Tx \ {j} : Falls(u)
    BY <2>4, FallsAlone
  <2>6. Falls(j)
    BY <2>2, <2>3 DEF Falls, Budget
  <2> QED
    BY <1>0, <2>3, <2>5, <2>6
<1>6. ASSUME NEW d \in Docs, LinkPeer(j, d)
      PROVE  \/ Fallen
             \/ /\ Stays /\ job' = job /\ d \in peers[j]
                /\ peers' = [peers EXCEPT ![j] = @ \ {d}]
                /\ \A t \in Tx \ {j} : want'[t] = want[t]
             \/ /\ Stays /\ job' = job /\ peers' = peers /\ d \in peers[j]
                /\ want[j] = None /\ want' = [want EXCEPT ![j] = d]
  <2>1. pc[j] = "link" /\ d \in peers[j] /\ UNCHANGED tries /\ job' = job
    BY <1>6 DEF LinkPeer, life
  <2>2. CASE want[j] = None /\ want' = [want EXCEPT ![j] = d] /\ UNCHANGED <<put, peers, pc>>
    BY <2>1, <2>2
  <2>3. CASE At(j, "doomed")
    <3>1. Rank("doomed") < Rank("link")
      BY DEF Rank
    <3>2. Fallen
      BY <1>0, <2>1, <2>3, <3>1, StatementFalls
    <3> QED
      BY <3>2
  <2>4. CASE /\ want' = [want EXCEPT ![j] = None]
             /\ peers' = [peers EXCEPT ![j] = @ \ {d}] /\ UNCHANGED pc
    <3>1. \A t \in Tx \ {j} : want'[t] = want[t]
      BY <2>4 DEF TypeInv, TypeOK
    <3> QED
      BY <2>1, <2>4, <3>1
  <2> QED
    BY <1>6, <2>2, <2>3, <2>4 DEF LinkPeer
<1>7. CASE CommitPublication(j)
  BY <1>0, <1>7, DeletionFalls DEF CommitPublication
<1>8. CASE \E d \in Docs : LinkPeer(j, d)
  <2>1. PICK d \in Docs : LinkPeer(j, d)
    BY <1>8
  <2>2. \/ Fallen
        \/ /\ Stays /\ job' = job /\ d \in peers[j]
           /\ peers' = [peers EXCEPT ![j] = @ \ {d}]
           /\ \A t \in Tx \ {j} : want'[t] = want[t]
        \/ /\ Stays /\ job' = job /\ peers' = peers /\ d \in peers[j]
           /\ want[j] = None /\ want' = [want EXCEPT ![j] = d]
    BY <1>6, <2>1
  <2> QED
    BY <1>0, <1>1, <2>2
<1> QED
  BY <1>2, <1>3, <1>4, <1>5, <1>7, <1>8 DEF JobStep

LEMMA CostsStep ==
    ASSUME TypeInv, TypeInv', WantInv, TriesInv, TriesInv', Next
    PROVE  Costs
<1> DEFINE Fallen(t) == (\A u \in Tx : Falls(u)) /\ Budget(t)' # Budget(t)
<1>0. Jobs \subseteq Tx /\ Archivers \subseteq Tx /\ Editors \subseteq Tx
  BY Kinds
<1>1. ASSUME NEW j \in Jobs, JobStep(j) PROVE Costs
  BY <1>1, JobCosts, FallCosts
<1>2. ASSUME NEW t \in Tx, Fallen(t) PROVE Costs
  BY <1>2, FallCosts
<1>3. ASSUME NEW t \in Tx, GraphStep(t) PROVE Fallen(t)
  <2>1. UNCHANGED tries /\ \E p : At(t, p) /\ Rank(p) < Rank(pc[t])
    BY <1>3 DEF GraphStep, DropEdges, DropNode, Runs, life, Rank
  <2> QED
    BY <2>1, StatementFalls
<1>4. ASSUME NEW t \in Tx, BreakDeadlock(t) PROVE Fallen(t)
  <2>1. /\ UNCHANGED tries /\ At(t, "doomed")
        /\ pc[t] \in Blocking \cup {"link"}
    BY <1>4 DEF BreakDeadlock, WaitsFor, Blocking, life
  <2>2. Rank("doomed") < Rank(pc[t])
    BY <2>1 DEF Rank, Blocking
  <2> QED
    BY <2>1, <2>2, StatementFalls
<1>5. ASSUME NEW t \in Tx, Rollback(t) PROVE Fallen(t)
  <2>1. UNCHANGED tries /\ pc[t] = "doomed" /\ \E p \in {"parsed", "closed"} : At(t, p)
    BY <1>5 DEF Rollback
  <2>2. \A p \in {"parsed", "closed"} : Rank(p) < Rank("doomed")
    BY DEF Rank
  <2> QED
    BY <2>1, <2>2, StatementFalls
<1>6. ASSUME NEW a \in Archivers, ArchiveStep(a) PROVE Fallen(a)
  <2>1. CASE CommitArchive(a)
    BY <1>0, <2>1, DeletionFalls DEF CommitArchive
  <2>2. CASE ReadDocument(a) \/ UpdateDocument(a)
    <3>1. UNCHANGED tries /\ \E p : At(a, p) /\ Rank(p) < Rank(pc[a])
      BY <2>2 DEF ReadDocument, UpdateDocument, Runs, life, Rank
    <3> QED
      BY <1>0, <3>1, StatementFalls
  <2> QED
    BY <1>6, <2>1, <2>2 DEF ArchiveStep
<1>7. ASSUME NEW e \in Editors, EditStep(e) PROVE Fallen(e)
  <2>1. UNCHANGED tries /\ \E p : At(e, p) /\ Rank(p) < Rank(pc[e])
    BY <1>7 DEF EditStep, DeleteAttributes, AttributesDeleted, InsertAttributes,
       CommitAttributes, Runs, life, Rank
  <2> QED
    BY <1>0, <2>1, StatementFalls
<1> HIDE DEF Fallen
<1> QED
  BY <1>0, <1>1, <1>2, <1>3, <1>4, <1>5, <1>6, <1>7 DEF Next, EndStep

\* No request, and no number of them, can go on for ever: the budgets, the Jobs that may
\* still fail, the peers still to link and those not yet waiting only become fewer, in
\* that order of precedence.  With DeadlockIsFound this is the reason why every
\* transaction ends.
THEOREM StepsAreBounded == Spec => EveryStepCosts
<1>1. TypeInv /\ TypeInv' /\ WantInv /\ TriesInv /\ TriesInv' /\ [Next]_vars => [Costs]_vars
  BY CostsStep
<1> QED
  BY <1>1, TypeInit, TypeStep, WantInit, WantStep, GoesOnInit, TriesStep, PTL
  DEF Spec, EveryStepCosts
==============================================================================
