------------------------- MODULE JobAdmission_proofs -------------------------
(***************************************************************************)
(* The overshoot of the cap on concurrent Jobs, for any requests, sweeps    *)
(* and connections.                                                         *)
(*                                                                          *)
(* The argument: a request that passes the count finds at most Max - 1      *)
(* active Jobs and is one of at most Connections that hold a connection;    *)
(* from then on it is counted among Passed until its insertion moves it     *)
(* from there to Active.  Nothing else adds to Active but a swap that takes *)
(* a Job out of a terminal status, and that one joins comeback; a loaded    *)
(* Job has a row (LoadedHasRow), so no transition makes one.                *)
(***************************************************************************)
EXTENDS JobAdmission, FiniteSetTheorems, WellFoundedInduction, TLAPS

Occupied == Active \ comeback

LoadedHasRow == \A j \in Jobs : loaded[j] # None => row[j] # "none"

IInv == TypeOK /\ LoadedHasRow /\ CapOvershootBounded

------------------------------------------------------------------------------
LEMMA Agreed == ActiveStates \subseteq Statuses /\ "none" \notin Statuses /\ Targets \subseteq Statuses
BY DEF ActiveStates, Statuses, Targets

LEMMA AgedType ==
    ASSUME NEW s \in Snapshot \cup {None}
    PROVE  Aged(s) \in Snapshot \cup {None} /\ (Aged(s) = None <=> s = None)
<1>1. CASE s = None
  BY <1>1 DEF Aged
<1>2. CASE s # None
  <2>1. s \in Snapshot
    BY <1>2
  <2>2. Aged(s) = s \/ (s.behind < MaxAttempts /\ Aged(s) = [s EXCEPT !.behind = s.behind + 1])
    BY <2>1, <1>2 DEF Aged
  <2>3. s.behind < MaxAttempts => [s EXCEPT !.behind = s.behind + 1] \in Snapshot
    BY <2>1, AdmissionAssumption DEF Snapshot
  <2>4. None \notin Snapshot
    BY AdmissionAssumption DEF Snapshot
  <2> QED
    BY <1>2, <2>1, <2>2, <2>3, <2>4
<1> QED
  BY <1>1, <1>2

LEMMA FreshType == ASSUME NEW j \in Active PROVE Fresh(j) \in Snapshot
BY Agreed, AdmissionAssumption DEF Fresh, Snapshot, Active

LEMMA TypeInit == Init => TypeOK
<1> SUFFICES ASSUME Init PROVE TypeOK
  OBVIOUS
<1>1. PICK scene \in Scenes :
          /\ rpc = [j \in Jobs |-> IF j \in scene.quiet THEN "closed" ELSE "idle"]
          /\ faults = scene.faults
  BY DEF Init
<1>2. scene.faults \in 0 .. MaxFaults
  BY AdmissionAssumption
<1> QED
  BY <1>1, <1>2 DEF Init, TypeOK

LEMMA TypeStep == TypeOK /\ [Next]_vars => TypeOK'
<1> SUFFICES ASSUME TypeOK, [Next]_vars PROVE TypeOK'
  OBVIOUS
<1> USE AdmissionAssumption
<1>1. ASSUME NEW j \in Jobs, Count(j) \/ RequestFails(j) PROVE TypeOK'
  BY <1>1 DEF TypeOK, Count, RequestFails, Request, sweep
<1>2. ASSUME NEW j \in Jobs, CreateJob(j) PROVE TypeOK'
  BY <1>2 DEF TypeOK, CreateJob, Request, sweep, Statuses
<1>3. ASSUME NEW j \in Jobs, Load(j) PROVE TypeOK'
  <2>1. Fresh(j) \in Snapshot
    BY <1>3, FreshType DEF Load
  <2> QED
    BY <1>3, <2>1 DEF TypeOK, Load, sweep
<1>4. ASSUME NEW j \in Jobs, NEW to \in Targets, Move(j, to) PROVE TypeOK'
  <2>1. row' \in [Jobs -> Statuses \cup {"none"}]
    BY <1>4, Agreed DEF TypeOK, Move
  <2>2. held' \in [Beats -> [Jobs -> Snapshot \cup {None}]]
    BY <1>4, AgedType DEF TypeOK, Move
  <2>3. loaded' \in [Jobs -> Snapshot \cup {None}] /\ comeback' \subseteq Jobs
    BY <1>4 DEF TypeOK, Move
  <2> QED
    BY <1>4, <2>1, <2>2, <2>3 DEF TypeOK, Move
<1>5. ASSUME NEW j \in Jobs, GiveUp(j) PROVE TypeOK'
  BY <1>5 DEF TypeOK, GiveUp, sweep
<1>6. CASE KeyExpires
  BY <1>6 DEF TypeOK, KeyExpires
<1>7. ASSUME NEW b \in Beats, NEW S \in SUBSET Expirable, Fire(b, S) PROVE TypeOK'
  <2>1. S \subseteq Jobs /\ \A j \in S : Fresh(j) \in Snapshot
    BY <1>7, FreshType DEF Expirable, Active
  <2>2. held' \in [Beats -> [Jobs -> Snapshot \cup {None}]]
    BY <1>7, <2>1 DEF TypeOK, Fire
  <2>3. batch' \in [Beats -> SUBSET Jobs] /\ running' \subseteq Beats
    BY <1>7, <2>1 DEF TypeOK, Fire
  <2>4. key' \in BOOLEAN
    BY <1>7, Zenon DEF TypeOK, Fire
  <2>5. faults' \in 0 .. MaxFaults
    BY <1>7 DEF TypeOK, Fire
  <2> QED
    BY <1>7, <2>2, <2>3, <2>4, <2>5 DEF TypeOK, Fire
<1>8. ASSUME NEW b \in Beats, NEW j \in Jobs, SweepJob(b, j) PROVE TypeOK'
  <2>1. /\ locked' \in [Beats -> SUBSET Jobs] /\ dirty' \in [Beats -> SUBSET Jobs]
        /\ batch' \in [Beats -> SUBSET Jobs]
    BY <1>8 DEF TypeOK, SweepJob
  <2>2. held' \in [Beats -> [Jobs -> Snapshot \cup {None}]]
    BY <1>8 DEF TypeOK, SweepJob
  <2> QED
    BY <1>8, <2>1, <2>2 DEF TypeOK, SweepJob
<1>9. ASSUME NEW b \in Beats, NEW j \in Jobs, SweepJobFails(b, j) PROVE TypeOK'
  BY <1>9 DEF TypeOK, SweepJobFails, Undo
<1>10. ASSUME NEW b \in Beats, SweepDies(b) PROVE TypeOK'
  BY <1>10 DEF TypeOK, SweepDies, Undo
<1>11. ASSUME NEW b \in Beats, SweepCommit(b) PROVE TypeOK'
  <2>1. row' \in [Jobs -> Statuses \cup {"none"}]
    BY <1>11 DEF TypeOK, SweepCommit, Statuses
  <2>2. loaded' \in [Jobs -> Snapshot \cup {None}]
    BY <1>11, AgedType DEF TypeOK, SweepCommit
  <2>3. held' \in [Beats -> [Jobs -> Snapshot \cup {None}]]
    BY <1>11, AgedType DEF TypeOK, SweepCommit
  <2>4. /\ locked' \in [Beats -> SUBSET Jobs] /\ dirty' \in [Beats -> SUBSET Jobs]
        /\ running' \subseteq Beats
    BY <1>11 DEF TypeOK, SweepCommit
  <2> QED
    BY <1>11, <2>1, <2>2, <2>3, <2>4 DEF TypeOK, SweepCommit
<1>12. CASE UNCHANGED vars
  BY <1>12 DEF TypeOK, vars, sweep
<1> QED
  BY <1>1, <1>2, <1>3, <1>4, <1>5, <1>6, <1>7, <1>8, <1>9, <1>10, <1>11, <1>12
  DEF Next, JobStep, SweepStep

\* Requests, rows and the sessions of the sweeps keep their types.
THEOREM AdmissionTypeCorrect == Spec => []TypeOK
<1> QED
  BY TypeInit, TypeStep, PTL DEF Spec

------------------------------------------------------------------------------
LEMMA RowStep == TypeOK /\ LoadedHasRow /\ [Next]_vars => LoadedHasRow'
<1> SUFFICES ASSUME TypeOK, LoadedHasRow, [Next]_vars, NEW k \in Jobs, loaded'[k] # None
             PROVE  row'[k] # "none"
  BY DEF LoadedHasRow
<1>1. CASE row' = row /\ loaded' = loaded
  BY <1>1 DEF LoadedHasRow
<1>2. ASSUME NEW j \in Jobs, CreateJob(j) PROVE row'[k] # "none"
  BY <1>2 DEF CreateJob, TypeOK, LoadedHasRow
<1>3. ASSUME NEW j \in Jobs, Load(j) PROVE row'[k] # "none"
  BY <1>3, Agreed DEF Load, TypeOK, LoadedHasRow, Active
<1>4. ASSUME NEW j \in Jobs, NEW to \in Targets, Move(j, to) PROVE row'[k] # "none"
  BY <1>4, Agreed DEF Move, TypeOK, LoadedHasRow
<1>5. ASSUME NEW j \in Jobs, GiveUp(j) PROVE row'[k] # "none"
  BY <1>5 DEF GiveUp, TypeOK, LoadedHasRow
<1>6. ASSUME NEW b \in Beats, SweepCommit(b) PROVE row'[k] # "none"
  <2>1. loaded[k] # None
    BY <1>6, AgedType DEF SweepCommit, TypeOK
  <2> QED
    BY <1>6, <2>1 DEF SweepCommit, LoadedHasRow, TypeOK
<1> QED
  BY <1>1, <1>2, <1>3, <1>4, <1>5, <1>6
  DEF Next, JobStep, SweepStep, Count, RequestFails, KeyExpires, Fire, SweepJob,
      SweepJobFails, SweepDies, Undo, vars

LEMMA Counted ==
    /\ IsFiniteSet(Active) /\ IsFiniteSet(Occupied) /\ IsFiniteSet(Passed)
    /\ Cardinality(Active) \in Nat /\ Cardinality(Occupied) \in Nat
    /\ Cardinality(Passed) \in Nat /\ Cardinality(Occupied) <= Cardinality(Active)
<1>1. Active \subseteq Jobs /\ Passed \subseteq Jobs /\ Occupied \subseteq Active
  BY DEF Active, Passed, Occupied
<1>2. IsFiniteSet(Active) /\ IsFiniteSet(Passed)
  BY <1>1, AdmissionAssumption, FS_Subset
<1> QED
  BY <1>1, <1>2, FS_Subset, FS_CardinalityType

\* Neither set grows: the sum does not.
LEMMA Shrunk ==
    ASSUME CapOvershootBounded, Occupied' \subseteq Occupied, Passed' \subseteq Passed
    PROVE  CapOvershootBounded'
<1>1. Cardinality(Occupied') \in Nat /\ Cardinality(Occupied') <= Cardinality(Occupied)
  BY Counted, FS_Subset, FS_CardinalityType
<1>2. Cardinality(Passed') \in Nat /\ Cardinality(Passed') <= Cardinality(Passed)
  BY Counted, FS_Subset, FS_CardinalityType
<1> QED
  BY <1>1, <1>2, Counted, AdmissionAssumption DEF CapOvershootBounded, Occupied

LEMMA CapInit == Init => CapOvershootBounded /\ LoadedHasRow
<1> SUFFICES ASSUME Init PROVE CapOvershootBounded /\ LoadedHasRow
  OBVIOUS
<1>1. Occupied = {} /\ Passed = {}
  BY Agreed DEF Init, Occupied, Active, Passed
<1>2. Cardinality(Active \ comeback) = 0 /\ Cardinality(Passed) = 0
  BY <1>1, Counted, FS_EmptySet DEF Occupied
<1>3. CapOvershootBounded
  BY <1>2, AdmissionAssumption DEF CapOvershootBounded
<1> QED
  BY <1>3 DEF Init, LoadedHasRow

LEMMA CapStep ==
    TypeOK /\ LoadedHasRow /\ CapOvershootBounded /\ [Next]_vars => CapOvershootBounded'
<1> SUFFICES ASSUME TypeOK, LoadedHasRow, CapOvershootBounded, [Next]_vars
             PROVE  CapOvershootBounded'
  OBVIOUS
<1>1. CASE row' = row /\ rpc' = rpc /\ comeback' = comeback
  <2>1. Occupied' = Occupied /\ Passed' = Passed
    BY <1>1 DEF Occupied, Active, Passed
  <2> QED
    BY <2>1, Shrunk
<1>2. ASSUME NEW j \in Jobs, Count(j) PROVE CapOvershootBounded'
  <2>0. Occupied' = Occupied
    BY <1>2 DEF Count, Occupied, Active
  <2>1. CASE Cardinality(Active) < Max
    <3>1. Passed' = Passed \cup {j} /\ j \notin Passed
      BY <1>2, <2>1 DEF Count, Request, Passed, TypeOK
    <3>2. Cardinality(Passed') = Cardinality(Passed) + 1
      BY <3>1, Counted, FS_AddElement
    <3>3. Cardinality(Passed) < Connections
      BY <1>2 DEF Count
    <3>4. Cardinality(Occupied) <= Max - 1 /\ Cardinality(Passed') <= Connections
      BY <2>1, <3>2, <3>3, Counted, AdmissionAssumption
    <3>5. Cardinality(Occupied') + Cardinality(Passed') <= Max - 1 + Connections
      BY <2>0, <3>2, <3>4, Counted, AdmissionAssumption
    <3> QED
      BY <3>5 DEF CapOvershootBounded, Occupied
  <2>2. CASE ~(Cardinality(Active) < Max)
    <3>1. Passed' \subseteq Passed
      BY <1>2, <2>2 DEF Count, Request, Passed, TypeOK
    <3> QED
      BY <2>0, <3>1, Shrunk
  <2> QED
    BY <2>1, <2>2
<1>3. ASSUME NEW j \in Jobs, CreateJob(j) PROVE CapOvershootBounded'
  <2>1. Passed' = Passed \ {j} /\ j \in Passed
    BY <1>3 DEF CreateJob, Request, Passed, TypeOK
  <2>2. Cardinality(Passed') = Cardinality(Passed) - 1
    BY <2>1, Counted, FS_RemoveElement
  <2>3. Occupied' \subseteq Occupied \cup {j}
    BY <1>3 DEF CreateJob, Occupied, Active, TypeOK
  <2>4. /\ IsFiniteSet(Occupied \cup {j})
        /\ Cardinality(Occupied \cup {j}) \in Nat
        /\ Cardinality(Occupied \cup {j}) <= Cardinality(Occupied) + 1
    <3>1. CASE j \in Occupied
      <4>1. Occupied \cup {j} = Occupied
        BY <3>1
      <4>2. Cardinality(Occupied) \in Nat /\ Cardinality(Occupied) <= Cardinality(Occupied) + 1
        BY Counted
      <4> QED
        BY <4>1, <4>2, Counted, Zenon
    <3>2. CASE j \notin Occupied
      <4>1. /\ IsFiniteSet(Occupied \cup {j})
            /\ Cardinality(Occupied \cup {j}) = Cardinality(Occupied) + 1
        BY <3>2, Counted, FS_AddElement
      <4> QED
        BY <4>1, Counted
    <3> QED
      BY <3>1, <3>2
  <2>5. Cardinality(Occupied') \in Nat /\ Cardinality(Occupied') <= Cardinality(Occupied) + 1
    BY <2>3, <2>4, Counted, FS_Subset, FS_CardinalityType
  <2> QED
    BY <2>2, <2>5, Counted, AdmissionAssumption DEF CapOvershootBounded, Occupied
<1>4. ASSUME NEW j \in Jobs, RequestFails(j) PROVE CapOvershootBounded'
  <2>1. Passed' \subseteq Passed /\ Occupied' = Occupied
    BY <1>4 DEF RequestFails, Request, Passed, Occupied, Active, TypeOK
  <2> QED
    BY <2>1, Shrunk
<1>5. ASSUME NEW j \in Jobs, NEW to \in Targets, Move(j, to) PROVE CapOvershootBounded'
  <2>1. Passed' = Passed
    BY <1>5 DEF Move, Passed
  <2>2. row[j] \in Statuses
    BY <1>5 DEF Move, LoadedHasRow, TypeOK
  <2>3. ASSUME NEW k \in Occupied' PROVE k \in Occupied
    BY <1>5, <2>2, <2>3 DEF Move, Occupied, Active, ActiveStates, TypeOK
  <2> QED
    BY <2>1, <2>3, Shrunk
<1>6. ASSUME NEW b \in Beats, SweepCommit(b) PROVE CapOvershootBounded'
  <2>1. Passed' = Passed
    BY <1>6 DEF SweepCommit, Passed
  <2>2. Occupied' \subseteq Occupied
    BY <1>6 DEF SweepCommit, Occupied, Active, ActiveStates, TerminalStates, TypeOK
  <2> QED
    BY <2>1, <2>2, Shrunk
<1> QED
  BY <1>1, <1>2, <1>3, <1>4, <1>5, <1>6
  DEF Next, JobStep, SweepStep, Load, GiveUp, KeyExpires, Fire, SweepJob,
      SweepJobFails, SweepDies, Undo, vars, sweep

\* Of the Jobs that have never left a terminal status, no more are active than the
\* cap and one for each database connection but the last, whatever requests count
\* and insert at once and whatever sweeps and transitions do meanwhile.
THEOREM CapCorrect == Spec => []CapOvershootBounded
<1>1. Init => IInv
  BY TypeInit, CapInit DEF IInv
<1>2. IInv /\ [Next]_vars => IInv'
  BY TypeStep, RowStep, CapStep DEF IInv
<1>3. IInv => CapOvershootBounded
  BY DEF IInv
<1> QED
  BY <1>1, <1>2, <1>3, PTL DEF Spec

------------------------------------------------------------------------------
(* Sweeps do not end up all waiting for each other unnoticed. *)

\* b's sweep has nothing left to do but to commit, or some Job that nobody else holds.
GoesOn(b) == batch[b] \ Locked # {} \/ batch[b] = {}

\* Of the sweeps that run, one goes on, or some wait in a cycle.
SweepsGoOn ==
    running # {} =>
        \/ \E b \in running : GoesOn(b)
        \/ \E S \in SUBSET running : S # {} /\ Cycle(S)

\* Only a sweep that runs holds rows, and it has done with those it holds.
SweepInv ==
    /\ \A b \in Beats : locked[b] \cup batch[b] # {} => b \in running
    /\ \A b \in Beats : locked[b] \cap batch[b] = {}

LEMMA SweepInit == Init => SweepInv
BY DEF Init, SweepInv

LEMMA SweepInvStep == TypeOK /\ SweepInv /\ [Next]_vars => SweepInv'
<1> SUFFICES ASSUME TypeOK, SweepInv, [Next]_vars PROVE SweepInv'
  OBVIOUS
<1>1. CASE UNCHANGED <<locked, batch, running>>
  BY <1>1 DEF SweepInv
<1>2. ASSUME NEW b \in Beats, NEW S \in SUBSET Expirable, Fire(b, S) PROVE SweepInv'
  <2>1. locked' = locked /\ running' = running \cup {b} /\ locked[b] = {}
    BY <1>2 DEF Fire, SweepInv
  <2>2. \A c \in Beats \ {b} : batch'[c] = batch[c]
    BY <1>2 DEF Fire, TypeOK
  <2> QED
    BY <2>1, <2>2 DEF SweepInv
<1>3. ASSUME NEW b \in Beats, NEW j \in Jobs, SweepJob(b, j) PROVE SweepInv'
  <2>1. /\ locked'[b] = locked[b] \cup {j} /\ batch'[b] = batch[b] \ {j}
        /\ j \in batch[b] /\ running' = running
    BY <1>3 DEF SweepJob, TypeOK
  <2>2. \A c \in Beats \ {b} : batch'[c] = batch[c] /\ locked'[c] = locked[c]
    BY <1>3 DEF SweepJob, TypeOK
  <2> QED
    BY <2>1, <2>2 DEF SweepInv
<1>4. ASSUME NEW b \in Beats, NEW j \in Jobs, SweepJobFails(b, j) PROVE SweepInv'
  <2>1. locked'[b] = {} /\ batch'[b] = batch[b] \ {j} /\ running' = running
    BY <1>4 DEF SweepJobFails, Undo, TypeOK
  <2>2. \A c \in Beats \ {b} : batch'[c] = batch[c] /\ locked'[c] = locked[c]
    BY <1>4 DEF SweepJobFails, Undo, TypeOK
  <2> QED
    BY <2>1, <2>2 DEF SweepInv
<1>5. ASSUME NEW b \in Beats, SweepDies(b) \/ SweepCommit(b) PROVE SweepInv'
  <2>1. locked'[b] = {} /\ batch'[b] = {} /\ running' = running \ {b}
    BY <1>5 DEF SweepDies, SweepCommit, Undo, TypeOK
  <2>2. \A c \in Beats \ {b} : batch'[c] = batch[c] /\ locked'[c] = locked[c]
    BY <1>5 DEF SweepDies, SweepCommit, Undo, TypeOK
  <2> QED
    BY <2>1, <2>2 DEF SweepInv
<1>6. CASE KeyExpires
  BY <1>1, <1>6 DEF KeyExpires
<1>7. ASSUME NEW j \in Jobs, JobStep(j) PROVE SweepInv'
  BY <1>1, <1>7
  DEF JobStep, Count, CreateJob, RequestFails, Load, Move, GiveUp, sweep
<1>8. CASE UNCHANGED vars
  BY <1>1, <1>8 DEF vars, sweep
<1> QED
  BY <1>2, <1>3, <1>4, <1>5, <1>6, <1>7, <1>8 DEF Next, SweepStep

\* Where everyone waits for another one of them, some of them wait in a cycle: the
\* smallest such set is one.
LEMMA CycleExists ==
    ASSUME IsFiniteSet(Beats), NEW W \in SUBSET Beats, W # {},
           \A b \in W : \E c \in W : Blocks(c, b)
    PROVE  \E S \in SUBSET W : S # {} /\ Cycle(S)
<1> DEFINE Stuck(S) == \A b \in S : \E c \in S : Blocks(c, b)
           All == {S \in SUBSET W : S # {} /\ Stuck(S)}
<1>1. IsWellFoundedOn(StrictSubsetOrdering(Beats), SUBSET Beats)
  BY FS_StrictSubsetOrderingWellFounded, FS_FiniteSubsetsOfFinite
<1>2. All \subseteq SUBSET Beats /\ W \in All
  OBVIOUS
<1>3. PICK S \in All : \A R \in All : <<R, S>> \notin StrictSubsetOrdering(Beats)
  <2> HIDE DEF All
  <2> QED
    BY <1>1, <1>2, WFMin
<1>4. S \in SUBSET W /\ S # {} /\ Stuck(S)
  OBVIOUS
<1> DEFINE R == {c \in S : \E b \in S : Blocks(c, b)}
<1>5. R \in All
  BY <1>4
<1>6. R = S
  <2>1. R \subseteq S /\ R \in SUBSET Beats /\ S \in SUBSET Beats
    BY <1>4
  <2>2. <<R, S>> \notin StrictSubsetOrdering(Beats)
    BY <1>3, <1>5
  <2> HIDE DEF R
  <2> QED
    BY <2>1, <2>2 DEF StrictSubsetOrdering
<1>7. Cycle(S)
  BY <1>4, <1>6 DEF Cycle
<1> QED
  BY <1>4, <1>7

LEMMA StuckIsCycle ==
    ASSUME IsFiniteSet(Beats), TypeOK, SweepInv
    PROVE  SweepsGoOn
<1> SUFFICES ASSUME running # {}, \A b \in running : ~GoesOn(b)
             PROVE  \E S \in SUBSET running : S # {} /\ Cycle(S)
  BY DEF SweepsGoOn
<1>1. running \in SUBSET Beats
  BY DEF TypeOK
<1>2. ASSUME NEW b \in running PROVE \E c \in running : Blocks(c, b)
  <2>1. PICK j : j \in batch[b] /\ j \in Locked
    BY DEF GoesOn
  <2>2. PICK c \in Beats : j \in locked[c]
    BY <2>1 DEF Locked
  <2>3. c \in running /\ c # b
    BY <1>1, <2>1, <2>2 DEF SweepInv
  <2> QED
    BY <2>1, <2>2, <2>3 DEF Blocks
<1> QED
  BY <1>1, <1>2, CycleExists

\* Sweeps lock the rows of their batches one by one, in the order of their own query,
\* and hold them to the commit: wherever none of them can go on, some wait in a cycle,
\* so that the database ends one of the waits and no sweep is stuck for ever.
THEOREM SweepsNotStuck ==
    ASSUME IsFiniteSet(Beats)
    PROVE  Spec => []SweepsGoOn
<1>1. TypeOK /\ SweepInv => SweepsGoOn
  BY StuckIsCycle
<1> QED
  BY <1>1, TypeInit, TypeStep, SweepInit, SweepInvStep, PTL DEF Spec
==============================================================================
