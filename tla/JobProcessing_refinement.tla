---------------------- MODULE JobProcessing_refinement ----------------------
(***************************************************************************)
(* Handlers, workers and sweepers together implement JobRow: whoever moves  *)
(* the Job, and whatever was loaded, redelivered or lost before, the        *)
(* transition was legal from one of its last MaxAttempts statuses.          *)
(***************************************************************************)
EXTENDS JobProcessing_proofs

\* A Job kept in a session is a version the row has had.
HistInv ==
    \A a \in Actor : snap[a] # None =>
        /\ snap[a].version \in 0..Version
        /\ snap[a].status = StatusAt[snap[a].version]

Legal(to) ==
    \E v \in 0..Version : Version - v < MaxAttempts /\ IsValidTransition(StatusAt[v], to)

\* What the row is now is the last of StatusAt.
LEMMA LoadedIsLast ==
  ASSUME TypeOK
  PROVE  /\ Version \in Nat /\ Loaded.version = Version
         /\ StatusAt[Version] = Status /\ Loaded.status = Status
<1>1. moves \in Seq(MoveType)
  BY DEF TypeOK, MoveType
<1>2. Version \in Nat /\ (Version = 0 <=> moves = <<>>)
  BY <1>1, LenProperties, EmptySeq DEF Version
<1>3. StatusAt[Version] = IF Version = 0 THEN "waiting-file" ELSE moves[Version].to
  BY <1>2 DEF StatusAt
<1>4. StatusAt[Version] = Status
  BY <1>2, <1>3 DEF Status, Version
<1> QED BY <1>2, <1>4 DEF Loaded

\* A transition appends to StatusAt.
LEMMA StatusAtMove ==
  ASSUME TypeOK, NEW a \in Actor, NEW to \in Statuses,
         NEW cause \in {"nothing", "unsettled", "busy", "error", "stale", "expired"},
         Move(a, to, cause)
  PROVE  /\ Version' = Version + 1
         /\ StatusAt' = [v \in 0..(Version + 1) |-> IF v <= Version THEN StatusAt[v] ELSE to]
<1>0. /\ Version' = Version + 1 /\ Version \in Nat
      /\ DOMAIN moves' = DOMAIN moves \cup {Version + 1}
      /\ \A v \in DOMAIN moves : v \in 1..Version /\ moves'[v] = moves[v]
      /\ moves'[Version + 1] = [by |-> a, to |-> to, why |-> cause]
  BY MoveGrows
<1>1. /\ Version' = Version + 1 /\ Version \in Nat
      /\ \A v \in DOMAIN moves : moves'[v] = moves[v]
      /\ moves'[Version + 1].to = to
  BY <1>0
<1>2. DOMAIN moves = 1..Version
  BY LenProperties DEF TypeOK, Version
<1>3. StatusAt' = [v \in 0..(Version + 1) |-> IF v = 0 THEN "waiting-file" ELSE moves'[v].to]
  BY <1>1 DEF StatusAt
<1>4. ASSUME NEW v \in 0..(Version + 1)
      PROVE (IF v = 0 THEN "waiting-file" ELSE moves'[v].to)
            = (IF v <= Version THEN StatusAt[v] ELSE to)
  <2>1. CASE v <= Version
    <3>1. v # 0 => moves'[v] = moves[v]
      BY <1>1, <1>2, <2>1
    <3> QED BY <1>1, <2>1, <3>1 DEF StatusAt
  <2>2. CASE ~(v <= Version)
    <3>1. v = Version + 1 /\ v # 0
      BY <1>1, <2>2
    <3> QED BY <1>1, <2>2, <3>1
  <2> QED BY <2>1, <2>2
<1> QED BY <1>1, <1>3, <1>4

\* Who commits a transition has validated it against a recent status.
LEMMA LegalStep ==
  ASSUME TInv, HistInv, [Next]_vars
  PROVE  \/ UNCHANGED moves
         \/ \E a \in Actor, to \in Statuses,
               cause \in {"nothing", "unsettled", "busy", "error", "stale", "expired"} :
               Move(a, to, cause) /\ Legal(to)
<1> DEFINE Goal == \/ UNCHANGED moves
                   \/ \E a \in Actor, to \in Statuses,
                         cause \in {"nothing", "unsettled", "busy", "error", "stale", "expired"} :
                         Move(a, to, cause) /\ Legal(to)
<1>0. /\ Version \in Nat /\ Loaded.version = Version
      /\ StatusAt[Version] = Status /\ Loaded.status = Status
  BY LoadedIsLast DEF TInv
<1>1. ASSUME NEW to, IsValidTransition(Status, to) PROVE Legal(to)
  BY <1>0, <1>1, ProcessingAssumption DEF Legal
<1>2. ASSUME NEW a \in Actor, snap[a] # None, NEW to, Swaps(snap[a], to) PROVE Legal(to)
  BY <1>2 DEF HistInv, Swaps, Legal
<1>3. ASSUME NEW to, Swaps(Loaded, to) PROVE Legal(to)
  BY <1>0, <1>1, <1>3 DEF Swaps
<1>4. ASSUME NEW h \in Handler, HandlerCommit(h) PROVE Goal
  BY <1>2, <1>4 DEF HandlerCommit, TInv, PhaseInv, Actor, Delivery, Statuses
<1>5. ASSUME NEW h \in Handler, HandlerExpire(h) PROVE Goal
  <2>1. h \in Actor /\ snap[h] # None
    BY <1>5 DEF HandlerExpire, TInv, PhaseInv, Actor, Delivery
  <2>2. PICK seen \in {snap[h], Loaded} :
           IF Swaps(seen, "failed") THEN Move(h, "failed", "expired") ELSE UNCHANGED moves
    BY <1>5 DEF HandlerExpire
  <2>3. Swaps(seen, "failed") => Legal("failed")
    BY <1>2, <1>3, <2>1, <2>2
  <2> QED BY <2>1, <2>2, <2>3 DEF Statuses
<1>6. ASSUME NEW d \in Delivery, GateStart(d) PROVE Goal
  BY <1>2, <1>6 DEF GateStart, TInv, PhaseInv, Actor, Statuses
<1>7. ASSUME NEW d \in Delivery, Finalize(d) PROVE Goal
  <2>1. Swaps(Completing(d), "done") => Legal("done")
    BY <1>2, <1>3 DEF Completing, Actor
  <2> QED BY <1>7, <2>1 DEF Finalize, Actor, Statuses, db
<1>8. ASSUME NEW d \in Delivery, OnFailure(d) PROVE Goal
  <2>1. why[d] \in {"nothing", "unsettled", "busy", "error"}
    BY DEF TInv, TypeOK
  <2> QED BY <1>1, <1>8, <2>1 DEF OnFailure, Actor, Statuses
<1>9. ASSUME NEW s \in Sweeps, SweepCommit(s) PROVE Goal
  BY <1>2, <1>9 DEF SweepCommit, TInv, PhaseInv, Actor, Statuses
<1> QED
  <2>1. ASSUME NEW h \in Handler, HandlerStep(h) PROVE Goal
    BY <1>4, <1>5, <2>1 DEF HandlerStep, HandlerLoad, HandlerDispatch, HandlerDies, db
  <2>2. ASSUME NEW d \in Delivery, Work(d) PROVE Goal
    BY <1>6, <1>7, <1>8, <2>2
    DEF Work, GateSkip, GatePass, GateLoad, Acquire, Busy, AcquireRaises,
        Upsert, Conflict, Publish, Leave,
        ParseFails, ParseRaises, OnFailureRaises, db
  <2> QED
    BY <1>9, <2>1, <2>2
    DEF Next, Crash, Redeliver, OrphanExpires, LeaseLapses, SweepLoad, SweepAborts, Quiet,
        vars, db

LEMMA HistInit == Init => HistInv
BY DEF Init, HistInv

\* What a session has loaded stays a version the row has had.
LEMMA HistStep ==
  ASSUME TInv, HistInv, [Next]_vars
  PROVE  HistInv'
<1>1. /\ Version \in Nat /\ Loaded.version = Version /\ Loaded.status = StatusAt[Version]
  BY LoadedIsLast DEF TInv
<1>2. /\ Version' \in {Version, Version + 1}
      /\ \A v \in 0..Version : StatusAt'[v] = StatusAt[v]
  <2>1. CASE UNCHANGED moves
    BY <2>1 DEF Version, StatusAt
  <2>2. ASSUME NEW a \in Actor, NEW to \in Statuses,
               NEW cause \in {"nothing", "unsettled", "busy", "error", "stale", "expired"},
               Move(a, to, cause)
        PROVE /\ Version' \in {Version, Version + 1}
              /\ \A v \in 0..Version : StatusAt'[v] = StatusAt[v]
    BY <1>1, <2>2, StatusAtMove DEF TInv
  <2> QED BY <2>1, <2>2, LegalStep
<1> SUFFICES ASSUME NEW a \in Actor, snap'[a] # None
             PROVE  /\ snap'[a].version \in 0..Version'
                    /\ snap'[a].status = StatusAt'[snap'[a].version]
  BY DEF HistInv
<1>3. CASE snap'[a] = Loaded
  BY <1>1, <1>2, <1>3
<1>4. CASE snap'[a] = snap[a]
  <2>1. snap[a].version \in 0..Version /\ snap[a].status = StatusAt[snap[a].version]
    BY <1>4 DEF HistInv
  <2> QED BY <1>1, <1>2, <1>4, <2>1
<1> QED BY <1>3, <1>4, SessionStep

\* The refinement: initial states map to JobRow's, the commit of a transition to
\* Move, every other step to a stutter.
THEOREM Refinement == Spec => RowPromise
<1>1. Init => Row!Init
  <2> SUFFICES ASSUME Init PROVE Row!Init
    OBVIOUS
  <2>1. Version = 0
    BY EmptySeq DEF Init, Version
  <2> QED BY <2>1 DEF Row!Init, StatusAt
<1>2. TInv /\ HistInv /\ [Next]_vars => [Row!Next]_(Row!rowVars)
  <2> SUFFICES ASSUME TInv, HistInv, [Next]_vars
               PROVE  Row!Next \/ UNCHANGED Row!rowVars
    OBVIOUS
  <2>1. CASE UNCHANGED moves
    BY <2>1 DEF Row!rowVars, Version, StatusAt
  <2>2. ASSUME NEW a \in Actor, NEW to \in Statuses,
               NEW cause \in {"nothing", "unsettled", "busy", "error", "stale", "expired"},
               Move(a, to, cause), Legal(to)
        PROVE  Row!Next
    <3>1. /\ Version' = Version + 1
          /\ StatusAt' = [v \in 0..(Version + 1) |-> IF v <= Version THEN StatusAt[v] ELSE to]
      BY <2>2, StatusAtMove DEF TInv
    <3>2. \E v \in 0..Version : Version - v < MaxAttempts
                                /\ Row!IsValidTransition(StatusAt[v], to)
      BY <2>2 DEF Legal, Row!IsValidTransition, IsValidTransition, Row!ValidTransitions,
         ValidTransitions, Row!TerminalStates, TerminalStates
    <3>3. Row!Move(to)
      BY <3>1, <3>2 DEF Row!Move
    <3> QED BY <3>3 DEF Row!Next, Row!Statuses, Statuses
  <2> QED BY <2>1, <2>2, LegalStep
<1>3. Spec => [](TInv /\ HistInv)
  <2>1. TInv /\ HistInv /\ [Next]_vars => TInv' /\ HistInv'
    BY TypeStep, HistStep
  <2> QED BY TypeInit, HistInit, <2>1, PTL DEF Spec
<1> QED BY <1>1, <1>2, <1>3, PTL DEF Spec, RowPromise, Row!Spec
=============================================================================
