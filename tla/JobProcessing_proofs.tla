------------------------ MODULE JobProcessing_proofs ------------------------
(***************************************************************************)
(* What the tables agree on and when workers may meet, for any number of    *)
(* events, confirmations, redeliveries, sweepers, retries and crashes, and  *)
(* (but for the last but one theorem) whether the lease holds or not.       *)
(***************************************************************************)
EXTENDS JobProcessing, SequenceTheorems, TLAPS

MoveType == [by: Actor, to: Statuses,
             why: {"nothing", "unsettled", "busy", "error", "stale", "expired"}]

\* A handler's task exists once the handler has returned; who is about to transition
\* has the Job loaded.
PhaseInv ==
    /\ \A h \in Handler : hpc[h] # "closed" => dpc[h] = "none"
    /\ \A h \in Handler : hpc[h] = "loaded" => snap[h] # None
    /\ \A d \in Delivery : dpc[d] = "gated" => snap[d] # None
    /\ \A s \in Sweeps : spc[s] = "loaded" => snap[s] # None

TInv == TypeOK /\ PhaseInv

\* A transition makes the list of moves one longer.
LEMMA MoveGrows ==
  ASSUME TypeOK, NEW a \in Actor, NEW to \in Statuses,
         NEW cause \in {"nothing", "unsettled", "busy", "error", "stale", "expired"},
         Move(a, to, cause)
  PROVE  /\ moves' \in Seq(MoveType)
         /\ Version' = Version + 1
         /\ DOMAIN moves' = DOMAIN moves \cup {Version + 1}
         /\ \A v \in DOMAIN moves : v \in 1..Version /\ moves'[v] = moves[v]
         /\ moves'[Version + 1] = [by |-> a, to |-> to, why |-> cause]
         /\ Version \in Nat
<1> DEFINE m == [by |-> a, to |-> to, why |-> cause]
<1>1. moves \in Seq(MoveType) /\ m \in MoveType
  BY DEF TypeOK, MoveType
<1>2. moves' = Append(moves, m)
  BY DEF Move
<1> HIDE DEF m
<1>3. /\ Append(moves, m) \in Seq(MoveType)
      /\ Len(Append(moves, m)) = Len(moves) + 1
      /\ \A v \in 1..Len(moves) : Append(moves, m)[v] = moves[v]
      /\ Append(moves, m)[Len(moves) + 1] = m
  BY <1>1, AppendProperties
<1>4. Len(moves) \in Nat /\ DOMAIN moves = 1..Len(moves) /\ DOMAIN moves' = 1..(Len(moves) + 1)
  BY <1>1, <1>2, <1>3, LenProperties
<1> QED BY <1>2, <1>3, <1>4 DEF Version, m

LEMMA LoadedType ==
  ASSUME TypeOK
  PROVE  Status \in Statuses /\ Version \in Nat /\ Loaded \in [status: Statuses, version: Nat]
<1>1. moves \in Seq(MoveType)
  BY DEF TypeOK, MoveType
<1>2. Version \in Nat
  BY <1>1, LenProperties DEF Version
<1>3. CASE moves = <<>>
  BY <1>2, <1>3 DEF Status, Loaded, Statuses
<1>4. CASE moves # <<>>
  <2>1. moves[Len(moves)] \in MoveType
    BY <1>1, <1>4, EmptySeq, LenProperties
  <2> QED BY <1>2, <1>4, <2>1 DEF Status, Loaded, MoveType
<1> QED BY <1>3, <1>4

\* Moves outside, a retried or raising task keeps its types.
LEMMA RetryType ==
  ASSUME TypeOK, NEW d \in Delivery, NEW cause \in {"unsettled", "busy", "error"},
         RetryOrRaise(d, cause) \/ Raise(d, cause)
  PROVE  /\ dpc' \in [Delivery -> Phases] /\ dpc'[d] \in {"queued", "raised"}
         /\ \A e \in Delivery \ {d} : dpc'[e] = dpc[e]
         /\ tries' \in [Delivery -> 0..MaxRetries]
         /\ why' \in [Delivery -> {"nothing", "unsettled", "busy", "error"}]
<1>1. tries[d] \in 0..MaxRetries /\ MaxRetries \in Nat
  BY ProcessingAssumption DEF TypeOK
<1>2. tries[d] < MaxRetries => tries[d] + 1 \in 0..MaxRetries
  BY <1>1
<1>3. tries' \in [Delivery -> 0..MaxRetries]
  BY <1>2 DEF RetryOrRaise, Raise, TypeOK
<1>4. why' \in [Delivery -> {"nothing", "unsettled", "busy", "error"}]
  BY DEF RetryOrRaise, Raise, TypeOK
<1>5. CASE Deliver(d, "queued")
  BY <1>5, <1>3, <1>4 DEF Deliver, TypeOK, Phases
<1>6. CASE Deliver(d, "raised")
  BY <1>6, <1>3, <1>4 DEF Deliver, TypeOK, Phases, Running
<1> QED BY <1>5, <1>6 DEF RetryOrRaise, Raise

\* A session loads the Job, ends, or goes on; others are not concerned.
LEMMA SnapType ==
  ASSUME TypeOK, NEW a \in Actor, Keep(a) \/ Drop(a) \/ UNCHANGED snap
  PROVE  /\ snap' \in [Actor -> [status: Statuses, version: Nat] \cup {None}]
         /\ Keep(a) => snap'[a] # None
         /\ UNCHANGED snap => snap'[a] = snap[a]
         /\ \A b \in Actor \ {a} : snap'[b] = snap[b]
<1>1. Loaded \in [status: Statuses, version: Nat] /\ Loaded # None
  BY LoadedType, ProcessingAssumption
<1>2. snap \in [Actor -> [status: Statuses, version: Nat] \cup {None}]
  BY DEF TypeOK
<1>3. CASE Keep(a)
  BY <1>1, <1>2, <1>3 DEF Keep
<1>4. CASE Drop(a)
  BY <1>1, <1>2, <1>4 DEF Drop, Keep
<1>5. CASE UNCHANGED snap
  BY <1>1, <1>2, <1>5 DEF Keep
<1> QED BY <1>3, <1>4, <1>5

LEMMA TypeInit == Init => TInv
<1> SUFFICES ASSUME Init PROVE TInv
  OBVIOUS
<1>1. moves \in Seq(MoveType)
  BY EmptySeq DEF Init
<1>2. tries \in [Delivery -> 0..MaxRetries] /\ crashes \in 0..MaxCrashes
  BY ProcessingAssumption DEF Init
<1>3. /\ result \in Delivery \cup {None} /\ lock \in Delivery \cup {None, Orphan}
      /\ events = {}
      /\ snap \in [Actor -> [status: Statuses, version: Nat] \cup {None}]
  BY DEF Init
<1>4. /\ hpc \in [Handler -> HandlerPhases]
      /\ dpc \in [Delivery -> Phases]
      /\ why \in [Delivery -> {"nothing", "unsettled", "busy", "error"}]
      /\ spc \in [Sweeps -> {"idle", "loaded"}]
  BY DEF Init, HandlerPhases, Phases
<1>5. PhaseInv
  BY DEF Init, PhaseInv, Handler, Delivery
<1> QED BY <1>1, <1>2, <1>3, <1>4, <1>5 DEF TInv, TypeOK, MoveType

\* The types alone are not inductive: a session that transitions has loaded the Job.
LEMMA TypeStep ==
  ASSUME TInv, [Next]_vars
  PROVE  TInv'
<1> USE ProcessingAssumption DEF Handler, Delivery, Actor, db, tasks
<1>1. CASE UNCHANGED vars
  BY <1>1 DEF TInv, TypeOK, PhaseInv, vars
<1>2. ASSUME NEW h \in Handler, HandlerLoad(h) PROVE TInv'
  <2>1. /\ snap' \in [Actor -> [status: Statuses, version: Nat] \cup {None}]
        /\ Keep(h) => snap'[h] # None
        /\ UNCHANGED snap => snap'[h] = snap[h]
        /\ \A b \in Actor \ {h} : snap'[b] = snap[b]
    BY <1>2, SnapType DEF HandlerLoad, TInv
  <2>2. TypeOK'
    BY <1>2, <2>1 DEF HandlerLoad, HandlerPhases, TInv, TypeOK
  <2>3. PhaseInv'
    BY <1>2, <2>1 DEF HandlerLoad, HandlerPhases, TInv, TypeOK, PhaseInv
  <2> QED BY <2>2, <2>3 DEF TInv
<1>3. ASSUME NEW h \in Handler, HandlerCommit(h) PROVE TInv'
  <2>1. /\ snap' \in [Actor -> [status: Statuses, version: Nat] \cup {None}]
        /\ Keep(h) => snap'[h] # None
        /\ UNCHANGED snap => snap'[h] = snap[h]
        /\ \A b \in Actor \ {h} : snap'[b] = snap[b]
    BY <1>3, SnapType DEF HandlerCommit, TInv
  <2>2. moves' \in Seq(MoveType)
    <3>1. CASE Move(h, "pending", "nothing")
      BY <3>1, MoveGrows DEF TInv, Statuses
    <3>2. CASE UNCHANGED moves
      BY <3>2 DEF TInv, TypeOK, MoveType
    <3> QED BY <1>3, <3>1, <3>2 DEF HandlerCommit
  <2>3. TypeOK'
    BY <1>3, <2>1, <2>2 DEF HandlerCommit, HandlerPhases, MoveType, TInv, TypeOK
  <2>4. PhaseInv'
    <3>1. dpc[h] = "none" /\ dpc' = dpc /\ spc' = spc
      BY <1>3 DEF HandlerCommit, TInv, PhaseInv
    <3>2. \A g \in Handler \ {h} : hpc'[g] = hpc[g]
      BY <1>3 DEF HandlerCommit, TInv, TypeOK
    <3>3. hpc'[h] # "loaded"
      BY <1>3 DEF HandlerCommit, TInv, TypeOK
    <3> QED BY <2>1, <3>1, <3>2, <3>3 DEF TInv, PhaseInv
  <2> QED BY <2>3, <2>4 DEF TInv
<1>4. ASSUME NEW h \in Handler, HandlerExpire(h) PROVE TInv'
  <2>1. /\ snap' \in [Actor -> [status: Statuses, version: Nat] \cup {None}]
        /\ Keep(h) => snap'[h] # None
        /\ UNCHANGED snap => snap'[h] = snap[h]
        /\ \A b \in Actor \ {h} : snap'[b] = snap[b]
    BY <1>4, SnapType DEF HandlerExpire, TInv
  <2>2. moves' \in Seq(MoveType)
    <3>1. CASE Move(h, "failed", "expired")
      BY <3>1, MoveGrows DEF TInv, Statuses
    <3>2. CASE UNCHANGED moves
      BY <3>2 DEF TInv, TypeOK, MoveType
    <3> QED BY <1>4, <3>1, <3>2 DEF HandlerExpire
  <2>3. TypeOK'
    BY <1>4, <2>1, <2>2 DEF HandlerExpire, HandlerPhases, MoveType, TInv, TypeOK
  <2>4. PhaseInv'
    BY <1>4, <2>1, <2>2 DEF HandlerExpire, HandlerPhases, TInv, TypeOK, PhaseInv
  <2> QED BY <2>3, <2>4 DEF TInv
<1>5. ASSUME NEW h \in Handler, HandlerDispatch(h) PROVE TInv'
  BY <1>5 DEF HandlerDispatch, Deliver, HandlerPhases, Phases, TInv, TypeOK, PhaseInv
<1>6. ASSUME NEW h \in Handler, HandlerDies(h) PROVE TInv'
  <2>1. /\ snap' \in [Actor -> [status: Statuses, version: Nat] \cup {None}]
        /\ Keep(h) => snap'[h] # None
        /\ UNCHANGED snap => snap'[h] = snap[h]
        /\ \A b \in Actor \ {h} : snap'[b] = snap[b]
    BY <1>6, SnapType DEF HandlerDies, TInv
  <2>2. TypeOK'
    BY <1>6, <2>1 DEF HandlerDies, HandlerPhases, TInv, TypeOK
  <2>3. PhaseInv'
    BY <1>6, <2>1 DEF HandlerDies, HandlerPhases, TInv, TypeOK, PhaseInv
  <2> QED BY <2>2, <2>3 DEF TInv
<1>7. ASSUME NEW d \in Delivery, GateSkip(d) PROVE TInv'
  BY <1>7 DEF GateSkip, Deliver, Phases, TInv, TypeOK, PhaseInv
<1>8. ASSUME NEW d \in Delivery, GatePass(d) PROVE TInv'
  BY <1>8 DEF GatePass, Deliver, Phases, Running, TInv, TypeOK, PhaseInv
<1>9. ASSUME NEW d \in Delivery, GateLoad(d) PROVE TInv'
  <2>1. /\ snap' \in [Actor -> [status: Statuses, version: Nat] \cup {None}]
        /\ Keep(d) => snap'[d] # None
        /\ UNCHANGED snap => snap'[d] = snap[d]
        /\ \A b \in Actor \ {d} : snap'[b] = snap[b]
    BY <1>9, SnapType DEF GateLoad, TInv
  <2>2. TypeOK'
    BY <1>9, <2>1 DEF GateLoad, Deliver, Phases, Running, TInv, TypeOK
  <2>3. PhaseInv'
    BY <1>9, <2>1 DEF GateLoad, Deliver, Phases, Running, TInv, TypeOK, PhaseInv
  <2> QED BY <2>2, <2>3 DEF TInv
<1>10. ASSUME NEW d \in Delivery, GateStart(d) PROVE TInv'
  <2>1. /\ snap' \in [Actor -> [status: Statuses, version: Nat] \cup {None}]
        /\ Keep(d) => snap'[d] # None
        /\ UNCHANGED snap => snap'[d] = snap[d]
        /\ \A b \in Actor \ {d} : snap'[b] = snap[b]
    BY <1>10, SnapType DEF GateStart, TInv
  <2>2. moves' \in Seq(MoveType)
    <3>1. CASE Move(d, "running", "nothing")
      BY <3>1, MoveGrows DEF TInv, Statuses
    <3>2. CASE UNCHANGED moves
      BY <3>2 DEF TInv, TypeOK, MoveType
    <3> QED BY <1>10, <3>1, <3>2 DEF GateStart
  <2>3. /\ dpc' \in [Delivery -> Phases] /\ dpc'[d] \in {"queued", "raised", "cleared"}
        /\ \A e \in Delivery \ {d} : dpc'[e] = dpc[e]
        /\ tries' \in [Delivery -> 0..MaxRetries]
        /\ why' \in [Delivery -> {"nothing", "unsettled", "busy", "error"}]
    BY <1>10, RetryType DEF GateStart, TInv, Deliver, TypeOK, Phases, Running
  <2>4. TypeOK'
    BY <1>10, <2>1, <2>2, <2>3 DEF GateStart, Statuses, MoveType, TInv, TypeOK
  <2>5. PhaseInv'
    BY <1>10, <2>1, <2>2, <2>3 DEF GateStart, Statuses, TInv, TypeOK, PhaseInv
  <2> QED BY <2>4, <2>5 DEF TInv
<1>11. ASSUME NEW d \in Delivery, Acquire(d) PROVE TInv'
  BY <1>11 DEF Acquire, Deliver, Phases, Running, Inside, TInv, TypeOK, PhaseInv
<1>12. ASSUME NEW d \in Delivery, Busy(d) PROVE TInv'
  <2>1. /\ dpc' \in [Delivery -> Phases] /\ dpc'[d] \in {"queued", "raised", "cleared"}
        /\ \A e \in Delivery \ {d} : dpc'[e] = dpc[e]
        /\ tries' \in [Delivery -> 0..MaxRetries]
        /\ why' \in [Delivery -> {"nothing", "unsettled", "busy", "error"}]
    BY <1>12, RetryType DEF Busy, TInv
  <2> QED BY <1>12, <2>1 DEF Busy, SetUnheard, Statuses, MoveType, TInv, TypeOK, PhaseInv
<1>a. ASSUME NEW d \in Delivery, AcquireRaises(d) PROVE TInv'
  <2>1. /\ dpc' \in [Delivery -> Phases] /\ dpc'[d] \in {"queued", "raised", "cleared"}
        /\ \A e \in Delivery \ {d} : dpc'[e] = dpc[e]
        /\ tries' \in [Delivery -> 0..MaxRetries]
        /\ why' \in [Delivery -> {"nothing", "unsettled", "busy", "error"}]
    BY <1>a, RetryType DEF AcquireRaises, TInv
  <2> QED BY <1>a, <2>1 DEF AcquireRaises, SetUnheard, MoveType, TInv, TypeOK, PhaseInv
<1>13. ASSUME NEW d \in Delivery, Upsert(d) PROVE TInv'
  <2>1. /\ snap' \in [Actor -> [status: Statuses, version: Nat] \cup {None}]
        /\ Keep(d) => snap'[d] # None
        /\ UNCHANGED snap => snap'[d] = snap[d]
        /\ \A b \in Actor \ {d} : snap'[b] = snap[b]
    BY <1>13, SnapType DEF Upsert, TInv
  <2>2. TypeOK'
    BY <1>13, <2>1 DEF Upsert, Deliver, Phases, Running, Inside, TInv, TypeOK
  <2>3. PhaseInv'
    BY <1>13, <2>1 DEF Upsert, Deliver, Phases, Running, Inside, TInv, TypeOK, PhaseInv
  <2> QED BY <2>2, <2>3 DEF TInv
<1>14. ASSUME NEW d \in Delivery, Conflict(d) PROVE TInv'
  <2>1. /\ dpc' \in [Delivery -> Phases] /\ dpc'[d] \in {"queued", "raised", "cleared"}
        /\ \A e \in Delivery \ {d} : dpc'[e] = dpc[e]
        /\ tries' \in [Delivery -> 0..MaxRetries]
        /\ why' \in [Delivery -> {"nothing", "unsettled", "busy", "error"}]
    BY <1>14, RetryType DEF Conflict, TInv
  <2> QED BY <1>14, <2>1 DEF Conflict, Release, MoveType, TInv, TypeOK, PhaseInv
<1>15. ASSUME NEW d \in Delivery, Publish(d) PROVE TInv'
  <2>1. /\ snap' \in [Actor -> [status: Statuses, version: Nat] \cup {None}]
        /\ Keep(d) => snap'[d] # None
        /\ UNCHANGED snap => snap'[d] = snap[d]
        /\ \A b \in Actor \ {d} : snap'[b] = snap[b]
    BY <1>15, SnapType DEF Publish, TInv
  <2>2. TypeOK'
    BY <1>15, <2>1 DEF Publish, Deliver, Phases, Running, Inside, TInv, TypeOK
  <2>3. PhaseInv'
    BY <1>15, <2>1 DEF Publish, Deliver, Phases, Running, Inside, TInv, TypeOK, PhaseInv
  <2> QED BY <2>2, <2>3 DEF TInv
<1>16. ASSUME NEW d \in Delivery, Finalize(d) PROVE TInv'
  <2>1. /\ snap' \in [Actor -> [status: Statuses, version: Nat] \cup {None}]
        /\ Keep(d) => snap'[d] # None
        /\ UNCHANGED snap => snap'[d] = snap[d]
        /\ \A b \in Actor \ {d} : snap'[b] = snap[b]
    BY <1>16, SnapType DEF Finalize, TInv
  <2>2. events' \subseteq [kind: {"completed", "failed"}, version: Nat \ {0}]
    <3>1. Version \in Nat
      BY LoadedType DEF TInv
    <3> QED BY <1>16, <3>1 DEF Finalize, Event, TInv, TypeOK
  <2>3. moves' \in Seq(MoveType)
    <3>1. CASE Move(d, "done", "nothing")
      BY <3>1, MoveGrows DEF TInv, Statuses
    <3>2. CASE UNCHANGED moves
      BY <3>2 DEF TInv, TypeOK, MoveType
    <3> QED BY <1>16, <3>1, <3>2 DEF Finalize
  <2>4. TypeOK'
    BY <1>16, <2>1, <2>2, <2>3 DEF Finalize, Deliver, Phases, Running, Inside, MoveType, TInv, TypeOK
  <2>5. PhaseInv'
    BY <1>16, <2>1, <2>2, <2>3 DEF Finalize, Deliver, Phases, Running, Inside, TInv, TypeOK, PhaseInv
  <2> QED BY <2>4, <2>5 DEF TInv
<1>17. ASSUME NEW d \in Delivery, Leave(d) PROVE TInv'
  BY <1>17 DEF Leave, Release, Deliver, Phases, Running, Inside, TInv, TypeOK, PhaseInv
<1>18. ASSUME NEW d \in Delivery, ParseFails(d) PROVE TInv'
  <2>1. /\ dpc' \in [Delivery -> Phases] /\ dpc'[d] \in {"queued", "raised", "cleared"}
        /\ \A e \in Delivery \ {d} : dpc'[e] = dpc[e]
        /\ tries' \in [Delivery -> 0..MaxRetries]
        /\ why' \in [Delivery -> {"nothing", "unsettled", "busy", "error"}]
    BY <1>18, RetryType DEF ParseFails, TInv
  <2> QED BY <1>18, <2>1 DEF ParseFails, Release, MoveType, TInv, TypeOK, PhaseInv
<1>19. ASSUME NEW d \in Delivery, ParseRaises(d) PROVE TInv'
  <2>1. /\ snap' \in [Actor -> [status: Statuses, version: Nat] \cup {None}]
        /\ Keep(d) => snap'[d] # None
        /\ UNCHANGED snap => snap'[d] = snap[d]
        /\ \A b \in Actor \ {d} : snap'[b] = snap[b]
    BY <1>19, SnapType DEF ParseRaises, TInv
  <2>2. /\ dpc' \in [Delivery -> Phases] /\ dpc'[d] \in {"queued", "raised", "cleared"}
        /\ \A e \in Delivery \ {d} : dpc'[e] = dpc[e]
        /\ tries' \in [Delivery -> 0..MaxRetries]
        /\ why' \in [Delivery -> {"nothing", "unsettled", "busy", "error"}]
    BY <1>19, RetryType DEF ParseRaises, TInv
  <2>5. lock' \in {lock, None, Orphan}
    BY <1>19 DEF ParseRaises, Release
  <2>3. TypeOK'
    BY <1>19, <2>1, <2>2, <2>5 DEF ParseRaises, Drop, MoveType, TInv, TypeOK
  <2>4. PhaseInv'
    BY <1>19, <2>1, <2>2 DEF ParseRaises, TInv, TypeOK, PhaseInv
  <2> QED BY <2>3, <2>4 DEF TInv
<1>20. ASSUME NEW d \in Delivery, OnFailure(d) PROVE TInv'
  <2>1. events' \subseteq [kind: {"completed", "failed"}, version: Nat \ {0}]
    <3>1. Version \in Nat
      BY LoadedType DEF TInv
    <3> QED BY <1>20, <3>1 DEF OnFailure, Event, TInv, TypeOK
  <2>2. why[d] \in {"nothing", "unsettled", "busy", "error"}
    BY DEF TInv, TypeOK
  <2>3. moves' \in Seq(MoveType)
    <3>1. CASE Move(d, "failed", why[d])
      BY <2>2, <3>1, MoveGrows DEF TInv, Statuses
    <3>2. CASE UNCHANGED moves
      BY <3>2 DEF TInv, TypeOK, MoveType
    <3> QED BY <1>20, <3>1, <3>2 DEF OnFailure
  <2> QED BY <1>20, <2>1, <2>3 DEF OnFailure, Deliver, Phases, Running, MoveType, TInv, TypeOK, PhaseInv
<1>21. ASSUME NEW d \in Delivery, OnFailureRaises(d) PROVE TInv'
  BY <1>21 DEF OnFailureRaises, Deliver, Phases, Running, TInv, TypeOK, PhaseInv
<1>22. ASSUME NEW d \in Delivery, Crash(d) PROVE TInv'
  <2>1. /\ snap' \in [Actor -> [status: Statuses, version: Nat] \cup {None}]
        /\ Keep(d) => snap'[d] # None
        /\ UNCHANGED snap => snap'[d] = snap[d]
        /\ \A b \in Actor \ {d} : snap'[b] = snap[b]
    BY <1>22, SnapType DEF Crash, TInv
  <2>2. TypeOK'
    BY <1>22, <2>1 DEF Crash, Deliver, Phases, Running, Inside, TInv, TypeOK
  <2>3. PhaseInv'
    BY <1>22, <2>1 DEF Crash, Deliver, Phases, Running, Inside, TInv, TypeOK, PhaseInv
  <2> QED BY <2>2, <2>3 DEF TInv
<1>23. ASSUME NEW d \in Delivery, NEW e \in Redeliveries, Redeliver(d, e) PROVE TInv'
  BY <1>23 DEF Redeliver, Deliver, Phases, Running, TInv, TypeOK, PhaseInv
<1>24. CASE OrphanExpires \/ LeaseLapses
  BY <1>24 DEF OrphanExpires, LeaseLapses, TInv, TypeOK, PhaseInv
<1>25. ASSUME NEW s \in Sweeps, SweepLoad(s) \/ SweepAborts(s) PROVE TInv'
  <2>1. /\ snap' \in [Actor -> [status: Statuses, version: Nat] \cup {None}]
        /\ Keep(s) => snap'[s] # None
        /\ \A b \in Actor \ {s} : snap'[b] = snap[b]
    BY <1>25, SnapType DEF SweepLoad, SweepAborts, SweepCommit, TInv
  <2>2. TypeOK'
    BY <1>25, <2>1 DEF SweepLoad, SweepAborts, TInv, TypeOK
  <2>3. \A d \in Delivery : snap'[d] = snap[d] /\ dpc'[d] = dpc[d]
    BY <1>25, <2>1 DEF SweepLoad, SweepAborts
  <2>4. \A r \in Sweeps : spc'[r] = "loaded" => snap'[r] # None
    BY <1>25, <2>1 DEF SweepLoad, SweepAborts, TInv, TypeOK, PhaseInv
  <2>5. PhaseInv'
    BY <1>25, <2>3, <2>4 DEF SweepLoad, SweepAborts, TInv, PhaseInv
  <2> QED BY <2>2, <2>5 DEF TInv
<1>26. ASSUME NEW s \in Sweeps, SweepCommit(s) PROVE TInv'
  <2>1. /\ snap' \in [Actor -> [status: Statuses, version: Nat] \cup {None}]
        /\ Keep(s) => snap'[s] # None
        /\ \A b \in Actor \ {s} : snap'[b] = snap[b]
    BY <1>26, SnapType DEF SweepLoad, SweepAborts, SweepCommit, TInv
  <2>2. moves' \in Seq(MoveType)
    <3>1. CASE Move(s, "failed", "stale")
      BY <3>1, MoveGrows DEF TInv, Statuses
    <3>2. CASE UNCHANGED moves
      BY <3>2 DEF TInv, TypeOK, MoveType
    <3> QED BY <1>26, <3>1, <3>2 DEF SweepCommit
  <2>3. TypeOK'
    BY <1>26, <2>1, <2>2 DEF SweepCommit, MoveType, TInv, TypeOK
  <2>4. PhaseInv'
    BY <1>26, <2>1, <2>2 DEF SweepCommit, TInv, TypeOK, PhaseInv
  <2> QED BY <2>3, <2>4 DEF TInv
<1>27. CASE Quiet
  BY <1>27, <1>1 DEF Quiet
<1> QED
  BY <1>1, <1>2, <1>3, <1>4, <1>5, <1>6, <1>7, <1>8, <1>9, <1>10, <1>11, <1>12, <1>a, <1>13, <1>14, <1>15, <1>16, <1>17, <1>18, <1>19, <1>20, <1>21, <1>22, <1>23, <1>24, <1>25, <1>26, <1>27 DEF Next, HandlerStep, Work

\* Every variable keeps its type in every reachable state, and no session transitions
\* a Job that it has not loaded.
THEOREM ProcessingTypeCorrect == Spec => [](TypeOK /\ PhaseInv)
<1>1. TInv /\ [Next]_vars => TInv'
  BY TypeStep
<1>2. Spec => []TInv
  BY TypeInit, <1>1, PTL DEF Spec
<1> QED BY <1>2 DEF TInv

-----------------------------------------------------------------------------
\* What a step may do to the database: move the Job without a word (handlers, the
\* sweeper, the start), complete it, or fail it for a delivery.
QuietMove == \E a \in Actor, to \in {"pending", "running", "failed"},
                cause \in {"nothing", "stale", "expired"} :
    /\ Move(a, to, cause) /\ UNCHANGED <<result, events>>
    /\ a \in Delivery /\ to = "failed" => cause = "expired"

Completion(d) == Move(d, "done", "nothing") /\ result' = d /\ Event("completed")

Failure(d, cause) == Move(d, "failed", cause) /\ UNCHANGED result /\ Event("failed")

Reasons == {"nothing", "unsettled", "busy", "error"}

LEMMA DbStep ==
  ASSUME TInv, [Next]_vars
  PROVE  \/ UNCHANGED db
         \/ QuietMove
         \/ \E d \in Delivery : Completion(d)
         \/ \E d \in Delivery, cause \in Reasons : Failure(d, cause)
<1> DEFINE Goal == \/ UNCHANGED db
                   \/ QuietMove
                   \/ \E d \in Delivery : Completion(d)
                   \/ \E d \in Delivery, cause \in Reasons : Failure(d, cause)
<1>1. ASSUME NEW h \in Handler, HandlerCommit(h) PROVE Goal
  BY <1>1 DEF HandlerCommit, QuietMove, Actor, Delivery, Statuses, db
<1>2. ASSUME NEW h \in Handler, HandlerExpire(h) PROVE Goal
  BY <1>2 DEF HandlerExpire, QuietMove, Actor, Delivery, Statuses, db
<1>3. ASSUME NEW d \in Delivery, GateStart(d) PROVE Goal
  BY <1>3 DEF GateStart, QuietMove, Actor, Statuses, db
<1>4. ASSUME NEW d \in Delivery, Finalize(d) PROVE Goal
  BY <1>4 DEF Finalize, Completion, db
<1>5. ASSUME NEW d \in Delivery, OnFailure(d) PROVE Goal
  <2>1. why[d] \in Reasons
    BY DEF TInv, TypeOK, Reasons
  <2> QED BY <1>5, <2>1 DEF OnFailure, Failure, db
<1>6. ASSUME NEW s \in Sweeps, SweepCommit(s) PROVE Goal
  BY <1>6, ProcessingAssumption DEF SweepCommit, QuietMove, Actor, Statuses, db
<1>7. CASE UNCHANGED db
  BY <1>7
<1>8. ASSUME NEW h \in Handler, HandlerStep(h) PROVE Goal
  BY <1>1, <1>2, <1>7, <1>8 DEF HandlerStep, HandlerLoad, HandlerDispatch, HandlerDies
<1>9. ASSUME NEW d \in Delivery, Work(d) PROVE Goal
  BY <1>3, <1>4, <1>5, <1>7, <1>9
  DEF Work, GateSkip, GatePass, GateLoad, Acquire, Busy, AcquireRaises,
      Upsert, Conflict, Publish, Leave,
      ParseFails, ParseRaises, OnFailureRaises
<1> QED
  BY <1>6, <1>7, <1>8, <1>9
  DEF Next, Crash, Redeliver, OrphanExpires, LeaseLapses, SweepLoad, SweepAborts, Quiet,
      vars, db

\* The moves that the outbox announces.
Announces(m) == m.by \in Delivery /\ m.to \in TerminalStates /\ m.why # "expired"
Kind(m) == IF m.to = "done" THEN "completed" ELSE "failed"
Outbox == {[kind |-> Kind(moves[v]), version |-> v] : v \in {w \in DOMAIN moves : Announces(moves[w])}}

LEMMA OutboxIs == OutboxMatchesMoves <=> events = Outbox
BY DEF OutboxMatchesMoves, Outbox, Announces, Kind

\* A move adds its own event to the outbox, or none.
LEMMA OutboxGrows ==
  ASSUME TInv, NEW a \in Actor, NEW to \in Statuses,
         NEW cause \in Reasons \cup {"stale", "expired"}, Move(a, to, cause)
  PROVE  LET m == [by |-> a, to |-> to, why |-> cause] IN
         Outbox' = Outbox \cup (IF Announces(m)
                                THEN {[kind |-> Kind(m), version |-> Version + 1]} ELSE {})
<1> DEFINE m == [by |-> a, to |-> to, why |-> cause]
           new == [kind |-> Kind(m), version |-> Version + 1]
           All == {w \in DOMAIN moves : Announces(moves[w])}
           Later == {w \in DOMAIN moves' : Announces(moves'[w])}
<1>1. /\ DOMAIN moves' = DOMAIN moves \cup {Version + 1}
      /\ \A v \in DOMAIN moves : v \in 1..Version /\ moves'[v] = moves[v]
      /\ moves'[Version + 1] = m /\ Version \in Nat
  BY MoveGrows DEF TInv, Reasons
<1> HIDE DEF m
<1>2. Later = All \cup (IF Announces(m) THEN {Version + 1} ELSE {})
  BY <1>1
<1>3. Outbox' = {[kind |-> Kind(moves'[v]), version |-> v] : v \in Later}
  BY DEF Outbox, Announces, Kind
<1>4. \A v \in All : Kind(moves'[v]) = Kind(moves[v])
  BY <1>1
<1>5. Outbox = {[kind |-> Kind(moves'[v]), version |-> v] : v \in All}
  BY <1>4 DEF Outbox
<1>6. [kind |-> Kind(moves'[Version + 1]), version |-> Version + 1] = new
  BY <1>1
<1> DEFINE E(v) == [kind |-> Kind(moves'[v]), version |-> v]
<1>7. Outbox = {E(v) : v \in All} /\ Outbox' = {E(v) : v \in Later} /\ E(Version + 1) = new
  BY <1>3, <1>5, <1>6
<1> HIDE DEF E, All, Later, new
<1>8. Announces(m) => Outbox' = Outbox \cup {new}
  <2> SUFFICES ASSUME Announces(m) PROVE Outbox' = Outbox \cup {new}
    OBVIOUS
  <2>1. Later = All \cup {Version + 1}
    BY <1>2
  <2>2. {E(v) : v \in Later} = {E(v) : v \in All} \cup {E(Version + 1)}
    BY <2>1
  <2> QED BY <1>7, <2>2
<1>9. ~Announces(m) => Outbox' = Outbox
  <2>1. ~Announces(m) => Later = All
    BY <1>2
  <2> QED BY <1>7, <2>1
<1> QED BY <1>8, <1>9 DEF m, new

LEMMA OutboxStep ==
  ASSUME TInv, OutboxMatchesMoves, [Next]_vars
  PROVE  OutboxMatchesMoves'
<1> SUFFICES events' = Outbox'
  BY DEF OutboxMatchesMoves, Outbox, Announces, Kind
<1>0. events = Outbox
  BY OutboxIs
<1>1. CASE UNCHANGED db
  BY <1>0, <1>1 DEF Outbox, db
<1>2. CASE QuietMove
  <2>1. PICK a \in Actor, to \in {"pending", "running", "failed"},
             cause \in {"nothing", "stale", "expired"} :
           /\ Move(a, to, cause) /\ UNCHANGED <<result, events>>
           /\ a \in Delivery /\ to = "failed" => cause = "expired"
    BY <1>2 DEF QuietMove
  <2>2. ~Announces([by |-> a, to |-> to, why |-> cause])
    BY <2>1 DEF Announces, TerminalStates
  <2>3. to \in Statuses /\ cause \in Reasons \cup {"stale", "expired"}
    BY DEF Statuses, Reasons
  <2> QED BY <1>0, <2>1, <2>2, <2>3, OutboxGrows
<1>3. ASSUME NEW d \in Delivery, Completion(d) PROVE events' = Outbox'
  <2>1. Announces([by |-> d, to |-> "done", why |-> "nothing"])
    BY DEF Announces, TerminalStates
  <2> QED BY <1>0, <1>3, <2>1, OutboxGrows DEF Completion, Event, Kind, Reasons, Actor, Statuses
<1>4. ASSUME NEW d \in Delivery, NEW cause \in Reasons, Failure(d, cause) PROVE events' = Outbox'
  <2>1. Announces([by |-> d, to |-> "failed", why |-> cause])
    BY DEF Announces, TerminalStates, Reasons
  <2> QED BY <1>0, <1>4, <2>1, OutboxGrows DEF Failure, Event, Kind, Reasons, Actor, Statuses
<1> QED BY <1>1, <1>2, <1>3, <1>4, DbStep

\* Only a completion writes the result, and the later of two completions wins.
LEMMA ResultStep ==
  ASSUME TInv, ResultOfLastCompletion, [Next]_vars
  PROVE  ResultOfLastCompletion'
<1>1. CASE UNCHANGED db
  BY <1>1 DEF ResultOfLastCompletion, Completions, db
<1>2. ASSUME NEW a \in Actor, NEW to \in Statuses \ {"done"},
             NEW cause \in Reasons \cup {"stale", "expired"}, Move(a, to, cause), UNCHANGED result
      PROVE  ResultOfLastCompletion'
  <2>1. /\ DOMAIN moves' = DOMAIN moves \cup {Version + 1}
        /\ \A v \in DOMAIN moves : moves'[v] = moves[v]
        /\ moves'[Version + 1] = [by |-> a, to |-> to, why |-> cause]
    BY <1>2, MoveGrows DEF TInv, Reasons
  <2>2. Completions' = Completions
    BY <2>1 DEF Completions
  <2>3. \A v \in Completions : moves'[v] = moves[v]
    BY <2>1 DEF Completions
  <2> QED BY <1>2, <2>2, <2>3 DEF ResultOfLastCompletion
<1>3. ASSUME NEW d \in Delivery, Completion(d) PROVE ResultOfLastCompletion'
  <2>1. /\ DOMAIN moves' = DOMAIN moves \cup {Version + 1}
        /\ \A v \in DOMAIN moves : v \in 1..Version
        /\ moves'[Version + 1] = [by |-> d, to |-> "done", why |-> "nothing"]
        /\ Version \in Nat
    BY <1>3, MoveGrows DEF TInv, Completion, Actor, Statuses
  <2>2. Version + 1 \in Completions' /\ \A w \in Completions' : w <= Version + 1
    BY <2>1 DEF Completions
  <2>3. result' = moves'[Version + 1].by
    BY <1>3, <2>1 DEF Completion
  <2> QED BY <2>2, <2>3 DEF ResultOfLastCompletion
<1> QED
  BY <1>1, <1>2, <1>3, DbStep DEF QuietMove, Failure, Actor, Statuses, Reasons

LEMMA TablesInit == Init => OutboxMatchesMoves /\ ResultOfLastCompletion
BY DEF Init, OutboxMatchesMoves, ResultOfLastCompletion, Completions

LEMMA Invariance == Spec => [](TInv /\ OutboxMatchesMoves /\ ResultOfLastCompletion)
<1> DEFINE IInv == TInv /\ OutboxMatchesMoves /\ ResultOfLastCompletion
<1>1. IInv /\ [Next]_vars => IInv'
  BY TypeStep, OutboxStep, ResultStep
<1> QED BY TypeInit, TablesInit, <1>1, PTL DEF Spec

\* A worker's terminal transition and its webhook event are always committed
\* together, one event for one transition.
THEOREM OutboxCorrect == Spec => []OutboxMatchesMoves
BY Invariance, PTL

\* The committed result is that of the last completion, and there is one as soon as
\* the Job has been done once.
THEOREM ResultCorrect == Spec => []ResultOfLastCompletion
BY Invariance, PTL
-----------------------------------------------------------------------------
(* Who meets the Job when: tasks and the lease.                              *)

\* What a handler or a delivery leaves of the others, and of the lock.
LEMMA WorkIsLocal ==
  ASSUME TInv, NEW d \in Delivery, Work(d) \/ Crash(d)
  PROVE  /\ \A e \in Delivery \ {d} : dpc'[e] = dpc[e]
         /\ dpc[d] # "none" /\ hpc' = hpc
         /\ lock' # lock => lock \in {None, d}
         /\ lock = d /\ dpc'[d] \in Inside => lock' = d
         /\ dpc'[d] \in Inside => dpc[d] \in Inside \/ (dpc[d] = "cleared" /\ lock' = d)
         /\ dpc'[d] = "inserting" => result = None /\ result' = result
<1> USE DEF TInv, TypeOK, Deliver, Inside, Release
<1>1. CASE GateSkip(d) \/ GatePass(d) \/ GateLoad(d)
  BY <1>1 DEF GateSkip, GatePass, GateLoad
<1>2. CASE GateStart(d)
  BY <1>2, RetryType DEF GateStart
<1>3. CASE Acquire(d)
  BY <1>3 DEF Acquire
<1>4. CASE Busy(d) \/ AcquireRaises(d)
  BY <1>4, RetryType DEF Busy, AcquireRaises, SetUnheard
<1>5. CASE Upsert(d)
  BY <1>5 DEF Upsert, db
<1>6. CASE Conflict(d)
  BY <1>6, RetryType DEF Conflict
<1>7. CASE Publish(d)
  BY <1>7 DEF Publish
<1>8. CASE Finalize(d)
  BY <1>8 DEF Finalize
<1>9. CASE Leave(d) \/ OnFailure(d) \/ OnFailureRaises(d)
  BY <1>9 DEF Leave, OnFailure, OnFailureRaises
<1>10. CASE ParseFails(d)
  BY <1>10, RetryType DEF ParseFails
<1>11. CASE ParseRaises(d)
  BY <1>11, RetryType DEF ParseRaises
<1>12. CASE Crash(d)
  BY <1>12 DEF Crash, Running
<1> QED
  BY <1>1, <1>2, <1>3, <1>4, <1>5, <1>6, <1>7, <1>8, <1>9, <1>10, <1>11, <1>12 DEF Work

\* The lease admits one delivery at a time, as long as it cannot lapse; a delivery
\* that is to insert has the Job's results for itself.
HeldInv ==
    /\ \A d \in Delivery : dpc[d] \in Inside => lock = d
    /\ NoConflict

LEMMA HeldStep ==
  ASSUME LeaseHolds, TInv, HeldInv, [Next]_vars
  PROVE  HeldInv'
<1> USE ProcessingAssumption DEF Delivery
<1>1. ASSUME NEW d \in Delivery, Work(d) \/ Crash(d) PROVE HeldInv'
  <2>1. /\ \A e \in Delivery \ {d} : dpc'[e] = dpc[e]
        /\ lock' # lock => lock \in {None, d}
        /\ lock = d /\ dpc'[d] \in Inside => lock' = d
        /\ dpc'[d] \in Inside => dpc[d] \in Inside \/ (dpc[d] = "cleared" /\ lock' = d)
        /\ dpc'[d] = "inserting" => result = None /\ result' = result
    BY <1>1, WorkIsLocal
  <2>2. \A e \in Delivery : dpc'[e] \in Inside => lock' = e
    BY <2>1 DEF HeldInv
  <2>3. \A e \in Delivery \ {d} : dpc'[e] = "inserting" => result' = None
    <3> SUFFICES ASSUME NEW e \in Delivery \ {d}, dpc'[e] = "inserting" PROVE result' = None
      OBVIOUS
    <3>1. lock = e /\ result = None
      BY <2>1 DEF HeldInv, NoConflict, Inside
    <3>2. ~Finalize(d)
      BY <3>1 DEF HeldInv, Finalize, Inside
    <3> QED BY <1>1, <3>1, <3>2 DEF Work, GateSkip, GatePass, GateLoad, GateStart, Acquire,
         Busy, AcquireRaises,
         Upsert, Conflict, Publish, Leave, ParseFails, ParseRaises, OnFailure,
         OnFailureRaises, Crash, db
  <2> QED BY <2>1, <2>2, <2>3 DEF HeldInv, NoConflict
<1>2. ASSUME NEW h \in Handler, HandlerStep(h) PROVE HeldInv'
  <2>1. lock' = lock /\ result' = result /\ (dpc' = dpc \/ dpc' = [dpc EXCEPT ![h] = "queued"])
    BY <1>2 DEF HandlerStep, HandlerLoad, HandlerCommit, HandlerExpire, HandlerDispatch,
       HandlerDies, Deliver, db, tasks
  <2> QED BY <2>1 DEF HeldInv, NoConflict, Inside, TInv, TypeOK
<1>3. ASSUME NEW d \in Delivery, NEW e \in Redeliveries, Redeliver(d, e) PROVE HeldInv'
  BY <1>3 DEF Redeliver, Deliver, HeldInv, NoConflict, Inside, TInv, TypeOK, db
<1>4. ASSUME NEW s \in Sweeps, SweepLoad(s) \/ SweepCommit(s) \/ SweepAborts(s) PROVE HeldInv'
  BY <1>4 DEF SweepLoad, SweepCommit, SweepAborts, HeldInv, NoConflict, db, tasks
<1>5. CASE OrphanExpires
  BY <1>5 DEF OrphanExpires, HeldInv, NoConflict, db, tasks
<1>6. CASE LeaseLapses
  BY <1>6 DEF LeaseLapses
<1>7. CASE UNCHANGED vars
  BY <1>7 DEF HeldInv, NoConflict, vars, db, tasks
<1> QED BY <1>1, <1>2, <1>3, <1>4, <1>5, <1>6, <1>7 DEF Next, Quiet

\* A lease that holds keeps two deliveries from inserting the Job's first result,
\* however often a task is redelivered or its workers die.
THEOREM ConflictCorrect == LeaseHolds /\ Spec => []NoConflict
<1>1. Init => HeldInv
  BY DEF Init, HeldInv, NoConflict, Inside
<1>2. LeaseHolds /\ TInv /\ HeldInv /\ [Next]_vars => HeldInv'
  BY HeldStep
<1>3. HeldInv => NoConflict
  BY DEF HeldInv
<1>4. CASE LeaseHolds
  <2>1. TInv /\ HeldInv /\ [Next]_vars => HeldInv'
    BY <1>2, <1>4
  <2> QED BY <1>1, <1>3, <2>1, Invariance, PTL DEF Spec
<1>5. CASE ~LeaseHolds
  BY <1>5
<1> QED BY <1>4, <1>5

\* Working under the lease is what JobLease allows: a delivery comes in only where there
\* is no key, and while it is in nothing frees the key.
LEMMA LeaseRefines ==
  ASSUME LeaseHolds, TInv, HeldInv, [Next]_vars
  PROVE  Lease!Next \/ UNCHANGED Lease!leaseVars
<1> DEFINE In == {d \in Delivery : dpc[d] \in Inside}
           free == lock = None
<1> USE ProcessingAssumption DEF Delivery
<1> SUFFICES \/ UNCHANGED free /\ In' = In
             \/ free /\ ~free' /\ In' = In
             \/ In = {} /\ ~free /\ free' /\ In' = In
             \/ \E d \in Delivery : free /\ ~free' /\ In' = In \cup {d}
             \/ \E d \in Delivery : d \in In /\ In' = In \ {d}
  BY DEF Lease!Next, Lease!leaseVars, Lease!Spoil, Lease!Expire, Lease!Enter, Lease!Leave
<1>1. ASSUME NEW d \in Delivery, Work(d) \/ Crash(d)
      PROVE  \/ UNCHANGED free /\ In' = In
             \/ free /\ ~free' /\ (In' = In \/ In' = In \cup {d})
             \/ d \in In /\ In' = In \ {d}
  <2>1. /\ \A e \in Delivery \ {d} : dpc'[e] = dpc[e]
        /\ lock' # lock => lock \in {None, d}
        /\ lock = d /\ dpc'[d] \in Inside => lock' = d
        /\ dpc'[d] \in Inside => dpc[d] \in Inside \/ (dpc[d] = "cleared" /\ lock' = d)
    BY <1>1, WorkIsLocal
  <2>2. CASE dpc[d] \in Inside
    <3>1. lock = d
      BY <2>2 DEF HeldInv
    <3>2. CASE dpc'[d] \in Inside
      BY <2>1, <2>2, <3>1, <3>2
    <3>3. CASE dpc'[d] \notin Inside
      BY <2>1, <2>2, <3>3
    <3> QED BY <3>2, <3>3
  <2>3. CASE dpc[d] \notin Inside /\ dpc'[d] \in Inside
    <3>1. Acquire(d)
      BY <1>1, <2>1, <2>3 DEF Work, GateSkip, GatePass, GateLoad, GateStart,
         Busy, AcquireRaises, Upsert,
         Conflict, Publish, Finalize, Leave, ParseFails, ParseRaises, OnFailure,
         OnFailureRaises, Crash, Running, Inside, Deliver, TInv, TypeOK, RetryOrRaise, Raise
    <3> QED BY <2>1, <2>3, <3>1 DEF Acquire
  <2>4. CASE dpc[d] \notin Inside /\ dpc'[d] \notin Inside
    <3>1. In' = In
      BY <2>1, <2>4
    <3>2. UNCHANGED free \/ (free /\ ~free')
      BY <1>1, <2>4 DEF SetUnheard, Work, GateSkip, GatePass, GateLoad, GateStart, Acquire,
         Busy, AcquireRaises, Upsert,
         Conflict, Publish, Finalize, Leave, ParseFails, ParseRaises, OnFailure,
         OnFailureRaises, Crash, Inside, Deliver, TInv, TypeOK
    <3> QED BY <3>1, <3>2
  <2> QED BY <2>2, <2>3, <2>4
<1>2. ASSUME NEW h \in Handler, HandlerStep(h) PROVE UNCHANGED free /\ In' = In
  <2>1. lock' = lock /\ (dpc' = dpc \/ (dpc[h] = "none" /\ dpc' = [dpc EXCEPT ![h] = "queued"]))
    BY <1>2 DEF HandlerStep, HandlerLoad, HandlerCommit, HandlerExpire, HandlerDispatch,
       HandlerDies, Deliver, db, tasks, TInv, PhaseInv
  <2> QED BY <2>1 DEF Inside, TInv, TypeOK
<1>3. ASSUME NEW d \in Delivery, NEW e \in Redeliveries, Redeliver(d, e)
      PROVE  UNCHANGED free /\ In' = In
  BY <1>3 DEF Redeliver, Deliver, Inside, TInv, TypeOK
<1>4. ASSUME NEW s \in Sweeps, SweepLoad(s) \/ SweepCommit(s) \/ SweepAborts(s)
      PROVE  UNCHANGED free /\ In' = In
  BY <1>4 DEF SweepLoad, SweepCommit, SweepAborts, tasks
<1>5. CASE OrphanExpires
  <2>1. In = {}
    BY <1>5 DEF OrphanExpires, HeldInv
  <2> QED BY <1>5, <2>1 DEF OrphanExpires, tasks
<1>6. CASE LeaseLapses
  BY <1>6 DEF LeaseLapses
<1>7. CASE UNCHANGED vars
  BY <1>7 DEF vars, tasks
<1> QED BY <1>1, <1>2, <1>3, <1>4, <1>5, <1>6, <1>7 DEF Next, Quiet

\* Where the lease holds, workers, crashes and expiry together use the lock as JobLease,
\* which JobLock implements, lets them.
THEOREM LeaseUsed == LeaseHolds /\ Spec => LeasePromise
<1>1. Init => HeldInv /\ Lease!Init
  BY DEF Init, HeldInv, NoConflict, Inside, Lease!Init
<1>2. ASSUME LeaseHolds PROVE Spec => LeasePromise
  <2>1. TInv /\ HeldInv /\ [Next]_vars => HeldInv'
    BY <1>2, HeldStep
  <2>2. TInv /\ HeldInv /\ [Next]_vars => [Lease!Next]_Lease!leaseVars
    BY <1>2, LeaseRefines
  <2> QED BY <1>1, <2>1, <2>2, Invariance, PTL DEF Spec, LeasePromise, Lease!Spec
<1> QED BY <1>2

\* Once there is a task, or a handler about to send one, the upload transition is
\* committed, and nothing moves a Job back to waiting-file.
SentInv ==
    /\ \A h \in Handler : hpc[h] = "committed" => Status # "waiting-file"
    /\ \A d \in Delivery : dpc[d] # "none" => Status # "waiting-file"

LEMMA StatusMoves ==
  ASSUME TInv, NEW a \in Actor, NEW to \in Statuses,
         NEW cause \in Reasons \cup {"stale", "expired"}, Move(a, to, cause)
  PROVE  Status' = to
<1> DEFINE m == [by |-> a, to |-> to, why |-> cause]
<1>1. moves \in Seq(MoveType) /\ m \in MoveType
  BY DEF TInv, TypeOK, MoveType, Reasons
<1>2. moves' = Append(moves, m)
  BY DEF Move
<1>3. moves' # <<>> /\ Len(moves') = Len(moves) + 1 /\ moves'[Len(moves) + 1] = m
  BY <1>1, <1>2, AppendProperties
<1> QED BY <1>3 DEF Status

LEMMA StatusStep ==
  ASSUME TInv, [Next]_vars
  PROVE  Status' = Status \/ Status' \in {"pending", "running", "done", "failed"}
<1>1. CASE UNCHANGED db
  BY <1>1 DEF db, Status
<1>2. CASE QuietMove
  BY <1>2, StatusMoves DEF QuietMove, Reasons, Statuses
<1>3. ASSUME NEW d \in Delivery, Completion(d) PROVE Status' = "done"
  BY <1>3, StatusMoves DEF Completion, Reasons, Actor, Statuses
<1>4. ASSUME NEW d \in Delivery, NEW cause \in Reasons, Failure(d, cause)
      PROVE Status' = "failed"
  BY <1>4, StatusMoves DEF Failure, Actor, Statuses
<1> QED BY <1>1, <1>2, <1>3, <1>4, DbStep

LEMMA SentStep ==
  ASSUME TInv, TInv', SentInv, [Next]_vars
  PROVE  SentInv'
<1> USE ProcessingAssumption DEF Delivery
<1>1. Status # "waiting-file" => SentInv'
  BY StatusStep DEF SentInv
<1>2. CASE Status = "waiting-file"
  <2>1. /\ \A h \in Handler : hpc[h] # "committed"
        /\ \A d \in Delivery : dpc[d] = "none"
    BY <1>2 DEF SentInv
  <2>2. ASSUME NEW h \in Handler, HandlerStep(h) PROVE SentInv'
    <3>1. CASE HandlerCommit(h) /\ Swaps(snap[h], "pending")
      <4>1. Status' # "waiting-file"
        BY <3>1, StatusMoves DEF HandlerCommit, Actor, Statuses, Reasons
      <4> QED BY <4>1 DEF SentInv
    <3>2. CASE ~(HandlerCommit(h) /\ Swaps(snap[h], "pending"))
      <4>1. dpc' = dpc
        BY <2>1, <2>2 DEF HandlerStep, HandlerLoad, HandlerCommit, HandlerExpire,
           HandlerDispatch, HandlerDies, tasks
      <4>2. \A g \in Handler : hpc'[g] # "committed"
        BY <2>1, <2>2, <3>2 DEF HandlerStep, HandlerLoad, HandlerCommit, HandlerExpire,
           HandlerDispatch, HandlerDies, TInv, TypeOK
      <4> QED BY <2>1, <4>1, <4>2 DEF SentInv
    <3> QED BY <3>1, <3>2
  <2>3. ASSUME NEW d \in Delivery, Work(d) \/ Crash(d) PROVE FALSE
    BY <2>1, <2>3, WorkIsLocal
  <2>4. ASSUME NEW d \in Delivery, NEW e \in Redeliveries, Redeliver(d, e) PROVE FALSE
    BY <2>1, <2>4 DEF Redeliver, Running, Inside
  <2>5. ASSUME hpc' = hpc, dpc' = dpc PROVE SentInv'
    BY <2>1, <2>5 DEF SentInv
  <2> QED
    BY <2>2, <2>3, <2>4, <2>5 DEF Next, OrphanExpires, LeaseLapses, SweepLoad, SweepCommit,
       SweepAborts, Quiet, vars, tasks
<1> QED BY <1>1, <1>2

\* No worker meets a Job whose upload transition is not visible yet.
THEOREM DeliveryCorrect == Spec => []NoEarlyDelivery
<1>1. Init => SentInv
  BY DEF Init, SentInv
<1>2. TInv /\ TInv' /\ SentInv /\ [Next]_vars => SentInv'
  BY SentStep
<1>3. SentInv => NoEarlyDelivery
  BY DEF SentInv, NoEarlyDelivery
<1> QED BY <1>1, <1>2, <1>3, Invariance, PTL DEF Spec
-----------------------------------------------------------------------------
(* That deliveries end: what of EveryDeliveryEnds does not rest on fairness.  *)

\* The next step of d's own has its guard true; failures do not count.
CanGoOn(d) ==
    \/ dpc[d] = "queued" /\ Status \in TerminalStates \cup {"pending", "running"}
    \/ dpc[d] \in {"gated", "cleared", "parsing", "finalizing", "finished", "lost", "raised"}
    \/ dpc[d] = "inserting" /\ result # None
    \/ dpc[d] \in {"inserting", "updating"} /\ \A e \in Delivery : dpc[e] # "finalizing"

\* A delivery that is not over can go on, or waits for a finalization, which can.
NobodyIsStuck ==
    \A d \in Delivery : dpc[d] \notin {"none", "acked"} =>
        CanGoOn(d) \/ \E e \in Delivery : dpc[e] = "finalizing" /\ CanGoOn(e)

\* How far a phase is from the acknowledgement.
Rank(p) ==
    CASE p = "queued" -> 12
      [] p = "gated" -> 11
      [] p = "cleared" -> 10
      [] p = "parsing" -> 9
      [] p \in {"inserting", "updating"} -> 8
      [] p = "finalizing" -> 7
      [] p \in {"finished", "lost"} -> 2
      [] p = "raised" -> 1
      [] OTHER -> 0

\* The most steps that d has left: its retries and the crashes to come each start it
\* over.
Budget(d) == 13 * ((MaxRetries - tries[d]) + (MaxCrashes - crashes)) + Rank(dpc[d])

\* Whatever happens, a delivery once sent is never forgotten, each phase it enters
\* costs it of its budget, and nobody else adds to that.
WorkIsBounded ==
    [][\A d \in Delivery : dpc[d] # "none" =>
          /\ dpc'[d] # "none"
          /\ Budget(d)' \in 0..Budget(d)
          /\ dpc'[d] # dpc[d] => Budget(d)' # Budget(d)]_vars

\* A worker's step, or its death, costs its delivery of its budget, and leaves the
\* other deliveries what they have.
LEMMA WorkSpends ==
  ASSUME TInv, NEW d \in Delivery, Work(d) \/ Crash(d)
  PROVE  /\ dpc'[d] # "none" /\ Budget(d)' < Budget(d)
         /\ \A e \in Delivery \ {d} : dpc'[e] = dpc[e] /\ tries'[e] = tries[e]
         /\ crashes' \in {crashes, crashes + 1}
<1> USE ProcessingAssumption DEF Budget, Deliver
<1>1. /\ dpc \in [Delivery -> Phases] /\ tries \in [Delivery -> 0..MaxRetries]
      /\ crashes \in 0..MaxCrashes
  BY DEF TInv, TypeOK
<1>2. CASE GateSkip(d) \/ GatePass(d) \/ GateLoad(d)
  BY <1>1, <1>2 DEF GateSkip, GatePass, GateLoad, Rank
<1>3. ASSUME NEW cause, RetryOrRaise(d, cause) \/ Raise(d, cause), crashes' = crashes,
             dpc[d] \in {"gated", "cleared", "parsing", "inserting", "updating", "finalizing"}
      PROVE  /\ dpc'[d] # "none" /\ Budget(d)' < Budget(d)
             /\ \A e \in Delivery \ {d} : dpc'[e] = dpc[e] /\ tries'[e] = tries[e]
  <2>1. Rank(dpc[d]) \in 7..12
    BY <1>3 DEF Rank
  <2>2. CASE Deliver(d, "queued") /\ tries' = [tries EXCEPT ![d] = @ + 1]
    <3>1. dpc'[d] = "queued" /\ tries'[d] = tries[d] + 1 /\ Rank(dpc'[d]) = 12
      BY <1>1, <2>2 DEF Rank
    <3> QED BY <1>1, <1>3, <2>1, <2>2, <3>1
  <2>3. CASE Deliver(d, "raised") /\ UNCHANGED tries
    <3>1. dpc'[d] = "raised" /\ Rank(dpc'[d]) = 1
      BY <1>1, <2>3 DEF Rank
    <3> QED BY <1>1, <1>3, <2>1, <2>3, <3>1
  <2> QED BY <1>3, <2>2, <2>3 DEF RetryOrRaise, Raise
<1>4. CASE GateStart(d)
  <2>1. CASE Deliver(d, "cleared") /\ UNCHANGED <<tries, why>>
    BY <1>1, <1>4, <2>1 DEF GateStart, Rank
  <2>2. CASE RetryOrRaise(d, "unsettled")
    BY <1>3, <1>4, <2>2 DEF GateStart
  <2> QED BY <1>4, <2>1, <2>2 DEF GateStart
<1>5. CASE Busy(d) \/ AcquireRaises(d) \/ Conflict(d) \/ ParseFails(d) \/ ParseRaises(d)
  BY <1>3, <1>5 DEF Busy, AcquireRaises, Conflict, ParseFails, ParseRaises
<1>6. CASE Acquire(d) \/ Upsert(d)
  BY <1>1, <1>6 DEF Acquire, Upsert, Rank
<1>7. CASE Publish(d)
  BY <1>1, <1>7 DEF Publish, Rank
<1>8. CASE Finalize(d)
  BY <1>1, <1>8 DEF Finalize, Rank
<1>9. CASE Leave(d) \/ OnFailure(d) \/ OnFailureRaises(d)
  BY <1>1, <1>9 DEF Leave, OnFailure, OnFailureRaises, Rank
<1>10. CASE Crash(d)
  <2>1. dpc[d] \in Running /\ dpc'[d] = "queued" /\ Rank(dpc'[d]) = 12
    BY <1>1, <1>10 DEF Crash, Rank
  <2>2. Rank(dpc[d]) \in 1..12
    BY <2>1 DEF Running, Inside, Rank
  <2> QED BY <1>1, <1>10, <2>1, <2>2 DEF Crash
<1> QED
  BY <1>2, <1>4, <1>5, <1>6, <1>7, <1>8, <1>9, <1>10 DEF Work

\* The budget is never overdrawn.
LEMMA BudgetIsNat ==
  ASSUME NEW t \in 0..MaxRetries, NEW c \in 0..MaxCrashes, NEW p
  PROVE  /\ 13 * ((MaxRetries - t) + (MaxCrashes - c)) + Rank(p) \in Nat
         /\ Rank(p) \in 0..12
<1>1. Rank(p) \in 0..12
  BY DEF Rank
<1> QED BY <1>1, ProcessingAssumption

LEMMA BoundedStep ==
  ASSUME TInv, TInv', Next, NEW d \in Delivery, dpc[d] # "none"
  PROVE  /\ dpc'[d] # "none"
         /\ Budget(d)' \in 0..Budget(d)
         /\ dpc'[d] # dpc[d] => Budget(d)' # Budget(d)
<1> USE ProcessingAssumption DEF Delivery
<1>0. /\ Budget(d) \in Nat /\ Budget(d)' \in Nat
      /\ Rank(dpc[d]) \in 0..12
  BY BudgetIsNat DEF TInv, TypeOK, Budget
<1>1. /\ dpc \in [Delivery -> Phases] /\ tries \in [Delivery -> 0..MaxRetries]
      /\ crashes \in 0..MaxCrashes
  BY DEF TInv, TypeOK
<1>2. ASSUME dpc'[d] = dpc[d], tries'[d] = tries[d], crashes' \in {crashes, crashes + 1}
      PROVE  Budget(d)' <= Budget(d)
  BY <1>0, <1>1, <1>2 DEF Budget
<1>3. ASSUME NEW e \in Delivery, Work(e) \/ Crash(e)
      PROVE  dpc'[d] # "none" /\ Budget(d)' <= Budget(d)
             /\ (dpc'[d] # dpc[d] => Budget(d)' # Budget(d))
  <2>1. CASE d = e
    BY <1>0, <1>3, <2>1, WorkSpends
  <2>2. CASE d # e
    <3>1. dpc'[d] = dpc[d] /\ tries'[d] = tries[d] /\ crashes' \in {crashes, crashes + 1}
      BY <1>3, <2>2, WorkSpends
    <3> QED BY <1>2, <3>1
  <2> QED BY <2>1, <2>2
<1>4. ASSUME NEW h \in Handler, HandlerStep(h)
      PROVE  dpc'[d] = dpc[d] /\ tries' = tries /\ crashes' = crashes
  <2>1. hpc[h] = "committed" => h # d
    BY DEF TInv, PhaseInv
  <2> QED
    BY <1>1, <1>4, <2>1 DEF HandlerStep, HandlerLoad, HandlerCommit, HandlerExpire,
       HandlerDispatch, HandlerDies, Deliver, tasks
<1>5. ASSUME NEW f \in Delivery, NEW e \in Redeliveries, Redeliver(f, e)
      PROVE  dpc'[d] = dpc[d] /\ tries'[d] = tries[d] /\ crashes' = crashes
  BY <1>1, <1>5 DEF Redeliver, Deliver
<1>6. ASSUME NEW s \in Sweeps, SweepLoad(s) \/ SweepCommit(s) \/ SweepAborts(s)
      PROVE  dpc' = dpc /\ tries' = tries /\ crashes' = crashes
  BY <1>6 DEF SweepLoad, SweepCommit, SweepAborts, tasks
<1>7. ASSUME OrphanExpires \/ LeaseLapses \/ Quiet
      PROVE  dpc' = dpc /\ tries' = tries /\ crashes' = crashes
  BY <1>7 DEF OrphanExpires, LeaseLapses, Quiet, vars, tasks
<1>8. dpc'[d] # "none" /\ Budget(d)' <= Budget(d)
      /\ (dpc'[d] # dpc[d] => Budget(d)' # Budget(d))
  BY <1>2, <1>3, <1>4, <1>5, <1>6, <1>7 DEF Next
<1> QED BY <1>0, <1>8

\* Where a Job with a task may be.
LEMMA StatusIsServed ==
  ASSUME TInv, SentInv, Status # "converting", NEW d \in Delivery, dpc[d] # "none"
  PROVE  Status \in TerminalStates \cup {"pending", "running"}
<1>1. Status \in Statuses /\ Status # "waiting-file"
  BY LoadedType DEF TInv, SentInv
<1> QED BY <1>1 DEF Statuses, TerminalStates

LEMMA CanGoOnAll ==
  ASSUME TInv, SentInv, Status # "converting"
  PROVE  NobodyIsStuck
<1> SUFFICES ASSUME NEW d \in Delivery, dpc[d] \notin {"none", "acked"},
                    \A e \in Delivery : dpc[e] # "finalizing"
             PROVE  CanGoOn(d)
  BY DEF NobodyIsStuck, CanGoOn
<1>1. dpc[d] \in Phases
  BY DEF TInv, TypeOK
<1>2. CASE dpc[d] = "queued"
  BY <1>2, StatusIsServed DEF CanGoOn
<1>3. CASE dpc[d] # "queued"
  BY <1>1, <1>3 DEF CanGoOn, Phases, Running, Inside
<1> QED BY <1>2, <1>3

\* No delivery is ever stuck: the gate knows every status that a delivered Job can have,
\* a lock that is taken sends its task away, and who waits for a row waits for a
\* finalization that goes on.
THEOREM NobodyStuck == Spec => []NobodyIsStuck
<1>1. Init => SentInv /\ Status # "converting"
  BY DEF Init, SentInv, Status
<1>2. TInv /\ TInv' /\ SentInv /\ [Next]_vars => SentInv'
  BY SentStep
<1>3. TInv /\ Status # "converting" /\ [Next]_vars => (Status # "converting")'
  BY StatusStep
<1>4. TInv /\ SentInv /\ Status # "converting" => NobodyIsStuck
  BY CanGoOnAll
<1> QED BY <1>1, <1>2, <1>3, <1>4, Invariance, PTL DEF Spec

\* A delivery ends after at most 13 * (MaxRetries + MaxCrashes + 1) changes of phase of
\* its own, whatever handlers, other deliveries, expiring leases and sweepers do.
THEOREM WorkBounded == Spec => WorkIsBounded
<1>1. TInv /\ TInv' /\ [Next]_vars =>
        [\A d \in Delivery : dpc[d] # "none" =>
          /\ dpc'[d] # "none"
          /\ Budget(d)' \in 0..Budget(d)
          /\ dpc'[d] # dpc[d] => Budget(d)' # Budget(d)]_vars
  BY BoundedStep
<1>2. TInv /\ [Next]_vars => TInv'
  BY TypeStep
<1> QED BY <1>1, <1>2, TypeInit, PTL DEF Spec, WorkIsBounded
-----------------------------------------------------------------------------
(* That Jobs settle: what of EventuallySettled does not rest on fairness.     *)

\* Sessions that have loaded the Job as not finished.
Unaware == {a \in Actor : snap[a] # None /\ snap[a].status \notin TerminalStates}

\* While a Job is finished nobody takes it for unfinished who has not done so before, and
\* each time it leaves its terminal status it costs one of those who have.
FinishedIsKnown ==
    [][(Status \in TerminalStates) =>
          /\ Unaware' \subseteq Unaware
          /\ Status' \notin TerminalStates => Unaware' # Unaware]_vars

\* A step leaves an actor's session alone, has it load the Job, or ends it.
LEMMA SessionStep ==
  ASSUME TInv, [Next]_vars
  PROVE  \A a \in Actor : snap'[a] \in {None, Loaded, snap[a]}
<1> SUFFICES ASSUME NEW a \in Actor PROVE snap'[a] \in {None, Loaded, snap[a]}
  OBVIOUS
<1>1. DOMAIN snap = Actor
  BY DEF TInv, TypeOK
<1>2. ASSUME NEW b \in Actor, Keep(b) \/ Drop(b) \/ UNCHANGED snap
      PROVE snap'[a] \in {None, Loaded, snap[a]}
  BY <1>1, <1>2 DEF Keep, Drop
<1>3. ASSUME NEW h \in Handler, HandlerStep(h) PROVE snap'[a] \in {None, Loaded, snap[a]}
  BY <1>2, <1>3 DEF HandlerStep, HandlerLoad, HandlerCommit, HandlerExpire, HandlerDispatch,
     HandlerDies, Actor, Delivery
<1>4. ASSUME NEW d \in Delivery, Work(d) \/ Crash(d) PROVE snap'[a] \in {None, Loaded, snap[a]}
  BY <1>2, <1>4 DEF Work, GateSkip, GatePass, GateLoad, GateStart, Acquire,
     Busy, AcquireRaises, Upsert,
     Conflict, Publish, Finalize, Leave, ParseFails, ParseRaises, OnFailure, OnFailureRaises,
     Crash, Actor
<1>5. ASSUME NEW s \in Sweeps, SweepLoad(s) \/ SweepCommit(s) \/ SweepAborts(s)
      PROVE snap'[a] \in {None, Loaded, snap[a]}
  BY <1>2, <1>5 DEF SweepLoad, SweepCommit, SweepAborts, Actor
<1> QED
  BY <1>3, <1>4, <1>5
  DEF Next, Redeliver, OrphanExpires, LeaseLapses, Quiet, vars

\* Whoever moves the Job to a status that is not terminal has loaded it in one.
AwareInv ==
    /\ \A h \in Handler : hpc[h] = "loaded" => snap[h].status \notin TerminalStates
    /\ \A d \in Delivery : dpc[d] = "gated" => snap[d].status \notin TerminalStates

LEMMA AwareStep ==
  ASSUME TInv, AwareInv, [Next]_vars
  PROVE  AwareInv'
<1> USE ProcessingAssumption DEF Handler, Delivery, Actor
<1>0. /\ hpc \in [Handler -> HandlerPhases] /\ dpc \in [Delivery -> Phases]
      /\ DOMAIN snap = Actor /\ Loaded.status = Status
  BY DEF TInv, TypeOK, Loaded
<1>1. ASSUME NEW h \in Handler, HandlerStep(h) PROVE AwareInv'
  <2>1. \A a \in Actor \ {h} : snap'[a] = snap[a]
    BY <1>0, <1>1 DEF HandlerStep, HandlerLoad, HandlerCommit, HandlerExpire,
       HandlerDispatch, HandlerDies, Keep, Drop
  <2>2. \A g \in Handler \ {h} : hpc'[g] = hpc[g]
    BY <1>0, <1>1 DEF HandlerStep, HandlerLoad, HandlerCommit, HandlerExpire,
       HandlerDispatch, HandlerDies
  <2>3. \A d \in Delivery : dpc'[d] = "gated" => dpc[d] = "gated" /\ d # h
    <3>1. dpc[h] = "none" \/ hpc[h] = "closed"
      BY DEF TInv, PhaseInv
    <3>2. hpc[h] # "closed"
      BY <1>1 DEF HandlerStep, HandlerLoad, HandlerCommit, HandlerExpire, HandlerDispatch,
         HandlerDies
    <3> QED
      BY <1>0, <1>1, <3>1, <3>2 DEF HandlerStep, HandlerLoad, HandlerCommit,
         HandlerExpire, HandlerDispatch, HandlerDies, Deliver, tasks
  <2>4. hpc'[h] = "loaded" => snap'[h].status \notin TerminalStates
    BY <1>0, <1>1 DEF HandlerStep, HandlerLoad, HandlerCommit, HandlerExpire,
       HandlerDispatch, HandlerDies, Keep, TerminalStates
  <2> QED
    BY <2>1, <2>2, <2>3, <2>4 DEF AwareInv
<1>2. ASSUME NEW d \in Delivery, Work(d) \/ Crash(d) PROVE AwareInv'
  <2>1. \A e \in Delivery \ {d} : dpc'[e] = dpc[e]
    BY <1>2, WorkIsLocal
  <2>2. hpc' = hpc /\ (d \in Handler => hpc[d] # "loaded")
    <3>1. dpc[d] # "none" /\ hpc' = hpc
      BY <1>2, WorkIsLocal
    <3> QED
      BY <3>1 DEF TInv, PhaseInv
  <2>3. \A a \in Actor \ {d} : snap'[a] = snap[a]
    BY <1>0, <1>2 DEF Work, GateSkip, GatePass, GateLoad, GateStart, Acquire,
       Busy, AcquireRaises, Upsert,
       Conflict, Publish, Finalize, Leave, ParseFails, ParseRaises, OnFailure,
       OnFailureRaises, Crash, Keep, Drop
  <2>4. dpc'[d] = "gated" => snap'[d].status \notin TerminalStates
    <3>1. ASSUME ~GateLoad(d) PROVE dpc'[d] # "gated"
      BY <1>0, <1>2, <3>1 DEF Work, GateSkip, GatePass, GateStart, Acquire,
         Busy, AcquireRaises, Upsert,
         Conflict, Publish, Finalize, Leave, ParseFails, ParseRaises, OnFailure,
         OnFailureRaises, Crash, Deliver, RetryOrRaise, Raise
    <3>2. CASE GateLoad(d)
      BY <1>0, <3>2 DEF GateLoad, Keep, TerminalStates
    <3> QED
      BY <3>1, <3>2
  <2> QED
    BY <2>1, <2>2, <2>3, <2>4 DEF AwareInv
<1>3. ASSUME NEW d \in Delivery, NEW e \in Redeliveries, Redeliver(d, e) PROVE AwareInv'
  BY <1>0, <1>3 DEF Redeliver, Deliver, AwareInv
<1>4. ASSUME NEW s \in Sweeps, SweepLoad(s) \/ SweepCommit(s) \/ SweepAborts(s)
      PROVE  AwareInv'
  BY <1>0, <1>4 DEF SweepLoad, SweepCommit, SweepAborts, Keep, Drop, AwareInv, tasks
<1>5. ASSUME OrphanExpires \/ LeaseLapses \/ UNCHANGED vars PROVE AwareInv'
  BY <1>5 DEF OrphanExpires, LeaseLapses, AwareInv, vars, tasks
<1> QED
  BY <1>1, <1>2, <1>3, <1>4, <1>5 DEF Next, Quiet

\* Only a start of the workflow and a start of the work lead out of a terminal status.
LEMMA WhoRevives ==
  ASSUME TInv, [Next]_vars, Status \in TerminalStates, Status' \notin TerminalStates
  PROVE  \/ \E h \in Handler : HandlerCommit(h)
         \/ \E d \in Delivery : GateStart(d)
<1> USE DEF TerminalStates
<1>1. moves' # moves
  BY DEF Status
<1>2. ASSUME NEW a \in Actor, NEW to \in TerminalStates,
             NEW cause \in Reasons \cup {"stale", "expired"}, Move(a, to, cause)
      PROVE  FALSE
  BY <1>2, StatusMoves DEF Statuses
<1>3. ASSUME NEW h \in Handler, HandlerExpire(h) PROVE FALSE
  <2>1. Move(h, "failed", "expired")
    BY <1>1, <1>3 DEF HandlerExpire
  <2> QED
    BY <1>2, <2>1 DEF Actor, Delivery
<1>4. ASSUME NEW d \in Delivery, Finalize(d) PROVE FALSE
  <2>1. Move(d, "done", "nothing")
    BY <1>1, <1>4 DEF Finalize, db
  <2> QED
    BY <1>2, <2>1 DEF Actor, Reasons
<1>5. ASSUME NEW d \in Delivery, OnFailure(d) PROVE FALSE
  <2>1. Move(d, "failed", why[d]) /\ why[d] \in Reasons
    BY <1>1, <1>5 DEF OnFailure, TInv, TypeOK, Reasons
  <2> QED
    BY <1>2, <2>1 DEF Actor
<1>6. ASSUME NEW s \in Sweeps, SweepCommit(s) PROVE FALSE
  <2>1. Move(s, "failed", "stale")
    BY <1>1, <1>6 DEF SweepCommit
  <2> QED
    BY <1>2, <2>1 DEF Actor
<1>7. ASSUME NEW h \in Handler, HandlerStep(h) PROVE HandlerCommit(h)
  BY <1>1, <1>3, <1>7 DEF HandlerStep, HandlerLoad, HandlerDispatch, HandlerDies, db
<1>8. ASSUME NEW d \in Delivery, Work(d) PROVE GateStart(d)
  BY <1>1, <1>4, <1>5, <1>8
  DEF Work, GateSkip, GatePass, GateLoad, Acquire, Busy, AcquireRaises,
      Upsert, Conflict, Publish, Leave,
      ParseFails, ParseRaises, OnFailureRaises, db
<1> QED
  BY <1>1, <1>6, <1>7, <1>8
  DEF Next, Crash, Redeliver, OrphanExpires, LeaseLapses, SweepLoad, SweepAborts, Quiet,
      vars, db

LEMMA FinishedStep ==
  ASSUME TInv, AwareInv, [Next]_vars, Status \in TerminalStates
  PROVE  /\ Unaware' \subseteq Unaware
         /\ Status' \notin TerminalStates => Unaware' # Unaware
<1>1. Unaware' \subseteq Unaware
  <2> SUFFICES ASSUME NEW a \in Unaware' PROVE a \in Unaware
    OBVIOUS
  <2>1. a \in Actor /\ snap'[a] # None /\ snap'[a].status \notin TerminalStates
    BY DEF Unaware
  <2>2. snap'[a] # Loaded
    BY <2>1 DEF Loaded
  <2> QED
    BY <2>1, <2>2, SessionStep DEF Unaware
<1>2. ASSUME Status' \notin TerminalStates PROVE Unaware' # Unaware
  <2>1. ASSUME NEW h \in Handler, HandlerCommit(h) PROVE Unaware' # Unaware
    <3>1. h \in Actor /\ hpc[h] = "loaded" /\ snap'[h] = None
      BY <2>1 DEF HandlerCommit, Drop, Actor, Delivery, TInv, TypeOK
    <3>2. h \in Unaware
      BY <3>1 DEF Unaware, AwareInv, TInv, PhaseInv
    <3> QED
      BY <3>1, <3>2 DEF Unaware
  <2>2. ASSUME NEW d \in Delivery, GateStart(d) PROVE Unaware' # Unaware
    <3>1. d \in Actor /\ dpc[d] = "gated" /\ snap'[d] = None
      BY <2>2 DEF GateStart, Drop, Actor, TInv, TypeOK
    <3>2. d \in Unaware
      BY <3>1 DEF Unaware, AwareInv, TInv, PhaseInv
    <3> QED
      BY <3>1, <3>2 DEF Unaware
  <2> QED
    BY <1>2, <2>1, <2>2, WhoRevives
<1> QED
  BY <1>1, <1>2

\* A finished Job is brought back only by handlers and workers that loaded it before it
\* finished, by each of them once; whoever loads it later leaves it finished.
THEOREM FinishedJobsSettle == Spec => FinishedIsKnown
<1>1. Init => AwareInv
  BY DEF Init, AwareInv
<1>2. TInv /\ AwareInv /\ [Next]_vars => AwareInv'
  BY AwareStep
<1>3. TInv /\ AwareInv /\ [Next]_vars =>
        [(Status \in TerminalStates) =>
          /\ Unaware' \subseteq Unaware
          /\ Status' \notin TerminalStates => Unaware' # Unaware]_vars
  BY FinishedStep
<1> QED BY <1>1, <1>2, <1>3, Invariance, PTL DEF Spec, FinishedIsKnown
=============================================================================
