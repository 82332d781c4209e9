------------------------ MODULE JobStateMachine_proofs ------------------------
(***************************************************************************)
(* Proofs about the transition protocol, for every set of sessions, every   *)
(* assignment of callers, every number of attempts and every initial status.*)
(***************************************************************************)
EXTENDS JobStateMachine, TLAPS

\* Who holds the row lock, and what the holder has written so far.
LockInv ==
    /\ \A s \in Session :
        /\ holder = s => pc[s] \in {"select", "cas", "rejected"} \cup Writing
        /\ pc[s] \in Writing => holder = s
    /\ holder = NoSession => draft = row
    /\ holder # NoSession =>
        IF pc[holder] \in Writing
        THEN draft.version = row.version + 1 /\ draft.status = Target(Call[holder])
        ELSE draft.version = row.version /\ draft.status = row.status

\* A loaded Job is never newer than the row, and on the first attempt a loaded
\* Job of the row's version has the row's status.
SnapInv ==
    \A s \in Session : snap[s] # NoSnap /\ pc[s] \in {"entered", "select", "cas"} =>
        /\ snap[s].version <= row.version
        /\ attempt[s] = 1 /\ snap[s].version = row.version => snap[s].status = row.status

\* What validation has established when the first attempt reaches the swap, and
\* when it has written.
ValidInv ==
    \A s \in Session : attempt[s] = 1 =>
        /\ pc[s] = "cas" => /\ snap[s] # NoSnap
                            /\ IsValidTransition(snap[s].status, Target(Call[s]))
        /\ pc[s] \in Writing => IsValidTransition(row.status, Target(Call[s]))

\* A session that swaps has the Job loaded (a first SELECT has run, or a miss
\* has left its values): without it the retry would have no version.
RetryInv ==
    \A s \in Session : pc[s] = "cas" => snap[s] # NoSnap

\* The callers that aim at pending have checked the status of the Job they hold:
\* failed -> pending is in the table, and only that check keeps them from it.
AdmitInv ==
    \A s \in Session : attempt[s] = 1 /\ Target(Call[s]) = "pending" =>
        /\ pc[s] \in {"entered", "select", "cas"} =>
               snap[s] # NoSnap /\ snap[s].status \notin TerminalStates
        /\ pc[s] \in Writing => row.status \notin TerminalStates

IInv == /\ TypeOK /\ LockInv /\ SnapInv /\ ValidInv /\ RetryInv /\ AdmitInv
        /\ NoLostTransition /\ FirstAttemptIsLegal

LEMMA TargetType == \A s \in Session : Target(Call[s]) \in Statuses
  BY ConstantsAssumption DEF CallSites, Target, Statuses

\* Callers that aim at pending load the Job, admit no terminal status and write no
\* error fields first.
LEMMA PendingCallers ==
  ASSUME NEW s \in Session, Target(Call[s]) = "pending"
  PROVE  /\ Preloads(Call[s]) /\ ~MarksFailed(Call[s])
         /\ Admits(Call[s]) \cap TerminalStates = {}
  BY ConstantsAssumption DEF CallSites, Target, Preloads, MarksFailed, Admits, TerminalStates

LEMMA SelectedType ==
  ASSUME TypeOK, NEW s \in Session
  PROVE  Selected(s) \in Snapshot
  BY DEF Selected, Visible, TypeOK, Row, Snapshot

\* TypeOK alone is not inductive: a swap without a loaded Job has no version.
LEMMA TypeStep ==
  ASSUME TypeOK, RetryInv, [Next]_vars
  PROVE  TypeOK' /\ RetryInv'
<1> USE ConstantsAssumption DEF Row, Snapshot, AuditRow, Transition, CacheEntry,
        Active, Closed, Writing
<1>1. CASE UNCHANGED vars
  BY <1>1 DEF TypeOK, RetryInv, vars
<1>2. ASSUME NEW s \in Session, Load(s) PROVE TypeOK' /\ RetryInv'
  BY <1>2 DEF Load, Goto, TypeOK, RetryInv
<1>3. ASSUME NEW s \in Session, RecordError(s) PROVE TypeOK' /\ RetryInv'
  BY <1>3 DEF RecordError, Goto, TypeOK, RetryInv
<1>4. ASSUME NEW s \in Session, SkipError(s) PROVE TypeOK' /\ RetryInv'
  BY <1>4 DEF SkipError, Goto, TypeOK, RetryInv
<1>5. ASSUME NEW s \in Session, Prepare(s) PROVE TypeOK' /\ RetryInv'
  <2>1. Selected(s) \in Snapshot
    BY SelectedType
  <2>2. TypeOK'
    BY <1>5, <2>1, TargetType DEF Prepare, Goto, TypeOK
  <2>3. RetryInv'
    BY <1>5, <2>1 DEF Prepare, Goto, TypeOK, RetryInv
  <2> QED BY <2>2, <2>3
<1>6. ASSUME NEW s \in Session, RejectInvalid(s) PROVE TypeOK' /\ RetryInv'
  BY <1>6, SelectedType DEF RejectInvalid, Goto, TypeOK, RetryInv
<1>7. ASSUME NEW s \in Session, CasHit(s) PROVE TypeOK' /\ RetryInv'
  <2>1. snap[s] \in Snapshot
    BY <1>7 DEF CasHit, TypeOK, RetryInv
  <2>2. [status |-> Target(Call[s]), version |-> snap[s].version + 1] \in Snapshot
    BY <2>1, TargetType
  <2>3. snap' \in [Session -> Snapshot \cup {NoSnap}]
    BY <1>7, <2>2 DEF CasHit, Synchronized, TypeOK
  <2>4. draft' \in Row
    <3>1. Visible(s) \in Row
      BY DEF Visible, TypeOK
    <3> QED BY <1>7, <2>1, <3>1, TargetType DEF CasHit
  <2>5. TypeOK'
    BY <1>7, <2>3, <2>4 DEF CasHit, Goto, TypeOK
  <2>6. RetryInv'
    BY <1>7 DEF CasHit, Synchronized, Goto, TypeOK, RetryInv
  <2> QED BY <2>5, <2>6
<1>8. ASSUME NEW s \in Session, CasMiss(s) PROVE TypeOK' /\ RetryInv'
  <2>1. snap[s] \in Snapshot
    BY <1>8 DEF CasMiss, TypeOK, RetryInv
  <2>2. [status |-> Target(Call[s]), version |-> snap[s].version + 1] \in Snapshot
    BY <2>1, TargetType
  <2>3. snap' \in [Session -> Snapshot \cup {NoSnap}]
    BY <1>8, <2>2 DEF CasMiss, Synchronized, TypeOK
  <2>4. attempt' \in [Session -> 1..MaxAttempts]
    BY <1>8 DEF CasMiss, Goto, TypeOK
  <2>5. pc' = [pc EXCEPT ![s] = pc'[s]] /\ pc'[s] \in {"select", "rejected"}
    BY <1>8 DEF CasMiss, Goto, TypeOK
  <2>6. TypeOK'
    BY <1>8, <2>3, <2>4, <2>5 DEF CasMiss, TypeOK
  <2>7. RetryInv'
    BY <1>8, <2>5 DEF CasMiss, Synchronized, TypeOK, RetryInv
  <2> QED BY <2>6, <2>7
<1>9. ASSUME NEW s \in Session, UpdateCache(s) PROVE TypeOK' /\ RetryInv'
  BY <1>9, TargetType DEF UpdateCache, Goto, TypeOK, RetryInv
<1>10. ASSUME NEW s \in Session, Commit(s) PROVE TypeOK' /\ RetryInv'
  BY <1>10 DEF Commit, Release, Goto, TypeOK, RetryInv
<1>11. ASSUME NEW s \in Session, CloseRejected(s) PROVE TypeOK' /\ RetryInv'
  BY <1>11 DEF CloseRejected, Undo, Release, Visible, Goto, TypeOK, RetryInv
<1>12. ASSUME NEW s \in Session, Abort(s) PROVE TypeOK' /\ RetryInv'
  BY <1>12 DEF Abort, Undo, Release, Goto, TypeOK, RetryInv
<1> QED
  BY <1>1, <1>2, <1>3, <1>4, <1>5, <1>6, <1>7, <1>8, <1>9, <1>10, <1>11, <1>12
  DEF Next, Step

\* Every variable keeps its type, and no session swaps without a loaded Job.
THEOREM TypeCorrect == Spec => [](TypeOK /\ RetryInv)
<1>1. Init => TypeOK /\ RetryInv
  BY ConstantsAssumption DEF Init, TypeOK, RetryInv, Row, Snapshot, AuditRow,
     Transition, CacheEntry, Active, Closed, Writing
<1>2. TypeOK /\ RetryInv /\ [Next]_vars => (TypeOK /\ RetryInv)'
  BY TypeStep
<1> QED BY <1>1, <1>2, PTL DEF Spec

------------------------------------------------------------------------------
\* The holder's draft keeps status and version until its swap has hit, so what a
\* session sees before that is the committed row.
LEMMA VisibleBeforeSwap ==
  ASSUME TypeOK, LockInv, NEW s \in Session, pc[s] \notin Writing
  PROVE  Visible(s).status = row.status /\ Visible(s).version = row.version
  BY DEF LockInv, Visible, TypeOK, Row

\* The row changes status or version only when a session commits its swap.
LEMMA RowChange ==
  ASSUME TypeOK, LockInv, NEW s \in Session, CloseRejected(s)
  PROVE  row'.status = row.status /\ row'.version = row.version
<1>1. pc[s] \notin Writing
  BY DEF CloseRejected, Writing
<1> QED BY <1>1, VisibleBeforeSwap DEF CloseRejected, Undo

LEMMA LockStep ==
  ASSUME TypeOK, TypeOK', LockInv, RetryInv, [Next]_vars
  PROVE  LockInv'
<1> USE ConstantsAssumption DEF Row, Active, Closed, Writing
<1>1. CASE UNCHANGED vars
  BY <1>1 DEF LockInv, vars
<1>2. ASSUME NEW s \in Session, Load(s) PROVE LockInv'
  BY <1>2 DEF Load, Goto, TypeOK, LockInv
<1>3. ASSUME NEW s \in Session, RecordError(s) PROVE LockInv'
  BY <1>3 DEF RecordError, Goto, TypeOK, LockInv
<1>4. ASSUME NEW s \in Session, SkipError(s) PROVE LockInv'
  BY <1>4 DEF SkipError, Goto, TypeOK, LockInv
<1>5. ASSUME NEW s \in Session, Prepare(s) PROVE LockInv'
  BY <1>5 DEF Prepare, AtSelect, Goto, TypeOK, LockInv
<1>6. ASSUME NEW s \in Session, RejectInvalid(s) PROVE LockInv'
  BY <1>6 DEF RejectInvalid, AtSelect, Goto, TypeOK, LockInv
<1>7. ASSUME NEW s \in Session, CasHit(s) PROVE LockInv'
  <2>1. Visible(s).version = row.version
    BY <1>7, VisibleBeforeSwap DEF CasHit
  <2> QED BY <1>7, <2>1 DEF CasHit, Goto, TypeOK, LockInv
<1>8. ASSUME NEW s \in Session, CasMiss(s) PROVE LockInv'
  BY <1>8 DEF CasMiss, Goto, TypeOK, LockInv
<1>9. ASSUME NEW s \in Session, UpdateCache(s) PROVE LockInv'
  BY <1>9 DEF UpdateCache, Goto, TypeOK, LockInv
<1>10. ASSUME NEW s \in Session, Commit(s) PROVE LockInv'
  BY <1>10 DEF Commit, Release, Goto, TypeOK, LockInv
<1>11. ASSUME NEW s \in Session, CloseRejected(s) PROVE LockInv'
  <2>1. row'.status = row.status /\ row'.version = row.version
    BY <1>11, RowChange
  <2>2. CASE holder = s
    BY <1>11, <2>2 DEF CloseRejected, Undo, Release, Visible, Goto, TypeOK, LockInv
  <2>3. CASE holder # s
    <3>1. row' = row /\ draft' = draft /\ holder' = holder
      BY <1>11, <2>3 DEF CloseRejected, Undo, Release, Visible
    <3> QED BY <1>11, <2>3, <3>1 DEF CloseRejected, Goto, TypeOK, LockInv
  <2> QED BY <2>2, <2>3
<1>12. ASSUME NEW s \in Session, Abort(s) PROVE LockInv'
  BY <1>12 DEF Abort, Undo, Release, Goto, TypeOK, LockInv
<1> QED
  BY <1>1, <1>2, <1>3, <1>4, <1>5, <1>6, <1>7, <1>8, <1>9, <1>10, <1>11, <1>12
  DEF Next, Step

LEMMA SnapStep ==
  ASSUME TypeOK, TypeOK', LockInv, RetryInv, SnapInv, [Next]_vars
  PROVE  SnapInv'
<1> USE ConstantsAssumption DEF Row, Snapshot, Active, Closed, Writing
<1>1. CASE UNCHANGED vars
  BY <1>1 DEF SnapInv, vars
<1>2. ASSUME NEW s \in Session, Load(s) PROVE SnapInv'
  BY <1>2 DEF Load, Goto, TypeOK, SnapInv
<1>3. ASSUME NEW s \in Session, RecordError(s) PROVE SnapInv'
  BY <1>3 DEF RecordError, Goto, TypeOK, SnapInv
<1>4. ASSUME NEW s \in Session, SkipError(s) PROVE SnapInv'
  BY <1>4 DEF SkipError, Goto, TypeOK, SnapInv
<1>5. ASSUME NEW s \in Session, Prepare(s) PROVE SnapInv'
  <2>1. Visible(s).status = row.status /\ Visible(s).version = row.version
    BY <1>5, VisibleBeforeSwap DEF Prepare, AtSelect
  <2> QED BY <1>5, <2>1 DEF Prepare, AtSelect, Selected, Goto, TypeOK, SnapInv
<1>6. ASSUME NEW s \in Session, RejectInvalid(s) PROVE SnapInv'
  BY <1>6 DEF RejectInvalid, AtSelect, Goto, TypeOK, SnapInv
<1>7. ASSUME NEW s \in Session, CasHit(s) PROVE SnapInv'
  BY <1>7 DEF CasHit, Synchronized, Goto, TypeOK, SnapInv
<1>8. ASSUME NEW s \in Session, CasMiss(s) PROVE SnapInv'
  <2>1. row' = row /\ \A t \in Session \ {s} :
            snap'[t] = snap[t] /\ pc'[t] = pc[t] /\ attempt'[t] = attempt[t]
    BY <1>8 DEF CasMiss, Synchronized, Goto, TypeOK
  <2>2. CASE attempt[s] < MaxAttempts
    <3>1. attempt'[s] # 1
      BY <1>8, <2>2 DEF CasMiss, TypeOK
    <3>2. snap[s] # NoSnap => snap'[s].version = snap[s].version + 1
      BY <1>8 DEF CasMiss, Synchronized, TypeOK
    <3>3. snap'[s].version <= row.version
      <4>1. snap[s] # NoSnap /\ snap[s] \in Snapshot
        BY <1>8 DEF CasMiss, RetryInv, TypeOK
      <4>2. snap[s].version <= row.version
        BY <1>8, <4>1 DEF CasMiss, SnapInv
      <4>3. snap[s].version # row.version /\ row.version \in Nat
        BY <1>8 DEF CasMiss, TypeOK
      <4> QED BY <3>2, <4>1, <4>2, <4>3
    <3> QED BY <2>1, <3>1, <3>3 DEF SnapInv
  <2>3. CASE ~(attempt[s] < MaxAttempts)
    <3>1. pc'[s] = "rejected"
      BY <1>8, <2>3 DEF CasMiss, Goto, TypeOK
    <3> QED BY <2>1, <3>1 DEF SnapInv
  <2> QED BY <2>2, <2>3
<1>9. ASSUME NEW s \in Session, UpdateCache(s) PROVE SnapInv'
  BY <1>9 DEF UpdateCache, Goto, TypeOK, SnapInv
<1>10. ASSUME NEW s \in Session, Commit(s) PROVE SnapInv'
  <2>1. row'.version = row.version + 1
    BY <1>10 DEF Commit, LockInv
  <2> QED BY <1>10, <2>1 DEF Commit, Release, Goto, TypeOK, SnapInv
<1>11. ASSUME NEW s \in Session, CloseRejected(s) PROVE SnapInv'
  <2>1. row'.status = row.status /\ row'.version = row.version
    BY <1>11, RowChange
  <2> QED BY <1>11, <2>1 DEF CloseRejected, Undo, Release, Goto, TypeOK, SnapInv
<1>12. ASSUME NEW s \in Session, Abort(s) PROVE SnapInv'
  BY <1>12 DEF Abort, Undo, Release, Goto, TypeOK, SnapInv
<1> QED
  BY <1>1, <1>2, <1>3, <1>4, <1>5, <1>6, <1>7, <1>8, <1>9, <1>10, <1>11, <1>12
  DEF Next, Step

LEMMA ValidStep ==
  ASSUME TypeOK, TypeOK', LockInv, RetryInv, SnapInv, ValidInv, [Next]_vars
  PROVE  ValidInv'
<1> USE ConstantsAssumption DEF Row, Snapshot, Active, Closed, Writing
<1>1. CASE UNCHANGED vars
  BY <1>1 DEF ValidInv, vars
<1>2. ASSUME NEW s \in Session, Load(s) PROVE ValidInv'
  BY <1>2 DEF Load, Goto, TypeOK, ValidInv
<1>3. ASSUME NEW s \in Session, RecordError(s) PROVE ValidInv'
  BY <1>3 DEF RecordError, Goto, TypeOK, ValidInv
<1>4. ASSUME NEW s \in Session, SkipError(s) PROVE ValidInv'
  BY <1>4 DEF SkipError, Goto, TypeOK, ValidInv
<1>5. ASSUME NEW s \in Session, Prepare(s) PROVE ValidInv'
  <2>1. Selected(s) \in Snapshot
    BY SelectedType
  <2>2. snap'[s] = Selected(s) /\ IsValidTransition(snap'[s].status, Target(Call[s]))
    BY <1>5 DEF Prepare, TypeOK
  <2> QED BY <1>5, <2>1, <2>2 DEF Prepare, Goto, TypeOK, ValidInv
<1>6. ASSUME NEW s \in Session, RejectInvalid(s) PROVE ValidInv'
  BY <1>6 DEF RejectInvalid, Goto, TypeOK, ValidInv
<1>7. ASSUME NEW s \in Session, CasHit(s) PROVE ValidInv'
  <2>1. attempt[s] = 1 => IsValidTransition(row.status, Target(Call[s]))
    BY <1>7 DEF CasHit, RetryInv, SnapInv, ValidInv
  <2> QED BY <1>7, <2>1 DEF CasHit, Synchronized, Goto, TypeOK, ValidInv
<1>8. ASSUME NEW s \in Session, CasMiss(s) PROVE ValidInv'
  BY <1>8 DEF CasMiss, Synchronized, Goto, TypeOK, ValidInv
<1>9. ASSUME NEW s \in Session, UpdateCache(s) PROVE ValidInv'
  BY <1>9 DEF UpdateCache, Goto, TypeOK, ValidInv
<1>10. ASSUME NEW s \in Session, Commit(s) PROVE ValidInv'
  <2>1. \A t \in Session \ {s} : pc[t] \notin Writing
    BY <1>10 DEF Commit, LockInv
  <2> QED BY <1>10, <2>1 DEF Commit, Release, Goto, TypeOK, ValidInv
<1>11. ASSUME NEW s \in Session, CloseRejected(s) PROVE ValidInv'
  <2>1. row'.status = row.status
    BY <1>11, RowChange
  <2> QED BY <1>11, <2>1 DEF CloseRejected, Undo, Release, Goto, TypeOK, ValidInv
<1>12. ASSUME NEW s \in Session, Abort(s) PROVE ValidInv'
  BY <1>12 DEF Abort, Undo, Release, Goto, TypeOK, ValidInv
<1> QED
  BY <1>1, <1>2, <1>3, <1>4, <1>5, <1>6, <1>7, <1>8, <1>9, <1>10, <1>11, <1>12
  DEF Next, Step

LEMMA AdmitStep ==
  ASSUME TypeOK, TypeOK', LockInv, RetryInv, SnapInv, AdmitInv, [Next]_vars
  PROVE  AdmitInv'
<1> USE ConstantsAssumption DEF Row, Snapshot, Active, Closed, Writing
<1>1. CASE UNCHANGED vars
  BY <1>1 DEF AdmitInv, vars
<1>2. ASSUME NEW s \in Session, Load(s) PROVE AdmitInv'
  <2>1. Target(Call[s]) = "pending" /\ pc'[s] = "entered" =>
            snap'[s] # NoSnap /\ snap'[s].status \notin TerminalStates
    BY <1>2, PendingCallers DEF Load, Goto, TypeOK
  <2> QED BY <1>2, <2>1 DEF Load, Goto, TypeOK, AdmitInv
<1>3. ASSUME NEW s \in Session, RecordError(s) PROVE AdmitInv'
  BY <1>3, PendingCallers DEF RecordError, Goto, TypeOK, AdmitInv
<1>4. ASSUME NEW s \in Session, SkipError(s) PROVE AdmitInv'
  BY <1>4, PendingCallers DEF SkipError, Goto, TypeOK, AdmitInv
<1>5. ASSUME NEW s \in Session, Prepare(s) PROVE AdmitInv'
  BY <1>5 DEF Prepare, AtSelect, Selected, Goto, TypeOK, AdmitInv
<1>6. ASSUME NEW s \in Session, RejectInvalid(s) PROVE AdmitInv'
  BY <1>6 DEF RejectInvalid, Goto, TypeOK, AdmitInv
<1>7. ASSUME NEW s \in Session, CasHit(s) PROVE AdmitInv'
  <2>1. attempt[s] = 1 => snap[s].status = row.status
    BY <1>7 DEF CasHit, RetryInv, SnapInv
  <2> QED BY <1>7, <2>1 DEF CasHit, Synchronized, Goto, TypeOK, AdmitInv
<1>8. ASSUME NEW s \in Session, CasMiss(s) PROVE AdmitInv'
  BY <1>8 DEF CasMiss, Synchronized, Goto, TypeOK, AdmitInv
<1>9. ASSUME NEW s \in Session, UpdateCache(s) PROVE AdmitInv'
  BY <1>9 DEF UpdateCache, Goto, TypeOK, AdmitInv
<1>10. ASSUME NEW s \in Session, Commit(s) PROVE AdmitInv'
  <2>1. \A t \in Session \ {s} : pc[t] \notin Writing
    BY <1>10 DEF Commit, LockInv
  <2> QED BY <1>10, <2>1 DEF Commit, Release, Goto, TypeOK, AdmitInv
<1>11. ASSUME NEW s \in Session, CloseRejected(s) PROVE AdmitInv'
  <2>1. row'.status = row.status
    BY <1>11, RowChange
  <2> QED BY <1>11, <2>1 DEF CloseRejected, Undo, Release, Goto, TypeOK, AdmitInv
<1>12. ASSUME NEW s \in Session, Abort(s) PROVE AdmitInv'
  BY <1>12 DEF Abort, Undo, Release, Goto, TypeOK, AdmitInv
<1> QED
  BY <1>1, <1>2, <1>3, <1>4, <1>5, <1>6, <1>7, <1>8, <1>9, <1>10, <1>11, <1>12
  DEF Next, Step

\* Only Commit extends the history, and only by the swap of its own attempt.
LEMMA HistoryStep ==
  ASSUME IInv, TypeOK', [Next]_vars
  PROVE  NoLostTransition' /\ FirstAttemptIsLegal'
<1> USE ConstantsAssumption DEF IInv
<1>1. CASE history' = history /\ row'.version = row.version /\ row'.status = row.status
  BY <1>1 DEF NoLostTransition, FirstAttemptIsLegal
<1>2. ASSUME NEW s \in Session, Commit(s)
      PROVE NoLostTransition' /\ FirstAttemptIsLegal'
  <2> DEFINE new == [by |-> s, attempt |-> attempt[s], from |-> row.status,
                     to |-> draft.status, version |-> draft.version]
  <2>1. /\ draft.version = row.version + 1
        /\ draft.status = Target(Call[s])
        /\ attempt[s] = 1 => IsValidTransition(row.status, draft.status)
    BY <1>2 DEF Commit, LockInv, ValidInv, Writing
  <2>2. history' = history \cup {new} /\ row' = draft
    BY <1>2 DEF Commit
  <2>3. \A h \in history : h.version \in 1..row.version
    BY DEF NoLostTransition
  <2>4. row.version \in Nat
    BY DEF TypeOK, Row
  <2>5. NoLostTransition'
    <3>1. \A g, h \in history' : g.version = h.version => g = h
      BY <2>1, <2>2, <2>3, <2>4 DEF NoLostTransition
    <3>2. {h.version : h \in history'} = {h.version : h \in history} \cup {new.version}
      BY <2>2
    <3>3. {h.version : h \in history'} = 1..row'.version
      BY <2>1, <2>2, <2>4, <3>2 DEF NoLostTransition
    <3>4. \A h \in history' : h.version = row'.version => row'.status = h.to
      BY <2>1, <2>2, <2>3, <2>4 DEF NoLostTransition
    <3> QED BY <3>1, <3>3, <3>4 DEF NoLostTransition
  <2>6. FirstAttemptIsLegal'
    BY <2>1, <2>2 DEF FirstAttemptIsLegal
  <2> QED BY <2>5, <2>6
<1>3. ASSUME NEW s \in Session, CloseRejected(s)
      PROVE NoLostTransition' /\ FirstAttemptIsLegal'
  <2>1. row'.status = row.status /\ row'.version = row.version
    BY <1>3, RowChange
  <2> QED BY <1>1, <1>3, <2>1 DEF CloseRejected, Undo
<1>4. ASSUME NEW s \in Session, Load(s) \/ Abort(s) \/ (Step(s) /\ ~Commit(s) /\ ~CloseRejected(s))
      PROVE row' = row /\ history' = history
  BY <1>4 DEF Load, Abort, Undo, Step, RecordError, SkipError, Prepare, RejectInvalid,
     CasHit, CasMiss, UpdateCache
<1> QED BY <1>1, <1>2, <1>3, <1>4 DEF Next, Step, vars

LEMMA IInvInit == Init => IInv
<1> SUFFICES ASSUME Init PROVE IInv
  OBVIOUS
<1>1. TypeOK /\ RetryInv
  BY ConstantsAssumption DEF Init, TypeOK, RetryInv, Row, Snapshot, AuditRow,
     Transition, CacheEntry, Active, Closed, Writing
<1>2. LockInv /\ SnapInv /\ ValidInv /\ AdmitInv
  BY ConstantsAssumption, PendingCallers
  DEF Init, LockInv, SnapInv, ValidInv, AdmitInv, Writing
<1>3. NoLostTransition /\ FirstAttemptIsLegal
  BY DEF Init, NoLostTransition, FirstAttemptIsLegal
<1> QED BY <1>1, <1>2, <1>3 DEF IInv

LEMMA IInvStep == IInv /\ [Next]_vars => IInv'
<1> SUFFICES ASSUME IInv, [Next]_vars PROVE IInv'
  OBVIOUS
<1>1. TypeOK' /\ RetryInv'
  BY TypeStep DEF IInv
<1>2. LockInv' /\ SnapInv' /\ ValidInv' /\ AdmitInv'
  BY <1>1, LockStep, SnapStep, ValidStep, AdmitStep DEF IInv
<1>3. NoLostTransition' /\ FirstAttemptIsLegal'
  BY <1>1, HistoryStep
<1> QED BY <1>1, <1>2, <1>3 DEF IInv

LEMMA Invariance == Spec => []IInv
  BY IInvInit, IInvStep, PTL DEF Spec

\* No two committed transitions of a Job share a version and none is lost, for
\* any number of sessions, of any callers, with any number of attempts.
THEOREM NoLostTransitionCorrect == Spec => []NoLostTransition
<1>1. IInv => NoLostTransition
  BY DEF IInv
<1> QED BY <1>1, Invariance, PTL

\* The version swap makes a stale validation safe: what commits on a first
\* attempt is a legal transition of the status the row really had.
THEOREM FirstAttemptCorrect == Spec => []FirstAttemptIsLegal
<1>1. IInv => FirstAttemptIsLegal
  BY DEF IInv
<1> QED BY <1>1, Invariance, PTL

\* A terminal Job changes status only by a call that missed a swap.
THEOREM TerminalCorrect == Spec => TerminalLeftOnlyAfterMiss
<1>1. IInv /\ IInv' /\ [Next]_vars =>
        [ row.status \in TerminalStates /\ row'.status # row.status
          => \E h \in history' \ history : h.attempt > 1 ]_vars
  <2> SUFFICES ASSUME IInv, IInv', [Next]_vars, row.status \in TerminalStates,
                      row'.status # row.status
               PROVE  \E h \in history' \ history : h.attempt > 1
    OBVIOUS
  <2>1. PICK s \in Session : Commit(s)
    <3>1. ASSUME NEW s \in Session, CloseRejected(s) PROVE row'.status = row.status
      BY <3>1, RowChange DEF IInv
    <3> QED
      BY <3>1 DEF Next, Step, vars, Load, Abort, Undo, RecordError, SkipError, Prepare,
         RejectInvalid, CasHit, CasMiss, UpdateCache
  <2> DEFINE new == [by |-> s, attempt |-> attempt[s], from |-> row.status,
                     to |-> draft.status, version |-> draft.version]
  <2>2. /\ draft.version = row.version + 1
        /\ draft.status = Target(Call[s])
        /\ attempt[s] = 1 => IsValidTransition(row.status, draft.status)
    BY <2>1 DEF Commit, LockInv, ValidInv, Writing, IInv
  <2>3. new \in history' /\ row' = draft
    BY <2>1 DEF Commit
  <2>4. new \notin history
    BY <2>2 DEF IInv, NoLostTransition, TypeOK, Row
  <2>5. attempt[s] # 1
    <3>1. CASE Target(Call[s]) = "pending"
      BY <2>1, <3>1 DEF Commit, AdmitInv, Writing, IInv
    <3>2. CASE Target(Call[s]) # "pending"
      <4>1. ~IsValidTransition(row.status, draft.status)
        BY <2>2, <2>3, <3>2 DEF IsValidTransition, TerminalStates, ValidTransitions
      <4> QED BY <2>2, <4>1
    <3> QED BY <3>1, <3>2
  <2>6. attempt[s] > 1
    BY <2>1, <2>5, ConstantsAssumption DEF IInv, TypeOK
  <2> QED BY <2>3, <2>4, <2>6
<1> QED BY <1>1, Invariance, PTL DEF Spec, TerminalLeftOnlyAfterMiss

------------------------------------------------------------------------------
(* What the transitions leave behind: the audit rows and the cached status.   *)

\* The audit row of the attempt that swaps waits in the session for its commit;
\* that of a first attempt is from the status the row has until then.
AuditInv ==
    \A s \in Session : pc[s] \in {"cas"} \cup Writing =>
        \E a \in pending[s] :
            /\ a.by = s /\ a.attempt = attempt[s] /\ a.to = Target(Call[s])
            /\ attempt[s] = 1 =>
                   a.from = IF pc[s] = "cas" THEN snap[s].status ELSE row.status

\* The cached status is at most that of the swap now under the row lock.  Between
\* cache write and commit it is the draft's: the same session holds the lock.
CacheInv ==
    /\ cache.version <= row.version + 1
    /\ cache.by # NoSession =>
           /\ pc[cache.by] \in {"flushed"} \cup Closed
           /\ pc[cache.by] = "flushed" =>
                  cache.version = draft.version /\ cache.status = draft.status
    /\ CacheFollowsRow

\* What one step of a session leaves alone of another, and of the row.
LEMMA OthersStay ==
  ASSUME IInv, NEW s \in Session, Load(s) \/ Step(s) \/ Abort(s)
  PROVE  /\ \A t \in Session \ {s} : /\ pc'[t] = pc[t] /\ pending'[t] = pending[t]
                                     /\ attempt'[t] = attempt[t] /\ snap'[t] = snap[t]
         /\ ~Commit(s) => /\ row'.status = row.status /\ row'.version = row.version
                          /\ audit \subseteq audit' /\ history' = history
<1> USE DEF IInv, TypeOK, Goto
<1>1. CASE Load(s)
  BY <1>1 DEF Load
<1>2. CASE RecordError(s)
  BY <1>2 DEF RecordError
<1>3. CASE SkipError(s)
  BY <1>3 DEF SkipError
<1>4. CASE Prepare(s)
  BY <1>4 DEF Prepare
<1>5. CASE RejectInvalid(s)
  BY <1>5 DEF RejectInvalid
<1>6. CASE CasHit(s)
  BY <1>6 DEF CasHit, Synchronized
<1>7. CASE CasMiss(s)
  BY <1>7 DEF CasMiss, Synchronized
<1>8. CASE UpdateCache(s)
  BY <1>8 DEF UpdateCache
<1>9. CASE Commit(s)
  BY <1>9 DEF Commit, Release
<1>10. CASE CloseRejected(s)
  BY <1>10, RowChange DEF CloseRejected, Undo, Release
<1>11. CASE Abort(s)
  BY <1>11 DEF Abort, Undo, Release
<1> QED
  BY <1>1, <1>2, <1>3, <1>4, <1>5, <1>6, <1>7, <1>8, <1>9, <1>10, <1>11 DEF Step

\* What leads a session to its swap and past it.
LEMMA AuditOwn ==
  ASSUME IInv, IInv', AuditInv, NEW s \in Session, Load(s) \/ Step(s) \/ Abort(s),
         pc'[s] \in {"cas"} \cup Writing
  PROVE  \E a \in pending'[s] :
            /\ a.by = s /\ a.attempt = attempt'[s] /\ a.to = Target(Call[s])
            /\ attempt'[s] = 1 =>
                   a.from = IF pc'[s] = "cas" THEN snap'[s].status ELSE row'.status
<1>1. TypeOK /\ SnapInv /\ RetryInv /\ LockInv
  BY DEF IInv
<1>2. Prepare(s) \/ CasHit(s) \/ UpdateCache(s)
  BY <1>1 DEF Step, Load, RecordError, SkipError, RejectInvalid, CasMiss, Commit,
     CloseRejected, Abort, Goto, TypeOK, Writing
<1>3. CASE Prepare(s)
  <2> DEFINE a == [by |-> s, attempt |-> attempt[s],
                   from |-> Selected(s).status, to |-> Target(Call[s])]
  <2>1. a \in pending'[s]
    BY <1>1, <1>3 DEF Prepare, TypeOK
  <2>2. pc'[s] = "cas" /\ snap'[s] = Selected(s) /\ attempt' = attempt
    BY <1>1, <1>3 DEF Prepare, Goto, TypeOK
  <2> QED BY <2>1, <2>2
<1>4. CASE CasHit(s)
  <2>1. attempt[s] = 1 => snap[s].status = row.status
    BY <1>1, <1>4 DEF CasHit, RetryInv, SnapInv
  <2>2. /\ pc[s] = "cas" /\ pc'[s] = "written" /\ pending' = pending
        /\ attempt' = attempt /\ row' = row
    BY <1>1, <1>4 DEF CasHit, Goto, TypeOK
  <2> QED BY <2>1, <2>2 DEF AuditInv
<1>5. CASE UpdateCache(s)
  <2>1. /\ pc[s] = "written" /\ pc'[s] = "flushed" /\ pending' = pending
        /\ attempt' = attempt /\ row' = row
    BY <1>1, <1>5 DEF UpdateCache, Goto, TypeOK
  <2> QED BY <2>1 DEF AuditInv, Writing
<1> QED BY <1>2, <1>3, <1>4, <1>5

LEMMA AuditStep ==
  ASSUME IInv, IInv', AuditInv, AuditCoversHistory, [Next]_vars
  PROVE  AuditInv' /\ AuditCoversHistory'
<1>1. CASE UNCHANGED vars
  BY <1>1 DEF AuditInv, AuditCoversHistory, vars
<1>2. ASSUME NEW s \in Session, Load(s) \/ Step(s) \/ Abort(s)
      PROVE  AuditInv' /\ AuditCoversHistory'
  <2>1. AuditInv'
    <3> SUFFICES ASSUME NEW t \in Session, pc'[t] \in {"cas"} \cup Writing
        PROVE \E a \in pending'[t] :
                /\ a.by = t /\ a.attempt = attempt'[t] /\ a.to = Target(Call[t])
                /\ attempt'[t] = 1 =>
                       a.from = IF pc'[t] = "cas" THEN snap'[t].status ELSE row'.status
      BY DEF AuditInv
    <3>1. CASE t = s
      BY <1>2, <3>1, AuditOwn
    <3>2. CASE t # s
      <4>1. /\ pc'[t] = pc[t] /\ pending'[t] = pending[t]
            /\ attempt'[t] = attempt[t] /\ snap'[t] = snap[t]
        BY <1>2, <3>2, OthersStay
      <4>2. pc[t] \in Writing => row'.status = row.status
        BY <1>2, <3>2, OthersStay DEF IInv, LockInv, Commit, Writing
      <4>3. "cas" \notin Writing
        BY DEF Writing
      <4> QED BY <4>1, <4>2, <4>3 DEF AuditInv
    <3> QED BY <3>1, <3>2
  <2>2. CASE ~Commit(s)
    BY <1>2, <2>1, <2>2, OthersStay DEF AuditCoversHistory
  <2>3. CASE Commit(s)
    <3> DEFINE new == [by |-> s, attempt |-> attempt[s], from |-> row.status,
                       to |-> draft.status, version |-> draft.version]
    <3>1. pc[s] = "flushed" /\ draft.status = Target(Call[s])
      BY <2>3, ConstantsAssumption DEF Commit, IInv, LockInv, Writing
    <3>2. PICK a \in pending[s] :
            /\ a.by = s /\ a.attempt = attempt[s] /\ a.to = Target(Call[s])
            /\ attempt[s] = 1 => a.from = row.status
      BY <3>1 DEF AuditInv, Writing
    <3>3. audit' = audit \cup pending[s] /\ history' = history \cup {new}
      BY <2>3 DEF Commit
    <3> QED BY <2>1, <3>1, <3>2, <3>3 DEF AuditCoversHistory
  <2> QED BY <2>1, <2>2, <2>3
<1> QED BY <1>1, <1>2 DEF Next, vars

\* No transition is committed without its audit row, whoever else runs: the row
\* of the attempt that hits is in the same transaction as the swap.
THEOREM AuditCorrect == Spec => []AuditCoversHistory
<1>1. Init => AuditInv /\ AuditCoversHistory
  BY DEF Init, AuditInv, AuditCoversHistory, Writing
<1>2. IInv /\ IInv' /\ AuditInv /\ AuditCoversHistory /\ [Next]_vars
        => (AuditInv /\ AuditCoversHistory)'
  BY AuditStep
<1> QED BY <1>1, <1>2, Invariance, PTL DEF Spec

\* A cache write is of the swap under the lock, and newer than any before.
LEMMA CacheStep ==
  ASSUME IInv, IInv', CacheInv, [Next]_vars
  PROVE  CacheInv' /\ cache'.version >= cache.version
<1> USE ConstantsAssumption
<1>1. CASE UNCHANGED vars
  <2>1. cache.version \in Nat
    BY DEF IInv, TypeOK, CacheEntry
  <2> QED BY <1>1, <2>1 DEF CacheInv, CacheFollowsRow, vars
<1>2. ASSUME NEW s \in Session, Load(s) \/ Step(s) \/ Abort(s)
      PROVE  CacheInv' /\ cache'.version >= cache.version
  <2>1. /\ cache.version \in Nat /\ row.version \in Nat /\ s # NoSession
        /\ cache.by \in Session \cup {NoSession}
    BY DEF IInv, TypeOK, CacheEntry, Row
  <2>2. \A t \in Session \ {s} : pc'[t] = pc[t]
    BY <1>2, OthersStay
  <2>3. CASE UpdateCache(s) /\ cache' # cache
    <3>1. /\ pc[s] = "written" /\ pc'[s] = "flushed" /\ draft' = draft /\ row' = row
          /\ cache' = [status |-> Target(Call[s]), version |-> draft.version, by |-> s]
      BY <2>3 DEF UpdateCache, Goto, IInv, TypeOK
    <3>2. draft.version = row.version + 1 /\ draft.status = Target(Call[s])
      BY <2>1, <3>1 DEF IInv, LockInv, Writing
    <3> QED BY <2>1, <3>1, <3>2 DEF CacheInv, CacheFollowsRow
  <2>4. CASE cache' = cache /\ Commit(s)
    <3>1. /\ pc[s] = "flushed" /\ pc'[s] = "done" /\ row' = draft /\ draft' = draft
      BY <2>4 DEF Commit, Goto, IInv, TypeOK
    <3>2. draft.version = row.version + 1 /\ draft.status = Target(Call[s])
      BY <2>1, <3>1 DEF IInv, LockInv, Writing
    <3>3. \A t \in Session \ {s} : pc[t] # "flushed"
      BY <2>1, <3>1 DEF IInv, LockInv, Writing
    <3>4. CASE cache.by = s
      BY <2>1, <2>4, <3>1, <3>2, <3>4 DEF CacheInv, CacheFollowsRow, Closed
    <3>5. CASE cache.by # s
      BY <2>1, <2>2, <2>4, <3>1, <3>2, <3>3, <3>5 DEF CacheInv, CacheFollowsRow, Closed
    <3> QED BY <3>4, <3>5
  <2>5. CASE cache' = cache /\ ~Commit(s)
    <3>1. row'.status = row.status /\ row'.version = row.version
      BY <1>2, <2>5, OthersStay
    <3>2. cache.by = s => pc'[s] \in Closed \ {"done"} \/ (pc'[s] = "done" /\ pc[s] = "done")
      <4> SUFFICES ASSUME cache.by = s
          PROVE pc'[s] \in Closed \ {"done"} \/ (pc'[s] = "done" /\ pc[s] = "done")
        OBVIOUS
      <4>1. pc[s] \in {"flushed"} \cup Closed
        BY <2>1 DEF CacheInv
      <4>2. Abort(s)
        BY <1>2, <2>5, <4>1 DEF Step, Load, RecordError, SkipError, Prepare, AtSelect,
           RejectInvalid, CasHit, CasMiss, UpdateCache, CloseRejected, Closed
      <4> QED BY <4>2 DEF Abort, Goto, Closed, IInv, TypeOK
    <3>3. \A t \in Session \ {s} : pc[t] = "flushed" => draft' = draft
      <4> SUFFICES ASSUME NEW t \in Session \ {s}, pc[t] = "flushed" PROVE draft' = draft
        OBVIOUS
      <4>1. holder = t
        BY DEF IInv, LockInv, Writing
      <4> QED BY <1>2, <2>1, <2>5, <4>1 DEF Step, Load, RecordError, SkipError, Prepare,
           RejectInvalid, CasHit, CasMiss, UpdateCache, CloseRejected, Abort, Undo
    <3>4. cache'.version >= cache.version /\ cache'.version <= row'.version + 1
      BY <2>1, <2>5, <3>1 DEF CacheInv
    <3>5. CASE cache.by = s
      BY <2>1, <2>5, <3>1, <3>2, <3>4, <3>5 DEF CacheInv, CacheFollowsRow, Closed
    <3>6. CASE cache.by # s
      BY <2>1, <2>2, <2>5, <3>1, <3>3, <3>4, <3>6 DEF CacheInv, CacheFollowsRow
    <3> QED BY <3>5, <3>6
  <2>6. cache' = cache \/ UpdateCache(s)
    BY <1>2 DEF Step, Load, RecordError, SkipError, Prepare, RejectInvalid, CasHit,
       CasMiss, Commit, Release, CloseRejected, Abort, Undo
  <2> QED BY <2>3, <2>4, <2>5, <2>6
<1> QED BY <1>1, <1>2 DEF Next, vars

LEMMA CacheInvariance == Spec => []CacheInv
<1>1. Init => CacheInv
  BY DEF Init, CacheInv, CacheFollowsRow
<1>2. IInv /\ IInv' /\ CacheInv /\ [Next]_vars => CacheInv'
  BY CacheStep
<1> QED BY <1>1, <1>2, Invariance, PTL DEF Spec

\* What a committed writer has cached is the row's status or an older one's.
THEOREM CacheCorrect == Spec => []CacheFollowsRow
<1>1. CacheInv => CacheFollowsRow
  BY DEF CacheInv
<1> QED BY <1>1, CacheInvariance, PTL

\* Because the cache is written under the row lock, no writer is overtaken.
THEOREM CacheOrderCorrect == Spec => CacheNeverRegresses
<1>1. IInv /\ IInv' /\ CacheInv /\ [Next]_vars => [cache'.version >= cache.version]_vars
  BY CacheStep
<1> QED BY <1>1, Invariance, CacheInvariance, PTL DEF Spec, CacheNeverRegresses

------------------------------------------------------------------------------
(* The protocol implements JobRow: however long a caller held the loaded Job, *)
(* the transition it commits was legal from a status the row had at most      *)
(* MaxAttempts - 1 versions before.                                           *)

\* The version from which session s has validated its target: the one it loaded,
\* which every missed swap has pushed up by one in the session.
Origin(s) == snap[s].version - attempt[s] + 1

\* The loaded Job is a version the row has had; once validated, the target stays
\* legal from the status of that version.
OriginInv ==
    /\ row.version = 0 => row.status = InitStatus
    /\ \A s \in Session :
        /\ pc[s] \in {"idle", "entered"} => attempt[s] = 1
        /\ pc[s] \in {"entered", "select"} /\ attempt[s] = 1 /\ snap[s] # NoSnap =>
               /\ snap[s].version \in 0..row.version
               /\ StatusAt[snap[s].version] = snap[s].status
        /\ pc[s] = "cas" \/ (pc[s] = "select" /\ attempt[s] > 1) =>
               /\ snap[s] # NoSnap
               /\ Origin(s) \in 0..row.version
               /\ IsValidTransition(StatusAt[Origin(s)], Target(Call[s]))
        /\ pc[s] \in Writing =>
               /\ row.version - attempt[s] + 1 \in 0..row.version
               /\ IsValidTransition(StatusAt[row.version - attempt[s] + 1], Target(Call[s]))

\* The row's own status is the last of StatusAt.
LEMMA StatusNow ==
  ASSUME TypeOK, NoLostTransition, OriginInv
  PROVE  StatusAt[row.version] = row.status
<1>1. row.version \in Nat
  BY DEF TypeOK, Row
<1>2. CASE row.version = 0
  BY <1>2 DEF StatusAt, OriginInv
<1>3. CASE row.version # 0
  <2>1. PICK h \in history : h.version = row.version
    BY <1>1, <1>3 DEF NoLostTransition
  <2>2. (CHOOSE g \in history : g.version = row.version).to = row.status
    BY <2>1 DEF NoLostTransition
  <2> QED BY <1>1, <1>3, <2>2 DEF StatusAt
<1> QED BY <1>2, <1>3

\* A step that commits nothing leaves StatusAt alone.
LEMMA StatusAtSame ==
  ASSUME history' = history, row'.version = row.version
  PROVE  StatusAt' = StatusAt
  BY DEF StatusAt

\* A commit appends to StatusAt.
LEMMA StatusAtCommit ==
  ASSUME IInv, NEW s \in Session, Commit(s)
  PROVE  /\ row'.version = row.version + 1
         /\ row'.status = Target(Call[s])
         /\ StatusAt' = [v \in 0..(row.version + 1) |->
                            IF v <= row.version THEN StatusAt[v] ELSE Target(Call[s])]
<1> DEFINE new == [by |-> s, attempt |-> attempt[s], from |-> row.status,
                   to |-> draft.status, version |-> draft.version]
<1>1. draft.version = row.version + 1 /\ draft.status = Target(Call[s])
  BY ConstantsAssumption DEF IInv, Commit, LockInv, Writing
<1>2. history' = history \cup {new} /\ row' = draft
  BY DEF Commit
<1>3. row.version \in Nat
  BY DEF IInv, TypeOK, Row
<1>4. \A h \in history : h.version \in 1..row.version
  BY DEF IInv, NoLostTransition
<1>5. ASSUME NEW v \in 1..row.version
      PROVE (CHOOSE h \in history' : h.version = v) = (CHOOSE h \in history : h.version = v)
  <2>1. PICK h \in history : h.version = v
    BY DEF IInv, NoLostTransition
  <2>2. \A g \in history' : g.version = v => g = h
    BY <1>1, <1>2, <1>3, <2>1 DEF IInv, NoLostTransition
  <2>3. (CHOOSE g \in history' : g.version = v) = h
    BY <1>2, <2>1, <2>2
  <2>4. (CHOOSE g \in history : g.version = v) = h
    BY <1>2, <2>1, <2>2
  <2> QED BY <2>3, <2>4
<1>6. (CHOOSE h \in history' : h.version = row.version + 1).to = Target(Call[s])
  <2>1. \A g \in history' : g.version = row.version + 1 => g = new
    BY <1>1, <1>2, <1>3, <1>4
  <2>2. new \in history' /\ new.version = row.version + 1
    BY <1>1, <1>2
  <2>3. (CHOOSE h \in history' : h.version = row.version + 1) = new
    BY <2>1, <2>2
  <2>4. new.to = Target(Call[s])
    BY <1>1
  <2> HIDE DEF new
  <2> QED BY <2>3, <2>4
<1>7. \A v \in 0..(row.version + 1) :
        (IF v = 0 THEN InitStatus ELSE (CHOOSE h \in history' : h.version = v).to)
        = (IF v <= row.version THEN StatusAt[v] ELSE Target(Call[s]))
  <2> SUFFICES ASSUME NEW v \in 0..(row.version + 1)
      PROVE (IF v = 0 THEN InitStatus ELSE (CHOOSE h \in history' : h.version = v).to)
            = (IF v <= row.version THEN StatusAt[v] ELSE Target(Call[s]))
    OBVIOUS
  <2>1. CASE v = 0
    BY <1>3, <2>1 DEF StatusAt
  <2>2. CASE v \in 1..row.version
    BY <1>3, <1>5, <2>2 DEF StatusAt
  <2>3. CASE v = row.version + 1
    BY <1>3, <1>6, <2>3
  <2> QED BY <1>3, <2>1, <2>2, <2>3
<1>8. row'.version = row.version + 1
  BY <1>1, <1>2
<1> QED BY <1>1, <1>2, <1>7, <1>8 DEF StatusAt

LEMMA OriginInit == Init => OriginInv
  BY ConstantsAssumption DEF Init, OriginInv, Writing

\* One step of the protocol, as JobRow sees it and for each session's origin.
LEMMA OriginStep ==
  ASSUME IInv, IInv', OriginInv, [Next]_vars
  PROVE  OriginInv'
<1> USE ConstantsAssumption DEF Row, Snapshot, Active, Closed, Writing
<1>0. TypeOK /\ TypeOK' /\ LockInv /\ SnapInv /\ RetryInv /\ NoLostTransition
  BY DEF IInv
<1>1. CASE UNCHANGED vars
  BY <1>1 DEF OriginInv, Origin, StatusAt, vars
<1>2. ASSUME NEW s \in Session, Load(s) PROVE OriginInv'
  <2>1. StatusAt' = StatusAt /\ StatusAt[row.version] = row.status
    BY <1>0, <1>2, StatusNow, StatusAtSame DEF Load
  <2> QED BY <1>0, <1>2, <2>1 DEF Load, Goto, TypeOK, OriginInv, Origin
<1>3. ASSUME NEW s \in Session, RecordError(s) PROVE OriginInv'
  <2>1. StatusAt' = StatusAt
    BY <1>3, StatusAtSame DEF RecordError
  <2> QED BY <1>0, <1>3, <2>1 DEF RecordError, Goto, TypeOK, OriginInv, Origin
<1>4. ASSUME NEW s \in Session, SkipError(s) PROVE OriginInv'
  <2>1. StatusAt' = StatusAt
    BY <1>4, StatusAtSame DEF SkipError
  <2> QED BY <1>0, <1>4, <2>1 DEF SkipError, Goto, TypeOK, OriginInv, Origin
<1>5. ASSUME NEW s \in Session, Prepare(s) PROVE OriginInv'
  <2>1. StatusAt' = StatusAt /\ StatusAt[row.version] = row.status
    BY <1>0, <1>5, StatusNow, StatusAtSame DEF Prepare
  <2>2. Visible(s).status = row.status /\ Visible(s).version = row.version
    BY <1>0, <1>5, VisibleBeforeSwap DEF Prepare, AtSelect
  <2>3. Selected(s) \in Snapshot
    BY <1>0, SelectedType
  <2>4. /\ Selected(s).version - attempt[s] + 1 \in 0..row.version
        /\ IsValidTransition(StatusAt[Selected(s).version - attempt[s] + 1], Target(Call[s]))
    <3>1. CASE attempt[s] = 1
      <4>1. /\ Selected(s).version \in 0..row.version
            /\ StatusAt[Selected(s).version] = Selected(s).status
        BY <1>0, <1>5, <2>1, <2>2, <3>1
        DEF Prepare, AtSelect, Selected, TypeOK, OriginInv
      <4> QED BY <1>5, <3>1, <4>1 DEF Prepare
    <3>2. CASE attempt[s] # 1
      BY <1>0, <1>5, <3>2 DEF Prepare, AtSelect, Selected, TypeOK, OriginInv, Origin
    <3> QED BY <3>1, <3>2
  <2> QED BY <1>0, <1>5, <2>1, <2>3, <2>4 DEF Prepare, Goto, TypeOK, OriginInv, Origin
<1>6. ASSUME NEW s \in Session, RejectInvalid(s) PROVE OriginInv'
  <2>1. StatusAt' = StatusAt
    BY <1>6, StatusAtSame DEF RejectInvalid
  <2> QED BY <1>0, <1>6, <2>1 DEF RejectInvalid, Goto, TypeOK, OriginInv, Origin
<1>7. ASSUME NEW s \in Session, CasHit(s) PROVE OriginInv'
  <2>1. StatusAt' = StatusAt
    BY <1>7, StatusAtSame DEF CasHit
  <2> QED BY <1>0, <1>7, <2>1 DEF CasHit, Synchronized, Goto, TypeOK, OriginInv, Origin
<1>8. ASSUME NEW s \in Session, CasMiss(s) PROVE OriginInv'
  <2>1. StatusAt' = StatusAt
    BY <1>8, StatusAtSame DEF CasMiss
  <2>2. snap[s] \in Snapshot /\ attempt[s] \in Nat
    BY <1>0, <1>8 DEF CasMiss, TypeOK, RetryInv
  <2>3. snap'[s].version = snap[s].version + 1
    BY <1>0, <1>8 DEF CasMiss, Synchronized, TypeOK
  <2>4. snap'[s] # NoSnap
    BY <1>0, <1>8, <2>2, TargetType DEF CasMiss, Synchronized, TypeOK
  <2>5. CASE attempt[s] < MaxAttempts
    <3>1. attempt'[s] = attempt[s] + 1 /\ pc'[s] = "select"
      BY <1>0, <1>8, <2>5 DEF CasMiss, Goto, TypeOK
    <3>2. snap'[s].version - attempt'[s] + 1 = Origin(s)
      BY <2>2, <2>3, <3>1 DEF Origin
    <3> QED BY <1>0, <1>8, <2>1, <2>2, <2>4, <3>1, <3>2
         DEF CasMiss, Synchronized, Goto, TypeOK, OriginInv, Origin
  <2>6. CASE ~(attempt[s] < MaxAttempts)
    BY <1>0, <1>8, <2>1, <2>6 DEF CasMiss, Synchronized, Goto, TypeOK, OriginInv, Origin
  <2> QED BY <2>5, <2>6
<1>9. ASSUME NEW s \in Session, UpdateCache(s) PROVE OriginInv'
  <2>1. StatusAt' = StatusAt
    BY <1>9, StatusAtSame DEF UpdateCache
  <2> QED BY <1>0, <1>9, <2>1 DEF UpdateCache, Goto, TypeOK, OriginInv, Origin
<1>10. ASSUME NEW s \in Session, Commit(s) PROVE OriginInv'
  <2>1. /\ row'.version = row.version + 1
        /\ \A v \in 0..row.version : StatusAt'[v] = StatusAt[v]
    BY <1>0, <1>10, StatusAtCommit DEF TypeOK
  <2>2. \A t \in Session \ {s} : pc[t] \notin Writing
    BY <1>0, <1>10 DEF Commit, LockInv
  <2> QED BY <1>0, <1>10, <2>1, <2>2 DEF Commit, Release, Goto, TypeOK, OriginInv, Origin
<1>11. ASSUME NEW s \in Session, CloseRejected(s) PROVE OriginInv'
  <2>1. row'.status = row.status /\ row'.version = row.version /\ history' = history
    BY <1>0, <1>11, RowChange DEF CloseRejected, Undo
  <2>2. StatusAt' = StatusAt
    BY <2>1, StatusAtSame
  <2> QED BY <1>0, <1>11, <2>1, <2>2
       DEF CloseRejected, Undo, Release, Goto, TypeOK, OriginInv, Origin
<1>12. ASSUME NEW s \in Session, Abort(s) PROVE OriginInv'
  <2>1. StatusAt' = StatusAt
    BY <1>12, StatusAtSame DEF Abort, Undo
  <2> QED BY <1>0, <1>12, <2>1 DEF Abort, Undo, Release, Goto, TypeOK, OriginInv, Origin
<1> QED
  BY <1>1, <1>2, <1>3, <1>4, <1>5, <1>6, <1>7, <1>8, <1>9, <1>10, <1>11, <1>12
  DEF Next, Step

\* The refinement: initial states map to JobRow's, a commit maps to Move, every
\* other step to a stutter.
THEOREM Refinement == Spec => RowPromise
<1>1. Init => Promise!Init
  BY ConstantsAssumption DEF Init, Promise!Init, StatusAt
<1>2. IInv /\ OriginInv /\ [Next]_vars => [Promise!Next]_(Promise!rowVars)
  <2> SUFFICES ASSUME IInv, OriginInv, [Next]_vars
               PROVE  Promise!Next \/ UNCHANGED Promise!rowVars
    OBVIOUS
  <2>1. CASE history' = history /\ row'.version = row.version
    BY <2>1, StatusAtSame DEF Promise!rowVars
  <2>2. ASSUME NEW s \in Session, Commit(s) PROVE Promise!Next
    <3> DEFINE w == row.version - attempt[s] + 1
    <3>1. /\ w \in 0..row.version
          /\ IsValidTransition(StatusAt[w], Target(Call[s]))
      BY <2>2 DEF Commit, OriginInv, Writing
    <3>2. row.version - w < MaxAttempts
      BY <3>1, ConstantsAssumption DEF IInv, TypeOK, Row
    <3>3. Promise!Move(Target(Call[s]))
      BY <2>2, <3>1, <3>2, StatusAtCommit, SMT DEF Promise!Move, Promise!IsValidTransition,
         IsValidTransition, Promise!ValidTransitions, ValidTransitions,
         Promise!TerminalStates, TerminalStates
    <3> QED BY <3>3, TargetType DEF Promise!Next, Promise!Statuses, Statuses
  <2>3. ASSUME NEW s \in Session, CloseRejected(s)
        PROVE history' = history /\ row'.version = row.version
    BY <2>3, RowChange DEF IInv, CloseRejected, Undo
  <2>4. ASSUME NEW s \in Session, Load(s) \/ Abort(s) \/ (Step(s) /\ ~Commit(s) /\ ~CloseRejected(s))
        PROVE row' = row /\ history' = history
    BY <2>4 DEF Load, Abort, Undo, Step, RecordError, SkipError, Prepare, RejectInvalid,
       CasHit, CasMiss, UpdateCache
  <2> QED BY <2>1, <2>2, <2>3, <2>4 DEF Next, Step, vars
<1>3. Spec => [](IInv /\ OriginInv)
  <2>1. Spec => []OriginInv
    BY Invariance, OriginInit, OriginStep, PTL DEF Spec
  <2> QED BY <2>1, Invariance, PTL
<1> QED BY <1>1, <1>2, <1>3, PTL DEF Spec, RowPromise, Promise!Spec

------------------------------------------------------------------------------
(* What JobProcessing and JobAdmission take for the outcome of the protocol. *)

\* The version of the Job that a call to the protocol has loaded first: each missed swap
\* moves the loaded version on by one.
Seen(s) == IF snap[s] = NoSnap THEN row.version ELSE Origin(s)

Undecided == {"entered", "select", "cas"}

\* What JobProcessing (Swaps) and JobAdmission take for the outcome of the protocol.
Swappable(s) ==
    /\ IsValidTransition(StatusAt[Seen(s)], Target(Call[s]))
    /\ row.version - Seen(s) < MaxAttempts

\* A retry finds in the session the values of its failed UPDATE.
AgainInv ==
    \A s \in Session : pc[s] \in {"select", "cas"} /\ attempt[s] > 1 =>
        snap[s] # NoSnap /\ snap[s].status = Target(Call[s])

\* What a session that has not decided yet may do.
LEMMA UndecidedStep ==
  ASSUME TypeOK, NEW s \in Session, Load(s) \/ Step(s) \/ Abort(s), pc[s] \in Undecided
  PROVE  \/ RecordError(s) \/ SkipError(s) \/ Prepare(s) \/ RejectInvalid(s)
         \/ CasHit(s) \/ CasMiss(s)
         \/ pc'[s] = "aborted"
  BY DEF Step, Load, UpdateCache, Commit, CloseRejected, Abort, Undecided, Goto, TypeOK

LEMMA AgainStep ==
  ASSUME IInv, OriginInv, AgainInv, [Next]_vars
  PROVE  AgainInv'
<1> USE DEF Goto, Snapshot
<1>0. TypeOK /\ RetryInv
  BY DEF IInv
<1>1. ASSUME NEW s \in Session, Load(s) \/ Step(s) \/ Abort(s) PROVE AgainInv'
  <2>1. \A t \in Session \ {s} : /\ pc'[t] = pc[t] /\ attempt'[t] = attempt[t]
                                 /\ snap'[t] = snap[t]
    BY <1>1, OthersStay
  <2> SUFFICES ASSUME pc'[s] \in {"select", "cas"}, attempt'[s] > 1
               PROVE  snap'[s] # NoSnap /\ snap'[s].status = Target(Call[s])
    BY <2>1 DEF AgainInv
  <2>2. RecordError(s) \/ SkipError(s) \/ Prepare(s) \/ CasMiss(s)
    BY <1>0, <1>1 DEF Step, Load, RejectInvalid, CasHit, UpdateCache, Commit, CloseRejected,
       Abort, TypeOK
  <2>3. CASE RecordError(s) \/ SkipError(s)
    BY <1>0, <2>3 DEF RecordError, SkipError, OriginInv, TypeOK
  <2>4. CASE Prepare(s)
    <3>1. pc[s] = "select" /\ attempt[s] > 1
      BY <1>0, <2>4 DEF Prepare, AtSelect, OriginInv, TypeOK
    <3> QED BY <1>0, <2>4, <3>1 DEF Prepare, Selected, AgainInv, TypeOK
  <2>5. CASE CasMiss(s)
    <3>1. snap'[s] = [status |-> Target(Call[s]), version |-> snap[s].version + 1]
      BY <1>0, <2>5 DEF CasMiss, Synchronized, TypeOK
    <3>2. snap[s] \in Snapshot
      BY <1>0, <2>5 DEF CasMiss, RetryInv, TypeOK
    <3> QED BY <3>1, <3>2, TargetType, ConstantsAssumption
  <2> QED BY <2>2, <2>3, <2>4, <2>5
<1>2. CASE UNCHANGED vars
  BY <1>2 DEF AgainInv, vars
<1> QED BY <1>1, <1>2 DEF Next

\* A call swaps if, and only if, its target is legal from the status that it loaded
\* first and fewer than MaxAttempts transitions have committed since.
SwapsDecide ==
    [][ \A s \in Session : pc[s] \in Undecided =>
            /\ pc'[s] = "written" => Swappable(s)
            /\ pc'[s] = "rejected" => ~Swappable(s)
            /\ pc'[s] \in Undecided /\ snap[s] # NoSnap /\ ~SkipError(s) => Seen(s)' = Seen(s) ]_vars

\* The outcome of one session's step, by the version it has seen.
LEMMA Outcome ==
  ASSUME IInv, OriginInv, AgainInv, NEW s \in Session, Load(s) \/ Step(s) \/ Abort(s),
         pc[s] \in Undecided
  PROVE  /\ pc'[s] = "written" => Swappable(s)
         /\ pc'[s] = "rejected" => ~Swappable(s)
         /\ pc'[s] \in Undecided /\ snap[s] # NoSnap /\ ~SkipError(s) => Seen(s)' = Seen(s)
<1> USE ConstantsAssumption DEF Goto, Snapshot, Row
<1>0. TypeOK /\ SnapInv /\ RetryInv /\ LockInv /\ NoLostTransition
  BY DEF IInv
<1>1. StatusAt[row.version] = row.status
  BY <1>0, StatusNow
<1>2. CASE RecordError(s)
  BY <1>0, <1>2 DEF RecordError, Seen, Origin, TypeOK
<1>3. CASE SkipError(s)
  BY <1>0, <1>3 DEF SkipError, TypeOK
<1>4. CASE Prepare(s)
  <2>1. pc'[s] = "cas" /\ attempt' = attempt /\ snap'[s] = Selected(s)
    BY <1>0, <1>4 DEF Prepare, TypeOK
  <2>2. snap[s] # NoSnap => snap'[s] = snap[s]
    BY <2>1 DEF Selected
  <2> QED BY <2>1, <2>2 DEF Seen, Origin
<1>5. CASE RejectInvalid(s)
  <2>1. pc'[s] = "rejected"
    BY <1>0, <1>5 DEF RejectInvalid, TypeOK
  <2>2. attempt[s] = 1
    <3>1. ASSUME attempt[s] # 1 PROVE FALSE
      <4>1. attempt[s] > 1 /\ pc[s] = "select"
        BY <1>0, <1>5, <3>1 DEF RejectInvalid, AtSelect, OriginInv, TypeOK
      <4>2. Selected(s).status = Target(Call[s])
        BY <4>1 DEF AgainInv, Selected
      <4> QED BY <1>5, <4>2 DEF RejectInvalid, IsValidTransition
    <3> QED BY <3>1
  <2>3. Selected(s).status = StatusAt[Seen(s)]
    <3>1. CASE snap[s] = NoSnap
      <4>1. Visible(s).status = row.status
        BY <1>0, <1>5, VisibleBeforeSwap DEF RejectInvalid, AtSelect, Writing
      <4> QED BY <1>1, <3>1, <4>1 DEF Seen, Selected
    <3>2. CASE snap[s] # NoSnap
      <4>1. snap[s].version \in Nat /\ StatusAt[snap[s].version] = snap[s].status
        BY <1>0, <1>5, <2>2, <3>2 DEF RejectInvalid, AtSelect, OriginInv, TypeOK
      <4> QED BY <2>2, <3>2, <4>1 DEF Seen, Origin, Selected
    <3> QED BY <3>1, <3>2
  <2> QED BY <1>5, <2>1, <2>3 DEF RejectInvalid, Swappable, Undecided
<1>6. CASE CasHit(s)
  <2>1. pc'[s] = "written"
    BY <1>0, <1>6 DEF CasHit, TypeOK
  <2>2. /\ snap[s] # NoSnap /\ snap[s].version = row.version
        /\ IsValidTransition(StatusAt[Origin(s)], Target(Call[s]))
    BY <1>6 DEF CasHit, OriginInv
  <2>3. row.version - Origin(s) < MaxAttempts
    BY <1>0, <2>2 DEF Origin, TypeOK
  <2> QED BY <2>1, <2>2, <2>3 DEF Seen, Swappable, Undecided
<1>7. CASE CasMiss(s)
  <2>1. snap[s] # NoSnap /\ snap[s].version < row.version /\ snap[s].version \in Nat
    BY <1>0, <1>7 DEF CasMiss, RetryInv, SnapInv, TypeOK
  <2>2. snap'[s] # NoSnap /\ snap'[s].version = snap[s].version + 1
    BY <1>0, <1>7, <2>1, TargetType DEF CasMiss, Synchronized, TypeOK
  <2>3. CASE attempt[s] < MaxAttempts
    <3>1. pc'[s] = "select" /\ attempt'[s] = attempt[s] + 1
      BY <1>0, <1>7, <2>3 DEF CasMiss, TypeOK
    <3>2. Origin(s)' = Origin(s)
      BY <1>0, <2>1, <2>2, <3>1 DEF Origin, TypeOK
    <3> QED BY <2>1, <2>2, <3>1, <3>2 DEF Seen
  <2>4. CASE ~(attempt[s] < MaxAttempts)
    <3>1. pc'[s] = "rejected" /\ attempt[s] = MaxAttempts
      BY <1>0, <1>7, <2>4 DEF CasMiss, TypeOK
    <3>2. row.version - Origin(s) >= MaxAttempts
      BY <1>0, <2>1, <3>1 DEF Origin, TypeOK
    <3> QED BY <1>0, <2>1, <3>1, <3>2 DEF Seen, Swappable, Undecided, Origin, TypeOK
  <2> QED BY <2>3, <2>4
<1>8. CASE pc'[s] = "aborted"
  BY <1>8 DEF Undecided
<1> QED BY <1>0, <1>2, <1>3, <1>4, <1>5, <1>6, <1>7, <1>8, UndecidedStep

\* The meaning that JobProcessing and JobAdmission give to a transition is the
\* protocol's: what decides is the version loaded first, the number of versions the row
\* has moved on since, and nothing else.
THEOREM SwapsCorrect == Spec => SwapsDecide
<1>1. Spec => [](IInv /\ OriginInv)
  BY Invariance, OriginInit, OriginStep, PTL DEF Spec
<1>2. Init => AgainInv
  BY DEF Init, AgainInv
<1>3. IInv /\ OriginInv /\ AgainInv /\ [Next]_vars =>
        [\A s \in Session : pc[s] \in Undecided =>
            /\ pc'[s] = "written" => Swappable(s)
            /\ pc'[s] = "rejected" => ~Swappable(s)
            /\ pc'[s] \in Undecided /\ snap[s] # NoSnap /\ ~SkipError(s)
                   => Seen(s)' = Seen(s)]_vars
  <2> SUFFICES ASSUME IInv, OriginInv, AgainInv, Next, NEW s \in Session,
                      pc[s] \in Undecided, vars' # vars
               PROVE  /\ pc'[s] = "written" => Swappable(s)
                      /\ pc'[s] = "rejected" => ~Swappable(s)
                      /\ pc'[s] \in Undecided /\ snap[s] # NoSnap /\ ~SkipError(s)
                             => Seen(s)' = Seen(s)
    OBVIOUS
  <2>1. PICK t \in Session : Load(t) \/ Step(t) \/ Abort(t)
    BY DEF Next
  <2>2. CASE t = s
    BY <2>1, <2>2, Outcome
  <2>3. CASE t # s
    <3>1. pc'[s] = pc[s] /\ attempt'[s] = attempt[s] /\ snap'[s] = snap[s]
      BY <2>1, <2>3, OthersStay
    <3> QED BY <3>1 DEF Undecided, Seen, Origin
  <2> QED BY <2>2, <2>3
<1> QED BY <1>1, <1>2, <1>3, AgainStep, PTL DEF Spec, SwapsDecide

\* Without a loaded Job mark_failed takes the row lock before it selects: what it loads
\* is the row, and stays so.
LockedInv ==
    \A s \in Session : Call[s] = "fail" =>
        /\ pc[s] # "idle"
        /\ pc[s] \in {"entered", "select"} => snap[s] = NoSnap
        /\ pc[s] \in {"select", "cas"} => holder = s
        /\ pc[s] = "cas" => /\ snap[s].version = row.version
                            /\ snap[s].status = row.status
                            /\ IsValidTransition(row.status, "failed")

\* While a session holds the row lock and has not swapped, the row stays and the lock, too.
LEMMA LockedRow ==
  ASSUME IInv, NEW s \in Session, holder = s,
         NEW t \in Session \ {s}, Load(t) \/ Step(t) \/ Abort(t)
  PROVE  holder' = s /\ row'.status = row.status /\ row'.version = row.version
<1>1. TypeOK /\ LockInv
  BY DEF IInv
<1>2. ~Commit(t) /\ ~RecordError(t) /\ ~CasHit(t)
  BY <1>1, ConstantsAssumption DEF Commit, RecordError, CasHit, LockInv, Writing
<1>3. row'.status = row.status /\ row'.version = row.version
  BY <1>2, OthersStay
<1>4. holder' = holder
  BY <1>2 DEF Step, Load, Abort, SkipError, Prepare, RejectInvalid, CasMiss, UpdateCache,
     CloseRejected, Undo, Release
<1> QED BY <1>3, <1>4

LEMMA LockedStep ==
  ASSUME IInv, LockedInv, [Next]_vars
  PROVE  LockedInv'
<1> USE DEF Goto
<1>0. TypeOK /\ LockInv
  BY DEF IInv
<1>1. ASSUME NEW t \in Session, Load(t) \/ Step(t) \/ Abort(t),
             NEW s \in Session, Call[s] = "fail"
      PROVE  /\ pc'[s] # "idle"
             /\ pc'[s] \in {"entered", "select"} => snap'[s] = NoSnap
             /\ pc'[s] \in {"select", "cas"} => holder' = s
             /\ pc'[s] = "cas" => /\ snap'[s].version = row'.version
                                  /\ snap'[s].status = row'.status
                                  /\ IsValidTransition(row'.status, "failed")
  <2>1. CASE t # s
    <3>1. pc'[s] = pc[s] /\ snap'[s] = snap[s]
      BY <1>1, <2>1, OthersStay
    <3>2. pc[s] \in {"select", "cas"} =>
              holder' = s /\ row'.status = row.status /\ row'.version = row.version
      BY <1>1, <2>1, LockedRow DEF LockedInv
    <3> QED BY <1>1, <3>1, <3>2 DEF LockedInv
  <2>2. CASE t = s
    <3>1. MarksFailed(Call[s]) /\ ~Async(Call[s]) /\ Target(Call[s]) = "failed"
      BY <1>1 DEF MarksFailed, Async, Target
    <3>2. CASE RecordError(s)
      BY <1>0, <1>1, <3>2 DEF RecordError, LockedInv, TypeOK
    <3>3. CASE Prepare(s)
      <4>1. pc[s] = "select" /\ holder = s /\ snap[s] = NoSnap
        BY <1>1, <3>1, <3>3 DEF Prepare, AtSelect, LockedInv
      <4>2. /\ Selected(s).status = row.status /\ Selected(s).version = row.version
        BY <1>0, <4>1, VisibleBeforeSwap DEF Selected, Writing
      <4>3. snap'[s] = Selected(s) /\ row' = row /\ holder' = holder /\ pc'[s] = "cas"
        BY <1>0, <3>3 DEF Prepare, TypeOK
      <4> QED BY <3>1, <3>3, <4>1, <4>2, <4>3 DEF Prepare
    <3>4. CASE ~RecordError(s) /\ ~Prepare(s)
      <4>1. ~Load(s) /\ ~SkipError(s) /\ ~CasMiss(s)
        BY <1>1, <3>1 DEF Load, SkipError, CasMiss, LockedInv
      <4>2. pc'[s] \notin {"idle", "entered", "select", "cas"}
        BY <1>0, <1>1, <2>2, <3>4, <4>1 DEF Step, RejectInvalid, CasHit, UpdateCache, Commit,
           CloseRejected, Abort, TypeOK
      <4> QED BY <4>2
    <3> QED BY <3>2, <3>3, <3>4
  <2> QED BY <2>1, <2>2
<1>2. ASSUME NEW t \in Session, Load(t) \/ Step(t) \/ Abort(t) PROVE LockedInv'
  BY <1>1, <1>2 DEF LockedInv
<1>3. CASE UNCHANGED vars
  BY <1>3 DEF LockedInv, vars
<1> QED BY <1>2, <1>3 DEF Next

\* mark_failed without a loaded Job decides by the status the row has.
FailureIsCurrent ==
    [][ \A s \in Session : Call[s] = "fail" /\ pc[s] \in Undecided =>
            /\ pc'[s] = "written" => IsValidTransition(row.status, "failed")
            /\ pc'[s] = "rejected" => ~IsValidTransition(row.status, "failed") ]_vars

\* on_failure decides by the row itself, which is what OnFailure of JobProcessing does: no
\* other session can make it miss a swap.
THEOREM FailureCorrect == Spec => FailureIsCurrent
<1>1. Init => LockedInv
  BY DEF Init, LockedInv, Preloads
<1>2. IInv /\ LockedInv /\ [Next]_vars =>
        [\A s \in Session : Call[s] = "fail" /\ pc[s] \in Undecided =>
            /\ pc'[s] = "written" => IsValidTransition(row.status, "failed")
            /\ pc'[s] = "rejected" => ~IsValidTransition(row.status, "failed")]_vars
  <2> SUFFICES ASSUME IInv, LockedInv, Next, vars' # vars, NEW s \in Session,
                      Call[s] = "fail", pc[s] \in Undecided
               PROVE  /\ pc'[s] = "written" => IsValidTransition(row.status, "failed")
                      /\ pc'[s] = "rejected" => ~IsValidTransition(row.status, "failed")
    OBVIOUS
  <2>0. TypeOK /\ LockInv /\ Target(Call[s]) = "failed" /\ MarksFailed(Call[s])
    BY DEF IInv, Target, MarksFailed
  <2>1. PICK t \in Session : Load(t) \/ Step(t) \/ Abort(t)
    BY DEF Next
  <2>2. CASE t # s
    <3>1. pc'[s] = pc[s]
      BY <2>1, <2>2, OthersStay
    <3> QED BY <3>1 DEF Undecided
  <2>3. CASE t = s
    <3>1. CASE CasHit(s)
      BY <2>0, <3>1 DEF CasHit, LockedInv, Goto, TypeOK
    <3>2. CASE RejectInvalid(s)
      <4>1. pc[s] = "select" /\ snap[s] = NoSnap
        BY <2>0, <3>2 DEF RejectInvalid, AtSelect, LockedInv
      <4>2. Selected(s).status = row.status
        BY <2>0, <4>1, VisibleBeforeSwap DEF Selected, Writing
      <4> QED BY <2>0, <3>2, <4>2 DEF RejectInvalid, Goto, TypeOK
    <3>3. ~CasMiss(s)
      BY DEF CasMiss, LockedInv
    <3>4. CASE ~CasHit(s) /\ ~RejectInvalid(s)
      <4>1. RecordError(s) \/ SkipError(s) \/ Prepare(s) \/ pc'[s] = "aborted"
        BY <2>0, <2>1, <2>3, <3>3, <3>4, UndecidedStep
      <4>2. pc'[s] \notin {"written", "rejected"}
        BY <2>0, <4>1 DEF RecordError, SkipError, Prepare, Goto, TypeOK
      <4> QED BY <4>2
    <3> QED BY <3>1, <3>2, <3>4
  <2> QED BY <2>2, <2>3
<1> QED BY <1>1, <1>2, LockedStep, Invariance, PTL DEF Spec, FailureIsCurrent

------------------------------------------------------------------------------
(* Why a call returns: it never waits in a circle, and it has only so much to do. *)

\* The statement a session is at can be executed, whatever comes of it.
CanStep(s) ==
    \/ pc[s] = "entered" /\ MarksFailed(Call[s]) /\ (holder = NoSession \/ Async(Call[s]))
    \/ AtSelect(s)
    \/ pc[s] = "cas" /\ (row.version # snap[s].version \/ holder \in {NoSession, s})
    \/ pc[s] \in {"written", "flushed", "rejected"}

\* Who has to wait waits for the row lock, and its holder does not wait.
NobodyWaitsForEver ==
    \A s \in Session : pc[s] \in Active =>
        CanStep(s) \/ (holder \in Session \ {s} /\ CanStep(holder))

LEMMA NeverStuck == IInv => NobodyWaitsForEver
<1> SUFFICES ASSUME IInv, NEW s \in Session, pc[s] \in Active
             PROVE  CanStep(s) \/ (holder \in Session \ {s} /\ CanStep(holder))
  BY DEF NobodyWaitsForEver
<1> USE ConstantsAssumption DEF IInv, CanStep, AtSelect, Active, Writing
<1>1. CASE holder \in {NoSession, s}
  BY <1>1 DEF LockInv
<1>2. CASE holder \notin {NoSession, s}
  <2>1. holder \in Session \ {s}
    BY <1>2 DEF TypeOK
  <2>2. pc[holder] \in {"select", "cas", "rejected", "written", "flushed"}
    BY <2>1 DEF LockInv
  <2> QED BY <2>1, <2>2
<1> QED BY <1>1, <1>2

\* What a call has still to do, at most.
Rank == [p \in {"idle"} \cup Active \cup Closed |->
    CASE p = "idle" -> 7 [] p = "entered" -> 6 [] p = "select" -> 5 [] p = "cas" -> 4
      [] p = "written" -> 3 [] p = "flushed" -> 2 [] p = "rejected" -> 1 [] OTHER -> 0]
Left(s) == 7 * (MaxAttempts - attempt[s]) + Rank[pc[s]]

\* Every step brings one call nearer to its end, and no other call further from it.
CallsAreBounded ==
    [][ \E s \in Session :
            /\ Left(s)' < Left(s)
            /\ \A t \in Session \ {s} : Left(t)' = Left(t) ]_vars

LEMMA LeftFalls ==
  ASSUME IInv, NEW s \in Session, Load(s) \/ Step(s) \/ Abort(s)
  PROVE  Left(s)' < Left(s) /\ \A t \in Session \ {s} : Left(t)' = Left(t)
<1>0. TypeOK /\ LockInv /\ RetryInv
  BY DEF IInv
<1>1. \A t \in Session \ {s} : pc'[t] = pc[t] /\ attempt'[t] = attempt[t]
  BY OthersStay
<1>2. \A t \in Session \ {s} : Left(t)' = Left(t)
  BY <1>1 DEF Left
<1>3. /\ Rank["idle"] = 7 /\ Rank["entered"] = 6 /\ Rank["select"] = 5 /\ Rank["cas"] = 4
      /\ Rank["written"] = 3 /\ Rank["flushed"] = 2 /\ Rank["rejected"] = 1
      /\ \A p \in Closed : Rank[p] = 0
  BY DEF Rank, Active, Closed, Writing
<1> HIDE DEF Rank
<1>4. attempt[s] \in Nat /\ MaxAttempts \in Nat /\ s \in DOMAIN pc /\ s \in DOMAIN attempt
  BY <1>0, ConstantsAssumption DEF TypeOK
<1>5. CASE attempt' = attempt /\ Rank[pc'[s]] < Rank[pc[s]] /\ Rank[pc'[s]] \in Nat /\ Rank[pc[s]] \in Nat
  BY <1>2, <1>4, <1>5 DEF Left
<1> USE DEF Goto
<1>6. CASE Load(s)
  BY <1>3, <1>4, <1>5, <1>6 DEF Load, Closed
<1>7. CASE RecordError(s) \/ SkipError(s) \/ Prepare(s) \/ RejectInvalid(s) \/ CasHit(s)
  BY <1>3, <1>4, <1>5, <1>7 DEF RecordError, SkipError, Prepare, RejectInvalid, AtSelect, CasHit
<1>8. CASE UpdateCache(s) \/ Commit(s) \/ CloseRejected(s)
  BY <1>3, <1>4, <1>5, <1>8 DEF UpdateCache, Commit, CloseRejected, Undo, Release, Closed
<1>9. CASE Abort(s)
  <2>1. pc'[s] = "aborted" /\ attempt' = attempt
    BY <1>4, <1>9 DEF Abort, Undo, Release
  <2>2. Rank[pc[s]] \in Nat /\ Rank[pc[s]] > 0
    BY <1>3, <1>9 DEF Abort, Active, Writing
  <2> QED BY <1>3, <1>5, <2>1, <2>2 DEF Closed
<1>10. CASE CasMiss(s)
  <2>1. CASE attempt[s] < MaxAttempts
    <3>1. attempt'[s] = attempt[s] + 1 /\ pc'[s] = "select" /\ pc[s] = "cas"
      BY <1>4, <1>10, <2>1 DEF CasMiss
    <3> QED BY <1>2, <1>3, <1>4, <3>1 DEF Left
  <2>2. CASE ~(attempt[s] < MaxAttempts)
    BY <1>3, <1>4, <1>5, <1>10, <2>2 DEF CasMiss
  <2> QED BY <2>1, <2>2
<1> QED BY <1>6, <1>7, <1>8, <1>9, <1>10 DEF Step

\* Whoever waits waits for a session that does not, and every step brings a call nearer
\* to its end: what EveryCallReturns adds to this is only that sessions are scheduled.
THEOREM CallsEnd == Spec => []NobodyWaitsForEver /\ CallsAreBounded
<1>1. IInv /\ [Next]_vars =>
        [\E s \in Session : /\ Left(s)' < Left(s)
                            /\ \A t \in Session \ {s} : Left(t)' = Left(t)]_vars
  <2> SUFFICES ASSUME IInv, Next, vars' # vars
               PROVE  \E s \in Session : /\ Left(s)' < Left(s)
                                         /\ \A t \in Session \ {s} : Left(t)' = Left(t)
    OBVIOUS
  <2>1. PICK s \in Session : Load(s) \/ Step(s) \/ Abort(s)
    BY DEF Next
  <2>2. Left(s)' < Left(s) /\ \A t \in Session \ {s} : Left(t)' = Left(t)
    BY <2>1, LeftFalls
  <2> QED BY <2>2
<1> QED BY <1>1, NeverStuck, Invariance, PTL DEF Spec, CallsAreBounded
===============================================================================
