--------------------------- MODULE JobStateMachine ---------------------------
(***************************************************************************)
(* The optimistic-lock transition protocol on one Job row                   *)
(* (shared/core/state_machine/service.py and service_sync.py), as the       *)
(* database sessions of its callers interleave.                             *)
(*                                                                          *)
(* A session runs ONE call: it may load the Job first and check its status, *)
(* then transition_outcome selects (status, version), validates, records    *)
(* an audit row and compare-and-swaps on the version, at most MaxAttempts   *)
(* times; mark_failed_outcome writes the error fields first, which takes    *)
(* the row lock.  The caller's commit ends the session.                     *)
(*                                                                          *)
(* Two facts of the libraries decide the outcome.  PostgreSQL runs READ     *)
(* COMMITTED: an UPDATE that matches the committed row waits for its lock.  *)
(* The SQLAlchemy session never refreshes a loaded object on a new SELECT,  *)
(* and an ORM UPDATE assigns its SET values to every loaded object that     *)
(* matches its WHERE in Python, however many rows the database changed: a   *)
(* missed swap leaves (to_state, old_version + 1) in the session, and that  *)
(* is what the next attempt reads.                                          *)
(***************************************************************************)
EXTENDS Integers, FiniteSets, JobStates

CONSTANTS
    Session,       \* database sessions, each running one call
    Call,          \* [Session -> CallSites]: the caller each session belongs to
    NoSession,     \* nobody (row lock free, cache never written)
    NoSnap,        \* the Job is not loaded in the session
    MaxAttempts,   \* MAX_TRANSITION_ATTEMPTS
    InitStatus     \* the status of the Job row in the initial state

\* The callers of transition_outcome and mark_failed_outcome.  finalize_job_success
\* comes twice: when it binds the result to a document, JobResult.job (loaded by the
\* join) keeps the Job that publication has loaded in the session; else the Job is
\* loaded anew by the transition.
CallSites == {"upload_event", "confirm", "expire", "start", "complete",
              "complete_unbound", "fail", "sweep"}

ASSUME ConstantsAssumption ==
    /\ Call \in [Session -> CallSites]
    /\ NoSession \notin Session
    /\ NoSnap \notin [status: Statuses, version: Nat]
    /\ MaxAttempts \in Nat \ {0}
    /\ InitStatus \in Statuses

\* to_state of each call.
Target(c) ==
    CASE c \in {"upload_event", "confirm"} -> "pending"
      [] c = "start"                       -> "running"
      [] c \in {"complete", "complete_unbound"} -> "done"
      [] OTHER                             -> "failed"

\* Calls through mark_failed_outcome: error fields first.
MarksFailed(c) == c \in {"expire", "fail", "sweep"}

\* Calls whose session has loaded the Job, and holds it, before the transition.
Preloads(c) == c \notin {"complete_unbound", "fail"}

\* Statuses with which a preloading caller goes on to the transition.
Admits(c) ==
    CASE c \in {"upload_event", "expire"} -> {"waiting-file"}
      [] c = "confirm"                    -> {"pending", "waiting-file"}
      [] c = "start"                      -> {"pending"}
      [] c = "sweep"                      -> Statuses \ TerminalStates
      [] OTHER                            -> Statuses

\* Callers that return normally after a rejection: their context manager commits.
CommitsRejection(c) == c \in {"expire", "sweep"}

\* Callers of the async service, whose _update_job_error rolls back when it fails.
Async(c) == c \in {"upload_event", "confirm", "expire"}

VARIABLES
    row,        \* committed Job row
    holder,     \* session holding the row lock
    draft,      \* the row as the holder has written it (= row when it is free)
    snap,       \* snap[s]: the (status, version) loaded in the session
    attempt,    \* attempt[s]: which attempt of transition_outcome runs
    pc,         \* pc[s]: where the session is
    pending,    \* pending[s]: audit rows added to the session
    audit,      \* committed audit rows
    history,    \* history variable: the transitions committed
    cache       \* Redis task status: what was set, by whom, for which version

vars == <<row, holder, draft, snap, attempt, pc, pending, audit, history, cache>>

Row      == [status: Statuses, version: Nat, error: CallSites \cup {"none"}]
Snapshot == [status: Statuses, version: Nat]
AuditRow == [by: Session, attempt: 1..MaxAttempts, from: Statuses, to: Statuses]
Transition == [by: Session, attempt: 1..MaxAttempts, from: Statuses, to: Statuses,
               version: Nat]
CacheEntry == [status: Statuses \cup {"none"}, version: Nat,
               by: Session \cup {NoSession}]

\* "returned": the status check ended the call; "done": transition committed;
\* "refused": rejected; "aborted": rolled back by an exception or a crash.
Closed == {"returned", "done", "refused", "aborted"}
Writing == {"written", "flushed"}
Active == {"entered", "select", "cas", "rejected"} \cup Writing

Init ==
    /\ row = [status |-> InitStatus, version |-> 0, error |-> "none"]
    /\ holder = NoSession
    /\ draft = row
    /\ snap = [s \in Session |-> NoSnap]
    /\ attempt = [s \in Session |-> 1]
    /\ pc = [s \in Session |-> IF Preloads(Call[s]) THEN "idle" ELSE "entered"]
    /\ pending = [s \in Session |-> {}]
    /\ audit = {}
    /\ history = {}
    /\ cache = [status |-> "none", version |-> 0, by |-> NoSession]

Goto(s, l) == pc' = [pc EXCEPT ![s] = l]

\* What session s sees: its own writes, else the committed row.
Visible(s) == IF holder = s THEN draft ELSE row

------------------------------------------------------------------------------
\* The caller loads the Job and checks its status before it transitions it.
Load(s) ==
    /\ pc[s] = "idle"
    /\ snap' = [snap EXCEPT ![s] = [status |-> row.status, version |-> row.version]]
    /\ Goto(s, IF row.status \in Admits(Call[s]) THEN "entered" ELSE "returned")
    /\ UNCHANGED <<row, holder, draft, attempt, pending, audit, history, cache>>

\* _update_job_error: an unconditional UPDATE of the error fields, which waits
\* for the row lock and keeps it to the end of the transaction.
RecordError(s) ==
    /\ pc[s] = "entered" /\ MarksFailed(Call[s])
    /\ holder = NoSession
    /\ holder' = s
    /\ draft' = [row EXCEPT !.error = Call[s]]
    /\ Goto(s, "select")
    /\ UNCHANGED <<row, snap, attempt, pending, audit, history, cache>>

\* The async _update_job_error swallows its own failure after a rollback, which
\* expires the loaded Job; the transition goes on without lock and error fields.
SkipError(s) ==
    /\ pc[s] = "entered" /\ MarksFailed(Call[s]) /\ Async(Call[s])
    /\ snap' = [snap EXCEPT ![s] = NoSnap]
    /\ Goto(s, "select")
    /\ UNCHANGED <<row, holder, draft, attempt, pending, audit, history, cache>>

\* The SELECT of an attempt: a Job already loaded in the session keeps its values.
Selected(s) ==
    IF snap[s] # NoSnap THEN snap[s]
    ELSE [status |-> Visible(s).status, version |-> Visible(s).version]

AtSelect(s) ==
    \/ pc[s] = "select"
    \/ pc[s] = "entered" /\ ~MarksFailed(Call[s])

\* Mutant of Prepare: the audit row is written for the first attempt only.
PrepareAuditOnce(s) ==
    /\ AtSelect(s)
    /\ IsValidTransition(Selected(s).status, Target(Call[s]))
    /\ snap' = [snap EXCEPT ![s] = Selected(s)]
    /\ pending' = [pending EXCEPT ![s] = IF attempt[s] > 1 THEN @ ELSE
            {[by |-> s, attempt |-> 1,
              from |-> Selected(s).status, to |-> Target(Call[s])]}]
    /\ Goto(s, "cas")
    /\ UNCHANGED <<row, holder, draft, attempt, audit, history, cache>>

\* prepare_transition_attempt accepts; the audit row joins the session.
Prepare(s) ==
    /\ AtSelect(s)
    /\ IsValidTransition(Selected(s).status, Target(Call[s]))
    /\ snap' = [snap EXCEPT ![s] = Selected(s)]
    /\ pending' = [pending EXCEPT ![s] = @ \cup
            {[by |-> s, attempt |-> attempt[s],
              from |-> Selected(s).status, to |-> Target(Call[s])]}]
    /\ Goto(s, "cas")
    /\ UNCHANGED <<row, holder, draft, attempt, audit, history, cache>>

\* prepare_transition_attempt rejects: invalid_transition.
RejectInvalid(s) ==
    /\ AtSelect(s)
    /\ ~IsValidTransition(Selected(s).status, Target(Call[s]))
    /\ snap' = [snap EXCEPT ![s] = Selected(s)]
    /\ Goto(s, "rejected")
    /\ UNCHANGED <<row, holder, draft, attempt, pending, audit, history, cache>>

\* The loaded Job after the UPDATE of _cas_update_state, hit or miss.
Synchronized(s) == [snap EXCEPT ![s] = [status |-> Target(Call[s]),
                                        version |-> @.version + 1]]

\* Mutants of CasHit: an UPDATE without "version == old_version" in its WHERE, and
\* one that forgets to bump the version.
CasHitUnguarded(s) ==
    /\ pc[s] = "cas"
    /\ holder \in {NoSession, s}
    /\ holder' = s
    /\ draft' = [status |-> Target(Call[s]), version |-> snap[s].version + 1,
                 error |-> Visible(s).error]
    /\ snap' = Synchronized(s)
    /\ Goto(s, "written")
    /\ UNCHANGED <<row, attempt, pending, audit, history, cache>>

CasHitNoBump(s) ==
    /\ pc[s] = "cas"
    /\ holder \in {NoSession, s}
    /\ row.version = snap[s].version
    /\ holder' = s
    /\ draft' = [Visible(s) EXCEPT !.status = Target(Call[s])]
    /\ snap' = [snap EXCEPT ![s].status = Target(Call[s])]
    /\ Goto(s, "written")
    /\ UNCHANGED <<row, attempt, pending, audit, history, cache>>

\* _cas_update_state changes the row, once its lock is free.
CasHit(s) ==
    /\ pc[s] = "cas"
    /\ holder \in {NoSession, s}
    /\ row.version = snap[s].version
    /\ holder' = s
    /\ draft' = [status |-> Target(Call[s]), version |-> snap[s].version + 1,
                 error |-> Visible(s).error]
    /\ snap' = Synchronized(s)
    /\ Goto(s, "written")
    /\ UNCHANGED <<row, attempt, pending, audit, history, cache>>

\* Mutant of CasMiss: should_retry_transition_attempt off by one.
CasMissOnceMore(s) ==
    /\ pc[s] = "cas"
    /\ row.version # snap[s].version
    /\ snap' = Synchronized(s)
    /\ IF attempt[s] <= MaxAttempts
       THEN Goto(s, "select") /\ attempt' = [attempt EXCEPT ![s] = @ + 1]
       ELSE Goto(s, "rejected") /\ UNCHANGED attempt
    /\ UNCHANGED <<row, holder, draft, pending, audit, history, cache>>

\* _cas_update_state matches no committed row: back off and try again, or give up.
CasMiss(s) ==
    /\ pc[s] = "cas"
    /\ row.version # snap[s].version
    /\ snap' = Synchronized(s)
    /\ IF attempt[s] < MaxAttempts
       THEN Goto(s, "select") /\ attempt' = [attempt EXCEPT ![s] = @ + 1]
       ELSE Goto(s, "rejected") /\ UNCHANGED attempt
    /\ UNCHANGED <<row, holder, draft, pending, audit, history, cache>>

\* Mutant of UpdateCache: the cache is written once the transition has committed.
UpdateCacheAfterCommit(s) ==
    \/ /\ pc[s] = "written"
       /\ Goto(s, "flushed")
       /\ UNCHANGED <<row, holder, draft, snap, attempt, pending, audit, history, cache>>
    \/ /\ pc[s] = "done"
       /\ cache' = [status |-> Target(Call[s]), version |-> snap[s].version, by |-> s]
       /\ UNCHANGED <<row, holder, draft, snap, attempt, pc, pending, audit, history>>

\* _update_redis_cache: before the commit, and its errors are swallowed.
UpdateCache(s) ==
    /\ pc[s] = "written"
    /\ \/ cache' = [status |-> Target(Call[s]), version |-> draft.version, by |-> s]
       \/ UNCHANGED cache
    /\ Goto(s, "flushed")
    /\ UNCHANGED <<row, holder, draft, snap, attempt, pending, audit, history>>

\* The session ends: the row lock is free, nothing more to insert.
Release(s) ==
    /\ holder' = IF holder = s THEN NoSession ELSE holder
    /\ pending' = [pending EXCEPT ![s] = {}]
    /\ UNCHANGED <<snap, attempt, cache>>

\* COMMIT of a successful transition.
Commit(s) ==
    /\ pc[s] = "flushed"
    /\ row' = draft
    /\ audit' = audit \cup pending[s]
    /\ history' = history \cup
            {[by |-> s, attempt |-> attempt[s], from |-> row.status,
              to |-> draft.status, version |-> draft.version]}
    /\ Release(s)
    /\ Goto(s, "done")
    /\ UNCHANGED draft

\* Mutant of Undo: an error path that returns without a rollback.
UndoForgotten(s) ==
    /\ pending' = [pending EXCEPT ![s] = {}]
    /\ UNCHANGED <<row, holder, draft, snap, attempt, audit, history, cache>>

\* ROLLBACK, by an except branch or by the server: nothing of s remains.
Undo(s) ==
    /\ draft' = IF holder = s THEN row ELSE draft
    /\ Release(s)
    /\ UNCHANGED <<row, audit, history>>

\* A rejected call: most callers roll back, two return and are committed, with
\* the error fields and the audit rows of the missed attempts.
CloseRejected(s) ==
    /\ pc[s] = "rejected"
    /\ \/ ~CommitsRejection(Call[s]) /\ Undo(s)
       \/ /\ CommitsRejection(Call[s])
          /\ row' = Visible(s)
          /\ audit' = audit \cup pending[s]
          /\ Release(s)
          /\ UNCHANGED <<draft, history>>
    /\ Goto(s, "refused")

\* A database error, a crash or a killed worker: the transaction is rolled back.
Abort(s) ==
    /\ pc[s] \in Active
    /\ Undo(s)
    /\ Goto(s, "aborted")

------------------------------------------------------------------------------
Step(s) ==
    \/ RecordError(s) \/ SkipError(s)
    \/ Prepare(s) \/ RejectInvalid(s)
    \/ CasHit(s) \/ CasMiss(s)
    \/ UpdateCache(s) \/ Commit(s) \/ CloseRejected(s)

\* The last disjunct is the quiet end: every call has returned.
Next ==
    \/ \E s \in Session : Load(s) \/ Step(s) \/ Abort(s)
    \/ (\A s \in Session : pc[s] \in Closed) /\ UNCHANGED vars

Spec == Init /\ [][Next]_vars

\* A call that has begun runs on: the event loop and the worker pool schedule
\* it, PostgreSQL grants the row lock.  Nothing makes callers call.
Fairness == \A s \in Session : WF_vars(Step(s))

FairSpec == Spec /\ Fairness

------------------------------------------------------------------------------
TypeOK ==
    /\ row \in Row /\ draft \in Row
    /\ holder \in Session \cup {NoSession}
    /\ snap \in [Session -> Snapshot \cup {NoSnap}]
    /\ attempt \in [Session -> 1..MaxAttempts]
    /\ pc \in [Session -> {"idle"} \cup Active \cup Closed]
    /\ pending \in [Session -> SUBSET AuditRow]
    /\ audit \subseteq AuditRow
    /\ history \subseteq Transition
    /\ cache \in CacheEntry

\* No transition is lost or applied twice: every version of the row was written
\* by exactly one committed transition, and the row carries the last one.
NoLostTransition ==
    /\ \A g, h \in history : g.version = h.version => g = h
    /\ {h.version : h \in history} = 1..row.version
    /\ \A h \in history : h.version = row.version => row.status = h.to

\* A transition committed on its first attempt is legal from the status the row
\* really had, however old the loaded Job was: the swap on the version makes the
\* validation of states.py valid at the commit.
FirstAttemptIsLegal ==
    \A h \in history : h.attempt = 1 => IsValidTransition(h.from, h.to)

\* A finished Job changes status only through a call that missed a swap: a
\* caller whose first swap hits never revives or re-decides a terminal Job.
TerminalLeftOnlyAfterMiss ==
    [][ row.status \in TerminalStates /\ row'.status # row.status
        => \E h \in history' \ history : h.attempt > 1 ]_vars

\* Every committed transition left its audit row in the same transaction, and the
\* from_state of a first attempt is the status it really left.
AuditCoversHistory ==
    \A h \in history : \E a \in audit :
        /\ a.by = h.by /\ a.attempt = h.attempt /\ a.to = h.to
        /\ h.attempt = 1 => a.from = h.from

\* The Redis status is written under the row lock: a late writer never puts an
\* older status over a newer one, whatever commits, fails or is rolled back.
CacheNeverRegresses == [][cache'.version >= cache.version]_vars

\* Once its writer has committed, the cached status is that of the row, or of an
\* earlier version whose successors failed to write theirs.
CacheFollowsRow ==
    cache.by # NoSession /\ pc[cache.by] = "done" =>
        /\ cache.version <= row.version
        /\ cache.version = row.version => cache.status = row.status

\* A call that has begun returns: the row lock that mark_failed takes before it
\* selects neither blocks its own swap nor another session for good.
EveryCallReturns == \A s \in Session : pc[s] \in Active ~> pc[s] \in Closed

\* The statuses of the row, version by version.
StatusAt == [v \in 0..row.version |->
    IF v = 0 THEN InitStatus ELSE (CHOOSE h \in history : h.version = v).to]

\* The protocol implements JobRow: validation is never more than MaxAttempts - 1
\* versions out of date when the swap it admitted commits.
Promise == INSTANCE JobRow WITH version <- row.version, was <- StatusAt
RowPromise == Promise!Spec

\* states.py: the transition table "prevents illegal jumps (e.g. done -> running)".
NoIllegalJump == \A h \in history : IsValidTransition(h.from, h.to)
==============================================================================
