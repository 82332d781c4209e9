---------------------------- MODULE JobProcessing ----------------------------
(***************************************************************************)
(* One uploaded file's way through the system: the API's handlers move the  *)
(* Job to pending and dispatch a parse task, the broker delivers the task   *)
(* at least once, workers gate, lock, parse and finalize it, and the        *)
(* sweeper expires what got stuck.                                          *)
(*                                                                          *)
(* The grain is the database transaction: what happens inside one is        *)
(* JobStateMachine's, and what that module promises of the Job row is       *)
(* JobRow's: a transition commits if it is legal from the status its        *)
(* session loaded and the row has moved on by less than MaxAttempts         *)
(* versions since.  The lease is JobLock's: exclusive when LeaseHolds       *)
(* (its SafeTiming), else it may lapse under a working holder.              *)
(***************************************************************************)
EXTENDS Integers, Sequences, FiniteSets, JobStates

CONSTANTS
    Events,         \* S3 upload-complete events
    Confirms,       \* confirm_upload requests
    Redeliveries,   \* further deliveries of a task whose first one still runs
    Sweeps,         \* sweeper processes
    None,           \* no lock holder, no result, no snapshot
    Orphan,         \* a lock holder that is gone, or never knew
    MaxAttempts,    \* MAX_TRANSITION_ATTEMPTS
    MaxRetries,     \* DOCUMENT_INGESTION_TASK_MAX_RETRIES
    MaxCrashes,     \* bound: worker processes that die
    LeaseHolds      \* the lease is a lock (JobLock, SafeTiming)

\* A handler's task is delivered under the handler's name.
Handler  == Events \cup Confirms
Delivery == Handler \cup Redeliveries

ASSUME ProcessingAssumption ==
    /\ MaxAttempts \in Nat \ {0} /\ MaxRetries \in Nat /\ MaxCrashes \in Nat
    /\ LeaseHolds \in BOOLEAN
    /\ Events \cap Confirms = {} /\ Handler \cap Redeliveries = {}
    /\ {None, Orphan} \cap (Delivery \cup Sweeps) = {} /\ None # Orphan
    /\ Delivery \cap Sweeps = {}
    /\ None \notin [status: Statuses, version: Nat]

VARIABLES
    moves,      \* the committed transitions of the Job row, version by version
    result,     \* the delivery whose JobResult is committed, or None
    events,     \* committed webhook events, by the version of their transition
    lock,       \* holder of the Job's lease
    hpc,        \* hpc[h]: where the handler is
    dpc,        \* dpc[d]: where the delivery is
    tries,      \* tries[d]: retries the task has used
    why,        \* why[d]: what the task raised for
    spc,        \* spc[s]: where the sweeper is
    snap,       \* snap[a]: the Job as loaded in the actor's open session
    crashes     \* worker processes that died

db     == <<moves, result, events>>
tasks  == <<dpc, tries, why>>
vars   == <<db, lock, hpc, tasks, spc, snap, crashes>>

Actor == Delivery \cup Sweeps

Version == Len(moves)
Status  == IF moves = <<>> THEN "waiting-file" ELSE moves[Len(moves)].to

HandlerPhases == {"idle", "loaded", "committed", "closed"}

\* Phases of a delivery: "gated": the Job is loaded and pending; "cleared": past
\* the gate; "inserting", "updating": JobResult selected, absent or present;
\* "finalizing": result written and published, transition and commit to come;
\* "finished", "lost": finalization committed or rolled back; "raised": on_failure
\* is to run.
Inside   == {"parsing", "inserting", "updating", "finalizing", "finished", "lost"}
Running  == {"gated", "cleared", "raised"} \cup Inside
Phases   == {"none", "queued", "acked"} \cup Running

Init ==
    /\ moves = <<>>
    /\ result = None
    /\ events = {}
    /\ lock = None
    /\ hpc = [h \in Handler |-> "idle"]
    /\ dpc = [d \in Delivery |-> "none"]
    /\ tries = [d \in Delivery |-> 0]
    /\ why = [d \in Delivery |-> "nothing"]
    /\ spc = [s \in Sweeps |-> "idle"]
    /\ snap = [a \in Actor |-> None]
    /\ crashes = 0

------------------------------------------------------------------------------
\* Mutant of Swaps: an UPDATE without "version == old_version" in its WHERE.
SwapsUnguarded(seen, to) == IsValidTransition(seen.status, to)

\* transition_outcome on a Job loaded as "seen": each missed swap costs an attempt
\* and moves the loaded version on by one.
Swaps(seen, to) ==
    /\ IsValidTransition(seen.status, to)
    /\ Version - seen.version < MaxAttempts

Loaded == [status |-> Status, version |-> Version]

Move(a, to, cause) == moves' = Append(moves, [by |-> a, to |-> to, why |-> cause])

Keep(a) == snap' = [snap EXCEPT ![a] = Loaded]
Drop(a) == snap' = [snap EXCEPT ![a] = None]

\* create_event, in the transaction of the transition that makes the next version.
Event(kind) == events' = events \cup {[kind |-> kind, version |-> Version + 1]}

Deliver(d, p) == dpc' = [dpc EXCEPT ![d] = p]

\* __exit__ of the Job lock, which releases only what d still owns; a release that
\* fails is swallowed and leaves the key to expire.
Release(d) == IF lock = d THEN lock' \in {None, Orphan} ELSE UNCHANGED lock

\* A SET NX that sets the key without the task's learning of it.
SetUnheard == lock = None /\ lock' = Orphan

------------------------------------------------------------------------------
\* The handler loads the Job: confirm_upload goes on from pending, too.
HandlerLoad(h) ==
    /\ hpc[h] = "idle"
    /\ IF Status = "waiting-file" \/ (h \in Confirms /\ Status = "pending")
       THEN Keep(h) /\ hpc' = [hpc EXCEPT ![h] = "loaded"]
       ELSE UNCHANGED snap /\ hpc' = [hpc EXCEPT ![h] = "closed"]
    /\ UNCHANGED <<db, lock, tasks, spc, crashes>>

\* start_uploaded_file_workflow: the transition to pending commits, or
\* UnavailableException.
HandlerCommit(h) ==
    /\ hpc[h] = "loaded"
    /\ IF Swaps(snap[h], "pending")
       THEN Move(h, "pending", "nothing") /\ hpc' = [hpc EXCEPT ![h] = "committed"]
       ELSE UNCHANGED moves /\ hpc' = [hpc EXCEPT ![h] = "closed"]
    /\ Drop(h)
    /\ UNCHANGED <<result, events, lock, tasks, spc, crashes>>

\* mark_upload_expired: an event that comes too late fails the Job, without a
\* webhook event.  A failing update of the error fields rolls back, which makes the
\* transition load the Job anew.
HandlerExpire(h) ==
    /\ hpc[h] = "loaded" /\ h \in Events
    /\ \E seen \in {snap[h], Loaded} :
           IF Swaps(seen, "failed") THEN Move(h, "failed", "expired") ELSE UNCHANGED moves
    /\ hpc' = [hpc EXCEPT ![h] = "closed"]
    /\ Drop(h)
    /\ UNCHANGED <<result, events, lock, tasks, spc, crashes>>

\* Mutant of HandlerDispatch: the task is sent before the transition commits.
HandlerDispatchEarly(h) ==
    /\ hpc[h] \in {"loaded", "committed"} /\ dpc[h] = "none"
    /\ hpc' = IF hpc[h] = "committed" THEN [hpc EXCEPT ![h] = "closed"] ELSE hpc
    /\ Deliver(h, "queued")
    /\ UNCHANGED <<db, lock, tries, why, spc, snap, crashes>>

\* start_uploaded_file_parse: the task is sent after the commit.
HandlerDispatch(h) ==
    /\ hpc[h] = "committed"
    /\ hpc' = [hpc EXCEPT ![h] = "closed"]
    /\ Deliver(h, "queued")
    /\ UNCHANGED <<db, lock, tries, why, spc, snap, crashes>>

\* The API process dies, the database raises or the broker refuses the task.
HandlerDies(h) ==
    /\ hpc[h] \in {"loaded", "committed"}
    /\ hpc' = [hpc EXCEPT ![h] = "closed"]
    /\ Drop(h)
    /\ UNCHANGED <<db, lock, tasks, spc, crashes>>

------------------------------------------------------------------------------
\* Mutant of RetryOrRaise: max_retries off by one.
RetryOnceMore(d, cause) ==
    IF tries[d] <= MaxRetries
    THEN Deliver(d, "queued") /\ tries' = [tries EXCEPT ![d] = @ + 1] /\ UNCHANGED why
    ELSE Deliver(d, "raised") /\ why' = [why EXCEPT ![d] = cause] /\ UNCHANGED tries

\* autoretry_for: the task is sent again until its retries are used up.
RetryOrRaise(d, cause) ==
    IF tries[d] < MaxRetries
    THEN /\ Deliver(d, "queued")
         /\ tries' = [tries EXCEPT ![d] = @ + 1]
         /\ UNCHANGED why
    ELSE /\ Deliver(d, "raised")
         /\ why' = [why EXCEPT ![d] = cause]
         /\ UNCHANGED tries

\* An exception outside RETRYABLE_EXCEPTIONS.
Raise(d, cause) ==
    /\ Deliver(d, "raised")
    /\ why' = [why EXCEPT ![d] = cause]
    /\ UNCHANGED tries

\* Mutant of GateSkip: the task of a finished Job is rejected and queued again.
GateSkipRequeues(d) ==
    /\ dpc[d] = "queued" /\ Status \in TerminalStates
    /\ Deliver(d, "queued")
    /\ UNCHANGED <<db, lock, hpc, tries, why, spc, snap, crashes>>

\* mark_job_running: the Job is finished, the task is over.
GateSkip(d) ==
    /\ dpc[d] = "queued" /\ Status \in TerminalStates
    /\ Deliver(d, "acked")
    /\ UNCHANGED <<db, lock, hpc, tries, why, spc, snap, crashes>>

\* mark_job_running: "already running (likely redelivery), deferring to lock".
GatePass(d) ==
    /\ dpc[d] = "queued" /\ Status = "running"
    /\ Deliver(d, "cleared")
    /\ UNCHANGED <<db, lock, hpc, tries, why, spc, snap, crashes>>

\* mark_job_running: the Job is loaded, and pending.
GateLoad(d) ==
    /\ dpc[d] = "queued" /\ Status = "pending"
    /\ Keep(d)
    /\ Deliver(d, "gated")
    /\ UNCHANGED <<db, lock, hpc, tries, why, spc, crashes>>

\* mark_job_running: the transition to running commits, or UnavailableException.
GateStart(d) ==
    /\ dpc[d] = "gated"
    /\ IF Swaps(snap[d], "running")
       THEN Move(d, "running", "nothing") /\ Deliver(d, "cleared") /\ UNCHANGED <<tries, why>>
       ELSE UNCHANGED moves /\ RetryOrRaise(d, "unsettled")
    /\ Drop(d)
    /\ UNCHANGED <<result, events, lock, hpc, spc, crashes>>

\* RedisJobLock.__enter__ gets the lock.
Acquire(d) ==
    /\ dpc[d] = "cleared" /\ lock = None
    /\ lock' = d
    /\ Deliver(d, "parsing")
    /\ UNCHANGED <<db, hpc, tries, why, spc, snap, crashes>>

\* Mutant of Busy: __enter__ ignores that acquire returned False.
BusyGoesOn(d) ==
    /\ dpc[d] = "cleared" /\ lock # None
    /\ Deliver(d, "parsing")
    /\ UNCHANGED <<db, lock, hpc, tries, why, spc, snap, crashes>>

\* RedisJobLock.__enter__ finds it taken, by another or by its own SET that was sent
\* again: UnavailableException.
Busy(d) ==
    /\ dpc[d] = "cleared"
    /\ (lock # None /\ UNCHANGED lock) \/ SetUnheard
    /\ RetryOrRaise(d, "busy")
    /\ UNCHANGED <<db, hpc, spc, snap, crashes>>

\* RedisJobLock.__enter__: the client raises, before or after the key was set, and
\* the client's exceptions are not RETRYABLE_EXCEPTIONS.
AcquireRaises(d) ==
    /\ dpc[d] = "cleared"
    /\ UNCHANGED lock \/ SetUnheard
    /\ Raise(d, "error")
    /\ UNCHANGED <<db, hpc, spc, snap, crashes>>

\* upsert_job_result looks for the Job's result; an existing one brings the Job
\* with it, and keeps it (JobResult.job, lazy="joined").
Upsert(d) ==
    /\ dpc[d] = "parsing"
    /\ IF result = None
       THEN Deliver(d, "inserting") /\ UNCHANGED snap
       ELSE Deliver(d, "updating") /\ Keep(d)
    /\ UNCHANGED <<db, lock, hpc, tries, why, spc, crashes>>

\* Two inserts of the Job's only result: the unique index lets the second wait for
\* the first and fail.
Conflict(d) ==
    /\ dpc[d] = "inserting" /\ result # None
    /\ Raise(d, "error")
    /\ Release(d)
    /\ UNCHANGED <<db, hpc, spc, snap, crashes>>

\* The result is written, which waits for another finalization's row lock, and
\* published; a new result bound to a document keeps the Job as loaded now.
Publish(d) ==
    /\ \/ dpc[d] = "inserting" /\ result = None /\ (Keep(d) \/ UNCHANGED snap)
       \/ dpc[d] = "updating" /\ UNCHANGED snap
    /\ \A e \in Delivery : dpc[e] # "finalizing"
    /\ Deliver(d, "finalizing")
    /\ UNCHANGED <<db, lock, hpc, tries, why, spc, crashes>>

\* The Job that mark_completed validates: the one kept, else as selected.
Completing(d) == IF snap[d] = None THEN Loaded ELSE snap[d]

\* Mutant of Finalize: should_commit is not asked, so a rejection commits the result.
FinalizeAnyway(d) ==
    /\ dpc[d] = "finalizing"
    /\ result' = d
    /\ IF Swaps(Completing(d), "done")
       THEN Move(d, "done", "nothing") /\ Event("completed") /\ Deliver(d, "finished")
       ELSE UNCHANGED <<moves, events>> /\ Deliver(d, "lost")
    /\ Drop(d)
    /\ UNCHANGED <<lock, hpc, tries, why, spc, crashes>>

\* finalize_job_success: result, done and webhook event in one commit, or a
\* rollback that the task does not notice.
Finalize(d) ==
    /\ dpc[d] = "finalizing"
    /\ IF Swaps(Completing(d), "done")
       THEN /\ Move(d, "done", "nothing")
            /\ result' = d
            /\ Event("completed")
            /\ Deliver(d, "finished")
       ELSE /\ UNCHANGED db
            /\ Deliver(d, "lost")
    /\ Drop(d)
    /\ UNCHANGED <<lock, hpc, tries, why, spc, crashes>>

\* The block ends and the message is acknowledged.
Leave(d) ==
    /\ dpc[d] \in {"finished", "lost"}
    /\ Release(d)
    /\ Deliver(d, "acked")
    /\ UNCHANGED <<db, hpc, tries, why, spc, snap, crashes>>

\* Preparing, parsing or storing raises something transient.
ParseFails(d) ==
    /\ dpc[d] = "parsing"
    /\ RetryOrRaise(d, "error")
    /\ Release(d)
    /\ UNCHANGED <<db, hpc, spc, snap, crashes>>

\* The document or the database is at fault: no retry, the transaction rolls back.
ParseRaises(d) ==
    /\ dpc[d] \in {"parsing", "inserting", "updating", "finalizing"}
    /\ Raise(d, "error")
    /\ Release(d)
    /\ Drop(d)
    /\ UNCHANGED <<db, hpc, spc, crashes>>

\* Mutant of OnFailure: the event is created before the transition is decided, and
\* committed with its rejection.
OnFailureAnnounces(d) ==
    /\ dpc[d] = "raised"
    /\ Event("failed")
    /\ IF IsValidTransition(Status, "failed") THEN Move(d, "failed", why[d]) ELSE UNCHANGED moves
    /\ Deliver(d, "acked")
    /\ UNCHANGED <<result, lock, hpc, tries, why, spc, snap, crashes>>

\* on_failure: failed and its webhook event in one commit, under the row lock that
\* mark_failed takes first; a rejection is rolled back.
OnFailure(d) ==
    /\ dpc[d] = "raised"
    /\ IF IsValidTransition(Status, "failed")
       THEN Move(d, "failed", why[d]) /\ Event("failed")
       ELSE UNCHANGED <<moves, events>>
    /\ Deliver(d, "acked")
    /\ UNCHANGED <<result, lock, hpc, tries, why, spc, snap, crashes>>

\* on_failure: the database raises, which is logged and forgotten.
OnFailureRaises(d) ==
    /\ dpc[d] = "raised"
    /\ Deliver(d, "acked")
    /\ UNCHANGED <<db, lock, hpc, tries, why, spc, snap, crashes>>

\* The worker process dies: its transaction is rolled back, its lock is left to
\* expire, and the unacknowledged message comes back.
Crash(d) ==
    /\ dpc[d] \in Running
    /\ crashes < MaxCrashes /\ crashes' = crashes + 1
    /\ lock' = IF lock = d THEN Orphan ELSE lock
    /\ Drop(d)
    /\ Deliver(d, "queued")
    /\ UNCHANGED <<db, hpc, tries, why, spc>>

\* The broker connection is lost: the message comes back, but a greenlet cannot be
\* cancelled and d runs on.
Redeliver(d, e) ==
    /\ dpc[d] \in Running
    /\ e \in Redeliveries /\ dpc[e] = "none"
    /\ Deliver(e, "queued")
    /\ tries' = [tries EXCEPT ![e] = tries[d]]
    /\ UNCHANGED <<db, lock, hpc, why, spc, snap, crashes>>

\* The key that nobody renews expires.
OrphanExpires ==
    /\ lock = Orphan
    /\ lock' = None
    /\ UNCHANGED <<db, hpc, tasks, spc, snap, crashes>>

\* The key expires under a working holder.
LeaseLapses ==
    /\ ~LeaseHolds /\ lock \in Delivery
    /\ lock' = None
    /\ UNCHANGED <<db, hpc, tasks, spc, snap, crashes>>

------------------------------------------------------------------------------
\* Mutant of SweepLoad: the scan knows only the processing states.
SweepLoadProcessing(s) ==
    /\ spc[s] = "idle" /\ Status \in {"running", "converting"}
    /\ Keep(s)
    /\ spc' = [spc EXCEPT ![s] = "loaded"]
    /\ UNCHANGED <<db, lock, hpc, tasks, crashes>>

\* expire_stale_jobs scans for Jobs that have not finished.
SweepLoad(s) ==
    /\ spc[s] = "idle" /\ Status \notin TerminalStates
    /\ Keep(s)
    /\ spc' = [spc EXCEPT ![s] = "loaded"]
    /\ UNCHANGED <<db, lock, hpc, tasks, crashes>>

\* expire_stale_jobs marks what it has loaded as failed; no webhook event.
SweepCommit(s) ==
    /\ spc[s] = "loaded"
    /\ IF Swaps(snap[s], "failed") THEN Move(s, "failed", "stale") ELSE UNCHANGED moves
    /\ Drop(s)
    /\ spc' = [spc EXCEPT ![s] = "idle"]
    /\ UNCHANGED <<result, events, lock, hpc, tasks, crashes>>

\* The batch raises: nothing of it is committed.
SweepAborts(s) ==
    /\ spc[s] = "loaded"
    /\ Drop(s)
    /\ spc' = [spc EXCEPT ![s] = "idle"]
    /\ UNCHANGED <<db, lock, hpc, tasks, crashes>>

------------------------------------------------------------------------------
HandlerStep(h) == HandlerLoad(h) \/ HandlerCommit(h) \/ HandlerExpire(h)
                  \/ HandlerDispatch(h) \/ HandlerDies(h)

\* What a worker does of its own accord.
Work(d) ==
    \/ GateSkip(d) \/ GatePass(d) \/ GateLoad(d) \/ GateStart(d)
    \/ Acquire(d) \/ Busy(d) \/ AcquireRaises(d)
    \/ Upsert(d) \/ Conflict(d) \/ Publish(d) \/ Finalize(d) \/ Leave(d)
    \/ ParseFails(d) \/ ParseRaises(d)
    \/ OnFailure(d) \/ OnFailureRaises(d)

\* Every handler has returned and every delivery is over.
Quiet ==
    /\ \A h \in Handler : hpc[h] = "closed"
    /\ \A d \in Delivery : dpc[d] \in {"none", "acked"}
    /\ UNCHANGED vars

Next ==
    \/ \E h \in Handler : HandlerStep(h)
    \/ \E d \in Delivery : Work(d) \/ Crash(d) \/ \E e \in Redeliveries : Redeliver(d, e)
    \/ OrphanExpires \/ LeaseLapses
    \/ \E s \in Sweeps : SweepLoad(s) \/ SweepCommit(s) \/ SweepAborts(s)
    \/ Quiet

Spec == Init /\ [][Next]_vars

\* Handlers and workers that have begun run on, locks of the dead expire, Beat
\* fires the sweeper again and again and it does not raise for ever.  Nothing
\* makes clients call or storage report.
Fairness ==
    /\ \A h \in Handler : WF_vars(hpc[h] # "idle" /\ HandlerStep(h))
    /\ \A d \in Delivery : WF_vars(Work(d))
    /\ WF_vars(OrphanExpires)
    /\ \A s \in Sweeps : WF_vars(SweepLoad(s)) /\ SF_vars(SweepCommit(s))

FairSpec == Spec /\ Fairness

------------------------------------------------------------------------------
TypeOK ==
    /\ moves \in Seq([by: Actor, to: Statuses,
                      why: {"nothing", "unsettled", "busy", "error", "stale", "expired"}])
    /\ result \in Delivery \cup {None}
    /\ events \subseteq [kind: {"completed", "failed"}, version: Nat \ {0}]
    /\ lock \in Delivery \cup {None, Orphan}
    /\ hpc \in [Handler -> HandlerPhases]
    /\ dpc \in [Delivery -> Phases]
    /\ tries \in [Delivery -> 0..MaxRetries]
    /\ why \in [Delivery -> {"nothing", "unsettled", "busy", "error"}]
    /\ spc \in [Sweeps -> {"idle", "loaded"}]
    /\ snap \in [Actor -> [status: Statuses, version: Nat] \cup {None}]
    /\ crashes \in 0..MaxCrashes

Completions == {v \in DOMAIN moves : moves[v].to = "done"}

\* The committed result is that of the last delivery that moved the Job to done:
\* no rolled-back, overtaken or crashed finalization leaves its result behind,
\* and a done Job always has one.
ResultOfLastCompletion ==
    IF Completions = {} THEN result = None
    ELSE \E v \in Completions :
            (\A w \in Completions : w <= v) /\ result = moves[v].by

\* The outbox: a worker's terminal transition and its webhook event commit
\* together, one event for one transition, whatever crashes, retries or races.
OutboxMatchesMoves ==
    events = { [kind |-> IF moves[v].to = "done" THEN "completed" ELSE "failed",
                version |-> v] :
               v \in {w \in DOMAIN moves :
                        moves[w].by \in Delivery /\ moves[w].to \in TerminalStates
                        /\ moves[w].why # "expired"} }

\* A worker never meets a Job whose upload transition is not visible yet: tasks
\* are sent after the commit and nothing leads back.
NoEarlyDelivery == \A d \in Delivery : dpc[d] = "queued" => Status # "waiting-file"

\* A lock that holds keeps finalizations apart: nobody's insert of the Job's first
\* result conflicts with another's, whatever was redelivered.
NoConflict == \A d \in Delivery : dpc[d] = "inserting" => result = None

\* Retries and redeliveries come to an end: every delivery is acknowledged.
EveryDeliveryEnds == \A d \in Delivery : dpc[d] = "queued" ~> dpc[d] = "acked"

\* Whatever dies on the way, the sweeper settles the Job for good.
EventuallySettled == <>[](Status \in TerminalStates)

\* The Job row as its readers know it.
StatusAt == [v \in 0..Version |-> IF v = 0 THEN "waiting-file" ELSE moves[v].to]
Row == INSTANCE JobRow WITH InitStatus <- "waiting-file", version <- Version, was <- StatusAt
RowPromise == Row!Spec

\* The Job lock as its workers know it.
Lease == INSTANCE JobLease WITH
    Holder <- Delivery, free <- lock = None, inside <- {d \in Delivery : dpc[d] \in Inside}
LeasePromise == Lease!Spec
==============================================================================
