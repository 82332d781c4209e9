---------------------------- MODULE JobAdmission ----------------------------
(***************************************************************************)
(* The slots for concurrent Jobs: creation requests that count the active   *)
(* Jobs and insert one more, the handlers and workers that move a Job on,   *)
(* and the sweeps that take a slot back from a Job nobody moves any more.   *)
(*                                                                          *)
(* A sweep is one transaction over a batch of Jobs it has loaded at its     *)
(* start.  An exception at one Job rolls back what the sweep has done to    *)
(* the Jobs before it and lets it go on with those after it.                *)
(***************************************************************************)
EXTENDS Integers, FiniteSets, JobStates

CONSTANTS
    Jobs,         \* creation requests, each named by the Job it would create
    DocOf,        \* DocOf[j]: user and document of the Job
    Max,          \* MAX_CONCURRENT_JOBS
    Connections,  \* database connections of the API
    Beats,        \* worker processes that run firings of the sweep
    MaxAttempts,  \* MAX_TRANSITION_ATTEMPTS
    MaxFaults,    \* bound: exceptions in sweeps and in the periodic lock
    Scenes,       \* bound: requests that never come, exceptions that cannot come
    None          \* no Job loaded

ASSUME AdmissionAssumption ==
    /\ IsFiniteSet(Jobs) /\ None \notin [status: Statuses, behind: Nat]
    /\ Max \in Nat \ {0} /\ Connections \in Nat \ {0}
    /\ Scenes \subseteq [quiet: SUBSET Jobs, faults: 0 .. MaxFaults]
    /\ MaxAttempts \in Nat \ {0} /\ MaxFaults \in Nat

VARIABLES
    rpc,       \* rpc[j]: the statement the creation request is at
    row,       \* row[j]: status of the committed row, "none" before there is one
    loaded,    \* loaded[j]: what a handler or worker of the Job has loaded
    key,       \* whether the key of the periodic lock is there
    batch,     \* batch[b]: Jobs the sweep has still to do
    running,   \* Beats that are in a sweep
    held,      \* held[b][j]: the Job as the sweep's session has loaded it
    locked,    \* locked[b]: rows the sweep's transaction has written
    dirty,     \* dirty[b]: those of them it has set to failed
    comeback,  \* history: Jobs that have left a terminal status
    faults     \* exceptions so far

sweep == <<key, batch, running, held, locked, dirty>>
vars  == <<rpc, row, loaded, sweep, comeback, faults>>

ActiveStates == Statuses \ TerminalStates

\* _count_non_terminal_jobs
Active == {j \in Jobs : row[j] \in ActiveStates}

\* Requests that may insert; each holds a connection.
Passed  == {j \in Jobs : rpc[j] = "passed"}

\* A loaded Job, and by how many versions the row has moved on since.
Snapshot == [status: Statuses, behind: 0 .. MaxAttempts]
Fresh(j) == [status |-> row[j], behind |-> 0]

\* Mutant of Aged: a swap is tried as often as the row moves.
AgedForever(s) == IF s # None THEN [s EXCEPT !.behind = @ + 1] ELSE s

\* Another transaction has written the row; beyond MaxAttempts it is all the same.
Aged(s) == IF s # None /\ s.behind < MaxAttempts THEN [s EXCEPT !.behind = @ + 1] ELSE s

\* transition_outcome: legal from the loaded status, and each missed swap costs an
\* attempt and moves the loaded version on by one.
Swaps(s, to) == IsValidTransition(s.status, to) /\ s.behind < MaxAttempts

\* uq_jobs_user_active_document
IndexRefuses(j) == \E k \in Active \ {j} : DocOf[k] = DocOf[j]

Locked == UNION {locked[b] : b \in Beats}

Init ==
    /\ \E scene \in Scenes :
           /\ rpc = [j \in Jobs |-> IF j \in scene.quiet THEN "closed" ELSE "idle"]
           /\ faults = scene.faults
    /\ row = [j \in Jobs |-> "none"]
    /\ loaded = [j \in Jobs |-> None]
    /\ key = FALSE
    /\ batch = [b \in Beats |-> {}]
    /\ running = {}
    /\ held = [b \in Beats |-> [j \in Jobs |-> None]]
    /\ locked = [b \in Beats |-> {}]
    /\ dirty = [b \in Beats |-> {}]
    /\ comeback = {}

Request(j, p) == rpc' = [rpc EXCEPT ![j] = p]

------------------------------------------------------------------------------
(* Creation requests. *)

\* Mutant of Count: as many as the cap are taken for fewer.
CountOver(j) ==
    /\ rpc[j] = "idle" /\ Cardinality(Passed) < Connections
    /\ Request(j, IF Cardinality(Active) <= Max THEN "passed" ELSE "closed")
    /\ UNCHANGED <<row, loaded, sweep, comeback, faults>>

\* enforce_job_capacity, by the dependency and once more by the service: the last
\* one decides.  The session keeps its connection to the end of the request.
Count(j) ==
    /\ rpc[j] = "idle" /\ Cardinality(Passed) < Connections
    /\ Request(j, IF Cardinality(Active) < Max THEN "passed" ELSE "closed")
    /\ UNCHANGED <<row, loaded, sweep, comeback, faults>>

\* create_job inserts and commits, or the unique index raises a conflict.
CreateJob(j) ==
    /\ rpc[j] = "passed"
    /\ IF IndexRefuses(j)
       THEN UNCHANGED row
       ELSE row' = [row EXCEPT ![j] = "waiting-file"]
    /\ Request(j, "closed")
    /\ UNCHANGED <<loaded, sweep, comeback, faults>>

\* Any exception on the way, or the process dies.
RequestFails(j) ==
    /\ rpc[j] = "passed"
    /\ Request(j, "closed")
    /\ UNCHANGED <<row, loaded, sweep, comeback, faults>>

------------------------------------------------------------------------------
(* Handlers and workers of a Job. *)

\* The statuses that the call sites of the transition ask for.
Targets == {"pending", "running", "done", "failed"}

\* A handler or a worker's gate reads the Job.
Load(j) ==
    /\ j \in Active /\ loaded[j] = None
    /\ loaded' = [loaded EXCEPT ![j] = Fresh(j)]
    /\ UNCHANGED <<rpc, row, sweep, comeback, faults>>

\* transition_outcome and its commit; a status that the index refuses is an
\* exception, and nothing is written.
Move(j, to) ==
    /\ loaded[j] # None /\ to # loaded[j].status /\ j \notin Locked
    /\ Swaps(loaded[j], to)
    /\ to \in ActiveStates => ~IndexRefuses(j)
    /\ row' = [row EXCEPT ![j] = to]
    /\ comeback' = IF row[j] \in TerminalStates /\ to \notin TerminalStates
                   THEN comeback \cup {j} ELSE comeback
    /\ held' = [b \in Beats |-> [held[b] EXCEPT ![j] = Aged(@)]]
    /\ loaded' = [loaded EXCEPT ![j] = None]
    /\ UNCHANGED <<rpc, key, batch, running, locked, dirty, faults>>

\* The transition is refused, the task is lost, or the handler dies.
GiveUp(j) ==
    /\ loaded[j] # None
    /\ loaded' = [loaded EXCEPT ![j] = None]
    /\ UNCHANGED <<rpc, row, sweep, comeback, faults>>

------------------------------------------------------------------------------
(* The sweep. *)

\* The key outlives a sweep: it is there for the period less a buffer, 1770 s.
KeyExpires ==
    /\ key /\ running = {} /\ key' = FALSE
    /\ UNCHANGED <<rpc, row, loaded, batch, running, held, locked, dirty,
                   comeback, faults>>

\* Mutant of Expirable: Jobs that wait for their file are not selected.
ExpirableProcessing == {j \in Active : row[j] # "waiting-file"}

\* The Jobs that may be stale: nobody has to write one that is not terminal.
Expirable == Active

\* periodic_task_lock lets the firing through (it has set the key, or Redis has
\* raised), and the sweep selects those that have not been written for too long.
Fire(b, S) ==
    /\ b \notin running /\ S \subseteq Expirable
    /\ \/ ~key /\ key' = TRUE /\ UNCHANGED faults
       \/ faults < MaxFaults /\ faults' = faults + 1 /\ UNCHANGED key
    /\ batch' = [batch EXCEPT ![b] = S]
    /\ held' = [held EXCEPT ![b] = [j \in Jobs |-> IF j \in S THEN Fresh(j) ELSE None]]
    /\ running' = running \cup {b}
    /\ UNCHANGED <<rpc, row, loaded, locked, dirty, comeback>>

\* Some Job the sweep has still to do is written by another one.
Blocks(c, b) == c # b /\ batch[b] \cap locked[c] # {}

\* Each one in S blocks another one in S, and is blocked.
Cycle(S) == \A c \in S : (\E d \in S : Blocks(d, c)) /\ (\E d \in S : Blocks(c, d))

\* mark_failed_outcome of the next Job: its error columns are written whether or
\* not the swap hits.  What a rollback has expired is loaded again.
SweepJob(b, j) ==
    /\ j \in batch[b] \ Locked
    /\ LET s == IF held[b][j] = None THEN Fresh(j) ELSE held[b][j] IN
       dirty' = [dirty EXCEPT ![b] = IF Swaps(s, "failed") THEN @ \cup {j} ELSE @]
    /\ locked' = [locked EXCEPT ![b] = @ \cup {j}]
    /\ batch' = [batch EXCEPT ![b] = @ \ {j}]
    /\ held' = [held EXCEPT ![b][j] = None]
    /\ UNCHANGED <<rpc, row, loaded, key, running, comeback, faults>>

Undo(b) ==
    /\ locked' = [locked EXCEPT ![b] = {}]
    /\ dirty' = [dirty EXCEPT ![b] = {}]
    /\ UNCHANGED <<rpc, row, loaded, key, comeback>>

\* transition_outcome catches an exception, the end of a deadlock included, and rolls
\* the session back, which expires every loaded Job; the sweep counts the Job as
\* skipped and goes on.
SweepJobFails(b, j) ==
    /\ j \in batch[b]
    /\ \/ faults < MaxFaults /\ faults' = faults + 1
       \/ /\ \E S \in SUBSET Beats : b \in S /\ Cycle(S) /\ \E c \in S : j \in locked[c]
          /\ UNCHANGED faults
    /\ batch' = [batch EXCEPT ![b] = @ \ {j}]
    /\ held' = [held EXCEPT ![b] = [k \in Jobs |-> None]]
    /\ Undo(b) /\ UNCHANGED running

\* The process dies, or the COMMIT fails.
SweepDies(b) ==
    /\ b \in running /\ faults < MaxFaults /\ faults' = faults + 1
    /\ batch' = [batch EXCEPT ![b] = {}]
    /\ held' = [held EXCEPT ![b] = [j \in Jobs |-> None]]
    /\ running' = running \ {b}
    /\ Undo(b)

\* get_sync_db_context commits the batch.
SweepCommit(b) ==
    /\ b \in running /\ batch[b] = {}
    /\ row' = [j \in Jobs |-> IF j \in dirty[b] THEN "failed" ELSE row[j]]
    /\ loaded' = [j \in Jobs |-> IF j \in dirty[b] THEN Aged(loaded[j]) ELSE loaded[j]]
    /\ held' = [c \in Beats |-> [j \in Jobs |->
                   IF j \in dirty[b] THEN Aged(held[c][j]) ELSE held[c][j]]]
    /\ locked' = [locked EXCEPT ![b] = {}]
    /\ dirty' = [dirty EXCEPT ![b] = {}]
    /\ running' = running \ {b}
    /\ UNCHANGED <<rpc, key, batch, comeback, faults>>

------------------------------------------------------------------------------
JobStep(j) ==
    \/ Count(j) \/ CreateJob(j) \/ RequestFails(j)
    \/ Load(j) \/ (\E to \in Targets : Move(j, to)) \/ GiveUp(j)

SweepStep(b) ==
    \/ (\E j \in Jobs : SweepJob(b, j) \/ SweepJobFails(b, j))
    \/ SweepDies(b) \/ SweepCommit(b)

Next == (\E j \in Jobs : JobStep(j)) \/ KeyExpires \/ (\E b \in Beats : SweepStep(b) \/ \E S \in SUBSET Expirable : Fire(b, S))

Spec == Init /\ [][Next]_vars

\* Time passes: the key expires, a sweep that has begun goes on, and as a Job can be
\* moved only so often, firings come that find every active Job stale.
Fairness ==
    /\ SF_vars(\E b \in Beats : Fire(b, Expirable))
    /\ WF_vars(KeyExpires)
    /\ \A b \in Beats : WF_vars(SweepStep(b))

FairSpec == Spec /\ Fairness

------------------------------------------------------------------------------
\* The types of the rows, of the requests and of the sweeps' sessions.
TypeOK ==
    /\ rpc \in [Jobs -> {"idle", "passed", "closed"}]
    /\ row \in [Jobs -> Statuses \cup {"none"}]
    /\ loaded \in [Jobs -> Snapshot \cup {None}]
    /\ key \in BOOLEAN
    /\ batch \in [Beats -> SUBSET Jobs]
    /\ running \subseteq Beats
    /\ held \in [Beats -> [Jobs -> Snapshot \cup {None}]]
    /\ locked \in [Beats -> SUBSET Jobs]
    /\ dirty \in [Beats -> SUBSET Jobs]
    /\ comeback \subseteq Jobs
    /\ faults \in 0 .. MaxFaults

\* enforce_job_capacity counts and create_job inserts in separate statements: the
\* cap is passed by no more than the requests that fit between another one's two
\* statements, one per connection but for the one that took the last slot.  (Jobs
\* that a swap after a miss has brought back from a terminal status come on top.)
CapOvershootBounded ==
    Cardinality(Active \ comeback) + Cardinality(Passed) <= Max - 1 + Connections

\* Every Job gives its slot back, whoever dies and whatever the sweep rolls back: one
\* that nobody moves is failed by a sweep that no exception spoils, so time and again
\* no slot is taken.
SlotsComeBack == []<>(Active = {})
==============================================================================
