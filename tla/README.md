# A verification project for ziru's job processing

ziru turns uploaded files into searchable documents. An API process (FastAPI)
accepts uploads, Celery workers parse them, PostgreSQL keeps the state of every
Job, Redis keeps caches and locks, and QStash delivers webhooks to customers. The
program's own core logic is the **life of a Job**: several processes, each with
its own database session, move one row through a state machine while tasks are
redelivered, leases lapse, callbacks get lost and a sweeper cleans up. Around it stand
the admission of Jobs under a cap, the Document their content is published into, and
the limit on the model calls they make.

This directory holds TLA+ modules that model that core, TLC configurations that
check it on small instances, and proofs, checked by TLAPS, of what matters most
about it. Source paths below abbreviate

    S = src/core/packages/shared-python/shared    A = src/core/apps/api/app
    W = src/core/apps/worker/app

To check: `tlc -config JobStateMachine_run.cfg MCJobStateMachine` (the run table
names the configurations; the module of each is `MC` followed by the name before the
underscore) and `tlapm JobStateMachine_proofs.tla`, likewise for the other modules whose
name ends in `_proofs` or `_refinement`.

## 1. The system

| component | state it keeps | operations | correct when | here |
|---|---|---|---|---|
| Job state machine (`S/core/state_machine`) | `Job.status`, `Job.version`, audit rows, Redis status | `transition_outcome`, `mark_*_outcome`, async and sync | no lost transition, no illegal one, cache and audit follow | `JobStateMachine`, `JobRow`, proofs |
| Job lock (`S/services/redis/distributed_lock.py`) | Redis key with a token, renewal greenlet | enter, renew, exit | one worker per Job; only the owner releases | `JobLock`, `JobLease`, proofs |
| Upload handoff (`A/services/document_ingestion`, `A/services/s3_events`) | the Job row, the broker's queue | storage event, confirmation, expiry, dispatch | a task never precedes its Job; no Job is stuck | `JobProcessing` |
| Worker run (`W/services/document_ingestion`, `W/core/tasks`) | status, lease, retries | gate, lock, parse, retry, `on_failure` | every delivery ends; one result | `JobProcessing` |
| Job finalization (`S/services/jobs/lifecycle`) | `JobResult`, outbox event, status | success, failure | all three commit together or not at all | `JobProcessing` |
| Stale Job sweeper (`W/core/tasks/stale_job_sweeper.py`) | the Job rows | scan, mark failed | stuck Jobs end, finished ones are left alone | `JobProcessing`, `JobStateMachine` |
| Webhook delivery (`S/services/webhook`, `W/core/tasks/webhook_tasks.py`, `A/services/webhook`) | `WebhookEvent` row; QStash's messages | publish, callbacks, recovery, reconciliation | every event is handed over; its verdict is true and final | `WebhookDelivery` |
| Publication and revisions (`S/services/retrieval/publication_service.py`, `graph/service.py`) | Document, JobResult, attributes, content, graph | publish, replace, mark stale | the newest Job's content wins, whole | `DocumentPublication`, proofs |
| Document lifecycle API (`A/services/documents/lifecycle_service.py`) | the same tables | archive, replace attributes | archived means out of the graph; nobody revives it later | `DocumentPublication`, proofs |
| Job creation and admission (`A/services/rate_limit`, `A/services/document_ingestion`) | the active Jobs | count, insert, resolve the scope | the cap holds as far as it can; slots come back | `JobAdmission`, `DocumentPublication`, proofs |
| Periodic task lock (`S/services/redis/periodic_task_lock.py`) | Redis key | acquire, fail open | two sweeps at once do no harm | `JobAdmission` |
| Page-memory VLM limiter (`S/services/ai/page_memory_vlm_limiter.py`) | one Redis counter | acquire, poll, release, send again | the limit is passed only as the ownerless release allows, slots come back | `VlmLimiter`, proofs |
| Job metadata, progress | JSON column, Redis copy | merge | best effort, nothing reads it back | not modelled |
| URL upload task, token pool, rate limits, query cache, retrieval, wallet | - | - | - | not modelled (section 7) |
| Direct webhook dispatcher | - | - | - | no code calls it |
| Parsers, document agent, routes, storage, auth | - | - | data transformation and I/O | not modelled |

**How they interact.** A client creates a Job (`waiting-file`) and uploads. The
storage event and the client's confirmation both call the state machine
(`waiting-file -> pending`), commit, and then send a parse task to the broker. A
worker gates the task on the Job's status, moves it to `running`, takes the Job
lock, parses, and in one transaction writes the result, publishes it, moves the
Job to `done` and inserts an outbox event. After the commit it hands the event to
QStash, whose callbacks reach the API; Beat lets a worker sweep stale Jobs and
recover outbox events. Before all that, a creation request has counted the user's
active Jobs and resolved the Document the Job goes into; the worker that parses takes
slots of the VLM limiter, and the transaction that finalizes locks the Document,
compares creation times and replaces revision, attributes, content and graph, while the
API may archive the same Document or replace its attributes. Nothing is shared in memory between processes: rows, Redis
keys and messages are all there is.

**What is hard.** A session holds objects it loaded statements ago and no SELECT
refreshes them. A missed compare-and-swap leaves the values of the failed UPDATE in
the session. `mark_failed` takes the row lock before it selects. The Redis status
is written before the commit. Tasks are acknowledged late and come back while the
first delivery still runs. The lease is renewed by a greenlet that may come late
and nothing stops the block when it is lost. The gate reads the status before the
lock. QStash may have taken a message of which the publisher never heard; its
callbacks race the publisher's own commit. Under READ COMMITTED a DELETE sees the
rows of its snapshot and an INSERT's foreign key waits for a row another one deletes:
two publications that link to each other's node wait for each other. The cap is a count,
a comparison and an insertion without a lock. A sweep is one transaction over many Jobs.
The limiter's counter has one expiry for all its slots. `PROJECT.json` lists each hazard at its
line, with the properties that would catch it and, where none does yet, why.

## 2. Modules and plan

    JobStates <- JobStateMachine <- MCJobStateMachine, JobStateMachine_proofs
     |   |             '-- implements --> JobRow
     |   '-- JobProcessing -- implements --> JobRow
     |                ^-- MCJobProcessing, JobProcessing_proofs <- JobProcessing_refinement
     '-- JobAdmission <- MCJobAdmission, JobAdmission_proofs
    JobLock <- MCJobLock, JobLock_proofs
     '-- implements --> JobLease <-- uses -- JobProcessing
    WebhookDelivery <- MCWebhookDelivery, WebhookDelivery_proofs
    DocumentPublication <- MCDocumentPublication, DocumentPublication_proofs
    VlmLimiter <- MCVlmLimiter, VlmLimiter_proofs

The system is layered by grain. `JobStateMachine` has the grain of the SQL
statement and one call per session. What it promises to anybody who reads the Job
row is `JobRow`. `JobProcessing` has the grain of the transaction: it takes that
promise as the meaning of a transition (`Swaps`: legal from the status the session
loaded, and fewer than `MaxAttempts` versions have passed since), and is itself shown to
implement `JobRow`. The lease of `JobProcessing` is exclusive exactly when
`LeaseHolds`, otherwise it may lapse at any moment. `JobLease` is what the two sides of
the lock agree on: `JobLock` implements it under its `SafeTiming`, and with `LeaseHolds`
`JobProcessing` uses it.

`JobAdmission` takes the same meaning of a transition and asks what many Jobs and
a batch do with it; `DocumentPublication` opens the one step of
`JobProcessing` that publishes and goes back to the grain of the SQL statement,
since what can go wrong there goes wrong between statements.

All of these are built, checked and, as far as section 5 says, proved. What would come next:

1. The Documents' reads, with the cache invalidation after a commit.
2. The URL upload task, once a model of the object store gives its checks a state to
   look at.

## 3. The modules and the code

### JobStates
The statuses, the terminal ones and the transition table of `states.py`. A
transition to the same status is legal there, and so it is here; `converting` is in
the table though no caller asks for it.

### JobStateMachine
One Job row and any number of sessions, each running one call of one of eight call
sites: storage event, confirmation, upload expiry (async service), worker start,
successful finalization with and without the Job already loaded, failed
finalization and the sweeper (sync service). A constant gives each session its
call site; `Target`, `MarksFailed`, `Preloads`, `Admits`, `CommitsRejection` and
`Async` say in what they differ.

| action | code |
|---|---|
| `Load` | the caller's own SELECT and its check of the status |
| `RecordError`, `SkipError` | `_update_job_error`: UPDATE of the error fields, which takes the row lock; the async service swallows a failure and rolls back |
| `Prepare`, `RejectInvalid` | SELECT, validation, `db.add(audit row)` |
| `CasHit`, `CasMiss` | UPDATE ... WHERE version = old_version; a miss repeats at most `MaxAttempts` times |
| `UpdateCache` | the Redis write before the commit, which may fail unnoticed |
| `Commit`, `CloseRejected`, `Abort` | the caller's commit; what it does after a rejection; any error, crash or kill |

State: `row` is the committed row, `draft` the row as the lock's `holder` has
written it, `snap[s]` the Job object in the session's identity map, `pending[s]` the
audit rows it has added. PostgreSQL's READ COMMITTED means that an UPDATE matching
the committed row waits for the lock and then looks again; SQLAlchemy's session
means that a SELECT does not refresh a loaded object and that an ORM UPDATE assigns
its values to the loaded object whatever the database did. `AtSelect` and `CasMiss`
spell both out, since the outcome of the retry loop hangs on them.

`history` and the `by` and `version` fields of `cache` are history
variables: no action's guard reads them.

### JobRow
The abstract specification: a version counter and the status at every version. A
move appends one and must be legal from a status at most `MaxAttempts - 1` versions
old. It is weaker than "every move is legal from the present status" because the
code is (finding `jsm_jump`).

### JobLock
`RedisJobLock` in discrete time. `Acquire` is SET NX with an expiry, `AcquireRaises`
also covers a reply lost after the key was written and `Refuse` a `SET NX` that the client
sent again after a timeout, refused by the caller's own key, `Renew` and `RenewRaises` are the
two ways through one turn of `_renewal_loop`, `Leave` stops the greenlet and runs the
compare-and-delete script (which may raise), `Crash` leaves the key behind, `Tick` lets
time pass and the key expire. How late the greenlet is scheduled (`MaxStall`) and
how many renewals fail in a row (`MaxFails`) are constants: the code bounds neither,
and `SafeTiming`, `(MaxFails + 1) * (Interval + MaxStall) < TTL`, says what the
deployment has to guarantee.

### JobLease
What the lock promises to those who work under it, without time and tokens: `Enter` only
where there is no key, which is then there until `Leave`; a key may outlive its task
(a failing release, a death), or be set for a task that never learns of it (`Spoil`), and
then expires. `JobLock` and `JobProcessing` each instantiate it (`Lease`) with their own
state; the instances are stated by theorems only.

### JobProcessing
One uploaded file. A handler (event or confirmation) loads, commits and dispatches
in three steps and may die between them; its task is delivered under its name, a
redelivery has a name of its own. A delivery passes gate, start, lock, parse,
insert or update of the result, publication, finalization; it may find the lock
taken, raise, be retried, run `on_failure`, which may fail too, or crash. The lock may be
`Orphan`, a key that no task answers for: a `SET` whose reply is lost leaves it behind, with a
caller that is refused by it (`Busy`) or gets an exception nobody retries (`AcquireRaises`),
and so does a release that fails and is swallowed (`Release`). `moves` is
the list of committed transitions with their authors, from which status and version
follow; `result` and `events` are the other two tables a finalization writes.

The gate's branches for `waiting-file` and `converting` Jobs are left out: the first
cannot be reached by a dispatched task, which is what `NoEarlyDelivery` checks, and
nobody sets the second. Parsing is one step of any length. The error fields of an
expiring upload are written first; if that fails, the rollback makes the transition load
the Job anew, so `HandlerExpire` decides by what it had loaded or by what is there.

### WebhookDelivery
One outbox event. `PublishLoad`, `Publish` and `PublishCommit` are `publish_event`'s
load, hand-over and commit, run by the finalization after its commit and by the
recovery; `Refuse` and `PublishFails` are its other ends. `Scan` and `StaleLoad` are
the recovery's two queries. A callback is loaded and committed in two steps, in the
API process that serves it. The ORM writes only columns that differ from what was
loaded, which is why a commit that sets the status it had read changes nothing
(`IF new = w.status THEN @`; the message id of `PublishCommit` likewise). QStash is external: `Accepts` (deduplication may or may
not return the old message), `Attempt`, `LoseCallback`.

### DocumentPublication
Some Documents, the Jobs that publish into them, requests that archive one and requests
that replace its attributes. `pc[t]` is the statement a transaction is at. What it has
deleted and inserted (`cut`, `gone`, `drop`, `put`) is its own until it commits; the tables
(`status`, `current`, `attrs`, `content`, `node`, `edges`) are what is committed.

| action | code |
|---|---|
| `ResolveScope`, `CreateJob`, `FailJob` | `resolve_effective_document_id`; the unique index of active Jobs; sweeper or `on_failure` |
| `BeginPublication`, `LockDocument` | `publish_document_state`; SELECT ... FOR UPDATE and `_is_stale_document_completion` |
| `ReplaceAttributes` | `_replace_document_attributes` and the revision's content |
| `DropEdges`, `DropNode` | the two DELETEs of `remove_document_graph`, the second with its cascade; of a publisher and an archiver |
| `ReadPeers`, `LinkPeer`, `Linked` | the SELECT of the other nodes, one INSERT per edge with its foreign keys |
| `CommitPublication`, `CommitCompletion`, `RejectCompletion` | `mark_completed` and COMMIT, or its refusal |
| `ReadDocument`, `UpdateDocument`, `CommitArchive` | `archive_document` |
| `DeleteAttributes` ... `CommitAttributes` | `patch_document_attributes` |
| `BreakDeadlock`, `Rollback` | PostgreSQL's deadlock detection; ROLLBACK, and the Job failed by `on_failure` (a database error is none of `RETRYABLE_EXCEPTIONS`) unless the worker dies first and the task is delivered again |

A row lock is no variable: `WaitsFor` derives whom a statement waits for from how far
the others have come, and `Cycle` a deadlock from that. A revision is named by its Job;
that two Documents are similar enough for an edge is the constant `Related`, and there is
at least one creation time to draw (`Clock # {}` in `PublicationAssumption`). The
locks, the cascade and the foreign keys are PostgreSQL's; the code relies on them.

### JobAdmission
Creation requests (`Count`, `CreateJob`, `RequestFails`), the handlers and workers of the
Jobs they create, reduced to `Load` and `Move` (a transition by `Swaps`) and `GiveUp`,
and the Beats' firings of the sweep: `Fire` (the periodic lock, open when Redis
raises, and the query of the batch), `SweepJob`, `SweepJobFails` (the exception rolls
back what the transaction had done and the loop goes on; the end of a deadlock among any
number of sweeps, `Cycle`, is such an exception), `SweepDies`, `SweepCommit`.
`held[b]` is the sweep's identity map: the batch is loaded once, each Job with the
number of versions its row has moved on since. `comeback` is a history variable, no
guard reads it: the Jobs that a late sweep or worker has taken out of a terminal status.

### VlmLimiter
The counter and its expiry in discrete time. `Acquire` and `Poll` run the script that
compares, increments and, taken or refused, renews the key; `Refuse` gives up waiting;
`ReplyLost` is a slot taken of which the caller never heard. The Redis client is built with
`retry_on_timeout` (`config/redis.py:27,89`), so a command whose reply times out is sent
once more, and the scripts have no token that would tell: `ReplyLost` may leave the caller
waiting for a second slot, and a release is one run of its script (`Return`), none (`Leak`:
a death, or both sends fail) or, after `Unanswered`, a second one (`Resend`) unless that one
fails (`GiveUp`). The second run frees whichever slot is there. `twice` is a history variable, no
guard reads it: the second runs that freed a slot since the counter last expired. A call
counts as in flight until its release has run for the first time. `limit`, the longest a
call and its release may take, is chosen at the start: the code allows a call of three
attempts of 300 s against a life of 600 s, so both orders are real.

## 4. Runs

| run | question | bounds | result |
|---|---|---|---|
| `jsm_upload` | does the upload handoff keep legality, audit and cache through every order? | 4 sessions (event, confirm, expire, start), 3 attempts, `waiting-file` | holds |
| `jsm_run` | does the processing end lose no version, leave terminal statuses only after a miss, return, and implement `JobRow`? | 4 sessions (two successes, failure, sweeper), 3 attempts, `running` | holds |
| `jsm_jump` | is every transition legal from the status it leaves? | 2 sessions (success, sweeper) | **violated** |
| `lock_safe` | is the lease a lock under the code's 60 s and 20 s? | 3 deliveries, ticks of 5 s: life 12, interval 4, stall 1, 1 failed renewal | holds |
| `lock_lapse` | what remains when leases lapse? | life 6, interval 2, 3 failed renewals: a live holder loses its key | holds |
| `jp_lock` | with a lease that holds, do tasks, result, status and events agree? | event, confirmation, one redelivery, one retry each, no crash, no sweeper | holds |
| `jp_lapse` | and with a lease that lapses, a crash and the sweeper? does everything end? | event, one redelivery, one sweeper, one crash, no retry | holds |
| `web_safe` | is the verdict true, is every event handed over and decided? | one finalization, one recovery, one API process, 2 messages of 2 attempts | holds |
| `doc_race` | do publications, archivings and attribute edits leave Document, content, attributes and graph in agreement, and do deadlocks end? | 2 Documents, 5 Jobs of 2 users, 1 archiver, 1 editor; 2 creation times; 2 deliveries per Job; 3 scenes | holds |
| `adm_cap` | how far does the cap overshoot, and does every slot come back? | 3 requests, cap 1, 2 connections, 2 Beats, 1 exception | holds |
| `vlm_limit` | by how much is the limit passed with short calls, and what does the counter miss with long ones? | 4 callers, limit 2, life 3, calls of 2 or 5, 2 faults | holds |
| `vlm_leak` | does the expiry give a leaked slot back? | 2 callers, limit 1, 1 fault | **violated** |

**Why the bounds are enough.** A call of the state machine interferes with another
only through the row's version; three attempts are the code's number, and with
four sessions a call can miss each of its swaps, whatever its attempt. The
theorems lift what matters to any number. Three deliveries are one more
than two that exclude each other: one holds, one has lost the lock, one acquires.
`JobProcessing` needs two handlers to have two tasks of one Job, and one redelivery
to have two deliveries of one task; retries and crashes need separate runs only for
the number of states (`jp_lock` has the retries, `jp_lapse` the crash). Two QStash messages
are what a republication after an unseen success produces, two attempts distinguish
"failed once" from "given up"; the callbacks waiting are a set, which stays
small while everything can still be repeated or reordered. Messages are not shared
between events, so one event is enough. One API process at a time handles a callback in
`web_safe`: callbacks cross the publisher, the recovery and each other's repetitions, while two
sessions with a callback each are more than TLC can visit here; `VerdictCorrect`,
`RecoverableCorrect` and `VerdictsSettled` are proved for any number of them.
`DocumentPublication` needs two Documents for an edge, a second publication of each for
a deadlock over their nodes, and a third Job, of another user, for completions of one
Document out of order (the index keeps one user to one active Job). All at once is more
than TLC can visit: `PublishScenes` picks who was published before and whose request
never comes: both Documents published again; one published again while the other is new;
one Document with two users, an archiver and an editor. A Job's task is delivered at most twice
(`MaxTries`), so that a completion follows on one that was rolled back. In `adm_cap` three requests for a cap of one on two connections are one
more than can pass together, two Beats are what the periodic lock lets through once it fails
open, and the exception may fall at any Job of any batch; `CapScenes` leave out the
third request or the exception. In `vlm_limit` four callers for two slots keep two
waiting while the key expires under both holders or a release runs twice (which takes three to pass the
limit), two faults let two releases do so, and 2 < 3 < 5 stands for a call shorter and
longer than the key's life.

**Fairness.** `JobStateMachine`: a call that has begun goes on (the event loop and the
worker pool schedule it; PostgreSQL hands out the row lock); no caller has to call,
nothing has to crash. `JobLock`: time passes and the greenlet wakes; the block may run
for ever. `JobProcessing`: handlers and workers that have begun go on (Celery delivers
a queued task, `acks_late` brings a crashed one back as the model's `Crash`), keys of
dead holders expire, Beat fires the sweeper again and again (strong fairness on its
commit: a batch does not raise every time). Nothing makes clients confirm or storage
report. `WebhookDelivery`: Beat fires the recovery, QStash's publish API, its log and
the database do not fail the recovery for ever, and QStash works its messages off;
no callback has to arrive and no finalization has to publish. `DocumentPublication`:
a transaction that is under way goes on, and the database breaks a deadlock; weak
fairness of "somebody advances" is enough, for no request makes steps for ever, and no
request has to come. `JobAdmission`: the key expires, Beat fires the sweep again and again
(strong fairness: between its firings the key is taken, and it finds the stale Jobs at some of them), and a
sweep that has begun works its batch off and commits; the workers and handlers owe nothing. `VlmLimiter`: time
passes and a call that nobody kills returns. Deadlock is checked wherever the system
goes on for ever or the specification names its quiet end; not in `doc_race`, where all
requests may be through.

## 5. What is proved

All theorems hold for every value of the constants under the modules' named
assumptions, which say only what the code's types say. Two more hypotheses appear where
they are named: `SafeTiming` or `LeaseHolds`, without which the code promises less, and
that there are finitely many transactions or sweeps where a deadlock is to be found.

Besides the properties of the runs there are theorems of two further kinds. Some justify
what one module assumes of another: `LeaseKept` and `LeaseUsed`, `SwapsCorrect` and
`FailureCorrect`. Others prove of a liveness property what does not rest on fairness:
that nobody is stuck, and that every step uses up something bounded. What such a property
then adds is only that the scheduler serves those who can go on. The definitions these
theorems state are in the `_proofs` modules; each was checked by TLC on the instances of
the runs, or on smaller ones of the same kind, before it was proved.

**JobStateMachine_proofs.** The wanted invariants are not inductive: that a swap
commits a legal transition depends on the session's loaded Job, on the lock, and on
what the retry has read. The inductive invariant `IInv` is the conjunction of

- `TypeOK`;
- `LockInv`: who holds the row lock is at a phase in which it has written, and the draft
  is the next version once a swap has hit, the row's own status and version before;
- `SnapInv`: a loaded version is at most the row's, and on a first attempt equal
  versions mean equal statuses - the fact that makes the version a fingerprint;
- `ValidInv`: a first attempt that has been validated is legal from what it loaded, and
  one that has written is legal from the row it replaces;
- `RetryInv`: whoever reaches the swap has a Job loaded, without which a retry would
  have no version;
- `AdmitInv`: the callers that aim at `pending` hold a Job that is not terminal
  (`failed -> pending` is in the table; only their own check keeps them from it);
- `NoLostTransition` and `FirstAttemptIsLegal` themselves.

One lemma per conjunct shows that each action preserves it (`TypeStep`, `LockStep`,
`SnapStep`, `ValidStep`, `AdmitStep`, `HistoryStep`); `TypeCorrect`,
`NoLostTransitionCorrect`, `FirstAttemptCorrect` and `TerminalCorrect` follow.

Two more invariants rest on it. `AuditInv`: the audit row of the attempt that swaps waits in
its session, from the status the row will have until the commit; `AuditCorrect`
follows. `CacheInv`: the cached version is at most one ahead of the row's, and is the
draft's as long as its writer has not committed; since the writer holds the row lock
meanwhile, `CacheCorrect` and `CacheOrderCorrect` follow.

In the same module `Refinement`: `Spec => RowPromise`. The additional
invariant `OriginInv` says where a snapshot comes from: the
first one is a version the row has had, and on attempt `k` the target is legal from
the status the row had `k - 1` versions before the one the session now believes in. Every commit then maps to a `JobRow` move, every other step to a stutter.

`SwapsCorrect` gives the callers of the protocol its meaning. `SwapsDecide` says, of every
call that has loaded its Job first, that it writes if its target is legal from the status
loaded and the row has moved on by fewer than `MaxAttempts` versions, and is rejected if
not: `AgainInv` adds to `OriginInv` that a retry repeats its target. This is what `Swaps` means
in `JobProcessing` and `JobAdmission`. `FailureCorrect` says the same of
`mark_failed` without a loaded Job, which decides under the row lock by the row as it is.

`CallsEnd` is the safety half of `EveryCallReturns`: whoever waits for the row lock waits for a
session that does not wait, and a call has a number of statements left (`Left`, attempts
included) which each of its steps lowers and no other step raises.

**JobLock_proofs.** `LeaseIsALock`, the theorem of `MutualExclusion`: under `SafeTiming`, for any number of deliveries and
any times, no two are inside. `LeaseInv` is the accounting behind it: as long as a
holder is inside, its greenlet is alive, it owns the key, and the key has aged no
more than the failed renewals, one `Period` each, and the time since the last
wake-up allow (the arithmetic is the lemma `Products`). `OwnerOnly` needs no timing at all:
whatever lapses, nobody releases or prolongs another's key.

`LeaseKept`: under `SafeTiming`, `Spec => LeasePromise`, the refinement of `JobLease`;
`PromiseExcludes`: the promise alone implies mutual exclusion, so its users need to know no
more. `KeysFade` holds for any timing: no step that time waits for is ever missing
(`TimeGoesOn`), the key of an ended task only gets older (`OrphanFades`), and a
lost key does not come back to the task that has lost it, whose next renewal that reaches
Redis says so (`LossIsFinal`); the safety halves of `OrphanExpires` and `LossIsNoticed`.

**JobProcessing_proofs.** The tables agree whatever runs, with or without a lease that
holds; one theorem assumes that it does. `ProcessingTypeCorrect` adds `PhaseInv` to `TypeOK`: a handler's task exists only
after the handler has returned, and who is about to transition has the Job loaded. The
lemma `DbStep` then sorts all steps by what they do to the database: nothing, a
`QuietMove` (handlers, start, sweeper), a `Completion` or a `Failure`. `OutboxCorrect` and
`ResultCorrect` follow from that alone; their two properties are inductive on top of
`TInv`, since a transition never touches the versions before it (`MoveGrows`).
`DeliveryCorrect` (`NoEarlyDelivery`) rests on `SentInv`: who has a task, or is about to send
one, has seen the Job leave `waiting-file`, and no step leads back there. `ConflictCorrect`
(`NoConflict`) is the one that needs `LeaseHolds`: then a delivery inside the lock is the
lease's holder (`HeldInv`), so nobody commits a result between its SELECT and its INSERT.
From the same invariant `LeaseUsed` (`LeaseHolds /\ Spec => LeasePromise`): the workers enter
and leave the lock as `JobLease` lets them.

`NobodyStuck` and `WorkBounded` are the safety half of `EveryDeliveryEnds`: a delivery
under way can go on or waits for a finalization that can (it needs `SentInv`, since
the gate serves four statuses only), and it changes its phase at most
`13 * (MaxRetries + MaxCrashes + 1)` times (`Budget`: a rank of the phase, and a fresh start for each
retry and crash to come). `FinishedJobsSettle` is that of `EventuallySettled`: a
terminal status is left only by a handler or worker that loaded the Job before it was reached
(`AwareInv`), no session becomes one of them while the Job is finished, and each comeback
uses one of them up.

**JobProcessing_refinement.** `Refinement`: `Spec => RowPromise`. `HistInv`, a Job kept in a
session is a version the row has had, makes every transition `Legal`: `Swaps` compares the
loaded version with the row's, and `on_failure` loads under the row lock. So the
promise that `JobProcessing` assumes of one call holds of the whole of handlers,
workers and sweepers, too.

**WebhookDelivery_proofs.** `VerdictCorrect`: a recorded terminal status is one that QStash
has given; `RecoverableCorrect`: the recovery's query finds every event not handed over.
Two invariants are needed. `MessageInv` says that a message has tries left until QStash
gives it up, and that a process that was answered or asks about a message knows its
id. `CallbackInv` says that every callback, waiting or being processed, tells the truth
about some message, and that a row once loaded as not pending does not become pending
again, which is what makes the late commit of a stale callback harmless.

`VerdictsSettled` is the safety half of `EventuallyDecided`, and bounds what those stale
commits do. `Undecided` are the sessions that loaded the event before it was decided,
`Unaware` those that loaded it as pending. While the event is decided, nobody joins the first,
and once it is no longer pending nobody joins the second; a verdict is replaced by another
one only as a session leaves the first set, and by `delivering` only as one leaves the second.

**DocumentPublication_proofs.** For any Documents, Jobs, archivers, editors, tries and
creation times. `LockInv`, that who has a Document's row locked has it alone, rests on
`WaitsFor` alone; `WantInv` says that only an INSERT of an edge waits for a node, so that
a commit dooms nobody else. The lemmas `Published`, `Archived`, `Still` and `Edited` then sort
all steps by what they do to the tables, `JobPhase` and `ArchiverPhase` by what they do to a
transaction under way. What a transaction has read under the lock is
therefore still so when it commits:

- `GraphCorrect` (`GraphFollowsDocument`) with `DropInv`: the node an archiver removes is
  the one the Document has;
- `NewestCorrect` (`NewestRevisionIsCurrent`) with `AheadInv` (past the staleness check a
  Job is not older than the current revision's), `CutInv` (past its DELETE a publisher
  has deleted every revision's attribute row there is), `ContentInv` (a Job with published
  content is through, so its creation time no longer changes) and `ThereInv`;
- `ReviveCorrect` (`OnlyEarlierJobsRevive`) with `SinceInv`;
- `EdgesCorrect` (`EdgesAreCurrent`) with `NodeInv` (the node a transaction deletes is its
  Document's), `PutInv` (the edges it has inserted are its own and lead to Documents with a
  node) and `GoneInv` (from the deletion of a node to the commit every edge of the node is
  among the deleted ones, and nobody else under way has inserted one), by the lemma `GraphPhase`.

`DeadlockIsFound` and `StepsAreBounded` are the safety half of `EveryTransactionEnds`. If
nobody under way can advance, each waits for another one under way, and a smallest
nonempty set of such waiters is a `Cycle` (`CycleExists`, by well-founded induction over
the finite subsets of `Tx`), which is what PostgreSQL looks for; `LocalInv` says that
only who is past its first write holds anything, so that all who are waited for are under
way. And each step lowers a budget, ten
for each try left and the rank of the statement; or, where it lowers none, the number of Jobs that may still fail,
of peers to link, or of those not yet waiting, in this order.

**JobAdmission_proofs.** `CapCorrect`: `Max - 1 + Connections` bounds the Jobs that have
never come back plus the requests about to insert, for any number of requests, sweeps and faults. A request
passes only when fewer than `Max` Jobs are active, and from then on holds one of
`Connections` connections until its insertion moves it from `Passed` to `Active`; the
cardinalities are those of `FiniteSetTheorems`. `LoadedHasRow` keeps transitions from
creating rows. `SweepsNotStuck`: sweeps hold the rows they have written and want others in
the order of their own batches; if none of those running can go on, some wait in a
cycle, whatever their number (`SweepInv`: rows are held only by a sweep that runs, which has
done with them).

**VlmLimiter_proofs.** `ExcessCorrect`: the calls in flight are at most the counter plus
`lost`, those in flight when the key last expired, plus `twice`, the slots freed since by
second runs of a release: a release that comes too late takes no more than is there. With
`InTime`, that as long as no call outlives the key nothing is lost (while there is a key, a
call in flight is at least as young as its last renewal; a second run may delete the key
under a call, which then has no key to outlive), `LimitCorrect` follows: where `limit < TTL`, at
most `Max + twice` calls are in flight whatever dies. Without `twice` neither is true of the code.
`NoSlotWithheld` is the bound from the other side: the counter exceeds the calls in flight by
one slot for each death and lost reply, never by more. `LeakRunsOut` is the safety half of
`QuietRepairs`: a leaked slot has a key (`KeyCounts`), and where nobody asks for a slot every step
brings the key's end nearer or ends a call. What it leaves open, that somebody keeps
asking, is the finding `vlm_leak`.

**Only model-checked.** All liveness (`QuietRepairs`, `EveryCallReturns`, `OrphanExpires`,
`LossIsNoticed`, `EveryDeliveryEnds`, `EventuallySettled`, `PendingIsHandedOver`, `EventuallyDecided`, `EveryTransactionEnds`,
`SlotsComeBack`): the properties need fairness and ENABLED, which are out of this prover's
reach; proved are their safety halves, named above. Of `PendingIsHandedOver` and `SlotsComeBack` even
those are small: that the recovery's query finds the event (`RecoverableCorrect`), and that
sweeps are not stuck. The number of steps itself, the induction over a budget that
ends each of these arguments, is not stated by a theorem either.

The composition is proved as far as it can be stated without one module that holds all:
`JobProcessing` and `JobAdmission` use `Swaps`, which `SwapsCorrect` derives from the
protocol; `JobProcessing` with `LeaseHolds` uses the lock as `JobLease` (`LeaseUsed`),
and `JobLock` with `SafeTiming` keeps it (`LeaseKept`). That the steps of `JobProcessing` are as
coarse as whole transactions is an abstraction, argued in section 2 and not proved.

## 6. Where the code disagrees with what it says

- **`jsm_jump`.** After a missed swap the retry validates `to -> to` against the version
  the failed UPDATE has put into the session. If the row has moved exactly one version
  further, the second attempt hits and overwrites the other writer: a worker's `done`
  becomes the sweeper's `failed`, or the other way round. `states.py:28` promises to
  prevent illegal jumps. `TerminalLeftOnlyAfterMiss`, `FirstAttemptIsLegal` and
  `JobRow` say exactly how far the damage goes. The audit row of the missed attempt
  (`service_sync.py:126`) is committed with the second, so a transition that never
  happened is on record, too.
- **`vlm_leak`.** `core/config/ai.py:113` calls the expiry of the counter a safety for
  leases. The script renews it also when it refuses, so while anybody waits a slot
  whose owner died, or never heard of it, never comes back; with `Max` of them nobody gets one until demand ends.

Behaviours the models have and no run asks about, since no line of the repository denies
them:

- A redelivered task that finds the Job lock taken counts as a failed parse. After its
  retries it marks the Job failed while the first delivery works
  (`distributed_lock.py:129`); that one's finalization is then rejected.
- The gate reads the status before the lock is taken (`processing_run.py:57`): a delivery
  that has read `running` and gets the lock after the first has finished parses again,
  completes the Job again and sends a second webhook.
- `publish_event` commits `delivering` without looking at the row
  (`qstash_publisher.py:123`): the callback of a quick delivery may have committed
  `delivered`. `EventuallyDecided` shows that the reconciliation repairs it.
- If the message id never reached the event's row and a failed attempt's callback has made it
  `delivering`, the loss of the last callback leaves it so: one query of the recovery
  wants `pending`, the other a message id (`webhook_tasks.py:59`).
- An attribute replacement that races a publication deletes what its snapshot held and
  leaves the rows committed since: the union of both sets (`lifecycle_service.py:374`).
- Two first publications do not see each other's node: the edge between them is missing
  until one is published again.
- `core/config/ai.py:110` calls the limit global, and the release script names no owner: each
  release that the client sends twice (`config/redis.py:89`) frees the slot of a call that
  is still in flight, and one call more than the limit is admitted. `LimitHolds` says exactly that.
- A task whose `SET` was sent again, or whose release failed, leaves a key behind that nobody
  renews (`distributed_lock.py:89,118`): for up to 60 s retries of the Job find it locked, and
  each counts as a failed parse.
- The cap on concurrent Jobs can be passed by the requests counted at the same time,
  up to `Connections - 1`, and by Jobs that come back from a terminal status.

## 7. Not modelled

By far the most of the repository's lines transform data, and have no state that
several actors share: the vendored MinerU parser (models, converters, OCR, its own
demo servers), the document agent and its parsers, chunking, prompts, retrieval and ranking,
the web UI, storage clients, authentication and routes. What they compute is nothing
TLC could enumerate, and what they promise is no invariant of states. The modules here cover the part of
the code that is small in lines and large in interleavings.

Of the parts with state:

- **URL upload task**: downloads a source and uploads it; the storage event it causes is
  the handoff that is modelled. Its own checks ask the object store, of which nothing
  here has a state.
- **Job metadata and progress**: best-effort writes whose errors are swallowed, and of
  which nothing modelled reads back. Two concurrent merges lose one; that is in the list
  of hazards.
- **Provider token pool**: no code creates one.
- **Request rate limits, login throttle**: the windows are the limits library's; the code adds a
  call and a comparison.
- **Retrieval query cache**: its own key function refuses the arguments it is called with
  (`query_request.py:93`, `cache_service.py:34`) and the error is swallowed, so nothing is
  ever stored; the plan cache beside it works, its stale entry is in the list of hazards.
- **Wallet, agentic budget**: one request's local arithmetic.
- **Direct webhook dispatcher**: no code calls it.

Within the modelled parts: loss of Redis's data (a lost key is a violation of
`SafeTiming`, i.e. `LeaseHolds = FALSE`), cache invalidation and progress after a
finalization, chunk counts, the payload and signature of webhooks and their log rows, the
batch limits of 200 Jobs and 100 events, ages and timeouts (a stale Job or event may be seen as
stale at any moment, which covers every clock), the Redis status cache of a batch that
is rolled back (it may say `failed` until the next transition), Celery's time limits
(a crash), and wording, logging and backoff times everywhere.
