------------------------- MODULE DocumentPublication -------------------------
(***************************************************************************)
(* The Document a Job publishes into: scope resolution and insertion of the *)
(* Job, the publication part of the completion transaction (revision,       *)
(* attributes, content, graph), the archiving of a Document and the         *)
(* replacement of its attributes by the API.                                *)
(*                                                                          *)
(* The grain is the SQL statement under READ COMMITTED: a transaction sees  *)
(* what is committed when its statement starts, what it writes is local     *)
(* until it commits, and it waits for rows that another one has locked.     *)
(* A row lock is not a variable: it follows from how far its transaction    *)
(* has come.                                                                *)
(***************************************************************************)
EXTENDS Integers, FiniteSets

CONSTANTS
    Docs,        \* document ids
    Jobs,        \* ingestion Jobs; a JobResult is named by its Job
    Archivers,   \* archive requests
    Editors,     \* attribute replacement requests
    DocOf,       \* DocOf[t]: the Document a Job or request names
    UserOf,      \* UserOf[j]: the User that uploads
    Related,     \* pairs of Documents that share enough entities or keywords
    Scenes,      \* bound: who was done at the start, and whose request never comes
    Clock,       \* bound: the instants a Job may be created at
    None,        \* no revision, no node
    MaxTries     \* bound: completion transactions of one Job

Tx == Jobs \cup Archivers \cup Editors

ASSUME PublicationAssumption ==
    /\ DocOf \in [Tx -> Docs] /\ Related \subseteq SUBSET Docs
    /\ Jobs \cap Archivers = {} /\ Jobs \cap Editors = {}
    /\ Archivers \cap Editors = {}
    /\ Clock \subseteq Nat \ {0} /\ Clock # {}
    /\ Scenes \subseteq [done: SUBSET Jobs, quiet: SUBSET Tx]
    /\ \A s \in Scenes : \A j, k \in s.done : DocOf[j] = DocOf[k] => j = k
    /\ None \notin Tx \cup Docs /\ MaxTries \in Nat \ {0}

VARIABLES
    status,    \* status[d]: committed status of the Document, "absent" if no row
    current,   \* current[d]: committed current_job_result_id
    attrs,     \* attrs[d]: who wrote the committed, not built-in attribute rows
    content,   \* Jobs whose JobResult has committed sections and chunks
    node,      \* node[d]: revision of the committed graph node, or None
    edges,     \* committed graph edges
    job,       \* job[j]: what became of the Job
    created,     \* created[j]: the Job's created_at, 0 before its insertion
    archives,  \* archives[d]: how often the Document was archived
    since,     \* since[j]: archives[DocOf[j]] when the Job's scope was resolved
    pc,        \* pc[t]: the statement the transaction is at
    seen,      \* seen[t]: attribute rows in the snapshot of t's DELETE
    cut,       \* cut[t]: attribute rows t has deleted
    gone,      \* gone[t]: edges t has deleted
    drop,      \* drop[t]: node in the snapshot of t's DELETE
    put,       \* put[t]: edges t has inserted
    peers,     \* peers[t]: Documents t has read and not yet linked to
    want,      \* want[t]: the one whose node t's INSERT of an edge waits for
    tries      \* tries[j]: completion transactions begun

committed == <<status, current, attrs, content, node, edges>>
local     == <<seen, cut, gone, drop, put, peers, want>>
life      == <<job, created, archives, since, tries>>
vars      == <<committed, local, life, pc>>

Edge == [ends: SUBSET Docs, owner: Docs, rev: Jobs]

\* The edge that the publication of revision j inserts to the Document d.
Link(j, d) == [ends |-> {d, DocOf[j]}, owner |-> DocOf[j], rev |-> j]

Touches(d) == {e \in edges : d \in e.ends}

\* The revision that a seed left, and the orders in which the seeds may be done.
SeedOf(S, d) == IF \E j \in S : DocOf[j] = d THEN CHOOSE j \in S : DocOf[j] = d ELSE None

Turns(S) == {r \in [S -> 1 .. Cardinality(S)] : \A j, k \in S : r[j] = r[k] => j = k}

\* Some Documents were published before, one Job at a time.
Init ==
    \E scene \in Scenes : LET S == scene.done IN \E turn \in Turns(S), clock \in [S -> Clock] :
        /\ status = [d \in Docs |-> IF SeedOf(S, d) = None THEN "absent" ELSE "active"]
        /\ current = [d \in Docs |-> SeedOf(S, d)]
        /\ attrs = [d \in Docs |-> {SeedOf(S, d)} \ {None}]
        /\ content = S
        /\ node = [d \in Docs |-> SeedOf(S, d)]
        /\ edges = {Link(p[1], DocOf[p[2]]) :
                       p \in {q \in S \X S : /\ turn[q[1]] > turn[q[2]]
                                            /\ {DocOf[q[1]], DocOf[q[2]]} \in Related}}
        /\ job = [j \in Jobs |-> IF j \in S THEN "done" ELSE "none"]
        /\ created = [j \in Jobs |-> IF j \in S THEN clock[j] ELSE 0]
        /\ archives = [d \in Docs |-> 0]
        /\ since = [j \in Jobs |-> 0]
        /\ pc = [t \in Tx |-> IF t \in S \cup scene.quiet THEN "closed" ELSE "idle"]
        /\ seen = [t \in Tx |-> {}]
        /\ cut = [t \in Tx |-> {}]
        /\ gone = [t \in Tx |-> {}]
        /\ drop = [t \in Tx |-> None]
        /\ put = [t \in Tx |-> {}]
        /\ peers = [t \in Tx |-> {}]
        /\ want = [t \in Tx |-> None]
        /\ tries = [j \in Jobs |-> 0]

At(t, p) == pc' = [pc EXCEPT ![t] = p]

------------------------------------------------------------------------------
(* Row locks, by how far their transactions have come. *)

Publishes == {"attributes", "edges", "node", "peers", "link", "linked"}

\* SELECT ... FOR UPDATE, UPDATE of the Document: held to the end.
HoldsDocument(t) ==
    \/ t \in Jobs /\ pc[t] \in Publishes \cup {"stale"}
    \/ t \in Archivers /\ pc[t] \in {"edges", "node", "dropped"}

\* A row that refers to the Document keeps it from a FOR UPDATE.
RefersToDocument(t) == t \in Editors /\ pc[t] = "inserted"

\* t has deleted the committed node of d.
DropsNode(t, d) ==
    /\ DocOf[t] = d /\ node[d] # None /\ drop[t] = node[d]
    /\ pc[t] \in {"peers", "link", "linked", "dropped"}

\* An edge that t inserted refers to the node of d.
RefersToNode(t, d) == \E e \in put[t] : d \in e.ends \ {DocOf[t]}

Others(t)  == Tx \ {t}
SameDoc(t) == {u \in Others(t) : DocOf[u] = DocOf[t]}
Droppers(t, d) == {u \in Others(t) : DropsNode(u, d)}

\* The transactions that t's statement waits for.
WaitsFor(t) ==
    LET DeletesSame(u) == gone[u] \cap Touches(DocOf[t]) # {} IN
    CASE pc[t] = "ready" ->
           {u \in SameDoc(t) : HoldsDocument(u) \/ RefersToDocument(u)}
      [] pc[t] = "update"     -> {u \in SameDoc(t) : HoldsDocument(u)}
      [] pc[t] = "attributes" -> {u \in SameDoc(t) : cut[u] # {}}
      [] pc[t] = "edges"      -> {u \in Others(t) : DeletesSame(u)}
      [] pc[t] = "node" ->
           {u \in Others(t) : \/ DeletesSame(u) \/ RefersToNode(u, DocOf[t])
                              \/ DropsNode(u, DocOf[t])}
      [] pc[t] = "link" /\ want[t] # None -> Droppers(t, want[t])
      [] pc[t] = "deleting"   -> {u \in SameDoc(t) : cut[u] \cap seen[t] # {}}
      [] pc[t] = "inserting"  ->
           {u \in SameDoc(t) : u \in Jobs /\ HoldsDocument(u)}
      [] OTHER -> {}

Runs(t, p) == pc[t] = p /\ WaitsFor(t) = {}

\* Everyone in S waits for another one in S, and is waited for.
Cycle(S) ==
    \A t \in S : (\E u \in S : u \in WaitsFor(t)) /\ (\E u \in S : t \in WaitsFor(u))

------------------------------------------------------------------------------
(* Admission of the Job. *)

\* A generated document id is nobody else's.
Fresh(j) == \A k \in Jobs \ {j} : DocOf[k] = DocOf[j] => pc[k] = "idle"

\* Mutant of ResolveScope: an archived Document is taken for an active one.
ResolveScopeUnchecked(j) ==
    /\ pc[j] = "idle"
    /\ since' = [since EXCEPT ![j] = archives[DocOf[j]]]
    /\ At(j, IF status[DocOf[j]] # "absent" \/ Fresh(j) THEN "resolved" ELSE "closed")
    /\ UNCHANGED <<committed, local, job, created, archives, tries>>

\* resolve_effective_document_id: a new id, or an existing Document that is not
\* archived, or NotFoundException.
ResolveScope(j) ==
    /\ pc[j] = "idle"
    /\ since' = [since EXCEPT ![j] = archives[DocOf[j]]]
    /\ At(j, IF \/ status[DocOf[j]] = "active"
                \/ status[DocOf[j]] = "absent" /\ Fresh(j)
             THEN "resolved" ELSE "closed")
    /\ UNCHANGED <<committed, local, job, created, archives, tries>>

\* create_job: uq_jobs_user_active_document admits one active Job of a User and
\* a Document.
CreateJob(j) ==
    /\ pc[j] = "resolved"
    /\ IF \E k \in Jobs : /\ job[k] = "active"
                          /\ DocOf[k] = DocOf[j] /\ UserOf[k] = UserOf[j]
       THEN At(j, "closed") /\ UNCHANGED <<job, created>>
       ELSE /\ job' = [job EXCEPT ![j] = "active"]
            /\ \E now \in Clock : created' = [created EXCEPT ![j] = now]
            /\ At(j, "parsed")
    /\ UNCHANGED <<committed, local, archives, since, tries>>

\* The Job fails outside of its completion: the sweeper, on_failure.
FailJob(j) ==
    /\ job[j] = "active"
    /\ job' = [job EXCEPT ![j] = "failed"]
    /\ UNCHANGED <<committed, local, created, archives, since, tries, pc>>

------------------------------------------------------------------------------
(* The publication part of finalize_job_success. *)

\* publish_document_state: without chunks there is nothing to publish.
BeginPublication(j) ==
    /\ pc[j] = "parsed" /\ tries[j] < MaxTries
    /\ tries' = [tries EXCEPT ![j] = @ + 1]
    /\ \E p \in {"ready", "empty"} : At(j, p)
    /\ UNCHANGED <<committed, local, job, created, archives, since>>

\* Mutant of IsStale: the Job that completes last wins.
IsStaleNever(j) == FALSE

\* _is_stale_document_completion: the current revision is of a newer Job.
IsStale(j) ==
    LET k == current[DocOf[j]] IN k # None /\ created[k] > created[j]

\* Mutant of LockDocument: SELECT without FOR UPDATE.
LockDocumentUnlocked(j) ==
    /\ pc[j] = "ready"
    /\ At(j, IF IsStale(j) THEN "stale" ELSE "attributes")
    /\ UNCHANGED <<committed, local, life>>

\* _upsert_document_revision: the row lock, then the staleness check; the writes
\* that follow are seen when the transaction commits.
LockDocument(j) ==
    /\ Runs(j, "ready")
    /\ At(j, IF IsStale(j) THEN "stale" ELSE "attributes")
    /\ UNCHANGED <<committed, local, life>>

\* Mutant of ReplaceAttributes: the rows of the revision before stay.
ReplaceAttributesAdds(j) ==
    /\ Runs(j, "attributes")
    /\ At(j, "edges")
    /\ UNCHANGED <<committed, local, life>>

\* _replace_document_attributes and replace_document_revision_content.
ReplaceAttributes(j) ==
    /\ Runs(j, "attributes")
    /\ cut' = [cut EXCEPT ![j] = attrs[DocOf[j]]]
    /\ At(j, "edges")
    /\ UNCHANGED <<committed, seen, gone, drop, put, peers, want, life>>

\* remove_document_graph, first statement: the edges, of a publisher or an
\* archiver; the second one takes its snapshot.
DropEdges(t) ==
    /\ Runs(t, "edges")
    /\ gone' = [gone EXCEPT ![t] = Touches(DocOf[t])]
    /\ drop' = [drop EXCEPT ![t] = node[DocOf[t]]]
    /\ At(t, "node")
    /\ UNCHANGED <<committed, seen, cut, put, peers, want, life>>

\* Mutant of DropNode: edges that refer to the node are not deleted with it.
DropNodeNoCascade(t) ==
    /\ Runs(t, "node")
    /\ At(t, IF t \in Jobs THEN "peers" ELSE "dropped")
    /\ UNCHANGED <<committed, local, life>>

\* remove_document_graph, second statement: the node, and by ON DELETE CASCADE
\* the edges committed since; a publisher inserts its node again.
DropNode(t) ==
    /\ Runs(t, "node")
    /\ gone' = [gone EXCEPT ![t] = @ \cup Touches(DocOf[t])]
    /\ At(t, IF t \in Jobs THEN "peers" ELSE "dropped")
    /\ UNCHANGED <<committed, seen, cut, drop, put, peers, want, life>>

\* publish_document_graph reads the nodes of the other Documents.
ReadPeers(j) ==
    /\ pc[j] = "peers"
    /\ peers' = [peers EXCEPT ![j] =
           {d \in Docs \ {DocOf[j]} : node[d] # None /\ {d, DocOf[j]} \in Related}]
    /\ At(j, "link")
    /\ UNCHANGED <<committed, seen, cut, gone, drop, put, want, life>>

\* INSERT of an edge: the foreign key to the peer's node is checked, which waits
\* for one who has deleted it.
LinkPeer(j, d) ==
    /\ pc[j] = "link" /\ d \in peers[j] /\ want[j] \in {None, d}
    /\ IF Droppers(j, d) # {}
       THEN want[j] = None /\ want' = [want EXCEPT ![j] = d] /\ UNCHANGED <<put, peers, pc>>
       ELSE /\ want' = [want EXCEPT ![j] = None]
            /\ IF node[d] = None
               THEN At(j, "doomed") /\ UNCHANGED <<put, peers>>
               ELSE /\ put' = [put EXCEPT ![j] = @ \cup {Link(j, d)}]
                    /\ peers' = [peers EXCEPT ![j] = @ \ {d}]
                    /\ UNCHANGED pc
    /\ UNCHANGED <<committed, seen, cut, gone, drop, life>>

Linked(j) ==
    /\ pc[j] = "link" /\ peers[j] = {}
    /\ At(j, "linked")
    /\ UNCHANGED <<committed, local, life>>

------------------------------------------------------------------------------
(* The end of a transaction. *)

Clear(t) ==
    /\ seen' = [seen EXCEPT ![t] = {}]
    /\ cut' = [cut EXCEPT ![t] = {}]
    /\ gone' = [gone EXCEPT ![t] = {}]
    /\ drop' = [drop EXCEPT ![t] = None]
    /\ put' = [put EXCEPT ![t] = {}]
    /\ peers' = [peers EXCEPT ![t] = {}]

\* Those whose INSERT waited for the node that t deleted.
Waiting(t) == {u \in Others(t) : want[u] = DocOf[t] /\ t \in Droppers(u, DocOf[t])}

\* The deletion of the node commits: the foreign key of those who waited fails.
CommitDeletion(t, p) ==
    /\ pc' = [u \in Tx |-> IF u = t THEN p ELSE IF u \in Waiting(t) THEN "doomed" ELSE pc[u]]
    /\ want' = [u \in Tx |-> IF u \in Waiting(t) THEN None ELSE want[u]]

\* mark_completed and COMMIT of a publication.
CommitPublication(j) ==
    LET d == DocOf[j] IN
    /\ pc[j] = "linked" /\ job[j] = "active"
    /\ job' = [job EXCEPT ![j] = "done"]
    /\ status' = [status EXCEPT ![d] = "active"]
    /\ current' = [current EXCEPT ![d] = j]
    /\ attrs' = [attrs EXCEPT ![d] = (@ \ cut[j]) \cup {j}]
    /\ content' = content \cup {j}
    /\ node' = [node EXCEPT ![d] = j]
    /\ edges' = (edges \ gone[j]) \cup put[j]
    /\ CommitDeletion(j, "closed") /\ Clear(j)
    /\ UNCHANGED <<created, archives, since, tries>>

\* mark_completed and COMMIT of a completion that publishes nothing.
CommitCompletion(j) ==
    /\ pc[j] \in {"stale", "empty"} /\ job[j] = "active"
    /\ job' = [job EXCEPT ![j] = "done"]
    /\ At(j, "closed")
    /\ UNCHANGED <<committed, local, created, archives, since, tries>>

\* mark_completed finds the Job failed: the transaction is rolled back.
RejectCompletion(j) ==
    /\ pc[j] \in {"linked", "stale", "empty"} /\ job[j] # "active"
    /\ At(j, "doomed")
    /\ UNCHANGED <<committed, local, life>>

\* Mutant of BreakDeadlock: only the archivers' deadlocks are found.
BreakDeadlockPartly(t) ==
    /\ t \in Archivers /\ WaitsFor(t) # {}
    /\ \E S \in SUBSET {u \in Tx : WaitsFor(u) # {}} : t \in S /\ Cycle(S)
    /\ At(t, "doomed")
    /\ want' = [want EXCEPT ![t] = None]
    /\ UNCHANGED <<committed, seen, cut, gone, drop, put, peers, life>>

\* The database ends a deadlock at one of those in it.
BreakDeadlock(t) ==
    /\ WaitsFor(t) # {}
    /\ \E S \in SUBSET {u \in Tx : WaitsFor(u) # {}} : t \in S /\ Cycle(S)
    /\ At(t, "doomed")
    /\ want' = [want EXCEPT ![t] = None]
    /\ UNCHANGED <<committed, seen, cut, gone, drop, put, peers, life>>

\* Mutant of Rollback: the error leaves the Job to a retry that no status stands for.
RollbackOnceMore(t) ==
    /\ pc[t] = "doomed"
    /\ At(t, "closed")
    /\ job' = IF t \in Jobs THEN [job EXCEPT ![t] = "retry"] ELSE job
    /\ want' = [u \in Tx |-> IF u \in Waiting(t) THEN None ELSE want[u]]
    /\ Clear(t)
    /\ UNCHANGED <<committed, created, archives, since, tries>>

\* ROLLBACK: who waited for the node finds it again.  The error of the database is
\* none that the task is retried for, so it fails a Job that is still active, unless
\* the worker dies first: then the task is delivered, and the Job completed, again.
Rollback(t) ==
    /\ pc[t] = "doomed"
    /\ \/ /\ At(t, "closed")
          /\ job' = IF t \in Jobs /\ job[t] = "active" THEN [job EXCEPT ![t] = "failed"] ELSE job
       \/ /\ t \in Jobs /\ job[t] = "active" /\ tries[t] < MaxTries
          /\ At(t, "parsed")
          /\ UNCHANGED job
    /\ want' = [u \in Tx |-> IF u \in Waiting(t) THEN None ELSE want[u]]
    /\ Clear(t)
    /\ UNCHANGED <<committed, created, archives, since, tries>>

------------------------------------------------------------------------------
(* archive_document. *)

\* The unlocked read: a Document that is archived already is returned as it is.
ReadDocument(a) ==
    /\ a \in Archivers /\ pc[a] = "idle"
    /\ At(a, IF status[DocOf[a]] = "active" THEN "update" ELSE "closed")
    /\ UNCHANGED <<committed, local, life>>

\* Mutant of UpdateDocument: the graph goes before the Document is written.
UpdateDocumentLate(a) ==
    /\ pc[a] = "update"
    /\ At(a, "edges")
    /\ UNCHANGED <<committed, local, life>>

\* The UPDATE that the session flushes ahead of the first DELETE.
UpdateDocument(a) ==
    /\ Runs(a, "update")
    /\ At(a, "edges")
    /\ UNCHANGED <<committed, local, life>>

CommitArchive(a) ==
    LET d == DocOf[a] IN
    /\ pc[a] = "dropped"
    /\ status' = [status EXCEPT ![d] = "archived"]
    /\ node' = [node EXCEPT ![d] = IF @ = drop[a] THEN None ELSE @]
    /\ edges' = edges \ gone[a]
    /\ archives' = [archives EXCEPT ![d] = @ + 1]
    /\ CommitDeletion(a, "closed") /\ Clear(a)
    /\ UNCHANGED <<current, attrs, content, job, created, since, tries>>

------------------------------------------------------------------------------
(* patch_document_attributes. *)

\* get_document_or_raise, and the DELETE takes its snapshot.
DeleteAttributes(e) ==
    /\ e \in Editors /\ pc[e] = "idle"
    /\ IF status[DocOf[e]] = "absent"
       THEN At(e, "closed") /\ UNCHANGED seen
       ELSE At(e, "deleting") /\ seen' = [seen EXCEPT ![e] = attrs[DocOf[e]]]
    /\ UNCHANGED <<committed, cut, gone, drop, put, peers, want, life>>

\* The DELETE of the rows of its snapshot that are still there.
AttributesDeleted(e) ==
    /\ Runs(e, "deleting")
    /\ cut' = [cut EXCEPT ![e] = seen[e] \cap attrs[DocOf[e]]]
    /\ At(e, "inserting")
    /\ UNCHANGED <<committed, seen, gone, drop, put, peers, want, life>>

\* The INSERT, whose foreign key waits for a locked Document.
InsertAttributes(e) ==
    /\ Runs(e, "inserting")
    /\ At(e, "inserted")
    /\ UNCHANGED <<committed, local, life>>

CommitAttributes(e) ==
    /\ pc[e] = "inserted"
    /\ attrs' = [attrs EXCEPT ![DocOf[e]] = (@ \ cut[e]) \cup {e}]
    /\ At(e, "closed") /\ Clear(e)
    /\ UNCHANGED <<status, current, content, node, edges, want, life>>

------------------------------------------------------------------------------
JobStep(j) ==
    \/ ResolveScope(j) \/ CreateJob(j) \/ FailJob(j) \/ BeginPublication(j)
    \/ LockDocument(j) \/ ReplaceAttributes(j) \/ ReadPeers(j)
    \/ (\E d \in Docs : LinkPeer(j, d)) \/ Linked(j)
    \/ CommitPublication(j) \/ CommitCompletion(j) \/ RejectCompletion(j)

GraphStep(t) == DropEdges(t) \/ DropNode(t)

ArchiveStep(a) == ReadDocument(a) \/ UpdateDocument(a) \/ CommitArchive(a)

EditStep(e) ==
    \/ DeleteAttributes(e) \/ AttributesDeleted(e)
    \/ InsertAttributes(e) \/ CommitAttributes(e)

EndStep(t) == BreakDeadlock(t) \/ Rollback(t)

Next ==
    \/ \E j \in Jobs : JobStep(j)
    \/ \E a \in Archivers : ArchiveStep(a)
    \/ \E e \in Editors : EditStep(e)
    \/ \E t \in Tx : GraphStep(t) \/ EndStep(t)

Spec == Init /\ [][Next]_vars

\* Requests that have come run on, and the database does not leave a deadlock
\* alone.  No request makes steps for ever, so nobody has to be named.
Advance(t) ==
    /\ pc[t] # "idle"
    /\ \/ t \in Jobs /\ JobStep(t)
       \/ t \in Archivers /\ ArchiveStep(t)
       \/ t \in Editors /\ EditStep(t)
       \/ GraphStep(t) \/ EndStep(t)

FairSpec == Spec /\ WF_vars(\E t \in Tx : Advance(t))

------------------------------------------------------------------------------
Phases == {"idle", "resolved", "parsed", "ready", "empty", "stale", "update", "dropped",
           "deleting", "inserting", "inserted", "doomed", "closed"} \cup Publishes

\* The types of the tables and of the transactions' own data.
TypeOK ==
    /\ status \in [Docs -> {"absent", "active", "archived"}]
    /\ current \in [Docs -> Jobs \cup {None}]
    /\ attrs \in [Docs -> SUBSET (Jobs \cup Editors)]
    /\ content \subseteq Jobs
    /\ node \in [Docs -> Jobs \cup {None}]
    /\ edges \subseteq Edge
    /\ job \in [Jobs -> {"none", "active", "done", "failed"}]
    /\ created \in [Jobs -> Nat]
    /\ archives \in [Docs -> Nat]
    /\ since \in [Jobs -> Nat]
    /\ pc \in [Tx -> Phases]
    /\ seen \in [Tx -> SUBSET (Jobs \cup Editors)]
    /\ cut \in [Tx -> SUBSET (Jobs \cup Editors)]
    /\ gone \in [Tx -> SUBSET Edge]
    /\ drop \in [Tx -> Jobs \cup {None}]
    /\ put \in [Tx -> SUBSET Edge]
    /\ peers \in [Tx -> SUBSET Docs]
    /\ want \in [Tx -> Docs \cup {None}]
    /\ tries \in [Jobs -> Nat]

\* No Document lags behind a publication, in whatever order the Jobs of several
\* Users complete: its revision is of the newest Job that published content for it,
\* the content retrieval reads by it is there, and no attribute row of an older
\* revision outlives it (the row lock and the staleness check).
NewestRevisionIsCurrent ==
    \A d \in Docs : status[d] # "absent" =>
        /\ current[d] \in content
        /\ \A j \in content : DocOf[j] = d => created[current[d]] >= created[j]
        /\ attrs[d] # {} /\ attrs[d] \cap Jobs \subseteq {current[d]}

\* The graph has a node for exactly the active Documents, at their current
\* revision: an archiver and a publisher never leave the one's status with the
\* other's graph.
GraphFollowsDocument ==
    \A d \in Docs : node[d] = IF status[d] = "active" THEN current[d] ELSE None

\* An edge joins two Documents that are in the graph, is of the current revision of
\* its owner, and is the only one between them (its edge_id is made of the pair).
EdgesAreCurrent ==
    \A e \in edges :
        /\ \A d \in e.ends : node[d] # None
        /\ e.rev = node[e.owner]
        /\ \A f \in edges : f.ends = e.ends => f = e

\* An archived Document comes back only by a Job that was admitted before it was
\* archived: nobody can begin an update of an archived Document.
OnlyEarlierJobsRevive ==
    [][\A d \in Docs : status[d] = "archived" /\ status'[d] = "active" =>
           since[current'[d]] < archives[d]]_vars

\* Transactions that wait for each other's rows (two Documents published again,
\* each linking to the node the other has deleted) come to their end: time and again
\* no request is under way.
EveryTransactionEnds == []<>(\A t \in Tx : pc[t] \in {"idle", "closed"})
==============================================================================
