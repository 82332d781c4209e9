--------------------------- MODULE WebhookDelivery ---------------------------
(***************************************************************************)
(* The delivery of one outbox event (shared/services/webhook,               *)
(* webhook_tasks.py, qstash_callback_service.py) through QStash.            *)
(*                                                                          *)
(* publish_event hands the event to QStash, after the commit that created   *)
(* it and again from the periodic recovery; QStash calls the customer,      *)
(* retries, and reports every attempt and the final failure to the          *)
(* callback endpoints; the recovery also asks QStash for the fate of what   *)
(* seems stuck.  Each of them loads the row in a session of its own and     *)
(* commits later; the ORM writes only the columns whose value differs from  *)
(* the one loaded, and no statement is conditional on what was loaded.      *)
(*                                                                          *)
(* QStash is external: it may hand a message that repeats the event's       *)
(* deduplication id to the old one or, later, take it as a new one; its     *)
(* callbacks come late, out of order, more than once, or never.             *)
(***************************************************************************)
EXTENDS Naturals, FiniteSets

CONSTANTS
    Posters,        \* finalizations that publish the event after their commit
    Recoveries,     \* processes that run recover_orphaned_webhooks
    Callbacks,      \* API processes, each handling one callback at a time
    MaxMessages,    \* bound: QStash messages this event can become
    MaxRetries,     \* QSTASH_MAX_RETRIES
    NoMessage       \* qstash_message_id is NULL

ASSUME DeliveryAssumption ==
    /\ MaxMessages \in Nat \ {0} /\ MaxRetries \in Nat
    /\ NoMessage \notin Nat
    /\ Posters \cap Recoveries = {}

Publisher == Posters \cup Recoveries
Messages  == 1..MaxMessages

\* No code cancels an event, so "canceled" is left out.
Terminal == {"delivered", "failed"}
Status   == {"pending", "delivering"} \cup Terminal

VARIABLES
    row,        \* the WebhookEvent row
    refused,    \* history variable: a publisher found the event undeliverable
    ppc,        \* ppc[p]: where the publisher is
    seen,       \* seen[p]: the event's status and message id as p has loaded them
    got,        \* got[p]: the message id that p holds
    qstash,     \* qstash[m]: what has become of the message
    tried,      \* tried[m]: calls of the customer's endpoint
    mail,       \* callbacks on their way
    work        \* work[c]: the callback that c handles, with the row as loaded

sessions == <<ppc, seen, got>>
external == <<qstash, tried>>
vars     == <<row, refused, sessions, external, mail, work>>

Row      == [status: Status, attempts: 0..(MaxRetries + 1), msg: Messages \cup {NoMessage}]
Callback == [kind: {"success", "retry", "failure"}, retried: 0..MaxRetries]
Seen     == [status: Status \ Terminal, msg: Messages \cup {NoMessage}]
Fresh    == [status |-> "pending", msg |-> NoMessage]
Idle     == [busy |-> FALSE]
Loaded   == [busy: {TRUE}, cb: Callback, status: Status, attempts: 0..(MaxRetries + 1)]

Init ==
    /\ row = [status |-> "pending", attempts |-> 0, msg |-> NoMessage]
    /\ refused = FALSE
    /\ ppc = [p \in Publisher |-> IF p \in Posters THEN "called" ELSE "idle"]
    /\ seen = [p \in Publisher |-> Fresh]
    /\ got = [p \in Publisher |-> NoMessage]
    /\ qstash = [m \in Messages |-> "unused"]
    /\ tried = [m \in Messages |-> 0]
    /\ mail = {}
    /\ work = [c \in Callbacks |-> Idle]

Goto(p, l) == ppc' = [ppc EXCEPT ![p] = l]

\* The call returns, and its session is gone.
Return(p) ==
    /\ Goto(p, IF p \in Recoveries THEN "idle" ELSE "closed")
    /\ seen' = [seen EXCEPT ![p] = Fresh]
    /\ got' = [got EXCEPT ![p] = NoMessage]

------------------------------------------------------------------------------
\* Mutant of Scan: the recovery looks for events that have been attempted.
ScanAttempted(r) ==
    /\ r \in Recoveries /\ ppc[r] = "idle"
    /\ row.status = "pending" /\ row.attempts > 0
    /\ Goto(r, "called")
    /\ UNCHANGED <<row, refused, seen, got, external, mail, work>>

\* recover_orphaned_webhooks selects the event as an orphan.
Scan(r) ==
    /\ r \in Recoveries /\ ppc[r] = "idle"
    /\ row.status = "pending" /\ row.attempts = 0
    /\ Goto(r, "called")
    /\ UNCHANGED <<row, refused, seen, got, external, mail, work>>

\* publish_event loads the event; a terminal one is left alone.
PublishLoad(p) ==
    /\ ppc[p] = "called"
    /\ IF row.status \in Terminal
       THEN Return(p)
       ELSE /\ Goto(p, "loaded")
            /\ seen' = [seen EXCEPT ![p] = [status |-> row.status, msg |-> row.msg]]
            /\ UNCHANGED got
    /\ UNCHANGED <<row, refused, external, mail, work>>

\* publish_event finds the target URL invalid, no owner or no secret.
Refuse(p) ==
    /\ ppc[p] = "loaded"
    /\ row' = [row EXCEPT !.status = "failed"]
    /\ refused' = TRUE
    /\ Return(p)
    /\ UNCHANGED <<external, mail, work>>

\* QStash takes the event as message m: an old one, or the next.
Accepts(m) ==
    IF qstash[m] = "unused"
    THEN /\ \A n \in 1..(m - 1) : qstash[n] # "unused"
         /\ qstash' = [qstash EXCEPT ![m] = "active"]
         /\ UNCHANGED tried
    ELSE UNCHANGED external

\* publish_webhook returns a message id.
Publish(p) ==
    /\ ppc[p] = "loaded"
    /\ \E m \in Messages : Accepts(m) /\ got' = [got EXCEPT ![p] = m]
    /\ Goto(p, "accepted")
    /\ UNCHANGED <<row, refused, seen, mail, work>>

\* publish_webhook raises, and QStash may have taken the event all the same.
PublishFails(p) ==
    /\ ppc[p] = "loaded"
    /\ UNCHANGED external \/ \E m \in Messages : Accepts(m)
    /\ Return(p)
    /\ UNCHANGED <<row, refused, mail, work>>

\* publish_event commits DELIVERING and the message id, where p has loaded others.
PublishCommit(p) ==
    /\ ppc[p] = "accepted"
    /\ row' = [row EXCEPT
           !.msg = IF got[p] = seen[p].msg THEN @ ELSE got[p],
           !.status = IF seen[p].status = "delivering" THEN @ ELSE "delivering"]
    /\ Return(p)
    /\ UNCHANGED <<refused, external, mail, work>>

\* The publisher dies or its database fails: between the commit that created the
\* event and its publication, or before the commit that marks it.
PublisherDies(p) ==
    /\ ppc[p] = "accepted" \/ (p \in Posters /\ ppc[p] = "called")
    /\ Return(p)
    /\ UNCHANGED <<row, refused, external, mail, work>>

\* Mutant of StaleLoad: reconciliation selects events that have been attempted.
StaleLoadAttempted(r) ==
    /\ r \in Recoveries /\ ppc[r] = "idle"
    /\ row.status = "delivering" /\ row.msg # NoMessage /\ row.attempts > 0
    /\ got' = [got EXCEPT ![r] = row.msg]
    /\ Goto(r, "reconciling")
    /\ UNCHANGED <<row, refused, seen, external, mail, work>>

\* _reconcile_stale_delivering_events selects the event, in a later run than the
\* one that published it: its message id is not NULL.
StaleLoad(r) ==
    /\ r \in Recoveries /\ ppc[r] = "idle"
    /\ row.status = "delivering" /\ row.msg # NoMessage
    /\ got' = [got EXCEPT ![r] = row.msg]
    /\ Goto(r, "reconciling")
    /\ UNCHANGED <<row, refused, seen, external, mail, work>>

\* The lookup tells the message's end, and the batch commits.
Reconcile(r) ==
    /\ ppc[r] = "reconciling"
    /\ qstash[got[r]] \in Terminal
    /\ row' = [row EXCEPT !.status = qstash[got[r]]]
    /\ Return(r)
    /\ UNCHANGED <<refused, external, mail, work>>

\* The recovery dies, the lookup fails or finds no end yet.
StillOpen(r) ==
    /\ ppc[r] = "reconciling"
    /\ Return(r)
    /\ UNCHANGED <<row, refused, external, mail, work>>

------------------------------------------------------------------------------
\* QStash calls the customer; every attempt is reported to the callback URL, the
\* last failing one to the failure callback, too.
Attempt(m) ==
    /\ qstash[m] = "active"
    /\ tried' = [tried EXCEPT ![m] = @ + 1]
    /\ \/ /\ qstash' = [qstash EXCEPT ![m] = "delivered"]
          /\ mail' = mail \cup {[kind |-> "success", retried |-> tried[m]]}
       \/ /\ tried[m] < MaxRetries
          /\ mail' = mail \cup {[kind |-> "retry", retried |-> tried[m]]}
          /\ UNCHANGED qstash
       \/ /\ tried[m] = MaxRetries
          /\ qstash' = [qstash EXCEPT ![m] = "failed"]
          /\ mail' = mail \cup {[kind |-> k, retried |-> tried[m]] : k \in {"retry", "failure"}}
    /\ UNCHANGED <<row, refused, sessions, work>>

\* A callback that QStash gives up, or that the endpoint rejects.
LoseCallback ==
    /\ \E cb \in mail : mail' = mail \ {cb}
    /\ UNCHANGED <<row, refused, sessions, external, work>>

\* Mutant of CallbackStatus: any failed attempt is the last.
CallbackStatusFirstFailure(cb) == IF cb.kind = "success" THEN "delivered" ELSE "failed"

\* The status that a callback stands for.
CallbackStatus(cb) ==
    CASE cb.kind = "success" -> "delivered"
      [] cb.kind = "retry"   -> "delivering"
      [] cb.kind = "failure" -> "failed"

\* resolve_event_status: a terminal event keeps its status.
Resolve(current, new) == IF current \in Terminal THEN current ELSE new

\* process_qstash_callback loads the event; QStash may deliver the callback again.
CallbackLoad(c) ==
    /\ ~work[c].busy
    /\ \E cb \in mail :
          /\ work' = [work EXCEPT ![c] = [busy |-> TRUE, cb |-> cb,
                                          status |-> row.status, attempts |-> row.attempts]]
          /\ mail' \in {mail, mail \ {cb}}
    /\ UNCHANGED <<row, refused, sessions, external>>

\* Mutants of CallbackCommit: attempts are added up, or counted without the status.
CallbackCommitAdds(c) ==
    /\ work[c].busy
    /\ LET w == work[c]  new == Resolve(w.status, CallbackStatus(w.cb)) IN
       row' = [row EXCEPT !.attempts = w.attempts + w.cb.retried + 1,
                          !.status = IF new = w.status THEN @ ELSE new]
    /\ work' = [work EXCEPT ![c] = Idle]
    /\ UNCHANGED <<refused, sessions, external, mail>>

CallbackCommitCounts(c) ==
    /\ work[c].busy
    /\ LET w == work[c]  new == Resolve(w.status, CallbackStatus(w.cb)) IN
       row' = [row EXCEPT
           !.attempts = IF w.cb.retried + 1 > w.attempts THEN w.cb.retried + 1 ELSE @,
           !.status = IF new \in Terminal \ {w.status} THEN new ELSE @]
    /\ work' = [work EXCEPT ![c] = Idle]
    /\ UNCHANGED <<refused, sessions, external, mail>>

\* process_qstash_callback commits what it has changed.
CallbackCommit(c) ==
    /\ work[c].busy
    /\ LET w == work[c]  new == Resolve(w.status, CallbackStatus(w.cb)) IN
       row' = [row EXCEPT
           !.attempts = IF w.cb.retried + 1 > w.attempts THEN w.cb.retried + 1 ELSE @,
           !.status = IF new = w.status THEN @ ELSE new]
    /\ work' = [work EXCEPT ![c] = Idle]
    /\ UNCHANGED <<refused, sessions, external, mail>>

\* The endpoint fails before it commits: QStash sends the callback again.
CallbackFails(c) ==
    /\ work[c].busy
    /\ mail' = mail \cup {work[c].cb}
    /\ work' = [work EXCEPT ![c] = Idle]
    /\ UNCHANGED <<row, refused, sessions, external>>

------------------------------------------------------------------------------
PublishEvent(p) == PublishLoad(p) \/ Refuse(p) \/ Publish(p) \/ PublishFails(p)
                   \/ PublishCommit(p)

\* Nothing is left to do, or to be done about the event.
Quiet ==
    /\ \A p \in Publisher : ppc[p] \in {"idle", "closed"}
    /\ \A c \in Callbacks : ~work[c].busy
    /\ mail = {}
    /\ \A m \in Messages : qstash[m] # "active"
    /\ UNCHANGED vars

Next ==
    \/ \E p \in Publisher : PublishEvent(p) \/ PublisherDies(p)
    \/ \E r \in Recoveries : Scan(r) \/ StaleLoad(r) \/ Reconcile(r) \/ StillOpen(r)
    \/ \E m \in Messages : Attempt(m)
    \/ LoseCallback
    \/ \E c \in Callbacks : CallbackLoad(c) \/ CallbackCommit(c) \/ CallbackFails(c)
    \/ Quiet

Spec == Init /\ [][Next]_vars

\* Beat fires the recovery again and again, and the database, QStash's publish API
\* and its log do not fail it for ever; QStash works its messages off.  Nothing
\* makes a finalization publish or a callback arrive.
Fairness ==
    /\ \A r \in Recoveries :
          /\ WF_vars(Scan(r)) /\ WF_vars(PublishLoad(r))
          /\ SF_vars(Publish(r)) /\ SF_vars(PublishCommit(r))
          /\ WF_vars(StaleLoad(r)) /\ WF_vars(StillOpen(r)) /\ SF_vars(Reconcile(r))
    /\ \A m \in Messages : WF_vars(Attempt(m))

FairSpec == Spec /\ Fairness

------------------------------------------------------------------------------
TypeOK ==
    /\ row \in Row
    /\ refused \in BOOLEAN
    /\ ppc \in [Publisher -> {"idle", "called", "loaded", "accepted", "reconciling", "closed"}]
    /\ seen \in [Publisher -> Seen]
    /\ got \in [Publisher -> Messages \cup {NoMessage}]
    /\ qstash \in [Messages -> {"unused", "active"} \cup Terminal]
    /\ tried \in [Messages -> 0..(MaxRetries + 1)]
    /\ mail \subseteq Callback
    /\ work \in [Callbacks -> {Idle} \cup Loaded]

\* An event is recorded as delivered only if the customer has acknowledged one of
\* its messages, and as failed only if it was undeliverable or one was given up,
\* whichever of publishers, callbacks and recovery wrote last.
VerdictIsTrue ==
    /\ row.status = "delivered" => \E m \in Messages : qstash[m] = "delivered"
    /\ row.status = "failed" => refused \/ \E m \in Messages : qstash[m] = "failed"

\* An event nobody has handed over is one that the recovery finds: no callback of a
\* message that QStash took without our knowing makes it invisible to the scan.
PendingIsRecoverable == row.status = "pending" => row.attempts = 0

\* The transactional outbox: the event does not stay behind, whoever dies or fails
\* between the commit that created it and the one that marks it.
PendingIsHandedOver == row.status = "pending" ~> row.status # "pending"

\* Callbacks may all be lost: an event whose message is on record ends as QStash
\* says and stays so.
EventuallyDecided == <>[](row.status \in Terminal \/ row.msg = NoMessage)
===============================================================================
