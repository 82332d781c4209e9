------------------------ MODULE WebhookDelivery_proofs ------------------------
(***************************************************************************)
(* Whoever writes last, the verdict on an event is one that QStash has      *)
(* given, and an event that nobody has handed over stays visible to the     *)
(* recovery: for any number of publishers, recoveries, callbacks, messages  *)
(* and retries.                                                             *)
(***************************************************************************)
EXTENDS WebhookDelivery, TLAPS

\* A message has tries left until QStash gives it up; who has been answered, or
\* asks about a message, knows its id.
MessageInv ==
    /\ \A m \in Messages : qstash[m] \notin Terminal => tried[m] <= MaxRetries
    /\ \A p \in Publisher : ppc[p] \in {"accepted", "reconciling"} => got[p] \in Messages

\* Some message has been acknowledged; some message has been given up.
Delivered == \E m \in Messages : qstash[m] = "delivered"
GivenUp   == \E m \in Messages : qstash[m] = "failed"

\* A callback tells the truth about some message.
Truthful(cb) == /\ cb.kind = "success" => Delivered
                /\ cb.kind = "failure" => GivenUp

\* What an API process holds is true, and a row it loaded as not pending is not
\* pending again.
Sound(c) == /\ Truthful(work[c].cb)
            /\ work[c].status # "pending" => row.status # "pending"

CallbackInv == /\ \A cb \in mail : Truthful(cb)
               /\ \A c \in Callbacks : work[c].busy => Sound(c)

IInv == TypeOK /\ MessageInv /\ CallbackInv /\ VerdictIsTrue /\ PendingIsRecoverable

LEMMA TypeInit == Init => TypeOK /\ MessageInv
<1> SUFFICES ASSUME Init PROVE TypeOK /\ MessageInv
  OBVIOUS
<1>1. row \in Row
  BY DeliveryAssumption DEF Init, Row, Status, Terminal
<1>2. MessageInv
  BY DeliveryAssumption DEF Init, MessageInv, Publisher
<1>3. work \in [Callbacks -> {Idle} \cup Loaded]
  BY DEF Init
<1>4. tried \in [Messages -> 0..(MaxRetries + 1)]
  BY DeliveryAssumption DEF Init
<1> QED
  BY <1>1, <1>2, <1>3, <1>4 DEF Init, TypeOK, Publisher, Seen, Fresh, Status, Terminal

\* A busy API process holds a callback and what it has loaded.
LEMMA WorkType ==
  ASSUME TypeOK, NEW c \in Callbacks, work[c].busy
  PROVE  work[c] \in Loaded
BY DEF TypeOK, Idle

\* What a callback stands for is a status, and never "pending".
LEMMA StatusOfCallback ==
  ASSUME NEW cb \in Callback
  PROVE  /\ CallbackStatus(cb) \in Status \ {"pending"}
         /\ CallbackStatus(cb) = "delivered" => cb.kind = "success"
         /\ CallbackStatus(cb) = "failed" => cb.kind = "failure"
<1>1. cb.kind \in {"success", "retry", "failure"}
  BY DEF Callback
<1>2. CASE cb.kind = "success"
  BY <1>2 DEF CallbackStatus, Status, Terminal
<1>3. CASE cb.kind = "retry"
  BY <1>3 DEF CallbackStatus, Status, Terminal
<1>4. CASE cb.kind = "failure"
  BY <1>4 DEF CallbackStatus, Status, Terminal
<1> QED BY <1>1, <1>2, <1>3, <1>4

\* QStash's answer to a publication creates no message out of nothing.
LEMMA AcceptsType ==
  ASSUME TypeOK, MessageInv, NEW m \in Messages, Accepts(m)
  PROVE  /\ qstash' \in [Messages -> {"unused", "active"} \cup Terminal]
         /\ tried' = tried
         /\ \A n \in Messages : qstash'[n] \notin Terminal => tried'[n] <= MaxRetries
BY DEF Accepts, external, TypeOK, MessageInv, Terminal

\* A message knows its number of tries only together with the types.
LEMMA TypeStep ==
  ASSUME TypeOK, MessageInv, [Next]_vars
  PROVE  TypeOK' /\ MessageInv'
<1> USE DeliveryAssumption DEF Row, Seen, Fresh, Status, Terminal, Publisher, Goto
<1>1. CASE UNCHANGED vars
  BY <1>1 DEF TypeOK, MessageInv, vars, sessions, external
<1>2. ASSUME NEW r \in Recoveries, Scan(r) PROVE TypeOK' /\ MessageInv'
  BY <1>2 DEF Scan, external, TypeOK, MessageInv
<1>3. ASSUME NEW p \in Publisher, PublishLoad(p) PROVE TypeOK' /\ MessageInv'
  BY <1>3 DEF PublishLoad, external, Return, TypeOK, MessageInv
<1>4. ASSUME NEW p \in Publisher, Refuse(p) PROVE TypeOK' /\ MessageInv'
  BY <1>4 DEF Refuse, Return, external, TypeOK, MessageInv
<1>5. ASSUME NEW p \in Publisher, Publish(p) PROVE TypeOK' /\ MessageInv'
  <2>1. PICK m \in Messages : Accepts(m) /\ got' = [got EXCEPT ![p] = m]
    BY <1>5 DEF Publish
  <2> QED BY <1>5, <2>1, AcceptsType DEF Publish, TypeOK, MessageInv
<1>6. ASSUME NEW p \in Publisher, PublishFails(p) PROVE TypeOK' /\ MessageInv'
  <2>1. /\ qstash' \in [Messages -> {"unused", "active"} \cup Terminal]
        /\ tried' = tried
        /\ \A n \in Messages : qstash'[n] \notin Terminal => tried'[n] <= MaxRetries
    BY <1>6, AcceptsType DEF PublishFails, external, TypeOK, MessageInv
  <2> QED BY <1>6, <2>1 DEF PublishFails, Return, TypeOK, MessageInv
<1>7. ASSUME NEW p \in Publisher, PublishCommit(p) PROVE TypeOK' /\ MessageInv'
  BY <1>7 DEF PublishCommit, Return, external, TypeOK, MessageInv
<1>8. ASSUME NEW p \in Publisher, PublisherDies(p) PROVE TypeOK' /\ MessageInv'
  BY <1>8 DEF PublisherDies, Return, external, TypeOK, MessageInv
<1>9. ASSUME NEW r \in Recoveries, StaleLoad(r) PROVE TypeOK' /\ MessageInv'
  BY <1>9 DEF StaleLoad, external, TypeOK, MessageInv
<1>10. ASSUME NEW r \in Recoveries, Reconcile(r) PROVE TypeOK' /\ MessageInv'
  BY <1>10 DEF Reconcile, Return, external, TypeOK, MessageInv
<1>11. ASSUME NEW r \in Recoveries, StillOpen(r) PROVE TypeOK' /\ MessageInv'
  <2>1. ppc' \in [Publisher -> {"idle", "called", "loaded", "accepted", "reconciling", "closed"}]
        /\ seen' \in [Publisher -> Seen]
        /\ got' \in [Publisher -> Messages \cup {NoMessage}]
    BY <1>11 DEF StillOpen, Return, TypeOK
  <2>2. TypeOK'
    BY <1>11, <2>1 DEF StillOpen, external, TypeOK
  <2>3. MessageInv'
    BY <1>11 DEF StillOpen, Return, external, TypeOK, MessageInv
  <2> QED BY <2>2, <2>3
<1>12. ASSUME NEW m \in Messages, Attempt(m) PROVE TypeOK' /\ MessageInv'
  <2>1. /\ tried[m] \in 0..MaxRetries
        /\ tried' = [tried EXCEPT ![m] = tried[m] + 1]
        /\ qstash[m] = "active"
    BY <1>12 DEF Attempt, TypeOK, MessageInv, Messages
  <2>2. tried' \in [Messages -> 0..(MaxRetries + 1)]
    BY <2>1 DEF TypeOK
  <2>3. /\ qstash' \in [Messages -> {"unused", "active"} \cup Terminal]
        /\ \A n \in Messages \ {m} : qstash'[n] = qstash[n]
        /\ qstash'[m] \notin Terminal => tried[m] < MaxRetries
    BY <1>12 DEF Attempt, TypeOK
  <2>4. mail' \subseteq Callback
    BY <1>12, <2>1 DEF Attempt, Callback, TypeOK
  <2>5. TypeOK'
    BY <1>12, <2>2, <2>3, <2>4 DEF Attempt, sessions, TypeOK
  <2>6. MessageInv'
    BY <1>12, <2>1, <2>3 DEF Attempt, sessions, Messages, TypeOK, MessageInv
  <2> QED BY <2>5, <2>6
<1>13. CASE LoseCallback
  BY <1>13 DEF LoseCallback, sessions, external, TypeOK, MessageInv
<1>14. ASSUME NEW c \in Callbacks, CallbackLoad(c) PROVE TypeOK' /\ MessageInv'
  <2>1. PICK cb \in mail :
           /\ work' = [work EXCEPT ![c] = [busy |-> TRUE, cb |-> cb,
                                          status |-> row.status, attempts |-> row.attempts]]
           /\ mail' \in {mail, mail \ {cb}}
    BY <1>14 DEF CallbackLoad
  <2>2. [busy |-> TRUE, cb |-> cb, status |-> row.status, attempts |-> row.attempts] \in Loaded
    BY <2>1 DEF TypeOK, Loaded
  <2>3. work' \in [Callbacks -> {Idle} \cup Loaded] /\ mail' \subseteq Callback
    BY <2>1, <2>2 DEF TypeOK
  <2> QED BY <1>14, <2>3 DEF CallbackLoad, sessions, external, TypeOK, MessageInv
<1>15. ASSUME NEW c \in Callbacks, CallbackCommit(c) PROVE TypeOK' /\ MessageInv'
  <2>1. work[c] \in Loaded
    BY <1>15, WorkType DEF CallbackCommit
  <2>2. work[c].cb.retried + 1 \in 0..(MaxRetries + 1)
    <3>1. work[c].cb.retried \in 0..MaxRetries
      BY <2>1 DEF Loaded, Callback
    <3> QED BY <3>1
  <2>3. Resolve(work[c].status, CallbackStatus(work[c].cb)) \in Status
    BY <2>1, StatusOfCallback DEF Loaded, Resolve
  <2>4. row' \in Row
    BY <1>15, <2>1, <2>2, <2>3 DEF CallbackCommit, TypeOK
  <2>5. work' \in [Callbacks -> {Idle} \cup Loaded]
    BY <1>15 DEF CallbackCommit, TypeOK
  <2> QED BY <1>15, <2>4, <2>5 DEF CallbackCommit, sessions, external, TypeOK, MessageInv
<1>16. ASSUME NEW c \in Callbacks, CallbackFails(c) PROVE TypeOK' /\ MessageInv'
  <2>1. work[c].cb \in Callback
    BY <1>16, WorkType DEF CallbackFails, Loaded
  <2>2. work' \in [Callbacks -> {Idle} \cup Loaded] /\ mail' \subseteq Callback
    BY <1>16, <2>1 DEF CallbackFails, TypeOK
  <2> QED BY <1>16, <2>2 DEF CallbackFails, sessions, external, TypeOK, MessageInv
<1>17. CASE Quiet
  BY <1>17, <1>1 DEF Quiet
<1> QED
  BY <1>1, <1>2, <1>3, <1>4, <1>5, <1>6, <1>7, <1>8, <1>9, <1>10, <1>11, <1>12, <1>13, <1>14, <1>15, <1>16, <1>17 DEF Next, PublishEvent

\* Every variable keeps its type in every reachable state: a process holds a whole
\* callback or none, a message is tried once more than it may be retried, no more.
THEOREM DeliveryTypeCorrect == Spec => []TypeOK
<1>1. TypeOK /\ MessageInv /\ [Next]_vars => TypeOK' /\ MessageInv'
  BY TypeStep
<1> QED BY TypeInit, <1>1, PTL DEF Spec

-----------------------------------------------------------------------------
\* What QStash has decided stays decided.
LEMMA QStashIsFinal ==
  ASSUME TypeOK, [Next]_vars, NEW m \in Messages, qstash[m] \in Terminal
  PROVE  qstash'[m] = qstash[m]
<1>1. CASE UNCHANGED qstash
  BY <1>1
<1>2. ASSUME NEW n \in Messages, Accepts(n) PROVE qstash'[m] = qstash[m]
  BY <1>2 DEF Accepts, external, TypeOK, Terminal
<1>3. ASSUME NEW n \in Messages, Attempt(n) PROVE qstash'[m] = qstash[m]
  BY <1>3 DEF Attempt, TypeOK, Terminal
<1>4. ASSUME NEW p \in Publisher, PublishEvent(p) PROVE qstash'[m] = qstash[m]
  BY <1>4, <1>1, <1>2
  DEF PublishEvent, PublishLoad, Refuse, Publish, PublishFails, PublishCommit, external
<1> QED
  BY <1>1, <1>3, <1>4
  DEF Next, vars, external, PublisherDies, Scan, StaleLoad, Reconcile, StillOpen,
      LoseCallback, CallbackLoad, CallbackCommit, CallbackFails, Quiet

\* So what a callback has told stays true.
LEMMA TruthStays ==
  ASSUME TypeOK, [Next]_vars
  PROVE  (Delivered => Delivered') /\ (GivenUp => GivenUp')
BY QStashIsFinal DEF Delivered, GivenUp, Terminal

\* A row that has left "pending" does not come back to it: publishers, callbacks
\* and reconciliation write other statuses, or leave it as it is.
LEMMA PendingIsLeft ==
  ASSUME TypeOK, MessageInv, CallbackInv, [Next]_vars, row.status # "pending"
  PROVE  row'.status # "pending"
<1>1. CASE UNCHANGED row
  BY <1>1
<1>2. ASSUME NEW p \in Publisher, Refuse(p) PROVE row'.status # "pending"
  BY <1>2 DEF Refuse, TypeOK, Row
<1>3. ASSUME NEW p \in Publisher, PublishCommit(p) PROVE row'.status # "pending"
  BY <1>3 DEF PublishCommit, TypeOK, Row
<1>4. ASSUME NEW r \in Recoveries, Reconcile(r) PROVE row'.status # "pending"
  BY <1>4 DEF Reconcile, TypeOK, Row, Terminal
<1>5. ASSUME NEW c \in Callbacks, CallbackCommit(c) PROVE row'.status # "pending"
  <2>1. work[c] \in Loaded
    BY <1>5, WorkType DEF CallbackCommit
  <2>2. CallbackStatus(work[c].cb) # "pending"
    BY <2>1, StatusOfCallback DEF Loaded
  <2> QED BY <1>5, <2>1, <2>2 DEF CallbackCommit, Resolve, TypeOK, Row, Terminal
<1> QED
  BY <1>1, <1>2, <1>3, <1>4, <1>5
  DEF Next, PublishEvent, vars, PublishLoad, Publish, PublishFails, PublisherDies, Scan,
      StaleLoad, StillOpen, Attempt, LoseCallback, CallbackLoad, CallbackFails, Quiet

\* Callbacks come from QStash and say what has become of a message.
LEMMA CallbackStep ==
  ASSUME TypeOK, MessageInv, CallbackInv, [Next]_vars
  PROVE  CallbackInv'
<1> USE TruthStays, PendingIsLeft
<1>1. ASSUME NEW cb \in mail PROVE Truthful(cb)'
  BY <1>1 DEF CallbackInv, Truthful
<1>2. ASSUME NEW c \in Callbacks, work'[c] = work[c], work[c].busy PROVE Sound(c)'
  BY <1>2 DEF CallbackInv, Sound, Truthful
<1>3. CASE UNCHANGED <<mail, work>>
  BY <1>1, <1>2, <1>3 DEF CallbackInv
<1>4. CASE LoseCallback
  BY <1>1, <1>2, <1>4 DEF LoseCallback, CallbackInv
<1>5. ASSUME NEW m \in Messages, Attempt(m) PROVE CallbackInv'
  <2>1. ASSUME NEW cb \in mail', cb \notin mail PROVE Truthful(cb)'
    BY <1>5, <2>1 DEF Attempt, TypeOK, Truthful, Delivered, GivenUp
  <2>2. work' = work
    BY <1>5 DEF Attempt
  <2> QED BY <1>1, <1>2, <2>1, <2>2 DEF CallbackInv
<1>6. ASSUME NEW c \in Callbacks, CallbackLoad(c) PROVE CallbackInv'
  <2>1. PICK cb \in mail :
           /\ work' = [work EXCEPT ![c] = [busy |-> TRUE, cb |-> cb,
                                          status |-> row.status, attempts |-> row.attempts]]
           /\ mail' \in {mail, mail \ {cb}}
    BY <1>6 DEF CallbackLoad
  <2>2. Sound(c)'
    BY <1>1, <1>6, <2>1 DEF CallbackLoad, TypeOK, Sound, Truthful
  <2>3. \A d \in Callbacks \ {c} : work'[d] = work[d]
    BY <2>1 DEF TypeOK
  <2> QED BY <1>1, <1>2, <2>1, <2>2, <2>3 DEF CallbackInv
<1>7. ASSUME NEW c \in Callbacks, CallbackCommit(c) \/ CallbackFails(c) PROVE CallbackInv'
  <2>1. ~work'[c].busy
    BY <1>7 DEF CallbackCommit, CallbackFails, TypeOK, Idle
  <2>2. \A d \in Callbacks \ {c} : work'[d] = work[d]
    BY <1>7 DEF CallbackCommit, CallbackFails, TypeOK
  <2>3. mail' \subseteq mail \cup {work[c].cb} /\ work[c].busy
    BY <1>7 DEF CallbackCommit, CallbackFails
  <2>4. Truthful(work[c].cb)
    BY <2>3 DEF CallbackInv, Sound
  <2>5. \A cb \in mail' : Truthful(cb)'
    BY <1>1, <2>3, <2>4 DEF Truthful
  <2> QED BY <1>2, <2>1, <2>2, <2>5 DEF CallbackInv
<1> QED
  BY <1>3, <1>4, <1>5, <1>6, <1>7
  DEF Next, PublishEvent, vars, sessions, PublishLoad, Refuse, Publish, PublishFails,
      PublishCommit, PublisherDies, Return, Scan, StaleLoad, Reconcile, StillOpen, Quiet

\* A verdict is written by a callback, by the reconciliation or by a refusal.
LEMMA VerdictStep ==
  ASSUME TypeOK, MessageInv, CallbackInv, VerdictIsTrue, [Next]_vars
  PROVE  VerdictIsTrue'
<1> DEFINE Justified == /\ row'.status = "delivered" => Delivered'
                        /\ row'.status = "failed" => refused' \/ GivenUp'
<1> SUFFICES Justified
  BY DEF VerdictIsTrue, Delivered, GivenUp
<1> USE TruthStays
<1>0. refused => refused'
  BY DEF Next, PublishEvent, vars, PublishLoad, Refuse, Publish, PublishFails,
     PublishCommit, PublisherDies, Scan, StaleLoad, Reconcile, StillOpen, Attempt,
     LoseCallback, CallbackLoad, CallbackCommit, CallbackFails, Quiet
<1>1. CASE row'.status = row.status
  BY <1>0, <1>1 DEF VerdictIsTrue, Delivered, GivenUp
<1>2. ASSUME NEW p \in Publisher, Refuse(p) PROVE Justified
  BY <1>2 DEF Refuse, TypeOK, Row
<1>3. ASSUME NEW p \in Publisher, PublishCommit(p) PROVE Justified
  BY <1>1, <1>3 DEF PublishCommit, TypeOK, Row
<1>4. ASSUME NEW r \in Recoveries, Reconcile(r) PROVE Justified
  <2>1. got[r] \in Messages /\ row'.status = qstash[got[r]]
    BY <1>4 DEF Reconcile, MessageInv, TypeOK, Row, Publisher
  <2> QED BY <2>1 DEF Delivered, GivenUp
<1>5. ASSUME NEW c \in Callbacks, CallbackCommit(c) PROVE Justified
  <2>1. work[c] \in Loaded /\ Truthful(work[c].cb)
    BY <1>5, WorkType DEF CallbackCommit, CallbackInv, Sound
  <2>2. work[c].cb \in Callback
    BY <2>1 DEF Loaded
  <2>3. row'.status \in {row.status, CallbackStatus(work[c].cb)}
    BY <1>5, <2>1 DEF CallbackCommit, Resolve, TypeOK, Row
  <2> QED BY <1>1, <2>1, <2>2, <2>3, StatusOfCallback DEF Truthful
<1> QED
  BY <1>1, <1>2, <1>3, <1>4, <1>5
  DEF Next, PublishEvent, vars, PublishLoad, Publish, PublishFails, PublisherDies, Scan,
      StaleLoad, StillOpen, Attempt, LoseCallback, CallbackLoad, CallbackFails, Quiet

\* Only a callback counts attempts, and it moves a pending row on.
LEMMA RecoverableStep ==
  ASSUME TypeOK, MessageInv, CallbackInv, PendingIsRecoverable, [Next]_vars
  PROVE  PendingIsRecoverable'
<1>1. CASE row'.attempts = row.attempts
  BY <1>1, PendingIsLeft DEF PendingIsRecoverable
<1>2. ASSUME NEW c \in Callbacks, CallbackCommit(c) PROVE row'.status # "pending"
  <2>1. work[c] \in Loaded /\ work[c].busy
    BY <1>2, WorkType DEF CallbackCommit
  <2>2. CallbackStatus(work[c].cb) # "pending"
    BY <2>1, StatusOfCallback DEF Loaded
  <2>3. CASE work[c].status = "pending"
    BY <1>2, <2>2, <2>3 DEF CallbackCommit, Resolve, TypeOK, Row, Terminal
  <2>4. CASE work[c].status # "pending"
    BY <2>1, <2>4, PendingIsLeft DEF CallbackInv, Sound
  <2> QED BY <2>3, <2>4
<1>3. ASSUME NEW p \in Publisher, Refuse(p) \/ PublishCommit(p)
      PROVE row'.attempts = row.attempts
  BY <1>3 DEF Refuse, PublishCommit, TypeOK, Row
<1>4. ASSUME NEW r \in Recoveries, Reconcile(r) PROVE row'.attempts = row.attempts
  BY <1>4 DEF Reconcile, TypeOK, Row
<1>5. CASE UNCHANGED row
  BY <1>1, <1>5
<1> QED
  BY <1>1, <1>2, <1>3, <1>4, <1>5
  DEF PendingIsRecoverable, Next, PublishEvent, vars, PublishLoad, Publish, PublishFails,
      PublisherDies, Scan, StaleLoad, StillOpen, Attempt, LoseCallback, CallbackLoad,
      CallbackFails, Quiet

LEMMA IInvInit == Init => IInv
BY TypeInit DEF IInv, Init, CallbackInv, VerdictIsTrue, PendingIsRecoverable, Idle

LEMMA Invariance == Spec => []IInv
<1>1. IInv /\ [Next]_vars => IInv'
  BY TypeStep, CallbackStep, VerdictStep, RecoverableStep DEF IInv
<1> QED BY IInvInit, <1>1, PTL DEF Spec

\* The verdict recorded on an event is one that QStash has given, whichever of
\* publishers, callbacks and reconciliation commits last.
THEOREM VerdictCorrect == Spec => []VerdictIsTrue
<1>1. IInv => VerdictIsTrue
  BY DEF IInv
<1> QED BY Invariance, <1>1, PTL

\* The recovery's query finds every event that has not been handed over.
THEOREM RecoverableCorrect == Spec => []PendingIsRecoverable
<1>1. IInv => PendingIsRecoverable
  BY DEF IInv
<1> QED BY Invariance, <1>1, PTL

-----------------------------------------------------------------------------
\* A session has loaded the event before anybody handed it over: it will write
\* "delivering" over whatever has been decided meanwhile.
LateSender(p)   == ppc[p] \in {"loaded", "accepted"} /\ seen[p].status = "pending"
LateCallback(c) == work[c].busy /\ work[c].status = "pending"

\* A session has loaded the event before anything was decided.
Sender(p)  == ppc[p] \in {"loaded", "accepted", "reconciling"}
Decider(c) == work[c].busy /\ work[c].status \notin Terminal

\* All of them.  (A process may be publisher and API process at once.)
Unaware   == ({"publish"} \X {p \in Publisher : LateSender(p)})
             \cup ({"callback"} \X {c \in Callbacks : LateCallback(c)})
Undecided == ({"publish"} \X {p \in Publisher : Sender(p)})
             \cup ({"callback"} \X {c \in Callbacks : Decider(c)})

\* Nothing makes the event pending again; once it is not, no session joins the
\* unaware ones, and once it is decided, none joins the undecided ones.  A verdict
\* gives way to another one only at the cost of an undecided session, and to
\* "delivering" only at the cost of an unaware one.
Settles ==
    /\ row.status # "pending" => row'.status # "pending" /\ Unaware' \subseteq Unaware
    /\ row.status \in Terminal =>
          /\ Undecided' \subseteq Undecided
          /\ row'.status # row.status => Undecided' # Undecided
          /\ row'.status \notin Terminal => Unaware' # Unaware

VerdictsSettle == [][Settles]_vars

\* The same, session by session.
SendersSettle ==
    /\ row.status # "pending" => \A p \in Publisher : LateSender(p)' => LateSender(p)
    /\ row.status \in Terminal => \A p \in Publisher : Sender(p)' => Sender(p)
CallbacksSettle ==
    /\ row.status # "pending" => \A c \in Callbacks : LateCallback(c)' => LateCallback(c)
    /\ row.status \in Terminal => \A c \in Callbacks : Decider(c)' => Decider(c)
VerdictCosts ==
    row.status \in Terminal /\ row'.status # row.status =>
        \/ \E p \in Publisher : Sender(p) /\ ~Sender(p)'
        \/ \E c \in Callbacks : Decider(c) /\ ~Decider(c)'
DecisionCosts ==
    row.status \in Terminal /\ row'.status \notin Terminal =>
        \/ \E p \in Publisher : LateSender(p) /\ ~LateSender(p)'
        \/ \E c \in Callbacks : LateCallback(c) /\ ~LateCallback(c)'

\* A publisher that returns, or goes on, is the only one that moves.
LEMMA OneSender ==
  ASSUME TypeOK, NEW p \in Publisher, NEW l,
         \/ Return(p)
         \/ Goto(p, l) /\ \A q \in Publisher \ {p} : seen'[q] = seen[q]
  PROVE  \A q \in Publisher \ {p} : /\ LateSender(q)' <=> LateSender(q)
                                    /\ Sender(q)' <=> Sender(q)
BY DEF Return, Goto, TypeOK, LateSender, Sender

LEMMA ReturnLeaves ==
  ASSUME TypeOK, NEW p \in Publisher, Return(p)
  PROVE  ~LateSender(p)' /\ ~Sender(p)'
BY DEF Return, Goto, TypeOK, LateSender, Sender

\* Who returns has settled; who loads the event sees what has been decided.
LEMMA SenderStep ==
  ASSUME TypeOK, [Next]_vars
  PROVE  SendersSettle
<1>1. ASSUME NEW p \in Publisher, Return(p) PROVE SendersSettle
  BY <1>1, OneSender, ReturnLeaves DEF SendersSettle
<1>2. CASE UNCHANGED sessions
  BY <1>2 DEF sessions, SendersSettle, LateSender, Sender
<1>3. ASSUME NEW p \in Publisher, PublishLoad(p) PROVE SendersSettle
  <2>1. CASE row.status \in Terminal
    BY <1>1, <1>3, <2>1 DEF PublishLoad
  <2>2. CASE row.status \notin Terminal
    <3>1. Goto(p, "loaded") /\ seen' = [seen EXCEPT ![p] = [status |-> row.status, msg |-> row.msg]]
      BY <1>3, <2>2 DEF PublishLoad
    <3>2. seen'[p].status = row.status /\ \A q \in Publisher \ {p} : seen'[q] = seen[q]
      BY <3>1 DEF TypeOK
    <3> QED BY <2>2, <3>1, <3>2, OneSender DEF SendersSettle, LateSender
  <2> QED BY <2>1, <2>2
<1>4. ASSUME NEW p \in Publisher, Publish(p) PROVE SendersSettle
  <2>1. Goto(p, "accepted") /\ seen' = seen /\ ppc[p] = "loaded"
    BY <1>4 DEF Publish
  <2> QED BY <2>1, OneSender DEF SendersSettle, LateSender, Sender
<1>5. ASSUME NEW r \in Recoveries, Scan(r) PROVE SendersSettle
  <2>1. Goto(r, "called") /\ seen' = seen /\ r \in Publisher
    BY <1>5 DEF Scan, Publisher
  <2>2. ~LateSender(r)' /\ ~Sender(r)'
    BY <2>1 DEF Goto, TypeOK, LateSender, Sender
  <2> QED BY <2>1, <2>2, OneSender DEF SendersSettle
<1>6. ASSUME NEW r \in Recoveries, StaleLoad(r) PROVE SendersSettle
  <2>1. Goto(r, "reconciling") /\ seen' = seen /\ r \in Publisher
        /\ row.status \notin Terminal
    BY <1>6 DEF StaleLoad, Publisher, Terminal
  <2>2. ~LateSender(r)'
    BY <2>1 DEF Goto, TypeOK, LateSender
  <2> QED BY <2>1, <2>2, OneSender DEF SendersSettle
<1>7. \A r \in Recoveries : r \in Publisher
  BY DEF Publisher
<1> QED
  BY <1>1, <1>2, <1>3, <1>4, <1>5, <1>6, <1>7
  DEF Next, PublishEvent, Refuse, PublishFails, PublishCommit, PublisherDies, Reconcile,
      StillOpen, Attempt, LoseCallback, CallbackLoad, CallbackCommit, CallbackFails,
      Quiet, vars

LEMMA HandlerStep ==
  ASSUME TypeOK, [Next]_vars
  PROVE  CallbacksSettle
<1>1. CASE work' = work
  BY <1>1 DEF CallbacksSettle, LateCallback, Decider
<1>2. ASSUME NEW c \in Callbacks, work' = [work EXCEPT ![c] = Idle] PROVE CallbacksSettle
  <2>1. ~work'[c].busy /\ \A d \in Callbacks \ {c} : work'[d] = work[d]
    BY <1>2 DEF TypeOK, Idle
  <2> QED BY <2>1 DEF CallbacksSettle, LateCallback, Decider
<1>3. ASSUME NEW c \in Callbacks, CallbackLoad(c) PROVE CallbacksSettle
  <2>1. work'[c].status = row.status /\ \A d \in Callbacks \ {c} : work'[d] = work[d]
    BY <1>3 DEF CallbackLoad, TypeOK
  <2> QED BY <2>1 DEF CallbacksSettle, LateCallback, Decider
<1> QED
  BY <1>1, <1>2, <1>3
  DEF Next, PublishEvent, vars, sessions, PublishLoad, Refuse, Publish, PublishFails,
      PublishCommit, PublisherDies, Scan, StaleLoad, Reconcile, StillOpen, Attempt,
      LoseCallback, CallbackCommit, CallbackFails, Quiet

\* A verdict is overwritten by a publisher or a callback that ends with it.
LEMMA CostStep ==
  ASSUME TypeOK, [Next]_vars
  PROVE  VerdictCosts /\ DecisionCosts
<1>1. CASE row'.status = row.status
  BY <1>1 DEF VerdictCosts, DecisionCosts
<1>2. ASSUME NEW p \in Publisher, Refuse(p) PROVE VerdictCosts /\ DecisionCosts
  <2>1. Sender(p) /\ ~Sender(p)' /\ row'.status \in Terminal
    BY <1>2, ReturnLeaves DEF Refuse, Sender, TypeOK, Row, Terminal
  <2> QED BY <2>1 DEF VerdictCosts, DecisionCosts
<1>3. ASSUME NEW p \in Publisher, PublishCommit(p) PROVE VerdictCosts /\ DecisionCosts
  <2>1. CASE seen[p].status = "delivering"
    BY <1>1, <1>3, <2>1 DEF PublishCommit, TypeOK, Row
  <2>2. CASE seen[p].status # "delivering"
    <3>1. seen[p].status = "pending"
      BY <2>2 DEF TypeOK, Seen, Status, Terminal
    <3>2. Sender(p) /\ LateSender(p) /\ ~Sender(p)' /\ ~LateSender(p)'
      BY <1>3, <3>1, ReturnLeaves DEF PublishCommit, Sender, LateSender
    <3> QED BY <3>2 DEF VerdictCosts, DecisionCosts
  <2> QED BY <2>1, <2>2
<1>4. ASSUME NEW r \in Recoveries, Reconcile(r) PROVE VerdictCosts /\ DecisionCosts
  <2>1. r \in Publisher /\ Sender(r) /\ ~Sender(r)' /\ row'.status \in Terminal
    BY <1>4, ReturnLeaves DEF Reconcile, Sender, TypeOK, Row, Publisher
  <2> QED BY <2>1 DEF VerdictCosts, DecisionCosts
<1>5. ASSUME NEW c \in Callbacks, CallbackCommit(c) PROVE VerdictCosts /\ DecisionCosts
  <2> DEFINE new == Resolve(work[c].status, CallbackStatus(work[c].cb))
  <2>1. work[c] \in Loaded /\ work[c].busy
    BY <1>5, WorkType DEF CallbackCommit
  <2>2. /\ ~LateCallback(c)' /\ ~Decider(c)'
        /\ row'.status = IF new = work[c].status THEN row.status ELSE new
    BY <1>5 DEF CallbackCommit, TypeOK, Row, Idle, LateCallback, Decider
  <2>3. CASE new = work[c].status
    BY <1>1, <2>2, <2>3
  <2>4. CASE new # work[c].status
    <3>1. Decider(c)
      BY <2>1, <2>4 DEF Resolve, Decider
    <3>2. CallbackStatus(work[c].cb) \in {"delivering"} \cup Terminal
      BY <2>1, StatusOfCallback DEF Loaded, Status
    <3>3. row'.status \notin Terminal => LateCallback(c)
      BY <2>1, <2>2, <2>4, <3>1, <3>2 DEF Resolve, Decider, Loaded, Status, LateCallback
    <3> QED BY <2>2, <3>1, <3>3 DEF VerdictCosts, DecisionCosts
  <2> QED BY <2>3, <2>4
<1> QED
  BY <1>1, <1>2, <1>3, <1>4, <1>5
  DEF Next, PublishEvent, vars, PublishLoad, Publish, PublishFails, PublisherDies, Scan,
      StaleLoad, StillOpen, Attempt, LoseCallback, CallbackLoad, CallbackFails, Quiet

LEMMA SettleStep ==
  ASSUME IInv, [Next]_vars
  PROVE  Settles
<1>1. SendersSettle /\ CallbacksSettle /\ VerdictCosts /\ DecisionCosts
  BY SenderStep, HandlerStep, CostStep DEF IInv
<1>2. row.status # "pending" => row'.status # "pending"
  BY PendingIsLeft DEF IInv
<1>3. row.status # "pending" => Unaware' \subseteq Unaware
  BY <1>1 DEF SendersSettle, CallbacksSettle, Unaware
<1>4. row.status \in Terminal => Undecided' \subseteq Undecided
  BY <1>1 DEF SendersSettle, CallbacksSettle, Undecided
<1>5. row.status \in Terminal /\ row'.status # row.status => Undecided' # Undecided
  <2>1. ASSUME NEW p \in Publisher, Sender(p), ~Sender(p)' PROVE Undecided' # Undecided
    <3>1. <<"publish", p>> \in Undecided /\ <<"publish", p>> \notin Undecided'
      BY <2>1 DEF Undecided
    <3> QED BY <3>1
  <2>2. ASSUME NEW c \in Callbacks, Decider(c), ~Decider(c)' PROVE Undecided' # Undecided
    <3>1. <<"callback", c>> \in Undecided /\ <<"callback", c>> \notin Undecided'
      BY <2>2 DEF Undecided
    <3> QED BY <3>1
  <2> QED BY <1>1, <2>1, <2>2 DEF VerdictCosts
<1>6. row.status \in Terminal /\ row'.status \notin Terminal => Unaware' # Unaware
  <2>1. ASSUME NEW p \in Publisher, LateSender(p), ~LateSender(p)' PROVE Unaware' # Unaware
    <3>1. <<"publish", p>> \in Unaware /\ <<"publish", p>> \notin Unaware'
      BY <2>1 DEF Unaware
    <3> QED BY <3>1
  <2>2. ASSUME NEW c \in Callbacks, LateCallback(c), ~LateCallback(c)'
        PROVE  Unaware' # Unaware
    <3>1. <<"callback", c>> \in Unaware /\ <<"callback", c>> \notin Unaware'
      BY <2>2 DEF Unaware
    <3> QED BY <3>1
  <2> QED BY <1>1, <2>1, <2>2 DEF DecisionCosts
<1> QED BY <1>2, <1>3, <1>4, <1>5, <1>6 DEF Settles

\* An event does not become pending again, and a verdict on it changes as often as
\* sessions are under way that have loaded the event before, and no more: publish_event
\* leaves a decided event alone, resolve_event_status keeps a status it has loaded.
THEOREM VerdictsSettled == Spec => VerdictsSettle
<1>1. IInv /\ [Next]_vars => [Settles]_vars
  BY SettleStep
<1> QED BY Invariance, <1>1, PTL DEF Spec, VerdictsSettle
===============================================================================
