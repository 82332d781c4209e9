------------------------------- MODULE JobLock -------------------------------
(***************************************************************************)
(* RedisJobLock (shared/services/redis/distributed_lock.py): the lease on   *)
(* one Job that a worker holds while it processes it.                       *)
(*                                                                          *)
(* Time passes in ticks.  The key lives TTL ticks after it was set or       *)
(* renewed; the renewal greenlet wakes up every Interval ticks, late by at  *)
(* most MaxStall of them (the hub runs one greenlet at a time), and at most *)
(* MaxFails renewals in a row fail in Redis.  The code bounds neither: the  *)
(* two constants say under which conditions it is a lock.                   *)
(***************************************************************************)
EXTENDS Integers

CONSTANTS
    Holder,     \* lock objects, one per delivery of the task (a token each)
    Nobody,     \* the key does not exist
    TTL,        \* ttl of the key, in ticks
    Interval,   \* renewal_interval, in ticks
    MaxStall,   \* how late the renewal greenlet is scheduled at worst
    MaxFails    \* how many renewals in a row raise at worst

ASSUME LockAssumption ==
    /\ Nobody \notin Holder
    /\ TTL \in Nat \ {0} /\ Interval \in Nat \ {0}
    /\ MaxStall \in Nat /\ MaxFails \in Nat

VARIABLES
    key,        \* the token stored in Redis
    ttl,        \* ticks until the key expires
    phase,      \* phase[h]: where the task of h is
    acquired,   \* acquired[h]: _acquired
    renewing,   \* renewing[h]: the renewal greenlet is alive
    waited,     \* waited[h]: ticks since the greenlet last woke up
    fails       \* fails[h]: renewals in a row that raised

vars == <<key, ttl, phase, acquired, renewing, waited, fails>>

\* "refused": the key existed; "broken": SET raised; "inside": the
\* block of the with statement runs; "left": the block has ended; "crashed".
Phases == {"new", "refused", "broken", "inside", "left", "crashed"}

\* Longest time between two wake-ups of a renewal greenlet.
Period == Interval + MaxStall

Init ==
    /\ key = Nobody
    /\ ttl = 0
    /\ phase = [h \in Holder |-> "new"]
    /\ acquired = [h \in Holder |-> FALSE]
    /\ renewing = [h \in Holder |-> FALSE]
    /\ waited = [h \in Holder |-> 0]
    /\ fails = [h \in Holder |-> 0]

Enter(h, p) == phase' = [phase EXCEPT ![h] = p]

------------------------------------------------------------------------------
\* Mutant of Acquire: SET without NX.
AcquireOver(h) ==
    /\ phase[h] = "new"
    /\ key' = h /\ ttl' = TTL
    /\ acquired' = [acquired EXCEPT ![h] = TRUE]
    /\ renewing' = [renewing EXCEPT ![h] = TRUE]
    /\ Enter(h, "inside")
    /\ UNCHANGED <<waited, fails>>

\* acquire: SET NX EX succeeds and the renewal greenlet starts.
Acquire(h) ==
    /\ phase[h] = "new" /\ key = Nobody
    /\ key' = h /\ ttl' = TTL
    /\ acquired' = [acquired EXCEPT ![h] = TRUE]
    /\ renewing' = [renewing EXCEPT ![h] = TRUE]
    /\ Enter(h, "inside")
    /\ UNCHANGED <<waited, fails>>

\* acquire: the key exists, set by another or by h's own SET, whose reply timed out
\* and which the client has sent again; __enter__ raises UnavailableException.
Refuse(h) ==
    /\ phase[h] = "new"
    /\ \/ key # Nobody /\ UNCHANGED <<key, ttl>>
       \/ key = Nobody /\ key' = h /\ ttl' = TTL
    /\ Enter(h, "refused")
    /\ UNCHANGED <<acquired, renewing, waited, fails>>

\* acquire: the client raises, before or after Redis has set the key.  Nothing
\* renews the key and nothing deletes it: __exit__ does not run.
AcquireRaises(h) ==
    /\ phase[h] = "new"
    /\ \/ UNCHANGED <<key, ttl>>
       \/ key = Nobody /\ key' = h /\ ttl' = TTL
    /\ Enter(h, "broken")
    /\ UNCHANGED <<acquired, renewing, waited, fails>>

\* Mutants of Renew: an extension instead of a reset, EXPIRE without the owner
\* check, and a result that nobody reads.
RenewAdds(h) ==
    /\ renewing[h] /\ waited[h] >= Interval
    /\ key = h /\ ttl' = ttl + TTL
    /\ waited' = [waited EXCEPT ![h] = 0]
    /\ fails' = [fails EXCEPT ![h] = 0]
    /\ UNCHANGED <<key, phase, acquired, renewing>>

RenewUnread(h) ==
    /\ renewing[h] /\ waited[h] >= Interval
    /\ ttl' = IF key = h THEN TTL ELSE ttl
    /\ waited' = [waited EXCEPT ![h] = 0]
    /\ fails' = [fails EXCEPT ![h] = 0]
    /\ UNCHANGED <<key, phase, acquired, renewing>>

RenewAnyKey(h) ==
    /\ renewing[h] /\ waited[h] >= Interval
    /\ ttl' = IF key # Nobody THEN TTL ELSE ttl
    /\ waited' = [waited EXCEPT ![h] = 0]
    /\ fails' = [fails EXCEPT ![h] = 0]
    /\ UNCHANGED <<key, phase, acquired, renewing>>

\* _renewal_loop: the greenlet wakes up and the owner check of the script decides;
\* when it fails the lock is lost and renewal stops, but the block runs on.
Renew(h) ==
    /\ renewing[h] /\ waited[h] >= Interval
    /\ IF key = h
       THEN /\ ttl' = TTL
            /\ UNCHANGED <<acquired, renewing>>
       ELSE /\ acquired' = [acquired EXCEPT ![h] = FALSE]
            /\ renewing' = [renewing EXCEPT ![h] = FALSE]
            /\ UNCHANGED ttl
    /\ waited' = [waited EXCEPT ![h] = 0]
    /\ fails' = [fails EXCEPT ![h] = 0]
    /\ UNCHANGED <<key, phase>>

\* _renewal_loop: the script raises, whether or not Redis has run it; the loop
\* goes on and waits again.
RenewRaises(h) ==
    /\ renewing[h] /\ waited[h] >= Interval
    /\ fails[h] < MaxFails
    /\ \/ UNCHANGED ttl
       \/ key = h /\ ttl' = TTL
    /\ waited' = [waited EXCEPT ![h] = 0]
    /\ fails' = [fails EXCEPT ![h] = @ + 1]
    /\ UNCHANGED <<key, phase, acquired, renewing>>

\* The greenlet is gone: killed by release, or with its process.
StopRenewal(h) ==
    /\ renewing' = [renewing EXCEPT ![h] = FALSE]
    /\ waited' = [waited EXCEPT ![h] = 0]
    /\ fails' = [fails EXCEPT ![h] = 0]

\* Mutants of Leave: DEL without comparing the token, and a release that leaves
\* the renewal running.
LeaveAnyKey(h) ==
    /\ phase[h] = "inside"
    /\ StopRenewal(h)
    /\ \/ acquired[h] /\ key' = Nobody /\ ttl' = 0
       \/ UNCHANGED <<key, ttl>>
    /\ acquired' = [acquired EXCEPT ![h] = FALSE]
    /\ Enter(h, "left")

LeaveRenewing(h) ==
    /\ phase[h] = "inside"
    /\ \/ acquired[h] /\ key = h /\ key' = Nobody /\ ttl' = 0
       \/ UNCHANGED <<key, ttl>>
    /\ acquired' = [acquired EXCEPT ![h] = FALSE]
    /\ Enter(h, "left")
    /\ UNCHANGED <<renewing, waited, fails>>

\* __exit__: release stops the renewal and, unless the lock is known to be lost,
\* deletes the key if its token is still h's; Redis may raise, which is swallowed.
Leave(h) ==
    /\ phase[h] = "inside"
    /\ StopRenewal(h)
    /\ \/ acquired[h] /\ key = h /\ key' = Nobody /\ ttl' = 0
       \/ UNCHANGED <<key, ttl>>
    /\ acquired' = [acquired EXCEPT ![h] = FALSE]
    /\ Enter(h, "left")

\* The worker process dies inside the block.
Crash(h) ==
    /\ phase[h] = "inside"
    /\ StopRenewal(h)
    /\ Enter(h, "crashed")
    /\ acquired' = [acquired EXCEPT ![h] = FALSE]
    /\ UNCHANGED <<key, ttl>>

\* Time passes; Redis drops the key at the end of its life.
Tick ==
    /\ \A h \in Holder : renewing[h] => waited[h] < Period
    /\ key # Nobody \/ \E h \in Holder : renewing[h]
    /\ waited' = [h \in Holder |-> waited[h] + (IF renewing[h] THEN 1 ELSE 0)]
    /\ ttl' = IF ttl > 0 THEN ttl - 1 ELSE 0
    /\ key' = IF ttl > 1 THEN key ELSE Nobody
    /\ UNCHANGED <<phase, acquired, renewing, fails>>

\* Nothing is left to happen: the deliveries are over and the key is gone.
Quiet ==
    /\ key = Nobody
    /\ \A h \in Holder : phase[h] \notin {"new", "inside"}
    /\ UNCHANGED vars

Next ==
    \/ \E h \in Holder :
        \/ Acquire(h) \/ Refuse(h) \/ AcquireRaises(h)
        \/ Renew(h) \/ RenewRaises(h)
        \/ Leave(h) \/ Crash(h)
    \/ Tick
    \/ Quiet

Spec == Init /\ [][Next]_vars

\* Time passes, the greenlet is scheduled, and an ended block is released.  The
\* block itself may run for ever.
Fairness == WF_vars(Tick) /\ \A h \in Holder : WF_vars(Renew(h))

FairSpec == Spec /\ Fairness
------------------------------------------------------------------------------
TypeOK ==
    /\ key \in Holder \cup {Nobody}
    /\ ttl \in 0..TTL
    /\ phase \in [Holder -> Phases]
    /\ acquired \in [Holder -> BOOLEAN]
    /\ renewing \in [Holder -> BOOLEAN]
    /\ waited \in [Holder -> 0..Period]
    /\ fails \in [Holder -> 0..MaxFails]

\* What the deployment has to guarantee for the lease to be a lock: the renewals
\* that may fail in a row, and the one after them, come before the key expires.
SafeTiming == (MaxFails + 1) * Period < TTL

\* "Only one worker runs this block per job_id", redelivered tasks included.
MutualExclusion ==
    \A g, h \in Holder : phase[g] = "inside" /\ phase[h] = "inside" => g = h

\* A holder's key is removed by its own release or at the end of its life, never
\* by the late release of a holder that has lost the lock.
OnlyOwnerReleases ==
    [][ \A h \in Holder : key = h /\ key' # h =>
            \/ ttl = 1
            \/ phase[h] = "inside" /\ phase'[h] = "left" ]_vars

\* A key lives longer only by the doing of its owner: a holder that has lost the
\* lock does not keep another's lease alive.
OnlyOwnerExtends ==
    [][ \A h \in Holder : key = h /\ ttl' > ttl =>
            renewing[h] /\ waited[h] >= Interval /\ waited'[h] = 0 ]_vars

\* Nobody but its owner ends or prolongs a lease.
LeaseIsTheOwners == OnlyOwnerReleases /\ OnlyOwnerExtends

\* A key whose owner has ended (left with a failing release, crashed, or never
\* learned that it had the lock) goes away: nobody waits for it for good.
OrphanExpires ==
    \A h \in Holder :
        (key = h /\ phase[h] \in {"refused", "left", "broken", "crashed"}) ~> key # h

\* A worker whose lease is gone learns it from its next renewal.
LossIsNoticed ==
    \A h \in Holder : (acquired[h] /\ key # h) ~> ~acquired[h]

\* What the workers build on.
Lease == INSTANCE JobLease WITH free <- key = Nobody, inside <- {h \in Holder : phase[h] = "inside"}
LeasePromise == Lease!Spec
===============================================================================
