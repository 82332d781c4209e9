---------------------------- MODULE JobLock_proofs ----------------------------
(***************************************************************************)
(* Under SafeTiming the lease of JobLock is a lock, for any number of       *)
(* deliveries and any values of the constants.                              *)
(*                                                                          *)
(* The argument: the ticks since the key was last set or renewed are those  *)
(* of the failed renewals, one period each, and those of the current wait;  *)
(* SafeTiming makes their sum less than the key's life.  So the key of a    *)
(* holder inside its block never expires, and SET NX admits nobody else.    *)
(***************************************************************************)
EXTENDS JobLock, TLAPS

\* Ticks since the last successful renewal of h, at most.
Elapsed(h) == fails[h] * Period + waited[h]

\* Every holder inside its block owns a live, renewed key.
LeaseInv ==
    \A h \in Holder :
        /\ renewing[h] <=> phase[h] = "inside"
        /\ renewing[h] => /\ key = h /\ acquired[h]
                          /\ TTL - ttl <= Elapsed(h)
        /\ ~renewing[h] => waited[h] = 0 /\ fails[h] = 0

\* A key that exists has time left.
KeyInv == key # Nobody => ttl > 0

IInv == TypeOK /\ KeyInv /\ LeaseInv

LEMMA PeriodNat == Period \in Nat /\ Interval \in Nat /\ Period > 0
BY LockAssumption DEF Period

\* Fewer failures take less time: the one product of the argument.
LEMMA Products ==
    ASSUME NEW f \in Nat, NEW m \in Nat, NEW p \in Nat, f <= m
    PROVE  /\ f * p \in Nat /\ m * p \in Nat
           /\ f * p <= m * p
           /\ (f + 1) * p = f * p + p
<1>1. m = f + (m - f) /\ m - f \in Nat
  OBVIOUS
<1>2. PICK d \in Nat : m = f + d
  BY <1>1
<1>3. m * p = f * p + d * p
  BY <1>2
<1>4. d * p \in Nat /\ f * p \in Nat
  OBVIOUS
<1> QED
  BY <1>3, <1>4

------------------------------------------------------------------------------
LEMMA TypeInit == Init => TypeOK
BY LockAssumption, PeriodNat DEF Init, TypeOK, Phases

LEMMA TypeStep == TypeOK /\ [Next]_vars => TypeOK'
<1> SUFFICES ASSUME TypeOK, [Next]_vars PROVE TypeOK'
  OBVIOUS
<1> USE LockAssumption, PeriodNat
<1>1. ASSUME NEW h \in Holder, Acquire(h) PROVE TypeOK'
  BY <1>1 DEF TypeOK, Acquire, Enter, Phases
<1>2. ASSUME NEW h \in Holder, Refuse(h) PROVE TypeOK'
  BY <1>2 DEF TypeOK, Refuse, Enter, Phases
<1>3. ASSUME NEW h \in Holder, AcquireRaises(h) PROVE TypeOK'
  BY <1>3 DEF TypeOK, AcquireRaises, Enter, Phases
<1>4. ASSUME NEW h \in Holder, Renew(h) PROVE TypeOK'
  <2>1. waited' \in [Holder -> 0..Period] /\ fails' \in [Holder -> 0..MaxFails]
    BY <1>4 DEF TypeOK, Renew
  <2>2. CASE key = h
    BY <1>4, <2>1, <2>2 DEF TypeOK, Renew
  <2>3. CASE key # h
    BY <1>4, <2>1, <2>3 DEF TypeOK, Renew
  <2> QED
    BY <2>2, <2>3
<1>5. ASSUME NEW h \in Holder, RenewRaises(h) PROVE TypeOK'
  BY <1>5 DEF TypeOK, RenewRaises, Phases
<1>6. ASSUME NEW h \in Holder, Leave(h) PROVE TypeOK'
  BY <1>6 DEF TypeOK, Leave, StopRenewal, Enter, Phases
<1>7. ASSUME NEW h \in Holder, Crash(h) PROVE TypeOK'
  BY <1>7 DEF TypeOK, Crash, StopRenewal, Enter, Phases
<1>8. CASE Tick
  <2>1. waited' \in [Holder -> 0..Period]
    BY <1>8 DEF TypeOK, Tick
  <2>2. key' \in Holder \cup {Nobody} /\ ttl' \in 0..TTL
    BY <1>8 DEF TypeOK, Tick
  <2> QED
    BY <1>8, <2>1, <2>2 DEF TypeOK, Tick
<1>9. CASE Quiet
  BY <1>9 DEF TypeOK, Quiet, vars
<1>10. CASE UNCHANGED vars
  BY <1>10 DEF TypeOK, vars
<1> QED
  BY <1>1, <1>2, <1>3, <1>4, <1>5, <1>6, <1>7, <1>8, <1>9, <1>10 DEF Next

\* The type invariant of JobLock, for every timing.
THEOREM LockTypeCorrect == Spec => []TypeOK
<1> QED
  BY TypeInit, TypeStep, PTL DEF Spec

------------------------------------------------------------------------------
LEMMA KeyStep == TypeOK /\ KeyInv /\ [Next]_vars => KeyInv'
<1> SUFFICES ASSUME TypeOK, KeyInv, [Next]_vars PROVE KeyInv'
  OBVIOUS
<1> QED
  BY LockAssumption
  DEF TypeOK, KeyInv, Next, vars, Acquire, Refuse, AcquireRaises, Renew, RenewRaises,
      Leave, Crash, Tick, Quiet

\* The elapsed time of a renewing holder stays within the grace of SafeTiming.
LEMMA InTime ==
    ASSUME SafeTiming, TypeOK, NEW h \in Holder
    PROVE  Elapsed(h) \in Nat /\ Elapsed(h) < TTL
<1>1. /\ fails[h] \in Nat /\ fails[h] <= MaxFails
      /\ waited[h] \in Nat /\ waited[h] <= Period
  BY PeriodNat, LockAssumption DEF TypeOK
<1>2. /\ fails[h] * Period \in Nat /\ MaxFails * Period \in Nat
      /\ fails[h] * Period <= MaxFails * Period
      /\ (MaxFails + 1) * Period = MaxFails * Period + Period
  BY <1>1, Products, PeriodNat, LockAssumption
<1> QED
  BY <1>1, <1>2, PeriodNat, LockAssumption DEF Elapsed, SafeTiming

\* LeaseInv for one holder.
Leased(h) ==
    /\ renewing[h] <=> phase[h] = "inside"
    /\ renewing[h] => /\ key = h /\ acquired[h]
                      /\ TTL - ttl <= Elapsed(h)
    /\ ~renewing[h] => waited[h] = 0 /\ fails[h] = 0

LEMMA LeaseStep ==
    ASSUME SafeTiming, TypeOK, KeyInv, LeaseInv, [Next]_vars, NEW h \in Holder
    PROVE  Leased(h)'
<1> USE LockAssumption, PeriodNat
<1>1. Leased(h)
  BY DEF LeaseInv, Leased
<1>2. fails[h] * Period \in Nat
  <2>1. fails[h] \in Nat
    BY DEF TypeOK
  <2> QED
    BY <2>1, Products
<1>3. ASSUME NEW g \in Holder, Acquire(g) PROVE Leased(h)'
  <2>1. CASE g = h
    <3>1. /\ key' = h /\ ttl' = TTL /\ acquired'[h] /\ renewing'[h]
          /\ phase'[h] = "inside"
      BY <1>3, <2>1 DEF Acquire, Enter, TypeOK
    <3>2. Elapsed(h)' = fails[h] * Period + waited[h]
      BY <1>3 DEF Acquire, Elapsed
    <3> QED
      BY <1>2, <3>1, <3>2 DEF Leased, TypeOK
  <2>2. CASE g # h
    <3>1. ~renewing[h]
      BY <1>1, <1>3 DEF Leased, Acquire
    <3> QED
      BY <1>1, <1>3, <2>2, <3>1 DEF Leased, Acquire, Enter, TypeOK
  <2> QED
    BY <2>1, <2>2
<1>4. ASSUME NEW g \in Holder, Refuse(g) PROVE Leased(h)'
  BY <1>1, <1>4 DEF Leased, Refuse, Enter, TypeOK, Elapsed
<1>5. ASSUME NEW g \in Holder, AcquireRaises(g) PROVE Leased(h)'
  BY <1>1, <1>5 DEF Leased, AcquireRaises, Enter, TypeOK, Elapsed
<1>6. ASSUME NEW g \in Holder, Renew(g) PROVE Leased(h)'
  <2>1. key = g
    BY <1>6 DEF Renew, LeaseInv
  <2>2. CASE g = h
    <3>1. waited'[h] = 0 /\ fails'[h] = 0 /\ ttl' = TTL
      BY <1>6, <2>1, <2>2 DEF Renew, TypeOK
    <3>2. Elapsed(h)' = 0
      BY <3>1 DEF Elapsed
    <3> QED
      BY <1>1, <1>6, <2>1, <2>2, <3>1, <3>2 DEF Leased, Renew, TypeOK
  <2>3. CASE g # h
    BY <1>1, <1>6, <2>1, <2>3 DEF Leased, Renew, TypeOK
  <2> QED
    BY <2>2, <2>3
<1>7. ASSUME NEW g \in Holder, RenewRaises(g) PROVE Leased(h)'
  <2>1. key = g
    BY <1>7 DEF RenewRaises, LeaseInv
  <2>2. CASE g = h
    <3>1. waited'[h] = 0 /\ fails'[h] = fails[h] + 1 /\ fails[h] \in Nat
      BY <1>7, <2>2 DEF RenewRaises, TypeOK
    <3>2. Elapsed(h)' = fails[h] * Period + Period
      <4>1. (fails[h] + 1) * Period = fails[h] * Period + Period
        BY <3>1, Products
      <4> QED
        BY <1>2, <3>1, <4>1 DEF Elapsed
    <3>3. waited[h] <= Period /\ waited[h] \in Nat /\ TTL - ttl <= Elapsed(h)
      BY <1>1, <1>7, <2>2 DEF TypeOK, Leased, RenewRaises
    <3>4. TTL - ttl' <= Elapsed(h)'
      BY <1>2, <1>7, <3>2, <3>3 DEF RenewRaises, Elapsed, TypeOK
    <3> QED
      BY <1>1, <1>7, <2>2, <3>4 DEF Leased, RenewRaises, TypeOK
  <2>3. CASE g # h
    BY <1>1, <1>7, <2>1, <2>3 DEF Leased, RenewRaises, TypeOK
  <2> QED
    BY <2>2, <2>3
<1>8. ASSUME NEW g \in Holder, Leave(g) PROVE Leased(h)'
  <2>1. key = g
    BY <1>8 DEF Leave, LeaseInv
  <2>2. CASE g = h
    BY <1>8, <2>2 DEF Leased, Leave, StopRenewal, Enter, TypeOK
  <2>3. CASE g # h
    BY <1>1, <1>8, <2>1, <2>3 DEF Leased, Leave, StopRenewal, Enter, TypeOK
  <2> QED
    BY <2>2, <2>3
<1>9. ASSUME NEW g \in Holder, Crash(g) PROVE Leased(h)'
  <2>1. key = g
    BY <1>9 DEF Crash, LeaseInv
  <2>2. CASE g = h
    BY <1>9, <2>2 DEF Leased, Crash, StopRenewal, Enter, TypeOK
  <2>3. CASE g # h
    BY <1>1, <1>9, <2>1, <2>3 DEF Leased, Crash, StopRenewal, Enter, TypeOK
  <2> QED
    BY <2>2, <2>3
<1>10. CASE Tick
  <2>1. CASE renewing[h]
    <3>1. /\ waited'[h] = waited[h] + 1 /\ fails'[h] = fails[h]
          /\ waited[h] \in Nat /\ ttl \in Nat
      BY <1>10, <2>1 DEF Tick, TypeOK
    <3>2. Elapsed(h)' = Elapsed(h) + 1 /\ Elapsed(h) \in Nat
      BY <1>2, <3>1 DEF Elapsed
    <3>3. TypeOK'
      BY TypeStep
    <3>4. Elapsed(h)' < TTL
      <4>1. /\ fails'[h] \in Nat /\ fails'[h] <= MaxFails
            /\ waited'[h] \in Nat /\ waited'[h] <= Period
        BY <3>3 DEF TypeOK
      <4>2. /\ fails'[h] * Period \in Nat /\ MaxFails * Period \in Nat
            /\ fails'[h] * Period <= MaxFails * Period
            /\ (MaxFails + 1) * Period = MaxFails * Period + Period
        BY <4>1, Products
      <4> QED
        BY <4>1, <4>2 DEF Elapsed, SafeTiming
    <3>5. TTL - ttl <= Elapsed(h) /\ key = h
      BY <1>1, <2>1 DEF Leased
    <3>6. ttl > 1
      BY <3>1, <3>2, <3>4, <3>5
    <3> QED
      BY <1>1, <1>10, <2>1, <3>1, <3>2, <3>5, <3>6 DEF Leased, Tick
  <2>2. CASE ~renewing[h]
    BY <1>1, <1>10, <2>2 DEF Leased, Tick, TypeOK
  <2> QED
    BY <2>1, <2>2
<1>11. CASE Quiet
  BY <1>1, <1>11 DEF Leased, Quiet, vars, Elapsed
<1>12. CASE UNCHANGED vars
  BY <1>1, <1>12 DEF Leased, vars, Elapsed
<1> QED
  BY <1>3, <1>4, <1>5, <1>6, <1>7, <1>8, <1>9, <1>10, <1>11, <1>12 DEF Next

------------------------------------------------------------------------------
LEMMA IInvInit == Init => IInv
<1> SUFFICES ASSUME Init PROVE KeyInv /\ LeaseInv
  BY TypeInit DEF IInv
<1> QED
  BY DEF Init, KeyInv, LeaseInv

LEMMA IInvStep == ASSUME SafeTiming PROVE IInv /\ [Next]_vars => IInv'
<1> SUFFICES ASSUME IInv, [Next]_vars PROVE IInv'
  OBVIOUS
<1>1. TypeOK' /\ KeyInv'
  BY TypeStep, KeyStep DEF IInv
<1>2. ASSUME NEW h \in Holder PROVE Leased(h)'
  BY <1>2, LeaseStep DEF IInv
<1>3. LeaseInv'
  BY <1>2 DEF LeaseInv, Leased
<1> QED
  BY <1>1, <1>3 DEF IInv

LEMMA Exclusive == IInv => MutualExclusion
BY DEF IInv, LeaseInv, MutualExclusion

\* When the worst run of failed and late renewals is shorter than the key's life,
\* no two deliveries of a task are ever inside the block of one Job.
THEOREM LeaseIsALock == ASSUME SafeTiming PROVE Spec => []MutualExclusion
<1>1. Init => IInv
  BY IInvInit
<1>2. IInv /\ [Next]_vars => IInv'
  BY IInvStep
<1>3. IInv => MutualExclusion
  BY Exclusive
<1> QED
  BY <1>1, <1>2, <1>3, PTL DEF Spec
\* A key leaves its owner only by the owner's release or by expiry, and lives
\* longer only by its owner's renewal, whatever the timing is.
THEOREM OwnerOnly == Spec => LeaseIsTheOwners
<1>1. TypeOK /\ KeyInv /\ [Next]_vars => TypeOK' /\ KeyInv'
  BY TypeStep, KeyStep
<1>2. Init => TypeOK /\ KeyInv
  BY TypeInit DEF Init, KeyInv
<1>3. ASSUME TypeOK, KeyInv, [Next]_vars, NEW h \in Holder, key = h, key' # h
      PROVE  ttl = 1 \/ (phase[h] = "inside" /\ phase'[h] = "left")
  <2>1. CASE \E g \in Holder : Leave(g)
    BY <1>3, <2>1, LockAssumption DEF Leave, Enter, TypeOK
  <2>2. CASE Tick
    BY <1>3, <2>2, LockAssumption DEF Tick, TypeOK, KeyInv
  <2> QED
    BY <1>3, <2>1, <2>2, LockAssumption
    DEF Next, vars, Acquire, Refuse, AcquireRaises, Renew, RenewRaises, Crash, Quiet
<1>4. ASSUME TypeOK, KeyInv, [Next]_vars, NEW h \in Holder, key = h, ttl' > ttl
      PROVE  renewing[h] /\ waited[h] >= Interval /\ waited'[h] = 0
  <2>1. CASE \E g \in Holder : Renew(g) \/ RenewRaises(g)
    BY <1>4, <2>1 DEF Renew, RenewRaises, TypeOK
  <2>2. CASE Tick
    BY <1>4, <2>2, LockAssumption DEF Tick, TypeOK
  <2> QED
    BY <1>4, <2>1, <2>2, LockAssumption
    DEF Next, vars, Acquire, Refuse, AcquireRaises, Leave, Crash, Quiet, TypeOK
<1>5. TypeOK /\ KeyInv /\ [Next]_vars =>
        [\A h \in Holder : key = h /\ key' # h =>
            \/ ttl = 1
            \/ phase[h] = "inside" /\ phase'[h] = "left"]_vars
  BY <1>3
<1>6. TypeOK /\ KeyInv /\ [Next]_vars =>
        [\A h \in Holder : key = h /\ ttl' > ttl =>
            renewing[h] /\ waited[h] >= Interval /\ waited'[h] = 0]_vars
  BY <1>4
<1> QED
  BY <1>1, <1>2, <1>5, <1>6, PTL
     DEF Spec, LeaseIsTheOwners, OnlyOwnerReleases, OnlyOwnerExtends

------------------------------------------------------------------------------
(* What the workers build on: JobLease. *)

Inner == {h \in Holder : phase[h] = "inside"}

\* Who changes its phase enters or leaves the set of those inside, nobody else.
LEMMA InnerStep ==
    ASSUME TypeOK, NEW h \in Holder, NEW p \in Phases, Enter(h, p)
    PROVE  Inner' = IF p = "inside" THEN Inner \cup {h} ELSE Inner \ {h}
<1>1. \A g \in Holder : phase'[g] = IF g = h THEN p ELSE phase[g]
  BY DEF Enter, TypeOK
<1> QED
  BY <1>1 DEF Inner

LEMMA LeaseRefines ==
    ASSUME SafeTiming, IInv, [Next]_vars
    PROVE  Lease!Next \/ UNCHANGED Lease!leaseVars
<1> DEFINE free == key = Nobody
<1> SUFFICES \/ UNCHANGED free /\ Inner' = Inner
             \/ free /\ ~free' /\ Inner' = Inner
             \/ Inner = {} /\ ~free /\ free' /\ Inner' = Inner
             \/ \E h \in Holder : free /\ ~free' /\ Inner' = Inner \cup {h}
             \/ \E h \in Holder : h \in Inner /\ Inner' = Inner \ {h}
  BY DEF Inner, Lease!Next, Lease!leaseVars, Lease!Spoil, Lease!Expire, Lease!Enter, Lease!Leave
<1> USE LockAssumption DEF IInv
<1>1. ASSUME NEW h \in Holder, Acquire(h)
      PROVE  free /\ ~free' /\ Inner' = Inner \cup {h}
  BY <1>1, InnerStep DEF Acquire, Phases
<1>2. ASSUME NEW h \in Holder, Refuse(h)
      PROVE  Inner' = Inner /\ (UNCHANGED free \/ (free /\ ~free'))
  BY <1>2, InnerStep DEF Refuse, Phases, Inner
<1>3. ASSUME NEW h \in Holder, AcquireRaises(h)
      PROVE  Inner' = Inner /\ (UNCHANGED free \/ (free /\ ~free'))
  BY <1>3, InnerStep DEF AcquireRaises, Phases, Inner
<1>4. ASSUME NEW h \in Holder, Renew(h) \/ RenewRaises(h)
      PROVE  UNCHANGED free /\ Inner' = Inner
  BY <1>4 DEF Renew, RenewRaises, Inner
<1>5. ASSUME NEW h \in Holder, Leave(h) \/ Crash(h)
      PROVE  h \in Inner /\ Inner' = Inner \ {h}
  BY <1>5, InnerStep DEF Leave, Crash, Phases, Inner
<1>6. CASE Tick
  <2>1. Inner' = Inner
    BY <1>6 DEF Tick, Inner
  <2>2. ASSUME NEW h \in Inner PROVE ~free'
    <3>1. h \in Holder /\ phase'[h] = "inside"
      BY <1>6, <2>2 DEF Tick, Inner
    <3>2. Leased(h)'
      BY <3>1, LeaseStep
    <3> QED
      BY <3>1, <3>2 DEF Leased
  <2>3. free => free'
    BY <1>6 DEF Tick
  <2> QED
    BY <2>1, <2>2, <2>3
<1>7. CASE Quiet \/ UNCHANGED vars
  BY <1>7 DEF Quiet, vars, Inner
<1> QED
  BY <1>1, <1>2, <1>3, <1>4, <1>5, <1>6, <1>7 DEF Next

\* Under SafeTiming the lock keeps JobLease's promise to those who work under it: it
\* admits a task only where there is no key, and no key goes before its task does.
THEOREM LeaseKept == ASSUME SafeTiming PROVE Spec => LeasePromise
<1>1. Init => Lease!Init
  BY DEF Init, Lease!Init
<1>2. IInv /\ [Next]_vars => [Lease!Next]_Lease!leaseVars
  BY LeaseRefines
<1>3. IInv /\ [Next]_vars => IInv'
  BY IInvStep
<1> QED
  BY <1>1, <1>2, <1>3, IInvInit, PTL DEF Spec, LeasePromise, Lease!Spec

\* The promise is all that mutual exclusion needs: nobody enters while anybody is
\* inside, whatever the key is made of.
THEOREM PromiseExcludes == LeasePromise => []MutualExclusion
<1> DEFINE Kept == MutualExclusion /\ (key = Nobody => Inner = {})
<1>1. Lease!Init => Kept
  BY DEF Lease!Init, MutualExclusion, Inner
<1>2. Kept /\ [Lease!Next]_Lease!leaseVars => Kept'
  <2> SUFFICES ASSUME Kept, [Lease!Next]_Lease!leaseVars PROVE Kept'
    OBVIOUS
  <2>1. /\ \A g, h \in Inner : g = h
        /\ key = Nobody => Inner = {}
    BY DEF MutualExclusion, Inner
  <2>2. ASSUME NEW h \in Holder, Lease!Enter(h)
        PROVE  key = Nobody /\ key' # Nobody /\ Inner' = Inner \cup {h}
    BY <2>2 DEF Lease!Enter, Inner
  <2>3. ASSUME NEW h \in Holder, Lease!Leave(h)
        PROVE  h \in Inner /\ Inner' = Inner \ {h}
    BY <2>3 DEF Lease!Leave, Inner
  <2>4. ASSUME Lease!Spoil \/ Lease!Expire \/ UNCHANGED Lease!leaseVars
        PROVE  Inner' = Inner /\ (key' = Nobody => key = Nobody \/ Inner = {})
    BY <2>4 DEF Lease!Spoil, Lease!Expire, Lease!leaseVars, Inner
  <2>5. (\A g, h \in Inner' : g = h) /\ (key' = Nobody => Inner' = {})
    BY <2>1, <2>2, <2>3, <2>4 DEF Lease!Next
  <2> QED
    BY <2>5 DEF MutualExclusion, Inner
<1>3. Kept => MutualExclusion
  OBVIOUS
<1> QED
  BY <1>1, <1>2, <1>3, PTL DEF LeasePromise, Lease!Spec

------------------------------------------------------------------------------
(* What keeps a key alive and what does not, whatever the timing is: the parts *)
(* of OrphanExpires and LossIsNoticed that need no fairness.                    *)

\* A greenlet renews only while its block runs, and as long as it believes to own the
\* lock; the key has no owner that has not asked for it.
RenewerInv ==
    \A h \in Holder : /\ acquired[h] <=> renewing[h]
                      /\ renewing[h] => phase[h] = "inside"
                      /\ key = h => phase[h] # "new"

LEMMA RenewerStep == TypeOK /\ RenewerInv /\ [Next]_vars => RenewerInv'
<1> SUFFICES ASSUME TypeOK, RenewerInv, [Next]_vars PROVE RenewerInv'
  OBVIOUS
<1> USE LockAssumption DEF TypeOK, RenewerInv, Enter, StopRenewal
<1>1. ASSUME NEW h \in Holder, Acquire(h) PROVE RenewerInv'
  BY <1>1 DEF Acquire
<1>2. ASSUME NEW h \in Holder, Refuse(h) \/ AcquireRaises(h) PROVE RenewerInv'
  BY <1>2 DEF Refuse, AcquireRaises
<1>3. ASSUME NEW h \in Holder, Renew(h) \/ RenewRaises(h) PROVE RenewerInv'
  BY <1>3 DEF Renew, RenewRaises
<1>4. ASSUME NEW h \in Holder, Leave(h) \/ Crash(h) PROVE RenewerInv'
  BY <1>4 DEF Leave, Crash
<1>5. CASE Tick \/ Quiet \/ UNCHANGED vars
  BY <1>5 DEF Tick, Quiet, vars
<1> QED
  BY <1>1, <1>2, <1>3, <1>4, <1>5 DEF Next

\* Where a key exists, time can pass or a greenlet that holds it up can renew.
TimeGoesOn ==
    key # Nobody =>
        \/ \A h \in Holder : renewing[h] => waited[h] < Period
        \/ \E h \in Holder : renewing[h] /\ waited[h] >= Interval

\* The key of a task that has ended is gone, or as old as before and older with every
\* tick; and the task does not come back.
OrphanFades ==
    [][ \A h \in Holder : key = h /\ phase[h] # "inside" =>
            \/ key' # h
            \/ /\ phase'[h] = phase[h]
               /\ ttl' <= ttl /\ (Tick => ttl' < ttl) ]_vars

\* A task that has lost the key does not get it back, and the first renewal that
\* reaches Redis tells it.
LossIsFinal ==
    [][ \A h \in Holder : phase[h] = "inside" /\ key # h =>
            key' # h /\ (Renew(h) => ~acquired'[h]) ]_vars

\* Whatever the timing and however many tasks: the key of an ended task only gets
\* older, time is never held up for good, and a loss is final and noticed.
THEOREM KeysFade == Spec => []TimeGoesOn /\ OrphanFades /\ LossIsFinal
<1> USE LockAssumption
<1>1. TypeOK /\ KeyInv /\ RenewerInv /\ [Next]_vars => TypeOK' /\ KeyInv' /\ RenewerInv'
  BY TypeStep, KeyStep, RenewerStep
<1>2. Init => TypeOK /\ KeyInv /\ RenewerInv
  BY TypeInit DEF Init, KeyInv, RenewerInv
<1>3. TypeOK => TimeGoesOn
  BY PeriodNat DEF TypeOK, TimeGoesOn, Period
<1>4. ASSUME TypeOK, KeyInv, RenewerInv, [Next]_vars, NEW h \in Holder,
             key = h, phase[h] # "inside", key' = h
      PROVE  phase'[h] = phase[h] /\ ttl' <= ttl /\ (Tick => ttl' < ttl)
  <2>1. ~renewing[h] /\ ttl \in Nat /\ ttl > 0
    BY <1>4 DEF RenewerInv, KeyInv, TypeOK
  <2>2. CASE Tick
    BY <1>4, <2>1, <2>2 DEF Tick
  <2>3. CASE ~Tick
    <3>1. ASSUME NEW g \in Holder, Leave(g) \/ Crash(g) PROVE g # h /\ ttl' = ttl
      BY <1>4, <3>1 DEF Leave, Crash
    <3>2. ASSUME NEW g \in Holder, Acquire(g) \/ Refuse(g) \/ AcquireRaises(g)
          PROVE  phase'[h] = phase[h] /\ ttl' = ttl
      BY <1>4, <3>2 DEF RenewerInv, Acquire, Refuse, AcquireRaises, Enter, TypeOK
    <3>3. ASSUME NEW g \in Holder, Renew(g) \/ RenewRaises(g)
          PROVE  phase' = phase /\ ttl' = ttl
      BY <1>4, <2>1, <3>3 DEF RenewerInv, Renew, RenewRaises
    <3> QED
      BY <1>4, <2>1, <2>3, <3>1, <3>2, <3>3 DEF Next, vars, Leave, Crash, Quiet, Enter, TypeOK
  <2> QED
    BY <2>2, <2>3
<1>5. ASSUME TypeOK, KeyInv, RenewerInv, [Next]_vars, NEW h \in Holder,
             phase[h] = "inside", key # h
      PROVE  key' # h /\ (Renew(h) => ~acquired'[h])
  <2>1. h # Nobody
    OBVIOUS
  <2>2. Renew(h) => ~acquired'[h]
    BY <1>5 DEF Renew, TypeOK
  <2>3. key' # h
    BY <1>5, <2>1 DEF Next, vars, Acquire, Refuse, AcquireRaises, Renew, RenewRaises, Leave,
       Crash, Tick, Quiet
  <2> QED
    BY <2>2, <2>3
<1>6. TypeOK /\ KeyInv /\ RenewerInv /\ [Next]_vars =>
        [\A h \in Holder : key = h /\ phase[h] # "inside" =>
            \/ key' # h
            \/ /\ phase'[h] = phase[h]
               /\ ttl' <= ttl /\ (Tick => ttl' < ttl)]_vars
  BY <1>4
<1>7. TypeOK /\ KeyInv /\ RenewerInv /\ [Next]_vars =>
        [\A h \in Holder : phase[h] = "inside" /\ key # h =>
            key' # h /\ (Renew(h) => ~acquired'[h])]_vars
  BY <1>5
<1> QED
  BY <1>1, <1>2, <1>3, <1>6, <1>7, PTL DEF Spec, OrphanFades, LossIsFinal
==============================================================================
