----------------------------- MODULE VlmLimiter -----------------------------
(***************************************************************************)
(* The limit on page-memory VLM calls in flight: one Redis counter whose    *)
(* key expires as a whole.  Every attempt to take a slot renews the key's   *)
(* life, a release takes one from the count, and nothing says whose slot    *)
(* it was.  The Redis client sends a command whose reply times out once     *)
(* more, so a release may run twice.  Time is discrete.                     *)
(***************************************************************************)
EXTENDS Integers, FiniteSets

CONSTANTS
    Callers,     \* greenlets of all workers that call a VLM
    Max,         \* PAGE_MEMORY_VLM_MAX_INFLIGHT
    TTL,         \* PAGE_MEMORY_VLM_LEASE_TTL_SECONDS
    Durations,   \* what the longest call and its release may take
    MaxFaults    \* bound: deaths and lost commands or replies

ASSUME LimiterAssumption ==
    /\ IsFiniteSet(Callers) /\ Max \in Nat \ {0} /\ TTL \in Nat \ {0}
    /\ Durations \subseteq Nat \ {0} /\ MaxFaults \in Nat

VARIABLES
    count,     \* the counter, 0 when there is no key
    life,      \* time to the key's expiry
    pc,        \* pc[c]: "idle", "waiting" for a slot, "calling", or "released":
               \*   its release has run, and may run again
    age,       \* age[c]: how long the call has taken
    limit,     \* the longest a call takes in this behaviour
    lost,      \* history: calls in flight when the key last expired
    twice,     \* history: second runs of a release that freed a slot since then
    faults     \* deaths and lost commands or replies so far

vars == <<count, life, pc, age, limit, lost, twice, faults>>

\* Calls in flight, or over with their release still to run.
Calling == {c \in Callers : pc[c] = "calling"}

\* The counter holds a slot that nobody will release.
Leaked == count > Cardinality(Calling)

Init ==
    /\ count = 0 /\ life = 0
    /\ pc = [c \in Callers |-> "idle"]
    /\ age = [c \in Callers |-> 0]
    /\ limit \in Durations
    /\ lost = 0 /\ twice = 0 /\ faults = 0

Go(c, p) == pc' = [pc EXCEPT ![c] = p]

Fault == faults < MaxFaults /\ faults' = faults + 1

------------------------------------------------------------------------------
\* acquire
Ask(c) ==
    /\ pc[c] = "idle" /\ Go(c, "waiting")
    /\ UNCHANGED <<count, life, age, limit, lost, twice, faults>>

\* Mutant of Take: one more than the limit.
TakeOver ==
    /\ count <= Max /\ count' = count + 1
    /\ life' = TTL

\* Mutant of Take: a slot taken does not renew the key.
TakeUnrenewed ==
    /\ count < Max /\ count' = count + 1
    /\ life' = IF count = 0 THEN TTL ELSE life

\* Mutant of Take: the key has no expiry.
TakeForGood ==
    /\ count < Max /\ count' = count + 1
    /\ UNCHANGED life

\* _ACQUIRE_SCRIPT, when there is a slot.
Take ==
    /\ count < Max /\ count' = count + 1
    /\ life' = TTL

Acquire(c) ==
    /\ pc[c] = "waiting" /\ Take /\ Go(c, "calling")
    /\ age' = [age EXCEPT ![c] = 0]
    /\ UNCHANGED <<limit, lost, twice, faults>>

\* _ACQUIRE_SCRIPT without a slot: it renews the key, and the caller sleeps.
Poll(c) ==
    /\ pc[c] = "waiting" /\ count >= Max
    /\ life' = TTL
    /\ UNCHANGED <<count, pc, age, limit, lost, twice, faults>>

\* The deadline passes, or Redis raises: UnavailableException.
Refuse(c) ==
    /\ pc[c] = "waiting" /\ Go(c, "idle")
    /\ UNCHANGED <<count, life, age, limit, lost, twice, faults>>

\* The script has run, and its reply is lost: UnavailableException all the same, or
\* the client sends the script once more.
ReplyLost(c) ==
    /\ pc[c] = "waiting" /\ Take /\ Fault
    /\ \E p \in {"idle", "waiting"} : Go(c, p)
    /\ UNCHANGED <<age, limit, lost, twice>>

\* Mutant of Give: the last caller's release removes two slots.
GiveTwice == IF count <= 2 THEN 0 ELSE count - 2

\* _RELEASE_SCRIPT: what is left of the count.
Give == IF count <= 1 THEN 0 ELSE count - 1

\* A run of _RELEASE_SCRIPT, which deletes the key with its last slot.
Release ==
    /\ count' = Give
    /\ life' = IF Give = 0 THEN 0 ELSE life

\* The call returns or raises, and finally releases the slot.
Return(c) ==
    /\ pc[c] = "calling" /\ Release /\ Go(c, "idle")
    /\ age' = [age EXCEPT ![c] = 0]
    /\ UNCHANGED <<limit, lost, twice, faults>>

\* The release has run, and its reply times out: the client sends it again.
Unanswered(c) ==
    /\ pc[c] = "calling" /\ Release /\ Fault /\ Go(c, "released")
    /\ age' = [age EXCEPT ![c] = 0]
    /\ UNCHANGED <<limit, lost, twice>>

\* The release runs a second time: the slot it frees is another caller's.
Resend(c) ==
    /\ pc[c] = "released" /\ Release /\ Go(c, "idle")
    /\ twice' = IF count > 0 THEN twice + 1 ELSE twice
    /\ UNCHANGED <<age, limit, lost, faults>>

\* The second one does not run: it raises and is swallowed, or the worker dies.
GiveUp(c) ==
    /\ pc[c] = "released" /\ Go(c, "idle")
    /\ UNCHANGED <<count, life, age, limit, lost, twice, faults>>

\* The release never runs: it raises and is swallowed, or the worker dies.
Leak(c) ==
    /\ pc[c] = "calling" /\ Fault /\ Go(c, "idle")
    /\ age' = [age EXCEPT ![c] = 0]
    /\ UNCHANGED <<count, life, limit, lost, twice>>

\* Time passes, and the key may expire; a call that has taken its time is over.
Tick ==
    /\ \A c \in Calling : age[c] < limit
    /\ life > 0 \/ Calling # {}
    /\ age' = [c \in Callers |-> IF c \in Calling THEN age[c] + 1 ELSE age[c]]
    /\ life' = IF life > 0 THEN life - 1 ELSE 0
    /\ IF life = 1
       THEN count' = 0 /\ lost' = Cardinality(Calling) /\ twice' = 0
       ELSE UNCHANGED <<count, lost, twice>>
    /\ UNCHANGED <<pc, limit, faults>>

------------------------------------------------------------------------------
CallerStep(c) ==
    \/ Ask(c) \/ Acquire(c) \/ Poll(c) \/ Refuse(c) \/ ReplyLost(c)
    \/ Return(c) \/ Unanswered(c) \/ Resend(c) \/ GiveUp(c) \/ Leak(c)

Next == Tick \/ \E c \in Callers : CallerStep(c)

Spec == Init /\ [][Next]_vars

\* Time does not stop, and calls return.
FairSpec == Spec /\ WF_vars(Tick) /\ \A c \in Callers : WF_vars(Return(c))

------------------------------------------------------------------------------
\* The types of the counter and of the callers.
TypeOK ==
    /\ count \in 0 .. Max /\ life \in 0 .. TTL
    /\ pc \in [Callers -> {"idle", "waiting", "calling", "released"}]
    /\ age \in [Callers -> Nat]
    /\ limit \in Durations
    /\ lost \in Nat /\ twice \in Nat /\ faults \in 0 .. MaxFaults

\* The page-memory VLM limit, where the longest call is shorter than the key's life,
\* is passed by no more than the releases that have run twice, whoever dies and
\* whatever acquire or reply is lost: no key expires under a caller, and only a
\* second run of a release frees the slot of another one.
LimitHolds == limit < TTL => Cardinality(Calling) <= Max + twice

\* Where calls may outlast the key, the counter misses no more of them than were in
\* flight when it last expired and were freed by second runs of a release since:
\* the late releases of the former, which take slots of other callers from it, add
\* nothing to that.
ExcessIsLost == Cardinality(Calling) <= count + lost + twice

\* Slots of dead callers come back with the key once nobody asks for one any more.
QuietRepairs ==
    <>[](\A c \in Callers : pc[c] # "waiting") => <>[]~Leaked

\* The safety TTL of the in-flight leases: a slot whose owner is gone comes back.
LeaseExpires == Leaked ~> ~Leaked
==============================================================================
