-------------------------- MODULE VlmLimiter_proofs --------------------------
(***************************************************************************)
(* The limit on VLM calls for any number of callers, limit, key's life and  *)
(* duration of calls.                                                       *)
(*                                                                          *)
(* The argument: a caller in flight has renewed the key when it took its    *)
(* slot, so the key, unless it was deleted, has at least the TTL less the   *)
(* caller's age to live (InTime).  A call that is shorter than the TTL ends *)
(* before that, the key never expires under it, and lost stays 0.  What the *)
(* counter then misses are the slots that second runs of a release freed.   *)
(***************************************************************************)
EXTENDS VlmLimiter, FiniteSetTheorems, TLAPS

\* Where calls are short, the key outlives every one of them.
InTime ==
    limit < TTL =>
        /\ lost = 0
        /\ \A c \in Calling : age[c] <= limit /\ (life > 0 => life >= TTL - age[c])

IInv == TypeOK /\ ExcessIsLost /\ InTime

------------------------------------------------------------------------------
LEMMA TypeInit == Init => TypeOK
BY LimiterAssumption DEF Init, TypeOK

LEMMA CallingFinite == IsFiniteSet(Calling) /\ Cardinality(Calling) \in Nat
<1>1. Calling \subseteq Callers
  BY DEF Calling
<1> QED
  BY <1>1, LimiterAssumption, FS_Subset, FS_CardinalityType

\* One caller goes: the set of callers in flight gains or loses it, or neither.
LEMMA CallingStep ==
    ASSUME TypeOK, NEW c \in Callers, NEW p, Go(c, p)
    PROVE  /\ p = "calling" => Calling' = Calling \cup {c}
           /\ p # "calling" => Calling' = Calling \ {c}
BY DEF TypeOK, Go, Calling

LEMMA Joined ==
    ASSUME TypeOK, NEW c \in Callers, pc[c] # "calling", Go(c, "calling")
    PROVE  /\ Calling' = Calling \cup {c}
           /\ Cardinality(Calling') = Cardinality(Calling) + 1
<1>1. Calling' = Calling \cup {c} /\ c \notin Calling
  BY CallingStep DEF Calling
<1> QED
  BY <1>1, CallingFinite, FS_AddElement

LEMMA Left ==
    ASSUME TypeOK, NEW c \in Callers, pc[c] = "calling",
           NEW p, p # "calling", Go(c, p)
    PROVE  /\ Calling' = Calling \ {c} /\ c \in Calling
           /\ Cardinality(Calling') = Cardinality(Calling) - 1
<1>1. Calling' = Calling \ {c} /\ c \in Calling
  BY CallingStep DEF Calling
<1> QED
  BY <1>1, CallingFinite, FS_RemoveElement

\* A caller that is not in flight, before or after, leaves the set as it is.
LEMMA Stayed ==
    ASSUME TypeOK, NEW c \in Callers, pc[c] # "calling", NEW p, p # "calling", Go(c, p)
    PROVE  Calling' = Calling
BY CallingStep DEF Calling

------------------------------------------------------------------------------
LEMMA TypeStep == TypeOK /\ [Next]_vars => TypeOK'
<1> SUFFICES ASSUME TypeOK, [Next]_vars PROVE TypeOK'
  OBVIOUS
<1> USE LimiterAssumption
<1>1. ASSUME NEW c \in Callers, Ask(c) PROVE TypeOK'
  BY <1>1 DEF TypeOK, Ask, Go
<1>2. ASSUME NEW c \in Callers, Acquire(c) PROVE TypeOK'
  BY <1>2 DEF TypeOK, Acquire, Take, Go
<1>3. ASSUME NEW c \in Callers, Poll(c) PROVE TypeOK'
  BY <1>3 DEF TypeOK, Poll
<1>4. ASSUME NEW c \in Callers, Refuse(c) PROVE TypeOK'
  BY <1>4 DEF TypeOK, Refuse, Go
<1>5. ASSUME NEW c \in Callers, ReplyLost(c) PROVE TypeOK'
  BY <1>5 DEF TypeOK, ReplyLost, Take, Fault, Go
<1>6. ASSUME NEW c \in Callers, Return(c) PROVE TypeOK'
  BY <1>6 DEF TypeOK, Return, Release, Give, Go
<1>a. ASSUME NEW c \in Callers, Unanswered(c) PROVE TypeOK'
  BY <1>a DEF TypeOK, Unanswered, Release, Give, Fault, Go
<1>b. ASSUME NEW c \in Callers, Resend(c) PROVE TypeOK'
  BY <1>b DEF TypeOK, Resend, Release, Give, Go
<1>c. ASSUME NEW c \in Callers, GiveUp(c) PROVE TypeOK'
  BY <1>c DEF TypeOK, GiveUp, Go
<1>7. ASSUME NEW c \in Callers, Leak(c) PROVE TypeOK'
  BY <1>7 DEF TypeOK, Leak, Fault, Go
<1>8. CASE Tick
  <2>1. age' \in [Callers -> Nat]
    BY <1>8 DEF TypeOK, Tick
  <2>2. count' \in 0 .. Max /\ life' \in 0 .. TTL /\ lost' \in Nat /\ twice' \in Nat
    BY <1>8, CallingFinite DEF TypeOK, Tick
  <2> QED
    BY <1>8, <2>1, <2>2 DEF TypeOK, Tick
<1>9. CASE UNCHANGED vars
  BY <1>9 DEF TypeOK, vars
<1> QED
  BY <1>1, <1>2, <1>3, <1>4, <1>5, <1>6, <1>a, <1>b, <1>c, <1>7, <1>8, <1>9
     DEF Next, CallerStep

\* The counter stays within the limit and every caller in its states, for any
\* number of callers and any faults.
THEOREM LimiterTypeCorrect == Spec => []TypeOK
<1> QED
  BY TypeInit, TypeStep, PTL DEF Spec

------------------------------------------------------------------------------
LEMMA ExcessInit == Init => ExcessIsLost
<1> SUFFICES ASSUME Init PROVE ExcessIsLost
  OBVIOUS
<1>1. Calling = {}
  BY DEF Init, Calling
<1> QED
  BY <1>1, FS_EmptySet DEF Init, ExcessIsLost

LEMMA ExcessStep == TypeOK /\ ExcessIsLost /\ [Next]_vars => ExcessIsLost'
<1> SUFFICES ASSUME TypeOK, ExcessIsLost, [Next]_vars PROVE ExcessIsLost'
  OBVIOUS
<1>0. count \in Nat /\ lost \in Nat /\ twice \in Nat /\ Cardinality(Calling) \in Nat
  BY CallingFinite DEF TypeOK
<1>1. ASSUME NEW c \in Callers, Ask(c) PROVE ExcessIsLost'
  <2>1. Calling' = Calling
    BY <1>1, Stayed DEF Ask
  <2> QED
    BY <1>1, <2>1 DEF Ask, ExcessIsLost
<1>2. ASSUME NEW c \in Callers, Acquire(c) PROVE ExcessIsLost'
  <2>1. Cardinality(Calling') = Cardinality(Calling) + 1
    BY <1>2, Joined DEF Acquire
  <2> QED
    BY <1>0, <1>2, <2>1 DEF Acquire, Take, ExcessIsLost
<1>3. ASSUME NEW c \in Callers, Poll(c) PROVE ExcessIsLost'
  BY <1>3 DEF Poll, ExcessIsLost, Calling
<1>4. ASSUME NEW c \in Callers, Refuse(c) PROVE ExcessIsLost'
  <2>1. Calling' = Calling
    BY <1>4, Stayed DEF Refuse
  <2> QED
    BY <1>4, <2>1 DEF Refuse, ExcessIsLost
<1>5. ASSUME NEW c \in Callers, ReplyLost(c) PROVE ExcessIsLost'
  <2>1. Calling' = Calling
    BY <1>5, Stayed DEF ReplyLost
  <2> QED
    BY <1>0, <1>5, <2>1 DEF ReplyLost, Take, ExcessIsLost
<1>6. ASSUME NEW c \in Callers, Return(c) PROVE ExcessIsLost'
  <2>1. Cardinality(Calling') = Cardinality(Calling) - 1
    BY <1>6, Left DEF Return
  <2> QED
    BY <1>0, <1>6, <2>1 DEF Return, Release, Give, ExcessIsLost
<1>a. ASSUME NEW c \in Callers, Unanswered(c) PROVE ExcessIsLost'
  <2>1. Cardinality(Calling') = Cardinality(Calling) - 1
    BY <1>a, Left DEF Unanswered
  <2> QED
    BY <1>0, <1>a, <2>1 DEF Unanswered, Release, Give, ExcessIsLost
<1>b. ASSUME NEW c \in Callers, Resend(c) PROVE ExcessIsLost'
  <2>1. Calling' = Calling
    BY <1>b, Stayed DEF Resend
  <2> QED
    BY <1>0, <1>b, <2>1 DEF Resend, Release, Give, ExcessIsLost
<1>c. ASSUME NEW c \in Callers, GiveUp(c) PROVE ExcessIsLost'
  <2>1. Calling' = Calling
    BY <1>c, Stayed DEF GiveUp
  <2> QED
    BY <1>c, <2>1 DEF GiveUp, ExcessIsLost
<1>7. ASSUME NEW c \in Callers, Leak(c) PROVE ExcessIsLost'
  <2>1. Cardinality(Calling') = Cardinality(Calling) - 1
    BY <1>7, Left DEF Leak
  <2> QED
    BY <1>0, <1>7, <2>1 DEF Leak, ExcessIsLost
<1>8. CASE Tick
  <2>1. Calling' = Calling
    BY <1>8 DEF Tick, Calling
  <2> QED
    BY <1>0, <1>8, <2>1 DEF Tick, ExcessIsLost
<1>9. CASE UNCHANGED vars
  BY <1>9 DEF ExcessIsLost, Calling, vars
<1> QED
  BY <1>1, <1>2, <1>3, <1>4, <1>5, <1>6, <1>a, <1>b, <1>c, <1>7, <1>8, <1>9
     DEF Next, CallerStep

\* However long calls take, the counter misses no more calls in flight than the last
\* expiry of its key has dropped and second runs of a release have freed since.
THEOREM ExcessCorrect == Spec => []ExcessIsLost
<1> QED
  BY TypeInit, TypeStep, ExcessInit, ExcessStep, PTL DEF Spec

------------------------------------------------------------------------------
LEMMA InTimeInit == Init => InTime
BY DEF Init, InTime, Calling

LEMMA InTimeStep == TypeOK /\ InTime /\ [Next]_vars => InTime'
<1> SUFFICES ASSUME TypeOK, InTime, [Next]_vars, limit' < TTL
             PROVE  /\ lost' = 0
                    /\ \A g \in Calling' : /\ age'[g] <= limit'
                                           /\ life' > 0 => life' >= TTL - age'[g]
  BY DEF InTime
<1> USE LimiterAssumption
<1>0. limit' = limit
  BY DEF Next, CallerStep, vars, Ask, Acquire, Poll, Refuse, ReplyLost, Return,
         Unanswered, Resend, GiveUp, Leak, Tick
<1>a. limit \in Nat /\ limit < TTL /\ lost = 0 /\ life \in 0 .. TTL
  BY <1>0 DEF InTime, TypeOK
<1>b. \A g \in Calling : /\ age[g] \in Nat /\ age[g] <= limit
                         /\ life > 0 => life >= TTL - age[g]
  BY <1>a DEF InTime, TypeOK, Calling
<1>1. ASSUME NEW c \in Callers, Ask(c) \/ Poll(c) \/ Refuse(c) \/ ReplyLost(c)
      PROVE  /\ Calling' = Calling /\ lost' = 0 /\ age' = age
             /\ life' = life \/ life' = TTL
  <2>1. Calling' = Calling
    BY <1>1, Stayed DEF Ask, Poll, Refuse, ReplyLost, Calling
  <2> QED
    BY <1>1, <2>1, <1>a DEF Ask, Poll, Refuse, ReplyLost, Take
<1>2. ASSUME NEW c \in Callers, Acquire(c)
      PROVE  /\ Calling' = Calling \cup {c} /\ lost' = 0 /\ life' = TTL
             /\ age' = [age EXCEPT ![c] = 0]
  <2>1. Calling' = Calling \cup {c}
    BY <1>2, Joined DEF Acquire
  <2> QED
    BY <1>2, <2>1, <1>a DEF Acquire, Take
<1>3. ASSUME NEW c \in Callers, Return(c) \/ Unanswered(c) \/ Leak(c)
      PROVE  /\ Calling' = Calling \ {c} /\ lost' = 0
             /\ age' = [age EXCEPT ![c] = 0]
             /\ life' = life \/ life' = 0
  <2>1. Calling' = Calling \ {c}
    BY <1>3, Left DEF Return, Unanswered, Leak
  <2> QED
    BY <1>3, <2>1, <1>a DEF Return, Unanswered, Leak, Release
<1>4. ASSUME NEW c \in Callers, Resend(c) \/ GiveUp(c)
      PROVE  /\ Calling' = Calling /\ lost' = 0 /\ age' = age
             /\ life' = life \/ life' = 0
  <2>1. Calling' = Calling
    BY <1>4, Stayed DEF Resend, GiveUp
  <2> QED
    BY <1>4, <2>1, <1>a DEF Resend, GiveUp, Release
<1>5. CASE \E c \in Callers : \/ Ask(c) \/ Poll(c) \/ Refuse(c) \/ ReplyLost(c)
                              \/ Resend(c) \/ GiveUp(c)
  BY <1>5, <1>1, <1>4, <1>0, <1>a, <1>b
<1>6. CASE \E c \in Callers : Acquire(c)
  <2>1. PICK c \in Callers : Acquire(c)
    BY <1>6
  <2>2. ASSUME NEW g \in Calling'
        PROVE  age'[g] <= limit' /\ life' >= TTL - age'[g]
    BY <2>1, <1>2, <1>0, <1>a, <1>b DEF TypeOK, Calling
  <2> QED
    BY <2>1, <2>2, <1>2
<1>7. CASE \E c \in Callers : Return(c) \/ Unanswered(c) \/ Leak(c)
  <2>1. PICK c \in Callers : Return(c) \/ Unanswered(c) \/ Leak(c)
    BY <1>7
  <2>2. ASSUME NEW g \in Calling'
        PROVE  age'[g] <= limit' /\ (life' > 0 => life' >= TTL - age'[g])
    BY <2>1, <1>3, <1>0, <1>a, <1>b DEF TypeOK, Calling
  <2> QED
    BY <2>1, <2>2, <1>3
<1>8. CASE Tick
  <2>1. Calling' = Calling
    BY <1>8 DEF Tick, Calling
  <2>2. ASSUME NEW g \in Calling
        PROVE  /\ life > 0 => life > 1 /\ life' = life - 1
               /\ age'[g] = age[g] + 1 /\ age'[g] <= limit
               /\ life = 0 => life' = 0
    BY <1>8, <2>2, <1>a, <1>b DEF Tick, TypeOK, Calling
  <2>3. lost' = 0
    <3>1. CASE Calling = {}
      BY <3>1, <1>8, <1>a, FS_EmptySet DEF Tick
    <3>2. CASE Calling # {}
      BY <3>2, <2>2, <1>8, <1>a DEF Tick
    <3> QED
      BY <3>1, <3>2
  <2> QED
    BY <2>1, <2>2, <2>3, <1>0, <1>a, <1>b
<1>9. CASE UNCHANGED vars
  BY <1>9, <1>0, <1>a, <1>b DEF vars, Calling
<1> QED
  BY <1>5, <1>6, <1>7, <1>8, <1>9 DEF Next, CallerStep

LEMMA LimitFromInv == IInv => LimitHolds
BY CallingFinite, LimiterAssumption DEF IInv, TypeOK, ExcessIsLost, InTime, LimitHolds

\* Where every call is shorter than the key's life, no more of them than the limit and
\* the releases that have run twice are in flight, whoever dies and whatever acquire or
\* reply is lost: without a re-sent release the limit holds.
THEOREM LimitCorrect == Spec => []LimitHolds
<1>1. Init => IInv
  BY TypeInit, ExcessInit, InTimeInit DEF IInv
<1>2. IInv /\ [Next]_vars => IInv'
  BY TypeStep, ExcessStep, InTimeStep DEF IInv
<1> QED
  BY <1>1, <1>2, LimitFromInv, PTL DEF Spec

------------------------------------------------------------------------------
\* The counter holds no more than the calls in flight and a slot for every fault.
ExcessIsFault == count <= Cardinality(Calling) + faults

\* The counter has a key, and a key a counter.
KeyCounts == count > 0 <=> life > 0

\* Callers with a slot, or with a release that may run again.
Busy == {c \in Callers : pc[c] \in {"calling", "released"}}

NobodyAsks == \A c \in Callers : pc[c] # "waiting"

\* Where nobody asks for a slot, nothing is added; and unless someone begins to, the
\* key's life, the calls in flight or the releases to be sent again get fewer, or
\* there is no key.
Fades ==
    NobodyAsks =>
        /\ count' <= count /\ life' <= life
        /\ Calling' \subseteq Calling /\ Busy' \subseteq Busy
        /\ NobodyAsks' => \/ life = 0 \/ life' < life
                          \/ Calling' # Calling \/ Busy' # Busy

\* A leaked slot is gone with its key, whose life runs out.
LeakLives == Leaked => life > 0
LeakFades == [][Fades]_vars

LEMMA FaultInit == Init => ExcessIsFault /\ KeyCounts
<1> SUFFICES ASSUME Init PROVE ExcessIsFault /\ KeyCounts
  OBVIOUS
<1>1. Cardinality(Calling) \in Nat
  BY CallingFinite
<1> QED
  BY <1>1 DEF Init, ExcessIsFault, KeyCounts

LEMMA FaultStep == TypeOK /\ ExcessIsFault /\ KeyCounts /\ [Next]_vars => ExcessIsFault' /\ KeyCounts'
<1> SUFFICES ASSUME TypeOK, ExcessIsFault, KeyCounts, [Next]_vars
             PROVE  ExcessIsFault' /\ KeyCounts'
  OBVIOUS
<1> USE LimiterAssumption
<1> DEFINE n == Cardinality(Calling)
<1>0. count \in Nat /\ life \in Nat /\ faults \in Nat /\ n \in Nat
  BY CallingFinite DEF TypeOK
<1>1. ASSUME NEW c \in Callers, Ask(c) \/ Refuse(c) PROVE ExcessIsFault' /\ KeyCounts'
  <2>1. Calling' = Calling
    BY <1>1, Stayed DEF Ask, Refuse
  <2> QED
    BY <1>1, <2>1 DEF Ask, Refuse, ExcessIsFault, KeyCounts
<1>2. ASSUME NEW c \in Callers, Acquire(c) PROVE ExcessIsFault' /\ KeyCounts'
  <2>1. Cardinality(Calling') = n + 1
    BY <1>2, Joined DEF Acquire
  <2> QED
    BY <1>0, <1>2, <2>1 DEF Acquire, Take, ExcessIsFault, KeyCounts
<1>3. ASSUME NEW c \in Callers, Poll(c) PROVE ExcessIsFault' /\ KeyCounts'
  BY <1>0, <1>3 DEF Poll, ExcessIsFault, KeyCounts, Calling
<1>4. ASSUME NEW c \in Callers, ReplyLost(c) PROVE ExcessIsFault' /\ KeyCounts'
  <2>1. Calling' = Calling
    BY <1>4, Stayed DEF ReplyLost
  <2> QED
    BY <1>0, <1>4, <2>1 DEF ReplyLost, Take, Fault, ExcessIsFault, KeyCounts
<1>5. ASSUME NEW c \in Callers, Return(c) \/ Unanswered(c)
      PROVE  ExcessIsFault' /\ KeyCounts'
  <2>1. Cardinality(Calling') = n - 1 /\ Cardinality(Calling') \in Nat
    <3>1. Calling' = Calling \ {c} /\ Cardinality(Calling') = n - 1
      BY <1>5, Left DEF Return, Unanswered
    <3> QED
      BY <3>1, CallingFinite, FS_Subset, FS_CardinalityType
  <2>2. faults' >= faults
    BY <1>0, <1>5 DEF Return, Unanswered, Fault
  <2>3. faults' \in Nat
    BY <1>0, <1>5 DEF Return, Unanswered, Fault
  <2>4. Release
    BY <1>5 DEF Return, Unanswered
  <2> QED
    BY <1>0, <2>1, <2>2, <2>3, <2>4 DEF Release, Give, ExcessIsFault, KeyCounts
<1>a. ASSUME NEW c \in Callers, Resend(c) \/ GiveUp(c)
      PROVE  ExcessIsFault' /\ KeyCounts'
  <2>1. Calling' = Calling /\ faults' = faults
    BY <1>a, Stayed DEF Resend, GiveUp
  <2>2. Release \/ UNCHANGED <<count, life>>
    BY <1>a DEF Resend, GiveUp
  <2> QED
    BY <1>0, <2>1, <2>2 DEF Release, Give, ExcessIsFault, KeyCounts
<1>6. ASSUME NEW c \in Callers, Leak(c) PROVE ExcessIsFault' /\ KeyCounts'
  <2>1. Cardinality(Calling') = n - 1
    BY <1>6, Left DEF Leak
  <2> QED
    BY <1>0, <1>6, <2>1 DEF Leak, Fault, ExcessIsFault, KeyCounts
<1>7. CASE Tick
  <2>1. Calling' = Calling
    BY <1>7 DEF Tick, Calling
  <2> QED
    BY <1>0, <1>7, <2>1 DEF Tick, ExcessIsFault, KeyCounts
<1>8. CASE UNCHANGED vars
  BY <1>8 DEF ExcessIsFault, KeyCounts, Calling, vars
<1> QED
  BY <1>1, <1>2, <1>3, <1>4, <1>5, <1>a, <1>6, <1>7, <1>8 DEF Next, CallerStep

\* A dead caller or a lost reply withholds one slot and no more, however often the key
\* expires and whoever releases whose slot: without faults every slot can be taken.
THEOREM NoSlotWithheld == Spec => []ExcessIsFault
<1> QED
  BY TypeInit, TypeStep, FaultInit, FaultStep, PTL DEF Spec

LEMMA FadesStep == ASSUME TypeOK, [Next]_vars PROVE [Fades]_vars
<1> SUFFICES ASSUME NobodyAsks, ~UNCHANGED vars
             PROVE  /\ count' <= count /\ life' <= life
                    /\ Calling' \subseteq Calling /\ Busy' \subseteq Busy
                    /\ NobodyAsks' => \/ life = 0 \/ life' < life
                                      \/ Calling' # Calling \/ Busy' # Busy
  BY DEF Fades
<1>0. count \in Nat /\ life \in Nat
  BY DEF TypeOK
<1>a. Release => count' <= count /\ life' <= life
  BY <1>0 DEF Release, Give
<1>1. ASSUME NEW c \in Callers, Ask(c)
      PROVE  /\ count' = count /\ life' = life /\ Calling' = Calling /\ Busy' = Busy
             /\ ~NobodyAsks'
  <2>1. Calling' = Calling /\ Busy' = Busy
    BY <1>1 DEF Ask, Go, TypeOK, Calling, Busy
  <2>2. pc'[c] = "waiting"
    BY <1>1 DEF Ask, Go, TypeOK
  <2> QED
    BY <1>1, <2>1, <2>2 DEF Ask, NobodyAsks
<1>2. ASSUME NEW c \in Callers, Return(c) \/ Unanswered(c) \/ Leak(c)
      PROVE  /\ count' <= count /\ life' <= life
             /\ Calling' = Calling \ {c} /\ c \in Calling /\ Busy' \subseteq Busy
  <2>1. Calling' = Calling \ {c} /\ c \in Calling
    BY <1>2, Left DEF Return, Unanswered, Leak
  <2>2. Busy' \subseteq Busy
    BY <1>2 DEF Return, Unanswered, Leak, Go, TypeOK, Busy
  <2> QED
    BY <1>0, <1>a, <1>2, <2>1, <2>2 DEF Return, Unanswered, Leak
<1>3. ASSUME NEW c \in Callers, Resend(c) \/ GiveUp(c)
      PROVE  /\ count' <= count /\ life' <= life
             /\ Calling' = Calling /\ Busy' \subseteq Busy /\ Busy' # Busy
  <2>1. Calling' = Calling
    BY <1>3, Stayed DEF Resend, GiveUp
  <2>2. Busy' = Busy \ {c} /\ c \in Busy
    BY <1>3 DEF Resend, GiveUp, Go, TypeOK, Busy
  <2> QED
    BY <1>0, <1>a, <1>3, <2>1, <2>2 DEF Resend, GiveUp
<1>4. CASE Tick
  <2>1. Calling' = Calling /\ Busy' = Busy
    BY <1>4 DEF Tick, Calling, Busy
  <2>2. count' <= count /\ life' <= life /\ (life = 0 \/ life' < life)
    BY <1>0, <1>4 DEF Tick
  <2> QED
    BY <2>1, <2>2
<1>5. CASE \E c \in Callers : CallerStep(c)
  <2>1. PICK c \in Callers : \/ Ask(c) \/ Return(c) \/ Unanswered(c) \/ Leak(c)
                             \/ Resend(c) \/ GiveUp(c)
    BY <1>5 DEF CallerStep, NobodyAsks, Acquire, Poll, Refuse, ReplyLost
  <2> QED
    BY <1>0, <1>1, <1>2, <1>3, <2>1
<1> QED
  BY <1>4, <1>5 DEF Next

\* A leaked slot has a key that is running out: nothing but a request for a slot
\* prolongs it, and each step without one brings its end nearer or ends a call or a
\* release.  Only who keeps asking keeps dead callers' slots alive.
THEOREM LeakRunsOut == Spec => []LeakLives /\ LeakFades
<1>1. TypeOK /\ KeyCounts => LeakLives
  BY CallingFinite DEF TypeOK, KeyCounts, LeakLives, Leaked
<1>2. TypeOK /\ [Next]_vars => [Fades]_vars
  BY FadesStep
<1> QED
  BY <1>1, <1>2, TypeInit, TypeStep, FaultInit, FaultStep, PTL DEF Spec, LeakFades
==============================================================================
