---------------------------- MODULE LaiMutexProofs ----------------------------
(***************************************************************************)
(* The AML Mutex, for every set of threads and every host: the futex word  *)
(* is locked exactly while one thread holds the Mutex, and LaiMutex        *)
(* implements LaiLock.                                                     *)
(***************************************************************************)
EXTENDS LaiMutex, FiniteSetTheorems, TLAPS

\* Mutual exclusion is not inductive alone: that nobody holds a free word is
\* what lets TryLock in, and the types tell which words are locked.
IInv == TypeOK /\ WordIsHonest /\ MutualExclusion

\* The words of the code, and which of them are locked or contended.
LEMMA Words ==
    /\ WordValues = {0, 1, 3}
    /\ \A w \in WordValues : IsLocked(w) <=> w # 0
    /\ \A w \in WordValues : IsContended(w) <=> w = 3
  BY DEF WordValues, LOCKED, CONTENDED, IsLocked, IsContended

LEMMA InitInv == Init => IInv
<1> SUFFICES ASSUME Init PROVE IInv
  OBVIOUS
<1>1. TypeOK
  BY Words, RoundsAssumption DEF Init, TypeOK, Places
<1>2. WordIsHonest
  BY Words DEF Init, WordIsHonest
<1>3. MutualExclusion
  BY DEF Init, MutualExclusion
<1> QED BY <1>1, <1>2, <1>3 DEF IInv

\* A step that neither touches the word nor moves a thread into or out of the
\* critical section keeps both invariants.
LEMMA QuietStep ==
    ASSUME IInv, val' = val,
           \A t \in Threads : pc'[t] = "critical" <=> pc[t] = "critical"
    PROVE  WordIsHonest' /\ MutualExclusion'
  BY DEF IInv, WordIsHonest, MutualExclusion

LEMMA EnterLockInv == ASSUME IInv, NEW t \in Threads, EnterLock(t) PROVE IInv'
<1>1. TypeOK'
  BY Words DEF IInv, TypeOK, EnterLock, Goto, Places, scenario
<1>2. WordIsHonest' /\ MutualExclusion'
  BY QuietStep DEF IInv, TypeOK, EnterLock, Goto
<1> QED BY <1>1, <1>2 DEF IInv

LEMMA TryLockInv == ASSUME IInv, NEW t \in Threads, TryLock(t) PROVE IInv'
<1> USE DEF IInv
<1>1. v[t] = 0
  BY Words DEF TypeOK, TryLock
<1>2. TypeOK'
  BY Words DEF TypeOK, TryLock, CompareExchange, Goto, Places, scenario, LOCKED
<1>3. CASE val = v[t]
  <2>1. val' = LOCKED /\ pc' = [pc EXCEPT ![t] = "critical"]
    BY <1>3 DEF TryLock, CompareExchange, Goto
  <2>2. \A u \in Threads : pc[u] # "critical"
    BY <1>1, <1>3, Words DEF WordIsHonest, TypeOK
  <2>3. WordIsHonest'
    BY <2>1, Words DEF TypeOK, WordIsHonest, LOCKED
  <2>4. MutualExclusion'
    BY <2>1, <2>2 DEF TypeOK, MutualExclusion
  <2> QED BY <2>3, <2>4, <1>2
<1>4. CASE val # v[t]
  BY <1>2, <1>4, QuietStep DEF TryLock, CompareExchange
<1> QED BY <1>3, <1>4

LEMMA TryContendInv == ASSUME IInv, NEW t \in Threads, TryContend(t) PROVE IInv'
<1> USE DEF IInv
<1>1. TypeOK'
  BY Words DEF TypeOK, TryContend, CompareExchange, Goto, Places, scenario,
               LOCKED, CONTENDED
<1>2. IsLocked(val') <=> IsLocked(val)
  BY Words DEF TypeOK, TryContend, CompareExchange, LOCKED, CONTENDED
<1>3. \A u \in Threads : pc'[u] = "critical" <=> pc[u] = "critical"
  BY DEF TypeOK, TryContend, CompareExchange, Goto
<1> QED BY <1>1, <1>2, <1>3 DEF WordIsHonest, MutualExclusion

LEMMA HostStepInv ==
    ASSUME IInv, NEW t \in Threads,
           HostWait(t) \/ HostTimeout(t) \/ HostWake(t)
    PROVE  IInv'
<1> USE DEF IInv
<1>1. TypeOK'
  BY DEF TypeOK, HostWait, HostTimeout, HostWake, Goto, Places, scenario
<1>2. \A u \in Threads : pc'[u] = "critical" <=> pc[u] = "critical"
  BY DEF TypeOK, HostWait, HostTimeout, HostWake, Goto, Asleep
<1>3. val' = val
  BY DEF HostWait, HostTimeout, HostWake
<1> QED BY <1>1, <1>2, <1>3, QuietStep

LEMMA UnlockInv == ASSUME IInv, NEW t \in Threads, Unlock(t) PROVE IInv'
<1> USE DEF IInv
<1>1. TypeOK'
  BY Words DEF TypeOK, Unlock, Goto, Places, scenario
<1>2. \A u \in Threads : pc'[u] # "critical"
  BY DEF TypeOK, Unlock, Goto, MutualExclusion
<1>3. ~IsLocked(val')
  BY Words DEF Unlock
<1> QED BY <1>1, <1>2, <1>3 DEF WordIsHonest, MutualExclusion

LEMMA StepInv == IInv /\ [Next]_vars => IInv'
<1> SUFFICES ASSUME IInv, [Next]_vars PROVE IInv'
  OBVIOUS
<1>1. CASE UNCHANGED vars
  BY <1>1 DEF IInv, TypeOK, WordIsHonest, MutualExclusion, vars
<1>2. ASSUME NEW t \in Threads, Step(t) \/ HostTimeout(t) PROVE IInv'
  BY <1>2, EnterLockInv, TryLockInv, TryContendInv, HostStepInv, UnlockInv DEF Step
<1> QED BY <1>1, <1>2 DEF Next, Finished

\* Every reachable state satisfies the inductive invariant.
LEMMA Invariance == Spec => []IInv
  BY InitInv, StepInv, PTL DEF Spec

\* The words of the Mutex, the local copies and the places of the threads keep
\* their types, so the LAI_ENSUREs of lai_mutex_lock() on the bits never fire.
THEOREM TypeCorrect == Spec => []TypeOK
<1>1. IInv => TypeOK
  BY DEF IInv
<1> QED BY <1>1, Invariance, PTL

\* No two threads are between lai_mutex_lock() and lai_mutex_unlock().
THEOREM Exclusion == Spec => []MutualExclusion
<1>1. IInv => MutualExclusion
  BY DEF IInv
<1> QED BY <1>1, Invariance, PTL

\* The word is locked exactly while a thread holds the Mutex, so the LAI_ENSURE
\* of lai_mutex_unlock() never fires for a holder.
THEOREM Honesty == Spec => []WordIsHonest
<1>1. IInv => WordIsHonest
  BY DEF IInv
<1> QED BY <1>1, Invariance, PTL
-------------------------------------------------------------------------------
\* Under mutual exclusion the holder is the one thread in the critical section.
LEMMA HolderIs ==
    ASSUME MutualExclusion, NEW t \in Threads, pc[t] = "critical"
    PROVE  Holder = t
  BY DEF MutualExclusion, Holder

LEMMA HolderIsNext ==
    ASSUME MutualExclusion', NEW t \in Threads, pc'[t] = "critical"
    PROVE  Holder' = t
  BY DEF MutualExclusion, Holder

LEMMA QuietHolder ==
    ASSUME \A t \in Threads : pc'[t] = "critical" <=> pc[t] = "critical"
    PROVE  Holder' = Holder
  BY DEF Holder

LEMMA LockStep ==
    IInv /\ IInv' /\ [Next]_vars => [Lock!LockNext]_Holder
<1> SUFFICES ASSUME IInv, IInv', [Next]_vars PROVE [Lock!LockNext]_Holder
  OBVIOUS
<1> USE DEF IInv
<1>1. CASE UNCHANGED vars
  BY <1>1, QuietHolder DEF vars
<1>2. ASSUME NEW t \in Threads, TryLock(t), val = v[t] PROVE Lock!Take(t)
  <2>1. ~IsLocked(val) /\ pc' = [pc EXCEPT ![t] = "critical"]
    BY <1>2 DEF TryLock, CompareExchange, Goto
  <2>2. Holder = NoThread
    BY <2>1 DEF WordIsHonest, Holder
  <2>3. Holder' = t
    BY <2>1, HolderIsNext DEF TypeOK
  <2> QED BY <2>2, <2>3 DEF Lock!Take
<1>3. ASSUME NEW t \in Threads, Unlock(t) PROVE Lock!Drop(t)
  <2>1. Holder = t
    BY <1>3, HolderIs DEF Unlock
  <2>2. \A u \in Threads : pc'[u] # "critical"
    BY <1>3 DEF TypeOK, Unlock, Goto, MutualExclusion
  <2> QED BY <2>1, <2>2 DEF Lock!Drop, Holder
<1>4. ASSUME NEW t \in Threads,
             \/ EnterLock(t) \/ TryContend(t) \/ HostWait(t) \/ HostWake(t)
             \/ HostTimeout(t)
             \/ TryLock(t) /\ val # v[t]
      PROVE  Holder' = Holder
  <2>1. \A u \in Threads : pc'[u] = "critical" <=> pc[u] = "critical"
    BY <1>4 DEF TypeOK, EnterLock, TryContend, TryLock, CompareExchange,
                HostWait, HostWake, HostTimeout, Goto, Asleep
  <2> QED BY <2>1, QuietHolder
<1> QED BY <1>1, <1>2, <1>3, <1>4 DEF Next, Finished, Step, Lock!LockNext

\* lai_mutex_lock() and lai_mutex_unlock() implement the abstract lock: every
\* atomic step of theirs takes it, drops it or leaves it alone.
THEOREM Refinement == Spec => ImplementsLock
<1>1. Init => Lock!LockInit
  BY DEF Init, Lock!LockInit, Holder
<1> QED BY <1>1, LockStep, Invariance, PTL DEF Spec, ImplementsLock, Lock!LockSpec
-------------------------------------------------------------------------------
\* Only contenders ever leave the place where they began.
OnlyContenders == \A t \in Threads : t \notin contenders => pc[t] = "idle" /\ rounds[t] = 0

\* That a sleeper is not forgotten is inductive once it is known that there are no
\* other sleepers for a wake to pass over.
WakeInv == TypeOK /\ OnlyContenders /\ NoForgottenSleeper

\* A set of two threads does not contain three.
LEMMA AtMostTwo ==
    ASSUME NEW S \in SUBSET Threads, Cardinality(S) <= 2,
           NEW t \in S, NEW u \in S, NEW w \in S
    PROVE  t = u \/ t = w \/ u = w
<1> SUFFICES ASSUME t # u, t # w, u # w PROVE FALSE
  OBVIOUS
<1>1. IsFiniteSet(S) /\ Cardinality(S) \in Nat
  <2>1. IsFiniteSet(S)
    BY ThreadsAssumption, FS_Subset
  <2> QED BY <2>1, FS_CardinalityType
<1>2. IsFiniteSet({t}) /\ Cardinality({t}) = 1
  BY FS_Singleton
<1>3. IsFiniteSet({t} \cup {u}) /\ Cardinality({t} \cup {u}) = 2
  <2>1. IsFiniteSet({t} \cup {u}) /\ Cardinality({t} \cup {u}) = Cardinality({t}) + 1
    BY <1>2, FS_AddElement, Zenon
  <2> QED BY <1>2, <2>1
<1>4. Cardinality(({t} \cup {u}) \cup {w}) = 3
  <2>1. Cardinality(({t} \cup {u}) \cup {w}) = Cardinality({t} \cup {u}) + 1
    BY <1>3, FS_AddElement, Zenon
  <2> QED BY <1>3, <2>1
<1>5. ({t} \cup {u}) \cup {w} \in SUBSET S
  OBVIOUS
<1> QED BY <1>1, <1>4, <1>5, FS_Subset

LEMMA WakeInit == Init => WakeInv
<1> SUFFICES ASSUME Init PROVE WakeInv
  OBVIOUS
<1>1. TypeOK
  BY InitInv DEF IInv
<1>2. OnlyContenders
  BY DEF Init, OnlyContenders
<1>3. Asleep = {}
  BY DEF Init, Asleep
<1> QED BY <1>1, <1>2, <1>3 DEF WakeInv, NoForgottenSleeper

LEMMA ContendersStep == ASSUME TypeOK, OnlyContenders, [Next]_vars PROVE OnlyContenders'
<1>1. CASE UNCHANGED vars
  BY <1>1 DEF vars, OnlyContenders
<1>2. ASSUME NEW t \in Threads, HostWake(t) PROVE OnlyContenders'
  BY <1>2 DEF TypeOK, OnlyContenders, HostWake, Asleep, scenario
<1>3. ASSUME NEW t \in Threads,
             EnterLock(t) \/ TryLock(t) \/ TryContend(t) \/ HostWait(t) \/ Unlock(t) \/ HostTimeout(t)
      PROVE  OnlyContenders'
  <2>1. t \in contenders
    BY <1>3, RoundsAssumption DEF TypeOK, OnlyContenders, EnterLock, TryLock, TryContend, HostWait,
                                  Unlock, HostTimeout
  <2>2. \A u \in Threads : u # t => pc'[u] = pc[u] /\ rounds'[u] = rounds[u]
    BY <1>3 DEF TypeOK, EnterLock, TryLock, TryContend, CompareExchange, HostWait, Unlock,
                HostTimeout, Goto
  <2>3. contenders' = contenders
    BY <1>3 DEF EnterLock, TryLock, TryContend, HostWait, Unlock, HostTimeout, scenario
  <2> QED BY <2>1, <2>2, <2>3 DEF OnlyContenders
<1> QED BY <1>1, <1>2, <1>3 DEF Next, Finished, Step

\* A step that neither moves a thread to sleep nor from the place before the wake
\* may still change the word.
LEMMA SleeperKept ==
    ASSUME NoForgottenSleeper, UNCHANGED scenario, Asleep' \subseteq Asleep,
           \A t \in Threads : pc[t] = "wake" => pc'[t] = "wake",
           \/ val # LOCKED + CONTENDED \/ val' = LOCKED + CONTENDED
           \/ \E t \in Threads : pc'[t] = "wake"
    PROVE  NoForgottenSleeper'
  BY DEF NoForgottenSleeper, scenario

LEMMA WakeStep == IInv /\ WakeInv /\ [Next]_vars => WakeInv'
<1> SUFFICES ASSUME IInv, WakeInv, [Next]_vars PROVE NoForgottenSleeper'
  BY StepInv, ContendersStep DEF WakeInv, IInv
<1> USE DEF WakeInv
<1>1. CASE UNCHANGED vars
  BY <1>1 DEF vars, NoForgottenSleeper, Asleep
<1>2. ASSUME NEW t \in Threads, EnterLock(t) PROVE NoForgottenSleeper'
  BY <1>2, SleeperKept DEF TypeOK, EnterLock, Goto, Asleep
<1>3. ASSUME NEW t \in Threads, TryLock(t) PROVE NoForgottenSleeper'
  <2>1. val # LOCKED + CONTENDED \/ val' = LOCKED + CONTENDED
    BY <1>3, Words DEF TypeOK, TryLock, CompareExchange, LOCKED, CONTENDED
  <2> QED BY <1>3, <2>1, SleeperKept DEF TypeOK, TryLock, CompareExchange, Goto, Asleep
<1>4. ASSUME NEW t \in Threads, TryContend(t) PROVE NoForgottenSleeper'
  <2>1. val # LOCKED + CONTENDED \/ val' = LOCKED + CONTENDED
    BY <1>4, Words DEF TypeOK, TryContend, CompareExchange, LOCKED, CONTENDED
  <2> QED BY <1>4, <2>1, SleeperKept DEF TypeOK, TryContend, CompareExchange, Goto, Asleep
<1>5. ASSUME NEW t \in Threads, HostWait(t) PROVE NoForgottenSleeper'
  <2>1. CASE val = LOCKED + CONTENDED
    BY <1>5, <2>1 DEF HostWait, NoForgottenSleeper
  <2>2. CASE val # LOCKED + CONTENDED
    BY <1>5, <2>2, SleeperKept DEF TypeOK, HostWait, Goto, Asleep
  <2> QED BY <2>1, <2>2
<1>6. ASSUME NEW t \in Threads, HostTimeout(t) PROVE NoForgottenSleeper'
  BY <1>6, SleeperKept DEF TypeOK, HostTimeout, Goto, Asleep
<1>7. ASSUME NEW t \in Threads, Unlock(t) PROVE NoForgottenSleeper'
  \* Whoever sees CONTENDED goes on to wake; else there was a wake to come.
  <2>1. val # LOCKED + CONTENDED \/ pc'[t] = "wake"
    BY <1>7, Words DEF TypeOK, Unlock, Goto, LOCKED, CONTENDED
  <2> QED BY <1>7, <2>1, SleeperKept DEF TypeOK, Unlock, Goto, Asleep
<1>8. ASSUME NEW t \in Threads, HostWake(t) PROVE NoForgottenSleeper'
  <2>1. PICK woken \in SUBSET Asleep :
             /\ IF wakesAll THEN woken = Asleep ELSE Asleep # {} => woken # {}
             /\ pc' = [u \in Threads |-> IF u = t THEN "idle"
                                         ELSE IF u \in woken THEN "try" ELSE pc[u]]
    BY <1>8 DEF HostWake
  <2>2. pc[t] = "wake" /\ Asleep' = Asleep \ woken /\ UNCHANGED <<val, scenario>>
    BY <1>8, <2>1 DEF HostWake, Asleep
  <2>3. CASE wakesAll
    BY <2>1, <2>2, <2>3 DEF NoForgottenSleeper
  <2>4. CASE ~wakesAll /\ Cardinality(contenders) <= 2
    <3>1. ASSUME NEW u \in Asleep' PROVE FALSE
      \* The sleeper, the thread that was woken and the one that woke it are three.
      <4>1. PICK w \in woken : TRUE
        BY <2>1, <2>2, <2>4, <3>1
      <4>2. t \in contenders /\ u \in contenders /\ w \in contenders
        BY <2>2, <3>1, <4>1 DEF OnlyContenders, Asleep
      <4>3. t # u /\ t # w /\ u # w
        BY <2>2, <3>1, <4>1 DEF Asleep
      <4>4. contenders \in SUBSET Threads
        BY DEF TypeOK
      <4> QED BY <2>4, <4>2, <4>3, <4>4, AtMostTwo
    <3> QED BY <3>1 DEF NoForgottenSleeper
  <2>5. CASE ~wakesAll /\ ~(Cardinality(contenders) <= 2)
    BY <2>2, <2>5 DEF NoForgottenSleeper, scenario
  <2> QED BY <2>3, <2>4, <2>5
<1> QED BY <1>1, <1>2, <1>3, <1>4, <1>5, <1>6, <1>7, <1>8 DEF Next, Finished, Step

\* While a thread sleeps, the word carries CONTENDED or a wake is on its way: for
\* any number of threads on a host that wakes them all, and for two on any host.
THEOREM SleepersRemembered == Spec => []NoForgottenSleeper
<1>1. WakeInv => NoForgottenSleeper
  BY DEF WakeInv
<1> QED BY <1>1, WakeInit, WakeStep, Invariance, PTL DEF Spec
===============================================================================
