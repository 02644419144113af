------------------------------- MODULE LaiMutex -------------------------------
(***************************************************************************)
(* lai_mutex_lock() and lai_mutex_unlock() of core/exec_impl.h, called by  *)
(* the AML operators Acquire and Release (core/exec.c), with one action    *)
(* per atomic access to sync->val or call to the host.                     *)
(*                                                                         *)
(* The host's laihost_sync_wait()/laihost_sync_wake() are external: they   *)
(* are taken to be a futex, as the value argument of sync_wait says.  A    *)
(* wait returns 0 at once when sync->val differs from the value passed,    *)
(* otherwise the thread sleeps until a wake or, when the deadline is       *)
(* finite, until it passes.                                                *)
(*                                                                         *)
(* Release is called by the holder only: correct AML pairs the two, and    *)
(* the code does not check it.                                             *)
(***************************************************************************)
EXTENDS Naturals, FiniteSets

CONSTANTS
    Threads,    \* the interpreter threads that share the Mutex node
    NoThread,
    Rounds      \* bound: how many times each contender calls Acquire

ASSUME RoundsAssumption == Rounds \in Nat
ASSUME ThreadsAssumption == IsFiniteSet(Threads)
ASSUME NobodyAssumption == NoThread \notin Threads

VARIABLES
    val,         \* sync->val
    pc,          \* where each thread is
    v,           \* the local variable v of lai_mutex_lock()
    rounds,      \* Acquire calls each thread has left
    contenders,  \* the threads that use the Mutex in this behaviour
    patient,     \* the threads whose Acquire has no deadline
    wakesAll     \* the host: does a wake rouse every sleeper, or at least one?

scenario == <<contenders, patient, wakesAll>>
vars == <<val, pc, v, rounds, contenders, patient, wakesAll>>

LOCKED    == 1
CONTENDED == 2
WordValues == {0, LOCKED, LOCKED + CONTENDED}

IsLocked(w)    == w % 2 = 1
IsContended(w) == w \div 2 = 1

Asleep == {t \in Threads : pc[t] = "asleep"}
-------------------------------------------------------------------------------
Init ==
    /\ val = 0
    /\ pc = [t \in Threads |-> "idle"]
    /\ v = [t \in Threads |-> 0]
    /\ contenders \in SUBSET Threads
    /\ rounds = [t \in Threads |-> IF t \in contenders THEN Rounds ELSE 0]
    /\ patient \in SUBSET contenders
    /\ wakesAll \in BOOLEAN

\* The operation moves thread t to place p and leaves the other threads alone.
Goto(t, p) == pc' = [pc EXCEPT ![t] = p]

\* Acquire: lai_mutex_lock() is entered and loads the word.
EnterLock(t) ==
    /\ pc[t] = "idle"
    /\ rounds[t] > 0
    /\ rounds' = [rounds EXCEPT ![t] = @ - 1]
    /\ v' = [v EXCEPT ![t] = val]
    /\ Goto(t, "try")
    /\ UNCHANGED <<val, scenario>>

\* A compare-and-swap that expects v[t]: it stores new, or reloads v[t].
CompareExchange(t, new, success) ==
    IF val = v[t]
      THEN val' = new /\ Goto(t, success) /\ UNCHANGED v
      ELSE v' = [v EXCEPT ![t] = val] /\ UNCHANGED <<val, pc>>

\* Mutation: the word is locked by a plain store instead of an exchange.
TryLockByStore(t) ==
    /\ pc[t] = "try"
    /\ ~IsLocked(v[t])
    /\ val' = LOCKED
    /\ Goto(t, "critical")
    /\ UNCHANGED <<v, rounds, scenario>>

\* The word looked free: try to lock it.
TryLock(t) ==
    /\ pc[t] = "try"
    /\ ~IsLocked(v[t])
    /\ CompareExchange(t, LOCKED, "critical")
    /\ UNCHANGED <<rounds, scenario>>

\* Mutation: the contended word loses its LOCKED bit.
TryContendAlone(t) ==
    /\ pc[t] = "try"
    /\ IsLocked(v[t])
    /\ CompareExchange(t, CONTENDED, "wait")
    /\ UNCHANGED <<rounds, scenario>>

\* The word looked locked: announce a waiter, unless one was announced.  A
\* successful exchange leaves v at LOCKED.
TryContend(t) ==
    /\ pc[t] = "try"
    /\ IsLocked(v[t])
    /\ IF IsContended(v[t])
         THEN Goto(t, "wait") /\ UNCHANGED <<val, v>>
         ELSE CompareExchange(t, LOCKED + CONTENDED, "wait")
    /\ UNCHANGED <<rounds, scenario>>

\* Mutation: the thread sleeps without comparing the word.
HostWaitUnchecked(t) ==
    /\ pc[t] = "wait"
    /\ Goto(t, "asleep")
    /\ UNCHANGED <<val, v, rounds, scenario>>

\* laihost_sync_wait() compares the word; whatever the reason it returns 0 for,
\* lai_mutex_lock() does not reload v.
HostWait(t) ==
    /\ pc[t] = "wait"
    /\ Goto(t, IF val = LOCKED + CONTENDED THEN "asleep" ELSE "try")
    /\ UNCHANGED <<val, v, rounds, scenario>>

\* Mutation: the thread that gives up clears the word.
TimeoutClearsWord(t) ==
    /\ pc[t] = "asleep"
    /\ t \notin patient
    /\ val' = 0
    /\ Goto(t, "idle")
    /\ UNCHANGED <<v, rounds, scenario>>

\* Mutation: a deadline that passed is taken for a successful Acquire.
TimeoutAcquires(t) ==
    /\ pc[t] = "asleep"
    /\ t \notin patient
    /\ Goto(t, "critical")
    /\ UNCHANGED <<val, v, rounds, scenario>>

\* laihost_sync_wait() reports that the deadline passed: Acquire evaluates to 1.
HostTimeout(t) ==
    /\ pc[t] = "asleep"
    /\ t \notin patient
    /\ Goto(t, "idle")
    /\ UNCHANGED <<val, v, rounds, scenario>>

\* Mutation: the CONTENDED bit of the old word is not looked at.
UnlockWithoutWake(t) ==
    /\ pc[t] = "critical"
    /\ val' = 0
    /\ Goto(t, "idle")
    /\ UNCHANGED <<v, rounds, scenario>>

\* Release: the word is exchanged for 0, then the old value is looked at.
Unlock(t) ==
    /\ pc[t] = "critical"
    /\ val' = 0
    /\ Goto(t, IF IsContended(val) THEN "wake" ELSE "idle")
    /\ UNCHANGED <<v, rounds, scenario>>

\* laihost_sync_wake() rouses sleepers; they return 0 from laihost_sync_wait().
HostWake(t) ==
    /\ pc[t] = "wake"
    /\ \E woken \in SUBSET Asleep :
         /\ IF wakesAll THEN woken = Asleep ELSE Asleep # {} => woken # {}
         /\ pc' = [u \in Threads |-> IF u = t THEN "idle"
                                     ELSE IF u \in woken THEN "try" ELSE pc[u]]
    /\ UNCHANGED <<val, v, rounds, scenario>>

\* Every contender has made its calls: the threads are done with the Mutex.
Finished ==
    /\ \A t \in Threads : pc[t] = "idle" /\ rounds[t] = 0
    /\ UNCHANGED vars

Step(t) ==
    \/ EnterLock(t) \/ TryLock(t) \/ TryContend(t) \/ HostWait(t)
    \/ Unlock(t) \/ HostWake(t)

Next == Finished \/ \E t \in Threads : Step(t) \/ HostTimeout(t)

\* Each thread is scheduled again and again, and a critical section ends; a
\* deadline need not pass.
Fairness == \A t \in Threads : WF_vars(Step(t))

Spec == Init /\ [][Next]_vars
FairSpec == Spec /\ Fairness
-------------------------------------------------------------------------------
Places == {"idle", "try", "wait", "asleep", "critical", "wake"}

\* The variables have their types.  The two LAI_ENSUREs on the bits of the word
\* hold because a word and a local copy of it only take the values WordValues.
TypeOK ==
    /\ val \in WordValues
    /\ pc \in [Threads -> Places]
    /\ v \in [Threads -> WordValues]
    /\ rounds \in [Threads -> Nat]
    /\ contenders \subseteq Threads
    /\ patient \subseteq Threads
    /\ wakesAll \in BOOLEAN

\* At most one thread is between a successful lai_mutex_lock() and the exchange
\* of lai_mutex_unlock(), whatever the interleaving of loads, exchanges, sleeps,
\* wake-ups and deadlines.
MutualExclusion ==
    \A t, u \in Threads : pc[t] = "critical" /\ pc[u] = "critical" => t = u

\* The word tells the truth about the holder: it is locked exactly while some
\* thread holds the Mutex, so the LAI_ENSURE(v & LAI_MUTEX_LOCKED) of
\* lai_mutex_unlock() never fires and a free Mutex can always be taken.
WordIsHonest == IsLocked(val) <=> \E t \in Threads : pc[t] = "critical"

\* A sleeper is never forgotten: as long as one sleeps, the word still carries
\* CONTENDED for the holder to see, or the holder that saw it has not called
\* laihost_sync_wake() yet.  A woken thread locks the word without CONTENDED,
\* so with three contenders this takes a host that wakes them all.
NoForgottenSleeper ==
    (wakesAll \/ Cardinality(contenders) <= 2) /\ Asleep # {} =>
        val = LOCKED + CONTENDED \/ \E t \in Threads : pc[t] = "wake"

\* The thread that holds the Mutex, as LaiLock sees it.
Holder ==
    IF \E t \in Threads : pc[t] = "critical"
      THEN CHOOSE t \in Threads : pc[t] = "critical"
      ELSE NoThread

Lock == INSTANCE LaiLock WITH holder <- Holder

\* The futex word implements the abstract lock.
ImplementsLock == Lock!LockSpec

\* With two contenders that set no deadline, an Acquire that has begun takes the
\* Mutex in the end.
TwoContendersAcquire ==
    Cardinality(contenders) <= 2 /\ patient = contenders =>
        \A t \in Threads : pc[t] = "try" ~> pc[t] = "critical"

\* The same for any number of contenders on a host that wakes every sleeper:
\* lai_mutex_lock() reads "Block this thread." for a thread that finds the Mutex
\* locked, so it sleeps until an unlock and then takes the Mutex.
EveryContenderAcquires ==
    wakesAll /\ patient = contenders =>
        \A t \in Threads : pc[t] = "try" ~> pc[t] = "critical"
===============================================================================
