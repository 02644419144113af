------------------------------- MODULE LaiEvent -------------------------------
(***************************************************************************)
(* lai_event_wait(), lai_event_signal() and lai_event_reset() of           *)
(* core/exec_impl.h, called by the AML operators Wait, Signal and Reset,   *)
(* with one action per atomic access to sync->val or call to the host.     *)
(*                                                                         *)
(* The word holds either a count of signals or the flag WAITERS, never     *)
(* both.  The host is the futex of LaiMutex; lai_event_wait() passes it    *)
(* the mutex constant LAI_MUTEX_LOCKED | LAI_MUTEX_CONTENDED as the value  *)
(* to wait on.                                                             *)
(***************************************************************************)
EXTENDS Naturals

CONSTANTS
    Threads,      \* the interpreter threads that share the Event node
    COUNT,        \* LAI_EVENT_COUNT, the largest count (2^31 - 1 in the code)
    Deadlines,    \* do the Wait calls pass a finite deadline?
    MaxWaits,     \* bounds: how many Wait, Signal and Reset calls are made
    MaxSignals,
    MaxResets

ASSUME CountAssumption == COUNT \in Nat \ {0} /\ Deadlines \in BOOLEAN
ASSUME CallsAssumption == {MaxWaits, MaxSignals, MaxResets} \subseteq Nat

VARIABLES
    val,         \* sync->val
    pc,          \* where each thread is
    v,           \* the local variable v of the three functions
    left,        \* calls left of each kind
    signalled,   \* history: Signal calls that changed the word,
    taken,       \*   Wait calls that consumed a signal,
    dropped      \*   signals cleared by Reset

history == <<signalled, taken, dropped>>
vars == <<val, pc, v, left, signalled, taken, dropped>>

WAITERS == COUNT + 1    \* LAI_EVENT_WAITERS, the bit above the count
WaitValue == 3          \* LAI_MUTEX_LOCKED | LAI_MUTEX_CONTENDED

WordValues == 0..WAITERS
Signals(w) == IF w = WAITERS THEN 0 ELSE w

Asleep == {t \in Threads : pc[t] = "asleep"}
-------------------------------------------------------------------------------
Init ==
    /\ val = 0
    /\ pc = [t \in Threads |-> "idle"]
    /\ v = [t \in Threads |-> 0]
    /\ left = [waiting |-> MaxWaits, signalling |-> MaxSignals,
               resetting |-> MaxResets]
    /\ signalled = 0 /\ taken = 0 /\ dropped = 0

\* The operation moves thread t to place p and leaves the other threads alone.
Goto(t, p) == pc' = [pc EXCEPT ![t] = p]

\* Wait, Signal or Reset is entered and loads the word.
Enter(t, call) ==
    /\ pc[t] = "idle"
    /\ left[call] > 0
    /\ left' = [left EXCEPT ![call] = @ - 1]
    /\ v' = [v EXCEPT ![t] = val]
    /\ Goto(t, call)
    /\ UNCHANGED <<val, history>>

\* A compare-and-swap that expects v[t] succeeds: it stores new.
Exchange(t, new, success) ==
    /\ val = v[t]
    /\ val' = new
    /\ Goto(t, success)
    /\ UNCHANGED <<v, left>>

\* Mutation: a failed compare-and-swap leaves the stale copy of the word.
ExchangeFailsStale(t, call) ==
    /\ pc[t] = call
    /\ val # v[t]
    /\ UNCHANGED vars

\* A compare-and-swap fails: it reloads v[t], and the loop goes round.
ExchangeFails(t, call) ==
    /\ pc[t] = call
    /\ val # v[t]
    /\ v' = [v EXCEPT ![t] = val]
    /\ UNCHANGED <<val, pc, left, history>>

\* Mutation: Wait stores the smaller count without an exchange.
WaitTakesByStore(t) ==
    /\ pc[t] = "waiting"
    /\ v[t] \in 1..COUNT
    /\ val' = v[t] - 1
    /\ Goto(t, "idle")
    /\ taken' = taken + 1
    /\ UNCHANGED <<v, left, signalled, dropped>>

\* Wait with a count in hand: consume one signal.
WaitTakes(t) ==
    /\ pc[t] = "waiting"
    /\ v[t] \in 1..COUNT
    /\ Exchange(t, v[t] - 1, "idle")
    /\ taken' = taken + 1
    /\ UNCHANGED <<signalled, dropped>>

\* Wait with no count in hand: announce a waiter.  v stays 0.
WaitAnnounces(t) ==
    /\ pc[t] = "waiting"
    /\ v[t] = 0
    /\ Exchange(t, WAITERS, "blocking")
    /\ UNCHANGED history

\* Wait with a waiter announced already goes to the host as it is.
WaitJoins(t) ==
    /\ pc[t] = "waiting"
    /\ v[t] = WAITERS
    /\ Goto(t, "blocking")
    /\ UNCHANGED <<val, v, left, history>>

WaitReloads(t) ==
    /\ v[t] # WAITERS
    /\ ExchangeFails(t, "waiting")

\* laihost_sync_wait() compares the word with the value it is given; when it
\* returns 0, lai_event_wait() goes round without reloading v.
HostWait(t) ==
    /\ pc[t] = "blocking"
    /\ Goto(t, IF val = WaitValue THEN "asleep" ELSE "waiting")
    /\ UNCHANGED <<val, v, left, history>>

\* laihost_sync_wait() reports that the deadline passed: Wait evaluates to 1.
HostTimeout(t) ==
    /\ pc[t] = "asleep"
    /\ Deadlines
    /\ Goto(t, "idle")
    /\ UNCHANGED <<val, v, left, history>>

\* Mutation: Signal does not look for announced waiters.
SignalCountsAnyway(t) ==
    /\ pc[t] = "signalling"
    /\ Exchange(t, v[t] + 1, "idle")
    /\ signalled' = signalled + 1
    /\ UNCHANGED <<taken, dropped>>

\* Signal with no waiter announced: count one more.
SignalCounts(t) ==
    /\ pc[t] = "signalling"
    /\ v[t] < COUNT
    /\ Exchange(t, v[t] + 1, "idle")
    /\ signalled' = signalled + 1
    /\ UNCHANGED <<taken, dropped>>

\* Signal of an event whose count is full: LAI_ENSURE panics, and the
\* host's panic does not return to the thread.
SignalOverflows(t) ==
    /\ pc[t] = "signalling"
    /\ v[t] = COUNT
    /\ Goto(t, "panic")
    /\ UNCHANGED <<val, v, left, history>>

\* Mutation: unsetting the flag leaves no signal for the waiter.
SignalUnsetsToZero(t) ==
    /\ pc[t] = "signalling"
    /\ v[t] = WAITERS
    /\ Exchange(t, 0, "waking")
    /\ signalled' = signalled + 1
    /\ UNCHANGED <<taken, dropped>>

\* Signal with a waiter announced: unset the flag and leave one signal.
SignalUnsetsWaiters(t) ==
    /\ pc[t] = "signalling"
    /\ v[t] = WAITERS
    /\ Exchange(t, 1, "waking")
    /\ signalled' = signalled + 1
    /\ UNCHANGED <<taken, dropped>>

SignalReloads(t) ==
    /\ v[t] # COUNT
    /\ ExchangeFails(t, "signalling")

\* laihost_sync_wake() rouses sleepers; they return 0 from laihost_sync_wait().
HostWake(t) ==
    /\ pc[t] = "waking"
    /\ \E woken \in SUBSET Asleep :
         /\ Asleep # {} => woken # {}
         /\ pc' = [u \in Threads |-> IF u = t THEN "idle"
                                     ELSE IF u \in woken THEN "waiting" ELSE pc[u]]
    /\ UNCHANGED <<val, v, left, history>>

\* Reset with a count in hand: clear it.
ResetClears(t) ==
    /\ pc[t] = "resetting"
    /\ v[t] \in 1..COUNT
    /\ Exchange(t, 0, "idle")
    /\ dropped' = dropped + v[t]
    /\ UNCHANGED <<signalled, taken>>

\* Reset of a word with no count in it has nothing to do.
ResetNothing(t) ==
    /\ pc[t] = "resetting"
    /\ v[t] \notin 1..COUNT
    /\ Goto(t, "idle")
    /\ UNCHANGED <<val, v, left, history>>

ResetReloads(t) ==
    /\ v[t] \in 1..COUNT
    /\ ExchangeFails(t, "resetting")

Step(t) ==
    \/ \E call \in {"waiting", "signalling", "resetting"} : Enter(t, call)
    \/ WaitTakes(t) \/ WaitAnnounces(t) \/ WaitJoins(t) \/ WaitReloads(t)
    \/ HostWait(t)
    \/ SignalCounts(t) \/ SignalOverflows(t) \/ SignalUnsetsWaiters(t)
    \/ SignalReloads(t) \/ HostWake(t)
    \/ ResetClears(t) \/ ResetNothing(t) \/ ResetReloads(t)

Next == \E t \in Threads : Step(t) \/ HostTimeout(t)

\* Each thread is scheduled again and again; a deadline need not pass.
Fairness == \A t \in Threads : WF_vars(Step(t))

Spec == Init /\ [][Next]_vars
FairSpec == Spec /\ Fairness
-------------------------------------------------------------------------------
Places == {"idle", "waiting", "blocking", "asleep", "signalling", "waking",
           "resetting", "panic"}

\* The variables have their types; a word never holds a count and WAITERS at
\* once, so the LAI_ENSUREs on the two halves of the word never fire.
TypeOK ==
    /\ val \in WordValues
    /\ pc \in [Threads -> Places]
    /\ v \in [Threads -> WordValues]
    /\ left \in [{"waiting", "signalling", "resetting"} -> Nat]
    /\ signalled \in Nat /\ taken \in Nat /\ dropped \in Nat

\* No signal is lost or invented, however the exchanges of the three operations
\* interleave: every Signal was consumed by one Wait, cleared by a Reset, or is
\* still counted in the word.
SignalsConserved == signalled = taken + dropped + Signals(val)

Counter == INSTANCE LaiCountingEvent WITH count <- Signals(val)

\* The event word implements the abstract counter.
ImplementsCounter == Counter!EventSpec

\* The exchange loops of Signal and Reset end: each round that fails has seen the
\* word change, and a changed word is what the next round expects.
SignalAndResetReturn ==
    \A t \in Threads :
        pc[t] \in {"signalling", "resetting"} ~>
            pc[t] \notin {"signalling", "resetting"}

\* lai_event_signal() says "Unblock a waiter.": a Wait without deadline on an
\* event that is signalled as often as it is waited for, and never reset, returns
\* in the end.
SignalledWaitReturns ==
    ~Deadlines /\ MaxResets = 0 /\ MaxSignals >= MaxWaits =>
        \A t \in Threads : pc[t] = "waiting" ~> pc[t] = "idle"
===============================================================================
