---------------------------- MODULE LaiEventProofs ----------------------------
(***************************************************************************)
(* The AML Event, for every set of threads, every width of the count and   *)
(* every host: signals are conserved, and LaiEvent implements              *)
(* LaiCountingEvent.                                                       *)
(***************************************************************************)
EXTENDS LaiEvent, TLAPS

\* The arithmetic of the word needs its type; conservation needs nothing else.
IInv == TypeOK /\ SignalsConserved

LEMMA InitInv == Init => IInv
<1> SUFFICES ASSUME Init PROVE IInv
  OBVIOUS
<1>1. TypeOK
  BY CallsAssumption, CountAssumption DEF Init, TypeOK, Places, WordValues, WAITERS
<1>2. SignalsConserved
  BY CountAssumption DEF Init, SignalsConserved, Signals, WAITERS
<1> QED BY <1>1, <1>2 DEF IInv

\* A step that leaves the word and the history alone conserves the signals.
LEMMA QuietStep ==
    ASSUME SignalsConserved, val' = val, UNCHANGED history
    PROVE  SignalsConserved'
  BY DEF SignalsConserved, history, Signals

LEMMA EnterInv ==
    ASSUME IInv, NEW t \in Threads,
           NEW call \in {"waiting", "signalling", "resetting"}, Enter(t, call)
    PROVE  IInv'
<1>1. TypeOK'
  <2> USE DEF IInv, TypeOK, Enter, Goto, history
  <2>1. left' \in [{"waiting", "signalling", "resetting"} -> Nat]
    OBVIOUS
  <2>2. pc' \in [Threads -> Places]
    BY DEF Places
  <2>3. v' \in [Threads -> WordValues]
    OBVIOUS
  <2> QED BY <2>1, <2>2, <2>3
<1>2. SignalsConserved'
  BY QuietStep DEF IInv, Enter
<1> QED BY <1>1, <1>2 DEF IInv

\* Steps that neither exchange the word nor count anything.
LEMMA QuietInv ==
    ASSUME IInv, NEW t \in Threads,
           \/ WaitJoins(t) \/ WaitReloads(t) \/ HostWait(t) \/ HostTimeout(t)
           \/ SignalOverflows(t) \/ SignalReloads(t) \/ HostWake(t)
           \/ ResetNothing(t) \/ ResetReloads(t)
    PROVE  IInv'
<1>1. TypeOK'
  BY DEF IInv, TypeOK, WaitJoins, WaitReloads, HostWait, HostTimeout,
         SignalOverflows, SignalReloads, HostWake, ResetNothing, ResetReloads,
         ExchangeFails, Goto, Places, history
<1>2. val' = val /\ UNCHANGED history
  BY DEF WaitJoins, WaitReloads, HostWait, HostTimeout, SignalOverflows,
         SignalReloads, HostWake, ResetNothing, ResetReloads, ExchangeFails
<1> QED BY <1>1, <1>2, QuietStep DEF IInv

\* A Wait that consumes a signal.
LEMMA WaitTakesInv == ASSUME IInv, NEW t \in Threads, WaitTakes(t) PROVE IInv'
<1> USE CountAssumption DEF IInv, WordValues, WAITERS
<1>1. val = v[t] /\ v[t] \in 1..COUNT /\ val' = v[t] - 1
  BY DEF WaitTakes, Exchange
<1>2. Signals(val) = v[t] /\ Signals(val') = v[t] - 1
  BY <1>1 DEF Signals
<1>3. TypeOK'
  BY <1>1 DEF TypeOK, WaitTakes, Exchange, Goto, Places
<1>4. SignalsConserved'
  BY <1>1, <1>2 DEF TypeOK, SignalsConserved, WaitTakes
<1> QED BY <1>3, <1>4

\* A Wait that announces a waiter: the word carried no signal before or after.
LEMMA WaitAnnouncesInv ==
    ASSUME IInv, NEW t \in Threads, WaitAnnounces(t) PROVE IInv'
<1> USE CountAssumption DEF IInv, WordValues, WAITERS
<1>1. val = 0 /\ val' = WAITERS
  BY DEF WaitAnnounces, Exchange
<1>2. Signals(val) = 0 /\ Signals(val') = 0
  BY <1>1 DEF Signals
<1>3. TypeOK'
  BY <1>1 DEF TypeOK, WaitAnnounces, Exchange, Goto, Places, history
<1>4. SignalsConserved'
  BY <1>2 DEF SignalsConserved, WaitAnnounces, history
<1> QED BY <1>3, <1>4

\* A Signal leaves one signal more, whether it adds to the count or replaces
\* WAITERS by the count 1.
LEMMA SignalAddsOne ==
    ASSUME TypeOK, NEW t \in Threads, SignalCounts(t) \/ SignalUnsetsWaiters(t)
    PROVE  Signals(val') = Signals(val) + 1 /\ val' \in WordValues
<1> USE CountAssumption DEF WordValues, WAITERS, Signals
<1>1. CASE SignalCounts(t)
  <2>1. val \in 0..(COUNT - 1) /\ val' = val + 1
    BY <1>1 DEF TypeOK, SignalCounts, Exchange
  <2> QED BY <2>1
<1>2. CASE SignalUnsetsWaiters(t)
  <2>1. val = COUNT + 1 /\ val' = 1
    BY <1>2 DEF SignalUnsetsWaiters, Exchange
  <2> QED BY <2>1
<1> QED BY <1>1, <1>2

LEMMA SignalInv ==
    ASSUME IInv, NEW t \in Threads, SignalCounts(t) \/ SignalUnsetsWaiters(t)
    PROVE  IInv'
<1> USE CountAssumption DEF IInv, WordValues, WAITERS
<1>1. Signals(val') = Signals(val) + 1 /\ val' \in WordValues
  BY SignalAddsOne DEF IInv, TypeOK
<1>2. TypeOK'
  BY <1>1 DEF TypeOK, SignalCounts, SignalUnsetsWaiters, Exchange, Goto, Places
<1>3. Signals(val) \in Nat
  BY DEF TypeOK, Signals
<1>4. SignalsConserved'
  BY <1>1, <1>3 DEF TypeOK, SignalsConserved, SignalCounts, SignalUnsetsWaiters
<1> QED BY <1>2, <1>4

\* A Reset moves the whole count to the dropped signals.
LEMMA ResetClearsInv == ASSUME IInv, NEW t \in Threads, ResetClears(t) PROVE IInv'
<1> USE CountAssumption DEF IInv, WordValues, WAITERS
<1>1. val = v[t] /\ v[t] \in 1..COUNT /\ val' = 0
  BY DEF ResetClears, Exchange
<1>2. Signals(val) = v[t] /\ Signals(val') = 0
  BY <1>1 DEF Signals
<1>3. TypeOK'
  BY <1>1 DEF TypeOK, ResetClears, Exchange, Goto, Places
<1>4. SignalsConserved'
  BY <1>1, <1>2 DEF TypeOK, SignalsConserved, ResetClears
<1> QED BY <1>3, <1>4

LEMMA StepInv == IInv /\ [Next]_vars => IInv'
<1> SUFFICES ASSUME IInv, [Next]_vars PROVE IInv'
  OBVIOUS
<1>1. CASE UNCHANGED vars
  BY <1>1 DEF IInv, TypeOK, SignalsConserved, Signals, vars
<1>2. ASSUME NEW t \in Threads, Step(t) \/ HostTimeout(t) PROVE IInv'
  BY <1>2, EnterInv, QuietInv, WaitTakesInv, WaitAnnouncesInv, SignalInv,
     ResetClearsInv DEF Step
<1> QED BY <1>1, <1>2 DEF Next

\* Every reachable state satisfies the inductive invariant.
LEMMA Invariance == Spec => []IInv
  BY InitInv, StepInv, PTL DEF Spec

\* The word stays within the count or equals WAITERS, for every width of the
\* count: the LAI_ENSUREs that forbid a count beside WAITERS never fire.
THEOREM TypeCorrect == Spec => []TypeOK
<1>1. IInv => TypeOK
  BY DEF IInv
<1> QED BY <1>1, Invariance, PTL

\* Signals are neither lost nor invented by concurrent Wait, Signal and Reset.
THEOREM Conservation == Spec => []SignalsConserved
<1>1. IInv => SignalsConserved
  BY DEF IInv
<1> QED BY <1>1, Invariance, PTL
-------------------------------------------------------------------------------
LEMMA CounterStep == TypeOK /\ [Next]_vars => [Counter!EventNext]_(Signals(val))
<1> SUFFICES ASSUME TypeOK, [Next]_vars
             PROVE  Counter!EventNext \/ Signals(val)' = Signals(val)
  OBVIOUS
<1> USE CountAssumption DEF TypeOK, WordValues, WAITERS, Signals
<1>1. CASE UNCHANGED vars
  BY <1>1 DEF vars
<1>2. ASSUME NEW t \in Threads, WaitTakes(t) PROVE Counter!Decrement
  BY <1>2 DEF WaitTakes, Exchange, Counter!Decrement
<1>3. ASSUME NEW t \in Threads, SignalCounts(t) \/ SignalUnsetsWaiters(t)
      PROVE  Counter!Increment
  BY <1>3, SignalAddsOne DEF Counter!Increment
<1>4. ASSUME NEW t \in Threads, ResetClears(t) PROVE Counter!Clear
  BY <1>4 DEF ResetClears, Exchange, Counter!Clear
<1>5. ASSUME NEW t \in Threads, WaitAnnounces(t) PROVE Signals(val)' = Signals(val)
  BY <1>5 DEF WaitAnnounces, Exchange
<1>6. ASSUME NEW t \in Threads,
             \/ \E call \in {"waiting", "signalling", "resetting"} : Enter(t, call)
             \/ WaitJoins(t) \/ WaitReloads(t) \/ HostWait(t) \/ HostTimeout(t)
             \/ SignalOverflows(t) \/ SignalReloads(t) \/ HostWake(t)
             \/ ResetNothing(t) \/ ResetReloads(t)
      PROVE  val' = val
  BY <1>6 DEF Enter, WaitJoins, WaitReloads, HostWait, HostTimeout,
              SignalOverflows, SignalReloads, HostWake, ResetNothing,
              ResetReloads, ExchangeFails
<1> QED
  BY <1>1, <1>2, <1>3, <1>4, <1>5, <1>6 DEF Next, Step, Counter!EventNext

\* The three operations on the event word implement the abstract counter.
THEOREM Refinement == Spec => ImplementsCounter
<1>1. Init => Counter!EventInit
  BY CountAssumption DEF Init, Counter!EventInit, Signals, WAITERS
<1>2. IInv => TypeOK
  BY DEF IInv
<1> QED
  BY <1>1, <1>2, CounterStep, Invariance, PTL
     DEF Spec, ImplementsCounter, Counter!EventSpec
===============================================================================
