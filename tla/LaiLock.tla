------------------------------- MODULE LaiLock -------------------------------
(***************************************************************************)
(* What an AML Mutex object promises the methods that use it: at most one  *)
(* thread holds it, Acquire takes it only while it is free, and Release by *)
(* the holder frees it.  LaiMutex.tla shows that the futex word of         *)
(* core/exec_impl.h keeps this promise.                                    *)
(***************************************************************************)
CONSTANTS
    Threads,   \* the interpreter threads that share the Mutex node
    NoThread   \* stands for "nobody"

VARIABLE holder    \* the thread between a successful Acquire and its Release

LockInit == holder = NoThread

\* Acquire() that evaluates to 0.
Take(t) == holder = NoThread /\ holder' = t

\* Release() by the thread that holds the Mutex.
Drop(t) == holder = t /\ holder' = NoThread

LockNext == \E t \in Threads : Take(t) \/ Drop(t)

LockSpec == LockInit /\ [][LockNext]_holder
==============================================================================
