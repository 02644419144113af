------------------------------ MODULE MCLaiMutex ------------------------------
(***************************************************************************)
(* Instances of LaiMutex for TLC.  MCLaiMutex.cfg checks the lock for up   *)
(* to three threads; MCLaiMutexStarvation.cfg shows what a third contender *)
(* can run into.                                                           *)
(***************************************************************************)
EXTENDS LaiMutex

CONSTANTS t1, t2, t3
===============================================================================
