------------------------------ MODULE MCLaiEvent ------------------------------
(***************************************************************************)
(* Instances of LaiEvent for TLC.  MCLaiEvent.cfg checks the counting      *)
(* under every interleaving of three threads; MCLaiEventWaiter.cfg follows *)
(* one waiter and one signaller.                                           *)
(***************************************************************************)
EXTENDS LaiEvent

CONSTANTS t1, t2, t3
===============================================================================
