------------------------------- MODULE MCLaiEc -------------------------------
(***************************************************************************)
(* An embedded controller with four bytes of memory and two events.        *)
(***************************************************************************)
EXTENDS LaiEc
=============================================================================
