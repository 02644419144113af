---------------------------- MODULE MCLaiOperand ----------------------------
(***************************************************************************)
(* Instances of LaiOperand for TLC: one Name, three addresses, packages of *)
(* one element and of none.  Free addresses are alike, so that it does not *)
(* matter which one CHOOSE takes and the addresses may be permuted.        *)
(***************************************************************************)
EXTENDS LaiOperand, TLC

CONSTANTS o1, o2, o3

MCObjects == {o1, o2, o3}
MCNames == {1}
MCContents == {<<>>, <<"bytes">>}
MCSymmetry == Permutations(MCObjects)
=============================================================================
