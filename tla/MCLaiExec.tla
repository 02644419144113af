------------------------------ MODULE MCLaiExec ------------------------------
(***************************************************************************)
(* Instances of LaiExec for TLC: every AML program that fits the bounds,   *)
(* over arrays so small that all of them have to grow.  MCLaiExec.cfg      *)
(* leaves out the two opcodes that the code gets wrong when an array       *)
(* grows; the other configurations look at one opcode each.                *)
(***************************************************************************)
EXTENDS LaiExec

Sizes == [a \in Arrays |-> 3]
TightSizes == [a \in Arrays |-> 2]

MCOpArgs == {<<"object", "reference">>}      \* ToBuffer, Not, Store
MCNodeArgs == {<<"unresolved", "object">>}   \* Name

PlainKinds == ItemKinds \ {"VARPACKAGE", "BANKFIELD"}
CallKinds == {"METHOD", "INVOKE", "RETURN"}
VarPackageKinds == CallKinds \cup {"VARPACKAGE"}
BankFieldKinds == CallKinds \cup {"BANKFIELD"}
===============================================================================
