--------------------------- MODULE MCLaiNamespace ---------------------------
(***************************************************************************)
(* Instances of LaiNamespace for TLC.  The names collide in tables of four *)
(* buckets, and the terms let a method install beside its device, inside   *)
(* itself, and through a device of its own.                                *)
(***************************************************************************)
EXTENDS LaiNamespace

Relative(name) == [absolute |-> FALSE, height |-> 0, segments |-> <<name>>]
InSB(name) == [absolute |-> TRUE, height |-> 0, segments |-> <<"SB", name>>]
Sibling(name) == [absolute |-> FALSE, height |-> 1, segments |-> <<name>>]

Term(kind, path) == [kind |-> kind, path |-> path, target |-> InSB("A")]

MCNames == {"SB", "A", "C", "INI"}
MCHash == [name \in MCNames |-> IF name = "INI" THEN 5 ELSE 3]
MCPredefined == <<"SB">>
MCTerms ==
    {Term("DEVICE", InSB("A")), Term("METHOD", Relative("INI")),
     Term("NAME", InSB("C")),
     Term("ALIAS", Sibling("SB")), Term("SCOPE", Relative("SB"))}
=============================================================================
