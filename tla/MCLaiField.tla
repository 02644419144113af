----------------------------- MODULE MCLaiField -----------------------------
(***************************************************************************)
(* Instances of LaiField for TLC.  A byte has two bits and an integer      *)
(* eight.  The bytes of the region: an index register, a data register     *)
(* with a byte behind each index, a bank register, a byte with banks,      *)
(* plain memory from byte 4 on, a buffer from byte 12 on, and memory again *)
(* from byte 16 on.                                                        *)
(***************************************************************************)
EXTENDS LaiField

Plain(offset, size, access, rule) ==
    [kind |-> "field", offset |-> offset, size |-> size, access |-> access, rule |-> rule,
     select |-> "none", data |-> "none", bank |-> 0]
Indexed(offset, size, access, rule) ==
    [Plain(offset, size, access, rule) EXCEPT !.kind = "indexfield", !.select = "INDX", !.data = "DATA"]
Banked(bank, offset, size) ==
    [Plain(offset, size, 2, "preserve") EXCEPT !.kind = "bankfield", !.select = "BANK", !.bank = bank]

MCFields ==
    {"INDX", "DATA", "BANK", "IXFA", "IXFB", "IXFC", "BKFA", "BKFB", "PLNA", "PLNB", "PLNC", "QUAD", "QUAX",
     "BUFA", "BUFB"}
MCNode(f) ==
    CASE f = "INDX" -> Plain(0, 2, 2, "preserve")
      [] f = "DATA" -> Plain(2, 2, 2, "preserve")
      [] f = "BANK" -> Plain(4, 1, 2, "preserve")
      [] f = "IXFA" -> Indexed(1, 2, 2, "preserve")    \* in bytes 0 and 1
      [] f = "IXFB" -> Indexed(3, 1, 2, "zeroes")
      [] f = "IXFC" -> Indexed(0, 1, 0, "preserve")    \* AnyAcc
      [] f = "BKFA" -> Banked(0, 6, 2)
      [] f = "BKFB" -> Banked(1, 7, 1)
      [] f = "PLNA" -> Plain(8, 1, 2, "ones")
      [] f = "PLNB" -> Plain(9, 4, 0, "preserve")      \* AnyAcc, an access of four bits
      [] f = "PLNC" -> Plain(13, 2, 2, "preserve")
      [] f = "QUAD" -> Plain(16, 8, 8, "preserve")
      [] f = "QUAX" -> Plain(34, 8, 8, "preserve")     \* across two quad-words
      [] f = "BUFA" -> [Plain(24, 3, 2, "preserve") EXCEPT !.kind = "bufferfield"]
      [] f = "BUFB" -> [Plain(27, 2, 2, "preserve") EXCEPT !.kind = "bufferfield"]
MCField == [[f \in MCFields |-> MCNode(f)] EXCEPT !["QUAD"] = @]    \* evaluated once
MCSelector ==
    [b \in 0..47 |-> CASE b \in 2..3 -> 0..1 [] b \in 6..7 -> {4} [] OTHER -> {}]
MCInitially == {<<{}, 9>>, <<{4}, 6>>}
=============================================================================
