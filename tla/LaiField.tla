------------------------------ MODULE LaiField ------------------------------
(***************************************************************************)
(* Fields of operation regions: core/opregion.c.  A field is a slice of    *)
(* bits that is read and written in accesses of a fixed width; the fields  *)
(* of an IndexField lie behind a pair of registers, index and data, which  *)
(* are fields themselves; those of a BankField in a region that shows the  *)
(* bank which another field selects.  A buffer field is a slice of memory, *)
(* accessed byte by byte (core/exec-operand.c).                            *)
(*                                                                         *)
(* A value is the set of the positions of its bits that are 1, so that a   *)
(* mask is an intersection and a shift a translation.  The width of a byte *)
(* and of an integer are constants.  Every access is a step; threads that  *)
(* evaluate AML at the same time interleave between them.  No lock is      *)
(* taken, and the Lock rule of a field is ignored, so that operations that *)
(* the AML does not keep apart race; raced has the bits where they do.     *)
(***************************************************************************)
EXTENDS Integers, Sequences, FiniteSets

CONSTANTS
    Threads,
    Fields,            \* the names of the fields
    Field,             \* their nodes: see FieldType
    Nobody,            \* not a field
    Selector,          \* the device: for a bit of the region, the bits of the register
                       \*   that selects what is behind it
    ByteBits,          \* the width of a byte, a power of two
    WordBits,          \* the width of uint64_t
    Widths,            \* the widths that an access may have: 8, 16, 32 and 64
    AnyBits,           \* the widest access that AnyAcc takes in the region
    Initially,         \* the contents of the device
    MaxOperations      \* bound: the number of field operations

Kinds == {"field", "indexfield", "bankfield", "bufferfield"}
Rules == {"preserve", "ones", "zeroes"}
FieldType ==
    [kind : Kinds, offset : Nat, size : 1..WordBits,
     access : Widths \cup {0},              \* 0 is AnyAcc
     rule : Rules,
     select : Fields \cup {Nobody},        \* the index or bank register
     data : Fields \cup {Nobody},          \* the data register
     bank : Nat]

ASSUME WidthsAssumption ==
    /\ ByteBits \in Nat \ {0} /\ WordBits \in Nat /\ ByteBits < WordBits
    /\ Widths \subseteq 1..WordBits /\ \A w \in Widths : w % ByteBits = 0
    /\ AnyBits \in Widths
    /\ MaxOperations \in Nat
ASSUME FieldsAssumption ==
    /\ Nobody \notin Fields
    /\ Field \in [Fields -> FieldType]
    /\ \A f \in Fields :
         /\ Field[f].kind = "indexfield" <=> Field[f].data \in Fields
         /\ Field[f].kind \in {"field", "bufferfield"} <=> Field[f].select = Nobody
         /\ Field[f].kind = "bufferfield" =>
              Field[f].access = ByteBits /\ Field[f].rule = "preserve"
         /\ \A r \in {Field[f].select, Field[f].data} \ {Nobody} :
              Field[r].kind = "field" /\ Field[r].rule = "preserve"
-------------------------------------------------------------------------------
\* lai_calculate_access_width(): AnyAcc takes the smallest access that the field
\* fits into, or else the widest that the region allows.
Width(f) ==
    LET fitting == {w \in Widths : Field[f].size <= w /\ w <= AnyBits}
    IN  IF Field[f].access # 0 THEN Field[f].access
        ELSE IF fitting = {} THEN AnyBits
        ELSE CHOOSE w \in fitting : \A v \in fitting : w <= v

\* The byte offset of the access that contains bit b.
UnitOf(f, b) == (b - (b % Width(f))) \div ByteBits

\* The bits of the region that an operation on f accesses by itself, and with the
\* operations on its registers; of these it writes the ones in Altered.
Accessed(f) ==
    IF Field[f].kind = "indexfield" THEN {}
    ELSE {b + i : i \in 0..Width(f) - 1,
                  b \in {ByteBits * UnitOf(f, Field[f].offset + k) : k \in 0..Field[f].size - 1}}
Footprint(f) == UNION {Accessed(g) : g \in {f, Field[f].select, Field[f].data} \ {Nobody}}
Altered(f, op) ==
    IF op = "write" THEN Footprint(f)
    ELSE UNION {Accessed(g) : g \in {Field[f].select} \ {Nobody}}

\* The fields that AML uses; the others are registers.
Public == {f \in Fields : \A g \in Fields : f \notin {Field[g].select, Field[g].data}}

\* The mask of a slice as wide as the integer is undefined: that of an access which
\* belongs to the field as a whole.
Wide(f) ==
    /\ Width(f) = WordBits
    /\ \E k \in 0..Field[f].size - 1 :
         (Field[f].offset + k) % WordBits = 0 /\ Field[f].size - k >= WordBits

\* The bits of a register, and the field or register whose accesses go to what the
\* register of f selects.
Place(r) == {Field[r].offset + j : j \in 0..Field[r].size - 1}
Window(f) == IF Field[f].kind = "indexfield" THEN Field[f].data ELSE f

\* The device is the one that the AML describes: a register is not itself behind
\* another one, and has a mask that is defined; behind an access is all of one
\* register, or nothing.
ASSUME DeviceAssumption ==
    /\ Initially \subseteq (SUBSET Nat) \X Nat
    /\ \A f \in Public : Field[f].kind \in {"field", "bufferfield"} =>
         \A b \in Accessed(f) : Selector[b] = {}
    /\ \A f \in Fields : Field[f].select # Nobody =>
         /\ \A b \in Accessed(Field[f].select) : Selector[b] = {}
         /\ \A b \in Accessed(Window(f)) : Selector[b] = Place(Field[f].select)
         /\ ~Wide(Field[f].select) /\ (Field[f].kind = "indexfield" => ~Wide(Field[f].data))

VARIABLES
    mem,       \* the bits of the device that are 1: pairs of the register bits that
               \*   select it, and the bit of the region
    calls,     \* the stack of calls of each thread
    done,      \* the number of operations so far
    crashed,   \* lai_calculate_access_width() used the region of a field without one
    ideal,     \* what mem should be, written by whole operations (history)
    raced      \* the bits of the region that operations wrote while others, or what
               \*   others left there, were in their way (history)

vars == <<mem, calls, done, crashed, ideal, raced>>

-------------------------------------------------------------------------------
MinOf(a, b) == IF a < b THEN a ELSE b
Bits(n) == {i \in 0..WordBits - 1 : (n \div 2^i) % 2 = 1}
Shifted(v, n) == {i + n : i \in v}
Unshifted(v, n) == {i - n : i \in {j \in v : j >= n}}

\* The device.
Selected(m, b) == {r \in Selector[b] : <<{}, r>> \in m}
Cell(m, b) == <<Selected(m, b), b>>
Read(m, width, offset) == {i \in 0..width - 1 : Cell(m, ByteBits * offset + i) \in m}
Written(m, width, offset, v) ==
    (m \ {Cell(m, ByteBits * offset + i) : i \in 0..width - 1})
    \cup {Cell(m, ByteBits * offset + i) : i \in v \cap (0..width - 1)}

\* A call of lai_read_field() or lai_write_field(), or of their bank variants,
\* before it looks at its first bit.
Call(f, op, v) ==
    [field |-> f, op |-> op, source |-> v, dest |-> {}, value |-> {},
     progress |-> 0, offset |-> UnitOf(f, Field[f].offset),
     pc |-> IF Field[f].kind = "bankfield" THEN "bank" ELSE "loop"]

Top(t) == calls[t][Len(calls[t])]
Below(t) == SubSeq(calls[t], 1, Len(calls[t]) - 1)
Node(c) == Field[c.field]

\* The bits of the access, and how many of them belong to the field.
BitOffset(c) == (Node(c).offset + c.progress) % Width(c.field)

\* Mutation: the access is not cut off at the end of the field.
WholeBits(c) == Width(c.field) - BitOffset(c)

AccessBits(c) == MinOf(Node(c).size - c.progress, Width(c.field) - BitOffset(c))

\* (1 << n) - 1, which is undefined when n is the width of the integer: it gives
\* nothing where the processor takes n modulo the width, or everything.
Masks(n) == IF n < WordBits THEN {0..n - 1} ELSE {{}, 0..n - 1}

NextAccess(c) ==
    [c EXCEPT !.progress = @ + AccessBits(c), !.offset = @ + Width(c.field) \div ByteBits,
              !.pc = "loop"]

\* Mutation: what was read is not shifted to the first bit of the field.
GotUnshifted(c, v, mask) ==
    [NextAccess(c) EXCEPT !.dest = @ \cup Shifted(v \cap mask, c.progress)]

\* lai_read_buffer() does not shift: it takes the bits from the lowest of a byte on.
Lowest(c) == IF Node(c).kind = "bufferfield" THEN 0 ELSE BitOffset(c)

\* The slice that an access read goes to the destination.
Got(c, v, mask) ==
    [NextAccess(c) EXCEPT !.dest = @ \cup Shifted(Unshifted(v, Lowest(c)) \cap mask, c.progress)]

\* Mutation: the bits around the field are those of the source.
MergedWhole(c, old, mask) == Shifted(Unshifted(c.source, c.progress), BitOffset(c))

\* The value to write: the slice of the source between the bits around the field.
Merged(c, old, mask) ==
    (old \ Shifted(mask, BitOffset(c)))
    \cup Shifted(Unshifted(c.source, c.progress) \cap mask, BitOffset(c))

\* The bits around the field, without a read.
Background(c) == IF Node(c).rule = "ones" THEN 0..WordBits - 1 ELSE {}

Direct(c) == Node(c).kind # "indexfield"
More(c) == c.progress < Node(c).size
Replace(t, c) == calls' = [calls EXCEPT ![t] = Append(Below(t), c)]
Enter(t, c, inner) == calls' = [calls EXCEPT ![t] = Append(Append(Below(t), c), inner)]

Running(t) == ~crashed /\ calls[t] # <<>>
At(t, pc) == Running(t) /\ Top(t).pc = pc /\ (pc = "loop" => More(Top(t)))
Quiet == UNCHANGED <<done, crashed, ideal, raced>>
-------------------------------------------------------------------------------
Init ==
    /\ mem = Initially /\ ideal = Initially
    /\ calls = [t \in Threads |-> <<>>]
    /\ done = 0
    /\ crashed = FALSE
    /\ raced = {}

\* What the operation of a thread accesses, and writes.
Busy(t) == IF calls[t] = <<>> THEN {} ELSE Footprint(calls[t][1].field)
Alters(t) == IF calls[t] = <<>> THEN {} ELSE Altered(calls[t][1].field, calls[t][1].op)

\* The threads whose operations write what an operation on f accesses, or access what
\* it writes.
Clashing(f, op) ==
    {u \in Threads : Alters(u) \cap Footprint(f) # {} \/ Altered(f, op) \cap Busy(u) # {}}
Race(f, op) ==
    IF Clashing(f, op) = {} /\ Footprint(f) \cap raced = {} THEN raced
    ELSE raced \cup Altered(f, op) \cup UNION {Alters(u) : u \in Clashing(f, op)}

\* The thread and all the others kept out of each other's way.
Calm(t) == Busy(t) \cap raced = {}

Begin(t, f, op, v) ==
    /\ calls' = [calls EXCEPT ![t] = <<Call(f, op, v)>>]
    /\ raced' = Race(f, op)
    /\ UNCHANGED crashed

\* AML uses a field: lai_read_opregion() or lai_write_opregion().
Start(t, f, op, v) ==
    /\ ~crashed /\ calls[t] = <<>> /\ done < MaxOperations
    /\ Field[f].kind # "bufferfield"
    /\ IF Field[f].kind = "indexfield" /\ Field[f].access = 0
       THEN crashed' = TRUE /\ UNCHANGED <<calls, raced>>
       ELSE Begin(t, f, op, v)
    /\ done' = done + 1
    /\ UNCHANGED <<mem, ideal>>

\* lai_read_buffer() or lai_write_buffer(), whose rounds are accesses of a byte that
\* preserve what is around the field.
UseBuffer(t, f, op, v) ==
    /\ ~crashed /\ calls[t] = <<>> /\ done < MaxOperations
    /\ Field[f].kind = "bufferfield"
    /\ Begin(t, f, op, v)
    /\ done' = done + 1
    /\ UNCHANGED <<mem, ideal>>

\* lai_read_bankfield() and lai_write_bankfield(): the bank comes first.
SelectBank(t) ==
    LET c == Top(t)
    IN  /\ At(t, "bank")
        /\ Enter(t, [c EXCEPT !.pc = "loop"], Call(Node(c).select, "write", Bits(Node(c).bank)))
        /\ UNCHANGED mem /\ Quiet

\* lai_perform_read(), or a load of a byte, for a read or to preserve what is around
\* the field.
Fetch(t) ==
    LET c == Top(t) v == Read(mem, Width(c.field), c.offset)
    IN  /\ At(t, "loop") /\ Direct(c)
        /\ IF c.op = "read"
           THEN \E mask \in Masks(AccessBits(c)) : Replace(t, Got(c, v, mask))
           ELSE Node(c).rule = "preserve" /\ Replace(t, [c EXCEPT !.value = v, !.pc = "store"])
        /\ UNCHANGED mem /\ Quiet

\* The value is made up instead.
Fill(t) ==
    LET c == Top(t)
    IN  /\ At(t, "loop") /\ c.op = "write" /\ Node(c).rule # "preserve"
        /\ Replace(t, [c EXCEPT !.value = Background(c), !.pc = "store"])
        /\ UNCHANGED mem /\ Quiet

\* lai_perform_write(), or a store of a byte.
Store(t) ==
    LET c == Top(t)
    IN  /\ At(t, "store") /\ Direct(c)
        /\ \E mask \in Masks(AccessBits(c)) :
             mem' = Written(mem, Width(c.field), c.offset, Merged(c, c.value, mask))
        /\ Replace(t, NextAccess(c))
        /\ Quiet

\* Mutation: the index is that of the first access.
SelectFirst(t) ==
    LET c == Top(t)
    IN  /\ At(t, "loop") /\ ~Direct(c) /\ (c.op = "read" \/ Node(c).rule = "preserve")
        /\ Enter(t, [c EXCEPT !.pc = "fetch"],
                 Call(Node(c).select, "write", Bits(UnitOf(c.field, Node(c).offset))))
        /\ UNCHANGED mem /\ Quiet

\* lai_perform_indexfield_read(): first the index register, then the data.
SelectToRead(t) ==
    LET c == Top(t)
    IN  /\ At(t, "loop") /\ ~Direct(c) /\ (c.op = "read" \/ Node(c).rule = "preserve")
        /\ Enter(t, [c EXCEPT !.pc = "fetch"], Call(Node(c).select, "write", Bits(c.offset)))
        /\ UNCHANGED mem /\ Quiet

FetchData(t) ==
    LET c == Top(t)
    IN  /\ At(t, "fetch")
        /\ Enter(t, [c EXCEPT !.pc = "fetched"], Call(Node(c).data, "read", {}))
        /\ UNCHANGED mem /\ Quiet

\* Mutation: what is read to be preserved is read again.
FetchedAgain(t) ==
    LET c == Top(t)
    IN  /\ At(t, "fetched")
        /\ IF c.op = "read"
           THEN \E mask \in Masks(AccessBits(c)) : Replace(t, Got(c, c.value, mask))
           ELSE Replace(t, [c EXCEPT !.pc = "loop"])
        /\ UNCHANGED mem /\ Quiet

Fetched(t) ==
    LET c == Top(t)
    IN  /\ At(t, "fetched")
        /\ IF c.op = "read"
           THEN \E mask \in Masks(AccessBits(c)) : Replace(t, Got(c, c.value, mask))
           ELSE Replace(t, [c EXCEPT !.pc = "store"])
        /\ UNCHANGED mem /\ Quiet

\* lai_perform_indexfield_write(): the index register, then the data.
SelectToWrite(t) ==
    LET c == Top(t)
    IN  /\ At(t, "store") /\ ~Direct(c)
        /\ Enter(t, [c EXCEPT !.pc = "send"], Call(Node(c).select, "write", Bits(c.offset)))
        /\ UNCHANGED mem /\ Quiet

StoreData(t) ==
    LET c == Top(t)
    IN  /\ At(t, "send")
        /\ \E mask \in Masks(AccessBits(c)) :
             Enter(t, NextAccess(c), Call(Node(c).data, "write", Merged(c, c.value, mask)))
        /\ UNCHANGED mem /\ Quiet

\* The call of a register ends; what it read is the value of its caller.
Finished(c) == c.pc = "loop" /\ ~More(c)
Return(t) ==
    LET c == Top(t) caller == Below(t)[Len(Below(t))]
    IN  /\ Running(t) /\ Finished(c) /\ Len(calls[t]) > 1
        /\ calls' = [calls EXCEPT ![t] =
             Append(SubSeq(calls[t], 1, Len(calls[t]) - 2),
                    [caller EXCEPT !.value = IF c.op = "read" THEN c.dest ELSE @])]
        /\ UNCHANGED mem /\ Quiet
-------------------------------------------------------------------------------
\* Reference: the cell of bit i of the space that f lies in, and what a field
\* operation as a whole should do.
Spot(f, i) ==
    LET d == Field[f]
        reg(n) == {Field[d.select].offset + j : j \in {k \in Bits(n) : k < Field[d.select].size}}
    IN  CASE d.kind \in {"field", "bufferfield"} -> <<{}, i>>
          [] d.kind = "bankfield" -> <<reg(d.bank), i>>
          [] d.kind = "indexfield" -> <<reg(UnitOf(f, i)), Field[d.data].offset + (i % Width(f))>>
Slice(m, f) == {i \in 0..Field[f].size - 1 : Spot(f, Field[f].offset + i) \in m}
Home(f) == {Spot(f, Field[f].offset + i) : i \in 0..Field[f].size - 1}

\* The cells of the accesses that contain a bit of f.
Units(f) ==
    {Spot(f, ByteBits * UnitOf(f, Field[f].offset + k) + i) :
       k \in 0..Field[f].size - 1, i \in 0..Width(f) - 1}

\* What a write of f determines.
Touched(f) == IF Field[f].rule = "preserve" THEN Home(f) ELSE Units(f)

\* Index fields agree with their registers: an access fills the data register, and
\* the index register has room for the offsets, so that it tells accesses apart.
ASSUME IndexAssumption ==
    \A f \in Fields : Field[f].kind = "indexfield" =>
        /\ Field[Field[f].data].size = Width(f)
        /\ \A i, j \in 0..Field[f].size - 1 :
             Spot(f, Field[f].offset + i)[1] = Spot(f, Field[f].offset + j)[1]
               => UnitOf(f, Field[f].offset + i) = UnitOf(f, Field[f].offset + j)

Ideal(f, v) ==
    LET around == Units(f) \ Home(f)
        kept == CASE Field[f].rule = "preserve" -> ideal \ Home(f)
                  [] Field[f].rule = "ones" -> (ideal \ Home(f)) \cup around
                  [] Field[f].rule = "zeroes" -> ideal \ Units(f)
    IN  kept \cup {Spot(f, Field[f].offset + i) : i \in {j \in v : j < Field[f].size}}

\* The operation ends.
Finish(t) ==
    LET c == Top(t)
    IN  /\ Running(t) /\ Finished(c) /\ Len(calls[t]) = 1
        /\ calls' = [calls EXCEPT ![t] = <<>>]
        /\ ideal' = IF c.op = "write" THEN Ideal(c.field, c.source) ELSE ideal
        /\ UNCHANGED <<mem, done, crashed, raced>>

Step(t) ==
    \/ SelectBank(t) \/ Fetch(t) \/ Fill(t) \/ Store(t)
    \/ SelectToRead(t) \/ FetchData(t) \/ Fetched(t) \/ SelectToWrite(t) \/ StoreData(t)
    \/ Return(t) \/ Finish(t)

\* Every bit of a field is written as 0 and as 1.
Sources == {{0}, 1..WordBits - 1}

Next ==
    \/ \E t \in Threads : Step(t)
    \/ \E t \in Threads, f \in Public :
         \/ Start(t, f, "read", {}) \/ UseBuffer(t, f, "read", {})
         \/ \E v \in Sources : Start(t, f, "write", v) \/ UseBuffer(t, f, "write", v)

Spec == Init /\ [][Next]_vars

\* A thread that evaluates a field does not stop in the middle.
FairSpec == Spec /\ \A t \in Threads : WF_vars(Step(t))
-------------------------------------------------------------------------------
CallType ==
    [field : Fields, op : {"read", "write"}, source : SUBSET Nat, dest : SUBSET Nat,
     value : SUBSET Nat, progress : Nat, offset : Nat,
     pc : {"bank", "loop", "store", "fetch", "fetched", "send"}]

\* Calls have their types, never go past the end of the field, and those within
\* the operation are on registers.
TypeOK ==
    /\ mem \subseteq (SUBSET Nat) \X Nat
    /\ ideal \subseteq (SUBSET Nat) \X Nat
    /\ calls \in [Threads -> Seq(CallType)]
    /\ \A t \in Threads : \A k \in 1..Len(calls[t]) :
         LET c == calls[t][k]
         IN  c.progress <= Field[c.field].size /\ c.dest \subseteq 0..c.progress - 1
    /\ \A t \in Threads : \A k \in 2..Len(calls[t]) :
         calls[t][k].field \in {Field[calls[t][1].field].select, Field[calls[t][1].field].data}
    /\ done \in 0..MaxOperations
    /\ crashed \in BOOLEAN
    /\ raced \in SUBSET Nat

\* lai_read_buffer() does not shift.
Shiftless(f) == Field[f].kind = "bufferfield" /\ Field[f].offset % ByteBits # 0

\* What nobody relies on: what operations leave in index and bank registers, and
\* fields with an undefined mask.
Vague ==
    {<<{}, b>> : b \in UNION {Place(Field[f].select) : f \in {g \in Fields : Field[g].select # Nobody}}}
    \cup UNION {Home(f) : f \in {g \in Public : Wide(g)}}

\* Races are contained: a read by a thread that does not race returns what the last
\* write of the field stored, whatever operations race elsewhere and however many
\* accesses of others came in between: lai_read_field_internal() puts together what
\* lai_write_field_internal() took apart, and lai_read_buffer() what lai_write_buffer()
\* did, where a buffer field begins with a byte.
ReadsReturnWhatWasStored ==
    \A t \in Threads :
        calls[t] # <<>> /\ Calm(t) =>
            LET c == calls[t][1]
            IN  Len(calls[t]) = 1 /\ c.op = "read" /\ Finished(c)
                    /\ Home(c.field) \cap Vague = {} /\ ~Shiftless(c.field)
                  => c.dest = Slice(ideal, c.field)

\* The cells of the fields that AML relies on.
Homes == {Home(f) : f \in {g \in Public : Home(g) \cap Vague = {}}}
Writing(t) == calls[t] # <<>> /\ calls[t][1].op = "write"

\* A field keeps its bits while others are written, even in the middle of a write
\* to the same byte, unless that write is to set what is around it to ones or
\* zeroes.  Two read-modify-writes of one byte may undo each other, as the code takes
\* no lock, and an access may land behind the wrong index; but only in the accesses of
\* the operations that race, wherever the index that they find points to.
NeighboursKept ==
    LET written == UNION {Touched(calls[t][1].field) : t \in {u \in Threads : Writing(u)}}
    IN  \A home \in Homes :
            home \cap written = {} /\ (\A x \in home : x[2] \notin raced)
              => home \cap mem = home \cap ideal

\* "Write index register." then "Read data register.", "Write data register.": while
\* the data register is accessed the index register holds the offset of the access,
\* and while a bank is accessed the bank register holds its number, however many
\* accesses there were since; unless another thread uses the registers, too, without
\* a Mutex of the AML.
RegistersSelect ==
    \A t \in Threads :
        calls[t] # <<>> /\ Calm(t) =>
            LET c == calls[t][1] d == Field[c.field] n == Len(calls[t])
            IN  /\ d.kind = "indexfield" /\ n > 1 /\ Top(t).field = d.data /\ More(Top(t))
                     => Selected(mem, Field[d.data].offset) =
                        Spot(c.field, d.offset + IF c.pc = "fetched" THEN c.progress ELSE c.progress - 1)[1]
                /\ d.kind = "bankfield" /\ n = 1 /\ c.pc # "bank" /\ More(c)
                     => Selected(mem, d.offset) = Spot(c.field, d.offset)[1]

\* An operation ends, since every access moves on by at least one bit.
OperationsEnd == \A t \in Threads : calls[t] # <<>> ~> calls[t] = <<>> \/ crashed
=============================================================================
