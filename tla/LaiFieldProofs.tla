--------------------------- MODULE LaiFieldProofs ---------------------------
(***************************************************************************)
(* Fields of any layout, accessed by any number of threads: the accesses   *)
(* of an operation stay within the field, and those of a data register or  *)
(* of a bank only happen while the register before it holds the offset or  *)
(* the bank that the operation needs.                                      *)
(* The second part is about the memory: what is stored in a field is what  *)
(* is read from it.                                                        *)
(***************************************************************************)
EXTENDS LaiField, TLAPS, WellFoundedInduction, SequenceTheorems

(***************************************************************************)
(* The widths and offsets of accesses.                                     *)
(***************************************************************************)
LEMMA FieldTypes ==
  ASSUME NEW f \in Fields
  PROVE  /\ Field[f].kind \in Kinds /\ Field[f].offset \in Nat
         /\ Field[f].size \in 1..WordBits /\ Field[f].access \in Widths \cup {0}
         /\ Field[f].rule \in Rules /\ Field[f].select \in Fields \cup {Nobody}
         /\ Field[f].data \in Fields \cup {Nobody} /\ Field[f].bank \in Nat
         /\ WordBits \in Nat /\ Field[f].size \in Nat /\ f # Nobody
  BY FieldsAssumption, WidthsAssumption DEF FieldType

\* The smallest access that fits exists.
LEMMA LeastWidth ==
  ASSUME NEW S \in SUBSET Nat, S # {}
  PROVE  (CHOOSE w \in S : \A v \in S : w <= v) \in S
<1>1. \E x \in S : \A y \in S : ~ (<<y, x>> \in OpToRel(<, Nat))
  <2>1. S \subseteq Nat
    OBVIOUS
  <2> QED BY <2>1, WFMin, NatLessThanWellFounded
<1>2. \E x \in S : \A y \in S : ~(y < x)
  BY <1>1 DEF OpToRel
<1> HIDE <1>1
<1>3. \E x \in S : \A y \in S : x <= y
  BY <1>2
<1> QED BY <1>3

LEMMA WidthType ==
  ASSUME NEW f \in Fields
  PROVE  /\ Width(f) \in Widths /\ Width(f) \in Nat /\ Width(f) > 0
         /\ Width(f) <= WordBits /\ Width(f) % ByteBits = 0
<1> DEFINE fitting == {w \in Widths : Field[f].size <= w /\ w <= AnyBits}
<1>1. Widths \subseteq Nat /\ AnyBits \in Widths
  BY WidthsAssumption
<1>2. fitting # {} => (CHOOSE w \in fitting : \A v \in fitting : w <= v) \in fitting
  <2> fitting \in SUBSET Nat
    BY <1>1
  <2> HIDE DEF fitting
  <2> QED BY LeastWidth
<1>3. Width(f) \in Widths
  BY <1>1, <1>2, FieldTypes DEF Width
<1>4. Width(f) \in 1..WordBits /\ Width(f) % ByteBits = 0 /\ WordBits \in Nat
  <2> DEFINE w == Width(f)
  <2>1. w \in Widths
    BY <1>3
  <2> HIDE DEF w
  <2>2. w \in 1..WordBits /\ w % ByteBits = 0 /\ WordBits \in Nat
    BY <2>1, WidthsAssumption
  <2> QED BY <2>2 DEF w
<1> QED BY <1>3, <1>4

\* An access is a number of bytes.
LEMMA WidthBytes ==
  ASSUME NEW f \in Fields
  PROVE  \E q \in Nat : Width(f) = ByteBits * q /\ Width(f) \div ByteBits = q
<1> DEFINE W == Width(f)
           q == W \div ByteBits
<1>1. W \in Nat /\ W % ByteBits = 0 /\ ByteBits \in Nat /\ ByteBits > 0
  BY WidthType, WidthsAssumption
<1> HIDE DEF W
<1>2. q \in Nat /\ W = ByteBits * q + (W % ByteBits)
  BY <1>1
<1>3. W = ByteBits * q
  BY <1>1, <1>2
<1> QED BY <1>2, <1>3 DEF W

\* Quotient and remainder are unique.
LEMMA DivUnique ==
  ASSUME NEW n \in Nat, n > 0, NEW k \in Nat, NEW r \in 0..n - 1
  PROVE  (n * k + r) \div n = k /\ (n * k + r) % n = r
<1> DEFINE x == n * k + r
           d == x \div n
           e == x % n
<1>1. x \in Nat
  OBVIOUS
<1>2. d \in Int /\ e \in 0..n - 1 /\ x = n * d + e
  <2> HIDE DEF x
  <2> QED BY <1>1
<1> HIDE DEF d, e
<1>3. n * d + e = n * k + r
  BY <1>2 DEF x
<1>4. n * (d - k) = n * d - n * k
  BY <1>2
<1> DEFINE j == d - k
           p == n * j
<1>5. j \in Int /\ p = r - e
  <2>1. p = n * d - n * k
    BY <1>4
  <2> DEFINE a == n * d
             c == n * k
  <2>2. a \in Int /\ c \in Int
    BY <1>2
  <2> HIDE DEF a, c, p
  <2> QED BY <1>2, <1>3, <2>1, <2>2 DEF a, c
<1> HIDE DEF j
<1>6. CASE j >= 1
  <2>1. p >= n
    BY <1>5, <1>6
  <2> HIDE DEF p
  <2> QED BY <1>2, <1>5, <2>1
<1>7. CASE j <= -1
  <2>1. p <= -n
    BY <1>5, <1>7
  <2> HIDE DEF p
  <2> QED BY <1>2, <1>5, <2>1
<1>8. CASE j = 0
  <2>1. d = k
    BY <1>2, <1>8 DEF j
  <2>2. e = r
    BY <1>2, <1>5, <1>8
  <2> QED BY <2>1, <2>2 DEF d, e
<1> QED BY <1>5, <1>6, <1>7, <1>8

LEMMA Cancel ==
  ASSUME NEW n \in Nat, n > 0, NEW j \in Int, NEW k \in Int, n * j = n * k
  PROVE  j = k
<1>1. n * (j - k) = n * j - n * k
  OBVIOUS
<1> DEFINE d == j - k
           p == n * d
<1>2. d \in Int /\ p = 0
  BY <1>1
<1>3. d = 0
  <2> HIDE DEF d
  <2> QED BY <1>2
<1> QED BY <1>3

LEMMA Distributes ==
  ASSUME NEW n \in Int, NEW j \in Int, NEW k \in Int
  PROVE  n * (j + k) = n * j + n * k
OBVIOUS

\* A multiple of n is divided by it without a rest.
LEMMA Multiple ==
  ASSUME NEW n \in Nat, n > 0, NEW k \in Nat
  PROVE  (n * k) \div n = k
<1> DEFINE p == n * k
           d == p \div n
<1>1. p \in Nat
  OBVIOUS
<1>2. d \in Int /\ n * d <= p /\ p < n * d + n
  BY <1>1
<1> HIDE DEF d
<1>3. n * d <= n * k /\ n * k < n * (d + 1)
  BY <1>2
<1>4. d <= k /\ k < d + 1
  BY <1>2, <1>3
<1> QED BY <1>2, <1>4 DEF d

\* Where bit b is: in the access that begins at byte UnitOf(f, b), and at which of
\* its bits.
LEMMA UnitType ==
  ASSUME NEW f \in Fields, NEW b \in Nat
  PROVE  /\ UnitOf(f, b) \in Nat
         /\ b % Width(f) \in 0..Width(f) - 1
         /\ ByteBits * UnitOf(f, b) + (b % Width(f)) = b
<1> DEFINE W == Width(f)
           r == b % W
           k == b \div W
<1>1. W \in Nat /\ W > 0 /\ ByteBits \in Nat /\ ByteBits > 0
  BY WidthType, WidthsAssumption
<1>2. PICK q \in Nat : W = ByteBits * q
  BY WidthBytes
<1> HIDE DEF W
<1>3. k \in Nat /\ r \in 0..W - 1 /\ b = W * k + r
  BY <1>1
<1> HIDE DEF k, r
<1>4. b - r = ByteBits * (q * k) /\ q * k \in Nat
  <2>1. b - r = W * k
    BY <1>1, <1>3
  <2> QED BY <1>1, <1>2, <1>3, <2>1
<1>5. (ByteBits * (q * k)) \div ByteBits = q * k
  <2> DEFINE j == q * k
  <2>1. j \in Nat
    BY <1>4
  <2> HIDE DEF j
  <2>2. (ByteBits * j) \div ByteBits = j
    BY <1>1, <2>1, Multiple
  <2> QED BY <2>2 DEF j
<1>6. UnitOf(f, b) = q * k
  BY <1>4, <1>5 DEF UnitOf, W, r
<1>7. ByteBits * (q * k) + r = b
  BY <1>1, <1>3, <1>4
<1> QED BY <1>3, <1>4, <1>6, <1>7 DEF W, r

\* The bits of one access have the same byte offset.
LEMMA UnitSame ==
  ASSUME NEW f \in Fields, NEW b \in Nat, NEW j \in Nat, (b % Width(f)) + j < Width(f)
  PROVE  UnitOf(f, b + j) = UnitOf(f, b) /\ (b + j) % Width(f) = (b % Width(f)) + j
<1> DEFINE W == Width(f)
<1>1. W \in Nat /\ W > 0
  BY WidthType
<1> HIDE DEF W
<1>2. (b % W) + j < W
  BY DEF W
<1> DEFINE r == b % W
           k == b \div W
<1>3. k \in Nat /\ r \in 0..W - 1 /\ b = W * k + r
  BY <1>1
<1> HIDE DEF r, k
<1>4. b + j = W * k + (r + j) /\ r + j \in 0..W - 1
  BY <1>1, <1>2, <1>3 DEF r
<1>5. (W * k + (r + j)) % W = r + j
  BY <1>1, <1>3, <1>4, DivUnique
<1>6. (b + j) % W = (b % W) + j
  BY <1>4, <1>5 DEF r
<1>7. (b + j) - ((b + j) % W) = b - (b % W)
  BY <1>1, <1>3, <1>6 DEF r
<1> QED BY <1>6, <1>7 DEF UnitOf, W

\* The next access begins where this one ends.
LEMMA UnitNext ==
  ASSUME NEW f \in Fields, NEW b \in Nat, NEW n \in Nat, n = Width(f) - (b % Width(f))
  PROVE  /\ UnitOf(f, b + n) = UnitOf(f, b) + (Width(f) \div ByteBits)
         /\ (b + n) % Width(f) = 0
<1>1. PICK q \in Nat : Width(f) = ByteBits * q /\ Width(f) \div ByteBits = q
  BY WidthBytes
<1> DEFINE W == Width(f)
           u == UnitOf(f, b)
           v == UnitOf(f, b + n)
<1>2. W \in Nat /\ W > 0 /\ ByteBits \in Nat /\ ByteBits > 0 /\ W = ByteBits * q
  BY <1>1, WidthType, WidthsAssumption
<1>3. u \in Nat /\ b % W \in 0..W - 1 /\ ByteBits * u + (b % W) = b
  BY UnitType
<1>4. v \in Nat /\ ByteBits * v + ((b + n) % W) = b + n
  BY UnitType
<1> DEFINE r == b % W
           k == b \div W
<1>5. r \in 0..W - 1 /\ k \in Nat /\ b = W * k + r /\ n = W - r
  BY <1>2
<1>6. (b + n) % W = 0
  <2> HIDE DEF W, r, k
  <2>1. W * (k + 1) = W * k + W
    BY <1>2, <1>5, Distributes
  <2>2. b + n = W * (k + 1) + 0
    <3> DEFINE a == W * k
    <3>1. a \in Nat
      BY <1>2, <1>5
    <3> HIDE DEF a
    <3> QED BY <1>2, <1>5, <2>1, <3>1 DEF a
  <2>3. (W * (k + 1) + 0) % W = 0
    BY <1>2, <1>5, DivUnique
  <2> QED BY <2>2, <2>3
<1>7. ByteBits * v = ByteBits * (u + q)
  <2> HIDE DEF u, v, W
  <2>1. ByteBits * v = b + n
    <3> DEFINE a == ByteBits * v
    <3>1. a \in Nat
      BY <1>2, <1>4
    <3> HIDE DEF a
    <3>2. a + 0 = b + n
      BY <1>4, <1>6 DEF a
    <3> QED BY <3>1, <3>2 DEF a
  <2>2. b + n = ByteBits * u + W
    <3> DEFINE a == ByteBits * u
    <3>1. a \in Nat
      BY <1>2, <1>3
    <3> HIDE DEF a
    <3> QED BY <1>2, <1>3, <1>5, <3>1 DEF a
  <2>3. ByteBits * (u + q) = ByteBits * u + ByteBits * q
    BY <1>2, <1>3, Distributes
  <2> QED BY <1>2, <2>1, <2>2, <2>3
<1>8. v = u + q
  <2> HIDE DEF u, v, W
  <2> QED BY <1>2, <1>3, <1>4, <1>7, Cancel
<1> QED BY <1>1, <1>6, <1>8

(***************************************************************************)
(* The inductive invariant.                                                *)
(***************************************************************************)
Register(c) == Node(c).select
Position(c) == Node(c).offset + c.progress

\* The first n bits of register r are those of the value v, or all of them are.
HoldsUpTo(m, r, v, n) == \A j \in 0..n - 1 : <<{}, Field[r].offset + j>> \in m <=> j \in v
Holds(m, r, v) == HoldsUpTo(m, r, v, Field[r].size)

\* A call never goes past the end of its field; its offset is that of its next bit,
\* which is the first one of an access or of the field.
CallOK(c) ==
    /\ c.progress <= Node(c).size /\ c.dest \subseteq 0..c.progress - 1
    /\ More(c) =>
         /\ c.offset = UnitOf(c.field, Position(c))
         /\ c.progress = 0 \/ BitOffset(c) = 0
    /\ c.pc # "loop" => More(c)
    /\ c.pc = "bank" => c.progress = 0 /\ Node(c).kind = "bankfield"
    /\ c.pc \in {"fetch", "fetched", "send"} => Node(c).kind = "indexfield"
    /\ c.pc \in {"store", "send"} => c.op = "write"

\* What the call i of a register does for the call c.
Inner(c, i) ==
    \/ /\ i.field = Register(c) /\ i.op = "write"
       /\ \/ /\ Node(c).kind = "bankfield" /\ c.pc = "loop" /\ c.progress = 0
             /\ i.source = Bits(Node(c).bank)
          \/ /\ Node(c).kind = "indexfield" /\ c.pc \in {"fetch", "send"}
             /\ i.source = Bits(c.offset)
    \/ /\ i.field = Node(c).data /\ Node(c).kind = "indexfield"
       /\ \/ c.pc = "fetched" /\ i.op = "read"
          \/ c.pc = "loop" /\ c.progress > 0 /\ i.op = "write" /\ c.op = "write"

StackOK(s) ==
    /\ Len(s) \in 0..2 /\ \A k \in 1..Len(s) : CallOK(s[k])
    /\ Len(s) = 2 => Inner(s[1], s[2])

\* The access of c that the data register is used for.
Behind(c) == UnitOf(c.field, Position(c) - (IF c.pc = "fetched" THEN 0 ELSE 1))

\* The register holds what was written so far while it is written, and then what the
\* accesses need, to the end of the last one.
Selects(m, s) ==
    /\ Len(s) = 1 /\ Node(s[1]).kind = "bankfield" /\ s[1].pc # "bank"
         => Holds(m, Register(s[1]), Bits(Node(s[1]).bank))
    /\ Len(s) = 1 /\ s[1].pc \in {"fetch", "send"}
         => Holds(m, Register(s[1]), Bits(s[1].offset))
    /\ Len(s) = 2 /\ s[2].field = Register(s[1])
         => HoldsUpTo(m, s[2].field, s[2].source, s[2].progress)
    /\ Len(s) = 2 /\ s[2].field = Node(s[1]).data
         => Holds(m, Register(s[1]), Bits(Behind(s[1])))

Types ==
    /\ mem \subseteq (SUBSET Nat) \X Nat
    /\ ideal \subseteq (SUBSET Nat) \X Nat
    /\ calls \in [Threads -> Seq(CallType)]
    /\ done \in 0..MaxOperations
    /\ crashed \in BOOLEAN
    /\ raced \in SUBSET Nat

\* Nobody writes what a thread accesses that does not race, and those that race write
\* in raced.
Apart == \A t, u \in Threads : t # u /\ Calm(t) => Alters(u) \cap Busy(t) = {}
Contained == \A t \in Threads : Calm(t) \/ Alters(t) \subseteq raced
FieldInv ==
    /\ Types /\ Apart /\ Contained
    /\ \A t \in Threads : StackOK(calls[t]) /\ (Calm(t) => Selects(mem, calls[t]))

(***************************************************************************)
(* The accesses of a call.                                                 *)
(***************************************************************************)
LEMMA CallFields ==
  ASSUME NEW c \in CallType
  PROVE  /\ c.field \in Fields /\ c.op \in {"read", "write"}
         /\ c.source \in SUBSET Nat /\ c.dest \in SUBSET Nat /\ c.value \in SUBSET Nat
         /\ c.progress \in Nat /\ c.offset \in Nat
         /\ c.pc \in {"bank", "loop", "store", "fetch", "fetched", "send"}
  BY DEF CallType

\* The access of a call contains its next bit, and as many more as belong to the
\* access and to the field.
LEMMA Geometry ==
  ASSUME NEW c \in CallType, CallOK(c), More(c)
  PROVE  /\ Position(c) \in Nat /\ Width(c.field) \in Nat
         /\ BitOffset(c) \in 0..Width(c.field) - 1
         /\ ByteBits * c.offset + BitOffset(c) = Position(c)
         /\ AccessBits(c) \in 1..Width(c.field) - BitOffset(c)
         /\ AccessBits(c) <= Node(c).size - c.progress
         /\ \/ AccessBits(c) = Node(c).size - c.progress
            \/ AccessBits(c) = Width(c.field) - BitOffset(c)
<1> DEFINE f == c.field
           W == Width(f)
           o == BitOffset(c)
           k == Node(c).size - c.progress
<1>1. f \in Fields /\ c.progress \in Nat /\ c.offset \in Nat
  BY CallFields
<1>2. Node(c).offset \in Nat /\ Node(c).size \in Nat
  BY <1>1, FieldTypes DEF Node
<1>3. k \in Nat /\ k > 0
  BY <1>1, <1>2 DEF More
<1>4. Position(c) \in Nat /\ c.offset = UnitOf(f, Position(c)) /\ o = Position(c) % W
  BY <1>1, <1>2 DEF CallOK, Position, BitOffset
<1>5. o \in 0..W - 1 /\ ByteBits * c.offset + o = Position(c)
  BY <1>1, <1>4, UnitType
<1>6. W \in Nat
  BY <1>1, WidthType
<1>7. AccessBits(c) = MinOf(k, W - o)
  BY DEF AccessBits
<1> HIDE DEF f, W, o, k
<1>8. /\ AccessBits(c) \in 1..W - o /\ AccessBits(c) <= k
      /\ AccessBits(c) = k \/ AccessBits(c) = W - o
  BY <1>3, <1>5, <1>6, <1>7 DEF MinOf
<1> QED BY <1>4, <1>5, <1>6, <1>8 DEF f, W, o, k

\* After an access the call is at the beginning of the next one, or at the end of its
\* field; the last bit is one of the access.
LEMMA AccessEnds ==
  ASSUME NEW c \in CallType, CallOK(c), More(c),
         NEW d \in CallType, d.field = c.field, d.pc = "loop",
         d.progress = c.progress + AccessBits(c),
         d.offset = c.offset + (Width(c.field) \div ByteBits),
         d.dest \subseteq 0..d.progress - 1
  PROVE  CallOK(d) /\ d.progress > 0 /\ UnitOf(d.field, Position(d) - 1) = c.offset
<1> DEFINE f == c.field
           W == Width(f)
           o == BitOffset(c)
           n == AccessBits(c)
           b == Position(c)
<1>1. f \in Fields /\ c.progress \in Nat /\ c.offset \in Nat
  BY CallFields
<1>2. Node(c).offset \in Nat /\ Node(c).size \in Nat /\ Node(d) = Node(c)
  BY <1>1, FieldTypes DEF Node
<1>3. /\ b \in Nat /\ W \in Nat /\ o \in 0..W - 1 /\ n \in 1..W - o
      /\ n <= Node(c).size - c.progress
      /\ n = Node(c).size - c.progress \/ n = W - o
  BY Geometry
<1>4. o = b % W /\ c.offset = UnitOf(f, b) /\ b = Node(c).offset + c.progress
  BY DEF BitOffset, CallOK, Position
<1>5. Position(d) = b + n /\ Position(d) \in Nat
  <2>1. Position(d) = Node(c).offset + (c.progress + n)
    BY <1>2 DEF Position
  <2>2. n \in Nat
    BY <1>3
  <2>3. c.progress \in Nat /\ Node(c).offset \in Nat /\ b = Node(c).offset + c.progress
    BY <1>1, <1>2, <1>4
  <2> HIDE DEF b, n
  <2> QED BY ONLY <2>1, <2>2, <2>3
<1>6. UnitOf(f, Position(d) - 1) = c.offset
  <2> DEFINE j == n - 1
  <2>1. j \in Nat /\ (b % W) + j < W
    <3> HIDE DEF n, o, b, W
    <3> QED BY <1>3, <1>4
  <2>2. UnitOf(f, b + j) = UnitOf(f, b)
    <3> HIDE DEF j, b
    <3> QED BY <1>1, <1>3, <2>1, UnitSame DEF W
  <2>3. Position(d) - 1 = b + j
    <3> HIDE DEF n, b
    <3> QED BY <1>3, <1>5
  <2> QED BY <1>4, <2>2, <2>3
<1>7. d.progress \in Nat /\ d.progress > 0 /\ d.progress <= Node(d).size
  <2> HIDE DEF n
  <2> QED BY <1>1, <1>2, <1>3 DEF n
<1>8. More(d) => d.offset = UnitOf(f, Position(d)) /\ BitOffset(d) = 0
  <2> SUFFICES ASSUME More(d) PROVE d.offset = UnitOf(f, Position(d)) /\ BitOffset(d) = 0
    OBVIOUS
  <2>1. n = W - (b % W)
    <3>1. d.progress < Node(c).size
      BY <1>2 DEF More
    <3> HIDE DEF n, o, b, W
    <3> QED BY <1>1, <1>2, <1>3, <1>4, <3>1 DEF n
  <2>2. UnitOf(f, b + n) = UnitOf(f, b) + (W \div ByteBits) /\ (b + n) % W = 0
    <3>1. n \in Nat
      BY <1>3
    <3> HIDE DEF n, b
    <3> QED BY <1>1, <1>3, <2>1, <3>1, UnitNext DEF W
  <2>3. BitOffset(d) = Position(d) % W
    BY DEF BitOffset, Position
  <2> QED BY <1>4, <1>5, <2>2, <2>3
<1> QED BY <1>6, <1>7, <1>8 DEF CallOK

(***************************************************************************)
(* The bits that fields, accesses and registers have.                      *)
(***************************************************************************)
LEMMA UnitAccessed ==
  ASSUME NEW f \in Fields, Field[f].kind # "indexfield",
         NEW k \in 0..Field[f].size - 1, NEW i \in 0..Width(f) - 1
  PROVE  ByteBits * UnitOf(f, Field[f].offset + k) + i \in Accessed(f)
  BY DEF Accessed

LEMMA PlaceAccessed ==
  ASSUME NEW f \in Fields, Field[f].kind # "indexfield", NEW k \in 0..Field[f].size - 1
  PROVE  Field[f].offset + k \in Accessed(f)
<1> DEFINE b == Field[f].offset + k
           i == b % Width(f)
<1>1. b \in Nat
  BY FieldTypes
<1>2. i \in 0..Width(f) - 1 /\ ByteBits * UnitOf(f, b) + i = b
  <2> HIDE DEF b
  <2> QED BY <1>1, UnitType
<1>3. ByteBits * UnitOf(f, b) + i \in Accessed(f)
  <2>1. i \in 0..Width(f) - 1
    BY <1>2
  <2> HIDE DEF i
  <2> QED BY <2>1, UnitAccessed
<1> QED BY <1>2, <1>3

\* The bits of the access of a call.
Bytes(c) == {ByteBits * c.offset + i : i \in 0..Width(c.field) - 1}

LEMMA BytesAccessed ==
  ASSUME NEW c \in CallType, CallOK(c), More(c), Direct(c)
  PROVE  Bytes(c) \subseteq Accessed(c.field)
<1> DEFINE f == c.field
           k == c.progress
<1>1. f \in Fields /\ k \in Nat /\ Field[f].kind # "indexfield" /\ Node(c) = Field[f]
  BY CallFields DEF Direct, Node
<1>2. k \in 0..Field[f].size - 1
  BY <1>1, FieldTypes DEF More
<1>3. c.offset = UnitOf(f, Field[f].offset + k)
  BY <1>1 DEF CallOK, Position
<1>4. \A i \in 0..Width(f) - 1 : ByteBits * c.offset + i \in Accessed(f)
  <2> HIDE DEF f, k
  <2> QED BY <1>1, <1>2, <1>3, UnitAccessed
<1> QED BY <1>4 DEF Bytes

\* What an index field or a bank field needs of its registers.
LEMMA RegisterFacts ==
  ASSUME NEW f \in Fields, Field[f].select # Nobody
  PROVE  /\ Field[f].select \in Fields /\ Field[Field[f].select].kind = "field"
         /\ Accessed(Field[f].select) \subseteq Footprint(f) /\ ~Wide(Field[f].select)
         /\ \A b \in Accessed(Field[f].select) : Selector[b] = {}
         /\ Window(f) \in Fields /\ Field[Window(f)].kind # "indexfield"
         /\ Accessed(Window(f)) \subseteq Footprint(f)
         /\ \A b \in Accessed(Window(f)) : Selector[b] = Place(Field[f].select)
         /\ Accessed(Window(f)) \cap Accessed(Field[f].select) = {}
         /\ Window(f) # Field[f].select
<1> DEFINE r == Field[f].select
           w == Window(f)
<1>1. r \in Fields /\ r # Nobody /\ Field[r].kind = "field"
  BY FieldTypes, FieldsAssumption
<1>2. w \in Fields /\ w # Nobody /\ Field[w].kind # "indexfield" /\ w \in {f, Field[f].data}
  BY FieldTypes, FieldsAssumption DEF Window
<1>3. Accessed(r) \subseteq Footprint(f) /\ Accessed(w) \subseteq Footprint(f)
  <2> HIDE DEF w
  <2> QED BY <1>1, <1>2, FieldTypes DEF Footprint
<1>4. ~Wide(r) /\ (\A b \in Accessed(r) : Selector[b] = {})
      /\ \A b \in Accessed(w) : Selector[b] = Place(r)
  BY DeviceAssumption
<1>5. Field[r].offset + 0 \in Place(r) /\ Field[r].offset + 0 \in Accessed(r)
  <2>1. 0 \in 0..Field[r].size - 1
    BY <1>1, FieldTypes
  <2> HIDE DEF r
  <2> QED BY <1>1, <2>1, PlaceAccessed DEF Place
<1>6. Place(r) # {}
  BY <1>5
<1>7. Accessed(w) \cap Accessed(r) = {}
  BY <1>4, <1>6
<1>8. w # r
  BY <1>5, <1>7
<1> QED BY <1>1, <1>2, <1>3, <1>4, <1>7, <1>8

\* A write changes the bits of its access only.
LEMMA WrittenElsewhere ==
  ASSUME NEW m, NEW width, NEW offset, NEW v, NEW x, NEW b,
         b \notin {ByteBits * offset + i : i \in 0..width - 1}
  PROVE  <<x, b>> \in Written(m, width, offset, v) <=> <<x, b>> \in m
<1>1. \A i \in 0..width - 1 : <<x, b>> # Cell(m, ByteBits * offset + i)
  BY DEF Cell
<1> QED BY <1>1 DEF Written

\* A register keeps its bits when others are written.
LEMMA HoldsElsewhere ==
  ASSUME NEW m, NEW m2, NEW r, NEW v, NEW n, HoldsUpTo(m, r, v, n),
         \A j \in 0..n - 1 : <<{}, Field[r].offset + j>> \in m2 <=> <<{}, Field[r].offset + j>> \in m
  PROVE  HoldsUpTo(m2, r, v, n)
  BY DEF HoldsUpTo

\* The mask of a register is defined.
LEMMA MaskDefined ==
  ASSUME NEW c \in CallType, CallOK(c), More(c), ~Wide(c.field),
         NEW mask \in Masks(AccessBits(c))
  PROVE  mask = 0..AccessBits(c) - 1
<1> DEFINE f == c.field
           W == Width(f)
           o == BitOffset(c)
           n == AccessBits(c)
<1>1. f \in Fields /\ Node(c) = Field[f] /\ c.progress \in Nat
  BY CallFields DEF Node
<1>2. /\ Field[f].size \in Nat /\ Field[f].size <= WordBits /\ WordBits \in Nat
      /\ W <= WordBits /\ W \in Nat /\ Field[f].offset \in Nat
  BY <1>1, FieldTypes, WidthType
<1>3. o \in 0..W - 1 /\ n \in 1..W - o /\ n <= Field[f].size - c.progress
  BY <1>1, Geometry
<1>4. n < WordBits
  <2> SUFFICES ASSUME ~(n < WordBits) PROVE FALSE
    OBVIOUS
  <2>1. W = WordBits /\ o = 0 /\ Field[f].size - c.progress >= WordBits
    <3> HIDE DEF W, n, o
    <3> QED BY <1>1, <1>2, <1>3
  <2>2. c.progress \in 0..Field[f].size - 1
    <3> HIDE DEF W, n, o
    <3> QED BY <1>1, <1>2, <1>3, <2>1
  <2>3. Wide(f)
    <3>1. (Field[f].offset + c.progress) % WordBits = 0
      BY <1>1, <2>1 DEF BitOffset
    <3> QED BY <2>1, <2>2, <3>1 DEF Wide
  <2> QED BY <2>3
<1> QED BY <1>4 DEF Masks

LEMMA ShiftedBit ==
  ASSUME NEW v \in SUBSET Int, NEW n \in Int, NEW i \in Int
  PROVE  i \in Shifted(v, n) <=> i - n \in v
<1>1. ASSUME i - n \in v PROVE i \in Shifted(v, n)
  <2>1. i = (i - n) + n
    OBVIOUS
  <2> QED BY <1>1, <2>1 DEF Shifted
<1>2. ASSUME i \in Shifted(v, n) PROVE i - n \in v
  <2>1. PICK j \in v : i = j + n
    BY <1>2 DEF Shifted
  <2>2. j = i - n
    BY <2>1
  <2> QED BY <2>2
<1> QED BY <1>1, <1>2

LEMMA UnshiftedBit ==
  ASSUME NEW v \in SUBSET Nat, NEW n \in Nat, NEW i \in Int
  PROVE  i \in Unshifted(v, n) <=> i >= 0 /\ i + n \in v
<1>1. ASSUME i >= 0, i + n \in v PROVE i \in Unshifted(v, n)
  <2>1. i = (i + n) - n /\ i + n >= n
    BY <1>1
  <2> QED BY <1>1, <2>1 DEF Unshifted
<1>2. ASSUME i \in Unshifted(v, n) PROVE i >= 0 /\ i + n \in v
  <2>1. PICK j \in v : j >= n /\ i = j - n
    BY <1>2 DEF Unshifted
  <2>2. j = i + n /\ i >= 0
    BY <2>1
  <2> QED BY <2>1, <2>2
<1> QED BY <1>1, <1>2

\* Where the field is, what is written is the slice of the source.
LEMMA MergedBits ==
  ASSUME NEW c \in CallType, NEW old, NEW n \in Nat, NEW i \in 0..n - 1, BitOffset(c) \in Nat
  PROVE  BitOffset(c) + i \in Merged(c, old, 0..n - 1) <=> c.progress + i \in c.source
<1> DEFINE o == BitOffset(c)
           x == o + i
           part == Unshifted(c.source, c.progress) \cap (0..n - 1)
<1>1. c.source \in SUBSET Nat /\ c.progress \in Nat /\ i \in Nat /\ o \in Nat
  BY CallFields
<1>2. x \in Int /\ x - o = i /\ part \in SUBSET Int
  <2> HIDE DEF o
  <2> QED BY <1>1
<1>3. x \in Shifted(0..n - 1, o)
  <2>1. 0..n - 1 \in SUBSET Int
    OBVIOUS
  <2> HIDE DEF x
  <2>2. x - o \in 0..n - 1
    BY <1>2
  <2>3. o \in Int
    BY <1>1
  <2> HIDE DEF o
  <2> QED BY <1>2, <2>1, <2>2, <2>3, ShiftedBit
<1>4. x \in Shifted(part, o) <=> i \in part
  <2> HIDE DEF x, part
  <2>1. o \in Int
    BY <1>1
  <2> HIDE DEF o
  <2>2. x \in Shifted(part, o) <=> x - o \in part
    BY <1>2, <2>1, ShiftedBit
  <2> QED BY <1>2, <2>2
<1>5. i \in part <=> c.progress + i \in c.source
  <2>1. i \in Unshifted(c.source, c.progress) <=> i >= 0 /\ i + c.progress \in c.source
    BY <1>1, UnshiftedBit
  <2>2. i + c.progress = c.progress + i
    BY <1>1
  <2> QED BY <1>1, <2>1, <2>2
<1> HIDE DEF x, part, o
<1>6. Merged(c, old, 0..n - 1) = (old \ Shifted(0..n - 1, o)) \cup Shifted(part, o)
  BY DEF Merged, part, o
<1> QED BY <1>3, <1>4, <1>5, <1>6 DEF x, o

\* An access that writes a register stores the next bits of the source, and keeps the
\* ones before them.
LEMMA StoreRegister ==
  ASSUME NEW m, NEW old, NEW c \in CallType, CallOK(c), More(c), Node(c).kind = "field",
         \A b \in Accessed(c.field) : Selector[b] = {},
         HoldsUpTo(m, c.field, c.source, c.progress)
  PROVE  HoldsUpTo(Written(m, Width(c.field), c.offset, Merged(c, old, 0..AccessBits(c) - 1)),
                   c.field, c.source, c.progress + AccessBits(c))
<1> DEFINE f == c.field
           W == Width(f)
           o == BitOffset(c)
           n == AccessBits(c)
           p == c.progress
           new == Merged(c, old, 0..n - 1)
           m2 == Written(m, W, c.offset, new)
<1>1. f \in Fields /\ p \in Nat /\ c.offset \in Nat /\ Field[f] = Node(c) /\ Field[f].offset \in Nat
  BY CallFields, FieldTypes DEF Node
<1>2. /\ W \in Nat /\ o \in 0..W - 1 /\ n \in 1..W - o
      /\ ByteBits * c.offset + o = Field[f].offset + p
  BY <1>1, Geometry DEF Position
<1>3. ByteBits * c.offset \in Nat
  BY <1>1, WidthsAssumption
<1> DEFINE base == ByteBits * c.offset
<1>4. \A i \in 0..W - 1 : base + i \in Accessed(f)
  BY <1>1, BytesAccessed DEF Bytes, Direct
<1>5. \A i \in 0..W - 1 : Cell(m, base + i) = <<{}, base + i>>
  <2> HIDE DEF base, W, f
  <2> QED BY <1>4 DEF Cell, Selected, f
<1>6. \A i \in 0..W - 1 : <<{}, base + i>> \in m2 <=> i \in new
  <2> HIDE DEF base, W, f, new
  <2>1. m2 = (m \ {Cell(m, base + i) : i \in 0..W - 1})
             \cup {Cell(m, base + i) : i \in new \cap (0..W - 1)}
    BY DEF Written, base
  <2> HIDE DEF m2
  <2>2. ASSUME NEW i \in 0..W - 1, i \in new PROVE <<{}, base + i>> \in m2
    BY <1>5, <2>1, <2>2
  <2>3. ASSUME NEW i \in 0..W - 1, <<{}, base + i>> \in m2 PROVE i \in new
    <3>1. <<{}, base + i>> = Cell(m, base + i)
      BY <1>5
    <3>2. PICK k \in new \cap (0..W - 1) : <<{}, base + i>> = Cell(m, base + k)
      BY <2>1, <2>3, <3>1
    <3>3. base + i = base + k
      BY <1>5, <3>2
    <3>4. base \in Nat /\ i \in Nat /\ k \in Nat
      BY <1>3 DEF base
    <3>5. i = k
      BY <3>3, <3>4
    <3> QED BY <3>2, <3>5
  <2> QED BY <2>2, <2>3
<1>7. ASSUME NEW j \in 0..p - 1
      PROVE  <<{}, Field[f].offset + j>> \in m2 <=> j \in c.source
  <2>1. j \in Nat /\ j < p /\ p > 0
    BY <1>1
  <2>2. o = 0
    BY <1>1, <2>1 DEF CallOK
  <2> DEFINE b == Field[f].offset + j
  <2>3. b < base /\ b \in Nat
    <3> HIDE DEF base
    <3> QED BY <1>1, <1>2, <1>3, <2>1, <2>2 DEF base
  <2>4. b \notin {ByteBits * c.offset + i : i \in 0..W - 1}
    <3> SUFFICES ASSUME NEW i \in 0..W - 1, b = base + i PROVE FALSE
      OBVIOUS
    <3> HIDE DEF b, base
    <3> QED BY <1>3, <2>3 DEF base
  <2>5. <<{}, b>> \in m2 <=> <<{}, b>> \in m
    <3> HIDE DEF b, W, new
    <3> QED BY <2>4, WrittenElsewhere
  <2>6. <<{}, b>> \in m <=> j \in c.source
    BY DEF HoldsUpTo
  <2> QED BY <2>5, <2>6
<1>8. ASSUME NEW j \in p..(p + n) - 1
      PROVE  <<{}, Field[f].offset + j>> \in m2 <=> j \in c.source
  <2> DEFINE i == j - p
             x == o + i
  <2>1. i \in 0..n - 1 /\ x \in 0..W - 1 /\ p + i = j /\ n \in Nat /\ o \in Nat
    <3>1. n \in Nat /\ o \in Nat /\ o + n <= W
      <4> HIDE DEF n, o, W
      <4> QED BY <1>2
    <3> HIDE DEF n, o, W, p
    <3> QED BY <1>1, <1>2, <3>1
  <2>2. base + x = Field[f].offset + j
    <3> HIDE DEF base, n, o
    <3>1. base + o = Field[f].offset + p
      BY <1>2 DEF base
    <3>2. base \in Nat /\ o \in Nat /\ p \in Nat /\ Field[f].offset \in Nat /\ j \in Int
      BY <1>1, <1>3, <2>1 DEF base
    <3> HIDE DEF p, f
    <3> QED BY ONLY <3>1, <3>2
  <2>3. x \in new <=> p + i \in c.source
    <3> HIDE DEF i, n, p
    <3>1. o + i \in Merged(c, old, 0..n - 1) <=> c.progress + i \in c.source
      BY <2>1, MergedBits
    <3> QED BY <3>1 DEF p
  <2>4. <<{}, base + x>> \in m2 <=> x \in new
    <3> HIDE DEF x, m2, new, base
    <3> QED BY <1>6, <2>1
  <2> QED BY <2>1, <2>2, <2>3, <2>4
<1>9. \A j \in 0..(p + n) - 1 : <<{}, Field[f].offset + j>> \in m2 <=> j \in c.source
  <2>1. n \in Nat
    BY <1>2
  <2> HIDE DEF p, n, m2, f
  <2>2. \A j \in 0..(p + n) - 1 : j \in 0..p - 1 \/ j \in p..(p + n) - 1
    BY <1>1, <2>1
  <2> QED BY <1>7, <1>8, <2>2
<1>10. HoldsUpTo(m2, f, c.source, p + n)
  <2> HIDE DEF m2, f, p, n
  <2> QED BY <1>9 DEF HoldsUpTo
<1> QED BY <1>10

(***************************************************************************)
(* Stacks.                                                                 *)
(***************************************************************************)
LEMMA Appended ==
  ASSUME NEW S, NEW s \in Seq(S), NEW y \in S
  PROVE  /\ Append(s, y) \in Seq(S) /\ Len(Append(s, y)) = Len(s) + 1
         /\ Append(s, y)[Len(s) + 1] = y /\ \A i \in 1..Len(s) : Append(s, y)[i] = s[i]
  BY AppendProperties

LEMMA PairOf ==
  ASSUME NEW S, NEW s \in Seq(S), Len(s) = 1, NEW y \in S
  PROVE  Append(s, y) = <<s[1], y>>
<1>1. s[1] \in S
  BY ElementOfSeq
<1> DEFINE a == Append(s, y)
           x == s[1]
           e == <<x, y>>
<1>2. a \in Seq(S) /\ Len(a) = 2 /\ a[2] = y /\ a[1] = x
  <2>1. /\ Append(s, y) \in Seq(S) /\ Len(Append(s, y)) = Len(s) + 1
        /\ Append(s, y)[Len(s) + 1] = y /\ \A i \in 1..Len(s) : Append(s, y)[i] = s[i]
    BY ONLY s \in Seq(S), y \in S, Appended
  <2> QED BY <2>1
<1> HIDE DEF x
<1>3. e \in Seq(S) /\ Len(e) = 2 /\ e[1] = x /\ e[2] = y
  BY <1>1 DEF x
<1> HIDE DEF a, e
<1>4. Len(a) = Len(e) /\ \A i \in 1..Len(a) : a[i] = e[i]
  BY <1>2, <1>3
<1>5. a = e
  BY <1>2, <1>3, <1>4, SeqEqual
<1> QED BY <1>5 DEF a, e, x

LEMMA StackOfOne ==
  ASSUME NEW s \in Seq(CallType), Len(s) = 1, NEW x \in CallType, NEW y \in CallType
  PROVE  /\ Append(SubSeq(s, 1, Len(s) - 1), x) = <<x>>
         /\ Append(Append(SubSeq(s, 1, Len(s) - 1), x), y) = <<x, y>>
         /\ s[1] \in CallType
<1> DEFINE e == SubSeq(s, 1, Len(s) - 1)
<1>1. e = <<>>
  <2>1. Len(s) - 1 \in Int /\ Len(s) - 1 < 1
    OBVIOUS
  <2> QED BY <2>1, SubSeqEmpty
<1>2. s[1] \in CallType
  <2>1. 1 \in 1..Len(s)
    OBVIOUS
  <2> HIDE DEF e
  <2> QED BY <2>1, ElementOfSeq
<1> HIDE DEF e
<1>3. Append(e, x) = <<x>>
  BY <1>1
<1>4. Append(Append(e, x), y) = <<x, y>>
  <2> DEFINE z == <<x>>
  <2>1. z \in Seq(CallType) /\ Len(z) = 1 /\ z[1] = x
    OBVIOUS
  <2> HIDE DEF z
  <2>2. Append(z, y) = <<x, y>>
    BY <2>1, PairOf
  <2> QED BY <1>3, <2>2 DEF z
<1> QED BY <1>2, <1>3, <1>4 DEF e

LEMMA StackOfTwo ==
  ASSUME NEW s \in Seq(CallType), Len(s) = 2, NEW x \in CallType
  PROVE  /\ Append(SubSeq(s, 1, Len(s) - 1), x) = <<s[1], x>>
         /\ Append(SubSeq(s, 1, Len(s) - 2), x) = <<x>>
         /\ SubSeq(s, 1, Len(s) - 1)[Len(SubSeq(s, 1, Len(s) - 1))] = s[1]
         /\ s[1] \in CallType /\ s[2] \in CallType
<1>1. s[1] \in CallType /\ s[2] \in CallType
  BY ElementOfSeq, SMTT(30)
<1> DEFINE e == SubSeq(s, 1, Len(s) - 2)
           d == SubSeq(s, 1, Len(s) - 1)
<1>2. e = <<>>
  <2>1. Len(s) - 2 \in Int /\ Len(s) - 2 < 1
    OBVIOUS
  <2> QED BY <2>1, SubSeqEmpty
<1>3. d \in Seq(CallType) /\ Len(d) = 1 /\ d[1] = s[1]
  <2> DEFINE k == Len(s) - 1
  <2>1. k = 1
    OBVIOUS
  <2> HIDE DEF k
  <2>2. \A i \in 1..k : s[i] \in CallType
    BY <1>1, <2>1
  <2>3. /\ SubSeq(s, 1, k) \in Seq(CallType) /\ Len(SubSeq(s, 1, k)) = IF 1 <= k THEN k - 1 + 1 ELSE 0
        /\ \A i \in 1..k - 1 + 1 : SubSeq(s, 1, k)[i] = s[1 + i - 1]
    BY <2>1, <2>2, SubSeqProperties
  <2> DEFINE g == SubSeq(s, 1, k)
  <2> HIDE DEF g
  <2>4. g \in Seq(CallType) /\ Len(g) = 1 /\ g[1] = s[1]
    BY <2>1, <2>3 DEF g
  <2> QED BY <2>4 DEF g, k
<1> HIDE DEF e, d
<1>4. d = <<s[1]>>
  <2> DEFINE g == <<s[1]>>
  <2>1. g \in Seq(CallType) /\ Len(g) = 1 /\ g[1] = s[1]
    BY <1>1
  <2> HIDE DEF g
  <2>2. \A i \in 1..Len(d) : d[i] = g[i]
    BY <1>3, <2>1
  <2>3. d = g
    BY <1>3, <2>1, <2>2, SeqEqual
  <2> QED BY <2>3 DEF g
<1>5. Append(d, x) = <<s[1], x>> /\ Append(e, x) = <<x>>
  <2> DEFINE z == s[1]
  <2> HIDE DEF z
  <2>1. d = <<z>> /\ z \in CallType
    BY <1>1, <1>4 DEF z
  <2>2. Append(d, x) = <<z, x>>
    BY <1>3, PairOf DEF z
  <2>3. Append(e, x) = <<x>>
    BY <1>2
  <2> QED BY <2>2, <2>3 DEF z
<1>6. d[Len(d)] = s[1]
  BY <1>3
<1> QED BY <1>1, <1>5, <1>6 DEF d, e

LEMMA OneCall ==
  ASSUME NEW x \in CallType, CallOK(x)
  PROVE  <<x>> \in Seq(CallType) /\ StackOK(<<x>>) /\ <<x>>[1] = x /\ Len(<<x>>) = 1 /\ <<x>> # <<>>
  BY DEF StackOK

LEMMA TwoCalls ==
  ASSUME NEW x \in CallType, CallOK(x), NEW y \in CallType, CallOK(y), Inner(x, y)
  PROVE  /\ <<x, y>> \in Seq(CallType) /\ StackOK(<<x, y>>) /\ <<x, y>>[1] = x /\ <<x, y>>[2] = y
         /\ Len(<<x, y>>) = 2 /\ <<x, y>> # <<>>
<1>1. /\ <<x, y>> \in Seq(CallType) /\ <<x, y>>[1] = x /\ <<x, y>>[2] = y /\ Len(<<x, y>>) = 2
      /\ <<x, y>> # <<>>
  OBVIOUS
<1> DEFINE s == <<x, y>>
<1> HIDE DEF s
<1>2. StackOK(s)
  BY <1>1 DEF StackOK, s
<1> QED BY <1>1, <1>2 DEF s

\* What a call of a register is.
LEMMA InnerFacts ==
  ASSUME NEW x \in CallType, NEW y \in CallType, Inner(x, y)
  PROVE  /\ Register(x) \in Fields /\ Node(x).select # Nobody /\ Node(y).kind = "field"
         /\ y.field \in {Register(x), Node(x).data}
         /\ y.field = Register(x) => y.field # Node(x).data /\ y.op = "write"
         /\ y.field = Node(x).data => Node(x).kind = "indexfield"
         /\ Footprint(y.field) \subseteq Footprint(x.field)
<1> DEFINE f == x.field
           g == y.field
<1>1. f \in Fields /\ g \in Fields /\ Node(x) = Field[f] /\ Node(y) = Field[g] /\ g # Nobody
  BY CallFields, FieldsAssumption DEF Node
<1>2. Field[f].kind \in {"indexfield", "bankfield"}
  BY <1>1 DEF Inner
<1>3. Field[f].select # Nobody /\ Field[f].select \in Fields
  BY <1>1, <1>2, FieldTypes, FieldsAssumption
<1>4. g \in {Field[f].select, Field[f].data}
  BY <1>1 DEF Inner, Register
<1>5. Field[g].kind = "field"
  BY <1>1, <1>4, FieldsAssumption
<1>6. Field[g].select = Nobody /\ Field[g].data \notin Fields /\ Field[g].data = Nobody
  BY <1>1, <1>5, FieldTypes, FieldsAssumption
<1>7. Footprint(g) = Accessed(g)
  BY <1>1, <1>6 DEF Footprint
<1>8. Accessed(g) \subseteq Footprint(f)
  <2> HIDE DEF f, g
  <2> QED BY <1>1, <1>4 DEF Footprint
<1>9. g = Field[f].data => Field[f].kind = "indexfield"
  BY <1>1, FieldsAssumption
<1>10. g = Field[f].select => g # Field[f].data
  <2>1. Window(f) # Field[f].select
    BY <1>1, <1>3, RegisterFacts
  <2> QED BY <1>9, <2>1 DEF Window
<1>11. g = Field[f].select => y.op = "write"
  BY <1>1, <1>10 DEF Inner, Register
<1> QED BY <1>1, <1>3, <1>4, <1>5, <1>7, <1>8, <1>9, <1>10, <1>11 DEF Register

LEMMA RegisterOfKind ==
  ASSUME NEW f \in Fields, Field[f].kind \in {"indexfield", "bankfield"}
  PROVE  Field[f].select # Nobody /\ Field[f].select \in Fields
  BY FieldTypes, FieldsAssumption

\* A register keeps its value while its bits stay as they are.
LEMMA RegisterKeeps ==
  ASSUME NEW f \in Fields, Field[f].select # Nobody, NEW m, NEW m2, NEW v,
         NEW n \in Nat, n <= Field[Field[f].select].size, HoldsUpTo(m, Field[f].select, v, n),
         \A b \in Accessed(Field[f].select) : <<{}, b>> \in m2 <=> <<{}, b>> \in m
  PROVE  HoldsUpTo(m2, Field[f].select, v, n)
<1> DEFINE r == Field[f].select
<1>1. r \in Fields /\ Field[r].kind = "field"
  BY RegisterFacts
<1>2. Field[r].size \in Nat
  BY <1>1, FieldTypes
<1> HIDE DEF r
<1>3. \A j \in 0..n - 1 : Field[r].offset + j \in Accessed(r)
  <2>1. \A j \in 0..n - 1 : j \in 0..Field[r].size - 1
    BY <1>2 DEF r
  <2> QED BY <1>1, <2>1, PlaceAccessed
<1>4. \A j \in 0..n - 1 : <<{}, Field[r].offset + j>> \in m2 <=> <<{}, Field[r].offset + j>> \in m
  BY <1>3 DEF r
<1>5. HoldsUpTo(m2, r, v, n)
  <2> HIDE <1>3
  <2>1. HoldsUpTo(m, r, v, n)
    BY DEF r
  <2> QED BY <1>4, <2>1, HoldsElsewhere
<1> QED BY <1>5 DEF r

\* What others do does not disturb what a stack has selected.
LEMMA SelectsElsewhere ==
  ASSUME NEW s \in Seq(CallType), s # <<>>, StackOK(s), NEW m, NEW m2, Selects(m, s),
         \A b \in Footprint(s[1].field) : <<{}, b>> \in m2 <=> <<{}, b>> \in m
  PROVE  Selects(m2, s)
<1>1. Len(s) \in 1..2 /\ s[1] \in CallType /\ (Len(s) = 2 => s[2] \in CallType)
  <2>1. Len(s) # 0 /\ Len(s) \in 0..2
    BY EmptySeq DEF StackOK
  <2>2. Len(s) \in 1..2
    BY <2>1
  <2>3. 1 \in 1..Len(s) /\ (Len(s) = 2 => 2 \in 1..Len(s))
    BY <2>2
  <2> QED BY <2>2, <2>3, ElementOfSeq
<1> DEFINE x == s[1]
           f == x.field
<1>2. f \in Fields /\ Node(x) = Field[f] /\ Register(x) = Field[f].select
  BY <1>1, CallFields DEF Node, Register
<1>3. CallOK(x)
  BY <1>1 DEF StackOK
<1>4. ASSUME NEW v, NEW n \in Nat, Field[f].select # Nobody, n <= Field[Field[f].select].size,
             HoldsUpTo(m, Register(x), v, n)
      PROVE  HoldsUpTo(m2, Register(x), v, n)
  <2> HIDE DEF x
  <2>1. \A b \in Accessed(Field[f].select) : <<{}, b>> \in m2 <=> <<{}, b>> \in m
    <3>1. Accessed(Field[f].select) \subseteq Footprint(f)
      BY <1>2, <1>4, RegisterFacts
    <3> QED BY <3>1 DEF x
  <2> HIDE DEF f
  <2> QED BY <1>2, <1>4, <2>1, RegisterKeeps
<1>5. Field[f].select # Nobody => Field[Field[f].select].size \in Nat
  BY <1>2, FieldTypes
<1>6. ASSUME NEW v, Field[f].select # Nobody, Holds(m, Register(x), v)
      PROVE  Holds(m2, Register(x), v)
  <2> DEFINE n == Field[Field[f].select].size
  <2>1. n \in Nat /\ n <= n
    <3>1. n \in Nat
      BY <1>5, <1>6
    <3> HIDE DEF n
    <3> QED BY ONLY <3>1
  <2>2. n = Field[Register(x)].size
    BY <1>2
  <2>3. HoldsUpTo(m, Register(x), v, n)
    BY <1>6, <2>2 DEF Holds
  <2> HIDE DEF x
  <2>4. HoldsUpTo(m2, Register(x), v, n)
    BY <1>4, <1>6, <2>1, <2>3
  <2> QED BY <2>2, <2>4 DEF Holds
<1>7. ASSUME Len(s) = 1, Node(x).kind = "bankfield", x.pc # "bank"
      PROVE  Holds(m2, Register(x), Bits(Node(x).bank))
  <2>1. Holds(m, Register(x), Bits(Node(x).bank))
    BY <1>7 DEF Selects
  <2>2. Field[f].select # Nobody
    BY <1>2, <1>7, RegisterOfKind
  <2> HIDE DEF x, f
  <2> QED BY <1>6, <2>1, <2>2
<1>8. ASSUME Len(s) = 1, x.pc \in {"fetch", "send"}
      PROVE  Holds(m2, Register(x), Bits(x.offset))
  <2>1. Holds(m, Register(x), Bits(x.offset))
    BY <1>8 DEF Selects
  <2>2. Field[f].select # Nobody
    BY <1>2, <1>3, <1>8, RegisterOfKind DEF CallOK
  <2> HIDE DEF x, f
  <2> QED BY <1>6, <2>1, <2>2
<1>9. ASSUME Len(s) = 2, s[2].field = Register(x)
      PROVE  HoldsUpTo(m2, s[2].field, s[2].source, s[2].progress)
  <2> DEFINE y == s[2]
  <2>1. y \in CallType /\ CallOK(y) /\ Inner(x, y) /\ y.field = Register(x)
    BY <1>1, <1>9 DEF StackOK
  <2>2. Field[f].select # Nobody
    BY <1>1, <1>2, <2>1, InnerFacts
  <2>3. y.progress \in Nat /\ y.progress <= Field[Field[f].select].size
    BY <1>2, <2>1, CallFields DEF CallOK, Node
  <2>4. HoldsUpTo(m, Register(x), y.source, y.progress)
    BY <1>9 DEF Selects
  <2> HIDE DEF x, f, y
  <2>5. HoldsUpTo(m2, Register(x), y.source, y.progress)
    BY <1>4, <2>2, <2>3, <2>4
  <2> QED BY <2>1, <2>5 DEF y
<1>10. ASSUME Len(s) = 2, s[2].field = Node(x).data
       PROVE  Holds(m2, Register(x), Bits(Behind(x)))
  <2>1. Holds(m, Register(x), Bits(Behind(x)))
    BY <1>10 DEF Selects
  <2>2. Field[f].select # Nobody
    BY <1>1, <1>2, <1>10, InnerFacts DEF StackOK
  <2> HIDE DEF x, f
  <2> QED BY <1>6, <2>1, <2>2
<1> QED BY <1>7, <1>8, <1>9, <1>10 DEF Selects

(***************************************************************************)
(* A step of an operation gives thread t the stack s, and touches nothing  *)
(* but the bits that the operation writes.                                 *)
(***************************************************************************)
Advance(t, s) ==
    /\ calls[t] # <<>> /\ calls' = [calls EXCEPT ![t] = s]
    /\ s \in Seq(CallType) /\ StackOK(s) /\ (Calm(t) => Selects(mem', s))
    /\ s # <<>> => s[1].field = calls[t][1].field /\ s[1].op = calls[t][1].op
    /\ UNCHANGED raced
    /\ mem' \subseteq (SUBSET Nat) \X Nat
    /\ \A x, b : b \notin Alters(t) => (<<x, b>> \in mem' <=> <<x, b>> \in mem)
    /\ ideal' \subseteq (SUBSET Nat) \X Nat
    /\ done' \in 0..MaxOperations /\ crashed' \in BOOLEAN

\* A thread that does not race keeps what it has selected, whatever another one does.
LEMMA SelectedKept ==
  ASSUME FieldInv, NEW u \in Threads, Calm(u), NEW S, S \cap Busy(u) = {}, NEW m2,
         \A x, b : b \notin S => (<<x, b>> \in m2 <=> <<x, b>> \in mem)
  PROVE  Selects(m2, calls[u])
<1> DEFINE z == calls[u]
<1>1. z \in Seq(CallType) /\ StackOK(z) /\ Selects(mem, z)
  BY DEF FieldInv, Types
<1>2. ASSUME z = <<>> PROVE Selects(m2, z)
  <2>1. Len(z) = 0
    BY <1>2, EmptySeq
  <2> HIDE DEF z
  <2> QED BY <2>1 DEF Selects
<1>3. ASSUME z # <<>> PROVE Selects(m2, z)
  <2>1. Busy(u) = Footprint(z[1].field)
    BY <1>3 DEF Busy
  <2>2. \A b \in Footprint(z[1].field) : <<{}, b>> \in m2 <=> <<{}, b>> \in mem
    BY <2>1
  <2> HIDE DEF z
  <2> QED BY <1>1, <1>3, <2>2, SelectsElsewhere
<1> QED BY <1>2, <1>3

Advances(t) == \E s : Advance(t, s)

LEMMA AdvanceKeeps ==
  ASSUME FieldInv, NEW t \in Threads, NEW s, Advance(t, s)
  PROVE  FieldInv'
<1>1. calls' \in [Threads -> Seq(CallType)] /\ calls'[t] = s /\ raced' = raced
      /\ \A u \in Threads \ {t} : calls'[u] = calls[u]
  BY DEF FieldInv, Types, Advance
<1>2. Types'
  BY <1>1 DEF Types, Advance, FieldInv
<1>3. \A u \in Threads :
         \/ Busy(u)' = Busy(u) /\ Alters(u)' = Alters(u)
         \/ u = t /\ s = <<>> /\ Busy(u)' = {} /\ Alters(u)' = {}
  <2> SUFFICES ASSUME NEW u \in Threads
               PROVE  \/ Busy(u)' = Busy(u) /\ Alters(u)' = Alters(u)
                      \/ u = t /\ s = <<>> /\ Busy(u)' = {} /\ Alters(u)' = {}
    OBVIOUS
  <2>1. CASE u # t
    BY <1>1, <2>1 DEF Busy, Alters
  <2>2. CASE u = t /\ s = <<>>
    BY <1>1, <2>2 DEF Busy, Alters
  <2>3. CASE u = t /\ s # <<>>
    BY <1>1, <2>3 DEF Busy, Alters, Advance
  <2> QED BY <2>1, <2>2, <2>3
<1>4. ASSUME NEW u \in Threads, Calm(u)' PROVE Calm(u) \/ (u = t /\ s = <<>>)
  <2>1. Busy(u)' \cap raced = {}
    BY <1>1, <1>4 DEF Calm
  <2> QED BY <1>3, <2>1 DEF Calm
<1>5. Apart'
  <2> SUFFICES ASSUME NEW u \in Threads, NEW w \in Threads, u # w, Calm(u)'
               PROVE  Alters(w)' \cap Busy(u)' = {}
    BY DEF Apart
  <2>1. Busy(u)' = {} \/ (Calm(u) /\ Busy(u)' = Busy(u))
    <3>1. Busy(u)' \cap raced = {}
      BY <1>1 DEF Calm
    <3> QED BY <1>3, <3>1 DEF Calm
  <2>2. Alters(w)' = {} \/ Alters(w)' = Alters(w)
    BY <1>3
  <2> QED BY <2>1, <2>2 DEF FieldInv, Apart
<1>6. Contained'
  <2> SUFFICES ASSUME NEW u \in Threads PROVE Calm(u)' \/ Alters(u)' \subseteq raced'
    BY DEF Contained
  <2> QED BY <1>1, <1>3 DEF FieldInv, Contained, Calm
<1>7. ASSUME NEW u \in Threads PROVE StackOK(calls'[u]) /\ (Calm(u)' => Selects(mem', calls'[u]))
  <2>1. CASE u = t
    <3>1. CASE s = <<>>
      <4>1. Len(s) = 0
        BY <3>1, EmptySeq
      <4>2. Selects(mem', s)
        BY <4>1 DEF Selects
      <4> QED BY <1>1, <2>1, <4>2 DEF Advance
    <3>2. CASE s # <<>>
      BY <1>1, <1>4, <2>1, <3>2 DEF Advance
    <3> QED BY <3>1, <3>2
  <2>2. CASE u # t
    <3>1. StackOK(calls[u]) /\ calls'[u] = calls[u]
      BY <1>1, <2>2 DEF FieldInv
    <3>2. ASSUME Calm(u)' PROVE Selects(mem', calls[u])
      <4>1. Calm(u) /\ Alters(t) \cap Busy(u) = {}
        BY <1>4, <2>2, <3>2 DEF FieldInv, Apart
      <4>2. \A x, b : b \notin Alters(t) => (<<x, b>> \in mem' <=> <<x, b>> \in mem)
        BY DEF Advance
      <4> QED BY <4>1, <4>2, SelectedKept
    <3> QED BY <3>1, <3>2
  <2> QED BY <2>1, <2>2
<1>8. \A u \in Threads : (StackOK(calls[u]) /\ (Calm(u) => Selects(mem, calls[u])))'
  BY <1>7
<1> QED BY <1>2, <1>5, <1>6, <1>8 DEF FieldInv

(***************************************************************************)
(* What the operators return.                                              *)
(***************************************************************************)
LEMMA BitsType ==
  ASSUME NEW n
  PROVE  Bits(n) \in SUBSET Nat
  BY WidthsAssumption DEF Bits

LEMMA ReadType ==
  ASSUME NEW m, NEW width \in Nat, NEW offset
  PROVE  Read(m, width, offset) \in SUBSET Nat
  BY DEF Read

LEMMA MaskType ==
  ASSUME NEW n \in Nat, NEW mask \in Masks(n)
  PROVE  mask \subseteq 0..n - 1
  BY DEF Masks

LEMMA MemType ==
  ASSUME NEW m \in SUBSET ((SUBSET Nat) \X Nat), NEW b \in Nat
  PROVE  Cell(m, b) \in (SUBSET Nat) \X Nat
<1>1. \A r \in Selected(m, b) : r \in Nat
  <2> SUFFICES ASSUME NEW r \in Selected(m, b) PROVE r \in Nat
    OBVIOUS
  <2>1. <<{}, r>> \in m
    BY DEF Selected
  <2>2. <<{}, r>> \in (SUBSET Nat) \X Nat
    BY <2>1
  <2> QED BY <2>2
<1> QED BY <1>1 DEF Cell

LEMMA WrittenType ==
  ASSUME NEW m \in SUBSET ((SUBSET Nat) \X Nat), NEW width \in Nat, NEW offset \in Nat, NEW v
  PROVE  Written(m, width, offset, v) \subseteq (SUBSET Nat) \X Nat
<1>1. ByteBits * offset \in Nat
  BY WidthsAssumption
<1>2. ASSUME NEW i \in 0..width - 1 PROVE Cell(m, ByteBits * offset + i) \in (SUBSET Nat) \X Nat
  <2> DEFINE b == ByteBits * offset + i
  <2>1. b \in Nat
    BY <1>1
  <2> HIDE DEF b
  <2>2. Cell(m, b) \in (SUBSET Nat) \X Nat
    BY <2>1, MemType
  <2> QED BY <2>2 DEF b
<1>3. {Cell(m, ByteBits * offset + i) : i \in v \cap (0..width - 1)} \subseteq (SUBSET Nat) \X Nat
  BY <1>2
<1>4. m \subseteq (SUBSET Nat) \X Nat
  OBVIOUS
<1> QED BY ONLY <1>3, <1>4 DEF Written

LEMMA ShiftedType ==
  ASSUME NEW v \in SUBSET Nat, NEW n \in Nat
  PROVE  Shifted(v, n) \in SUBSET Nat
  BY DEF Shifted

LEMMA MergedType ==
  ASSUME NEW c \in CallType, CallOK(c), More(c), NEW old \in SUBSET Nat,
         NEW mask \in Masks(AccessBits(c))
  PROVE  Merged(c, old, mask) \in SUBSET Nat
<1>1. BitOffset(c) \in Nat /\ AccessBits(c) \in Nat
  BY Geometry
<1>2. mask \in SUBSET Nat
  BY <1>1, MaskType
<1> DEFINE part == Unshifted(c.source, c.progress) \cap mask
<1>3. part \in SUBSET Nat
  BY <1>2
<1> HIDE DEF part
<1>4. Shifted(part, BitOffset(c)) \in SUBSET Nat
  BY <1>1, <1>3, ShiftedType
<1> QED BY <1>4 DEF Merged, part

LEMMA BackgroundType ==
  ASSUME NEW c
  PROVE  Background(c) \in SUBSET Nat
  BY WidthsAssumption DEF Background

\* A call that begins is at its first bit.
LEMMA CallBegins ==
  ASSUME NEW f \in Fields, NEW op \in {"read", "write"}, NEW v \in SUBSET Nat
  PROVE  /\ Call(f, op, v) \in CallType /\ CallOK(Call(f, op, v))
         /\ Call(f, op, v).field = f /\ Call(f, op, v).op = op /\ Call(f, op, v).source = v
         /\ Call(f, op, v).progress = 0 /\ Node(Call(f, op, v)) = Field[f]
         /\ Call(f, op, v).pc = (IF Field[f].kind = "bankfield" THEN "bank" ELSE "loop")
<1> DEFINE c == Call(f, op, v)
           d == Field[f]
<1>1. UnitOf(f, d.offset) \in Nat /\ d.offset \in Nat /\ d.size \in Nat /\ d.size > 0
  BY FieldTypes, UnitType
<1>2. /\ c.field = f /\ c.op = op /\ c.source = v /\ c.dest = {} /\ c.value = {} /\ c.progress = 0
      /\ c.offset = UnitOf(f, d.offset) /\ c.pc = (IF d.kind = "bankfield" THEN "bank" ELSE "loop")
  BY DEF Call
<1>3. c \in CallType
  BY <1>1 DEF Call, CallType
<1>4. Node(c) = d
  BY <1>2 DEF Node
<1> HIDE DEF c
<1>5. More(c)
  BY <1>1, <1>2, <1>4 DEF More
<1>6. Position(c) = d.offset
  BY <1>1, <1>2, <1>4 DEF Position
<1>7. CallOK(c)
  <2> HIDE DEF d
  <2> QED BY <1>1, <1>2, <1>4, <1>5, <1>6 DEF CallOK, d
<1> QED BY <1>2, <1>3, <1>4, <1>7 DEF c

\* The same call at another place of its access.
LEMMA CallGoesOn ==
  ASSUME NEW c \in CallType, CallOK(c), More(c), NEW d \in CallType, d.field = c.field,
         d.progress = c.progress, d.offset = c.offset, d.dest = c.dest,
         d.pc \in {"store", "send"} => d.op = "write",
         \/ d.pc \in {"store", "loop"}
         \/ d.pc \in {"fetch", "fetched", "send"} /\ Node(c).kind = "indexfield"
  PROVE  CallOK(d) /\ More(d) /\ Node(d) = Node(c) /\ Position(d) = Position(c)
<1>1. /\ Node(d) = Node(c) /\ Position(d) = Position(c) /\ BitOffset(d) = BitOffset(c)
      /\ More(d)
  BY DEF Node, Position, BitOffset, More
<1> QED BY <1>1 DEF CallOK

LEMMA NextType ==
  ASSUME NEW c \in CallType, CallOK(c), More(c)
  PROVE  /\ NextAccess(c) \in CallType /\ CallOK(NextAccess(c)) /\ NextAccess(c).pc = "loop"
         /\ NextAccess(c).field = c.field /\ NextAccess(c).op = c.op
         /\ NextAccess(c).source = c.source
         /\ NextAccess(c).progress = c.progress + AccessBits(c) /\ NextAccess(c).progress > 0
         /\ UnitOf(c.field, Position(NextAccess(c)) - 1) = c.offset
<1> DEFINE d == NextAccess(c)
           n == AccessBits(c)
           q == Width(c.field) \div ByteBits
<1>1. c.field \in Fields /\ c.progress \in Nat /\ c.offset \in Nat
  BY CallFields
<1>2. n \in Nat /\ n > 0
  <2>1. n \in 1..Width(c.field) - BitOffset(c)
    BY Geometry
  <2> QED BY <2>1
<1>3. q \in Nat
  BY <1>1, WidthBytes
<1>4. /\ d.field = c.field /\ d.op = c.op /\ d.source = c.source /\ d.dest = c.dest
      /\ d.progress = c.progress + n /\ d.offset = c.offset + q /\ d.pc = "loop"
  BY DEF NextAccess, CallType
<1>5. d \in CallType
  <2> DEFINE p == c.progress + n
             o == c.offset + q
  <2>1. p \in Nat /\ o \in Nat
    BY <1>1, <1>2, <1>3
  <2>2. d = [c EXCEPT !.progress = p, !.offset = o, !.pc = "loop"]
    BY DEF NextAccess
  <2> HIDE DEF p, o, d
  <2> QED BY <2>1, <2>2 DEF CallType
<1>6. d.dest \subseteq 0..d.progress - 1
  <2>1. c.dest \subseteq 0..c.progress - 1
    BY DEF CallOK
  <2> HIDE DEF n, d
  <2> QED BY <1>1, <1>2, <1>4, <2>1
<1> HIDE DEF d, n, q
<1>7. CallOK(d) /\ d.progress > 0 /\ UnitOf(d.field, Position(d) - 1) = c.offset
  BY <1>4, <1>5, <1>6, AccessEnds DEF n, q
<1> QED BY <1>4, <1>5, <1>7 DEF d, n

LEMMA GotType ==
  ASSUME NEW c \in CallType, CallOK(c), More(c), NEW v, NEW mask \in Masks(AccessBits(c))
  PROVE  /\ Got(c, v, mask) \in CallType /\ CallOK(Got(c, v, mask)) /\ Got(c, v, mask).pc = "loop"
         /\ Got(c, v, mask).field = c.field /\ Got(c, v, mask).op = c.op
         /\ Got(c, v, mask).source = c.source
<1> DEFINE x == NextAccess(c)
           d == Got(c, v, mask)
           n == AccessBits(c)
           slice == Shifted(Unshifted(v, Lowest(c)) \cap mask, c.progress)
<1>1. c.field \in Fields /\ c.progress \in Nat /\ c.offset \in Nat
  BY CallFields
<1>2. n \in Nat /\ mask \subseteq 0..n - 1
  <2>1. n \in 1..Width(c.field) - BitOffset(c)
    BY Geometry
  <2>2. n \in Nat
    BY <2>1
  <2> HIDE DEF n
  <2>3. mask \in Masks(n)
    BY DEF n
  <2> QED BY <2>2, <2>3, MaskType
<1>3. /\ x \in CallType /\ CallOK(x) /\ x.field = c.field /\ x.op = c.op /\ x.source = c.source
      /\ x.pc = "loop" /\ x.progress = c.progress + n
  BY NextType
<1>4. \A i \in slice : i \in 0..(c.progress + n) - 1
  <2> SUFFICES ASSUME NEW i \in slice PROVE i \in 0..(c.progress + n) - 1
    OBVIOUS
  <2>1. PICK j \in mask : i = j + c.progress
    BY DEF Shifted
  <2>2. j \in 0..n - 1
    BY <1>2
  <2> HIDE DEF n
  <2> QED BY <1>1, <1>2, <2>1, <2>2
<1>5. x.dest \subseteq 0..(c.progress + n) - 1
  BY <1>3 DEF CallOK
<1>6. d = [x EXCEPT !.dest = x.dest \cup slice]
  BY DEF Got
<1> HIDE DEF x, slice, n
<1>7. d.dest \in SUBSET Nat /\ d.dest \subseteq 0..(c.progress + n) - 1
  <2>1. d.dest = x.dest \cup slice
    BY <1>3, <1>6 DEF CallType
  <2> HIDE DEF d
  <2>2. d.dest \subseteq 0..(c.progress + n) - 1
    BY <1>4, <1>5, <2>1
  <2>3. 0..(c.progress + n) - 1 \subseteq Nat
    BY <1>1, <1>2
  <2> QED BY <2>2, <2>3
<1>8. /\ d.field = x.field /\ d.op = x.op /\ d.source = x.source /\ d.pc = x.pc
      /\ d.progress = x.progress /\ d.offset = x.offset
  BY <1>3, <1>6 DEF CallType
<1>9. d \in CallType
  <2>1. x.dest \cup slice \in SUBSET Nat
    BY <1>3, <1>6, <1>7 DEF CallType
  <2> HIDE DEF d
  <2> QED BY <1>3, <1>6, <2>1 DEF CallType
<1>10. CallOK(d)
  <2> HIDE DEF d
  <2>1. More(d) <=> More(x)
    BY <1>8 DEF More, Node
  <2>2. Node(d) = Node(x) /\ Position(d) = Position(x) /\ BitOffset(d) = BitOffset(x)
    BY <1>8 DEF Node, Position, BitOffset
  <2>3. d.dest \subseteq 0..d.progress - 1
    BY <1>3, <1>7, <1>8
  <2> QED BY <1>3, <1>8, <2>1, <2>2, <2>3 DEF CallOK
<1> QED BY <1>3, <1>8, <1>9, <1>10 DEF d

\* Where fields are.
LEMMA SpotType ==
  ASSUME NEW f \in Fields, NEW i \in Nat
  PROVE  Spot(f, i) \in (SUBSET Nat) \X Nat
<1> DEFINE d == Field[f]
           reg(n) == {Field[d.select].offset + j : j \in {k \in Bits(n) : k < Field[d.select].size}}
<1>1. d.kind \in Kinds
  BY FieldTypes
<1>2. ASSUME d.select \in Fields, NEW n PROVE reg(n) \in SUBSET Nat
  BY <1>2, BitsType, FieldTypes
<1>3. CASE d.kind \in {"field", "bufferfield"}
  BY <1>3 DEF Spot
<1>4. CASE d.kind = "bankfield"
  <2>1. d.select \in Fields
    BY <1>4, RegisterOfKind
  <2>2. Spot(f, i) = <<reg(d.bank), i>>
    BY <1>4 DEF Spot
  <2>3. reg(d.bank) \in SUBSET Nat
    BY <1>2, <2>1
  <2> HIDE DEF reg
  <2> QED BY <2>2, <2>3
<1>5. CASE d.kind = "indexfield"
  <2>1. d.select \in Fields /\ d.data \in Fields
    BY <1>5, RegisterOfKind, FieldsAssumption
  <2>2. Spot(f, i) = <<reg(UnitOf(f, i)), Field[d.data].offset + (i % Width(f))>>
    BY <1>5 DEF Spot
  <2>3. reg(UnitOf(f, i)) \in SUBSET Nat
    BY <1>2, <2>1
  <2>4. Field[d.data].offset \in Nat /\ i % Width(f) \in Nat
    BY <2>1, FieldTypes, UnitType, SMTT(30)
  <2> HIDE DEF reg
  <2> QED BY <2>2, <2>3, <2>4
<1> QED BY <1>1, <1>3, <1>4, <1>5 DEF Kinds

LEMMA IdealType ==
  ASSUME NEW f \in Fields, NEW v \in SUBSET Nat, ideal \subseteq (SUBSET Nat) \X Nat
  PROVE  Ideal(f, v) \subseteq (SUBSET Nat) \X Nat
<1> DEFINE S == (SUBSET Nat) \X Nat
<1>1. Field[f].offset \in Nat /\ Field[f].size \in Nat
  BY FieldTypes
<1>2. \A i \in Nat : Spot(f, Field[f].offset + i) \in S
  <2> SUFFICES ASSUME NEW i \in Nat PROVE Spot(f, Field[f].offset + i) \in S
    OBVIOUS
  <2> DEFINE b == Field[f].offset + i
  <2>1. b \in Nat
    BY <1>1
  <2> HIDE DEF b
  <2> QED BY <2>1, SpotType DEF b
<1>3. Units(f) \subseteq S
  <2> SUFFICES ASSUME NEW k \in 0..Field[f].size - 1, NEW i \in 0..Width(f) - 1
               PROVE  Spot(f, ByteBits * UnitOf(f, Field[f].offset + k) + i) \in S
    BY DEF Units
  <2> DEFINE u == UnitOf(f, Field[f].offset + k)
             b == ByteBits * u + i
  <2>1. u \in Nat
    <3> DEFINE x == Field[f].offset + k
    <3>1. x \in Nat
      BY <1>1
    <3> HIDE DEF x
    <3>2. UnitOf(f, x) \in Nat
      BY <3>1, UnitType
    <3> QED BY <3>2 DEF x
  <2> HIDE DEF u
  <2>2. b \in Nat
    BY <2>1, WidthsAssumption, WidthType
  <2> HIDE DEF b
  <2>3. Spot(f, b) \in S
    BY <2>2, SpotType
  <2> QED BY <2>3 DEF b, u
<1> DEFINE new == {Spot(f, Field[f].offset + i) : i \in {j \in v : j < Field[f].size}}
           kept == CASE Field[f].rule = "preserve" -> ideal \ Home(f)
                     [] Field[f].rule = "ones" -> (ideal \ Home(f)) \cup (Units(f) \ Home(f))
                     [] Field[f].rule = "zeroes" -> ideal \ Units(f)
<1>4. kept \subseteq S
  <2>1. Field[f].rule \in Rules
    BY FieldTypes
  <2> QED BY <1>3, <2>1 DEF Rules
<1>5. Ideal(f, v) = kept \cup new
  BY DEF Ideal
<1>6. new \subseteq S
  BY <1>2
<1> HIDE DEF kept, new, S
<1> QED BY <1>4, <1>5, <1>6 DEF S

(***************************************************************************)
(* The steps.                                                              *)
(***************************************************************************)
LEMMA RunningStack ==
  ASSUME FieldInv, NEW t \in Threads, calls[t] # <<>>
  PROVE  /\ calls[t] \in Seq(CallType) /\ Len(calls[t]) \in 1..2 /\ StackOK(calls[t])
         /\ Calm(t) => Selects(mem, calls[t])
         /\ calls[t][1] \in CallType /\ CallOK(calls[t][1])
         /\ Top(t) \in CallType /\ CallOK(Top(t))
         /\ Len(calls[t]) = 1 => Top(t) = calls[t][1]
         /\ Len(calls[t]) = 2 =>
              Top(t) = calls[t][2] /\ Inner(calls[t][1], Top(t)) /\ Node(Top(t)).kind = "field"
         /\ Busy(t) = Footprint(calls[t][1].field)
         /\ Footprint(Top(t).field) \subseteq Busy(t)
<1> DEFINE s == calls[t]
<1>1. s \in Seq(CallType) /\ StackOK(s) /\ (Calm(t) => Selects(mem, s)) /\ s # <<>>
  BY DEF FieldInv, Types
<1>2. Len(s) \in 1..2
  <2>1. Len(s) # 0 /\ Len(s) \in 0..2
    BY <1>1, EmptySeq DEF StackOK
  <2> HIDE DEF s
  <2> QED BY <2>1
<1>3. \A k \in 1..Len(s) : s[k] \in CallType /\ CallOK(s[k])
  <2> HIDE DEF s
  <2> QED BY <1>1, ElementOfSeq DEF StackOK
<1>4. s[1] \in CallType /\ CallOK(s[1]) /\ (Len(s) = 2 => s[2] \in CallType)
      /\ Top(t) \in CallType /\ CallOK(Top(t)) /\ Top(t) = s[Len(s)]
  <2>1. Top(t) = s[Len(s)]
    BY DEF Top
  <2> HIDE DEF s
  <2>2. 1 \in 1..Len(s) /\ Len(s) \in 1..Len(s) /\ (Len(s) = 2 => 2 \in 1..Len(s))
    BY <1>2
  <2> QED BY <1>3, <2>1, <2>2
<1>5. Len(s) = 2 => Inner(s[1], s[2])
  BY <1>1 DEF StackOK
<1>6. Len(s) = 2 => Node(Top(t)).kind = "field" /\ Footprint(Top(t).field) \subseteq Footprint(s[1].field)
  <2> DEFINE x == s[1]
             y == Top(t)
  <2>1. Len(s) = 2 => x \in CallType /\ y \in CallType /\ Inner(x, y)
    BY <1>4, <1>5
  <2> HIDE DEF s, x, y
  <2>2. Len(s) = 2 => Node(y).kind = "field" /\ Footprint(y.field) \subseteq Footprint(x.field)
    BY <2>1, InnerFacts
  <2> QED BY <2>2 DEF x, y
<1>7. Busy(t) = Footprint(s[1].field)
  BY DEF Busy
<1>8. Footprint(Top(t).field) \subseteq Busy(t)
  BY <1>2, <1>4, <1>6, <1>7
<1> QED BY <1>1, <1>2, <1>4, <1>5, <1>6, <1>7, <1>8

\* A step that leaves the memory alone.
LEMMA QuietAdvance ==
  ASSUME FieldInv, NEW t \in Threads, calls[t] # <<>>, NEW s \in Seq(CallType),
         calls' = [calls EXCEPT ![t] = s], StackOK(s), Calm(t) => Selects(mem, s),
         s # <<>> => s[1].field = calls[t][1].field /\ s[1].op = calls[t][1].op,
         UNCHANGED mem, Quiet
  PROVE  Advances(t)
<1>1. mem' = mem /\ mem' \subseteq (SUBSET Nat) \X Nat
  BY DEF FieldInv, Types
<1>2. /\ ideal' \subseteq (SUBSET Nat) \X Nat /\ done' \in 0..MaxOperations /\ crashed' \in BOOLEAN
      /\ raced' = raced
  BY DEF FieldInv, Types, Quiet
<1>3. Calm(t) => Selects(mem', s)
  BY <1>1
<1>4. Advance(t, s)
  BY <1>1, <1>2, <1>3 DEF Advance
<1> QED BY <1>4 DEF Advances

\* The call on top goes on, and a register that it writes does not change.
LEMMA ReplaceTop ==
  ASSUME FieldInv, NEW t \in Threads, calls[t] # <<>>, NEW d \in CallType, CallOK(d), Replace(t, d),
         d.field = Top(t).field, d.op = Top(t).op, d.source = Top(t).source,
         d.pc \in {"loop", "store"}, Top(t).pc # "bank",
         Len(calls[t]) = 2 /\ d.field = Register(calls[t][1]) => d.progress = Top(t).progress,
         UNCHANGED mem, Quiet
  PROVE  Advances(t)
<1> DEFINE s == calls[t]
           c == Top(t)
<1>1. /\ s \in Seq(CallType) /\ Len(s) \in 1..2 /\ (Calm(t) => Selects(mem, s)) /\ s[1] \in CallType
      /\ CallOK(s[1]) /\ (Len(s) = 1 => c = s[1]) /\ (Len(s) = 2 => c = s[2] /\ Inner(s[1], c))
  BY RunningStack
<1>2. calls' = [calls EXCEPT ![t] = Append(SubSeq(s, 1, Len(s) - 1), d)]
  BY DEF Replace, Below
<1>3. CASE Len(s) = 1
  <2>1. calls' = [calls EXCEPT ![t] = <<d>>]
    <3> HIDE DEF s
    <3> QED BY <1>1, <1>2, <1>3, StackOfOne
  <2>2. <<d>> \in Seq(CallType) /\ StackOK(<<d>>) /\ <<d>>[1] = d /\ Len(<<d>>) = 1
    BY OneCall
  <2>3. Node(d) = Node(c) /\ Register(d) = Register(c) /\ c = s[1]
    BY <1>1, <1>3 DEF Node, Register
  <2> DEFINE z == <<d>>
  <2> HIDE DEF z, s, c
  <2>4. z[1] = d /\ Len(z) = 1
    BY <2>2 DEF z
  <2>5. Calm(t) /\ Node(d).kind = "bankfield" => Holds(mem, Register(d), Bits(Node(d).bank))
    BY <1>1, <1>3, <2>3 DEF Selects, c
  <2>6. Calm(t) => Selects(mem, z)
    BY <2>4, <2>5 DEF Selects
  <2>7. z[1].field = s[1].field /\ z[1].op = s[1].op
    BY <2>3, <2>4 DEF c
  <2> QED BY <2>1, <2>2, <2>6, <2>7, QuietAdvance DEF z, s
<1>4. CASE Len(s) = 2
  <2> DEFINE x == s[1]
  <2>1. calls' = [calls EXCEPT ![t] = <<x, d>>]
    <3> HIDE DEF s
    <3> QED BY <1>1, <1>2, <1>4, StackOfTwo
  <2>2. Inner(x, d)
    <3>1. Inner(x, c)
      BY <1>1, <1>4
    <3> QED BY <3>1 DEF Inner
  <2>3. /\ <<x, d>> \in Seq(CallType) /\ StackOK(<<x, d>>) /\ <<x, d>>[1] = x /\ <<x, d>>[2] = d
        /\ Len(<<x, d>>) = 2
    BY <1>1, <2>2, TwoCalls
  <2> DEFINE z == <<x, d>>
  <2> HIDE DEF z
  <2>4. z[1] = x /\ z[2] = d /\ Len(z) = 2
    BY <2>3 DEF z
  <2>5. Calm(t) /\ d.field = Register(x) => HoldsUpTo(mem, d.field, d.source, d.progress)
    <3> SUFFICES ASSUME Calm(t), d.field = Register(x) PROVE HoldsUpTo(mem, d.field, d.source, d.progress)
      OBVIOUS
    <3>1. HoldsUpTo(mem, c.field, c.source, c.progress)
      BY <1>1, <1>4 DEF Selects
    <3> QED BY <1>4, <3>1
  <2>6. Calm(t) /\ d.field = Node(x).data => Holds(mem, Register(x), Bits(Behind(x)))
    BY <1>1, <1>4 DEF Selects
  <2>7. Calm(t) => Selects(mem, z)
    BY <2>4, <2>5, <2>6 DEF Selects
  <2>8. z[1].field = calls[t][1].field /\ z[1].op = calls[t][1].op
    BY <2>4
  <2> QED BY <2>1, <2>3, <2>7, <2>8, QuietAdvance DEF z
<1> QED BY <1>1, <1>3, <1>4

\* A call of a register begins.
LEMMA PushCall ==
  ASSUME FieldInv, NEW t \in Threads, calls[t] # <<>>, Len(calls[t]) = 1,
         NEW x \in CallType, CallOK(x), x.field = Top(t).field, x.op = Top(t).op,
         NEW y \in CallType, CallOK(y), Inner(x, y), Enter(t, x, y), y.progress = 0,
         Calm(t) /\ y.field = Node(x).data => Holds(mem, Register(x), Bits(Behind(x))),
         UNCHANGED mem, Quiet
  PROVE  Advances(t)
<1> DEFINE s == calls[t]
<1>1. s \in Seq(CallType) /\ Top(t) = s[1]
  BY RunningStack
<1>2. calls' = [calls EXCEPT ![t] = <<x, y>>]
  <2>1. calls' = [calls EXCEPT ![t] = Append(Append(SubSeq(s, 1, Len(s) - 1), x), y)]
    BY DEF Enter, Below
  <2> HIDE DEF s
  <2> QED BY <1>1, <2>1, StackOfOne DEF s
<1>3. /\ <<x, y>> \in Seq(CallType) /\ StackOK(<<x, y>>) /\ <<x, y>>[1] = x /\ <<x, y>>[2] = y
      /\ Len(<<x, y>>) = 2
  BY TwoCalls
<1> DEFINE z == <<x, y>>
<1> HIDE DEF z
<1>4. z[1] = x /\ z[2] = y /\ Len(z) = 2
  BY <1>3 DEF z
<1>5. HoldsUpTo(mem, y.field, y.source, y.progress)
  BY DEF HoldsUpTo
<1>6. Calm(t) => Selects(mem, z)
  BY <1>4, <1>5 DEF Selects
<1>7. z[1].field = calls[t][1].field /\ z[1].op = calls[t][1].op
  BY <1>1, <1>4
<1> QED BY <1>2, <1>3, <1>6, <1>7, QuietAdvance DEF z

LEMMA RegisterCall ==
  ASSUME NEW x \in CallType, Node(x).kind \in {"indexfield", "bankfield"}, NEW v \in SUBSET Nat
  PROVE  LET y == Call(Node(x).select, "write", v)
         IN  /\ y \in CallType /\ CallOK(y) /\ y.field = Register(x) /\ y.op = "write"
             /\ y.source = v /\ y.progress = 0 /\ y.field # Node(x).data
<1> DEFINE f == x.field
           r == Node(x).select
           y == Call(r, "write", v)
<1>1. f \in Fields /\ Node(x) = Field[f]
  BY CallFields DEF Node
<1>2. r \in Fields /\ r # Nobody /\ Field[f].select # Nobody
  BY <1>1, RegisterOfKind, FieldsAssumption
<1>3. Field[r].kind = "field" /\ Window(f) # r
  BY <1>1, <1>2, RegisterFacts
<1>4. /\ y \in CallType /\ CallOK(y) /\ y.field = r /\ y.op = "write" /\ y.source = v
      /\ y.progress = 0
  <2> HIDE DEF r
  <2> QED BY <1>2, CallBegins
<1>5. r # Node(x).data
  <2>1. CASE Field[f].kind = "indexfield"
    BY <1>1, <1>3, <2>1 DEF Window
  <2>2. CASE Field[f].kind # "indexfield"
    BY <1>1, <1>2, <2>2, FieldsAssumption
  <2> QED BY <2>1, <2>2
<1> HIDE DEF y
<1>6. y.field = Register(x) /\ y.field # Node(x).data
  BY <1>4, <1>5 DEF Register
<1> QED BY <1>4, <1>6 DEF y

LEMMA DataCall ==
  ASSUME NEW x \in CallType, Node(x).kind = "indexfield", NEW op \in {"read", "write"},
         NEW v \in SUBSET Nat
  PROVE  LET y == Call(Node(x).data, op, v)
         IN  /\ y \in CallType /\ CallOK(y) /\ y.field = Node(x).data /\ y.op = op
             /\ y.source = v /\ y.progress = 0
<1> DEFINE d == Node(x).data
<1>1. d \in Fields /\ d # Nobody /\ Field[d].kind = "field"
  BY CallFields, FieldsAssumption DEF Node
<1> HIDE DEF d
<1>2. /\ Call(d, op, v) \in CallType /\ CallOK(Call(d, op, v)) /\ Call(d, op, v).field = d
      /\ Call(d, op, v).op = op /\ Call(d, op, v).source = v /\ Call(d, op, v).progress = 0
  BY <1>1, CallBegins
<1> QED BY <1>2 DEF d

\* The field of the call on top is that of the operation, unless its kind is "field".
LEMMA TopIsOperation ==
  ASSUME FieldInv, NEW t \in Threads, calls[t] # <<>>, Node(Top(t)).kind # "field"
  PROVE  Len(calls[t]) = 1 /\ Top(t) = calls[t][1]
<1>1. Len(calls[t]) \in 1..2 /\ (Len(calls[t]) = 2 => Node(Top(t)).kind = "field")
      /\ (Len(calls[t]) = 1 => Top(t) = calls[t][1])
  BY RunningStack
<1> QED BY <1>1

LEMMA SelectBankStep ==
  ASSUME FieldInv, NEW t \in Threads, SelectBank(t)
  PROVE  Advances(t)
<1> DEFINE c == Top(t)
           x == [c EXCEPT !.pc = "loop"]
           y == Call(Node(c).select, "write", Bits(Node(c).bank))
<1>1. calls[t] # <<>> /\ c.pc = "bank" /\ Enter(t, x, y) /\ UNCHANGED mem /\ Quiet
  BY DEF SelectBank, At, Running
<1>2. c \in CallType /\ CallOK(c)
  BY <1>1, RunningStack
<1>3. c.progress = 0 /\ Node(c).kind = "bankfield" /\ More(c)
  BY <1>1, <1>2 DEF CallOK
<1>4. Len(calls[t]) = 1
  BY <1>1, <1>3, TopIsOperation
<1>5. /\ x \in CallType /\ x.pc = "loop" /\ x.field = c.field /\ x.progress = c.progress
      /\ x.offset = c.offset /\ x.dest = c.dest /\ x.op = c.op
  BY <1>2 DEF CallType
<1> HIDE DEF x, c
<1>6. CallOK(x) /\ Node(x) = Node(c)
  BY <1>2, <1>3, <1>5, CallGoesOn
<1>7. /\ y \in CallType /\ CallOK(y) /\ y.field = Register(x) /\ y.op = "write"
      /\ y.source = Bits(Node(c).bank) /\ y.progress = 0 /\ y.field # Node(x).data
  BY <1>3, <1>5, <1>6, RegisterCall, BitsType
<1> HIDE DEF y
<1>8. Inner(x, y)
  BY <1>3, <1>5, <1>6, <1>7 DEF Inner
<1>9. Enter(t, x, y)
  BY <1>1
<1> QED BY <1>1, <1>4, <1>5, <1>6, <1>7, <1>8, <1>9, PushCall DEF c

LEMMA FetchStep ==
  ASSUME FieldInv, NEW t \in Threads, Fetch(t)
  PROVE  Advances(t)
<1> DEFINE c == Top(t)
           v == Read(mem, Width(c.field), c.offset)
<1>1. /\ calls[t] # <<>> /\ c.pc = "loop" /\ More(c) /\ Direct(c) /\ UNCHANGED mem /\ Quiet
      /\ IF c.op = "read" THEN \E mask \in Masks(AccessBits(c)) : Replace(t, Got(c, v, mask))
         ELSE Replace(t, [c EXCEPT !.value = v, !.pc = "store"])
  BY DEF Fetch, At, Running
<1>2. /\ c \in CallType /\ CallOK(c) /\ Len(calls[t]) \in 1..2
      /\ Len(calls[t]) = 2 => Inner(calls[t][1], c) /\ calls[t][1] \in CallType
  BY <1>1, RunningStack
<1>3. CASE c.op = "read"
  <2>1. PICK mask \in Masks(AccessBits(c)) : Replace(t, Got(c, v, mask))
    BY <1>1, <1>3
  <2> DEFINE d == Got(c, v, mask)
  <2>2. /\ d \in CallType /\ CallOK(d) /\ d.pc = "loop" /\ d.field = c.field /\ d.op = c.op
        /\ d.source = c.source
    <3> HIDE DEF v, c
    <3> QED BY <1>1, <1>2, GotType
  <2>3. ~(Len(calls[t]) = 2 /\ d.field = Register(calls[t][1]))
    <3> SUFFICES ASSUME Len(calls[t]) = 2, d.field = Register(calls[t][1]) PROVE FALSE
      OBVIOUS
    <3> DEFINE x == calls[t][1]
    <3> HIDE DEF x, c, d
    <3>1. Inner(x, c) /\ x \in CallType /\ c.field = Register(x)
      BY <1>2, <2>2 DEF x
    <3>2. c.op = "write"
      BY <1>2, <3>1, InnerFacts
    <3> QED BY <1>3, <3>2
  <2>4. Replace(t, d)
    BY <2>1
  <2> HIDE DEF d
  <2>5. d.pc \in {"loop", "store"} /\ Top(t).pc # "bank"
    BY <1>1, <2>2
  <2> QED BY <1>1, <2>2, <2>3, <2>4, <2>5, ReplaceTop
<1>4. CASE c.op # "read"
  <2> DEFINE d == [c EXCEPT !.value = v, !.pc = "store"]
  <2>1. v \in SUBSET Nat
    <3>1. c.field \in Fields /\ Width(c.field) \in Nat
      BY <1>2, CallFields, WidthType
    <3> QED BY <3>1, ReadType
  <2> HIDE DEF v
  <2>2. /\ d \in CallType /\ d.pc = "store" /\ d.field = c.field /\ d.op = c.op /\ d.source = c.source
        /\ d.progress = c.progress /\ d.offset = c.offset /\ d.dest = c.dest
    BY <1>2, <2>1 DEF CallType
  <2>3. Replace(t, d)
    BY <1>1, <1>4
  <2> HIDE DEF d
  <2>4. CallOK(d)
    <3> HIDE DEF c
    <3>1. d.op = "write"
      BY <1>2, <1>4, <2>2, CallFields
    <3> QED BY <1>1, <1>2, <2>2, <3>1, CallGoesOn
  <2> QED BY <1>1, <2>2, <2>3, <2>4, ReplaceTop
<1> QED BY <1>3, <1>4

LEMMA FillStep ==
  ASSUME FieldInv, NEW t \in Threads, Fill(t)
  PROVE  Advances(t)
<1> DEFINE c == Top(t)
           d == [c EXCEPT !.value = Background(c), !.pc = "store"]
<1>1. calls[t] # <<>> /\ c.pc = "loop" /\ More(c) /\ UNCHANGED mem /\ Quiet /\ Replace(t, d)
      /\ c.op = "write"
  BY DEF Fill, At, Running
<1>2. c \in CallType /\ CallOK(c)
  BY <1>1, RunningStack
<1>3. /\ d \in CallType /\ d.pc = "store" /\ d.field = c.field /\ d.op = c.op /\ d.source = c.source
      /\ d.progress = c.progress /\ d.offset = c.offset /\ d.dest = c.dest
  <2>1. Background(c) \in SUBSET Nat
    BY BackgroundType
  <2> QED BY <1>2, <2>1 DEF CallType
<1>4. Replace(t, d)
  BY <1>1
<1> HIDE DEF d
<1>5. CallOK(d)
  <2> HIDE DEF c
  <2> QED BY <1>1, <1>2, <1>3, CallGoesOn
<1> QED BY <1>1, <1>3, <1>4, <1>5, ReplaceTop

LEMMA AccessedFootprint ==
  ASSUME NEW f \in Fields
  PROVE  Accessed(f) \subseteq Footprint(f)
  BY FieldsAssumption DEF Footprint

LEMMA AltersBusy ==
  ASSUME NEW t \in Threads
  PROVE  Alters(t) \subseteq Busy(t)
  BY DEF Alters, Altered, Busy, Footprint

\* A register keeps its value when what it selects is written.
LEMMA WindowWritten ==
  ASSUME NEW x \in CallType, Node(x).kind \in {"indexfield", "bankfield"},
         NEW c \in CallType, CallOK(c), More(c), Direct(c), c.field = Window(x.field),
         NEW m, NEW new, NEW v, Holds(m, Register(x), v)
  PROVE  Holds(Written(m, Width(c.field), c.offset, new), Register(x), v)
<1> DEFINE f == x.field
           r == Field[f].select
           m2 == Written(m, Width(c.field), c.offset, new)
<1>1. f \in Fields /\ Node(x) = Field[f] /\ Register(x) = r
  BY CallFields DEF Node, Register
<1>2. r # Nobody /\ r \in Fields
  BY <1>1, RegisterOfKind
<1>3. Accessed(Window(f)) \cap Accessed(r) = {}
  BY <1>1, <1>2, RegisterFacts
<1>4. Bytes(c) \subseteq Accessed(Window(f))
  BY BytesAccessed
<1>5. \A b \in Accessed(r) : <<{}, b>> \in m2 <=> <<{}, b>> \in m
  <2> SUFFICES ASSUME NEW b \in Accessed(r) PROVE <<{}, b>> \in m2 <=> <<{}, b>> \in m
    OBVIOUS
  <2>1. b \notin {ByteBits * c.offset + i : i \in 0..Width(c.field) - 1}
    BY <1>3, <1>4 DEF Bytes
  <2> QED BY <2>1, WrittenElsewhere
<1>6. Field[r].size \in Nat /\ Field[r].size <= Field[r].size
  BY <1>2, FieldTypes
<1>7. HoldsUpTo(m, r, v, Field[r].size)
  BY <1>1 DEF Holds
<1>8. HoldsUpTo(m2, r, v, Field[r].size)
  <2> HIDE DEF m2, f
  <2> QED BY <1>1, <1>2, <1>5, <1>6, <1>7, RegisterKeeps
<1> QED BY <1>1, <1>8 DEF Holds

\* An access that writes stays within what the operation writes.
LEMMA StoreAlters ==
  ASSUME FieldInv, NEW t \in Threads, calls[t] # <<>>, Top(t).pc = "store", Direct(Top(t))
  PROVE  Bytes(Top(t)) \subseteq Alters(t)
<1> DEFINE s == calls[t]
           c == Top(t)
           x == s[1]
<1>1. /\ Len(s) \in 1..2 /\ x \in CallType /\ c \in CallType /\ CallOK(c)
      /\ (Len(s) = 1 => c = x) /\ (Len(s) = 2 => Inner(x, c))
  BY RunningStack
<1>2. More(c) /\ c.op = "write" /\ c.field \in Fields
  BY <1>1, CallFields DEF CallOK
<1>3. Bytes(c) \subseteq Accessed(c.field)
  BY <1>1, <1>2, BytesAccessed
<1>4. Accessed(c.field) \subseteq Footprint(c.field)
  BY <1>2, AccessedFootprint
<1>5. Alters(t) = Altered(x.field, x.op)
  BY DEF Alters
<1> HIDE DEF s, c, x
<1>6. CASE Len(s) = 1
  BY <1>1, <1>2, <1>3, <1>4, <1>5, <1>6 DEF Altered, c
<1>7. CASE Len(s) = 2
  <2>1. /\ Node(x).select # Nobody /\ c.field \in {Register(x), Node(x).data}
        /\ c.field = Register(x) => c.field # Node(x).data
        /\ Footprint(c.field) \subseteq Footprint(x.field)
    BY <1>1, <1>7, InnerFacts
  <2>2. CASE x.op = "write"
    BY <1>3, <1>4, <1>5, <2>1, <2>2 DEF Altered, c
  <2>3. CASE x.op # "write"
    <3>1. c.field = Register(x)
      BY <1>1, <1>2, <1>7, <2>3 DEF Inner
    <3>2. Accessed(c.field) \subseteq Altered(x.field, x.op)
      BY <2>1, <2>3, <3>1 DEF Altered, Register, Node
    <3> QED BY <1>3, <1>5, <3>2 DEF c
  <2> QED BY <2>2, <2>3
<1> QED BY <1>1, <1>6, <1>7

LEMMA StoreStep ==
  ASSUME FieldInv, NEW t \in Threads, Store(t)
  PROVE  Advances(t)
<1> DEFINE s == calls[t]
           c == Top(t)
           d == NextAccess(c)
           n == AccessBits(c)
<1>1. calls[t] # <<>> /\ c.pc = "store" /\ Direct(c) /\ Replace(t, d) /\ Quiet
  BY DEF Store, At, Running
<1>2. PICK mask \in Masks(n) : mem' = Written(mem, Width(c.field), c.offset, Merged(c, c.value, mask))
  BY DEF Store
<1>3. /\ s \in Seq(CallType) /\ Len(s) \in 1..2 /\ (Calm(t) => Selects(mem, s)) /\ s[1] \in CallType
      /\ CallOK(s[1]) /\ (Len(s) = 1 => c = s[1]) /\ c \in CallType /\ CallOK(c)
      /\ (Len(s) = 2 => c = s[2] /\ Inner(s[1], c) /\ Node(c).kind = "field")
  BY <1>1, RunningStack
<1>4. More(c) /\ c.field \in Fields /\ Node(c) = Field[c.field]
  BY <1>1, <1>3, CallFields DEF CallOK, Node
<1>5. /\ d \in CallType /\ CallOK(d) /\ d.pc = "loop" /\ d.field = c.field /\ d.op = c.op
      /\ d.source = c.source /\ d.progress = c.progress + n
  BY <1>3, <1>4, NextType
<1> HIDE DEF s, c, d, n
<1>6. \A x, b : b \notin Alters(t) => (<<x, b>> \in mem' <=> <<x, b>> \in mem)
  <2> SUFFICES ASSUME NEW x, NEW b, b \notin Alters(t) PROVE <<x, b>> \in mem' <=> <<x, b>> \in mem
    OBVIOUS
  <2>1. b \notin Bytes(c)
    BY <1>1, StoreAlters DEF c
  <2>2. b \notin {ByteBits * c.offset + i : i \in 0..Width(c.field) - 1}
    BY <2>1 DEF Bytes
  <2> QED BY <1>2, <2>2, WrittenElsewhere
<1>7. mem' \subseteq (SUBSET Nat) \X Nat
  <2>1. mem \in SUBSET ((SUBSET Nat) \X Nat)
    BY DEF FieldInv, Types
  <2>2. Width(c.field) \in Nat /\ c.offset \in Nat
    BY <1>3, <1>4, WidthType, CallFields
  <2> QED BY <1>2, <2>1, <2>2, WrittenType
<1>8. /\ ideal' \subseteq (SUBSET Nat) \X Nat /\ done' \in 0..MaxOperations /\ crashed' \in BOOLEAN
      /\ raced' = raced
  BY <1>1 DEF FieldInv, Types, Quiet
<1>9. calls' = [calls EXCEPT ![t] = Append(SubSeq(s, 1, Len(s) - 1), d)]
  BY <1>1 DEF Replace, Below, s
<1>10. ASSUME NEW z \in Seq(CallType), calls' = [calls EXCEPT ![t] = z], StackOK(z),
              Calm(t) => Selects(mem', z), z[1].field = s[1].field /\ z[1].op = s[1].op
       PROVE  Advances(t)
  <2>1. Advance(t, z)
    BY <1>1, <1>6, <1>7, <1>8, <1>10 DEF Advance, s
  <2> QED BY <2>1 DEF Advances
<1>11. CASE Len(s) = 1
  <2>1. calls' = [calls EXCEPT ![t] = <<d>>]
    BY <1>3, <1>5, <1>9, <1>11, StackOfOne
  <2>2. <<d>> \in Seq(CallType) /\ StackOK(<<d>>) /\ <<d>>[1] = d /\ Len(<<d>>) = 1
    BY <1>5, OneCall
  <2>3. Node(d) = Node(c) /\ Register(d) = Register(c) /\ c = s[1]
    BY <1>3, <1>5, <1>11 DEF Node, Register
  <2> DEFINE z == <<d>>
  <2> HIDE DEF z
  <2>4. z[1] = d /\ Len(z) = 1
    BY <2>2 DEF z
  <2>5. ASSUME Calm(t), Node(d).kind = "bankfield" PROVE Holds(mem', Register(d), Bits(Node(d).bank))
    <3>1. Holds(mem, Register(c), Bits(Node(c).bank))
      BY <1>1, <1>3, <1>11, <2>3, <2>5 DEF Selects
    <3>2. c.field = Window(c.field) /\ Node(c).kind \in {"indexfield", "bankfield"}
      BY <1>4, <2>3, <2>5 DEF Window
    <3>3. Holds(mem', Register(c), Bits(Node(c).bank))
      BY <1>1, <1>2, <1>3, <1>4, <3>1, <3>2, WindowWritten
    <3> QED BY <2>3, <3>3
  <2>6. Calm(t) => Selects(mem', z)
    BY <1>5, <2>4, <2>5 DEF Selects
  <2>7. z[1].field = s[1].field /\ z[1].op = s[1].op
    BY <1>5, <2>3, <2>4
  <2> QED BY <1>10, <2>1, <2>2, <2>6, <2>7 DEF z
<1>12. CASE Len(s) = 2
  <2> DEFINE x == s[1]
  <2>1. calls' = [calls EXCEPT ![t] = <<x, d>>]
    BY <1>3, <1>5, <1>9, <1>12, StackOfTwo
  <2>2. Inner(x, c) /\ x \in CallType /\ CallOK(x) /\ c = s[2] /\ Node(c).kind = "field"
    BY <1>3, <1>12
  <2> HIDE DEF x
  <2>3. Inner(x, d)
    BY <1>5, <2>2 DEF Inner
  <2>4. /\ <<x, d>> \in Seq(CallType) /\ StackOK(<<x, d>>) /\ <<x, d>>[1] = x /\ <<x, d>>[2] = d
        /\ Len(<<x, d>>) = 2
    BY <1>5, <2>2, <2>3, TwoCalls
  <2> DEFINE z == <<x, d>>
  <2> HIDE DEF z
  <2>5. z[1] = x /\ z[2] = d /\ Len(z) = 2
    BY <2>4 DEF z
  <2>6. /\ c.field = Register(x) => c.field # Node(x).data
        /\ c.field = Node(x).data => Node(x).kind = "indexfield"
        /\ Node(x).select # Nobody
    BY <1>3, <2>2, InnerFacts
  <2>7. x.field \in Fields /\ Node(x) = Field[x.field] /\ Register(x) = Field[x.field].select
    BY <2>2, CallFields DEF Node, Register
  <2>8. ASSUME Calm(t), d.field = Register(x) PROVE HoldsUpTo(mem', d.field, d.source, d.progress)
    <3>1. HoldsUpTo(mem, c.field, c.source, c.progress)
      BY <1>3, <1>5, <1>12, <2>2, <2>8 DEF Selects, x
    <3>2. ~Wide(c.field) /\ \A b \in Accessed(c.field) : Selector[b] = {}
      BY <1>5, <2>6, <2>7, <2>8, RegisterFacts
    <3>3. mask = 0..n - 1
      BY <1>3, <1>4, <2>2, <3>2, MaskDefined DEF n
    <3>4. HoldsUpTo(mem', c.field, c.source, c.progress + n)
      BY <1>2, <1>3, <1>4, <2>2, <3>1, <3>2, <3>3, StoreRegister DEF n
    <3> QED BY <1>5, <3>4
  <2>9. ASSUME Calm(t), d.field = Node(x).data PROVE Holds(mem', Register(x), Bits(Behind(x)))
    <3>1. Holds(mem, Register(x), Bits(Behind(x)))
      BY <1>3, <1>5, <1>12, <2>2, <2>9 DEF Selects, x
    <3>2. c.field = Window(x.field) /\ Node(x).kind = "indexfield"
      BY <1>5, <2>6, <2>7, <2>9 DEF Window
    <3> QED BY <1>1, <1>2, <1>3, <1>4, <2>2, <3>1, <3>2, WindowWritten
  <2>10. Calm(t) => Selects(mem', z)
    BY <2>5, <2>8, <2>9 DEF Selects
  <2>11. z[1].field = s[1].field /\ z[1].op = s[1].op
    BY <2>5 DEF x
  <2> QED BY <1>10, <2>1, <2>4, <2>10, <2>11 DEF z
<1> QED BY <1>3, <1>11, <1>12

\* Both kinds of steps that select before an access of the data register.
LEMMA SelectStep ==
  ASSUME FieldInv, NEW t \in Threads, calls[t] # <<>>, ~Direct(Top(t)), More(Top(t)),
         NEW pc \in {"fetch", "send"}, pc = "send" => Top(t).op = "write",
         Enter(t, [Top(t) EXCEPT !.pc = pc],
               Call(Node(Top(t)).select, "write", Bits(Top(t).offset))),
         UNCHANGED mem, Quiet
  PROVE  Advances(t)
<1> DEFINE c == Top(t)
           x == [c EXCEPT !.pc = pc]
           y == Call(Node(c).select, "write", Bits(c.offset))
<1>1. c \in CallType /\ CallOK(c) /\ Node(c).kind = "indexfield"
  BY RunningStack DEF Direct
<1>2. Len(calls[t]) = 1
  BY <1>1, TopIsOperation
<1>3. /\ x \in CallType /\ x.pc = pc /\ x.field = c.field /\ x.progress = c.progress
      /\ x.offset = c.offset /\ x.dest = c.dest /\ x.op = c.op
  BY <1>1 DEF CallType
<1>4. Enter(t, x, y)
  OBVIOUS
<1> HIDE DEF x, c
<1>5. CallOK(x) /\ Node(x) = Node(c)
  BY <1>1, <1>3, CallGoesOn DEF c
<1>6. /\ y \in CallType /\ CallOK(y) /\ y.field = Register(x) /\ y.op = "write"
      /\ y.source = Bits(c.offset) /\ y.progress = 0 /\ y.field # Node(x).data
  <2> DEFINE v == Bits(c.offset)
  <2>1. v \in SUBSET Nat
    BY BitsType
  <2> HIDE DEF v
  <2>2. y = Call(Node(x).select, "write", v)
    BY <1>5 DEF v
  <2>3. Node(x).kind \in {"indexfield", "bankfield"}
    BY <1>1, <1>5
  <2> HIDE DEF y
  <2> QED BY <1>3, <2>1, <2>2, <2>3, RegisterCall DEF v
<1> HIDE DEF y
<1>7. Inner(x, y)
  BY <1>1, <1>3, <1>5, <1>6 DEF Inner
<1> QED BY <1>2, <1>3, <1>4, <1>5, <1>6, <1>7, PushCall DEF c

LEMMA SelectToReadStep ==
  ASSUME FieldInv, NEW t \in Threads, SelectToRead(t)
  PROVE  Advances(t)
<1>1. /\ calls[t] # <<>> /\ ~Direct(Top(t)) /\ More(Top(t)) /\ UNCHANGED mem /\ Quiet
      /\ Enter(t, [Top(t) EXCEPT !.pc = "fetch"],
               Call(Node(Top(t)).select, "write", Bits(Top(t).offset)))
  BY DEF SelectToRead, At, Running
<1> QED BY <1>1, SelectStep

LEMMA SelectToWriteStep ==
  ASSUME FieldInv, NEW t \in Threads, SelectToWrite(t)
  PROVE  Advances(t)
<1>1. /\ calls[t] # <<>> /\ ~Direct(Top(t)) /\ Top(t).pc = "store" /\ UNCHANGED mem /\ Quiet
      /\ Enter(t, [Top(t) EXCEPT !.pc = "send"],
               Call(Node(Top(t)).select, "write", Bits(Top(t).offset)))
  BY DEF SelectToWrite, At, Running
<1>2. CallOK(Top(t))
  BY <1>1, RunningStack
<1>3. More(Top(t)) /\ Top(t).op = "write"
  BY <1>1, <1>2 DEF CallOK
<1> QED BY <1>1, <1>3, SelectStep

\* The register holds the offset of the access when the data register is to be used.
LEMMA Selected1 ==
  ASSUME FieldInv, NEW t \in Threads, calls[t] # <<>>, Top(t).pc \in {"fetch", "send"}
  PROVE  /\ Len(calls[t]) = 1 /\ Top(t) \in CallType /\ CallOK(Top(t)) /\ More(Top(t))
         /\ Node(Top(t)).kind = "indexfield"
         /\ Calm(t) => Holds(mem, Register(Top(t)), Bits(Top(t).offset))
<1>1. Top(t) \in CallType /\ CallOK(Top(t)) /\ (Calm(t) => Selects(mem, calls[t]))
  BY RunningStack
<1>2. More(Top(t)) /\ Node(Top(t)).kind = "indexfield"
  BY <1>1 DEF CallOK
<1>3. Len(calls[t]) = 1 /\ Top(t) = calls[t][1]
  BY <1>2, TopIsOperation
<1> QED BY <1>1, <1>2, <1>3 DEF Selects

LEMMA FetchDataStep ==
  ASSUME FieldInv, NEW t \in Threads, FetchData(t)
  PROVE  Advances(t)
<1> DEFINE c == Top(t)
           x == [c EXCEPT !.pc = "fetched"]
           y == Call(Node(c).data, "read", {})
<1>1. calls[t] # <<>> /\ c.pc = "fetch" /\ UNCHANGED mem /\ Quiet /\ Enter(t, x, y)
  BY DEF FetchData, At, Running
<1>2. /\ Len(calls[t]) = 1 /\ c \in CallType /\ CallOK(c) /\ More(c) /\ Node(c).kind = "indexfield"
      /\ Calm(t) => Holds(mem, Register(c), Bits(c.offset))
  BY <1>1, Selected1
<1>3. /\ x \in CallType /\ x.pc = "fetched" /\ x.field = c.field /\ x.progress = c.progress
      /\ x.offset = c.offset /\ x.dest = c.dest /\ x.op = c.op
  BY <1>2 DEF CallType
<1>4. Enter(t, x, y)
  BY <1>1
<1> HIDE DEF x, c
<1>5. CallOK(x) /\ Node(x) = Node(c) /\ Position(x) = Position(c)
  BY <1>2, <1>3, CallGoesOn
<1>6. y \in CallType /\ CallOK(y) /\ y.field = Node(x).data /\ y.op = "read" /\ y.progress = 0
  BY <1>2, <1>3, <1>5, DataCall
<1> HIDE DEF y
<1>7. Inner(x, y)
  BY <1>2, <1>3, <1>5, <1>6 DEF Inner
<1>8. Behind(x) = c.offset
  <2>1. c.offset = UnitOf(c.field, Position(c))
    BY <1>2 DEF CallOK
  <2>2. Position(c) - 0 = Position(c)
    BY <1>2, Geometry
  <2> QED BY <1>3, <1>5, <2>1, <2>2 DEF Behind
<1>9. Calm(t) => Holds(mem, Register(x), Bits(Behind(x)))
  BY <1>2, <1>5, <1>8 DEF Register
<1> QED BY <1>1, <1>2, <1>3, <1>4, <1>5, <1>6, <1>7, <1>9, PushCall DEF c

LEMMA FetchedStep ==
  ASSUME FieldInv, NEW t \in Threads, Fetched(t)
  PROVE  Advances(t)
<1> DEFINE c == Top(t)
<1>1. /\ calls[t] # <<>> /\ c.pc = "fetched" /\ UNCHANGED mem /\ Quiet
      /\ IF c.op = "read" THEN \E mask \in Masks(AccessBits(c)) : Replace(t, Got(c, c.value, mask))
         ELSE Replace(t, [c EXCEPT !.pc = "store"])
  BY DEF Fetched, At, Running
<1>2. c \in CallType /\ CallOK(c)
  BY <1>1, RunningStack
<1>3. More(c) /\ Node(c).kind = "indexfield"
  BY <1>1, <1>2 DEF CallOK
<1>4. Len(calls[t]) = 1
  BY <1>1, <1>3, TopIsOperation
<1>5. calls[t] # <<>> /\ Top(t).pc # "bank" /\ UNCHANGED mem /\ Quiet
  BY <1>1, <1>4
<1>6. CASE c.op = "read"
  <2>1. PICK mask \in Masks(AccessBits(c)) : Replace(t, Got(c, c.value, mask))
    BY <1>1, <1>6
  <2> DEFINE d == Got(c, c.value, mask)
  <2>2. /\ d \in CallType /\ CallOK(d) /\ d.pc = "loop" /\ d.field = c.field /\ d.op = c.op
        /\ d.source = c.source
    <3> HIDE DEF c
    <3> QED BY <1>2, <1>3, GotType
  <2>3. Replace(t, d)
    BY <2>1
  <2> HIDE DEF d
  <2>4. ~(Len(calls[t]) = 2 /\ d.field = Register(calls[t][1])) /\ d.pc \in {"loop", "store"}
    BY <1>4, <2>2
  <2> QED BY <1>5, <2>2, <2>3, <2>4, ReplaceTop
<1>7. CASE c.op # "read"
  <2> DEFINE d == [c EXCEPT !.pc = "store"]
  <2>1. /\ d \in CallType /\ d.pc = "store" /\ d.field = c.field /\ d.op = c.op
        /\ d.source = c.source /\ d.progress = c.progress /\ d.offset = c.offset /\ d.dest = c.dest
    BY <1>2 DEF CallType
  <2>2. Replace(t, d)
    BY <1>1, <1>7
  <2> HIDE DEF d
  <2>3. CallOK(d)
    <3> HIDE DEF c
    <3>1. d.op = "write"
      BY <1>2, <1>7, <2>1, CallFields
    <3> QED BY <1>2, <1>3, <2>1, <3>1, CallGoesOn
  <2>4. ~(Len(calls[t]) = 2 /\ d.field = Register(calls[t][1])) /\ d.pc \in {"loop", "store"}
    BY <1>4, <2>1
  <2> QED BY <1>5, <2>1, <2>2, <2>3, <2>4, ReplaceTop
<1> QED BY <1>6, <1>7

LEMMA StoreDataStep ==
  ASSUME FieldInv, NEW t \in Threads, StoreData(t)
  PROVE  Advances(t)
<1> DEFINE c == Top(t)
           x == NextAccess(c)
<1>1. calls[t] # <<>> /\ c.pc = "send" /\ UNCHANGED mem /\ Quiet
  BY DEF StoreData, At, Running
<1>2. PICK mask \in Masks(AccessBits(c)) :
        Enter(t, x, Call(Node(c).data, "write", Merged(c, c.value, mask)))
  BY DEF StoreData
<1> DEFINE v == Merged(c, c.value, mask)
           y == Call(Node(c).data, "write", v)
<1>3. /\ Len(calls[t]) = 1 /\ c \in CallType /\ CallOK(c) /\ More(c) /\ Node(c).kind = "indexfield"
      /\ c.op = "write" /\ (Calm(t) => Holds(mem, Register(c), Bits(c.offset)))
  BY <1>1, Selected1 DEF CallOK
<1>4. Enter(t, x, y)
  BY <1>2
<1> HIDE DEF c
<1>5. v \in SUBSET Nat
  BY <1>3, MergedType, CallFields
<1> HIDE DEF v
<1>6. /\ x \in CallType /\ CallOK(x) /\ x.pc = "loop" /\ x.field = c.field /\ x.progress > 0 /\ x.op = c.op
      /\ UnitOf(c.field, Position(x) - 1) = c.offset
  BY <1>3, NextType
<1> HIDE DEF x
<1>7. Node(x) = Node(c) /\ Register(x) = Register(c)
  BY <1>6 DEF Node, Register
<1>8. y \in CallType /\ CallOK(y) /\ y.field = Node(x).data /\ y.op = "write" /\ y.progress = 0
  BY <1>3, <1>5, <1>6, <1>7, DataCall
<1> HIDE DEF y
<1>9. Inner(x, y)
  BY <1>3, <1>6, <1>7, <1>8 DEF Inner
<1>10. Behind(x) = c.offset
  BY <1>6 DEF Behind
<1>11. Calm(t) => Holds(mem, Register(x), Bits(Behind(x)))
  BY <1>3, <1>7, <1>10
<1> QED BY <1>1, <1>3, <1>4, <1>6, <1>8, <1>9, <1>11, PushCall DEF c

LEMMA ReturnStep ==
  ASSUME FieldInv, NEW t \in Threads, Return(t)
  PROVE  Advances(t)
<1> DEFINE s == calls[t]
           c == Top(t)
           x == s[1]
           v == IF c.op = "read" THEN c.dest ELSE x.value
           d == [x EXCEPT !.value = v]
<1>1. s # <<>> /\ c.pc = "loop" /\ ~More(c) /\ Len(s) > 1 /\ UNCHANGED mem /\ Quiet
  BY DEF Return, Running, Finished
<1>2. /\ s \in Seq(CallType) /\ Len(s) \in 1..2 /\ (Calm(t) => Selects(mem, s)) /\ x \in CallType /\ CallOK(x)
      /\ c \in CallType /\ CallOK(c) /\ (Len(s) = 2 => c = s[2] /\ Inner(x, c))
  BY <1>1, RunningStack
<1>3. Len(s) = 2
  <2> DEFINE k == Len(s)
  <2>1. k \in 1..2 /\ k > 1
    BY <1>1, <1>2
  <2> HIDE DEF k
  <2>2. k = 2
    BY <2>1
  <2> QED BY <2>2 DEF k
<1>4. d \in CallType /\ d.field = x.field /\ d.progress = x.progress /\ d.offset = x.offset
      /\ d.dest = x.dest /\ d.pc = x.pc /\ d.op = x.op
  <2>1. v \in SUBSET Nat
    BY <1>2, CallFields
  <2> HIDE DEF v, s, c, x
  <2> QED BY <1>2, <2>1 DEF CallType
<1>5. calls' = [calls EXCEPT ![t] = <<d>>]
  <2> DEFINE caller == SubSeq(s, 1, Len(s) - 1)[Len(SubSeq(s, 1, Len(s) - 1))]
  <2>1. calls' = [calls EXCEPT ![t] =
                    Append(SubSeq(s, 1, Len(s) - 2),
                           [caller EXCEPT !.value = IF c.op = "read" THEN c.dest ELSE @])]
    BY DEF Return, Below
  <2>2. caller = x /\ Append(SubSeq(s, 1, Len(s) - 2), d) = <<d>>
    <3> HIDE DEF s, d
    <3> QED BY <1>2, <1>3, <1>4, StackOfTwo
  <2> HIDE DEF caller, s, c, x
  <2>3. [caller EXCEPT !.value = IF c.op = "read" THEN c.dest ELSE @] = d
    BY <2>2
  <2> QED BY <2>1, <2>2, <2>3
<1> HIDE DEF s, c, x, v, d
<1>6. Node(d) = Node(x) /\ Position(d) = Position(x) /\ BitOffset(d) = BitOffset(x)
      /\ Register(d) = Register(x) /\ (More(d) <=> More(x))
  BY <1>4 DEF Node, Position, BitOffset, Register, More
<1>7. CallOK(d)
  BY <1>2, <1>4, <1>6 DEF CallOK
<1>8. <<d>> \in Seq(CallType) /\ StackOK(<<d>>) /\ <<d>>[1] = d /\ Len(<<d>>) = 1
  BY <1>4, <1>7, OneCall
<1> DEFINE z == <<d>>
<1> HIDE DEF z
<1>9. z[1] = d /\ Len(z) = 1
  BY <1>8 DEF z
<1>10. Calm(t) /\ c.field = Register(x) => Holds(mem, Register(x), c.source)
  <2> SUFFICES ASSUME Calm(t), c.field = Register(x) PROVE Holds(mem, Register(x), c.source)
    OBVIOUS
  <2>1. HoldsUpTo(mem, c.field, c.source, c.progress)
    BY <1>2, <1>3 DEF Selects, x
  <2>2. c.progress = Field[c.field].size
    <3>1. c.progress \in Nat /\ Node(c).size \in Nat /\ Node(c) = Field[c.field]
      BY <1>2, CallFields, FieldTypes DEF Node
    <3>2. c.progress <= Node(c).size
      BY <1>2 DEF CallOK
    <3> QED BY <1>1, <3>1, <3>2 DEF More
  <2> QED BY <2>1, <2>2 DEF Holds
<1>11. ASSUME Calm(t), Node(d).kind = "bankfield" PROVE Holds(mem, Register(d), Bits(Node(d).bank))
  <2>1. c.field = Register(x) /\ c.source = Bits(Node(x).bank)
    BY <1>2, <1>3, <1>6, <1>11 DEF Inner
  <2> QED BY <1>6, <1>10, <1>11, <2>1
<1>12. ASSUME Calm(t), d.pc \in {"fetch", "send"} PROVE Holds(mem, Register(d), Bits(d.offset))
  <2>1. c.field = Register(x) /\ c.source = Bits(x.offset)
    BY <1>2, <1>3, <1>4, <1>12 DEF Inner
  <2> QED BY <1>4, <1>6, <1>10, <1>12, <2>1
<1>13. Calm(t) => Selects(mem, z)
  BY <1>9, <1>11, <1>12 DEF Selects
<1>14. z[1].field = calls[t][1].field /\ z[1].op = calls[t][1].op
  BY <1>4, <1>9 DEF x, s
<1> QED BY <1>1, <1>5, <1>8, <1>13, <1>14, QuietAdvance DEF z, s

LEMMA EmptyStack ==
  ASSUME NEW m
  PROVE  <<>> \in Seq(CallType) /\ StackOK(<<>>) /\ Selects(m, <<>>)
<1> DEFINE z == <<>>
<1>1. z \in Seq(CallType) /\ Len(z) = 0
  BY EmptySeq
<1> HIDE DEF z
<1>2. StackOK(z) /\ Selects(m, z)
  BY <1>1 DEF StackOK, Selects
<1> QED BY <1>1, <1>2 DEF z

LEMMA FinishStep ==
  ASSUME FieldInv, NEW t \in Threads, Finish(t)
  PROVE  Advances(t)
<1> DEFINE c == Top(t)
<1>1. /\ calls[t] # <<>> /\ calls' = [calls EXCEPT ![t] = <<>>] /\ UNCHANGED <<mem, done, crashed, raced>>
      /\ ideal' = IF c.op = "write" THEN Ideal(c.field, c.source) ELSE ideal
  BY DEF Finish, Running
<1>2. c \in CallType
  BY <1>1, RunningStack
<1>3. ideal' \subseteq (SUBSET Nat) \X Nat
  <2>1. c.field \in Fields /\ c.source \in SUBSET Nat /\ ideal \subseteq (SUBSET Nat) \X Nat
    BY <1>2, CallFields DEF FieldInv, Types
  <2>2. Ideal(c.field, c.source) \subseteq (SUBSET Nat) \X Nat
    BY <2>1, IdealType
  <2> QED BY <1>1, <2>1, <2>2
<1>4. /\ mem' \subseteq (SUBSET Nat) \X Nat /\ mem' = mem
      /\ done' \in 0..MaxOperations /\ crashed' \in BOOLEAN
  BY <1>1 DEF FieldInv, Types
<1> DEFINE z == <<>>
<1>5. z \in Seq(CallType) /\ StackOK(z) /\ Selects(mem', z) /\ z = <<>>
  BY EmptyStack
<1>6. calls' = [calls EXCEPT ![t] = z]
  BY <1>1
<1> HIDE DEF z
<1>7. Advance(t, z)
  BY <1>1, <1>3, <1>4, <1>5, <1>6 DEF Advance
<1> QED BY <1>7 DEF Advances

LEMMA AccessedType ==
  ASSUME NEW f \in Fields
  PROVE  Accessed(f) \subseteq Nat
<1>1. ASSUME NEW k \in 0..Field[f].size - 1, NEW i \in 0..Width(f) - 1
      PROVE  ByteBits * UnitOf(f, Field[f].offset + k) + i \in Nat
  <2> DEFINE b == Field[f].offset + k
             u == UnitOf(f, b)
  <2>1. b \in Nat
    BY FieldTypes
  <2> HIDE DEF b
  <2>2. u \in Nat
    BY <2>1, UnitType
  <2> HIDE DEF u
  <2>3. ByteBits * u \in Nat
    BY <2>2, WidthsAssumption
  <2> DEFINE q == ByteBits * u
  <2> HIDE DEF q
  <2>4. q + i \in Nat
    BY <2>3 DEF q
  <2> QED BY <2>4 DEF q, u, b
<1> QED BY <1>1 DEF Accessed

LEMMA FootprintType ==
  ASSUME NEW f \in Fields, NEW op
  PROVE  Footprint(f) \subseteq Nat /\ Altered(f, op) \subseteq Footprint(f)
<1>1. \A g \in {f, Field[f].select, Field[f].data} \ {Nobody} : g \in Fields
  BY FieldTypes
<1>2. Footprint(f) \subseteq Nat
  BY <1>1, AccessedType DEF Footprint
<1> QED BY <1>2 DEF Altered, Footprint

\* An operation begins: those that it is in the way of, and those that are in its way,
\* race from now on, and nobody else.
LEMMA BeginKeeps ==
  ASSUME FieldInv, NEW t \in Threads, calls[t] = <<>>, NEW f \in Fields,
         NEW op \in {"read", "write"}, NEW v \in SUBSET Nat, Begin(t, f, op, v),
         UNCHANGED <<mem, ideal>>, done' \in 0..MaxOperations
  PROVE  FieldInv' /\ raced \subseteq raced'
<1> DEFINE c == Call(f, op, v)
           z == <<c>>
           A == Altered(f, op)
           F == Footprint(f)
           C == Clashing(f, op)
<1>1. calls' = [calls EXCEPT ![t] = z] /\ raced' = Race(f, op) /\ crashed' = crashed
  BY DEF Begin
<1>2. /\ c \in CallType /\ CallOK(c) /\ c.field = f /\ c.op = op /\ Node(c) = Field[f]
      /\ c.pc = (IF Field[f].kind = "bankfield" THEN "bank" ELSE "loop")
  BY CallBegins
<1> HIDE DEF c
<1>3. z \in Seq(CallType) /\ StackOK(z) /\ z[1] = c /\ Len(z) = 1 /\ z # <<>>
  BY <1>2, OneCall
<1> HIDE DEF z
<1>4. Selects(mem', z)
  BY <1>2, <1>3 DEF Selects
<1>5. calls' \in [Threads -> Seq(CallType)] /\ calls'[t] = z /\ \A u \in Threads \ {t} : calls'[u] = calls[u]
  BY <1>1, <1>3 DEF FieldInv, Types
<1>6. /\ Busy(t)' = F /\ Alters(t)' = A /\ Alters(t) = {} /\ Busy(t) = {}
      /\ \A u \in Threads \ {t} : Busy(u)' = Busy(u) /\ Alters(u)' = Alters(u)
  BY <1>2, <1>3, <1>5 DEF Busy, Alters
<1>7. A \subseteq Nat /\ A \subseteq F /\ \A u \in Threads : Alters(u) \subseteq Nat /\ Alters(u) \subseteq Busy(u)
  <2>1. \A u \in Threads : Alters(u) \subseteq Nat
    <3> SUFFICES ASSUME NEW u \in Threads, calls[u] # <<>> PROVE Alters(u) \subseteq Nat
      BY DEF Alters
    <3>1. calls[u][1].field \in Fields
      BY RunningStack, CallFields
    <3>2. Alters(u) = Altered(calls[u][1].field, calls[u][1].op)
      BY DEF Alters
    <3> QED BY <3>1, <3>2, FootprintType
  <2> QED BY <2>1, FootprintType, AltersBusy
<1>8. /\ C \subseteq Threads
      /\ \A u \in Threads : u \in C <=> Alters(u) \cap F # {} \/ A \cap Busy(u) # {}
  BY DEF Clashing
<1>9. \/ C = {} /\ F \cap raced = {} /\ raced' = raced
      \/ raced' = raced \cup A \cup UNION {Alters(u) : u \in C}
  BY <1>1 DEF Race
<1>10. raced \in SUBSET Nat
  BY DEF FieldInv, Types
<1> HIDE DEF A, F, C
<1>11. /\ raced \subseteq raced' /\ raced' \in SUBSET Nat
       /\ \/ C = {} /\ F \cap raced = {} /\ raced' = raced
          \/ /\ A \subseteq raced' /\ \A u \in C : Alters(u) \subseteq raced'
             /\ \A b \in raced' : b \in raced \cup A \/ \E u \in C : b \in Alters(u)
  BY <1>7, <1>8, <1>9, <1>10
<1>12. Types'
  BY <1>1, <1>5, <1>11 DEF FieldInv, Types
<1>13. \A u \in Threads \ {t} : Calm(u)' => Calm(u)
  BY <1>6, <1>11 DEF Calm
<1>14. Calm(t)' => \A u \in Threads : Alters(u) \cap F = {}
  BY <1>6, <1>8, <1>11 DEF Calm
<1>15. \A u \in Threads \ {t} : Calm(u)' => A \cap Busy(u) = {}
  BY <1>6, <1>8, <1>11 DEF Calm
<1>16. Apart'
  <2> SUFFICES ASSUME NEW u \in Threads, NEW w \in Threads, u # w, Calm(u)'
               PROVE  Alters(w)' \cap Busy(u)' = {}
    BY DEF Apart
  <2>1. CASE u = t
    BY <1>6, <1>14, <2>1
  <2>2. CASE w = t
    BY <1>6, <1>15, <2>2
  <2>3. CASE u # t /\ w # t
    BY <1>6, <1>13, <2>3 DEF FieldInv, Apart
  <2> QED BY <2>1, <2>2, <2>3
<1>17. Contained'
  <2> SUFFICES ASSUME NEW u \in Threads, ~Calm(u)' PROVE Alters(u)' \subseteq raced'
    BY DEF Contained
  <2>1. CASE u = t
    BY <1>6, <1>11, <2>1 DEF Calm
  <2>2. CASE u # t /\ ~Calm(u)
    BY <1>6, <1>11, <2>2 DEF FieldInv, Contained
  <2>3. CASE u # t /\ Calm(u)
    <3>1. PICK b \in Busy(u) : b \in raced' /\ b \notin raced
      BY <1>6, <2>3 DEF Calm
    <3>2. \A w \in Threads \ {u} : b \notin Alters(w)
      BY <2>3, <3>1 DEF FieldInv, Apart
    <3>3. u \in C
      BY <1>8, <1>11, <3>1, <3>2
    <3> QED BY <1>6, <1>11, <2>3, <3>1, <3>3
  <2> QED BY <2>1, <2>2, <2>3
<1>18. ASSUME NEW u \in Threads PROVE StackOK(calls'[u]) /\ (Calm(u)' => Selects(mem', calls'[u]))
  <2>1. CASE u = t
    BY <1>3, <1>4, <1>5, <2>1
  <2>2. CASE u # t
    BY <1>5, <1>13, <2>2 DEF FieldInv
  <2> QED BY <2>1, <2>2
<1>19. \A u \in Threads : (StackOK(calls[u]) /\ (Calm(u) => Selects(mem, calls[u])))'
  BY <1>18
<1> QED BY <1>11, <1>12, <1>16, <1>17, <1>19 DEF FieldInv

LEMMA StartStep ==
  ASSUME FieldInv, NEW t \in Threads, NEW f \in Fields, NEW op \in {"read", "write"},
         NEW v \in SUBSET Nat, Start(t, f, op, v)
  PROVE  FieldInv'
<1>1. /\ UNCHANGED <<mem, ideal>> /\ done' = done + 1 /\ done < MaxOperations /\ calls[t] = <<>>
  BY DEF Start
<1>2. done' \in 0..MaxOperations
  BY <1>1, WidthsAssumption DEF FieldInv, Types
<1>3. CASE Field[f].kind = "indexfield" /\ Field[f].access = 0
  <2>1. UNCHANGED <<calls, raced>> /\ crashed' = TRUE
    BY <1>3 DEF Start
  <2>2. Types'
    BY <1>1, <1>2, <2>1 DEF FieldInv, Types
  <2>3. \A u \in Threads : Busy(u)' = Busy(u) /\ Alters(u)' = Alters(u)
    BY <2>1 DEF Busy, Alters
  <2>4. Apart' /\ Contained'
    BY <2>1, <2>3 DEF FieldInv, Apart, Contained, Calm
  <2>5. \A u \in Threads : (StackOK(calls[u]) /\ (Calm(u) => Selects(mem, calls[u])))'
    BY <1>1, <2>1, <2>3 DEF FieldInv, Calm
  <2> QED BY <2>2, <2>4, <2>5 DEF FieldInv
<1>4. CASE ~(Field[f].kind = "indexfield" /\ Field[f].access = 0)
  <2>1. Begin(t, f, op, v)
    BY <1>4 DEF Start
  <2> QED BY <1>1, <1>2, <2>1, BeginKeeps
<1> QED BY <1>3, <1>4

LEMMA UseBufferStep ==
  ASSUME FieldInv, NEW t \in Threads, NEW f \in Fields, NEW op \in {"read", "write"},
         NEW v \in SUBSET Nat, UseBuffer(t, f, op, v)
  PROVE  FieldInv'
<1>1. /\ UNCHANGED <<mem, ideal>> /\ done' = done + 1 /\ done < MaxOperations /\ calls[t] = <<>>
      /\ Begin(t, f, op, v)
  BY DEF UseBuffer
<1>2. done' \in 0..MaxOperations
  BY <1>1, WidthsAssumption DEF FieldInv, Types
<1> QED BY <1>1, <1>2, BeginKeeps

LEMMA InitialInv ==
  ASSUME Init
  PROVE  FieldInv
<1>1. /\ mem \subseteq (SUBSET Nat) \X Nat /\ ideal \subseteq (SUBSET Nat) \X Nat
      /\ done \in 0..MaxOperations /\ crashed \in BOOLEAN
  <2>1. Initially \subseteq (SUBSET Nat) \X Nat
    BY DeviceAssumption
  <2>2. mem = Initially /\ ideal = Initially /\ done = 0 /\ crashed = FALSE
    BY DEF Init
  <2>3. 0 \in 0..MaxOperations
    BY WidthsAssumption
  <2> QED BY ONLY <2>1, <2>2, <2>3
<1>2. \A t \in Threads : calls[t] = <<>>
  BY DEF Init
<1>3. calls \in [Threads -> Seq(CallType)]
  <2> DEFINE S == Seq(CallType)
  <2>1. <<>> \in S
    BY EmptyStack
  <2>2. calls = [t \in Threads |-> <<>>]
    BY DEF Init
  <2> HIDE DEF S
  <2>3. calls \in [Threads -> S]
    BY <2>1, <2>2
  <2> QED BY <2>3 DEF S
<1>4. Apart /\ Contained /\ raced \in SUBSET Nat
  BY <1>2 DEF Apart, Contained, Calm, Busy, Alters, Init
<1>5. \A t \in Threads : StackOK(calls[t]) /\ Selects(mem, calls[t])
  BY <1>2, EmptyStack
<1> QED BY <1>1, <1>3, <1>4, <1>5 DEF FieldInv, Types

LEMMA StepAdvances ==
  ASSUME FieldInv, NEW t \in Threads, Step(t)
  PROVE  Advances(t)
<1>1. CASE SelectBank(t)
  BY <1>1, SelectBankStep
<1>2. CASE Fetch(t)
  BY <1>2, FetchStep
<1>3. CASE Fill(t)
  BY <1>3, FillStep
<1>4. CASE Store(t)
  BY <1>4, StoreStep
<1>5. CASE SelectToRead(t)
  BY <1>5, SelectToReadStep
<1>6. CASE FetchData(t)
  BY <1>6, FetchDataStep
<1>7. CASE Fetched(t)
  BY <1>7, FetchedStep
<1>8. CASE SelectToWrite(t)
  BY <1>8, SelectToWriteStep
<1>9. CASE StoreData(t)
  BY <1>9, StoreDataStep
<1>10. CASE Return(t)
  BY <1>10, ReturnStep
<1>11. CASE Finish(t)
  BY <1>11, FinishStep
<1> QED BY <1>1, <1>2, <1>3, <1>4, <1>5, <1>6, <1>7, <1>8, <1>9, <1>10, <1>11 DEF Step

LEMMA StepKeepsInv ==
  ASSUME FieldInv, NEW t \in Threads, Step(t)
  PROVE  FieldInv'
<1>1. PICK s : Advance(t, s)
  BY StepAdvances DEF Advances
<1> QED BY <1>1, AdvanceKeeps

LEMMA NextKeepsInv ==
  ASSUME FieldInv, [Next]_vars
  PROVE  FieldInv'
<1>1. CASE \E t \in Threads : Step(t)
  BY <1>1, StepKeepsInv
<1>2. CASE \E t \in Threads, f \in Public :
             \/ Start(t, f, "read", {}) \/ UseBuffer(t, f, "read", {})
             \/ \E v \in Sources : Start(t, f, "write", v) \/ UseBuffer(t, f, "write", v)
  <2>1. Public \subseteq Fields /\ {} \in SUBSET Nat
    BY DEF Public
  <2>2. \A v \in Sources : v \in SUBSET Nat
    <3> DEFINE S == 1..WordBits - 1
    <3>1. S \in SUBSET Nat /\ {0} \in SUBSET Nat
      BY WidthsAssumption
    <3>2. Sources = {{0}, S}
      BY DEF Sources
    <3> HIDE DEF S
    <3> QED BY <3>1, <3>2
  <2>3. PICK t \in Threads, f \in Fields :
             \/ Start(t, f, "read", {}) \/ UseBuffer(t, f, "read", {})
             \/ \E v \in Sources : Start(t, f, "write", v) \/ UseBuffer(t, f, "write", v)
    BY <1>2, <2>1
  <2>4. CASE Start(t, f, "read", {}) \/ UseBuffer(t, f, "read", {})
    <3> DEFINE v == {}
               op == "read"
    <3>1. v \in SUBSET Nat /\ op \in {"read", "write"} /\ (Start(t, f, op, v) \/ UseBuffer(t, f, op, v))
      BY <2>1, <2>4
    <3> HIDE DEF v, op
    <3> QED BY <3>1, StartStep, UseBufferStep
  <2>5. CASE \E v \in Sources : Start(t, f, "write", v) \/ UseBuffer(t, f, "write", v)
    BY <2>2, <2>5, StartStep, UseBufferStep
  <2> QED BY <2>3, <2>4, <2>5
<1>3. CASE UNCHANGED vars
  <2>1. Types' /\ raced' = raced /\ mem' = mem /\ calls' = calls
    BY <1>3 DEF FieldInv, Types, vars
  <2>2. \A u \in Threads : Busy(u)' = Busy(u) /\ Alters(u)' = Alters(u) /\ Calm(u)' = Calm(u)
    BY <2>1 DEF Busy, Alters, Calm
  <2>3. Apart' /\ Contained'
    BY <2>1, <2>2 DEF FieldInv, Apart, Contained
  <2>4. \A u \in Threads : (StackOK(calls[u]) /\ (Calm(u) => Selects(mem, calls[u])))'
    BY <2>1, <2>2 DEF FieldInv
  <2> QED BY <2>1, <2>3, <2>4 DEF FieldInv
<1> QED BY <1>1, <1>2, <1>3 DEF Next

LEMMA InvHolds == Spec => []FieldInv
<1>1. Init => FieldInv
  BY InitialInv
<1>2. FieldInv /\ [Next]_vars => FieldInv'
  BY NextKeepsInv
<1> QED BY <1>1, <1>2, PTL DEF Spec

\* Calls have their types, an access never moves a call past the end of its field nor
\* reads more bits into the destination than it has passed, and an operation only
\* calls its own registers: for fields of any layout and any number of threads.
THEOREM TypeIsOK == Spec => []TypeOK
<1>1. FieldInv => TypeOK
  <2> SUFFICES ASSUME FieldInv PROVE TypeOK
    OBVIOUS
  <2>1. ASSUME NEW t \in Threads, NEW k \in 1..Len(calls[t])
        PROVE  LET c == calls[t][k]
               IN  c.progress <= Field[c.field].size /\ c.dest \subseteq 0..c.progress - 1
    <3>1. CallOK(calls[t][k])
      BY DEF FieldInv, StackOK
    <3> QED BY <3>1 DEF CallOK, Node
  <2>2. ASSUME NEW t \in Threads, NEW k \in 2..Len(calls[t])
        PROVE  calls[t][k].field \in {Field[calls[t][1].field].select, Field[calls[t][1].field].data}
    <3> DEFINE s == calls[t]
    <3>1. Len(s) \in 0..2 /\ (Len(s) = 2 => Inner(s[1], s[2]))
      BY DEF FieldInv, StackOK
    <3>2. Len(s) = 2 /\ k = 2
      <4> DEFINE n == Len(s)
      <4>1. n \in 0..2 /\ k \in 2..n
        BY <3>1
      <4> HIDE DEF n
      <4>2. n = 2 /\ k = 2
        BY <4>1
      <4> QED BY <4>2 DEF n
    <3>3. Inner(s[1], s[2])
      BY <3>1, <3>2
    <3> HIDE DEF s
    <3>4. s[2].field \in {Field[s[1].field].select, Field[s[1].field].data}
      BY <3>3 DEF Inner, Register, Node
    <3> QED BY <3>2, <3>4 DEF s
  <2>3. Types
    BY DEF FieldInv
  <2> QED BY <2>1, <2>2, <2>3 DEF TypeOK, Types
<1> QED BY <1>1, InvHolds, PTL

\* What a register that holds v selects.
LEMMA HeldSelects ==
  ASSUME NEW f \in Fields, Field[f].select # Nobody, NEW b \in Accessed(Window(f)),
         NEW m, NEW v \in SUBSET Nat, Holds(m, Field[f].select, v)
  PROVE  Selected(m, b) =
           {Field[Field[f].select].offset + j : j \in {k \in v : k < Field[Field[f].select].size}}
<1> DEFINE r == Field[f].select
           off == Field[r].offset
           size == Field[r].size
<1>1. Selector[b] = Place(r) /\ r \in Fields
  BY RegisterFacts
<1>2. off \in Nat /\ size \in Nat
  BY <1>1, FieldTypes
<1>3. Selected(m, b) = {x \in {off + j : j \in 0..size - 1} : <<{}, x>> \in m}
  BY <1>1 DEF Selected, Place
<1>4. \A j \in 0..size - 1 : <<{}, off + j>> \in m <=> j \in v
  BY DEF Holds, HoldsUpTo
<1> HIDE DEF off, size, r
<1>5. \A j \in v : j < size <=> j \in 0..size - 1
  BY <1>2
<1>6. {x \in {off + j : j \in 0..size - 1} : <<{}, x>> \in m} = {off + j : j \in {k \in v : k < size}}
  BY <1>4, <1>5, SMTT(30)
<1> QED BY <1>3, <1>6 DEF off, size, r

\* The index register holds the offset of the access whenever the data register is
\* accessed for it, and the bank register the number of the bank: for fields and
\* registers of any width and place, and a thread that does not race with another one
\* for them, whatever races elsewhere.
THEOREM RegistersDoSelect == Spec => []RegistersSelect
<1>1. FieldInv => RegistersSelect
  <2> SUFFICES ASSUME FieldInv, NEW t \in Threads, calls[t] # <<>>, Calm(t)
               PROVE  LET c == calls[t][1] d == Field[c.field] n == Len(calls[t])
                      IN  /\ d.kind = "indexfield" /\ n > 1 /\ Top(t).field = d.data /\ More(Top(t))
                               => Selected(mem, Field[d.data].offset) =
                                  Spot(c.field, d.offset + IF c.pc = "fetched" THEN c.progress
                                                           ELSE c.progress - 1)[1]
                          /\ d.kind = "bankfield" /\ n = 1 /\ c.pc # "bank" /\ More(c)
                               => Selected(mem, d.offset) = Spot(c.field, d.offset)[1]
    BY DEF RegistersSelect
  <2> DEFINE s == calls[t]
             c == s[1]
             f == c.field
             d == Field[f]
             r == d.select
             reg(n) == {Field[r].offset + j : j \in {k \in Bits(n) : k < Field[r].size}}
  <2>1. /\ Len(s) \in 1..2 /\ Selects(mem, s) /\ c \in CallType /\ CallOK(c)
        /\ (Len(s) = 2 => Top(t) = s[2])
    BY RunningStack
  <2>2. f \in Fields /\ Node(c) = d /\ Register(c) = r
    BY <2>1, CallFields DEF Node, Register
  <2> HIDE DEF c, s, f
  <2>3. ASSUME r # Nobody, NEW n, Holds(mem, r, Bits(n)), NEW b \in Accessed(Window(f))
        PROVE  Selected(mem, b) = reg(n)
    <3> DEFINE v == Bits(n)
    <3>1. v \in SUBSET Nat
      BY BitsType
    <3>2. Holds(mem, r, v)
      BY <2>3
    <3> HIDE DEF v
    <3>3. Selected(mem, b) = {Field[r].offset + j : j \in {k \in v : k < Field[r].size}}
      BY <2>2, <2>3, <3>1, <3>2, HeldSelects
    <3> QED BY <3>3 DEF v
  <2>4. \A g \in Fields : Field[g].kind # "indexfield" => Field[g].offset \in Accessed(g)
    <3> SUFFICES ASSUME NEW g \in Fields, Field[g].kind # "indexfield"
                 PROVE  Field[g].offset \in Accessed(g)
      OBVIOUS
    <3>1. 0 \in 0..Field[g].size - 1 /\ Field[g].offset + 0 = Field[g].offset
      BY FieldTypes
    <3> QED BY <3>1, PlaceAccessed
  <2>5. ASSUME d.kind = "indexfield", Len(s) > 1, Top(t).field = d.data
        PROVE  Selected(mem, Field[d.data].offset) =
               Spot(f, d.offset + IF c.pc = "fetched" THEN c.progress ELSE c.progress - 1)[1]
    <3> DEFINE b == d.offset + IF c.pc = "fetched" THEN c.progress ELSE c.progress - 1
    <3>1. Len(s) = 2 /\ s[2].field = Node(c).data
      <4> DEFINE n == Len(s)
      <4>1. n \in 1..2 /\ n > 1
        BY <2>1, <2>5
      <4> HIDE DEF n
      <4>2. n = 2
        BY <4>1
      <4> QED BY <2>1, <2>2, <2>5, <4>2 DEF n
    <3>2. Holds(mem, r, Bits(Behind(c)))
      BY <2>1, <2>2, <3>1 DEF Selects, c
    <3>3. Behind(c) = UnitOf(f, b)
      <4>1. d.offset \in Nat /\ c.progress \in Nat /\ Position(c) = d.offset + c.progress
        BY <2>1, <2>2, CallFields, FieldTypes DEF Position
      <4>2. Position(c) - (IF c.pc = "fetched" THEN 0 ELSE 1) = b
        <5> HIDE DEF d
        <5> QED BY <4>1
      <4> QED BY <4>2 DEF Behind, f
    <3>4. r # Nobody /\ d.data \in Fields /\ Field[d.data].kind = "field" /\ Window(f) = d.data
      BY <2>2, <2>5, RegisterOfKind, FieldsAssumption DEF Window
    <3>5. Selected(mem, Field[d.data].offset) = reg(UnitOf(f, b))
      <4>1. Field[d.data].offset \in Accessed(Window(f))
        BY <2>4, <3>4
      <4>2. Holds(mem, r, Bits(UnitOf(f, b)))
        BY <3>2, <3>3
      <4> HIDE DEF b, d, reg
      <4> QED BY <2>3, <3>4, <4>1, <4>2
    <3>6. Spot(f, b)[1] = reg(UnitOf(f, b))
      <4> HIDE DEF b
      <4>1. Spot(f, b) = <<reg(UnitOf(f, b)), Field[d.data].offset + (b % Width(f))>>
        BY <2>5 DEF Spot
      <4> HIDE DEF reg, d
      <4> QED BY <4>1
    <3> QED BY <3>5, <3>6
  <2>6. ASSUME d.kind = "bankfield", Len(s) = 1, c.pc # "bank"
        PROVE  Selected(mem, d.offset) = Spot(f, d.offset)[1]
    <3>1. Holds(mem, r, Bits(d.bank))
      BY <2>1, <2>2, <2>6 DEF Selects, c
    <3>2. r # Nobody /\ Window(f) = f /\ d.offset \in Accessed(f)
      BY <2>2, <2>4, <2>6, RegisterOfKind DEF Window
    <3>3. Selected(mem, d.offset) = reg(d.bank)
      <4> DEFINE b == d.offset
                 n == d.bank
      <4>1. b \in Accessed(Window(f)) /\ Holds(mem, r, Bits(n))
        BY <3>1, <3>2
      <4> HIDE DEF b, n, reg, d
      <4>2. Selected(mem, b) = reg(n)
        BY <2>3, <3>2, <4>1
      <4> QED BY <4>2 DEF b, n
    <3>4. Spot(f, d.offset)[1] = reg(d.bank)
      <4>1. Spot(f, d.offset) = <<reg(d.bank), d.offset>>
        BY <2>6 DEF Spot
      <4> HIDE DEF reg, d
      <4> QED BY <4>1
    <3> QED BY <3>3, <3>4
  <2> QED BY ONLY <2>5, <2>6, Zenon DEF c, f, s
<1> QED BY <1>1, InvHolds, PTL

(***************************************************************************)
(* What is stored in a field is what is read from it, for fields of any    *)
(* layout and any number of threads, as far as their operations do not     *)
(* race; those that do race change nothing but what they share.            *)
(*                                                                         *)
(* MemoryInv relates the registers to the ideal ones, in which whole       *)
(* operations are atomic.  They agree on every bit that no write is        *)
(* changing and that is not raced (Agrees), and within an operation that   *)
(* does not race every access that is over left or found what it should    *)
(* (Faithful), which is what makes them agree again when it ends.          *)
(***************************************************************************)

\* The bits of the register of f that are 1 when it holds n.
Chosen(f, n) ==
    {Field[Field[f].select].offset + j : j \in {k \in Bits(n) : k < Field[Field[f].select].size}}

\* Bit i of the access of f that contains bit k of the field.
UnitBit(f, k, i) == ByteBits * UnitOf(f, Field[f].offset + k) + i

\* What a write is to leave at bit b of the space of its field, if that is determined.
Inside(f, b) == b \in Field[f].offset..Field[f].offset + Field[f].size - 1
Settled(f, b) == IF Inside(f, b) THEN ~Wide(f) ELSE Field[f].rule # "preserve"
Target(c, b) == IF Inside(c.field, b) THEN b - Node(c).offset \in c.source ELSE Node(c).rule = "ones"

\* The value of a call is that of the bits of its access.
Current(m, c) ==
    \A i \in 0..Width(c.field) - 1 :
        i \in c.value <=> Spot(c.field, ByteBits * c.offset + i) \in m

\* The data register is accessed.
Transfers(s) == Len(s) = 2 /\ s[2].field = Node(s[1]).data

\* The access that contains bit k is over.
Over(s, k) ==
    k < s[1].progress /\ (Transfers(s) => UnitOf(s[1].field, Node(s[1]).offset + k) # Behind(s[1]))

\* An operation has read what is there; the accesses of a write that are over left
\* everything as it should be.
OuterOK(m, s) ==
    LET c == s[1] f == c.field
    IN  /\ f \in Public
        /\ c.pc \in {"store", "send"} => c.op = "write"
        /\ c.pc \in {"fetch", "fetched"} => c.op = "read" \/ Node(c).rule = "preserve"
        /\ c.pc \in {"store", "send"} =>
             IF Node(c).rule = "preserve" THEN Current(m, c) ELSE c.value = Background(c)
        /\ c.pc = "fetched" /\ Len(s) = 1 => Current(m, c)
        /\ c.op = "read" /\ ~Wide(f) /\ ~Shiftless(f) =>
             \A k \in 0..c.progress - 1 : k \in c.dest <=> Spot(f, Node(c).offset + k) \in m
        /\ c.op = "write" =>
             \A k \in 0..Node(c).size - 1, i \in 0..Width(f) - 1 :
                 Over(s, k) /\ Settled(f, UnitBit(f, k, i))
                   => (Spot(f, UnitBit(f, k, i)) \in m <=> Target(c, UnitBit(f, k, i)))

\* What selects the bits that a call of a register accesses.
Choice(s) == IF s[2].field = Register(s[1]) THEN {} ELSE Chosen(s[1].field, Behind(s[1]))

\* A register is read as it is; what is written to the data register is what the
\* operation is to leave there, and around its field what is there already.
InnerOK(m, s) ==
    LET c == s[1] y == s[2] f == c.field
        cell(j) == <<Choice(s), Node(y).offset + j>>
        base == ByteBits * Behind(c)
    IN  /\ y.pc = "store" =>
             /\ y.op = "write"
             /\ \A i \in 0..Width(y.field) - 1 :
                  i \in y.value <=> <<Choice(s), ByteBits * y.offset + i>> \in m
        /\ Transfers(s) => (y.op = "read" <=> c.pc = "fetched")
        /\ Transfers(s) /\ y.op = "write" => c.op = "write"
        /\ Transfers(s) /\ y.op = "read" =>
             \A j \in 0..y.progress - 1 : j \in y.dest <=> cell(j) \in m
        /\ Transfers(s) /\ y.op = "write" =>
             /\ \A j \in 0..y.progress - 1 : cell(j) \in m <=> j \in y.source
             /\ \A j \in 0..Width(f) - 1 :
                  /\ Settled(f, base + j) => (j \in y.source <=> Target(c, base + j))
                  /\ ~Inside(f, base + j) /\ Node(c).rule = "preserve"
                       => (j \in y.source <=> cell(j) \in m)

Faithful(m, s) == s # <<>> => OuterOK(m, s) /\ (Len(s) = 2 => InnerOK(m, s))

\* What no write is changing is as it should be, but for what races.
Agrees ==
    \A x : /\ x \notin Vague /\ x[2] \notin raced
           /\ \A t \in Threads : Writing(t) => x \notin Touched(calls[t][1].field)
           => (x \in mem <=> x \in ideal)
MemoryInv == Agrees /\ \A t \in Threads : Calm(t) => Faithful(mem, calls[t])

(***************************************************************************)
(* Where the bits of fields are.                                           *)
(***************************************************************************)
LEMMA SpotIs ==
  ASSUME NEW f \in Fields, NEW b
  PROVE  /\ Field[f].kind \in {"field", "bufferfield"} => Spot(f, b) = <<{}, b>>
         /\ Field[f].kind = "bankfield" => Spot(f, b) = <<Chosen(f, Field[f].bank), b>>
         /\ Field[f].kind = "indexfield" =>
              Spot(f, b) = <<Chosen(f, UnitOf(f, b)), Field[Field[f].data].offset + (b % Width(f))>>
  BY DEF Spot, Chosen

\* The bits of an access.
LEMMA UnitBitFacts ==
  ASSUME NEW f \in Fields, NEW k \in Nat, NEW i \in 0..Width(f) - 1
  PROVE  /\ UnitBit(f, k, i) \in Nat
         /\ UnitOf(f, UnitBit(f, k, i)) = UnitOf(f, Field[f].offset + k)
         /\ UnitBit(f, k, i) % Width(f) = i
<1> DEFINE W == Width(f)
           b == Field[f].offset + k
           u == UnitOf(f, b)
           r == b % W
           p == b \div W
<1>1. W \in Nat /\ W > 0 /\ ByteBits \in Nat /\ ByteBits > 0
  BY WidthType, WidthsAssumption
<1>2. b \in Nat
  BY FieldTypes
<1>3. u \in Nat /\ r \in 0..W - 1 /\ ByteBits * u + r = b
  <2> HIDE DEF b
  <2> QED BY <1>2, UnitType
<1>4. p \in Nat /\ b = W * p + r
  <2> HIDE DEF b, W
  <2> QED BY <1>1, <1>2
<1>5. ByteBits * u = W * p /\ ByteBits * u \in Nat
  <2> DEFINE x == ByteBits * u
             y == W * p
  <2>1. x \in Nat /\ y \in Nat
    <3> HIDE DEF W, u, p
    <3> QED BY <1>1, <1>3, <1>4
  <2>2. x + r = b /\ b = y + r /\ r \in Nat
    BY <1>1, <1>3, <1>4
  <2> HIDE DEF x, y, r, b
  <2>3. x = y
    BY <2>1, <2>2
  <2> QED BY <2>1, <2>3 DEF x, y
<1> HIDE DEF W, b, u, r, p
<1> DEFINE z == W * p + i
<1>6. z % W = i
  BY <1>1, <1>4, DivUnique DEF W
<1>7. UnitBit(f, k, i) = z
  BY <1>5 DEF UnitBit, b, u
<1>8. z \in Nat /\ z - i = ByteBits * u
  BY <1>1, <1>4, <1>5 DEF W
<1>9. (ByteBits * u) \div ByteBits = u
  BY <1>1, <1>3, Multiple
<1> HIDE DEF z
<1>10. UnitOf(f, z) = u
  BY <1>6, <1>8, <1>9 DEF UnitOf, W
<1> QED BY <1>6, <1>7, <1>8, <1>10 DEF W, u, b

\* A bit of a field is in its access.
LEMMA OwnUnit ==
  ASSUME NEW f \in Fields, NEW k \in Nat
  PROVE  \E i \in 0..Width(f) - 1 : UnitBit(f, k, i) = Field[f].offset + k
<1> DEFINE b == Field[f].offset + k
<1>1. b \in Nat
  BY FieldTypes
<1> HIDE DEF b
<1>2. b % Width(f) \in 0..Width(f) - 1 /\ ByteBits * UnitOf(f, b) + (b % Width(f)) = b
  BY <1>1, UnitType
<1> QED BY <1>2 DEF UnitBit, b

LEMMA HomeUnits ==
  ASSUME NEW f \in Fields
  PROVE  Home(f) \subseteq Units(f) /\ Home(f) \subseteq Touched(f)
<1>1. Home(f) \subseteq Units(f)
  <2> SUFFICES ASSUME NEW k \in 0..Field[f].size - 1 PROVE Spot(f, Field[f].offset + k) \in Units(f)
    BY DEF Home
  <2>1. k \in Nat
    BY FieldTypes
  <2>2. PICK i \in 0..Width(f) - 1 : UnitBit(f, k, i) = Field[f].offset + k
    BY <2>1, OwnUnit
  <2> QED BY <2>2 DEF Units, UnitBit
<1> QED BY <1>1 DEF Touched

\* Different bits of the accesses of a field are different bits of memory.
LEMMA SpotInjective ==
  ASSUME NEW f \in Fields, NEW k \in 0..Field[f].size - 1, NEW l \in 0..Field[f].size - 1,
         NEW i \in 0..Width(f) - 1, NEW j \in 0..Width(f) - 1,
         Spot(f, UnitBit(f, k, i)) = Spot(f, UnitBit(f, l, j))
  PROVE  UnitBit(f, k, i) = UnitBit(f, l, j)
<1> DEFINE b == UnitBit(f, k, i)
           c == UnitBit(f, l, j)
<1>1. k \in Nat /\ l \in Nat /\ Field[f].kind \in Kinds
  BY FieldTypes
<1>2. /\ b \in Nat /\ UnitOf(f, b) = UnitOf(f, Field[f].offset + k) /\ b % Width(f) = i
      /\ c \in Nat /\ UnitOf(f, c) = UnitOf(f, Field[f].offset + l) /\ c % Width(f) = j
  BY <1>1, UnitBitFacts
<1> HIDE DEF b, c
<1>3. Spot(f, b) = Spot(f, c)
  BY DEF b, c
<1>4. CASE Field[f].kind # "indexfield"
  <2>1. Spot(f, b)[2] = b /\ Spot(f, c)[2] = c
    BY <1>1, <1>4, SpotIs DEF Kinds
  <2> QED BY <1>3, <2>1 DEF b, c
<1>5. CASE Field[f].kind = "indexfield"
  <2> DEFINE x == Field[f].offset + k
             y == Field[f].offset + l
  <2>1. Spot(f, b)[1] = Chosen(f, UnitOf(f, b)) /\ Spot(f, c)[1] = Chosen(f, UnitOf(f, c))
    BY <1>5, SpotIs
  <2>2. Spot(f, x)[1] = Chosen(f, UnitOf(f, x)) /\ Spot(f, y)[1] = Chosen(f, UnitOf(f, y))
    BY <1>5, SpotIs
  <2>3. Spot(f, x)[1] = Spot(f, y)[1]
    BY <1>2, <1>3, <2>1, <2>2
  <2>4. UnitOf(f, x) = UnitOf(f, y)
    BY <1>5, <2>3, IndexAssumption
  <2>5. i = j
    <3> DEFINE d == Field[Field[f].data].offset
               p == b % Width(f)
               q == c % Width(f)
    <3>1. Spot(f, b)[2] = d + p /\ Spot(f, c)[2] = d + q
      BY <1>5, SpotIs
    <3>2. d \in Nat
      BY <1>5, FieldTypes, FieldsAssumption
    <3>3. p = i /\ q = j /\ i \in Int /\ j \in Int
      BY <1>2, WidthType
    <3> HIDE DEF d, p, q
    <3>4. d + i = d + j
      BY <1>3, <3>1, <3>3
    <3> QED BY <3>2, <3>3, <3>4
  <2> QED BY <2>4, <2>5 DEF UnitBit
<1> QED BY <1>4, <1>5

\* The bits of a field are where its accesses go.
LEMMA SpotAddress ==
  ASSUME NEW f \in Fields, NEW k \in 0..Field[f].size - 1, NEW i \in 0..Width(f) - 1
  PROVE  \E x, b : Spot(f, UnitBit(f, k, i)) = <<x, b>> /\ b \in Accessed(Window(f))
<1> DEFINE b == UnitBit(f, k, i)
<1>1. k \in Nat /\ Field[f].kind \in Kinds
  BY FieldTypes
<1>2. b \in Nat /\ b % Width(f) = i
  BY <1>1, UnitBitFacts
<1>3. CASE Field[f].kind # "indexfield"
  <2>1. Window(f) = f /\ b \in Accessed(f)
    BY <1>3, UnitAccessed DEF Window, UnitBit
  <2> HIDE DEF b
  <2>2. \E x : Spot(f, b) = <<x, b>>
    BY <1>1, <1>3, SpotIs DEF Kinds
  <2> QED BY <2>1, <2>2 DEF b
<1>4. CASE Field[f].kind = "indexfield"
  <2> DEFINE d == Field[f].data
  <2>1. d \in Fields /\ d # Nobody /\ Field[d].kind = "field" /\ Window(f) = d
    BY <1>4, FieldsAssumption DEF Window
  <2>2. i \in 0..Field[d].size - 1
    BY <1>4, IndexAssumption
  <2>3. Field[d].offset + i \in Accessed(d)
    <3> HIDE DEF d
    <3> QED BY <2>1, <2>2, PlaceAccessed
  <2> HIDE DEF b
  <2>4. Spot(f, b) = <<Chosen(f, UnitOf(f, b)), Field[d].offset + i>>
    BY <1>2, <1>4, SpotIs
  <2> QED BY <2>1, <2>3, <2>4 DEF b
<1> QED BY <1>3, <1>4

(***************************************************************************)
(* Accesses.                                                               *)
(***************************************************************************)
\* The bits of the access of a call that belong to its field.
LEMMA AccessInside ==
  ASSUME NEW c \in CallType, CallOK(c), More(c), NEW i \in 0..Width(c.field) - 1
  PROVE  /\ ByteBits * c.offset + i = UnitBit(c.field, c.progress, i)
         /\ c.progress \in 0..Node(c).size - 1
         /\ Inside(c.field, ByteBits * c.offset + i)
              <=> i \in BitOffset(c)..BitOffset(c) + AccessBits(c) - 1
         /\ (ByteBits * c.offset + i) - Node(c).offset = c.progress + (i - BitOffset(c))
<1> DEFINE f == c.field
           W == Width(f)
           o == BitOffset(c)
           n == AccessBits(c)
           p == c.progress
           off == Field[f].offset
           size == Field[f].size
           base == ByteBits * c.offset
<1>1. f \in Fields /\ Node(c) = Field[f] /\ p \in Nat /\ c.offset \in Nat
  BY CallFields DEF Node
<1>2. off \in Nat /\ size \in Nat /\ p < size
  BY <1>1, FieldTypes DEF More
<1>3. /\ W \in Nat /\ o \in 0..W - 1 /\ n \in 1..W - o /\ n <= size - p
      /\ n = size - p \/ n = W - o
      /\ base + o = off + p
  BY <1>1, Geometry DEF Position
<1>4. base \in Nat /\ c.offset = UnitOf(f, off + p) /\ (p = 0 \/ o = 0)
  BY <1>1, WidthsAssumption DEF CallOK, Position
<1> HIDE DEF f, W, o, n, p, off, size, base
<1>5. i \in 0..W - 1 /\ i \in Int
  BY <1>3 DEF W, f
<1>6. (base + i) - off = p + (i - o)
  <2>1. /\ base \in Int /\ off \in Int /\ p \in Int /\ i \in Int /\ o \in Int
        /\ base + o = off + p
    BY <1>1, <1>2, <1>3, <1>4, <1>5
  <2> QED BY ONLY <2>1
<1>7. base + i \in off..off + size - 1 <=> i \in o..o + n - 1
  <2>1. base + i \in off..off + size - 1 <=> p + (i - o) \in 0..size - 1
    BY <1>1, <1>2, <1>3, <1>4, <1>5, <1>6
  <2>2. p + (i - o) \in 0..size - 1 <=> i \in o..o + n - 1
    BY <1>1, <1>2, <1>3, <1>4, <1>5
  <2> QED BY <2>1, <2>2
<1>8. base + i = UnitBit(f, p, i)
  BY <1>4 DEF UnitBit, base, off
<1>9. p \in 0..size - 1
  BY <1>1, <1>2
<1> QED BY <1>1, <1>6, <1>7, <1>8, <1>9 DEF f, W, o, n, p, off, size, base, Inside

\* The accesses of the bits of a field before the one of a call, and of those in it.
LEMMA AccessUnits ==
  ASSUME NEW c \in CallType, CallOK(c), More(c), NEW k \in 0..c.progress + AccessBits(c) - 1
  PROVE  UnitOf(c.field, Node(c).offset + k) = c.offset <=> k >= c.progress
<1> DEFINE f == c.field
           W == Width(f)
           o == BitOffset(c)
           n == AccessBits(c)
           p == c.progress
           off == Field[f].offset
           b == off + k
           base == ByteBits * c.offset
<1>1. f \in Fields /\ Node(c) = Field[f] /\ p \in Nat /\ c.offset \in Nat /\ off \in Nat
  BY CallFields, FieldTypes DEF Node
<1>2. /\ W \in Nat /\ o \in 0..W - 1 /\ n \in 1..W - o /\ base + o = off + p
  BY <1>1, Geometry DEF Position
<1>3. /\ base \in Nat /\ c.offset = UnitOf(f, off + p) /\ (p = 0 \/ o = 0)
      /\ o = (off + p) % W
  BY <1>1, WidthsAssumption DEF CallOK, Position, BitOffset
<1>4. k \in Nat /\ b \in Nat /\ k < p + n
  <2>1. k \in 0..p + n - 1
    OBVIOUS
  <2> HIDE DEF p, n, off
  <2> QED BY <1>1, <1>2, <2>1
<1> HIDE DEF f, W, o, n, p, off, b, base
<1>5. ASSUME k >= p PROVE UnitOf(f, b) = c.offset
  <2> DEFINE x == off + p
             j == k - p
  <2>1. x \in Nat /\ j \in Nat /\ b = x + j
    BY <1>1, <1>4, <1>5 DEF b
  <2>2. o + j < W
    BY <1>1, <1>2, <1>4, <1>5
  <2>3. (x % W) + j < W /\ UnitOf(f, x) = c.offset
    BY <1>3, <2>2
  <2> HIDE DEF x, j
  <2>4. UnitOf(f, x + j) = UnitOf(f, x)
    BY <1>1, <2>1, <2>3, UnitSame DEF W
  <2> QED BY <2>1, <2>3, <2>4
<1>6. ASSUME k < p PROVE UnitOf(f, b) # c.offset
  <2>1. b < base
    BY <1>1, <1>2, <1>3, <1>4, <1>6 DEF b
  <2> DEFINE r == b % W
  <2>2. r \in 0..W - 1 /\ ByteBits * UnitOf(f, b) + r = b
    BY <1>1, <1>4, UnitType DEF W
  <2> HIDE DEF r
  <2> SUFFICES ASSUME UnitOf(f, b) = c.offset PROVE FALSE
    OBVIOUS
  <2>3. base + r = b
    BY <2>2 DEF base
  <2> QED BY <1>2, <1>3, <1>4, <2>1, <2>2, <2>3
<1>7. UnitOf(f, b) = c.offset <=> k >= p
  BY <1>1, <1>4, <1>5, <1>6
<1> QED BY <1>1, <1>7 DEF f, b, off, p

\* Around the field, what is written is what was there.
LEMMA MergedAround ==
  ASSUME NEW c \in CallType, NEW old, NEW n \in Nat, NEW mask \in SUBSET (0..n - 1),
         BitOffset(c) \in Nat, NEW i \in Nat, i \notin BitOffset(c)..BitOffset(c) + n - 1
  PROVE  i \in Merged(c, old, mask) <=> i \in old
<1> DEFINE o == BitOffset(c)
           part == Unshifted(c.source, c.progress) \cap mask
<1>1. i - o \notin 0..n - 1
  <2> HIDE DEF o
  <2> QED BY DEF o
<1>2. o \in Int /\ mask \in SUBSET Int /\ part \in SUBSET Int
  <2>1. 0..n - 1 \in SUBSET Int /\ o \in Int
    OBVIOUS
  <2>2. mask \in SUBSET Int
    BY <2>1
  <2> HIDE DEF o
  <2> QED BY <2>1, <2>2
<1>3. i - o \notin mask /\ i - o \notin part
  BY <1>1
<1>4. Merged(c, old, mask) = (old \ Shifted(mask, o)) \cup Shifted(part, o)
  BY DEF Merged
<1> HIDE DEF o, part
<1>5. i \notin Shifted(mask, o) /\ i \notin Shifted(part, o)
  BY <1>2, <1>3, ShiftedBit
<1> QED BY <1>4, <1>5

\* A buffer field that begins with a byte needs no shift.
LEMMA LowestIs ==
  ASSUME NEW c \in CallType, CallOK(c), More(c), ~Shiftless(c.field)
  PROVE  Lowest(c) = BitOffset(c)
<1> DEFINE f == c.field
<1>1. CASE Node(c).kind # "bufferfield"
  BY <1>1 DEF Lowest
<1>2. CASE Node(c).kind = "bufferfield"
  <2>1. f \in Fields /\ Node(c) = Field[f] /\ Field[f].offset \in Nat
    BY CallFields, FieldTypes DEF Node
  <2>2. Width(f) = ByteBits
    BY <1>2, <2>1, FieldsAssumption, WidthsAssumption DEF Width
  <2>3. Field[f].offset % ByteBits = 0
    BY <1>2, <2>1 DEF Shiftless
  <2>4. BitOffset(c) = 0
    <3>1. CASE c.progress = 0
      BY <2>1, <2>2, <2>3, <3>1 DEF BitOffset
    <3>2. CASE c.progress # 0
      BY <3>2 DEF CallOK
    <3> QED BY <3>1, <3>2
  <2> QED BY <1>2, <2>4 DEF Lowest
<1> QED BY <1>1, <1>2

\* What an access reads goes to the next bits of the destination.
LEMMA GotBits ==
  ASSUME NEW c \in CallType, CallOK(c), More(c), NEW v \in SUBSET Nat, ~Shiftless(c.field)
  PROVE  LET d == Got(c, v, 0..AccessBits(c) - 1)
         IN  /\ \A k \in 0..c.progress - 1 : k \in d.dest <=> k \in c.dest
             /\ \A i \in 0..AccessBits(c) - 1 : c.progress + i \in d.dest <=> BitOffset(c) + i \in v
             /\ d.progress = c.progress + AccessBits(c) /\ d.value = c.value
<1> DEFINE o == BitOffset(c)
           n == AccessBits(c)
           p == c.progress
           part == Unshifted(v, o) \cap (0..n - 1)
           d == Got(c, v, 0..n - 1)
<1>1. p \in Nat /\ o \in Nat /\ n \in Nat /\ c.dest \subseteq 0..p - 1
  BY CallFields, Geometry DEF CallOK
<1>2. part \in SUBSET Int /\ \A j \in part : j >= 0
  OBVIOUS
<1>3. d.dest = c.dest \cup Shifted(part, p) /\ d.progress = p + n /\ d.value = c.value
  BY LowestIs DEF Got, NextAccess, CallType
<1> HIDE DEF d, o, n, p
<1>4. ASSUME NEW k \in 0..p - 1 PROVE k \in d.dest <=> k \in c.dest
  <2>1. k - p < 0 /\ k \in Int /\ p \in Int
    BY <1>1
  <2>2. k - p \notin part
    BY <1>2, <2>1
  <2> HIDE DEF part
  <2>3. k \notin Shifted(part, p)
    BY <1>2, <2>1, <2>2, ShiftedBit
  <2> QED BY <1>3, <2>3
<1>5. ASSUME NEW i \in 0..n - 1 PROVE p + i \in d.dest <=> o + i \in v
  <2>1. i \in Int /\ p \in Int /\ p + i \in Int /\ (p + i) - p = i /\ i + o = o + i /\ i >= 0
    BY <1>1
  <2>2. i \in part <=> o + i \in v
    BY <1>1, <2>1, UnshiftedBit
  <2> HIDE DEF part
  <2>3. p + i \in Shifted(part, p) <=> i \in part
    BY <1>2, <2>1, ShiftedBit
  <2>4. p + i \notin c.dest
    BY <1>1
  <2> QED BY <1>3, <2>2, <2>3, <2>4
<1> QED BY <1>3, <1>4, <1>5 DEF d, o, n, p

\* If the destination has the bits of the field in B, and what is read those of the
\* access, the destination has those of the field again.
LEMMA GotAll ==
  ASSUME NEW c \in CallType, CallOK(c), More(c), NEW v \in SUBSET Nat, NEW B, ~Shiftless(c.field),
         \A i \in 0..Width(c.field) - 1 : i \in v <=> ByteBits * c.offset + i \in B,
         \A j \in 0..c.progress - 1 : j \in c.dest <=> Node(c).offset + j \in B
  PROVE  LET d == Got(c, v, 0..AccessBits(c) - 1)
         IN  \A k \in 0..d.progress - 1 : k \in d.dest <=> Node(c).offset + k \in B
<1> DEFINE d == Got(c, v, 0..AccessBits(c) - 1)
           p == c.progress
           n == AccessBits(c)
           o == BitOffset(c)
           W == Width(c.field)
           base == ByteBits * c.offset
           off == Node(c).offset
<1>1. c.field \in Fields /\ c.offset \in Nat /\ p \in Nat /\ off \in Nat
  BY CallFields, FieldTypes DEF Node
<1>2. base \in Nat
  BY <1>1, WidthsAssumption
<1>3. W \in Nat /\ o \in 0..W - 1 /\ n \in 1..W - o /\ base + o = off + p
  BY Geometry DEF Position
<1>4. /\ \A j \in 0..p - 1 : j \in d.dest <=> j \in c.dest
      /\ \A i \in 0..n - 1 : p + i \in d.dest <=> o + i \in v
      /\ d.progress = p + n
  BY GotBits
<1>5. /\ \A i \in 0..W - 1 : i \in v <=> base + i \in B
      /\ \A j \in 0..p - 1 : j \in c.dest <=> off + j \in B
  OBVIOUS
<1> HIDE DEF d, p, n, o, W, base, off
<1> SUFFICES ASSUME NEW k \in 0..d.progress - 1 PROVE k \in d.dest <=> off + k \in B
  BY DEF d, off
<1>6. CASE k < p
  <2>1. k \in 0..p - 1
    BY <1>1, <1>3, <1>4, <1>6
  <2> QED BY <1>4, <1>5, <2>1
<1>7. CASE k >= p
  <2> DEFINE i == k - p
             b == o + i
  <2>1. i \in 0..n - 1 /\ p + i = k /\ b \in 0..W - 1 /\ base + b = off + k
    <3>1. /\ k \in Int /\ k < p + n /\ n \in Int /\ p \in Nat /\ o \in Nat /\ base \in Nat
          /\ o + n <= W /\ W \in Nat /\ off \in Nat /\ base + o = off + p
      BY <1>1, <1>2, <1>3, <1>4
    <3> QED BY ONLY <1>7, <3>1
  <2>2. k \in d.dest <=> b \in v
    BY <1>4, <2>1
  <2> HIDE DEF i, b
  <2>3. b \in v <=> base + b \in B
    BY <1>5, <2>1
  <2> QED BY <2>1, <2>2, <2>3
<1>8. k \in Int /\ p \in Int
  BY <1>1, <1>3, <1>4
<1> QED BY <1>6, <1>7, <1>8

\* A write changes the bits of its access as the value says, if what selects them is
\* the same for all.
LEMMA WrittenCells ==
  ASSUME NEW m, NEW width \in Nat, NEW offset \in Nat, NEW v, NEW sel,
         \A i \in 0..width - 1 : Cell(m, ByteBits * offset + i) = <<sel, ByteBits * offset + i>>
  PROVE  /\ \A i \in 0..width - 1 :
              <<sel, ByteBits * offset + i>> \in Written(m, width, offset, v) <=> i \in v
         /\ \A x : (\A i \in 0..width - 1 : x # <<sel, ByteBits * offset + i>>) =>
              (x \in Written(m, width, offset, v) <=> x \in m)
<1> DEFINE base == ByteBits * offset
           m2 == Written(m, width, offset, v)
<1>1. base \in Nat
  BY WidthsAssumption
<1>2. \A i \in 0..width - 1 : Cell(m, base + i) = <<sel, base + i>>
  OBVIOUS
<1>3. m2 = (m \ {Cell(m, base + i) : i \in 0..width - 1})
           \cup {Cell(m, base + i) : i \in v \cap (0..width - 1)}
  BY DEF Written
<1> HIDE DEF base, m2
<1>4. ASSUME NEW i \in 0..width - 1 PROVE <<sel, base + i>> \in m2 <=> i \in v
  <2>1. ASSUME i \in v PROVE <<sel, base + i>> \in m2
    BY <1>2, <1>3, <2>1
  <2>2. ASSUME <<sel, base + i>> \in m2 PROVE i \in v
    <3>1. PICK k \in v \cap (0..width - 1) : <<sel, base + i>> = Cell(m, base + k)
      BY <1>2, <1>3, <2>2
    <3>2. base + i = base + k
      BY <1>2, <3>1
    <3>3. i = k
      BY <1>1, <3>2
    <3> QED BY <3>1, <3>3
  <2> QED BY <2>1, <2>2
<1>5. ASSUME NEW x, \A i \in 0..width - 1 : x # <<sel, base + i>> PROVE x \in m2 <=> x \in m
  BY <1>2, <1>3, <1>5
<1> QED BY <1>4, <1>5 DEF base, m2

\* What selects the bits that the call on top accesses.
Sel(s) ==
    IF Len(s) = 2 THEN Choice(s)
    ELSE IF Node(s[1]).kind = "bankfield" THEN Chosen(s[1].field, Node(s[1]).bank)
    ELSE {}

LEMMA HeldChosen ==
  ASSUME NEW f \in Fields, Field[f].select # Nobody, NEW b \in Accessed(Window(f)),
         NEW m, NEW n, Holds(m, Field[f].select, Bits(n))
  PROVE  Selected(m, b) = Chosen(f, n)
<1> DEFINE v == Bits(n)
<1>1. v \in SUBSET Nat
  BY BitsType
<1>2. Holds(m, Field[f].select, v)
  OBVIOUS
<1> HIDE DEF v
<1>3. Selected(m, b) =
        {Field[Field[f].select].offset + j : j \in {k \in v : k < Field[Field[f].select].size}}
  BY <1>1, <1>2, HeldSelects
<1> QED BY <1>3 DEF v, Chosen

\* What an access reads or writes is selected as the operation needs it.
LEMMA TopCells ==
  ASSUME FieldInv, NEW t \in Threads, Calm(t), calls[t] # <<>>, calls[t][1].field \in Public,
         More(Top(t)), Direct(Top(t)), Top(t).pc \in {"loop", "store"}
  PROVE  LET c == Top(t)
         IN  /\ \A i \in 0..Width(c.field) - 1 :
                  Cell(mem, ByteBits * c.offset + i) = <<Sel(calls[t]), ByteBits * c.offset + i>>
             /\ Len(calls[t]) = 1 =>
                  \A b : Spot(c.field, b) = <<Sel(calls[t]), b>>
<1> DEFINE s == calls[t]
           o == s[1]
           f == o.field
           c == Top(t)
<1>1. /\ Len(s) \in 1..2 /\ Selects(mem, s) /\ o \in CallType /\ CallOK(o) /\ c \in CallType /\ CallOK(c)
      /\ (Len(s) = 1 => c = o)
      /\ (Len(s) = 2 => c = s[2] /\ Inner(o, c) /\ Node(c).kind = "field")
  BY RunningStack
<1>2. /\ f \in Fields /\ Node(o) = Field[f] /\ Register(o) = Field[f].select /\ Field[f].kind \in Kinds
      /\ c.field \in Fields /\ Node(c) = Field[c.field]
  BY <1>1, CallFields, FieldTypes DEF Node, Register
<1>3. More(c) /\ Direct(c) /\ c.pc \in {"loop", "store"} /\ f \in Public
  OBVIOUS
<1>4. Bytes(c) \subseteq Accessed(c.field)
  <2> HIDE DEF c
  <2> QED BY <1>1, <1>3, BytesAccessed
<1>5. ASSUME \A b \in Accessed(c.field) : Selected(mem, b) = Sel(s)
      PROVE  \A i \in 0..Width(c.field) - 1 :
                  Cell(mem, ByteBits * c.offset + i) = <<Sel(s), ByteBits * c.offset + i>>
  BY <1>4, <1>5 DEF Bytes, Cell
<1> HIDE DEF s, o, f, c
<1>6. CASE Len(s) = 1
  <2>1. c = o /\ c.field = f /\ Len(s) # 2
    BY <1>1, <1>6 DEF f
  <2>2. Field[f].kind \in {"field", "bufferfield", "bankfield"}
    BY <1>1, <1>2, <1>3, <2>1 DEF CallOK, Direct, Kinds
  <2>3. CASE Field[f].kind \in {"field", "bufferfield"}
    <3>1. Sel(s) = {}
      BY <1>2, <2>1, <2>3 DEF Sel, o
    <3>2. \A b \in Accessed(f) : Selected(mem, b) = {}
      BY <1>3, <2>3, DeviceAssumption DEF Selected
    <3>3. \A b : Spot(f, b) = <<{}, b>>
      BY <1>2, <2>3, SpotIs
    <3> QED BY <1>5, <2>1, <3>1, <3>2, <3>3 DEF c, s
  <2>4. CASE Field[f].kind = "bankfield"
    <3>1. Sel(s) = Chosen(f, Field[f].bank)
      BY <1>2, <2>1, <2>4 DEF Sel, o, f
    <3>2. Holds(mem, Field[f].select, Bits(Field[f].bank))
      BY <1>1, <1>2, <1>3, <1>6, <2>1, <2>4 DEF Selects, o
    <3>3. Field[f].select # Nobody /\ Window(f) = f
      BY <1>2, <2>4, RegisterOfKind DEF Window
    <3>4. \A b \in Accessed(f) : Selected(mem, b) = Chosen(f, Field[f].bank)
      BY <1>2, <3>2, <3>3, HeldChosen
    <3>5. \A b : Spot(f, b) = <<Chosen(f, Field[f].bank), b>>
      BY <1>2, <2>4, SpotIs
    <3> QED BY <1>5, <2>1, <3>1, <3>4, <3>5 DEF c, s
  <2> QED BY <2>2, <2>3, <2>4
<1>7. CASE Len(s) = 2
  <2>1. c = s[2] /\ Inner(o, c) /\ Len(s) # 1
    BY <1>1, <1>7
  <2>2. Sel(s) = Choice(s)
    BY <1>7 DEF Sel
  <2>3. Field[f].select # Nobody /\ c.field \in {Register(o), Node(o).data}
    BY <1>1, <1>2, <2>1, InnerFacts
  <2>4. CASE c.field = Register(o)
    <3>1. Sel(s) = {}
      BY <2>1, <2>2, <2>4 DEF Choice, o
    <3>2. \A b \in Accessed(c.field) : Selected(mem, b) = {}
      BY <1>2, <2>3, <2>4, RegisterFacts DEF Selected
    <3> QED BY <1>5, <2>1, <3>1, <3>2 DEF c, s
  <2>5. CASE c.field # Register(o)
    <3>1. c.field = Node(o).data /\ Node(o).kind = "indexfield"
      BY <1>1, <2>1, <2>3, <2>5, InnerFacts
    <3>2. Sel(s) = Chosen(f, Behind(o))
      BY <2>1, <2>2, <2>5 DEF Choice, o, f
    <3>3. Holds(mem, Field[f].select, Bits(Behind(o)))
      BY <1>1, <1>2, <1>7, <2>1, <3>1 DEF Selects, o
    <3>4. Window(f) = c.field
      BY <1>2, <3>1 DEF Window
    <3>5. \A b \in Accessed(c.field) : Selected(mem, b) = Chosen(f, Behind(o))
      <4> DEFINE n == Behind(o)
      <4> HIDE DEF n
      <4>1. Holds(mem, Field[f].select, Bits(n))
        BY <3>3 DEF n
      <4>2. \A b \in Accessed(Window(f)) : Selected(mem, b) = Chosen(f, n)
        BY <1>2, <2>3, <4>1, HeldChosen
      <4> QED BY <3>4, <4>2 DEF n
    <3> QED BY <1>5, <2>1, <3>2, <3>5 DEF c, s
  <2> QED BY <2>4, <2>5
<1>8. Len(s) = 1 \/ Len(s) = 2
  <2> DEFINE n == Len(s)
  <2>1. n \in 1..2
    BY <1>1
  <2> HIDE DEF n
  <2>2. n = 1 \/ n = 2
    BY <2>1
  <2> QED BY <2>2 DEF n
<1> QED BY <1>6, <1>7, <1>8

\* What a call reads.
LEMMA TopRead ==
  ASSUME FieldInv, NEW t \in Threads, Calm(t), calls[t] # <<>>, calls[t][1].field \in Public,
         More(Top(t)), Direct(Top(t)), Top(t).pc \in {"loop", "store"},
         NEW i \in 0..Width(Top(t).field) - 1
  PROVE  i \in Read(mem, Width(Top(t).field), Top(t).offset)
           <=> <<Sel(calls[t]), ByteBits * Top(t).offset + i>> \in mem
<1>1. Cell(mem, ByteBits * Top(t).offset + i) = <<Sel(calls[t]), ByteBits * Top(t).offset + i>>
  BY TopCells
<1> QED BY <1>1 DEF Read

\* What a call writes.
LEMMA TopWrite ==
  ASSUME FieldInv, NEW t \in Threads, Calm(t), calls[t] # <<>>, calls[t][1].field \in Public,
         More(Top(t)), Direct(Top(t)), Top(t).pc = "store", NEW v
  PROVE  LET c == Top(t)
             m2 == Written(mem, Width(c.field), c.offset, v)
         IN  /\ \A i \in 0..Width(c.field) - 1 :
                  <<Sel(calls[t]), ByteBits * c.offset + i>> \in m2 <=> i \in v
             /\ \A x : (\A i \in 0..Width(c.field) - 1 : x # <<Sel(calls[t]), ByteBits * c.offset + i>>) =>
                  (x \in m2 <=> x \in mem)
<1> DEFINE c == Top(t)
           W == Width(c.field)
           sel == Sel(calls[t])
<1>1. c \in CallType /\ c.field \in Fields /\ c.offset \in Nat
  BY RunningStack, CallFields
<1>2. \A i \in 0..W - 1 : Cell(mem, ByteBits * c.offset + i) = <<sel, ByteBits * c.offset + i>>
  BY TopCells
<1>3. W \in Nat
  BY <1>1, WidthType
<1> HIDE DEF c, W, sel
<1> DEFINE m2 == Written(mem, W, c.offset, v)
<1>4. /\ \A i \in 0..W - 1 : <<sel, ByteBits * c.offset + i>> \in m2 <=> i \in v
      /\ \A x : (\A i \in 0..W - 1 : x # <<sel, ByteBits * c.offset + i>>) => (x \in m2 <=> x \in mem)
  BY <1>1, <1>2, <1>3, WrittenCells, ZenonT(30)
<1> QED BY <1>4 DEF m2, c, W, sel

(***************************************************************************)
(* What is done elsewhere.                                                 *)
(***************************************************************************)
\* Bits that lie elsewhere than what was written.
Unmoved(m, m2, S) == \A x, b : b \in S => (<<x, b>> \in m2 <=> <<x, b>> \in m)

LEMMA SpotKept ==
  ASSUME NEW f \in Fields, NEW k \in 0..Field[f].size - 1, NEW m, NEW m2,
         Unmoved(m, m2, Accessed(Window(f)))
  PROVE  /\ \A i \in 0..Width(f) - 1 : Spot(f, UnitBit(f, k, i)) \in m2 <=> Spot(f, UnitBit(f, k, i)) \in m
         /\ Spot(f, Field[f].offset + k) \in m2 <=> Spot(f, Field[f].offset + k) \in m
<1>1. ASSUME NEW i \in 0..Width(f) - 1
      PROVE  Spot(f, UnitBit(f, k, i)) \in m2 <=> Spot(f, UnitBit(f, k, i)) \in m
  <2>1. PICK x, b : Spot(f, UnitBit(f, k, i)) = <<x, b>> /\ b \in Accessed(Window(f))
    BY SpotAddress
  <2> QED BY <2>1 DEF Unmoved
<1>2. PICK i \in 0..Width(f) - 1 : UnitBit(f, k, i) = Field[f].offset + k
  <2>1. k \in Nat
    BY FieldTypes
  <2> QED BY <2>1, OwnUnit
<1> QED BY <1>1, <1>2

LEMMA CurrentKept ==
  ASSUME NEW c \in CallType, CallOK(c), More(c), NEW m, NEW m2,
         Unmoved(m, m2, Accessed(Window(c.field))), Current(m, c)
  PROVE  Current(m2, c)
<1> SUFFICES ASSUME NEW i \in 0..Width(c.field) - 1
             PROVE  i \in c.value <=> Spot(c.field, ByteBits * c.offset + i) \in m2
  BY DEF Current
<1>1. /\ ByteBits * c.offset + i = UnitBit(c.field, c.progress, i)
      /\ c.progress \in 0..Field[c.field].size - 1 /\ c.field \in Fields
  BY AccessInside, CallFields DEF Node
<1>2. i \in c.value <=> Spot(c.field, ByteBits * c.offset + i) \in m
  BY DEF Current
<1> QED BY <1>1, <1>2, SpotKept

LEMMA OuterKept ==
  ASSUME NEW s, s[1] \in CallType, CallOK(s[1]), NEW m, NEW m2,
         Unmoved(m, m2, Accessed(Window(s[1].field))), OuterOK(m, s)
  PROVE  OuterOK(m2, s)
<1> DEFINE c == s[1]
           f == c.field
<1>1. f \in Fields /\ Node(c) = Field[f] /\ c.progress \in Nat /\ c.progress <= Field[f].size
      /\ Field[f].size \in Nat
  BY CallFields, FieldTypes DEF Node, CallOK
<1>2. c \in CallType /\ CallOK(c) /\ Unmoved(m, m2, Accessed(Window(f)))
      /\ (c.pc \in {"store", "send", "fetched"} => More(c))
  BY DEF CallOK
<1> HIDE DEF c
<1>3. c.pc \in {"store", "send", "fetched"} => (Current(m, c) => Current(m2, c))
  BY <1>2, CurrentKept
<1> HIDE DEF f
<1>4. ASSUME NEW k \in 0..c.progress - 1
      PROVE  Spot(f, Node(c).offset + k) \in m2 <=> Spot(f, Node(c).offset + k) \in m
  <2>1. k \in 0..Field[f].size - 1
    BY <1>1
  <2> QED BY <1>1, <1>2, <2>1, SpotKept
<1>5. ASSUME NEW k \in 0..Node(c).size - 1, NEW i \in 0..Width(f) - 1
      PROVE  Spot(f, UnitBit(f, k, i)) \in m2 <=> Spot(f, UnitBit(f, k, i)) \in m
  BY <1>1, <1>2, SpotKept
<1>6. OuterOK(m, s)
  OBVIOUS
<1> QED BY <1>3, <1>4, <1>5, <1>6 DEF OuterOK, c, f

LEMMA InnerKept ==
  ASSUME NEW s, s[1] \in CallType, s[2] \in CallType, CallOK(s[2]), Inner(s[1], s[2]), Len(s) = 2,
         NEW m, NEW m2, Unmoved(m, m2, Accessed(s[2].field)), InnerOK(m, s)
  PROVE  InnerOK(m2, s)
<1> DEFINE c == s[1]
           y == s[2]
           f == c.field
           g == y.field
           sel == Choice(s)
<1>1. /\ c \in CallType /\ y \in CallType /\ CallOK(y) /\ Inner(c, y) /\ InnerOK(m, s)
      /\ Unmoved(m, m2, Accessed(g)) /\ f \in Fields /\ g \in Fields /\ Node(c) = Field[f]
      /\ Node(y) = Field[g] /\ y.progress \in Nat
  BY CallFields DEF Node
<1> HIDE DEF sel, f, g
<1>2. Field[g].kind = "field" /\ (g = Field[f].data => Field[f].kind = "indexfield")
      /\ y.progress <= Field[g].size /\ Field[g].size \in Nat
  BY <1>1, InnerFacts, FieldTypes DEF CallOK, g
<1>3. Transfers(s) => Width(f) = Field[g].size
  BY <1>1, <1>2, IndexAssumption DEF Transfers, g
<1>4. ASSUME NEW j \in 0..Field[g].size - 1
      PROVE  <<sel, Node(y).offset + j>> \in m2 <=> <<sel, Node(y).offset + j>> \in m
  <2>1. Field[g].offset + j \in Accessed(g)
    BY <1>1, <1>2, PlaceAccessed
  <2> QED BY <1>1, <2>1 DEF Unmoved
<1>5. \A j \in 0..y.progress - 1 : j \in 0..Field[g].size - 1
  BY <1>1, <1>2
<1>6. ASSUME y.pc = "store", NEW i \in 0..Width(g) - 1
      PROVE  <<sel, ByteBits * y.offset + i>> \in m2 <=> <<sel, ByteBits * y.offset + i>> \in m
  <2>1. More(y) /\ Direct(y)
    BY <1>1, <1>2, <1>6 DEF CallOK, Direct
  <2>2. Bytes(y) \subseteq Accessed(g)
    BY <1>1, <2>1, BytesAccessed DEF g
  <2>3. ByteBits * y.offset + i \in Accessed(g)
    BY <2>2 DEF Bytes, g
  <2> QED BY <1>1, <2>3 DEF Unmoved
<1> HIDE DEF c, y
<1>7. /\ y.pc = "store" =>
          /\ y.op = "write"
          /\ \A i \in 0..Width(g) - 1 : i \in y.value <=> <<sel, ByteBits * y.offset + i>> \in m2
      /\ Transfers(s) => (y.op = "read" <=> c.pc = "fetched")
      /\ Transfers(s) /\ y.op = "write" => c.op = "write"
  BY <1>1, <1>6 DEF InnerOK, c, y, g, sel
<1>8. Transfers(s) /\ y.op = "read" =>
        \A j \in 0..y.progress - 1 : j \in y.dest <=> <<sel, Node(y).offset + j>> \in m2
  BY <1>1, <1>4, <1>5 DEF InnerOK, c, y, sel
<1>9. Transfers(s) /\ y.op = "write" =>
        \A j \in 0..y.progress - 1 : <<sel, Node(y).offset + j>> \in m2 <=> j \in y.source
  BY <1>1, <1>4, <1>5 DEF InnerOK, c, y, sel
<1>10. ASSUME Transfers(s), y.op = "write", NEW j \in 0..Width(f) - 1
       PROVE  /\ Settled(f, ByteBits * Behind(c) + j)
                   => (j \in y.source <=> Target(c, ByteBits * Behind(c) + j))
              /\ ~Inside(f, ByteBits * Behind(c) + j) /\ Node(c).rule = "preserve"
                   => (j \in y.source <=> <<sel, Node(y).offset + j>> \in m2)
  <2>1. j \in 0..Field[g].size - 1
    BY <1>3, <1>10
  <2>2. /\ Settled(f, ByteBits * Behind(c) + j)
              => (j \in y.source <=> Target(c, ByteBits * Behind(c) + j))
        /\ ~Inside(f, ByteBits * Behind(c) + j) /\ Node(c).rule = "preserve"
              => (j \in y.source <=> <<sel, Node(y).offset + j>> \in m)
    BY <1>1, <1>10 DEF InnerOK, c, y, f, sel
  <2> QED BY <1>4, <2>1, <2>2
<1> QED BY <1>7, <1>8, <1>9, <1>10 DEF InnerOK, c, y, f, g, sel

LEMMA FaithfulKept ==
  ASSUME NEW s \in Seq(CallType), StackOK(s), NEW m, NEW m2, Faithful(m, s),
         s # <<>> => Unmoved(m, m2, Footprint(s[1].field))
  PROVE  Faithful(m2, s)
<1> SUFFICES ASSUME s # <<>> PROVE OuterOK(m2, s) /\ (Len(s) = 2 => InnerOK(m2, s))
  BY DEF Faithful
<1>1. Len(s) \in 1..2 /\ s[1] \in CallType /\ (Len(s) = 2 => s[2] \in CallType)
  <2>1. Len(s) # 0 /\ Len(s) \in 0..2
    BY EmptySeq DEF StackOK
  <2>2. Len(s) \in 1..2
    BY <2>1
  <2>3. 1 \in 1..Len(s) /\ (Len(s) = 2 => 2 \in 1..Len(s))
    BY <2>2
  <2> QED BY <2>2, <2>3, ElementOfSeq
<1> DEFINE c == s[1]
           y == s[2]
           f == c.field
<1>2. /\ c \in CallType /\ CallOK(c) /\ f \in Fields /\ OuterOK(m, s) /\ Unmoved(m, m2, Footprint(f))
      /\ (Len(s) = 2 => y \in CallType /\ CallOK(y) /\ Inner(c, y) /\ InnerOK(m, s))
  BY <1>1, CallFields DEF StackOK, Faithful
<1> HIDE DEF c, y, f
<1>3. Accessed(Window(f)) \subseteq Footprint(f)
  <2>1. CASE Field[f].kind # "indexfield"
    BY <1>2, <2>1, AccessedFootprint DEF Window
  <2>2. CASE Field[f].kind = "indexfield"
    BY <1>2, <2>2, RegisterOfKind, RegisterFacts
  <2> QED BY <2>1, <2>2
<1>4. OuterOK(m2, s)
  <2>1. Unmoved(m, m2, Accessed(Window(f)))
    BY <1>2, <1>3 DEF Unmoved
  <2> QED BY <1>2, <2>1, OuterKept DEF c, f
<1>5. ASSUME Len(s) = 2 PROVE InnerOK(m2, s)
  <2>1. Accessed(y.field) \subseteq Footprint(y.field) /\ Footprint(y.field) \subseteq Footprint(f)
    BY <1>2, <1>5, InnerFacts, AccessedFootprint, CallFields DEF f
  <2>2. Unmoved(m, m2, Accessed(y.field))
    BY <1>2, <2>1 DEF Unmoved
  <2> QED BY <1>2, <1>5, <2>2, InnerKept DEF c, y
<1> QED BY <1>4, <1>5

(***************************************************************************)
(* A step of thread t that touches nothing but the bits that it writes.    *)
(***************************************************************************)
LEMMA MemoryAdvance ==
  ASSUME FieldInv, MemoryInv, NEW t \in Threads, NEW s, calls' = [calls EXCEPT ![t] = s],
         UNCHANGED raced, Calm(t) => Faithful(mem', s),
         s # <<>> => calls[t] # <<>> /\ s[1].field = calls[t][1].field,
         \A x, b : b \notin Alters(t) => (<<x, b>> \in mem' <=> <<x, b>> \in mem),
         Agrees'
  PROVE  MemoryInv'
<1>1. calls'[t] = s /\ \A u \in Threads \ {t} : calls'[u] = calls[u]
  BY DEF FieldInv, Types
<1>2. ASSUME NEW u \in Threads, Calm(u)' PROVE Faithful(mem', calls'[u])
  <2>1. CASE u = t /\ s = <<>>
    BY <1>1, <2>1 DEF Faithful
  <2>2. CASE u = t /\ s # <<>>
    <3>1. Busy(t)' = Busy(t)
      BY <1>1, <2>2 DEF Busy
    <3>2. Calm(t)
      BY <1>2, <2>2, <3>1 DEF Calm
    <3> QED BY <1>1, <2>2, <3>2
  <2>3. CASE u # t
    <3> DEFINE z == calls[u]
    <3>1. Busy(u)' = Busy(u)
      BY <1>1, <2>3 DEF Busy
    <3>2. Calm(u)
      BY <1>2, <3>1 DEF Calm
    <3>3. z \in Seq(CallType) /\ StackOK(z) /\ Faithful(mem, z) /\ calls'[u] = z
      BY <1>1, <2>3, <3>2 DEF FieldInv, Types, MemoryInv
    <3>4. z # <<>> => Unmoved(mem, mem', Footprint(z[1].field))
      <4>1. z # <<>> => Busy(u) = Footprint(z[1].field)
        BY DEF Busy
      <4>2. Alters(t) \cap Busy(u) = {}
        BY <2>3, <3>2 DEF FieldInv, Apart
      <4> QED BY <4>1, <4>2 DEF Unmoved
    <3> HIDE DEF z
    <3> QED BY <3>3, <3>4, FaithfulKept
  <2> QED BY <2>1, <2>2, <2>3
<1>3. \A u \in Threads : (Calm(u) => Faithful(mem, calls[u]))'
  BY <1>2
<1> QED BY <1>3 DEF MemoryInv

\* Nothing is written, and what was being written still is.
LEMMA QuietMemory ==
  ASSUME FieldInv, MemoryInv, NEW t \in Threads, NEW s, s # <<>>, calls[t] # <<>>,
         calls' = [calls EXCEPT ![t] = s],
         s[1].field = calls[t][1].field /\ s[1].op = calls[t][1].op,
         UNCHANGED mem, Quiet, OuterOK(mem, s), Len(s) = 2 => InnerOK(mem, s)
  PROVE  MemoryInv'
<1>1. calls'[t] = s /\ \A u \in Threads \ {t} : calls'[u] = calls[u]
  BY DEF FieldInv, Types
<1>2. Faithful(mem', s)
  BY DEF Faithful
<1>3. ASSUME NEW u \in Threads, Writing(u)
      PROVE  Writing(u)' /\ calls'[u][1].field = calls[u][1].field
  BY <1>1, <1>3 DEF Writing
<1>4. Agrees'
  <2> SUFFICES ASSUME NEW x, x \notin Vague, x[2] \notin raced',
                      \A u \in Threads : Writing(u)' => x \notin Touched(calls'[u][1].field)
               PROVE  x \in mem' <=> x \in ideal'
    BY DEF Agrees
  <2>1. \A u \in Threads : Writing(u) => x \notin Touched(calls[u][1].field)
    BY <1>3
  <2> QED BY <2>1 DEF MemoryInv, Agrees, Quiet
<1>5. \A x, b : <<x, b>> \in mem' <=> <<x, b>> \in mem
  OBVIOUS
<1>6. UNCHANGED raced
  BY DEF Quiet
<1> QED BY <1>2, <1>4, <1>5, <1>6, MemoryAdvance

\* What the invariant says of a thread that is in an operation.
LEMMA RunningMemory ==
  ASSUME FieldInv, MemoryInv, NEW t \in Threads, Calm(t), calls[t] # <<>>
  PROVE  /\ calls[t][1].field \in Public /\ calls[t][1].field \in Fields
         /\ OuterOK(mem, calls[t])
         /\ Len(calls[t]) = 2 =>
              /\ InnerOK(mem, calls[t]) /\ calls[t][2] \in CallType /\ CallOK(calls[t][2])
              /\ Inner(calls[t][1], calls[t][2])
         /\ Len(calls[t]) = 1 \/ Len(calls[t]) = 2
<1> DEFINE s == calls[t]
<1>1. OuterOK(mem, s) /\ (Len(s) = 2 => InnerOK(mem, s))
  BY DEF MemoryInv, Faithful
<1>2. s[1].field \in Public
  BY <1>1 DEF OuterOK
<1>3. /\ Len(s) \in 1..2 /\ Top(t) \in CallType /\ CallOK(Top(t))
      /\ (Len(s) = 2 => Top(t) = s[2] /\ Inner(s[1], Top(t)))
  BY RunningStack
<1>4. Len(s) = 1 \/ Len(s) = 2
  <2> DEFINE n == Len(s)
  <2>1. n \in 1..2
    BY <1>3
  <2> HIDE DEF n
  <2>2. n = 1 \/ n = 2
    BY <2>1
  <2> QED BY <2>2 DEF n
<1> QED BY <1>1, <1>2, <1>3, <1>4 DEF Public

\* The calls of a thread after its call on top went on, or after it called a register.
LEMMA AfterReplace ==
  ASSUME FieldInv, NEW t \in Threads, calls[t] # <<>>, NEW d \in CallType, Replace(t, d)
  PROVE  /\ Len(calls[t]) = 1 => calls' = [calls EXCEPT ![t] = <<d>>]
         /\ Len(calls[t]) = 2 => calls' = [calls EXCEPT ![t] = <<calls[t][1], d>>]
<1> DEFINE s == calls[t]
<1>1. s \in Seq(CallType)
  BY RunningStack
<1>2. calls' = [calls EXCEPT ![t] = Append(SubSeq(s, 1, Len(s) - 1), d)]
  BY DEF Replace, Below
<1> HIDE DEF s
<1>3. Len(s) = 1 => Append(SubSeq(s, 1, Len(s) - 1), d) = <<d>>
  BY <1>1, StackOfOne
<1>4. Len(s) = 2 => Append(SubSeq(s, 1, Len(s) - 1), d) = <<s[1], d>>
  BY <1>1, StackOfTwo
<1> QED BY <1>2, <1>3, <1>4 DEF s

LEMMA AfterEnter ==
  ASSUME FieldInv, NEW t \in Threads, calls[t] # <<>>, Len(calls[t]) = 1,
         NEW x \in CallType, NEW y \in CallType, Enter(t, x, y)
  PROVE  calls' = [calls EXCEPT ![t] = <<x, y>>]
<1> DEFINE s == calls[t]
<1>1. s \in Seq(CallType) /\ Len(s) = 1
  BY RunningStack
<1>2. calls' = [calls EXCEPT ![t] = Append(Append(SubSeq(s, 1, Len(s) - 1), x), y)]
  BY DEF Enter, Below
<1> HIDE DEF s
<1> QED BY <1>1, <1>2, StackOfOne

\* Two calls as the elements of a stack.
LEMMA StackElements ==
  /\ \A x : Len(<<x>>) = 1 /\ <<x>>[1] = x /\ <<x>> # <<>>
  /\ \A x, y : Len(<<x, y>>) = 2 /\ <<x, y>>[1] = x /\ <<x, y>>[2] = y /\ <<x, y>> # <<>>
OBVIOUS

(***************************************************************************)
(* The steps that write nothing.                                           *)
(***************************************************************************)
LEMMA PushRegisterMemory ==
  ASSUME FieldInv, MemoryInv, NEW t \in Threads, Calm(t), calls[t] # <<>>, Len(calls[t]) = 1,
         NEW x \in CallType, x.field = Top(t).field, x.op = Top(t).op, x.source = Top(t).source,
         x.dest = Top(t).dest, x.value = Top(t).value, x.progress = Top(t).progress,
         x.offset = Top(t).offset, x.pc \in {"loop", "fetch", "send"},
         x.pc = "send" => Top(t).pc = "store",
         x.pc = "fetch" => x.op = "read" \/ Node(x).rule = "preserve",
         Node(x).kind \in {"indexfield", "bankfield"}, NEW v \in SUBSET Nat,
         Enter(t, x, Call(Node(x).select, "write", v)), UNCHANGED mem, Quiet
  PROVE  MemoryInv'
<1> DEFINE s == calls[t]
           c == s[1]
           y == Call(Node(x).select, "write", v)
           z == <<x, y>>
<1>1. c = Top(t) /\ OuterOK(mem, s) /\ c \in CallType
  BY RunningStack, RunningMemory
<1>2. y \in CallType /\ y.field = Register(x) /\ y.op = "write" /\ y.field # Node(x).data
  BY RegisterCall
<1>3. y.pc = "loop"
  <2> DEFINE r == Node(x).select
  <2>1. r \in Fields /\ Field[r].kind = "field"
    BY CallFields, RegisterOfKind, RegisterFacts DEF Node
  <2> HIDE DEF r
  <2>2. y.pc = (IF Field[r].kind = "bankfield" THEN "bank" ELSE "loop")
    BY DEF Call, r
  <2> QED BY <2>1, <2>2
<1>4. calls' = [calls EXCEPT ![t] = z]
  BY <1>2, AfterEnter
<1> HIDE DEF y
<1>5. z[1] = x /\ z[2] = y /\ Len(z) = 2 /\ z # <<>>
  BY StackElements
<1> HIDE DEF z
<1>6. ~Transfers(z) /\ ~Transfers(s)
  BY <1>2, <1>5 DEF Transfers
<1>7. Node(x) = Node(c) /\ x.field = c.field
  BY <1>1 DEF Node
<1>8. \A k : Over(z, k) <=> Over(s, k)
  BY <1>1, <1>5, <1>6 DEF Over
<1>9. \A m : Current(m, x) <=> Current(m, c)
  BY <1>1 DEF Current
<1>10. Background(x) = Background(c) /\ \A b : Target(x, b) <=> Target(c, b)
  BY <1>1, <1>7 DEF Background, Target
<1> HIDE DEF s, c
<1>11. OuterOK(mem, z)
  <2>1. x.field \in Public /\ (x.pc = "send" => x.op = "write")
    BY <1>1, <1>7 DEF OuterOK, c
  <2>2. x.pc = "send" => IF Node(x).rule = "preserve" THEN Current(mem, x) ELSE x.value = Background(x)
    BY <1>1, <1>7, <1>9, <1>10 DEF OuterOK, c
  <2>3. x.op = "read" /\ ~Wide(x.field) /\ ~Shiftless(x.field) =>
             \A k \in 0..x.progress - 1 : k \in x.dest <=> Spot(x.field, Node(x).offset + k) \in mem
    BY <1>1, <1>7 DEF OuterOK, c
  <2>4. x.op = "write" =>
             \A k \in 0..Node(x).size - 1, i \in 0..Width(x.field) - 1 :
                 Over(z, k) /\ Settled(x.field, UnitBit(x.field, k, i))
                   => (Spot(x.field, UnitBit(x.field, k, i)) \in mem <=> Target(x, UnitBit(x.field, k, i)))
    BY <1>1, <1>7, <1>8, <1>10 DEF OuterOK, c
  <2> QED BY <1>5, <2>1, <2>2, <2>3, <2>4 DEF OuterOK
<1>12. InnerOK(mem, z)
  BY <1>3, <1>5, <1>6 DEF InnerOK
<1>13. z[1].field = calls[t][1].field /\ z[1].op = calls[t][1].op
  BY <1>1, <1>5 DEF c, s
<1> QED BY <1>4, <1>5, <1>11, <1>12, <1>13, QuietMemory

LEMMA SelectBankMemory ==
  ASSUME FieldInv, MemoryInv, NEW t \in Threads, Calm(t), SelectBank(t)
  PROVE  MemoryInv'
<1> DEFINE c == Top(t)
           x == [c EXCEPT !.pc = "loop"]
<1>1. /\ calls[t] # <<>> /\ c.pc = "bank" /\ UNCHANGED mem /\ Quiet
      /\ Enter(t, x, Call(Node(c).select, "write", Bits(Node(c).bank)))
  BY DEF SelectBank, At, Running
<1>2. c \in CallType /\ CallOK(c)
  BY <1>1, RunningStack
<1>3. Node(c).kind = "bankfield"
  BY <1>1, <1>2 DEF CallOK
<1>4. Len(calls[t]) = 1
  BY <1>1, <1>3, TopIsOperation
<1>5. /\ x \in CallType /\ x.pc = "loop" /\ x.field = c.field /\ x.progress = c.progress
      /\ x.offset = c.offset /\ x.dest = c.dest /\ x.op = c.op /\ x.source = c.source
      /\ x.value = c.value
  BY <1>2 DEF CallType
<1> DEFINE v == Bits(Node(c).bank)
<1>6. v \in SUBSET Nat
  BY BitsType
<1>7. Enter(t, x, Call(Node(c).select, "write", v))
  BY <1>1
<1> HIDE DEF x, v
<1>8. Node(x) = Node(c)
  BY <1>5 DEF Node
<1> HIDE DEF c
<1> QED BY <1>1, <1>3, <1>4, <1>5, <1>6, <1>7, <1>8, PushRegisterMemory DEF c

LEMMA SelectMemory ==
  ASSUME FieldInv, MemoryInv, NEW t \in Threads, Calm(t), SelectToRead(t) \/ SelectToWrite(t)
  PROVE  MemoryInv'
<1> DEFINE c == Top(t)
           v == Bits(c.offset)
<1>1. PICK pc \in {"fetch", "send"} :
        /\ calls[t] # <<>> /\ UNCHANGED mem /\ Quiet /\ ~Direct(c)
        /\ pc = "fetch" => c.op = "read" \/ Node(c).rule = "preserve"
        /\ pc = "send" => c.pc = "store"
        /\ Enter(t, [c EXCEPT !.pc = pc], Call(Node(c).select, "write", v))
  BY DEF SelectToRead, SelectToWrite, At, Running
<1> DEFINE x == [c EXCEPT !.pc = pc]
<1>2. c \in CallType /\ CallOK(c)
  BY <1>1, RunningStack
<1>3. Node(c).kind = "indexfield"
  BY <1>1 DEF Direct
<1>4. Len(calls[t]) = 1
  BY <1>1, <1>3, TopIsOperation
<1>5. /\ x \in CallType /\ x.pc = pc /\ x.field = c.field /\ x.progress = c.progress
      /\ x.offset = c.offset /\ x.dest = c.dest /\ x.op = c.op /\ x.source = c.source
      /\ x.value = c.value
  BY <1>2 DEF CallType
<1>6. v \in SUBSET Nat
  BY BitsType
<1>7. Enter(t, x, Call(Node(c).select, "write", v))
  BY <1>1
<1> HIDE DEF x, v
<1>8. Node(x) = Node(c)
  BY <1>5 DEF Node
<1> HIDE DEF c
<1> QED BY <1>1, <1>3, <1>4, <1>5, <1>6, <1>7, <1>8, PushRegisterMemory DEF c

\* The operation on the outside goes on with the bits that it has.
LEMMA OuterGoesOn ==
  ASSUME NEW s, NEW z, NEW m, OuterOK(m, s), z[1].field = s[1].field, z[1].op = s[1].op,
         z[1].source = s[1].source, z[1].dest = s[1].dest, z[1].progress = s[1].progress,
         \A k \in 0..Node(s[1]).size - 1 : Over(z, k) => Over(s, k),
         z[1].pc \in {"store", "send"} =>
             /\ z[1].op = "write"
             /\ IF Node(z[1]).rule = "preserve" THEN Current(m, z[1]) ELSE z[1].value = Background(z[1]),
         z[1].pc \in {"fetch", "fetched"} => z[1].op = "read" \/ Node(z[1]).rule = "preserve",
         z[1].pc = "fetched" /\ Len(z) = 1 => Current(m, z[1])
  PROVE  OuterOK(m, z)
<1> DEFINE x == z[1]
           c == s[1]
<1>1. Node(x) = Node(c) /\ \A b : Target(x, b) <=> Target(c, b)
  BY DEF Node, Target
<1>2. x.op = "read" /\ ~Wide(x.field) /\ ~Shiftless(x.field) =>
             \A k \in 0..x.progress - 1 : k \in x.dest <=> Spot(x.field, Node(x).offset + k) \in m
  BY <1>1 DEF OuterOK
<1>3. x.op = "write" =>
             \A k \in 0..Node(x).size - 1, i \in 0..Width(x.field) - 1 :
                 Over(z, k) /\ Settled(x.field, UnitBit(x.field, k, i))
                   => (Spot(x.field, UnitBit(x.field, k, i)) \in m <=> Target(x, UnitBit(x.field, k, i)))
  BY <1>1 DEF OuterOK
<1>4. x.field \in Public
  BY DEF OuterOK
<1> QED BY <1>2, <1>3, <1>4 DEF OuterOK

LEMMA FetchDataMemory ==
  ASSUME FieldInv, MemoryInv, NEW t \in Threads, Calm(t), FetchData(t)
  PROVE  MemoryInv'
<1> DEFINE s == calls[t]
           c == s[1]
           x == [c EXCEPT !.pc = "fetched"]
           y == Call(Node(c).data, "read", {})
           z == <<x, y>>
<1>1. calls[t] # <<>> /\ Top(t).pc = "fetch" /\ UNCHANGED mem /\ Quiet
  BY DEF FetchData, At, Running
<1>2. /\ Len(s) = 1 /\ c = Top(t) /\ c \in CallType /\ CallOK(c) /\ Node(c).kind = "indexfield"
      /\ OuterOK(mem, s)
  BY <1>1, Selected1, RunningStack, RunningMemory
<1>3. Enter(t, x, y) /\ c.pc = "fetch"
  BY <1>1, <1>2 DEF FetchData
<1>4. /\ x \in CallType /\ x.pc = "fetched" /\ x.field = c.field /\ x.op = c.op /\ x.source = c.source
      /\ x.dest = c.dest /\ x.progress = c.progress
  BY <1>2 DEF CallType
<1>5. y \in CallType /\ y.field = Node(c).data /\ y.op = "read" /\ y.progress = 0 /\ y.pc = "loop"
  <2>1. {} \in SUBSET Nat
    OBVIOUS
  <2>2. y \in CallType /\ y.field = Node(c).data /\ y.op = "read" /\ y.progress = 0
    BY <1>2, <2>1, DataCall
  <2>3. y.pc = "loop"
    <3> DEFINE r == Node(c).data
    <3>1. Field[r].kind = "field"
      BY <1>2, CallFields, FieldsAssumption DEF Node
    <3> HIDE DEF r
    <3>2. y.pc = (IF Field[r].kind = "bankfield" THEN "bank" ELSE "loop")
      BY DEF Call, r
    <3> QED BY <3>1, <3>2
  <2> QED BY <2>2, <2>3
<1>6. calls' = [calls EXCEPT ![t] = z]
  BY <1>1, <1>2, <1>3, <1>4, <1>5, AfterEnter
<1> HIDE DEF x, y
<1>7. z[1] = x /\ z[2] = y /\ Len(z) = 2 /\ z # <<>>
  BY StackElements
<1> HIDE DEF z, s, c
<1>8. \A k \in 0..Node(s[1]).size - 1 : Over(z, k) => Over(s, k)
  BY <1>2, <1>4, <1>7 DEF Over, Transfers, c
<1>9. OuterOK(mem, z)
  <2>1. x.op = "read" \/ Node(x).rule = "preserve"
    BY <1>2, <1>3, <1>4 DEF OuterOK, c, Node
  <2>2. /\ z[1].field = s[1].field /\ z[1].op = s[1].op /\ z[1].source = s[1].source
        /\ z[1].dest = s[1].dest /\ z[1].progress = s[1].progress
    BY <1>4, <1>7 DEF c
  <2>3. z[1].pc = "fetched" /\ Len(z) # 1 /\ (z[1].op = "read" \/ Node(z[1]).rule = "preserve")
    BY <1>4, <1>7, <2>1
  <2> QED BY <1>2, <1>8, <2>2, <2>3, OuterGoesOn
<1>10. InnerOK(mem, z)
  BY <1>4, <1>5, <1>7 DEF InnerOK
<1> QED BY <1>1, <1>2, <1>4, <1>6, <1>7, <1>9, <1>10, QuietMemory DEF c, s

LEMMA FillMemory ==
  ASSUME FieldInv, MemoryInv, NEW t \in Threads, Calm(t), Fill(t)
  PROVE  MemoryInv'
<1> DEFINE s == calls[t]
           c == Top(t)
           d == [c EXCEPT !.value = Background(c), !.pc = "store"]
           z == <<d>>
<1>1. /\ s # <<>> /\ c.op = "write" /\ Node(c).rule # "preserve" /\ Replace(t, d)
      /\ UNCHANGED mem /\ Quiet
  BY DEF Fill, At, Running
<1>2. /\ c \in CallType /\ OuterOK(mem, s) /\ Len(s) \in 1..2
      /\ (Len(s) = 2 => Inner(s[1], c) /\ s[1] \in CallType) /\ (Len(s) = 1 => c = s[1])
  BY <1>1, RunningStack, RunningMemory
<1>3. Len(s) = 1 /\ c = s[1]
  <2>1. Len(s) # 2
    <3> SUFFICES ASSUME Len(s) = 2 PROVE FALSE
      OBVIOUS
    <3> DEFINE o == s[1]
    <3> HIDE DEF c, o
    <3>1. Inner(o, c) /\ o \in CallType
      BY <1>2 DEF o
    <3>2. c.field \in {Field[o.field].select, Field[o.field].data} /\ c.field \in Fields /\ o.field \in Fields
      BY <1>2, <3>1, CallFields DEF Inner, Register, Node
    <3>3. c.field # Nobody
      BY <3>2, FieldsAssumption
    <3>4. Field[c.field].rule = "preserve"
      BY <3>2, <3>3, FieldsAssumption
    <3> QED BY <1>1, <3>4 DEF Node
  <2>2. Len(s) = 1 \/ Len(s) = 2
    BY <1>1, RunningMemory
  <2> QED BY <1>2, <2>1, <2>2
<1>4. /\ d \in CallType /\ d.pc = "store" /\ d.field = c.field /\ d.op = c.op /\ d.source = c.source
      /\ d.dest = c.dest /\ d.progress = c.progress /\ d.value = Background(c)
  <2>1. Background(c) \in SUBSET Nat
    BY BackgroundType
  <2> QED BY <1>2, <2>1 DEF CallType
<1>5. calls' = [calls EXCEPT ![t] = z]
  BY <1>1, <1>3, <1>4, AfterReplace
<1> HIDE DEF d
<1>6. z[1] = d /\ Len(z) = 1 /\ z # <<>>
  BY StackElements
<1> HIDE DEF z, s, c
<1>7. Node(d) = Node(c) /\ Background(d) = Background(c)
  BY <1>4 DEF Node, Background
<1>8. \A k \in 0..Node(s[1]).size - 1 : Over(z, k) => Over(s, k)
  BY <1>3, <1>4, <1>6 DEF Over, Transfers
<1>9. OuterOK(mem, z)
  <2>1. /\ z[1].field = s[1].field /\ z[1].op = s[1].op /\ z[1].source = s[1].source
        /\ z[1].dest = s[1].dest /\ z[1].progress = s[1].progress
    BY <1>3, <1>4, <1>6
  <2>2. z[1].pc = "store" /\ z[1].op = "write" /\ Node(z[1]).rule # "preserve"
        /\ z[1].value = Background(z[1])
    BY <1>1, <1>4, <1>6, <1>7
  <2> QED BY <1>2, <1>8, <2>1, <2>2, OuterGoesOn
<1>10. z[1].field = calls[t][1].field /\ z[1].op = calls[t][1].op /\ Len(z) # 2
  BY <1>3, <1>4, <1>6 DEF s
<1>11. calls[t] # <<>> /\ UNCHANGED mem /\ Quiet
  BY <1>1 DEF s
<1> QED BY <1>5, <1>6, <1>9, <1>10, <1>11, QuietMemory

\* What is read is added to the destination.
LEMMA GotMemory ==
  ASSUME FieldInv, MemoryInv, NEW t \in Threads, Calm(t), calls[t] # <<>>, Len(calls[t]) = 1,
         More(Top(t)), Top(t).op = "read", NEW v \in SUBSET Nat,
         \A i \in 0..Width(Top(t).field) - 1 :
            i \in v <=> Spot(Top(t).field, ByteBits * Top(t).offset + i) \in mem,
         NEW mask \in Masks(AccessBits(Top(t))), Replace(t, Got(Top(t), v, mask)),
         UNCHANGED mem, Quiet
  PROVE  MemoryInv'
<1> DEFINE s == calls[t]
           c == Top(t)
           d == Got(c, v, mask)
           z == <<d>>
           f == c.field
           p == c.progress
           n == AccessBits(c)
           o == BitOffset(c)
           W == Width(f)
           base == ByteBits * c.offset
<1>1. /\ c \in CallType /\ CallOK(c) /\ OuterOK(mem, s) /\ c = s[1] /\ More(c) /\ f \in Fields
      /\ Node(c) = Field[f]
  BY RunningStack, RunningMemory, CallFields DEF Node
<1>2. /\ d \in CallType /\ d.pc = "loop" /\ d.field = c.field /\ d.op = c.op
  <2> HIDE DEF c
  <2> QED BY <1>1, GotType DEF c
<1>3. calls' = [calls EXCEPT ![t] = z]
  BY <1>2, AfterReplace
<1>4. /\ W \in Nat /\ o \in 0..W - 1 /\ n \in 1..W - o /\ base + o = Field[f].offset + p
      /\ p \in Nat /\ base \in Nat /\ Field[f].offset \in Nat
  <2>1. c.offset \in Nat /\ p \in Nat /\ Field[f].offset \in Nat
    BY <1>1, CallFields, FieldTypes
  <2>2. base \in Nat
    BY <2>1, WidthsAssumption
  <2>3. W \in Nat /\ o \in 0..W - 1 /\ n \in 1..W - o /\ base + o = Field[f].offset + p
    <3> HIDE DEF c
    <3> QED BY <1>1, Geometry DEF Position
  <2> QED BY <2>1, <2>2, <2>3
<1>5. ASSUME ~Wide(f), ~Shiftless(f), NEW k \in 0..d.progress - 1
      PROVE  k \in d.dest <=> Spot(f, Field[f].offset + k) \in mem
  <2>1. mask = 0..n - 1
    <3> HIDE DEF c
    <3> QED BY <1>1, <1>5, MaskDefined DEF c
  <2> DEFINE B == {b \in Nat : Spot(f, b) \in mem}
  <2>2. \A i \in 0..W - 1 : i \in v <=> base + i \in B
    <3>1. \A i \in 0..W - 1 : base + i \in Nat /\ (i \in v <=> Spot(f, base + i) \in mem)
      BY <1>4, SMTT(30)
    <3> QED BY <3>1
  <2>3. \A j \in 0..p - 1 : j \in c.dest <=> Node(c).offset + j \in B
    <3>1. c.op = "read" /\ s[1] = c
      BY <1>1
    <3>2. \A j \in 0..p - 1 : Field[f].offset + j \in Nat
      BY <1>4, SMTT(30)
    <3>3. \A j \in 0..p - 1 : j \in c.dest <=> Spot(f, Field[f].offset + j) \in mem
      <4> HIDE DEF c, s
      <4> QED BY <1>1, <1>5, <3>1 DEF OuterOK
    <3> QED BY <1>1, <3>2, <3>3
  <2>4. k \in d.dest <=> Node(c).offset + k \in B
    <3> HIDE DEF c, B
    <3> QED BY <1>1, <1>5, <2>1, <2>2, <2>3, GotAll
  <2>5. Field[f].offset + k \in Nat
    <3>1. d.progress \in Nat
      <4> HIDE DEF d
      <4> QED BY <1>2, CallFields
    <3>2. k \in Nat
      <4> HIDE DEF d
      <4> QED BY <1>5, <3>1
    <3> DEFINE a == Field[f].offset
    <3> HIDE DEF a, d
    <3>3. a \in Nat
      BY <1>4 DEF a
    <3> QED BY <3>2, <3>3 DEF a
  <2> HIDE DEF d, c
  <2> QED BY <1>1, <2>4, <2>5
<1> HIDE DEF d
<1>6. z[1] = d /\ Len(z) = 1 /\ z # <<>>
  BY StackElements
<1> HIDE DEF z, s, c
<1>7. Node(d) = Field[f] /\ d.op = "read" /\ f \in Public
  BY <1>1, <1>2 DEF Node, OuterOK, f, c
<1>8. OuterOK(mem, z)
  BY <1>2, <1>5, <1>6, <1>7 DEF OuterOK, f
<1>9. z[1].field = calls[t][1].field /\ z[1].op = calls[t][1].op /\ Len(z) # 2
  BY <1>1, <1>2, <1>6 DEF s
<1> QED BY <1>3, <1>6, <1>8, <1>9, QuietMemory

\* What is around the field has been read.
LEMMA KeepMemory ==
  ASSUME FieldInv, MemoryInv, NEW t \in Threads, Calm(t), calls[t] # <<>>, Len(calls[t]) = 1,
         Top(t).op = "write", Node(Top(t)).rule = "preserve", NEW v \in SUBSET Nat,
         \A i \in 0..Width(Top(t).field) - 1 :
            i \in v <=> Spot(Top(t).field, ByteBits * Top(t).offset + i) \in mem,
         Replace(t, [Top(t) EXCEPT !.value = v, !.pc = "store"]), UNCHANGED mem, Quiet
  PROVE  MemoryInv'
<1> DEFINE s == calls[t]
           c == Top(t)
           d == [c EXCEPT !.value = v, !.pc = "store"]
           z == <<d>>
<1>1. c \in CallType /\ OuterOK(mem, s) /\ c = s[1]
  BY RunningStack, RunningMemory
<1>2. /\ d \in CallType /\ d.pc = "store" /\ d.field = c.field /\ d.op = c.op /\ d.source = c.source
      /\ d.dest = c.dest /\ d.progress = c.progress /\ d.offset = c.offset /\ d.value = v
  BY <1>1 DEF CallType
<1>3. calls' = [calls EXCEPT ![t] = z]
  BY <1>2, AfterReplace
<1>4. c.op = "write" /\ Node(c).rule = "preserve"
      /\ \A i \in 0..Width(c.field) - 1 : i \in v <=> Spot(c.field, ByteBits * c.offset + i) \in mem
  OBVIOUS
<1> HIDE DEF d
<1>5. z[1] = d /\ Len(z) = 1 /\ z # <<>>
  BY StackElements
<1> HIDE DEF z, s, c
<1>6. Node(d) = Node(c) /\ Current(mem, d)
  BY <1>2, <1>4 DEF Node, Current
<1>7. \A k \in 0..Node(s[1]).size - 1 : Over(z, k) => Over(s, k)
  <2>1. Len(s) # 2
    BY DEF s
  <2> QED BY <1>1, <1>2, <1>5, <2>1 DEF Over, Transfers
<1>8. OuterOK(mem, z)
  <2>1. /\ z[1].field = s[1].field /\ z[1].op = s[1].op /\ z[1].source = s[1].source
        /\ z[1].dest = s[1].dest /\ z[1].progress = s[1].progress
    BY <1>1, <1>2, <1>5
  <2>2. z[1].pc = "store" /\ z[1].op = "write" /\ Node(z[1]).rule = "preserve" /\ Current(mem, z[1])
    BY <1>2, <1>4, <1>5, <1>6
  <2> QED BY <1>1, <1>7, <2>1, <2>2, OuterGoesOn
<1>9. z[1].field = calls[t][1].field /\ z[1].op = calls[t][1].op /\ Len(z) # 2
  BY <1>1, <1>2, <1>5 DEF s
<1> QED BY <1>3, <1>5, <1>8, <1>9, QuietMemory

\* The call of a register goes on.
LEMMA InnerMemory ==
  ASSUME FieldInv, MemoryInv, NEW t \in Threads, Calm(t), calls[t] # <<>>, Len(calls[t]) = 2,
         NEW d \in CallType, d.field = Top(t).field, Replace(t, d), UNCHANGED mem, Quiet,
         NEW z, z = <<calls[t][1], d>>, InnerOK(mem, z)
  PROVE  MemoryInv'
<1> DEFINE s == calls[t]
           c == s[1]
           y == s[2]
<1>1. OuterOK(mem, s) /\ Top(t) = y
  BY RunningStack, RunningMemory
<1>2. calls' = [calls EXCEPT ![t] = z]
  BY AfterReplace
<1>3. z[1] = c /\ z[2] = d /\ Len(z) = 2 /\ z # <<>>
  BY StackElements
<1>4. Transfers(z) <=> Transfers(s)
  BY <1>1, <1>3 DEF Transfers
<1> HIDE DEF s, c, y
<1>5. \A k : Over(z, k) <=> Over(s, k)
  BY <1>3, <1>4 DEF Over, c
<1>6. OuterOK(mem, z)
  <2>1. Len(s) # 1 /\ z[1] = s[1]
    BY <1>3 DEF c, s
  <2> QED BY <1>1, <1>3, <1>5, <2>1 DEF OuterOK
<1>7. z[1].field = calls[t][1].field /\ z[1].op = calls[t][1].op
  BY <1>3 DEF c, s
<1> QED BY <1>2, <1>3, <1>6, <1>7, QuietMemory

\* What an access of the operation itself reads is what the field has there.
LEMMA OwnRead ==
  ASSUME FieldInv, MemoryInv, NEW t \in Threads, Calm(t), calls[t] # <<>>, Len(calls[t]) = 1,
         More(Top(t)), Direct(Top(t)), Top(t).pc \in {"loop", "store"},
         NEW i \in 0..Width(Top(t).field) - 1
  PROVE  i \in Read(mem, Width(Top(t).field), Top(t).offset)
           <=> Spot(Top(t).field, ByteBits * Top(t).offset + i) \in mem
<1> DEFINE b == ByteBits * Top(t).offset + i
<1>1. calls[t][1].field \in Public
  BY RunningMemory
<1>2. Spot(Top(t).field, b) = <<Sel(calls[t]), b>>
  BY <1>1, TopCells
<1>3. i \in Read(mem, Width(Top(t).field), Top(t).offset) <=> <<Sel(calls[t]), b>> \in mem
  BY <1>1, TopRead
<1> QED BY <1>2, <1>3

LEMMA FetchMemory ==
  ASSUME FieldInv, MemoryInv, NEW t \in Threads, Calm(t), Fetch(t)
  PROVE  MemoryInv'
<1> DEFINE s == calls[t]
           c == Top(t)
           W == Width(c.field)
           v == Read(mem, W, c.offset)
<1>1. /\ s # <<>> /\ c.pc = "loop" /\ More(c) /\ Direct(c) /\ UNCHANGED mem /\ Quiet
      /\ c.op = "read" => \E mask \in Masks(AccessBits(c)) : Replace(t, Got(c, v, mask))
      /\ c.op # "read" => Node(c).rule = "preserve" /\ Replace(t, [c EXCEPT !.value = v, !.pc = "store"])
  BY DEF Fetch, At, Running
<1>2. /\ c \in CallType /\ CallOK(c) /\ c.op \in {"read", "write"} /\ c.field \in Fields
      /\ s[1] \in CallType /\ s[1].field \in Public
      /\ (Len(s) = 1 \/ Len(s) = 2)
      /\ (Len(s) = 2 => c = s[2] /\ Inner(s[1], c) /\ InnerOK(mem, s))
  BY <1>1, RunningStack, RunningMemory, CallFields
<1>3. v \in SUBSET Nat
  <2>1. W \in Nat
    BY <1>2, WidthType
  <2> QED BY <2>1, ReadType
<1>4. CASE Len(s) = 1
  <2>1. \A i \in 0..W - 1 : i \in v <=> Spot(c.field, ByteBits * c.offset + i) \in mem
    BY <1>1, <1>4, OwnRead
  <2>2. CASE c.op = "read"
    <3>1. PICK mask \in Masks(AccessBits(c)) : Replace(t, Got(c, v, mask))
      BY <1>1, <2>2
    <3> HIDE DEF v
    <3> QED BY <1>1, <1>3, <1>4, <2>1, <2>2, <3>1, GotMemory
  <2>3. CASE c.op = "write"
    <3>1. Node(c).rule = "preserve" /\ Replace(t, [c EXCEPT !.value = v, !.pc = "store"])
      BY <1>1, <2>3
    <3> HIDE DEF v
    <3> QED BY <1>1, <1>3, <1>4, <2>1, <2>3, <3>1, KeepMemory
  <2> QED BY <1>2, <2>2, <2>3
<1>5. CASE Len(s) = 2
  <2>1. \A i \in 0..W - 1 : i \in v <=> <<Choice(s), ByteBits * c.offset + i>> \in mem
    <3>1. Sel(s) = Choice(s)
      BY <1>5 DEF Sel
    <3> QED BY <1>1, <1>2, <3>1, TopRead
  <2> DEFINE x == s[1]
  <2>2. /\ c = s[2] /\ Inner(x, c) /\ InnerOK(mem, s) /\ x \in CallType
        /\ (c.field = Register(x) => c.op = "write")
        /\ Transfers(s) <=> c.field = Node(x).data
        /\ c.field \in {Register(x), Node(x).data}
    BY <1>2, <1>5, InnerFacts DEF Transfers
  <2> HIDE DEF v, x
  <2>3. CASE c.op = "read"
    <3>1. PICK mask \in Masks(AccessBits(c)) : Replace(t, Got(c, v, mask))
      BY <1>1, <2>3
    <3> DEFINE d == Got(c, v, mask)
               z == <<x, d>>
    <3>2. d \in CallType /\ d.pc = "loop" /\ d.field = c.field /\ d.op = c.op
      <4> HIDE DEF c
      <4> QED BY <1>1, <1>2, GotType
    <3>3. c.field = Node(x).data /\ c.field # Register(x) /\ Node(c).kind = "field"
      BY <1>2, <2>2, <2>3, InnerFacts
    <3>4. \A k \in 0..d.progress - 1 : k \in d.dest <=> <<Choice(s), Node(c).offset + k>> \in mem
      <4>1. mask = 0..AccessBits(c) - 1
        <5>1. ~Wide(c.field) /\ Node(c).kind = "field"
          <6>1. Node(x).kind = "indexfield" /\ Node(c).kind = "field"
            BY <1>2, <2>2, <3>3, InnerFacts
          <6>2. x.field \in Fields /\ Field[x.field].select # Nobody
            BY <2>2, <6>1, CallFields, RegisterOfKind DEF Node
          <6> QED BY <3>3, <6>1, <6>2, DeviceAssumption DEF Node
        <5> HIDE DEF c
        <5> QED BY <1>1, <1>2, <3>1, <5>1, MaskDefined
      <4> DEFINE B == {b \in Nat : <<Choice(s), b>> \in mem}
                 base == ByteBits * c.offset
      <4>2. base \in Nat /\ Node(c).offset \in Nat /\ c.progress \in Nat
        <5>1. c.offset \in Nat /\ Node(c).offset \in Nat /\ c.progress \in Nat
          BY <1>2, CallFields, FieldTypes DEF Node
        <5> QED BY <5>1, WidthsAssumption
      <4>3. \A i \in 0..W - 1 : i \in v <=> base + i \in B
        <5>1. \A i \in 0..W - 1 : base + i \in Nat
          BY <4>2
        <5> QED BY <2>1, <5>1
      <4>4. \A j \in 0..c.progress - 1 : j \in c.dest <=> Node(c).offset + j \in B
        <5> DEFINE off == Node(c).offset
                   p == c.progress
        <5>1. \A j \in 0..p - 1 : j \in c.dest <=> <<Choice(s), off + j>> \in mem
          <6>1. Transfers(s) /\ c = s[2] /\ InnerOK(mem, s)
            BY <2>2, <3>3
          <6> HIDE DEF c, s
          <6> QED BY <2>3, <6>1 DEF InnerOK
        <5>2. off \in Nat /\ p \in Nat
          BY <4>2
        <5> HIDE DEF off, p
        <5>3. \A j \in 0..p - 1 : off + j \in Nat
          BY <5>2
        <5>4. \A j \in 0..p - 1 : j \in c.dest <=> off + j \in B
          BY <5>1, <5>3
        <5> QED BY <5>4 DEF off, p
      <4>5. \A k \in 0..d.progress - 1 : k \in d.dest <=> Node(c).offset + k \in B
        <5>1. ~Shiftless(c.field)
          BY <3>3 DEF Shiftless, Node
        <5> HIDE DEF c, B
        <5> QED BY <1>1, <1>2, <1>3, <4>1, <4>3, <4>4, <5>1, GotAll
      <4> SUFFICES ASSUME NEW k \in 0..d.progress - 1
                   PROVE  k \in d.dest <=> <<Choice(s), Node(c).offset + k>> \in mem
        OBVIOUS
      <4>6. Node(c).offset + k \in Nat
        <5>1. Node(c).offset \in Nat
          BY <4>2
        <5> DEFINE off == Node(c).offset
                   q == d.progress
        <5>2. off \in Nat /\ k \in 0..q - 1
          BY <5>1
        <5> HIDE DEF off, q
        <5>3. off + k \in Nat
          BY <5>2
        <5> QED BY <5>3 DEF off
      <4>7. k \in d.dest <=> Node(c).offset + k \in B
        BY <4>5
      <4> HIDE DEF d, c
      <4> QED BY <4>6, <4>7
    <3>5. Replace(t, d)
      BY <3>1
    <3> HIDE DEF d
    <3>6. z[1] = x /\ z[2] = d /\ Len(z) = 2
      BY StackElements
    <3>7. z = <<calls[t][1], d>>
      BY DEF x
    <3> HIDE DEF z, s, c
    <3>8. Choice(z) = Choice(s) /\ Node(d) = Node(c) /\ Transfers(z)
      BY <2>2, <3>2, <3>3, <3>6 DEF Choice, Node, x, Transfers
    <3>9. x.pc = "fetched"
      BY <2>2, <2>3, <3>3 DEF InnerOK, x
    <3>10. InnerOK(mem, z)
      BY <2>3, <3>2, <3>4, <3>6, <3>8, <3>9 DEF InnerOK
    <3> QED BY <1>1, <1>5, <3>2, <3>5, <3>7, <3>10, InnerMemory DEF s, c
  <2>4. CASE c.op = "write"
    <3> DEFINE d == [c EXCEPT !.value = v, !.pc = "store"]
               z == <<x, d>>
    <3>1. Replace(t, d)
      BY <1>1, <2>4
    <3>2. /\ d \in CallType /\ d.pc = "store" /\ d.field = c.field /\ d.op = c.op /\ d.source = c.source
          /\ d.dest = c.dest /\ d.progress = c.progress /\ d.offset = c.offset /\ d.value = v
      BY <1>2, <1>3 DEF CallType
    <3> HIDE DEF d
    <3>3. z[1] = x /\ z[2] = d /\ Len(z) = 2
      BY StackElements
    <3>4. z = <<calls[t][1], d>>
      BY DEF x
    <3> HIDE DEF z, s, c
    <3>5. Choice(z) = Choice(s) /\ Node(d) = Node(c) /\ (Transfers(z) <=> Transfers(s))
      BY <1>5, <2>2, <3>2, <3>3 DEF Choice, Node, x, Transfers
    <3>6. InnerOK(mem, z)
      <4>1. \A i \in 0..Width(d.field) - 1 : i \in d.value <=> <<Choice(z), ByteBits * d.offset + i>> \in mem
        BY <2>1, <3>2, <3>5
      <4> QED BY <2>2, <2>4, <3>2, <3>3, <3>5, <4>1 DEF InnerOK, x
    <3> QED BY <1>1, <1>5, <3>1, <3>2, <3>4, <3>6, InnerMemory DEF s, c
  <2> QED BY <1>2, <2>3, <2>4
<1> QED BY <1>2, <1>4, <1>5

LEMMA FetchedMemory ==
  ASSUME FieldInv, MemoryInv, NEW t \in Threads, Calm(t), Fetched(t)
  PROVE  MemoryInv'
<1> DEFINE s == calls[t]
           c == Top(t)
           v == c.value
<1>1. /\ s # <<>> /\ c.pc = "fetched" /\ UNCHANGED mem /\ Quiet
      /\ c.op = "read" => \E mask \in Masks(AccessBits(c)) : Replace(t, Got(c, v, mask))
      /\ c.op # "read" => Replace(t, [c EXCEPT !.pc = "store"])
  BY DEF Fetched, At, Running
<1>2. c \in CallType /\ CallOK(c) /\ c.op \in {"read", "write"} /\ v \in SUBSET Nat
  BY <1>1, RunningStack, CallFields
<1>3. Node(c).kind = "indexfield" /\ More(c)
  BY <1>1, <1>2 DEF CallOK
<1>4. Len(s) = 1 /\ c = s[1]
  BY <1>1, <1>3, TopIsOperation
<1>5. OuterOK(mem, s)
  BY <1>1, RunningMemory
<1>6. \A i \in 0..Width(c.field) - 1 : i \in v <=> Spot(c.field, ByteBits * c.offset + i) \in mem
  <2>1. Current(mem, c)
    <3> HIDE DEF s, c
    <3> QED BY <1>1, <1>4, <1>5 DEF OuterOK
  <2> QED BY <2>1 DEF Current
<1>7. CASE c.op = "read"
  <2>1. PICK mask \in Masks(AccessBits(c)) : Replace(t, Got(c, v, mask))
    BY <1>1, <1>7
  <2> HIDE DEF v
  <2> QED BY <1>1, <1>2, <1>3, <1>4, <1>6, <1>7, <2>1, GotMemory
<1>8. CASE c.op = "write"
  <2>1. Node(c).rule = "preserve"
    <3> HIDE DEF s, c
    <3> QED BY <1>1, <1>4, <1>5, <1>8 DEF OuterOK
  <2>2. [c EXCEPT !.pc = "store"] = [c EXCEPT !.value = v, !.pc = "store"]
    <3> HIDE DEF c
    <3> QED BY <1>2 DEF CallType, v
  <2>3. Replace(t, [c EXCEPT !.value = v, !.pc = "store"])
    BY <1>1, <1>8, <2>2
  <2> HIDE DEF v
  <2> QED BY <1>1, <1>2, <1>4, <1>6, <1>8, <2>1, <2>3, KeepMemory
<1> QED BY <1>2, <1>7, <1>8

\* The value that is written has the bits that it is to have.
LEMMA MergedMeets ==
  ASSUME NEW c \in CallType, CallOK(c), More(c),
         NEW mask \in Masks(AccessBits(c)), Node(c).rule # "preserve" => c.value = Background(c),
         NEW j \in 0..Width(c.field) - 1
  PROVE  LET b == ByteBits * c.offset + j
             v == Merged(c, c.value, mask)
         IN  /\ Settled(c.field, b) => (j \in v <=> Target(c, b))
             /\ ~Inside(c.field, b) => (j \in v <=> j \in c.value)
<1> DEFINE f == c.field
           b == ByteBits * c.offset + j
           v == Merged(c, c.value, mask)
           o == BitOffset(c)
           n == AccessBits(c)
           W == Width(f)
<1>1. f \in Fields /\ Node(c) = Field[f]
  BY CallFields DEF Node
<1>2. W \in Nat /\ o \in Nat /\ n \in Nat /\ n >= 1 /\ o + n <= W /\ W <= WordBits /\ WordBits \in Nat
  <2>1. W \in Nat /\ o \in 0..W - 1 /\ n \in 1..W - o
    BY Geometry
  <2>2. W <= WordBits /\ WordBits \in Nat
    BY <1>1, WidthType, WidthsAssumption
  <2> HIDE DEF W, o, n
  <2> QED BY <2>1, <2>2
<1>3. j \in Nat /\ j < W
  <2>1. j \in 0..W - 1
    OBVIOUS
  <2> HIDE DEF W
  <2> QED BY <1>2, <2>1
<1>4. /\ Inside(f, b) <=> j \in o..o + n - 1
      /\ b - Node(c).offset = c.progress + (j - o)
  BY AccessInside
<1>5. mask \in SUBSET (0..n - 1)
  <2> HIDE DEF n
  <2> QED BY <1>2, MaskType DEF n
<1>6. Settled(f, b) <=> IF Inside(f, b) THEN ~Wide(f) ELSE Node(c).rule # "preserve"
  BY <1>1 DEF Settled
<1>7. Target(c, b) <=> IF Inside(f, b) THEN b - Node(c).offset \in c.source ELSE Node(c).rule = "ones"
  BY DEF Target
<1> HIDE DEF f, b, v, o, n, W
<1>8. ASSUME ~Inside(f, b) PROVE j \in v <=> j \in c.value
  <2>1. j \notin o..o + n - 1
    BY <1>4, <1>8
  <2> QED BY <1>2, <1>3, <1>5, <2>1, MergedAround DEF v, o
<1>9. ASSUME Inside(f, b), ~Wide(f) PROVE j \in v <=> b - Node(c).offset \in c.source
  <2> DEFINE k == j - o
  <2>1. j \in o..o + n - 1
    BY <1>4, <1>9
  <2>2. k \in 0..n - 1 /\ o + k = j
    BY <1>2, <2>1
  <2>3. mask = 0..n - 1
    BY <1>9, MaskDefined DEF n, f
  <2>4. BitOffset(c) + k \in Merged(c, c.value, 0..n - 1) <=> c.progress + k \in c.source
    <3> HIDE DEF k
    <3> QED BY <1>2, <2>2, MergedBits DEF o
  <2> QED BY <1>4, <2>2, <2>3, <2>4 DEF v, o
<1>10. ASSUME ~Inside(f, b), Node(c).rule # "preserve" PROVE j \in v <=> Node(c).rule = "ones"
  <2>1. j \in c.value <=> j \in Background(c)
    BY <1>10
  <2>2. j \in 0..WordBits - 1
    BY <1>2, <1>3
  <2> QED BY <1>8, <1>10, <2>1, <2>2 DEF Background
<1> QED BY <1>6, <1>7, <1>8, <1>9, <1>10 DEF f, b, v

\* The bits behind an index register.
LEMMA IndexSpot ==
  ASSUME NEW f \in Fields, Field[f].kind = "indexfield", NEW k \in Nat, NEW j \in 0..Width(f) - 1
  PROVE  Spot(f, UnitBit(f, k, j)) =
           <<Chosen(f, UnitOf(f, Field[f].offset + k)), Field[Field[f].data].offset + j>>
<1> DEFINE b == UnitBit(f, k, j)
<1>1. UnitOf(f, b) = UnitOf(f, Field[f].offset + k) /\ b % Width(f) = j
  BY UnitBitFacts
<1> HIDE DEF b
<1>2. Spot(f, b) = <<Chosen(f, UnitOf(f, b)), Field[Field[f].data].offset + (b % Width(f))>>
  BY SpotIs
<1> QED BY <1>1, <1>2 DEF b

\* What the operation is to leave behind the register is written to the data register.
LEMMA StoreDataMemory ==
  ASSUME FieldInv, MemoryInv, NEW t \in Threads, Calm(t), StoreData(t)
  PROVE  MemoryInv'
<1> DEFINE s == calls[t]
           c == Top(t)
           x == NextAccess(c)
           f == c.field
           W == Width(f)
           p == c.progress
           n == AccessBits(c)
<1>1. s # <<>> /\ c.pc = "send" /\ UNCHANGED mem /\ Quiet
  BY DEF StoreData, At, Running
<1>2. PICK mask \in Masks(AccessBits(c)) :
        Enter(t, x, Call(Node(c).data, "write", Merged(c, c.value, mask)))
  BY DEF StoreData
<1> DEFINE v == Merged(c, c.value, mask)
           y == Call(Node(c).data, "write", v)
           z == <<x, y>>
<1>3. /\ Len(s) = 1 /\ c \in CallType /\ CallOK(c) /\ More(c) /\ Node(c).kind = "indexfield"
  BY <1>1, Selected1
<1>4. /\ c = s[1] /\ OuterOK(mem, s) /\ f \in Fields /\ Node(c) = Field[f] /\ p \in Nat
  BY <1>1, <1>3, RunningStack, RunningMemory, CallFields DEF Node
<1>5. Enter(t, x, y)
  BY <1>2
<1>6. n \in Nat /\ n >= 1 /\ n <= Field[f].size - p
  <2>1. n \in 1..W - BitOffset(c) /\ n <= Field[f].size - p
    <3> HIDE DEF c
    <3> QED BY <1>3, <1>4, Geometry
  <2> HIDE DEF n, W
  <2> QED BY <2>1
<1> HIDE DEF s, c
<1>7. c.op = "write" /\ f \in Public /\ IF Node(c).rule = "preserve" THEN Current(mem, c) ELSE c.value = Background(c)
  BY <1>1, <1>4 DEF OuterOK
<1>8. v \in SUBSET Nat
  BY <1>2, <1>3, MergedType, CallFields
<1> HIDE DEF v
<1>9. /\ x \in CallType /\ x.pc = "loop" /\ x.field = f /\ x.op = "write" /\ x.source = c.source
      /\ x.progress = p + n /\ UnitOf(f, Position(x) - 1) = c.offset
  BY <1>3, <1>7, NextType
<1> HIDE DEF x
<1>10. Node(x) = Field[f] /\ Register(x) = Field[f].select /\ Behind(x) = c.offset
       /\ \A b : Target(x, b) <=> Target(c, b)
  BY <1>4, <1>9 DEF Node, Register, Behind, Target
<1>11. /\ y \in CallType /\ y.field = Field[f].data /\ y.op = "write" /\ y.source = v /\ y.progress = 0
  <2>1. y \in CallType /\ y.field = Node(c).data /\ y.op = "write" /\ y.source = v /\ y.progress = 0
    BY <1>3, <1>8, DataCall
  <2> QED BY <1>4, <2>1
<1>12. Field[Field[f].data].kind = "field" /\ Field[f].data # Field[f].select
  BY <1>3, <1>4, RegisterFacts, RegisterOfKind, FieldsAssumption DEF Window
<1>13. y.pc = "loop"
  <2> DEFINE r == Node(c).data
  <2>1. Field[r].kind = "field"
    BY <1>4, <1>12
  <2> HIDE DEF r
  <2>2. y.pc = (IF Field[r].kind = "bankfield" THEN "bank" ELSE "loop")
    BY DEF Call, r
  <2> QED BY <2>1, <2>2
<1> HIDE DEF y
<1>14. calls' = [calls EXCEPT ![t] = z]
  <2>1. calls[t] # <<>> /\ Len(calls[t]) = 1 /\ x \in CallType
    BY <1>1, <1>3, <1>9 DEF s
  <2> QED BY <1>5, <1>11, <2>1, AfterEnter
<1>15. z[1] = x /\ z[2] = y /\ Len(z) = 2 /\ z # <<>>
  BY StackElements
<1> HIDE DEF z, f, p, n, W
<1>16. Transfers(z) /\ ~Transfers(s) /\ Choice(z) = Chosen(f, c.offset) /\ Node(y) = Field[Field[f].data]
  BY <1>3, <1>9, <1>10, <1>11, <1>12, <1>15 DEF Transfers, Choice, Node
<1>17. ASSUME NEW k \in 0..Field[f].size - 1, Over(z, k) PROVE Over(s, k)
  <2>1. k < p + n /\ UnitOf(f, Field[f].offset + k) # c.offset
    BY <1>9, <1>10, <1>15, <1>16, <1>17 DEF Over
  <2>2. k \in 0..p + n - 1
    BY <1>4, <1>6, <2>1
  <2>3. ~(k >= p)
    <3>1. k \in 0..c.progress + AccessBits(c) - 1
      BY <2>2 DEF p, n
    <3>2. UnitOf(c.field, Node(c).offset + k) = c.offset <=> k >= c.progress
      BY <1>3, <3>1, AccessUnits
    <3> QED BY <1>4, <2>1, <3>2 DEF p, f
  <2>4. k < p
    BY <1>4, <2>3
  <2> QED BY <1>4, <1>16, <2>4 DEF Over, p
<1>18. OuterOK(mem, z)
  <2>1. \A k \in 0..Node(x).size - 1, i \in 0..Width(x.field) - 1 :
                 Over(z, k) /\ Settled(x.field, UnitBit(x.field, k, i))
                   => (Spot(x.field, UnitBit(x.field, k, i)) \in mem <=> Target(x, UnitBit(x.field, k, i)))
    BY <1>4, <1>7, <1>9, <1>10, <1>17 DEF OuterOK, f
  <2> QED BY <1>7, <1>9, <1>15, <2>1 DEF OuterOK
<1>19. ASSUME NEW j \in 0..W - 1
       PROVE  LET b == ByteBits * c.offset + j
              IN  /\ Settled(f, b) => (j \in v <=> Target(x, b))
                  /\ ~Inside(f, b) /\ Field[f].rule = "preserve"
                       => (j \in v <=> <<Choice(z), Field[Field[f].data].offset + j>> \in mem)
  <2> DEFINE b == ByteBits * c.offset + j
  <2>1. /\ Settled(f, b) => (j \in v <=> Target(c, b))
        /\ ~Inside(f, b) => (j \in v <=> j \in c.value)
    <3>1. /\ j \in 0..Width(c.field) - 1
          /\ (Node(c).rule # "preserve" => c.value = Background(c))
      BY <1>3, <1>7 DEF W, f
    <3> QED BY <1>2, <1>3, <3>1, MergedMeets DEF f, v
  <2>2. Spot(f, b) = <<Choice(z), Field[Field[f].data].offset + j>>
    <3>1. j \in 0..Width(c.field) - 1
      BY DEF W, f
    <3>2. b = UnitBit(f, p, j)
      BY <1>3, <3>1, AccessInside DEF f, p
    <3>3. c.offset = UnitOf(f, Field[f].offset + p)
      BY <1>3, <1>4 DEF CallOK, Position, f, p
    <3> HIDE DEF b
    <3>4. Spot(f, UnitBit(f, p, j)) =
            <<Chosen(f, UnitOf(f, Field[f].offset + p)), Field[Field[f].data].offset + j>>
      BY <1>3, <1>4, IndexSpot DEF W
    <3> QED BY <1>16, <3>2, <3>3, <3>4
  <2>3. Field[f].rule = "preserve" => (j \in c.value <=> Spot(f, b) \in mem)
    BY <1>4, <1>7 DEF Current, W, f
  <2> HIDE DEF b
  <2>4. /\ Settled(f, b) => (j \in v <=> Target(x, b))
        /\ ~Inside(f, b) /\ Field[f].rule = "preserve"
             => (j \in v <=> <<Choice(z), Field[Field[f].data].offset + j>> \in mem)
    BY <1>10, <2>1, <2>2, <2>3
  <2> QED BY <2>4 DEF b
<1>20. InnerOK(mem, z)
  <2>1. \A j \in 0..Width(x.field) - 1 :
          /\ Settled(x.field, ByteBits * Behind(x) + j)
               => (j \in y.source <=> Target(x, ByteBits * Behind(x) + j))
          /\ ~Inside(x.field, ByteBits * Behind(x) + j) /\ Node(x).rule = "preserve"
               => (j \in y.source <=> <<Choice(z), Node(y).offset + j>> \in mem)
    BY <1>9, <1>10, <1>11, <1>16, <1>19 DEF W
  <2>2. \A j \in 0..y.progress - 1 : <<Choice(z), Node(y).offset + j>> \in mem <=> j \in y.source
    BY <1>11
  <2> QED BY <1>9, <1>11, <1>13, <1>15, <2>1, <2>2 DEF InnerOK
<1>21. z[1].field = calls[t][1].field /\ z[1].op = calls[t][1].op
  BY <1>4, <1>7, <1>9, <1>15 DEF s, f
<1>22. calls[t] # <<>> /\ UNCHANGED mem /\ Quiet
  BY <1>1 DEF s
<1> QED BY <1>14, <1>15, <1>18, <1>20, <1>21, <1>22, QuietMemory

\* A register has been read or written.
LEMMA ReturnMemory ==
  ASSUME FieldInv, MemoryInv, NEW t \in Threads, Calm(t), Return(t)
  PROVE  MemoryInv'
<1> DEFINE s == calls[t]
           y == Top(t)
           o == s[1]
           v == IF y.op = "read" THEN y.dest ELSE o.value
           d == [o EXCEPT !.value = v]
           z == <<d>>
           f == o.field
           W == Width(f)
<1>1. s # <<>> /\ y.pc = "loop" /\ ~More(y) /\ Len(s) > 1 /\ UNCHANGED mem /\ Quiet
  BY DEF Return, Running, Finished
<1>2. /\ s \in Seq(CallType) /\ o \in CallType /\ CallOK(o) /\ y \in CallType /\ CallOK(y)
      /\ OuterOK(mem, s) /\ (Len(s) = 1 \/ Len(s) = 2)
      /\ (Len(s) = 2 => y = s[2] /\ Inner(o, y) /\ InnerOK(mem, s))
  BY <1>1, RunningStack, RunningMemory
<1>3. Len(s) = 2
  <2> DEFINE n == Len(s)
  <2>1. n > 1 /\ (n = 1 \/ n = 2)
    BY <1>1, <1>2
  <2> HIDE DEF n
  <2>2. n = 2
    BY <2>1
  <2> QED BY <2>2 DEF n
<1>4. f \in Fields /\ Node(o) = Field[f] /\ o.progress \in Nat
      /\ y.op \in {"read", "write"} /\ y.progress \in Nat /\ y.field \in Fields /\ Node(y) = Field[y.field]
  BY <1>2, CallFields DEF Node
<1>5. /\ d \in CallType /\ d.field = f /\ d.progress = o.progress /\ d.offset = o.offset
      /\ d.dest = o.dest /\ d.pc = o.pc /\ d.op = o.op /\ d.source = o.source /\ d.value = v
  <2>1. v \in SUBSET Nat
    BY <1>2, CallFields
  <2> HIDE DEF v, s, y
  <2> QED BY <1>2, <2>1 DEF CallType
<1>6. calls' = [calls EXCEPT ![t] = z]
  <2> DEFINE caller == SubSeq(s, 1, Len(s) - 1)[Len(SubSeq(s, 1, Len(s) - 1))]
  <2>1. calls' = [calls EXCEPT ![t] =
                    Append(SubSeq(s, 1, Len(s) - 2),
                           [caller EXCEPT !.value = IF y.op = "read" THEN y.dest ELSE @])]
    BY DEF Return, Below
  <2>2. caller = o /\ Append(SubSeq(s, 1, Len(s) - 2), d) = z
    <3> HIDE DEF s, d
    <3> QED BY <1>2, <1>3, <1>5, StackOfTwo
  <2> HIDE DEF caller, s, y, o
  <2>3. [caller EXCEPT !.value = IF y.op = "read" THEN y.dest ELSE @] = d
    BY <2>2
  <2> QED BY <2>1, <2>2, <2>3
<1> HIDE DEF d
<1>7. z[1] = d /\ Len(z) = 1 /\ z # <<>>
  BY StackElements
<1> HIDE DEF z, s, y, o, f, W
<1>8. y.progress = Field[y.field].size
  <2>1. Field[y.field].size \in Nat /\ y.progress <= Field[y.field].size
    BY <1>2, <1>4, FieldTypes DEF CallOK
  <2> QED BY <1>1, <1>4, <2>1 DEF More
<1>9. y.field = Register(o) => y.op = "write" /\ ~Transfers(s)
  BY <1>2, <1>3, InnerFacts DEF Transfers, o
<1>10. y.field # Register(o) => Transfers(s) /\ Field[f].kind = "indexfield"
  BY <1>2, <1>3, <1>4, InnerFacts DEF Transfers, o
<1>11. ASSUME Transfers(s)
       PROVE  /\ y.progress = W /\ Choice(s) = Chosen(f, Behind(o)) /\ Field[f].kind = "indexfield"
              /\ y.field = Field[f].data
  <2>1. y.field = Field[f].data
    BY <1>2, <1>3, <1>4, <1>11 DEF Transfers, o
  <2>2. y.field # Register(o) /\ Field[f].kind = "indexfield"
    BY <1>2, <1>3, <1>4, <1>9, <1>10, <1>11
  <2>3. y.progress = W
    BY <1>4, <1>8, <2>1, <2>2, IndexAssumption DEF W
  <2> QED BY <1>2, <1>3, <2>1, <2>2, <2>3 DEF Choice, o, f
<1>12. Node(d) = Node(o) /\ \A b : Target(d, b) <=> Target(o, b)
  BY <1>4, <1>5 DEF Node, Target, f
<1>13. d.pc \in {"store", "send"} =>
         /\ d.op = "write"
         /\ IF Node(d).rule = "preserve" THEN Current(mem, d) ELSE d.value = Background(d)
  <2> SUFFICES ASSUME d.pc \in {"store", "send"}
               PROVE  /\ d.op = "write"
                      /\ IF Node(d).rule = "preserve" THEN Current(mem, d) ELSE d.value = Background(d)
    OBVIOUS
  <2>1. y.field = Register(o)
    BY <1>2, <1>3, <1>5 DEF Inner
  <2>2. d.value = o.value
    BY <1>5, <1>9, <2>1
  <2>3. /\ o.op = "write"
        /\ IF Node(o).rule = "preserve" THEN Current(mem, o) ELSE o.value = Background(o)
    BY <1>2, <1>5 DEF OuterOK, o
  <2> QED BY <1>5, <1>12, <2>2, <2>3 DEF Current, Background, f
<1>14. d.pc \in {"fetch", "fetched"} => d.op = "read" \/ Node(d).rule = "preserve"
  BY <1>2, <1>5, <1>12 DEF OuterOK, o
<1>15. ASSUME d.pc = "fetched" PROVE Current(mem, d)
  <2>1. y.field = Node(o).data /\ y.field # Register(o)
    <3>1. y.field = Node(o).data
      BY <1>2, <1>3, <1>5, <1>15 DEF Inner
    <3> QED BY <1>2, <1>3, <3>1, InnerFacts
  <2>2. Transfers(s)
    BY <1>10, <2>1
  <2>3. y.op = "read" /\ \A j \in 0..y.progress - 1 : j \in y.dest <=> <<Choice(s), Node(y).offset + j>> \in mem
    BY <1>2, <1>3, <1>5, <1>15, <2>2 DEF InnerOK, o
  <2>4. d.value = y.dest
    BY <1>5, <2>3
  <2>5. More(o)
    BY <1>2, <1>5, <1>15 DEF CallOK
  <2>6. Behind(o) = UnitOf(f, Field[f].offset + o.progress)
    <3>1. Behind(o) = UnitOf(f, Position(o) - 0)
      BY <1>5, <1>15 DEF Behind, f
    <3>2. Position(o) - 0 = Field[f].offset + o.progress
      BY <1>4, FieldTypes DEF Position
    <3> QED BY <3>1, <3>2
  <2> SUFFICES ASSUME NEW j \in 0..W - 1
               PROVE  j \in d.value <=> Spot(f, ByteBits * d.offset + j) \in mem
    BY <1>5 DEF Current, W
  <2>7. ByteBits * o.offset + j = UnitBit(f, o.progress, j)
    <3>1. j \in 0..Width(o.field) - 1
      BY DEF W, f
    <3> QED BY <1>2, <2>5, <3>1, AccessInside DEF f
  <2>8. Spot(f, UnitBit(f, o.progress, j)) = <<Choice(s), Node(y).offset + j>>
    BY <1>4, <1>11, <2>2, <2>6, IndexSpot DEF W
  <2> QED BY <1>5, <1>11, <2>2, <2>3, <2>4, <2>7, <2>8
<1>16. d.op = "read" /\ ~Wide(f) /\ ~Shiftless(f) =>
             \A k \in 0..d.progress - 1 : k \in d.dest <=> Spot(f, Node(d).offset + k) \in mem
  BY <1>2, <1>5, <1>12 DEF OuterOK, o, f
<1>17. ASSUME d.op = "write", NEW k \in 0..Field[f].size - 1, NEW i \in 0..W - 1,
              k < o.progress, Settled(f, UnitBit(f, k, i))
       PROVE  Spot(f, UnitBit(f, k, i)) \in mem <=> Target(o, UnitBit(f, k, i))
  <2>1. CASE Over(s, k)
    BY <1>2, <1>4, <1>5, <1>17, <2>1 DEF OuterOK, o, f, W
  <2>2. CASE ~Over(s, k)
    <3>1. Transfers(s) /\ UnitOf(f, Field[f].offset + k) = Behind(o)
      BY <1>4, <1>17, <2>2 DEF Over, o, f
    <3>2. k \in Nat
      BY FieldTypes, <1>4
    <3>3. y.op = "write"
      <4> SUFFICES ASSUME y.op = "read" PROVE FALSE
        BY <1>4
      <4>1. o.pc = "fetched"
        BY <1>2, <1>3, <3>1 DEF InnerOK, o
      <4>2. More(o)
        BY <1>2, <4>1 DEF CallOK
      <4>3. Behind(o) = UnitOf(f, Position(o) - 0) /\ Position(o) - 0 = Position(o)
        <5>1. Position(o) \in Int
          BY <1>4, FieldTypes DEF Position
        <5> QED BY <4>1, <5>1 DEF Behind, f
      <4>4. o.offset = Behind(o)
        BY <1>2, <4>2, <4>3 DEF CallOK, f
      <4>5. k \in 0..o.progress + AccessBits(o) - 1
        <5>1. AccessBits(o) \in Int /\ AccessBits(o) >= 1
          <6>1. AccessBits(o) \in 1..Width(o.field) - BitOffset(o)
            BY <1>2, <4>2, Geometry
          <6> QED BY <6>1
        <5> QED BY <1>4, <1>17, <3>2, <5>1
      <4>6. UnitOf(o.field, Node(o).offset + k) = o.offset <=> k >= o.progress
        BY <1>2, <4>2, <4>5, AccessUnits
      <4>7. k >= o.progress
        BY <1>4, <3>1, <4>4, <4>6 DEF f
      <4> QED BY <1>4, <1>17, <3>2, <4>7
    <3>4. <<Choice(s), Node(y).offset + i>> \in mem <=> i \in y.source
      <4>1. \A j \in 0..y.progress - 1 : <<Choice(s), Node(y).offset + j>> \in mem <=> j \in y.source
        BY <1>2, <1>3, <3>1, <3>3 DEF InnerOK
      <4> QED BY <1>11, <3>1, <4>1
    <3>5. UnitBit(f, k, i) = ByteBits * Behind(o) + i
      BY <3>1 DEF UnitBit
    <3>6. Settled(f, ByteBits * Behind(o) + i) => (i \in y.source <=> Target(o, ByteBits * Behind(o) + i))
      <4>1. \A j \in 0..Width(s[1].field) - 1 :
              Settled(s[1].field, ByteBits * Behind(s[1]) + j)
                => (j \in s[2].source <=> Target(s[1], ByteBits * Behind(s[1]) + j))
        BY <1>2, <1>3, <3>1, <3>3 DEF InnerOK
      <4> QED BY <1>2, <1>3, <4>1 DEF o, f, W
    <3>7. Spot(f, UnitBit(f, k, i)) = <<Choice(s), Node(y).offset + i>>
      BY <1>4, <1>11, <3>1, <3>2, IndexSpot DEF W
    <3> QED BY <1>17, <3>4, <3>5, <3>6, <3>7
  <2> QED BY <2>1, <2>2
<1>18. OuterOK(mem, z)
  <2>1. f \in Public
    BY <1>2 DEF OuterOK, o, f
  <2>2. ~Transfers(z)
    BY <1>7 DEF Transfers
  <2>3. d.op = "write" =>
             \A k \in 0..Node(d).size - 1, i \in 0..Width(d.field) - 1 :
                 Over(z, k) /\ Settled(d.field, UnitBit(d.field, k, i))
                   => (Spot(d.field, UnitBit(d.field, k, i)) \in mem <=> Target(d, UnitBit(d.field, k, i)))
    BY <1>4, <1>5, <1>7, <1>12, <1>17 DEF Over, W
  <2> QED BY <1>5, <1>7, <1>13, <1>14, <1>15, <1>16, <2>1, <2>3 DEF OuterOK
<1>19. z[1].field = calls[t][1].field /\ z[1].op = calls[t][1].op /\ Len(z) # 2
  BY <1>5, <1>7 DEF s, o, f
<1>20. calls[t] # <<>> /\ UNCHANGED mem /\ Quiet
  BY <1>1 DEF s
<1> QED BY <1>6, <1>7, <1>18, <1>19, <1>20, QuietMemory

\* What a store does to memory: the bits of the field that are in the access become
\* those of the source, and the others stay when the value was what is there.
LEMMA StoreEffect ==
  ASSUME FieldInv, MemoryInv, NEW t \in Threads, Calm(t), Store(t)
  PROVE  LET c == Top(t)
         IN  /\ calls[t] # <<>> /\ c \in CallType /\ CallOK(c) /\ More(c) /\ Direct(c) /\ c.pc = "store"
             /\ Replace(t, NextAccess(c)) /\ Quiet
             /\ \A x, b : b \notin Alters(t) => (<<x, b>> \in mem' <=> <<x, b>> \in mem)
             /\ \E mask \in Masks(AccessBits(c)) :
                  /\ \A i \in 0..Width(c.field) - 1 :
                       <<Sel(calls[t]), ByteBits * c.offset + i>> \in mem'
                         <=> i \in Merged(c, c.value, mask)
                  /\ \A x : (\A i \in 0..Width(c.field) - 1 :
                               x # <<Sel(calls[t]), ByteBits * c.offset + i>>) =>
                       (x \in mem' <=> x \in mem)
<1> DEFINE c == Top(t)
<1>1. calls[t] # <<>> /\ c.pc = "store" /\ Direct(c) /\ Replace(t, NextAccess(c)) /\ Quiet
  BY DEF Store, At, Running
<1>2. PICK mask \in Masks(AccessBits(c)) :
        mem' = Written(mem, Width(c.field), c.offset, Merged(c, c.value, mask))
  BY DEF Store
<1>3. c \in CallType /\ CallOK(c) /\ calls[t][1].field \in Public
  BY <1>1, RunningStack, RunningMemory
<1>4. More(c) /\ c.field \in Fields
  BY <1>1, <1>3, CallFields DEF CallOK
<1> DEFINE v == Merged(c, c.value, mask)
           W == Width(c.field)
<1> HIDE DEF v
<1>5. /\ \A i \in 0..W - 1 : <<Sel(calls[t]), ByteBits * c.offset + i>> \in mem' <=> i \in v
      /\ \A x : (\A i \in 0..W - 1 : x # <<Sel(calls[t]), ByteBits * c.offset + i>>) =>
                  (x \in mem' <=> x \in mem)
  BY <1>1, <1>2, <1>3, <1>4, TopWrite DEF v
<1> HIDE DEF c, W
<1>6. \A x, b : b \notin Alters(t) => (<<x, b>> \in mem' <=> <<x, b>> \in mem)
  <2> SUFFICES ASSUME NEW x, NEW b, b \notin Alters(t) PROVE <<x, b>> \in mem' <=> <<x, b>> \in mem
    OBVIOUS
  <2>1. b \notin Bytes(c)
    BY <1>1, StoreAlters DEF c
  <2>2. b \notin {ByteBits * c.offset + i : i \in 0..Width(c.field) - 1}
    BY <2>1 DEF Bytes
  <2> QED BY <1>2, <2>2, WrittenElsewhere
<1> QED BY <1>1, <1>2, <1>3, <1>4, <1>5, <1>6 DEF c, v, W

\* What a store in a register does to memory.
LEMMA InnerEffect ==
  ASSUME FieldInv, MemoryInv, NEW t \in Threads, Calm(t), Store(t), Len(calls[t]) = 2
  PROVE  LET y == Top(t)
             sel == Choice(calls[t])
         IN  /\ \A j \in y.progress..y.progress + AccessBits(y) - 1 :
                  <<sel, Node(y).offset + j>> \in mem' <=> j \in y.source
             /\ \A x : (\A j \in y.progress..y.progress + AccessBits(y) - 1 :
                           x # <<sel, Node(y).offset + j>>) => (x \in mem' <=> x \in mem)
<1> DEFINE s == calls[t]
           y == Top(t)
           sel == Choice(s)
           W == Width(y.field)
           n == AccessBits(y)
           o == BitOffset(y)
           p == y.progress
           off == Node(y).offset
           base == ByteBits * y.offset
<1>1. s # <<>> /\ y \in CallType /\ CallOK(y) /\ More(y) /\ y.pc = "store"
  BY StoreEffect
<1>2. y = s[2] /\ s[1] \in CallType /\ Inner(s[1], y) /\ InnerOK(mem, s)
  BY <1>1, RunningStack, RunningMemory
<1>3. Sel(s) = sel
  BY DEF Sel
<1>4. PICK mask \in Masks(n) :
        /\ \A i \in 0..W - 1 : <<sel, base + i>> \in mem' <=> i \in Merged(y, y.value, mask)
        /\ \A x : (\A i \in 0..W - 1 : x # <<sel, base + i>>) => (x \in mem' <=> x \in mem)
  <2>1. \E mask \in Masks(AccessBits(Top(t))) :
          /\ \A i \in 0..Width(Top(t).field) - 1 :
               <<Sel(calls[t]), ByteBits * Top(t).offset + i>> \in mem' <=> i \in Merged(Top(t), Top(t).value, mask)
          /\ \A x : (\A i \in 0..Width(Top(t).field) - 1 : x # <<Sel(calls[t]), ByteBits * Top(t).offset + i>>) =>
               (x \in mem' <=> x \in mem)
    BY StoreEffect, Zenon
  <2> HIDE DEF s, y, sel
  <2> QED BY <1>3, <2>1, Zenon DEF s, y, sel, n, W, base
<1>5. y.field \in Fields /\ Node(y) = Field[y.field] /\ y.offset \in Nat /\ p \in Nat /\ off \in Nat
  BY <1>1, CallFields, FieldTypes DEF Node
<1>6. base \in Nat
  BY <1>5, WidthsAssumption
<1>7. W \in Nat /\ o \in Nat /\ n \in Nat /\ n >= 1 /\ o + n <= W /\ base + o = off + p
  <2>1. W \in Nat /\ o \in 0..W - 1 /\ n \in 1..W - o /\ base + o = off + p
    <3> HIDE DEF y
    <3> QED BY <1>1, Geometry DEF Position
  <2> HIDE DEF W, o, n, base, off, p
  <2> QED BY <2>1
<1> HIDE DEF s, y, sel
<1>8. ~Wide(y.field) /\ Node(y).kind = "field" /\ Node(y).rule = "preserve"
  <2> DEFINE x == s[1]
             f == x.field
  <2>1. f \in Fields /\ Node(x) = Field[f] /\ Register(x) = Field[f].select
    BY <1>2, CallFields DEF Node, Register
  <2> HIDE DEF x, f
  <2>2. /\ Node(y).kind = "field" /\ y.field \in {Field[f].select, Field[f].data} /\ Field[f].select # Nobody
        /\ y.field = Field[f].data => Field[f].kind = "indexfield"
    BY <1>1, <1>2, <2>1, InnerFacts DEF x
  <2>3. y.field # Nobody
    BY <1>5, FieldsAssumption
  <2>4. Field[y.field].rule = "preserve"
    BY <2>1, <2>2, <2>3, FieldsAssumption
  <2>5. ~Wide(y.field)
    BY <2>1, <2>2, DeviceAssumption
  <2> QED BY <1>5, <2>2, <2>4, <2>5
<1>9. \A i \in 0..W - 1 : i \in y.value <=> <<sel, base + i>> \in mem
  BY <1>1, <1>2 DEF InnerOK, sel, W
<1>10. ASSUME NEW i \in 0..W - 1
       PROVE  /\ Inside(y.field, base + i) => (i \in Merged(y, y.value, mask) <=> (base + i) - off \in y.source)
              /\ ~Inside(y.field, base + i) => (i \in Merged(y, y.value, mask) <=> i \in y.value)
              /\ Inside(y.field, base + i) <=> i \in o..o + n - 1
              /\ (base + i) - off = p + (i - o)
  <2>1. i \in 0..Width(y.field) - 1
    OBVIOUS
  <2>2. /\ Settled(y.field, base + i) => (i \in Merged(y, y.value, mask) <=> Target(y, base + i))
        /\ ~Inside(y.field, base + i) => (i \in Merged(y, y.value, mask) <=> i \in y.value)
    BY <1>1, <1>4, <1>8, <2>1, MergedMeets
  <2>3. /\ Inside(y.field, base + i) <=> i \in o..o + n - 1
        /\ (base + i) - off = p + (i - o)
    <3> DEFINE f == y.field
    <3>1. /\ Inside(f, base + i) <=> i \in o..o + n - 1
          /\ (base + i) - off = p + (i - o)
      BY <1>1, <2>1, AccessInside
    <3> QED BY <3>1
  <2>4. Settled(y.field, base + i) <=> IF Inside(y.field, base + i) THEN TRUE ELSE FALSE
    <3> DEFINE f == y.field
               b == base + i
    <3>1. Settled(f, b) <=> IF Inside(f, b) THEN ~Wide(f) ELSE Field[f].rule # "preserve"
      BY DEF Settled
    <3> HIDE DEF f, b
    <3> QED BY <1>5, <1>8, <3>1 DEF f, b
  <2>5. Inside(y.field, base + i) => (Target(y, base + i) <=> (base + i) - off \in y.source)
    <3> DEFINE b == base + i
    <3>1. Target(y, b) <=> IF Inside(y.field, b) THEN b - off \in y.source ELSE Node(y).rule = "ones"
      BY DEF Target
    <3> QED BY <3>1
  <2> HIDE DEF W, n, o, p, base, off
  <2> QED BY <2>2, <2>3, <2>4, <2>5
<1> HIDE DEF W, n, o, p, off, base
<1>11. ASSUME NEW j \in p..p + n - 1 PROVE <<sel, off + j>> \in mem' <=> j \in y.source
  <2> DEFINE i == o + (j - p)
  <2>1. i \in 0..W - 1 /\ base + i = off + j /\ (base + i) - off = j /\ i \in o..o + n - 1
    BY <1>5, <1>6, <1>7
  <2> HIDE DEF i
  <2>2. i \in Merged(y, y.value, mask) <=> (base + i) - off \in y.source
    BY <1>10, <2>1
  <2> QED BY <1>4, <2>1, <2>2
<1>12. ASSUME NEW x, \A j \in p..p + n - 1 : x # <<sel, off + j>> PROVE x \in mem' <=> x \in mem
  <2>1. CASE \A i \in 0..W - 1 : x # <<sel, base + i>>
    BY <1>4, <2>1
  <2>2. ASSUME NEW i \in 0..W - 1, x = <<sel, base + i>> PROVE x \in mem' <=> x \in mem
    <3>1. i \notin o..o + n - 1
      <4> SUFFICES ASSUME i \in o..o + n - 1 PROVE FALSE
        OBVIOUS
      <4> DEFINE j == p + (i - o)
      <4>1. j \in p..p + n - 1 /\ base + i = off + j
        BY <1>5, <1>6, <1>7
      <4> HIDE DEF j
      <4> QED BY <1>12, <2>2, <4>1
    <3>2. i \in Merged(y, y.value, mask) <=> i \in y.value
      BY <1>10, <3>1
    <3> QED BY <1>4, <1>9, <2>2, <3>2
  <2> QED BY <2>1, <2>2
<1> QED BY <1>11, <1>12 DEF s, y, sel, n, p, off

\* The bits of the accesses of a field.
LEMMA UnitHome ==
  ASSUME NEW f \in Fields, NEW k \in 0..Field[f].size - 1, NEW i \in 0..Width(f) - 1
  PROVE  /\ Spot(f, UnitBit(f, k, i)) \in Units(f)
         /\ Inside(f, UnitBit(f, k, i)) => Spot(f, UnitBit(f, k, i)) \in Home(f)
<1> DEFINE b == UnitBit(f, k, i)
           off == Field[f].offset
           size == Field[f].size
<1>1. Spot(f, b) \in Units(f)
  BY DEF Units, UnitBit
<1>2. b \in Nat /\ off \in Nat /\ size \in Nat
  <2>1. k \in Nat
    BY FieldTypes
  <2> QED BY <2>1, UnitBitFacts, FieldTypes
<1> HIDE DEF b
<1>3. ASSUME Inside(f, b) PROVE Spot(f, b) \in Home(f)
  <2> DEFINE l == b - off
  <2>1. b \in off..off + size - 1
    BY <1>3 DEF Inside
  <2>2. l \in 0..size - 1 /\ off + l = b
    <3> HIDE DEF off, size
    <3> QED BY <1>2, <2>1
  <2> HIDE DEF l
  <2> QED BY <2>2 DEF Home
<1> QED BY <1>1, <1>3 DEF b

\* A step of an operation keeps memory as it should be when it changes nothing but
\* what the operation determines.
LEMMA AgreesKept ==
  ASSUME FieldInv, MemoryInv, NEW t \in Threads, Calm(t), calls[t] # <<>>, NEW z, z # <<>>,
         calls' = [calls EXCEPT ![t] = z],
         z[1].field = calls[t][1].field, z[1].op = calls[t][1].op, ideal' = ideal, raced' = raced,
         \A x : x \notin Vague /\ (Writing(t) => x \notin Touched(calls[t][1].field))
                  => (x \in mem' <=> x \in mem)
  PROVE  Agrees'
<1>1. calls'[t] = z /\ \A u \in Threads \ {t} : calls'[u] = calls[u]
  BY DEF FieldInv, Types
<1>2. ASSUME NEW u \in Threads, Writing(u)
      PROVE  Writing(u)' /\ calls'[u][1].field = calls[u][1].field
  BY <1>1, <1>2 DEF Writing
<1> SUFFICES ASSUME NEW x, x \notin Vague, x[2] \notin raced',
                    \A u \in Threads : Writing(u)' => x \notin Touched(calls'[u][1].field)
             PROVE  x \in mem' <=> x \in ideal'
  BY DEF Agrees
<1>3. \A u \in Threads : Writing(u) => x \notin Touched(calls[u][1].field)
  BY <1>2
<1> QED BY <1>3 DEF MemoryInv, Agrees

\* The bits of the register of a field are vague.
LEMMA RegisterVague ==
  ASSUME NEW f \in Fields, Field[f].select # Nobody, NEW j \in 0..Field[Field[f].select].size - 1
  PROVE  <<{}, Field[Field[f].select].offset + j>> \in Vague
<1> DEFINE b == Field[Field[f].select].offset + j
<1>1. b \in Place(Field[f].select)
  BY DEF Place
<1> HIDE DEF b
<1>2. b \in UNION {Place(Field[g].select) : g \in {h \in Fields : Field[h].select # Nobody}}
  BY <1>1
<1> QED BY <1>2 DEF Vague, b

\* A store in a register of an operation.
LEMMA StoreInnerMemory ==
  ASSUME FieldInv, MemoryInv, NEW t \in Threads, Calm(t), Store(t), Len(calls[t]) = 2
  PROVE  MemoryInv'
<1> DEFINE s == calls[t]
           x == s[1]
           y == Top(t)
           d == NextAccess(y)
           z == <<x, d>>
           f == x.field
           r == y.field
           sel == Choice(s)
           p == y.progress
           n == AccessBits(y)
           off == Node(y).offset
<1>1. /\ s # <<>> /\ y \in CallType /\ CallOK(y) /\ More(y) /\ y.pc = "store" /\ Replace(t, d) /\ Quiet
      /\ \A e, b : b \notin Alters(t) => (<<e, b>> \in mem' <=> <<e, b>> \in mem)
  BY StoreEffect
<1>2. /\ \A j \in p..p + n - 1 : <<sel, off + j>> \in mem' <=> j \in y.source
      /\ \A e : (\A j \in p..p + n - 1 : e # <<sel, off + j>>) => (e \in mem' <=> e \in mem)
  BY InnerEffect
<1>3. /\ x \in CallType /\ CallOK(x) /\ OuterOK(mem, s) /\ y = s[2] /\ Inner(x, y) /\ InnerOK(mem, s)
  BY <1>1, RunningStack, RunningMemory
<1>4. /\ f \in Fields /\ f \in Public /\ Node(x) = Field[f] /\ Register(x) = Field[f].select
      /\ r \in Fields /\ Node(y) = Field[r] /\ p \in Nat /\ off = Field[r].offset /\ x.progress \in Nat
  BY <1>1, <1>3, RunningMemory, CallFields DEF Node, Register
<1>5. n \in Nat /\ n >= 1 /\ p + n <= Field[r].size /\ Field[r].size \in Nat /\ off \in Nat
  <2>1. n \in 1..Width(y.field) - BitOffset(y) /\ n <= Field[r].size - p
    <3> HIDE DEF y
    <3> QED BY <1>1, <1>4, Geometry
  <2>2. n \in Nat /\ n >= 1
    <3> DEFINE h == Width(y.field) - BitOffset(y)
    <3> HIDE DEF n, h
    <3> QED BY <2>1 DEF h
  <2>3. Field[r].size \in Nat /\ off \in Nat
    BY <1>4, FieldTypes
  <2> HIDE DEF n
  <2> QED BY <1>4, <2>1, <2>2, <2>3
<1>6. /\ d \in CallType /\ d.pc = "loop" /\ d.field = r /\ d.op = y.op /\ d.source = y.source
      /\ d.progress = p + n
  <2> HIDE DEF y
  <2> QED BY <1>1, NextType
<1>7. calls' = [calls EXCEPT ![t] = z]
  BY <1>1, <1>6, AfterReplace
<1> HIDE DEF d
<1>8. z[1] = x /\ z[2] = d /\ Len(z) = 2 /\ z # <<>>
  BY StackElements, SMTT(30)
<1>9. y.op = "write" /\ Node(d) = Node(y)
  BY <1>1, <1>3, <1>4, <1>6 DEF InnerOK, Node
<1>10. UNCHANGED <<ideal, raced>>
  BY <1>1 DEF Quiet
<1> HIDE DEF s, x, y, z, r, f, sel, p, n, off
<1>11. /\ Node(y).kind = "field" /\ r \in {Field[f].select, Field[f].data} /\ Field[f].select # Nobody
       /\ r = Field[f].data => Field[f].kind = "indexfield" /\ r # Field[f].select
  BY <1>1, <1>3, <1>4, InnerFacts DEF r
<1>12. \A j \in p..p + n - 1 : j \in 0..Field[r].size - 1
  BY <1>4, <1>5
<1>13. ASSUME NEW e, NEW b, e # sel \/ b \notin Accessed(r) PROVE <<e, b>> \in mem' <=> <<e, b>> \in mem
  <2>1. \A j \in p..p + n - 1 : off + j \in Accessed(r)
    BY <1>4, <1>11, <1>12, PlaceAccessed
  <2>2. \A j \in p..p + n - 1 : <<e, b>> # <<sel, off + j>>
    BY <1>13, <2>1
  <2> QED BY <1>2, <2>2
<1>14. (Transfers(z) <=> Transfers(s)) /\ Choice(z) = sel /\ (Transfers(s) <=> r = Field[f].data)
  BY <1>3, <1>4, <1>6, <1>8 DEF Transfers, Choice, sel, x, s, r
<1>15. z[1].field = calls[t][1].field /\ z[1].op = calls[t][1].op
  BY <1>8 DEF x, s
<1>16. ASSUME OuterOK(mem', z), InnerOK(mem', z),
              \A e : e \notin Vague /\ (Writing(t) => e \notin Touched(f)) => (e \in mem' <=> e \in mem)
       PROVE  MemoryInv'
  <2>1. Agrees'
    BY <1>1, <1>7, <1>8, <1>10, <1>15, <1>16, AgreesKept DEF f, x, s
  <2>2. Faithful(mem', z)
    BY <1>16 DEF Faithful
  <2> QED BY <1>1, <1>7, <1>10, <1>15, <2>1, <2>2, MemoryAdvance DEF s
<1>17. CASE r = Field[f].select
  <2>1. ~Transfers(s) /\ sel = {}
    BY <1>3, <1>4, <1>11, <1>14, <1>17 DEF Choice, sel, x, s, r
  <2>2. Unmoved(mem, mem', Accessed(Window(f)))
    <3>1. Accessed(Window(f)) \cap Accessed(r) = {}
      BY <1>4, <1>11, <1>17, RegisterFacts
    <3> QED BY <1>13, <3>1 DEF Unmoved
  <2>3. OuterOK(mem', s)
    BY <1>3, <2>2, OuterKept DEF f, x
  <2>4. \A k : Over(z, k) <=> Over(s, k)
    BY <1>8, <1>14 DEF Over, x
  <2>5. OuterOK(mem', z)
    <3>1. Len(s) # 1 /\ z[1] = s[1]
      BY <1>8 DEF x, s
    <3> QED BY <1>8, <2>3, <2>4, <3>1 DEF OuterOK
  <2>6. InnerOK(mem', z)
    BY <1>6, <1>8, <1>14, <2>1 DEF InnerOK
  <2>7. ASSUME NEW e, e \notin Vague PROVE e \in mem' <=> e \in mem
    <3>1. \A j \in p..p + n - 1 : <<sel, off + j>> \in Vague
      BY <1>4, <1>11, <1>12, <1>17, <2>1, RegisterVague
    <3> QED BY <1>2, <2>7, <3>1
  <2> QED BY <1>16, <2>5, <2>6, <2>7
<1>18. CASE r = Field[f].data
  <2> DEFINE u == Behind(x)
             W == Width(f)
             l == x.progress - 1
             base == ByteBits * u
  <2>1. /\ Transfers(s) /\ Transfers(z) /\ Field[f].kind = "indexfield" /\ sel = Chosen(f, u)
        /\ Field[r].size = W
    <3>1. Transfers(s) /\ Transfers(z) /\ Field[f].kind = "indexfield" /\ r # Register(x)
      BY <1>4, <1>11, <1>14, <1>18
    <3>2. sel = Chosen(f, u)
      BY <1>3, <3>1 DEF Choice, sel, x, f, r
    <3>3. Field[r].size = W
      BY <1>4, <1>18, <3>1, IndexAssumption
    <3> QED BY <3>1, <3>2, <3>3
  <2>2. x.op = "write" /\ x.pc # "fetched"
    BY <1>3, <1>9, <2>1 DEF InnerOK, x
  <2>3. x.pc = "loop" /\ x.progress > 0
    BY <1>3, <1>4, <1>11, <1>18, <2>2 DEF Inner, r
  <2>4. l \in 0..Field[f].size - 1 /\ u = UnitOf(f, Field[f].offset + l)
    <3>1. Field[f].offset \in Nat /\ Field[f].size \in Nat /\ x.progress <= Field[f].size
      BY <1>3, <1>4, FieldTypes DEF CallOK
    <3>2. u = UnitOf(f, Position(x) - 1)
      BY <2>3 DEF Behind, f
    <3>3. Position(x) - 1 = Field[f].offset + l
      BY <1>4, <3>1 DEF Position
    <3> QED BY <1>4, <2>3, <3>1, <3>2, <3>3
  <2>5. ASSUME NEW j \in 0..W - 1
        PROVE  UnitBit(f, l, j) = base + j /\ Spot(f, UnitBit(f, l, j)) = <<sel, off + j>>
    <3>1. l \in Nat
      BY <2>4
    <3>2. Spot(f, UnitBit(f, l, j)) = <<Chosen(f, u), Field[r].offset + j>>
      <4> HIDE DEF l, u
      <4> QED BY <1>4, <1>18, <2>1, <2>4, <3>1, IndexSpot
    <3>3. UnitBit(f, l, j) = base + j
      <4> HIDE DEF l, u
      <4> QED BY <2>4 DEF UnitBit
    <3> QED BY <1>4, <2>1, <3>2, <3>3
  <2> HIDE DEF u, W, l, base
  <2>6. ASSUME NEW k \in 0..Field[f].size - 1, NEW i \in 0..W - 1, UnitOf(f, Field[f].offset + k) # u
        PROVE  Spot(f, UnitBit(f, k, i)) \in mem' <=> Spot(f, UnitBit(f, k, i)) \in mem
    <3> DEFINE g == UnitOf(f, Field[f].offset + k)
               a == Field[Field[f].data].offset + i
    <3>1. k \in Nat
      BY <1>4, FieldTypes
    <3>2. Spot(f, UnitBit(f, k, i)) = <<Chosen(f, g), a>>
      BY <1>4, <2>1, <3>1, IndexSpot DEF W
    <3>3. Chosen(f, g) # sel
      <4>1. Spot(f, Field[f].offset + k)[1] = Chosen(f, g)
        BY <1>4, <2>1, SpotIs
      <4>2. Spot(f, Field[f].offset + l)[1] = sel
        BY <1>4, <2>1, <2>4, SpotIs
      <4>3. Spot(f, Field[f].offset + k)[1] # Spot(f, Field[f].offset + l)[1]
        BY <1>4, <2>1, <2>4, <2>6, IndexAssumption
      <4> QED BY <4>1, <4>2, <4>3
    <3> HIDE DEF g, a
    <3> QED BY <1>13, <3>2, <3>3
  <2>7. OuterOK(mem', z)
    <3>1. ASSUME NEW k \in 0..Field[f].size - 1, NEW i \in 0..W - 1, Over(z, k), Settled(f, UnitBit(f, k, i))
          PROVE  Spot(f, UnitBit(f, k, i)) \in mem' <=> Target(x, UnitBit(f, k, i))
      <4>1. Over(s, k) /\ UnitOf(f, Field[f].offset + k) # u
        BY <1>4, <1>8, <2>1, <3>1 DEF Over, x, u, f
      <4>2. Spot(f, UnitBit(f, k, i)) \in mem <=> Target(x, UnitBit(f, k, i))
        BY <1>3, <1>4, <2>2, <3>1, <4>1 DEF OuterOK, x, f, W
      <4> QED BY <2>6, <4>1, <4>2
    <3> QED BY <1>4, <1>8, <2>2, <2>3, <3>1 DEF OuterOK, f, W
  <2>8. /\ \A j \in 0..p - 1 : <<sel, off + j>> \in mem <=> j \in y.source
        /\ \A j \in 0..W - 1 :
             /\ Settled(f, base + j) => (j \in y.source <=> Target(x, base + j))
             /\ ~Inside(f, base + j) /\ Field[f].rule = "preserve"
                  => (j \in y.source <=> <<sel, off + j>> \in mem)
    BY <1>3, <1>4, <1>9, <2>1 DEF InnerOK, x, f, W, base, u, sel, off, p
  <2>9. ASSUME NEW j \in 0..W - 1
        PROVE  \/ j \in p..p + n - 1 /\ (<<sel, off + j>> \in mem' <=> j \in y.source)
               \/ j \notin p..p + n - 1 /\ (<<sel, off + j>> \in mem' <=> <<sel, off + j>> \in mem)
    <3>1. CASE j \in p..p + n - 1
      BY <1>2, <3>1
    <3>2. CASE j \notin p..p + n - 1
      <4>1. \A i \in p..p + n - 1 : <<sel, off + j>> # <<sel, off + i>>
        <5> SUFFICES ASSUME NEW i \in p..p + n - 1, off + j = off + i PROVE FALSE
          OBVIOUS
        <5>1. j \in Int /\ i \in Int
          OBVIOUS
        <5>2. j = i
          BY <1>5, <5>1
        <5> QED BY <3>2, <5>2
      <4> QED BY <1>2, <3>2, <4>1
    <3> QED BY <3>1, <3>2
  <2>10. InnerOK(mem', z)
    <3>1. \A j \in 0..d.progress - 1 : <<sel, off + j>> \in mem' <=> j \in y.source
      <4> SUFFICES ASSUME NEW j \in 0..d.progress - 1 PROVE <<sel, off + j>> \in mem' <=> j \in y.source
        OBVIOUS
      <4>1. j \in 0..W - 1 /\ (j \in 0..p - 1 \/ j \in p..p + n - 1)
        BY <1>4, <1>5, <1>6, <2>1
      <4> QED BY <2>8, <2>9, <4>1
    <3>2. \A j \in 0..W - 1 :
             /\ Settled(f, base + j) => (j \in y.source <=> Target(x, base + j))
             /\ ~Inside(f, base + j) /\ Field[f].rule = "preserve"
                  => (j \in y.source <=> <<sel, off + j>> \in mem')
      BY <2>8, <2>9
    <3>3. d.pc # "store" /\ d.op = "write" /\ d.source = y.source /\ Node(d).offset = off
      BY <1>4, <1>6, <1>9 DEF off
    <3> QED BY <1>4, <1>8, <1>14, <2>1, <2>2, <3>1, <3>2, <3>3 DEF InnerOK, f, W, base, u
  <2>11. ASSUME NEW e, e \notin Touched(f) PROVE e \in mem' <=> e \in mem
    <3>1. CASE \A j \in p..p + n - 1 : e # <<sel, off + j>>
      BY <1>2, <3>1
    <3>2. ASSUME NEW j \in p..p + n - 1, e = <<sel, off + j>> PROVE e \in mem' <=> e \in mem
      <4>1. j \in 0..W - 1
        BY <1>12, <2>1
      <4>2. e = Spot(f, UnitBit(f, l, j)) /\ UnitBit(f, l, j) = base + j
        BY <2>5, <3>2, <4>1
      <4>3. ~Inside(f, base + j) /\ Field[f].rule = "preserve"
        BY <1>4, <2>4, <2>11, <4>1, <4>2, UnitHome, HomeUnits DEF Touched, W
      <4>4. j \in y.source <=> <<sel, off + j>> \in mem
        BY <2>8, <4>1, <4>3
      <4> QED BY <1>2, <3>2, <4>4
    <3> QED BY <3>1, <3>2
  <2>12. Writing(t)
    BY <1>1, <2>2 DEF Writing, x, s
  <2> QED BY <1>16, <2>7, <2>10, <2>11, <2>12
<1> QED BY <1>11, <1>17, <1>18

\* A store in the field itself.
LEMMA StoreOwnMemory ==
  ASSUME FieldInv, MemoryInv, NEW t \in Threads, Calm(t), Store(t), Len(calls[t]) = 1
  PROVE  MemoryInv'
<1> DEFINE s == calls[t]
           c == Top(t)
           d == NextAccess(c)
           z == <<d>>
           f == c.field
           W == Width(f)
           p == c.progress
           n == AccessBits(c)
           base == ByteBits * c.offset
           sel == Sel(s)
<1>1. /\ s # <<>> /\ c \in CallType /\ CallOK(c) /\ More(c) /\ Direct(c) /\ c.pc = "store"
      /\ Replace(t, d) /\ Quiet
      /\ \A e, b : b \notin Alters(t) => (<<e, b>> \in mem' <=> <<e, b>> \in mem)
  BY StoreEffect
<1>2. PICK mask \in Masks(n) :
        /\ \A i \in 0..W - 1 : <<sel, base + i>> \in mem' <=> i \in Merged(c, c.value, mask)
        /\ \A e : (\A i \in 0..W - 1 : e # <<sel, base + i>>) => (e \in mem' <=> e \in mem)
  BY StoreEffect
<1>3. /\ c = s[1] /\ OuterOK(mem, s) /\ f \in Fields /\ f \in Public /\ Node(c) = Field[f] /\ p \in Nat
  BY <1>1, RunningStack, RunningMemory, CallFields DEF Node
<1>4. n \in Nat /\ n >= 1 /\ p + n <= Field[f].size /\ Field[f].size \in Nat
  <2>1. n \in 1..Width(c.field) - BitOffset(c) /\ n <= Field[f].size - p
    <3> HIDE DEF c
    <3> QED BY <1>1, <1>3, Geometry
  <2>2. n \in Nat /\ n >= 1
    <3> DEFINE h == Width(c.field) - BitOffset(c)
    <3> HIDE DEF n, h
    <3> QED BY <2>1 DEF h
  <2>3. Field[f].size \in Nat
    BY <1>3, FieldTypes
  <2> HIDE DEF n
  <2> QED BY <1>3, <2>1, <2>2, <2>3
<1>5. /\ d \in CallType /\ d.pc = "loop" /\ d.field = f /\ d.op = c.op /\ d.source = c.source
      /\ d.progress = p + n
  <2> HIDE DEF c
  <2> QED BY <1>1, NextType
<1>6. calls' = [calls EXCEPT ![t] = z]
  BY <1>1, <1>5, AfterReplace
<1>7. \A b : Spot(f, b) = <<sel, b>>
  BY <1>1, <1>3, TopCells
<1> HIDE DEF d
<1>8. z[1] = d /\ Len(z) = 1 /\ z # <<>>
  BY StackElements
<1>9. UNCHANGED <<ideal, raced>>
  BY <1>1 DEF Quiet
<1> HIDE DEF s, c, z, f, W, p, n, base, sel
<1>10. c.op = "write" /\ IF Node(c).rule = "preserve" THEN Current(mem, c) ELSE c.value = Background(c)
  BY <1>1, <1>3 DEF OuterOK
<1>11. Node(d) = Node(c) /\ \A b : Target(d, b) <=> Target(c, b)
  BY <1>3, <1>5 DEF Node, Target, f
<1>12. ASSUME NEW i \in 0..W - 1
       PROVE  /\ base + i = UnitBit(f, p, i) /\ p \in 0..Field[f].size - 1
              /\ Settled(f, base + i) => (i \in Merged(c, c.value, mask) <=> Target(c, base + i))
              /\ ~Inside(f, base + i) => (i \in Merged(c, c.value, mask) <=> i \in c.value)
  <2>1. i \in 0..Width(c.field) - 1
    BY DEF W, f
  <2>2. base + i = UnitBit(f, p, i) /\ p \in 0..Field[f].size - 1
    BY <1>1, <1>3, <2>1, AccessInside DEF base, f, p
  <2>3. mask \in Masks(AccessBits(c))
    BY <1>2 DEF n
  <2>4. /\ Settled(f, base + i) => (i \in Merged(c, c.value, mask) <=> Target(c, base + i))
        /\ ~Inside(f, base + i) => (i \in Merged(c, c.value, mask) <=> i \in c.value)
    BY <1>1, <1>10, <2>1, <2>3, MergedMeets DEF f, base
  <2> QED BY <2>2, <2>4
<1>13. ASSUME NEW k \in 0..Field[f].size - 1, NEW i \in 0..W - 1, k < p
       PROVE  Spot(f, UnitBit(f, k, i)) \in mem' <=> Spot(f, UnitBit(f, k, i)) \in mem
  <2> SUFFICES ASSUME NEW j \in 0..W - 1, Spot(f, UnitBit(f, k, i)) = <<sel, base + j>> PROVE FALSE
    BY <1>2
  <2>1. Spot(f, UnitBit(f, k, i)) = Spot(f, UnitBit(f, p, j)) /\ p \in 0..Field[f].size - 1
    BY <1>7, <1>12
  <2>2. UnitBit(f, k, i) = UnitBit(f, p, j)
    BY <1>3, <2>1, SpotInjective DEF W
  <2>3. k \in Nat
    BY <1>3, FieldTypes
  <2>4. UnitOf(f, Field[f].offset + k) = UnitOf(f, Field[f].offset + p)
    BY <1>3, <2>2, <2>3, UnitBitFacts DEF W
  <2>5. c.offset = UnitOf(f, Field[f].offset + p)
    BY <1>1, <1>3 DEF CallOK, Position, f, p
  <2>6. UnitOf(f, Field[f].offset + k) = c.offset <=> k >= p
    <3>1. k \in 0..c.progress + AccessBits(c) - 1
      <4>1. k \in 0..p + n - 1
        BY <1>3, <1>4, <1>13, <2>3
      <4> QED BY <4>1 DEF p, n
    <3>2. UnitOf(c.field, Node(c).offset + k) = c.offset <=> k >= c.progress
      BY <1>1, <3>1, AccessUnits
    <3> QED BY <1>3, <3>2 DEF f, p
  <2>7. k >= p
    BY <2>4, <2>5, <2>6
  <2> QED BY <1>3, <1>13, <2>3, <2>7
<1>14. ASSUME NEW k \in 0..Field[f].size - 1, NEW i \in 0..W - 1, k < p + n, Settled(f, UnitBit(f, k, i))
       PROVE  Spot(f, UnitBit(f, k, i)) \in mem' <=> Target(c, UnitBit(f, k, i))
  <2>1. k \in Nat
    BY <1>3, FieldTypes
  <2>2. CASE k < p
    <3>1. Over(s, k)
      <4>1. ~Transfers(s)
        BY DEF Transfers, s
      <4> QED BY <1>3, <2>2, <4>1 DEF Over, p
    <3>2. Spot(f, UnitBit(f, k, i)) \in mem <=> Target(c, UnitBit(f, k, i))
      BY <1>3, <1>10, <1>14, <3>1 DEF OuterOK, f, W
    <3> QED BY <1>13, <2>2, <3>2
  <2>3. CASE k >= p
    <3>1. UnitOf(f, Field[f].offset + k) = c.offset
      <4>1. k \in 0..c.progress + AccessBits(c) - 1
        <5>1. k \in 0..p + n - 1
          BY <1>3, <1>4, <1>14, <2>1
        <5> QED BY <5>1 DEF p, n
      <4>2. UnitOf(c.field, Node(c).offset + k) = c.offset <=> k >= c.progress
        BY <1>1, <4>1, AccessUnits
      <4> QED BY <1>3, <2>3, <4>2 DEF f, p
    <3>2. UnitBit(f, k, i) = base + i
      BY <3>1 DEF UnitBit, base
    <3>3. Spot(f, base + i) = <<sel, base + i>>
      BY <1>7
    <3> QED BY <1>2, <1>12, <1>14, <3>2, <3>3
  <2> QED BY <1>3, <2>1, <2>2, <2>3
<1>15. OuterOK(mem', z)
  <2>1. \A k : Over(z, k) => k < p + n
    BY <1>5, <1>8 DEF Over
  <2> QED BY <1>3, <1>5, <1>8, <1>10, <1>11, <1>14, <2>1 DEF OuterOK, W
<1>16. ASSUME NEW e, e \notin Touched(f) PROVE e \in mem' <=> e \in mem
  <2>1. CASE \A i \in 0..W - 1 : e # <<sel, base + i>>
    BY <1>2, <2>1
  <2>2. ASSUME NEW i \in 0..W - 1, e = <<sel, base + i>> PROVE e \in mem' <=> e \in mem
    <3>1. e = Spot(f, UnitBit(f, p, i)) /\ UnitBit(f, p, i) = base + i /\ e = Spot(f, base + i)
      BY <1>7, <1>12, <2>2
    <3>2. ~Inside(f, base + i) /\ Field[f].rule = "preserve"
      BY <1>3, <1>12, <1>16, <3>1, UnitHome, HomeUnits DEF Touched, W
    <3>3. i \in c.value <=> e \in mem
      <4>1. Current(mem, c)
        BY <1>3, <1>10, <3>2
      <4>2. i \in c.value <=> Spot(f, base + i) \in mem
        BY <4>1 DEF Current, f, W, base
      <4> QED BY <3>1, <4>2
    <3> QED BY <1>2, <1>12, <2>2, <3>2, <3>3
  <2> QED BY <2>1, <2>2
<1>17. z[1].field = calls[t][1].field /\ z[1].op = calls[t][1].op
  BY <1>3, <1>5, <1>8 DEF s, f
<1>18. Writing(t)
  BY <1>1, <1>3, <1>10 DEF Writing, s
<1>19. Agrees'
  BY <1>1, <1>3, <1>6, <1>8, <1>9, <1>16, <1>17, <1>18, AgreesKept DEF s, f
<1>20. Faithful(mem', z)
  <2>1. Len(z) # 2
    BY <1>8
  <2> QED BY <1>15, <2>1 DEF Faithful
<1> QED BY <1>1, <1>6, <1>9, <1>17, <1>19, <1>20, MemoryAdvance DEF s

LEMMA StoreMemory ==
  ASSUME FieldInv, MemoryInv, NEW t \in Threads, Calm(t), Store(t)
  PROVE  MemoryInv'
<1>1. calls[t] # <<>>
  BY StoreEffect
<1> QED BY <1>1, RunningMemory, StoreOwnMemory, StoreInnerMemory

(***************************************************************************)
(* The beginning and the end of an operation.                              *)
(***************************************************************************)
\* A bit of an access is one of the field if it is at the same place.
LEMMA HomeBit ==
  ASSUME NEW f \in Fields, NEW k \in 0..Field[f].size - 1, NEW i \in 0..Width(f) - 1,
         NEW l \in 0..Field[f].size - 1,
         Spot(f, UnitBit(f, k, i)) = Spot(f, Field[f].offset + l)
  PROVE  /\ UnitBit(f, k, i) = Field[f].offset + l /\ Inside(f, UnitBit(f, k, i))
         /\ UnitBit(f, k, i) - Field[f].offset = l
<1> DEFINE off == Field[f].offset
           size == Field[f].size
<1>1. l \in Nat /\ off \in Nat /\ size \in Nat
  BY FieldTypes
<1>2. PICK j \in 0..Width(f) - 1 : UnitBit(f, l, j) = off + l
  BY <1>1, OwnUnit
<1>3. UnitBit(f, k, i) = off + l
  BY <1>2, SpotInjective
<1>4. off + l \in off..off + size - 1 /\ (off + l) - off = l
  <2>1. l \in 0..size - 1
    OBVIOUS
  <2> HIDE DEF off, size
  <2> QED BY <1>1, <2>1
<1> HIDE DEF off, size
<1> QED BY <1>3, <1>4 DEF Inside, off, size

\* A write as a whole changes what it determines.
LEMMA IdealElsewhere ==
  ASSUME NEW f \in Fields, NEW v \in SUBSET Nat, NEW x, x \notin Touched(f)
  PROVE  x \in Ideal(f, v) <=> x \in ideal
<1>1. Field[f].rule \in {"preserve", "ones", "zeroes"} /\ Field[f].size \in Nat
  BY FieldTypes DEF Rules
<1>2. x \notin Home(f) /\ Home(f) \subseteq Units(f)
  BY HomeUnits
<1>3. \A i \in {j \in v : j < Field[f].size} : x # Spot(f, Field[f].offset + i)
  <2> DEFINE size == Field[f].size
  <2>1. \A i \in {j \in v : j < size} : i \in 0..size - 1
    <3> HIDE DEF size
    <3> QED BY <1>1 DEF size
  <2>2. \A i \in 0..size - 1 : x # Spot(f, Field[f].offset + i)
    BY <1>2 DEF Home
  <2> QED BY <2>1, <2>2
<1>4. x \notin {Spot(f, Field[f].offset + i) : i \in {j \in v : j < Field[f].size}}
  BY <1>3
<1> DEFINE some == {Spot(f, Field[f].offset + i) : i \in {j \in v : j < Field[f].size}}
           kept == CASE Field[f].rule = "preserve" -> ideal \ Home(f)
                     [] Field[f].rule = "ones" -> (ideal \ Home(f)) \cup (Units(f) \ Home(f))
                     [] Field[f].rule = "zeroes" -> ideal \ Units(f)
<1>5. Ideal(f, v) = kept \cup some
  BY DEF Ideal
<1>6. Field[f].rule # "preserve" => x \notin Units(f)
  BY DEF Touched
<1>7. x \in kept <=> x \in ideal
  <2>1. CASE Field[f].rule = "preserve"
    BY <1>2, <2>1
  <2>2. CASE Field[f].rule = "ones"
    BY <1>2, <1>6, <2>2
  <2>3. CASE Field[f].rule = "zeroes"
    BY <1>6, <2>3
  <2> QED BY <1>1, <2>1, <2>2, <2>3
<1> HIDE DEF some, kept
<1> QED BY <1>4, <1>5, <1>7 DEF some

\* It leaves in the accesses of the field what their stores are to leave there.
LEMMA IdealMeets ==
  ASSUME NEW f \in Fields, NEW v \in SUBSET Nat, NEW k \in 0..Field[f].size - 1,
         NEW i \in 0..Width(f) - 1,
         Inside(f, UnitBit(f, k, i)) \/ Field[f].rule # "preserve"
  PROVE  Spot(f, UnitBit(f, k, i)) \in Ideal(f, v)
           <=> IF Inside(f, UnitBit(f, k, i)) THEN UnitBit(f, k, i) - Field[f].offset \in v
               ELSE Field[f].rule = "ones"
<1> DEFINE b == UnitBit(f, k, i)
           x == Spot(f, b)
           off == Field[f].offset
           size == Field[f].size
           some == {Spot(f, off + l) : l \in {j \in v : j < size}}
           kept == CASE Field[f].rule = "preserve" -> ideal \ Home(f)
                     [] Field[f].rule = "ones" -> (ideal \ Home(f)) \cup (Units(f) \ Home(f))
                     [] Field[f].rule = "zeroes" -> ideal \ Units(f)
<1>1. Field[f].rule \in {"preserve", "ones", "zeroes"} /\ size \in Nat /\ off \in Nat
  BY FieldTypes DEF Rules
<1>2. x \in Units(f) /\ Home(f) \subseteq Units(f) /\ (Inside(f, b) => x \in Home(f))
  BY UnitHome, HomeUnits
<1>3. Ideal(f, v) = kept \cup some
  BY DEF Ideal
<1>4. ASSUME NEW l \in 0..size - 1, x = Spot(f, off + l) PROVE b = off + l /\ Inside(f, b) /\ b - off = l
  BY <1>4, HomeBit
<1>5. \A l \in {j \in v : j < size} : l \in 0..size - 1
  <2> HIDE DEF size
  <2> QED BY <1>1
<1>6. b \in Nat
  <2>1. k \in Nat
    BY FieldTypes
  <2> QED BY <2>1, UnitBitFacts
<1> HIDE DEF b, x, off, size, kept
<1>7. CASE Inside(f, b)
  <2> DEFINE l == b - off
  <2>1. b \in off..off + size - 1
    BY <1>7 DEF Inside, off, size
  <2>2. l \in 0..size - 1 /\ off + l = b /\ l < size
    BY <1>1, <1>6, <2>1
  <2>3. x \notin kept
    BY <1>1, <1>2, <1>7 DEF kept
  <2> HIDE DEF l
  <2>4. ASSUME l \in v PROVE x \in some
    BY <2>2, <2>4 DEF x
  <2>5. ASSUME x \in some PROVE l \in v
    <3>1. PICK m \in {j \in v : j < size} : x = Spot(f, off + m)
      BY <2>5
    <3>2. b - off = m
      BY <1>4, <1>5, <3>1
    <3> QED BY <3>1, <3>2 DEF l
  <2>6. x \in Ideal(f, v) <=> l \in v
    BY <1>3, <2>3, <2>4, <2>5
  <2> QED BY <1>7, <2>6 DEF l, b, x, off
<1>8. CASE ~Inside(f, b)
  <2>1. x \notin Home(f)
    <3> SUFFICES ASSUME x \in Home(f) PROVE FALSE
      OBVIOUS
    <3>1. PICK l \in 0..size - 1 : x = Spot(f, off + l)
      BY DEF Home, size, off
    <3> QED BY <1>4, <1>8, <3>1
  <2>2. x \notin some
    <3> SUFFICES ASSUME x \in some PROVE FALSE
      OBVIOUS
    <3>1. PICK l \in {j \in v : j < size} : x = Spot(f, off + l)
      OBVIOUS
    <3> QED BY <1>4, <1>5, <1>8, <3>1
  <2>3. Field[f].rule # "preserve"
    BY <1>8 DEF b
  <2> HIDE DEF some
  <2>4. x \in kept <=> Field[f].rule = "ones"
    <3>1. CASE Field[f].rule = "ones"
      BY <1>2, <2>1, <3>1 DEF kept
    <3>2. CASE Field[f].rule = "zeroes"
      BY <1>2, <3>2 DEF kept
    <3> QED BY <1>1, <2>3, <3>1, <3>2
  <2>5. x \in Ideal(f, v) <=> Field[f].rule = "ones"
    BY <1>3, <2>2, <2>4
  <2> QED BY <1>8, <2>5 DEF b, x
<1> QED BY <1>7, <1>8

\* The cells that a write determines are those of its accesses: where it is to leave
\* something, an access that is over did.
LEMMA TouchedSettled ==
  ASSUME NEW f \in Public, f \in Fields, NEW x \in Touched(f), x \notin Vague
  PROVE  \E k \in 0..Field[f].size - 1, i \in 0..Width(f) - 1 :
            /\ x = Spot(f, UnitBit(f, k, i)) /\ Settled(f, UnitBit(f, k, i))
            /\ Inside(f, UnitBit(f, k, i)) \/ Field[f].rule # "preserve"
<1>1. x \in Units(f)
  BY HomeUnits DEF Touched
<1>2. PICK k \in 0..Field[f].size - 1, i \in 0..Width(f) - 1 : x = Spot(f, UnitBit(f, k, i))
  BY <1>1 DEF Units, UnitBit
<1> DEFINE b == UnitBit(f, k, i)
<1>3. ASSUME Inside(f, b) PROVE ~Wide(f)
  <2> SUFFICES ASSUME Wide(f) PROVE FALSE
    OBVIOUS
  <2>1. x \in Home(f)
    BY <1>2, <1>3, UnitHome
  <2>2. x \in UNION {Home(g) : g \in {h \in Public : Wide(h)}}
    BY <2>1
  <2> QED BY <2>2 DEF Vague
<1>4. ASSUME ~Inside(f, b) PROVE Field[f].rule # "preserve"
  <2> SUFFICES ASSUME Field[f].rule = "preserve" PROVE FALSE
    OBVIOUS
  <2>1. PICK l \in 0..Field[f].size - 1 : x = Spot(f, Field[f].offset + l)
    BY DEF Touched, Home
  <2>2. Inside(f, b)
    BY <1>2, <2>1, HomeBit
  <2> QED BY <1>4, <2>2
<1> QED BY <1>2, <1>3, <1>4 DEF Settled

\* The cells that an operation touches are in its footprint.
LEMMA TouchedFootprint ==
  ASSUME NEW f \in Fields, NEW x \in Touched(f)
  PROVE  \E y, b : x = <<y, b>> /\ b \in Footprint(f)
<1>1. x \in Units(f)
  BY HomeUnits DEF Touched
<1>2. PICK k \in 0..Field[f].size - 1, i \in 0..Width(f) - 1 : x = Spot(f, UnitBit(f, k, i))
  BY <1>1 DEF Units, UnitBit
<1>3. PICK y, b : x = <<y, b>> /\ b \in Accessed(Window(f))
  BY <1>2, SpotAddress
<1>4. Accessed(Window(f)) \subseteq Footprint(f)
  <2>1. CASE Field[f].kind # "indexfield"
    BY <2>1, AccessedFootprint DEF Window
  <2>2. CASE Field[f].kind = "indexfield"
    BY <2>2, RegisterOfKind, RegisterFacts
  <2> QED BY <2>1, <2>2
<1> QED BY <1>3, <1>4

LEMMA FinishMemory ==
  ASSUME FieldInv, MemoryInv, NEW t \in Threads, Calm(t), Finish(t)
  PROVE  MemoryInv'
<1> DEFINE s == calls[t]
           c == Top(t)
           f == c.field
<1>1. /\ s # <<>> /\ c.pc = "loop" /\ ~More(c) /\ Len(s) = 1 /\ mem' = mem /\ raced' = raced
      /\ calls' = [calls EXCEPT ![t] = <<>>]
      /\ ideal' = IF c.op = "write" THEN Ideal(f, c.source) ELSE ideal
  BY DEF Finish, Running, Finished
<1>2. /\ c = s[1] /\ OuterOK(mem, s) /\ f \in Fields /\ f \in Public /\ Node(c) = Field[f]
      /\ c.progress \in Nat /\ c.source \in SUBSET Nat
  BY <1>1, RunningStack, RunningMemory, CallFields DEF Node
<1>3. ~More(c) /\ Len(s) # 2
  BY <1>1
<1> HIDE DEF s, c, f
<1>4. \A k \in 0..Field[f].size - 1 : Over(s, k)
  <2> SUFFICES ASSUME NEW k \in 0..Field[f].size - 1 PROVE Over(s, k)
    OBVIOUS
  <2>1. Field[f].size \in Nat
    BY <1>2, FieldTypes
  <2>2. ~(c.progress < Field[f].size)
    BY <1>2, <1>3 DEF More
  <2>3. k < c.progress
    BY <1>2, <2>1, <2>2
  <2>4. ~Transfers(s)
    BY <1>3 DEF Transfers
  <2> QED BY <1>2, <2>3, <2>4 DEF Over
<1>5. calls'[t] = <<>> /\ \A u \in Threads \ {t} : calls'[u] = calls[u]
  BY <1>1 DEF FieldInv, Types
<1>6. Agrees'
  <2> SUFFICES ASSUME NEW x, x \notin Vague, x[2] \notin raced',
                      \A u \in Threads : Writing(u)' => x \notin Touched(calls'[u][1].field)
               PROVE  x \in mem' <=> x \in ideal'
    BY DEF Agrees
  <2>1. \A u \in Threads \ {t} : Writing(u) => x \notin Touched(calls[u][1].field)
    BY <1>5 DEF Writing
  <2>2. (Writing(t) => x \notin Touched(f)) => (x \in mem <=> x \in ideal)
    <3> SUFFICES ASSUME Writing(t) => x \notin Touched(f) PROVE x \in mem <=> x \in ideal
      OBVIOUS
    <3>1. \A u \in Threads : Writing(u) => x \notin Touched(calls[u][1].field)
      BY <1>2, <2>1 DEF s, f
    <3> QED BY <1>1, <3>1 DEF MemoryInv, Agrees
  <2>3. Writing(t) <=> c.op = "write"
    BY <1>1, <1>2 DEF Writing, s
  <2>4. CASE c.op # "write"
    BY <1>1, <2>2, <2>3, <2>4
  <2>5. CASE c.op = "write" /\ x \notin Touched(f)
    BY <1>1, <1>2, <2>2, <2>5, IdealElsewhere
  <2>6. CASE c.op = "write" /\ x \in Touched(f)
    <3>1. PICK k \in 0..Field[f].size - 1, i \in 0..Width(f) - 1 :
            /\ x = Spot(f, UnitBit(f, k, i)) /\ Settled(f, UnitBit(f, k, i))
            /\ Inside(f, UnitBit(f, k, i)) \/ Field[f].rule # "preserve"
      BY <1>2, <2>6, TouchedSettled
    <3>2. x \in mem <=> Target(c, UnitBit(f, k, i))
      BY <1>2, <1>4, <2>6, <3>1 DEF OuterOK, f
    <3>3. x \in Ideal(f, c.source)
            <=> IF Inside(f, UnitBit(f, k, i)) THEN UnitBit(f, k, i) - Field[f].offset \in c.source
                ELSE Field[f].rule = "ones"
      BY <1>2, <3>1, IdealMeets
    <3>4. Target(c, UnitBit(f, k, i))
            <=> IF Inside(f, UnitBit(f, k, i)) THEN UnitBit(f, k, i) - Field[f].offset \in c.source
                ELSE Field[f].rule = "ones"
      BY <1>2 DEF Target, f
    <3> QED BY <1>1, <2>6, <3>2, <3>3, <3>4
  <2> QED BY <2>4, <2>5, <2>6
<1>8. \A x, b : b \notin Alters(t) => (<<x, b>> \in mem' <=> <<x, b>> \in mem)
  BY <1>1
<1>9. Faithful(mem', <<>>)
  BY DEF Faithful
<1> QED BY <1>1, <1>6, <1>8, <1>9, MemoryAdvance

\* A step of a thread that races changes only what races.
LEMMA WildMemory ==
  ASSUME FieldInv, MemoryInv, NEW t \in Threads, ~Calm(t), Step(t)
  PROVE  MemoryInv'
<1>1. PICK s : Advance(t, s)
  BY StepAdvances DEF Advances
<1>2. /\ calls[t] # <<>> /\ calls' = [calls EXCEPT ![t] = s] /\ raced' = raced
      /\ s # <<>> => s[1].field = calls[t][1].field /\ s[1].op = calls[t][1].op
      /\ \A x, b : b \notin Alters(t) => (<<x, b>> \in mem' <=> <<x, b>> \in mem)
      /\ mem \subseteq (SUBSET Nat) \X Nat /\ mem' \subseteq (SUBSET Nat) \X Nat
  BY <1>1 DEF Advance, FieldInv, Types
<1>3. calls'[t] = s /\ \A u \in Threads \ {t} : calls'[u] = calls[u]
  BY <1>2 DEF FieldInv, Types
<1>4. Alters(t) \subseteq raced
  BY DEF FieldInv, Contained
<1>5. ASSUME NEW x, x[2] \notin raced PROVE x \in mem' <=> x \in mem
  <2>1. \A y \in (SUBSET Nat) \X Nat : y = <<y[1], y[2]>>
    OBVIOUS
  <2>2. x \in mem \/ x \in mem' => x = <<x[1], x[2]>>
    BY <1>2, <2>1
  <2>3. <<x[1], x[2]>> \in mem' <=> <<x[1], x[2]>> \in mem
    BY <1>2, <1>4, <1>5
  <2> QED BY <2>2, <2>3
<1>6. ASSUME NEW x, x[2] \notin raced, Writing(t) PROVE x \notin Touched(calls[t][1].field)
  <2> SUFFICES ASSUME x \in Touched(calls[t][1].field) PROVE FALSE
    OBVIOUS
  <2>1. calls[t][1].field \in Fields
    BY <1>2, RunningStack, CallFields
  <2>2. Alters(t) = Footprint(calls[t][1].field)
    BY <1>2, <1>6 DEF Alters, Altered, Writing
  <2>3. PICK y, b : x = <<y, b>> /\ b \in Footprint(calls[t][1].field)
    BY <2>1, TouchedFootprint
  <2> QED BY <1>4, <1>6, <2>2, <2>3
<1>7. ASSUME NEW x, x[2] \notin raced PROVE x \in ideal' <=> x \in ideal
  <2>1. CASE Finish(t)
    <3> DEFINE c == Top(t)
    <3>1. /\ c = calls[t][1] /\ c.field \in Fields /\ c.source \in SUBSET Nat
          /\ ideal' = IF c.op = "write" THEN Ideal(c.field, c.source) ELSE ideal
      <4>1. Len(calls[t]) = 1 /\ ideal' = IF c.op = "write" THEN Ideal(c.field, c.source) ELSE ideal
        BY <2>1 DEF Finish
      <4> QED BY <1>2, <4>1, RunningStack, CallFields
    <3>2. c.op = "write" => x \notin Touched(c.field)
      BY <1>2, <1>6, <1>7, <3>1 DEF Writing
    <3> HIDE DEF c
    <3> QED BY <3>1, <3>2, IdealElsewhere
  <2>2. CASE ~Finish(t)
    <3>1. Quiet
      BY <2>2 DEF Step, SelectBank, Fetch, Fill, Store, SelectToRead, FetchData, Fetched,
                  SelectToWrite, StoreData, Return
    <3> QED BY <3>1 DEF Quiet
  <2> QED BY <2>1, <2>2
<1>8. Agrees'
  <2> SUFFICES ASSUME NEW x, x \notin Vague, x[2] \notin raced',
                      \A u \in Threads : Writing(u)' => x \notin Touched(calls'[u][1].field)
               PROVE  x \in mem' <=> x \in ideal'
    BY DEF Agrees
  <2>1. x[2] \notin raced
    BY <1>2
  <2>2. \A u \in Threads : Writing(u) => x \notin Touched(calls[u][1].field)
    <3> SUFFICES ASSUME NEW u \in Threads, Writing(u) PROVE x \notin Touched(calls[u][1].field)
      OBVIOUS
    <3>1. CASE u = t
      BY <1>6, <2>1, <3>1
    <3>2. CASE u # t
      BY <1>3, <3>2 DEF Writing
    <3> QED BY <3>1, <3>2
  <2> QED BY <1>5, <1>7, <2>1, <2>2 DEF MemoryInv, Agrees
<1> QED BY <1>2, <1>8, MemoryAdvance

\* An operation begins: what races grows, and nothing else changes.
LEMMA BeginMemory ==
  ASSUME FieldInv, MemoryInv, NEW t \in Threads, calls[t] = <<>>, NEW f \in Public, f \in Fields,
         NEW op \in {"read", "write"}, NEW v \in SUBSET Nat, Begin(t, f, op, v),
         UNCHANGED <<mem, ideal>>, done' \in 0..MaxOperations
  PROVE  MemoryInv'
<1> DEFINE c == Call(f, op, v)
           z == <<c>>
<1>1. calls' = [calls EXCEPT ![t] = z] /\ raced \subseteq raced'
  BY BeginKeeps DEF Begin
<1>2. /\ c \in CallType /\ c.field = f /\ Node(c) = Field[f] /\ c.progress = 0
      /\ c.pc = (IF Field[f].kind = "bankfield" THEN "bank" ELSE "loop")
  BY CallBegins
<1> HIDE DEF c
<1>3. z[1] = c /\ Len(z) = 1 /\ z # <<>>
  BY StackElements
<1> HIDE DEF z
<1>4. calls'[t] = z /\ \A u \in Threads \ {t} : calls'[u] = calls[u]
  BY <1>1 DEF FieldInv, Types
<1>5. \A k \in 0..Field[f].size - 1 : ~Over(z, k)
  <2> DEFINE size == Field[f].size
  <2>1. size \in Nat
    BY FieldTypes
  <2> HIDE DEF size
  <2>2. \A k \in 0..size - 1 : ~(k < 0)
    BY <2>1
  <2> QED BY <1>2, <1>3, <2>2 DEF Over, size
<1>6. OuterOK(mem, z)
  BY <1>2, <1>3, <1>5 DEF OuterOK
<1>7. ASSUME NEW u \in Threads, Calm(u)' PROVE Faithful(mem', calls'[u])
  <2>1. CASE u = t
    BY <1>3, <1>4, <1>6, <2>1 DEF Faithful
  <2>2. CASE u # t
    <3>1. Busy(u)' = Busy(u) /\ calls'[u] = calls[u]
      BY <1>4, <2>2 DEF Busy
    <3>2. Calm(u)
      BY <1>1, <1>7, <3>1 DEF Calm
    <3> QED BY <3>1, <3>2 DEF MemoryInv
  <2> QED BY <2>1, <2>2
<1>8. Agrees'
  <2> SUFFICES ASSUME NEW x, x \notin Vague, x[2] \notin raced',
                      \A u \in Threads : Writing(u)' => x \notin Touched(calls'[u][1].field)
               PROVE  x \in mem' <=> x \in ideal'
    BY DEF Agrees
  <2>1. ASSUME NEW u \in Threads, Writing(u)
        PROVE  Writing(u)' /\ calls'[u][1].field = calls[u][1].field
    BY <1>4, <2>1 DEF Writing
  <2>2. \A u \in Threads : Writing(u) => x \notin Touched(calls[u][1].field)
    BY <2>1
  <2> QED BY <1>1, <2>2 DEF MemoryInv, Agrees
<1>9. \A u \in Threads : (Calm(u) => Faithful(mem, calls[u]))'
  BY <1>7
<1> QED BY <1>8, <1>9 DEF MemoryInv

LEMMA StartMemory ==
  ASSUME FieldInv, MemoryInv, NEW t \in Threads, NEW f \in Public, f \in Fields,
         NEW op \in {"read", "write"}, NEW v \in SUBSET Nat,
         Start(t, f, op, v) \/ UseBuffer(t, f, op, v)
  PROVE  MemoryInv'
<1>1. UNCHANGED <<mem, ideal>> /\ calls[t] = <<>> /\ done' = done + 1 /\ done < MaxOperations
  BY DEF Start, UseBuffer
<1>2. done' \in 0..MaxOperations
  BY <1>1, WidthsAssumption DEF FieldInv, Types
<1>3. UNCHANGED <<calls, raced>> \/ Begin(t, f, op, v)
  BY DEF Start, UseBuffer
<1>4. CASE UNCHANGED <<calls, raced>>
  BY <1>1, <1>4 DEF MemoryInv, Agrees, Writing, Calm, Busy
<1> QED BY <1>1, <1>2, <1>3, <1>4, BeginMemory

LEMMA CalmStep ==
  ASSUME FieldInv, MemoryInv, NEW t \in Threads, Calm(t), Step(t)
  PROVE  MemoryInv'
<1>1. CASE SelectBank(t)
  BY <1>1, SelectBankMemory
<1>2. CASE Fetch(t)
  BY <1>2, FetchMemory
<1>3. CASE Fill(t)
  BY <1>3, FillMemory
<1>4. CASE Store(t)
  BY <1>4, StoreMemory
<1>5. CASE SelectToRead(t) \/ SelectToWrite(t)
  BY <1>5, SelectMemory
<1>6. CASE FetchData(t)
  BY <1>6, FetchDataMemory
<1>7. CASE Fetched(t)
  BY <1>7, FetchedMemory
<1>8. CASE StoreData(t)
  BY <1>8, StoreDataMemory
<1>9. CASE Return(t)
  BY <1>9, ReturnMemory
<1>10. CASE Finish(t)
  BY <1>10, FinishMemory
<1> QED BY <1>1, <1>2, <1>3, <1>4, <1>5, <1>6, <1>7, <1>8, <1>9, <1>10 DEF Step

LEMMA MemoryStep ==
  ASSUME FieldInv, MemoryInv, NEW t \in Threads, Step(t)
  PROVE  MemoryInv'
BY CalmStep, WildMemory

LEMMA MemoryNext ==
  ASSUME FieldInv, MemoryInv, [Next]_vars
  PROVE  MemoryInv'
<1>1. CASE \E t \in Threads : Step(t)
  BY <1>1, MemoryStep
<1>2. CASE \E t \in Threads, f \in Public :
             \/ Start(t, f, "read", {}) \/ UseBuffer(t, f, "read", {})
             \/ \E v \in Sources : Start(t, f, "write", v) \/ UseBuffer(t, f, "write", v)
  <2>1. \A v \in Sources : v \in SUBSET Nat
    <3> DEFINE S == 1..WordBits - 1
    <3>1. S \in SUBSET Nat /\ {0} \in SUBSET Nat
      BY WidthsAssumption
    <3>2. Sources = {{0}, S}
      BY DEF Sources
    <3> HIDE DEF S
    <3> QED BY <3>1, <3>2
  <2>2. PICK t \in Threads, f \in Public :
             \/ Start(t, f, "read", {}) \/ UseBuffer(t, f, "read", {})
             \/ \E v \in Sources : Start(t, f, "write", v) \/ UseBuffer(t, f, "write", v)
    BY <1>2
  <2>3. f \in Fields
    BY DEF Public
  <2>4. CASE Start(t, f, "read", {}) \/ UseBuffer(t, f, "read", {})
    <3> DEFINE v == {}
               op == "read"
    <3>1. v \in SUBSET Nat /\ op \in {"read", "write"} /\ (Start(t, f, op, v) \/ UseBuffer(t, f, op, v))
      BY <2>4
    <3> HIDE DEF v, op
    <3> QED BY <2>3, <3>1, StartMemory
  <2>5. CASE \E v \in Sources : Start(t, f, "write", v) \/ UseBuffer(t, f, "write", v)
    BY <2>1, <2>3, <2>5, StartMemory
  <2> QED BY <2>2, <2>4, <2>5
<1>3. CASE UNCHANGED vars
  BY <1>3 DEF MemoryInv, Agrees, Writing, Calm, Busy, vars
<1> QED BY <1>1, <1>2, <1>3 DEF Next

LEMMA MemoryHolds == Spec => []MemoryInv
<1>1. Init => MemoryInv
  <2> SUFFICES ASSUME Init PROVE MemoryInv
    OBVIOUS
  <2>1. mem = ideal /\ \A t \in Threads : calls[t] = <<>>
    BY DEF Init
  <2> QED BY <2>1 DEF MemoryInv, Agrees, Faithful
<1>2. MemoryInv /\ FieldInv /\ [Next]_vars => MemoryInv'
  BY MemoryNext
<1> QED BY <1>1, <1>2, InvHolds, PTL DEF Spec

\* Every field that does not race keeps its bits while others are written, even in the
\* middle of a write that reads and stores the bytes around it, and whatever operations
\* race elsewhere: for fields of any layout, with any rules, behind any registers, and
\* any number of threads.
THEOREM NeighboursAreKept == Spec => []NeighboursKept
<1>1. MemoryInv => NeighboursKept
  <2> DEFINE written == UNION {Touched(calls[t][1].field) : t \in {u \in Threads : Writing(u)}}
  <2> SUFFICES ASSUME MemoryInv, NEW home \in Homes, home \cap written = {},
                      \A x \in home : x[2] \notin raced
               PROVE  home \cap mem = home \cap ideal
    BY DEF NeighboursKept
  <2>1. home \cap Vague = {}
    BY DEF Homes
  <2>2. \A x \in home, t \in Threads : Writing(t) => x \notin Touched(calls[t][1].field)
    OBVIOUS
  <2>3. \A x \in home : x \in mem <=> x \in ideal
    BY <2>1, <2>2 DEF MemoryInv, Agrees
  <2> QED BY <2>3
<1> QED BY <1>1, MemoryHolds, PTL

\* An operation that does not race with another one reads what the last write of its
\* field stored, whatever the accesses that both took, whatever ran in between and
\* whatever races elsewhere: for fields of any layout whose masks are defined, and
\* buffer fields that begin with a byte.
THEOREM ReadsAreExact == Spec => []ReadsReturnWhatWasStored
<1>1. FieldInv /\ MemoryInv => ReadsReturnWhatWasStored
  <2> SUFFICES ASSUME FieldInv, MemoryInv, NEW t \in Threads, calls[t] # <<>>, Calm(t),
                      Len(calls[t]) = 1, calls[t][1].op = "read", Finished(calls[t][1]),
                      Home(calls[t][1].field) \cap Vague = {}, ~Shiftless(calls[t][1].field)
               PROVE  calls[t][1].dest = Slice(ideal, calls[t][1].field)
    BY DEF ReadsReturnWhatWasStored
  <2> DEFINE c == calls[t][1]
             f == c.field
             size == Field[f].size
  <2>1. /\ c \in CallType /\ CallOK(c) /\ OuterOK(mem, calls[t]) /\ f \in Fields /\ f \in Public
        /\ Node(c) = Field[f] /\ c.progress \in Nat /\ Busy(t) = Footprint(f)
    BY RunningStack, RunningMemory, CallFields DEF Node
  <2>2. ~More(c) /\ size \in Nat /\ size >= 1
    BY <2>1, FieldTypes DEF Finished
  <2>3. c.progress = size /\ c.dest \subseteq 0..size - 1
    <3>1. c.progress <= size /\ ~(c.progress < size) /\ c.dest \subseteq 0..c.progress - 1
      BY <2>1, <2>2 DEF CallOK, More
    <3> HIDE DEF c, size
    <3>2. c.progress = size
      BY <2>1, <2>2, <3>1
    <3> QED BY <3>1, <3>2
  <2>4. \A k \in 0..size - 1 : Spot(f, Field[f].offset + k) \in Home(f)
    BY DEF Home
  <2>5. ~Wide(f)
    <3> SUFFICES ASSUME Wide(f) PROVE FALSE
      OBVIOUS
    <3>1. Spot(f, Field[f].offset + 0) \in Home(f)
      BY <2>2, <2>4
    <3>2. Home(f) \subseteq UNION {Home(g) : g \in {h \in Public : Wide(h)}}
      BY <2>1
    <3> QED BY <3>1, <3>2 DEF Vague
  <2>6. \A k \in 0..size - 1 : k \in c.dest <=> Spot(f, Field[f].offset + k) \in mem
    BY <2>1, <2>3, <2>5 DEF OuterOK
  <2>7. ASSUME NEW x \in Home(f) PROVE x \in mem <=> x \in ideal
    <3>1. PICK y, b : x = <<y, b>> /\ b \in Busy(t)
      <4>1. x \in Touched(f)
        BY <2>1, HomeUnits
      <4> QED BY <2>1, <4>1, TouchedFootprint
    <3>2. x[2] \notin raced
      BY <3>1 DEF Calm
    <3>3. ASSUME NEW u \in Threads, Writing(u), x \in Touched(calls[u][1].field) PROVE FALSE
      <4>1. calls[u] # <<>> /\ u # t
        BY <3>3 DEF Writing
      <4>2. calls[u][1].field \in Fields /\ Alters(u) = Footprint(calls[u][1].field)
        BY <3>3, <4>1, RunningStack, CallFields DEF Alters, Altered, Writing
      <4>3. PICK z, a : x = <<z, a>> /\ a \in Alters(u)
        BY <3>3, <4>2, TouchedFootprint
      <4>4. Alters(u) \cap Busy(t) = {}
        BY <4>1 DEF FieldInv, Apart
      <4> QED BY <3>1, <4>3, <4>4
    <3>4. x \notin Vague
      OBVIOUS
    <3> QED BY <3>2, <3>3, <3>4 DEF MemoryInv, Agrees
  <2> HIDE DEF c, f, size
  <2>8. \A k \in 0..size - 1 : k \in c.dest <=> Spot(f, Field[f].offset + k) \in ideal
    BY <2>4, <2>6, <2>7
  <2>9. c.dest = Slice(ideal, f)
    BY <2>3, <2>8 DEF Slice, size
  <2> QED BY <2>9 DEF c, f
<1> QED BY <1>1, InvHolds, MemoryHolds, PTL
===============================================================================
