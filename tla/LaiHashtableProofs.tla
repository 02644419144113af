------------------------- MODULE LaiHashtableProofs -------------------------
(***************************************************************************)
(* What the operators of LaiHashtable do to a table of any size: growing   *)
(* loses nothing and makes room, an insertion adds one slot and a removal  *)
(* takes one away, and the buckets that a lookup stops at lead to exactly  *)
(* the slots with the hash it looks for.                                   *)
(*                                                                         *)
(* The recursive function of Rehash is reasoned about by an induction over *)
(* sets of naturals, which needs no operator as a parameter.               *)
(***************************************************************************)
EXTENDS LaiHashtable, TLAPS, WellFoundedInduction, FiniteSetTheorems

(***************************************************************************)
(* Induction, and functions that are defined by recursion.                 *)
(***************************************************************************)

\* A set of naturals that is not empty has a least element: Least is defined
\* wherever the loops of the code stop at the first of several.
LEMMA LeastNatural ==
  ASSUME NEW S \in SUBSET Nat, S # {}
  PROVE  Least(S) \in S /\ \A j \in S : Least(S) <= j
<1>1. \E x \in S : \A y \in S : ~ (<<y, x>> \in OpToRel(<, Nat))
  <2>1. S \subseteq Nat
    OBVIOUS
  <2> QED BY <2>1, WFMin, NatLessThanWellFounded
<1>2. \E x \in S : \A y \in S : ~(y < x)
  BY <1>1 DEF OpToRel
<1> HIDE <1>1
<1>3. \E x \in S : \A y \in S : x <= y
  BY <1>2
<1> QED BY <1>3 DEF Least

\* Induction over an interval, with a set in place of a predicate.
LEMMA IntervalInduction ==
  ASSUME NEW n \in Nat, NEW T, 0 \in T,
         \A i \in 1..n : i - 1 \in T => i \in T
  PROVE  \A i \in 0..n : i \in T
<1> DEFINE S == {i \in 0..n : i \notin T}
<1> SUFFICES ASSUME S # {} PROVE FALSE
  OBVIOUS
<1> DEFINE least == Least(S)
<1>1. S \in SUBSET Nat
  OBVIOUS
<1>2. least \in S /\ \A j \in S : least <= j
  BY <1>1, LeastNatural
<1> HIDE DEF least
<1>3. least \in 1..n /\ least - 1 \in 0..n /\ least - 1 \notin S
  BY <1>2
<1>4. least - 1 \in T
  BY <1>3
<1> QED BY <1>2, <1>3, <1>4

\* What holds of the first value and from one value to the next holds of every
\* value of a function defined by recursion.
LEMMA RecursionType ==
  ASSUME NEW n \in Nat, NEW S, NEW g, g[0] \in S,
         \A i \in 1..n : g[i - 1] \in S => g[i] \in S
  PROVE  \A i \in 0..n : g[i] \in S
<1> DEFINE T == {i \in 0..n : g[i] \in S}
<1>1. 0 \in T
  OBVIOUS
<1>2. \A i \in 1..n : i - 1 \in T => i \in T
  OBVIOUS
<1>3. \A i \in 0..n : i \in T
  BY <1>1, <1>2, IntervalInduction
<1> QED BY <1>3

\* A function that goes from the value at i - 1 to the value at i by F exists.
Steps(S, n) == [S \X (1..n) -> S]

Iterates(g, c, F, n) == g[0] = c /\ \A i \in 1..n : g[i] = F[<<g[i - 1], i>>]

LEMMA RecursionExists ==
  ASSUME NEW n \in Nat, NEW S, NEW c \in S, NEW F \in Steps(S, n)
  PROVE  \E g \in [0..n -> S] : Iterates(g, c, F, n)
<1> USE DEF Steps
<1> DEFINE Good(k, g) == g[0] = c /\ \A i \in 1..k : g[i] = F[<<g[i - 1], i>>]
           Some(k) == \E g \in [0..n -> S] : Good(k, g)
           T == {k \in 0..n : Some(k)}
<1>1. Some(0)
  <2> DEFINE g == [i \in 0..n |-> c]
  <2>1. g \in [0..n -> S] /\ Good(0, g)
    OBVIOUS
  <2> HIDE DEF Good, g
  <2> QED BY <2>1
<1>2. ASSUME NEW k \in 1..n, Some(k - 1) PROVE Some(k)
  <2>1. PICK g \in [0..n -> S] : Good(k - 1, g)
    BY <1>2
  <2> DEFINE new == F[<<g[k - 1], k>>]
             h == [g EXCEPT ![k] = new]
  <2>2. new \in S
    OBVIOUS
  <2>3. h \in [0..n -> S]
    BY <2>2
  <2>4. h[0] = c
    BY <2>1
  <2>5. ASSUME NEW i \in 1..k PROVE h[i] = F[<<h[i - 1], i>>]
    <3>1. h[i - 1] = g[i - 1]
      OBVIOUS
    <3>2. CASE i = k
      BY <3>1, <3>2, SMTT(30)
    <3>3. CASE i # k
      <4>1. i \in 1..k - 1 /\ h[i] = g[i]
        BY <3>3
      <4> QED BY <4>1, <3>1, <2>1
    <3> QED BY <3>2, <3>3
  <2>6. Good(k, h)
    BY <2>4, <2>5
  <2> HIDE DEF Good, h
  <2> QED BY <2>3, <2>6
<1>3. Some(n)
  <2> HIDE DEF Some
  <2>1. 0 \in T /\ \A k \in 1..n : k - 1 \in T => k \in T
    BY <1>1, <1>2
  <2>2. \A k \in 0..n : k \in T
    BY <2>1, IntervalInduction
  <2> QED BY <2>2
<1> QED BY <1>3 DEF Iterates

(***************************************************************************)
(* Probing: for every hash, the probes visit every bucket once.            *)
(***************************************************************************)

LEMMA DivMod ==
  ASSUME NEW a \in Int, NEW m \in Nat, m > 0
  PROVE  \E q \in Int : a % m = a - m * q /\ a % m \in 0..m - 1
<1>1. a % m = a - m * (a \div m)
  BY Z3
<1>2. a \div m \in Int /\ a % m \in 0..m - 1
  OBVIOUS
<1> QED BY <1>1, <1>2

LEMMA TimesMinus ==
  ASSUME NEW m \in Int, NEW p \in Int, NEW q \in Int
  PROVE  m * (q - p) = m * q - m * p /\ m * q \in Int
OBVIOUS

LEMMA RemainderUnique ==
  ASSUME NEW m \in Int, m > 0, NEW r \in 0..m - 1, NEW s \in 0..m - 1,
         NEW q \in Int, r - s = m * q
  PROVE  r = s
OBVIOUS

LEMMA RemainderIs ==
  ASSUME NEW m \in Int, m > 0, NEW a \in Int, NEW b \in 0..m - 1,
         NEW q \in Int, a = m * q + b
  PROVE  a % m = b
OBVIOUS

LEMMA ProbeInRange ==
  ASSUME NEW m \in Nat, m > 0, NEW h \in Int, NEW i \in 0..m - 1
  PROVE  Probe(h, i, m) \in 0..m - 1
BY DEF Probe

LEMMA ProbeReaches ==
  ASSUME NEW m \in Nat, m > 0, NEW h \in Int, NEW b \in 0..m - 1
  PROVE  \E i \in 0..m - 1 : Probe(h, i, m) = b
<1> DEFINE i == (b - h) % m
<1>1. PICK q \in Int : i = (b - h) - m * q /\ i \in 0..m - 1
  <2>1. b - h \in Int
    OBVIOUS
  <2> QED BY <2>1, DivMod
<1> HIDE DEF i
<1>2. m * (0 - q) = m * 0 - m * q /\ m * q \in Int
  BY TimesMinus
<1>3. h + i = m * (0 - q) + b
  BY <1>1, <1>2
<1>4. (h + i) % m = b
  BY <1>1, <1>3, RemainderIs
<1> QED BY <1>1, <1>4 DEF Probe

LEMMA ProbeInjective ==
  ASSUME NEW m \in Nat, m > 0, NEW h \in Int, NEW i \in 0..m - 1, NEW j \in 0..m - 1,
         Probe(h, i, m) = Probe(h, j, m)
  PROVE  i = j
<1>0. h + i \in Int /\ h + j \in Int
  OBVIOUS
<1>1. PICK q \in Int : (h + i) % m = (h + i) - m * q
  BY <1>0, DivMod
<1>2. PICK p \in Int : (h + j) % m = (h + j) - m * p
  BY <1>0, DivMod
<1>3. m * (q - p) = m * q - m * p /\ m * q \in Int
  BY TimesMinus
<1>4. m * p \in Int
  OBVIOUS
<1>5. (h + i) - m * q = (h + j) - m * p
  BY <1>1, <1>2 DEF Probe
<1>6. i - j = m * (q - p)
  BY <1>3, <1>4, <1>5
<1> QED BY <1>6, RemainderUnique

(***************************************************************************)
(* A bucket table of m buckets that leads to the slots U, one bucket each. *)
(***************************************************************************)
Full(bucket, m) == {b \in 0..m - 1 : bucket[b] >= 0}

Leads(bucket, m, U) ==
    /\ bucket \in [0..m - 1 -> Nat \cup {-1}]
    /\ \A b \in Full(bucket, m) : bucket[b] \in U
    /\ \A k \in U : \E b \in 0..m - 1 : bucket[b] = k
    /\ \A b, c \in Full(bucket, m) : bucket[b] = bucket[c] => b = c

\* The probe loops of insert and grow end: with fewer slots in use than buckets,
\* there is a free one.
LEMMA FreeBucketExists ==
  ASSUME NEW bucket, NEW m \in Nat, NEW U \in SUBSET Nat, Leads(bucket, m, U),
         IsFiniteSet(U), Cardinality(U) < m
  PROVE  \E b \in 0..m - 1 : bucket[b] = -1
<1> SUFFICES ASSUME \A b \in 0..m - 1 : bucket[b] # -1 PROVE FALSE
  OBVIOUS
<1>1. \A b \in 0..m - 1 : bucket[b] \in Nat
  BY DEF Leads
<1>2. Full(bucket, m) = 0..m - 1
  BY <1>1 DEF Full
<1>3. bucket \in [0..m - 1 -> U]
  BY <1>2 DEF Leads
<1>4. IsFiniteSet(0..m - 1) /\ Cardinality(0..m - 1) = m
  <2>1. 0 \in Int /\ m - 1 \in Int /\ Cardinality(U) \in Nat
    BY FS_CardinalityType
  <2>2. IsFiniteSet(0..m - 1)
    BY <2>1, FS_Interval
  <2>3. Cardinality(0..m - 1) = IF 0 > m - 1 THEN 0 ELSE m - 1 - 0 + 1
    BY <2>1, FS_Interval
  <2> QED BY <2>1, <2>2, <2>3
<1>5. \E b, c \in 0..m - 1 : b # c /\ bucket[b] = bucket[c]
  <2> DEFINE S == 0..m - 1
  <2>1. Cardinality(U) < Cardinality(S) /\ IsFiniteSet(S) /\ bucket \in [S -> U]
    BY <1>3, <1>4
  <2> HIDE DEF S
  <2>2. \E b, c \in S : b # c /\ bucket[b] = bucket[c]
    BY <2>1, FS_PigeonHole
  <2> QED BY <2>2 DEF S
<1> QED BY <1>2, <1>5 DEF Leads

LEMMA FreeBucketFree ==
  ASSUME NEW bucket, NEW m \in Nat, NEW U \in SUBSET Nat, Leads(bucket, m, U),
         IsFiniteSet(U), Cardinality(U) < m, NEW h \in Int
  PROVE  FreeBucket(bucket, m, h) \in 0..m - 1 /\ bucket[FreeBucket(bucket, m, h)] = -1
<1> DEFINE S == {i \in 0..m - 1 : bucket[Probe(h, i, m)] < 0}
<1>1. PICK b \in 0..m - 1 : bucket[b] = -1
  BY FreeBucketExists
<1>2. m > 0
  OBVIOUS
<1>3. PICK i \in 0..m - 1 : Probe(h, i, m) = b
  BY <1>2, ProbeReaches
<1>4. i \in S
  BY <1>1, <1>3
<1>5. S \in SUBSET Nat /\ S # {}
  BY <1>4
<1>6. Least(S) \in S
  BY <1>5, LeastNatural
<1> DEFINE k == Least(S)
<1>7. k \in 0..m - 1 /\ bucket[Probe(h, k, m)] < 0
  BY <1>6
<1>8. FreeBucket(bucket, m, h) = Probe(h, k, m)
  BY DEF FreeBucket
<1> HIDE DEF k
<1>9. Probe(h, k, m) \in 0..m - 1
  BY <1>2, <1>7, ProbeInRange
<1>10. bucket[Probe(h, k, m)] \in Nat \cup {-1}
  BY <1>9 DEF Leads
<1> QED BY <1>7, <1>8, <1>9, <1>10

LEMMA EnterBucket ==
  ASSUME NEW bucket, NEW m \in Nat, NEW U \in SUBSET Nat, Leads(bucket, m, U),
         NEW b \in 0..m - 1, bucket[b] = -1, NEW k \in Nat \ U
  PROVE  Leads([bucket EXCEPT ![b] = k], m, U \cup {k})
<1> DEFINE new == [bucket EXCEPT ![b] = k]
<1>1. new \in [0..m - 1 -> Nat \cup {-1}]
  BY DEF Leads
<1>2. \A c \in 0..m - 1 : new[c] = IF c = b THEN k ELSE bucket[c]
  BY DEF Leads
<1> HIDE DEF new
<1>3. Full(new, m) = Full(bucket, m) \cup {b}
  BY <1>2 DEF Full, Leads
<1>4. \A c \in Full(new, m) : new[c] \in U \cup {k}
  BY <1>2, <1>3 DEF Leads, Full
<1>5. \A j \in U \cup {k} : \E c \in 0..m - 1 : new[c] = j
  <2>1. new[b] = k
    BY <1>2
  <2>2. ASSUME NEW j \in U PROVE \E c \in 0..m - 1 : new[c] = j
    <3>1. PICK c \in 0..m - 1 : bucket[c] = j
      BY DEF Leads
    <3>2. c # b
      BY <3>1
    <3> QED BY <1>2, <3>1, <3>2
  <2> QED BY <2>1, <2>2
<1>6. \A c, d \in Full(new, m) : new[c] = new[d] => c = d
  BY <1>2, <1>3 DEF Leads, Full
<1>7. Leads(new, m, U \cup {k})
  BY <1>1, <1>4, <1>5, <1>6 DEF Leads
<1> QED BY <1>7 DEF new

LEMMA LeaveBucket ==
  ASSUME NEW bucket, NEW m \in Nat, NEW U \in SUBSET Nat, Leads(bucket, m, U),
         NEW b \in 0..m - 1, bucket[b] \in U
  PROVE  Leads([bucket EXCEPT ![b] = -1], m, U \ {bucket[b]})
<1> DEFINE new == [bucket EXCEPT ![b] = -1]
<1>1. new \in [0..m - 1 -> Nat \cup {-1}]
  BY DEF Leads
<1>2. \A c \in 0..m - 1 : new[c] = IF c = b THEN -1 ELSE bucket[c]
  BY DEF Leads
<1> HIDE DEF new
<1>3. Full(new, m) = Full(bucket, m) \ {b} /\ b \in Full(bucket, m)
  BY <1>2 DEF Full, Leads
<1>4. \A c \in Full(new, m) : new[c] \in U \ {bucket[b]}
  BY <1>2, <1>3 DEF Leads, Full
<1>5. \A j \in U \ {bucket[b]} : \E c \in 0..m - 1 : new[c] = j
  <2>1. SUFFICES ASSUME NEW j \in U, j # bucket[b]
                 PROVE  \E c \in 0..m - 1 : new[c] = j
    OBVIOUS
  <2>2. PICK c \in 0..m - 1 : bucket[c] = j
    BY DEF Leads
  <2> QED BY <1>2, <2>1, <2>2
<1>6. \A c, d \in Full(new, m) : new[c] = new[d] => c = d
  BY <1>2, <1>3 DEF Leads, Full
<1>7. Leads(new, m, U \ {bucket[b]})
  BY <1>1, <1>4, <1>5, <1>6 DEF Leads
<1> QED BY <1>7 DEF new
(***************************************************************************)
(* Growing.  After k rounds of the loop of lai_hashtable_grow() the new    *)
(* bucket table leads to the slots in use among the first k.               *)
(***************************************************************************)
Before(t, k) == {j \in 0..k - 1 : t.elem[j] # Null}

LEMMA BeforeFinite ==
  ASSUME NEW t, NEW k \in Nat
  PROVE  /\ Before(t, k) \in SUBSET Nat /\ IsFiniteSet(Before(t, k))
         /\ Cardinality(Before(t, k)) <= k /\ Cardinality(Before(t, k)) \in Nat
<1>1. 0 \in Int /\ k - 1 \in Int
  OBVIOUS
<1>2. IsFiniteSet(0..k - 1)
  BY <1>1, FS_Interval
<1>3. Cardinality(0..k - 1) = IF 0 > k - 1 THEN 0 ELSE k - 1 - 0 + 1
  BY <1>1, FS_Interval
<1>4. Before(t, k) \in SUBSET (0..k - 1)
  BY DEF Before
<1>5. IsFiniteSet(Before(t, k)) /\ Cardinality(Before(t, k)) <= Cardinality(0..k - 1)
  BY <1>2, <1>4, FS_Subset
<1>6. Cardinality(Before(t, k)) \in Nat
  BY <1>5, FS_CardinalityType
<1>7. Cardinality(0..k - 1) = k
  BY <1>3
<1> QED BY <1>4, <1>5, <1>6, <1>7

\* One round of the loop.
Round(t, m, bucket, k) ==
    IF t.elem[k - 1] = Null THEN bucket
    ELSE [bucket EXCEPT ![FreeBucket(bucket, m, t.hash[k - 1])] = k - 1]

LEMMA RoundType ==
  ASSUME NEW t, NEW m \in Nat, NEW bucket \in [0..m - 1 -> Nat \cup {-1}], NEW k \in Nat \ {0}
  PROVE  Round(t, m, bucket, k) \in [0..m - 1 -> Nat \cup {-1}]
<1>1. k - 1 \in Nat
  OBVIOUS
<1> QED BY <1>1 DEF Round

LEMMA RoundLeads ==
  ASSUME NEW t, NEW n \in Nat, t.hash \in [0..n - 1 -> Int],
         NEW m \in Nat, n < m, NEW k \in 1..n, NEW bucket,
         Leads(bucket, m, Before(t, k - 1))
  PROVE  Leads(Round(t, m, bucket, k), m, Before(t, k))
<1> DEFINE U == Before(t, k - 1)
<1>0. k - 1 \in Nat /\ k - 1 \in 0..n - 1 /\ k \in Nat
  OBVIOUS
<1>1. U \in SUBSET Nat /\ IsFiniteSet(U) /\ Cardinality(U) < m
  <2>1. Cardinality(U) <= k - 1 /\ Cardinality(U) \in Nat
    BY <1>0, BeforeFinite
  <2>2. U \in SUBSET Nat /\ IsFiniteSet(U)
    BY <1>0, BeforeFinite
  <2> QED BY <2>1, <2>2
<1>2. CASE t.elem[k - 1] = Null
  <2>1. Before(t, k) = U
    BY <1>2 DEF Before
  <2>2. Round(t, m, bucket, k) = bucket
    BY <1>2 DEF Round
  <2> QED BY <2>1, <2>2
<1>3. CASE t.elem[k - 1] # Null
  <2> DEFINE b == FreeBucket(bucket, m, t.hash[k - 1])
  <2>1. t.hash[k - 1] \in Int
    BY <1>0
  <2>2. b \in 0..m - 1 /\ bucket[b] = -1
    BY <1>1, <2>1, FreeBucketFree
  <2>3. Before(t, k) = U \cup {k - 1}
    BY <1>3 DEF Before
  <2>4. k - 1 \in Nat \ U
    BY <1>0 DEF Before
  <2>5. Round(t, m, bucket, k) = [bucket EXCEPT ![b] = k - 1]
    BY <1>3 DEF Round
  <2> HIDE DEF b, U
  <2>6. Leads([bucket EXCEPT ![b] = k - 1], m, U \cup {k - 1})
    <3>1. Leads(bucket, m, U)
      BY DEF U
    <3> QED BY <3>1, <1>1, <2>2, <2>4, EnterBucket
  <2> QED BY <2>3, <2>5, <2>6
<1> QED BY <1>2, <1>3

\* Rehash is the result of the rounds, one after the other.
\* The tables of buckets between the rounds of the loop.
Rounds(t, n, m, g) ==
    /\ Rehash(t, m) = g[n]
    /\ g[0] = [b \in 0..m - 1 |-> -1]
    /\ \A k \in 1..n : g[k] = Round(t, m, g[k - 1], k)

LEMMA RehashRounds ==
  ASSUME NEW t, NEW n \in Nat, t.elem_capacity = n, NEW m \in Nat
  PROVE  \E g : Rounds(t, n, m, g)
<1> DEFINE S == [0..m - 1 -> Nat \cup {-1}]
           none == [b \in 0..m - 1 |-> -1]
           F == [p \in S \X (1..n) |-> Round(t, m, p[1], p[2])]
<1>1. F \in [S \X (1..n) -> S]
  <2>1. ASSUME NEW p \in S \X (1..n) PROVE Round(t, m, p[1], p[2]) \in S
    <3>1. p[1] \in S /\ p[2] \in Nat \ {0}
      OBVIOUS
    <3> QED BY <3>1, RoundType
  <2> QED BY <2>1
<1>2. none \in S
  OBVIOUS
<1>3. PICK g \in [0..n -> S] : Iterates(g, none, F, n)
  <2>1. F \in Steps(S, n)
    BY <1>1 DEF Steps
  <2> HIDE DEF S, F, none
  <2> QED BY <1>2, <2>1, RecursionExists
<1>4. \A k \in 1..n : g[k] = Round(t, m, g[k - 1], k)
  <2> SUFFICES ASSUME NEW k \in 1..n PROVE g[k] = Round(t, m, g[k - 1], k)
    OBVIOUS
  <2>1. <<g[k - 1], k>> \in S \X (1..n)
    OBVIOUS
  <2>2. F[<<g[k - 1], k>>] = Round(t, m, g[k - 1], k)
    BY <2>1
  <2> QED BY <1>3, <2>2 DEF Iterates
<1> DEFINE table[k \in 0..t.elem_capacity] ==
             IF k = 0 THEN none
             ELSE IF t.elem[k - 1] = Null THEN table[k - 1]
             ELSE [table[k - 1] EXCEPT
                     ![FreeBucket(table[k - 1], m, t.hash[k - 1])] = k - 1]
<1> HIDE DEF F
<1>5. g = [k \in 0..t.elem_capacity |->
             IF k = 0 THEN none
             ELSE IF t.elem[k - 1] = Null THEN g[k - 1]
             ELSE [g[k - 1] EXCEPT
                     ![FreeBucket(g[k - 1], m, t.hash[k - 1])] = k - 1]]
  <2>1. \A k \in 0..n : g[k] =
             IF k = 0 THEN none
             ELSE IF t.elem[k - 1] = Null THEN g[k - 1]
             ELSE [g[k - 1] EXCEPT
                     ![FreeBucket(g[k - 1], m, t.hash[k - 1])] = k - 1]
    <3> SUFFICES ASSUME NEW k \in 0..n
                 PROVE  g[k] = IF k = 0 THEN none
                               ELSE IF t.elem[k - 1] = Null THEN g[k - 1]
                               ELSE [g[k - 1] EXCEPT
                                 ![FreeBucket(g[k - 1], m, t.hash[k - 1])] = k - 1]
      OBVIOUS
    <3> HIDE DEF none
    <3>1. CASE k = 0
      BY <3>1, <1>3 DEF Iterates
    <3>2. CASE k # 0
      <4>1. k \in 1..n
        BY <3>2
      <4>2. g[k] = Round(t, m, g[k - 1], k)
        BY <4>1, <1>4
      <4> QED BY <3>2, <4>2 DEF Round
    <3> QED BY <3>1, <3>2
  <2> QED BY <2>1
<1>6. table = [k \in 0..t.elem_capacity |->
             IF k = 0 THEN none
             ELSE IF t.elem[k - 1] = Null THEN table[k - 1]
             ELSE [table[k - 1] EXCEPT
                     ![FreeBucket(table[k - 1], m, t.hash[k - 1])] = k - 1]]
  BY <1>5, Zenon
<1>7. Rehash(t, m) = table[n]
  BY DEF Rehash
<1> HIDE DEF table, none
<1>8. table[0] = none /\ \A k \in 1..n : table[k] = Round(t, m, table[k - 1], k)
  <2>1. table[0] = none
    BY <1>6
  <2>2. ASSUME NEW k \in 1..n PROVE table[k] = Round(t, m, table[k - 1], k)
    <3>1. k \in 0..t.elem_capacity /\ k # 0
      OBVIOUS
    <3>2. table[k] = IF t.elem[k - 1] = Null THEN table[k - 1]
                     ELSE [table[k - 1] EXCEPT
                             ![FreeBucket(table[k - 1], m, t.hash[k - 1])] = k - 1]
      BY <1>6, <3>1
    <3> QED BY <3>2 DEF Round
  <2> QED BY <2>1, <2>2
<1> QED BY <1>7, <1>8 DEF none, Rounds

LEMMA RehashLeads ==
  ASSUME NEW t, NEW n \in Nat, t.elem_capacity = n, t.hash \in [0..n - 1 -> Int],
         NEW m \in Nat, n < m
  PROVE  Leads(Rehash(t, m), m, Used(t))
<1>0. PICK g : Rounds(t, n, m, g)
  BY RehashRounds
<1>1. /\ Rehash(t, m) = g[n]
      /\ g[0] = [b \in 0..m - 1 |-> -1]
      /\ \A k \in 1..n : g[k] = Round(t, m, g[k - 1], k)
  BY <1>0 DEF Rounds
<1> DEFINE T == {k \in 0..n : Leads(g[k], m, Before(t, k))}
<1>2. 0 \in T
  <2>1. Before(t, 0) = {}
    BY DEF Before
  <2>2. Leads([b \in 0..m - 1 |-> -1], m, {})
    BY DEF Leads, Full
  <2>3. Leads(g[0], m, Before(t, 0))
    BY <1>1, <2>1, <2>2
  <2> QED BY <2>3
<1>3. ASSUME NEW k \in 1..n, k - 1 \in T PROVE k \in T
  <2>1. Leads(g[k - 1], m, Before(t, k - 1))
    BY <1>3
  <2>2. Leads(Round(t, m, g[k - 1], k), m, Before(t, k))
    BY <2>1, RoundLeads
  <2> QED BY <1>1, <2>2
<1>4. n \in T
  <2> HIDE DEF T
  <2>1. \A k \in 0..n : k \in T
    BY <1>2, <1>3, IntervalInduction
  <2> QED BY <2>1
<1>5. Before(t, n) = Used(t)
  BY DEF Before, Used, Slots
<1> QED BY <1>1, <1>4, <1>5
(***************************************************************************)
(* Tables.  Every table of the code is well formed: its arrays are as long *)
(* as its capacities say, with two buckets for every slot; the buckets in  *)
(* use lead to the slots in use, one each; the count is right; and there   *)
(* is a slot to spare.                                                     *)
(***************************************************************************)
Shape(n, m) ==
    [elem_capacity : {n}, bucket_capacity : {m}, num_elems : Nat,
     elem : [0..n - 1 -> Nat], hash : [0..n - 1 -> Int],
     bucket : [0..m - 1 -> Nat \cup {-1}]]

WellFormed(t) ==
    /\ t.elem_capacity \in Nat /\ t.bucket_capacity = 2 * t.elem_capacity
    /\ t \in Shape(t.elem_capacity, t.bucket_capacity)
    /\ Leads(t.bucket, t.bucket_capacity, Used(t))
    /\ t.num_elems = Cardinality(Used(t))
    /\ t.elem_capacity > 0 => t.num_elems < t.elem_capacity

\* The slots in use, and what is in them, are the same in t and u.
Keeps(t, u) ==
    /\ Used(u) = Used(t)
    /\ \A k \in Used(t) : u.elem[k] = t.elem[k] /\ u.hash[k] = t.hash[k]

\* u has e with hash h in slot k, and otherwise what t has.
Adds(t, u, k, h, e) ==
    /\ k \notin Used(t) /\ Used(u) = Used(t) \cup {k}
    /\ u.elem[k] = e /\ u.hash[k] = h
    /\ \A j \in Used(t) : u.elem[j] = t.elem[j] /\ u.hash[j] = t.hash[j]

\* u has what t has but for slot k.
Drops(t, u, k) ==
    /\ k \in Used(t) /\ Used(u) = Used(t) \ {k}
    /\ \A j \in Used(u) : u.elem[j] = t.elem[j] /\ u.hash[j] = t.hash[j]

LEMMA UsedFinite ==
  ASSUME NEW t, t.elem_capacity \in Nat
  PROVE  /\ Used(t) \in SUBSET Nat /\ Used(t) \subseteq 0..t.elem_capacity - 1
         /\ IsFiniteSet(Used(t))
         /\ Cardinality(Used(t)) \in Nat /\ Cardinality(Used(t)) <= t.elem_capacity
<1>1. Used(t) = Before(t, t.elem_capacity)
  BY DEF Used, Slots, Before
<1>2. Used(t) \subseteq 0..t.elem_capacity - 1
  BY DEF Used, Slots
<1> QED BY <1>1, <1>2, BeforeFinite

LEMMA EmptyWellFormed == WellFormed(EmptyTable) /\ Used(EmptyTable) = {}
<1>1. Used(EmptyTable) = {}
  BY DEF Used, Slots, EmptyTable
<1>2. EmptyTable \in Shape(0, 0)
  BY DEF EmptyTable, Shape, Null
<1>3. Leads(EmptyTable.bucket, 0, {})
  BY DEF Leads, Full, EmptyTable
<1>4. EmptyTable.elem_capacity = 0 /\ EmptyTable.bucket_capacity = 0
      /\ EmptyTable.num_elems = 0
  BY DEF EmptyTable
<1>5. Cardinality({}) = 0
  BY FS_EmptySet
<1> QED BY <1>1, <1>2, <1>3, <1>4, <1>5 DEF WellFormed

\* Growing keeps the slots and what is in them.
LEMMA GrowKeeps ==
  ASSUME NEW t, WellFormed(t), NEW n \in Nat, t.elem_capacity <= n, t.num_elems < n
  PROVE  /\ WellFormed(Grow(t, n, 2 * n)) /\ Keeps(t, Grow(t, n, 2 * n))
         /\ Grow(t, n, 2 * n).num_elems = t.num_elems
         /\ Grow(t, n, 2 * n).elem_capacity = n
<1> DEFINE m == 2 * n
           u == Grow(t, n, m)
           c == t.elem_capacity
<1>0. c \in Nat /\ t \in Shape(c, t.bucket_capacity) /\ t.num_elems \in Nat /\ m \in Nat
  BY DEF WellFormed, Shape
<1>1. /\ u.elem_capacity = n /\ u.bucket_capacity = m /\ u.num_elems = t.num_elems
      /\ u.elem = [k \in 0..n - 1 |-> IF k \in Used(t) THEN t.elem[k] ELSE Null]
      /\ u.hash = [k \in 0..n - 1 |-> IF k \in Used(t) THEN t.hash[k] ELSE 0]
      /\ u.bucket = Rehash(t, m)
  BY DEF Grow
<1>2. \A k \in Used(t) : k \in 0..n - 1 /\ k \in 0..c - 1
  BY <1>0 DEF Used, Slots
<1>3. \A k \in Used(t) : t.elem[k] \in Nat /\ t.elem[k] # Null /\ t.hash[k] \in Int
  BY <1>0, <1>2 DEF Shape, Used
<1>4. u.elem \in [0..n - 1 -> Nat] /\ u.hash \in [0..n - 1 -> Int]
  BY <1>1, <1>3 DEF Null
<1>5. Used(u) = Used(t)
  BY <1>1, <1>2, <1>3 DEF Used, Slots
<1>6. Keeps(t, u)
  BY <1>1, <1>2, <1>5 DEF Keeps
<1>7. Leads(u.bucket, m, Used(u))
  <2>1. t.hash \in [0..c - 1 -> Int] /\ c < m
    BY <1>0 DEF Shape
  <2>2. Leads(Rehash(t, m), m, Used(t))
    BY <1>0, <2>1, RehashLeads
  <2> QED BY <1>1, <1>5, <2>2
<1>8. u \in Shape(n, m)
  <2>1. u.bucket \in [0..m - 1 -> Nat \cup {-1}]
    BY <1>7 DEF Leads
  <2> QED BY <1>0, <1>1, <1>4, <2>1 DEF Shape, Grow
<1>9. u.num_elems = Cardinality(Used(u))
  BY <1>1, <1>5 DEF WellFormed
<1>10. WellFormed(u)
  BY <1>1, <1>7, <1>8, <1>9 DEF WellFormed
<1> QED BY <1>1, <1>6, <1>10

\* Room is made before it is needed.
LEMMA RoomyKeeps ==
  ASSUME NEW t, WellFormed(t)
  PROVE  /\ WellFormed(Roomy(t)) /\ Keeps(t, Roomy(t))
         /\ Roomy(t).num_elems + 1 < Roomy(t).elem_capacity
<1> DEFINE c == t.elem_capacity
<1>0. c \in Nat /\ t.num_elems \in Nat /\ t.bucket_capacity = 2 * c
  BY DEF WellFormed, Shape
<1>1. t.num_elems <= c /\ (c > 0 => t.num_elems < c)
  BY <1>0, UsedFinite DEF WellFormed
<1>2. CASE c = 0
  <2>1. Roomy(t) = Grow(t, 2, 4)
    BY <1>2 DEF Roomy
  <2>2. 4 = 2 * 2 /\ t.elem_capacity <= 2 /\ t.num_elems < 2 /\ t.num_elems = 0 /\ 2 \in Nat
    BY <1>0, <1>1, <1>2
  <2> QED BY <2>1, <2>2, GrowKeeps
<1>3. CASE c # 0 /\ t.num_elems + 1 >= c
  <2>1. Roomy(t) = Grow(t, 2 * c, 2 * (2 * c))
    BY <1>0, <1>3 DEF Roomy
  <2>2. 2 * c \in Nat /\ c <= 2 * c /\ t.num_elems < 2 * c /\ t.num_elems + 1 < 2 * c
    BY <1>0, <1>1, <1>3
  <2> DEFINE n == 2 * c
  <2> HIDE DEF n
  <2>3. n \in Nat /\ t.elem_capacity <= n /\ t.num_elems < n
    BY <2>2 DEF n
  <2>4. /\ WellFormed(Grow(t, n, 2 * n)) /\ Keeps(t, Grow(t, n, 2 * n))
        /\ Grow(t, n, 2 * n).num_elems = t.num_elems
        /\ Grow(t, n, 2 * n).elem_capacity = n
    BY <2>3, GrowKeeps
  <2> QED BY <2>1, <2>2, <2>4 DEF n
<1>4. CASE c # 0 /\ ~(t.num_elems + 1 >= c)
  <2>1. Roomy(t) = t
    BY <1>0, <1>4 DEF Roomy
  <2> QED BY <1>0, <1>4, <2>1 DEF Keeps
<1> QED BY <1>2, <1>3, <1>4
\* An insertion takes a slot that was free, and nothing else changes.
LEMMA EnterAdds ==
  ASSUME NEW t, WellFormed(t), t.num_elems + 1 < t.elem_capacity,
         NEW h \in Int, NEW e \in Nat \ {0}
  PROVE  WellFormed(Enter(t, h, e)) /\ \E k \in Nat : Adds(t, Enter(t, h, e), k, h, e)
<1> DEFINE n == t.elem_capacity
           m == t.bucket_capacity
           k == Least(Slots(t) \ Used(t))
           b == FreeBucket(t.bucket, m, h)
           u == Enter(t, h, e)
<1>0. /\ n \in Nat /\ m \in Nat /\ m = 2 * n /\ t \in Shape(n, m) /\ t.num_elems \in Nat
      /\ t.num_elems = Cardinality(Used(t))
  BY DEF WellFormed, Shape
<1>1. Used(t) \in SUBSET Nat /\ IsFiniteSet(Used(t)) /\ Used(t) \subseteq 0..n - 1
  BY <1>0, UsedFinite
<1>2. k \in 0..n - 1 /\ k \notin Used(t)
  <2>1. Cardinality(0..n - 1) = n
    <3>1. 0 \in Int /\ n - 1 \in Int
      BY <1>0
    <3>2. Cardinality(0..n - 1) = IF 0 > n - 1 THEN 0 ELSE n - 1 - 0 + 1
      BY <3>1, FS_Interval
    <3> QED BY <1>0, <3>2
  <2>2. Used(t) # 0..n - 1
    BY <1>0, <2>1
  <2>3. Slots(t) \ Used(t) \in SUBSET Nat /\ Slots(t) \ Used(t) # {}
    <3>1. Slots(t) = 0..n - 1
      BY DEF Slots
    <3> HIDE DEF k, b, u, n
    <3>2. \E x \in 0..n - 1 : x \notin Used(t)
      BY <1>1, <2>2
    <3>3. 0..n - 1 \subseteq Nat
      BY <1>0
    <3> QED BY <3>1, <3>2, <3>3
  <2>4. k \in Slots(t) \ Used(t)
    BY <2>3, LeastNatural
  <2> QED BY <2>4 DEF Slots
<1>3. b \in 0..m - 1 /\ t.bucket[b] = -1
  <2>1. Cardinality(Used(t)) < m /\ Leads(t.bucket, m, Used(t))
    BY <1>0 DEF WellFormed
  <2> QED BY <1>0, <1>1, <2>1, FreeBucketFree
<1>4. u = [t EXCEPT !.elem[k] = e, !.hash[k] = h, !.num_elems = @ + 1, !.bucket[b] = k]
  BY DEF Enter
<1> HIDE DEF k, b, u
<1>5. /\ t.elem \in [0..n - 1 -> Nat] /\ t.hash \in [0..n - 1 -> Int]
      /\ t.bucket \in [0..m - 1 -> Nat \cup {-1}]
  BY <1>0 DEF Shape
<1>6. /\ u.elem_capacity = n /\ u.bucket_capacity = m /\ u.num_elems = t.num_elems + 1
      /\ u.elem = [t.elem EXCEPT ![k] = e] /\ u.hash = [t.hash EXCEPT ![k] = h]
      /\ u.bucket = [t.bucket EXCEPT ![b] = k]
  BY <1>0, <1>4 DEF Shape
<1>7. /\ u.elem \in [0..n - 1 -> Nat] /\ u.hash \in [0..n - 1 -> Int]
      /\ u.bucket \in [0..m - 1 -> Nat \cup {-1}]
  BY <1>2, <1>3, <1>5, <1>6
<1>8. u \in Shape(n, m)
  <2>1. u.num_elems \in Nat
    BY <1>0, <1>6
  <2>2. u = [elem_capacity |-> n, bucket_capacity |-> m, num_elems |-> u.num_elems,
             elem |-> u.elem, hash |-> u.hash, bucket |-> u.bucket]
    BY <1>0, <1>4 DEF Shape
  <2> QED BY <1>7, <2>1, <2>2 DEF Shape
<1>9. Used(u) = Used(t) \cup {k}
  BY <1>0, <1>2, <1>5, <1>6, SMTT(30) DEF Used, Slots, Null
<1>10. Adds(t, u, k, h, e)
  BY <1>1, <1>2, <1>5, <1>6, <1>9 DEF Adds
<1>11. Leads(u.bucket, m, Used(u))
  <2>1. Leads(t.bucket, m, Used(t))
    BY DEF WellFormed
  <2>2. k \in Nat \ Used(t)
    BY <1>0, <1>2
  <2>3. Leads([t.bucket EXCEPT ![b] = k], m, Used(t) \cup {k})
    BY <1>0, <1>1, <1>3, <2>1, <2>2, EnterBucket
  <2> QED BY <1>6, <1>9, <2>3
<1>12. u.num_elems = Cardinality(Used(u))
  <2>1. Cardinality(Used(t) \cup {k}) = Cardinality(Used(t)) + 1
    BY <1>1, <1>2, FS_AddElement
  <2> QED BY <1>0, <1>6, <1>9, <2>1
<1>13. WellFormed(u)
  BY <1>0, <1>6, <1>8, <1>11, <1>12 DEF WellFormed
<1>14. k \in Nat
  BY <1>0, <1>2
<1> QED BY <1>10, <1>13, <1>14 DEF u

\* lai_hashtable_insert() into a table of any size, that may have to grow, adds one
\* slot with the hash and the element, and keeps the others where they were.
THEOREM InsertAdds ==
  ASSUME NEW t, WellFormed(t), NEW h \in Int, NEW e \in Nat \ {0}
  PROVE  WellFormed(Insert(t, h, e)) /\ \E k \in Nat : Adds(t, Insert(t, h, e), k, h, e)
<1> DEFINE r == Roomy(t)
           u == Enter(r, h, e)
<1>1. WellFormed(r) /\ Keeps(t, r) /\ r.num_elems + 1 < r.elem_capacity
  BY RoomyKeeps
<1> HIDE DEF r
<1>2. WellFormed(u) /\ \E k \in Nat : Adds(r, u, k, h, e)
  BY <1>1, EnterAdds
<1> HIDE DEF u
<1>3. PICK k \in Nat : Adds(r, u, k, h, e)
  BY <1>2
<1>4. Adds(t, u, k, h, e)
  BY <1>1, <1>3 DEF Adds, Keeps
<1> QED BY <1>2, <1>4 DEF Insert, u, r

\* A lookup stops at buckets that lead to slots with the hash it looks for ...
LEMMA ChainSound ==
  ASSUME NEW t, WellFormed(t), NEW h \in Int, NEW i \in Chain(t, h)
  PROVE  /\ Probe(h, i, t.bucket_capacity) \in 0..t.bucket_capacity - 1
         /\ t.bucket[Probe(h, i, t.bucket_capacity)] \in Used(t)
         /\ t.hash[t.bucket[Probe(h, i, t.bucket_capacity)]] = h
         /\ i \in 0..t.bucket_capacity - 1 /\ t.bucket_capacity \in Nat
         /\ t.bucket_capacity > 0
<1> DEFINE m == t.bucket_capacity
           b == Probe(h, i, m)
<1>1. i \in 0..m - 1 /\ t.bucket[b] >= 0 /\ t.hash[t.bucket[b]] = h
  BY DEF Chain, Buckets
<1>2. m \in Nat /\ m > 0
  BY <1>1 DEF WellFormed
<1>3. b \in 0..m - 1
  BY <1>1, <1>2, ProbeInRange
<1> HIDE DEF b
<1>4. t.bucket[b] \in Used(t)
  BY <1>1, <1>3 DEF WellFormed, Leads, Full
<1> QED BY <1>1, <1>2, <1>3, <1>4 DEF b

\* ... at one for every such slot ...
LEMMA ChainComplete ==
  ASSUME NEW t, WellFormed(t), NEW k \in Used(t)
  PROVE  \E i \in Chain(t, t.hash[k]) :
           t.bucket[Probe(t.hash[k], i, t.bucket_capacity)] = k
<1> DEFINE m == t.bucket_capacity
           h == t.hash[k]
<1>1. k \in Nat /\ h \in Int
  <2>1. /\ t.elem_capacity \in Nat /\ k \in 0..t.elem_capacity - 1
        /\ t.hash \in [0..t.elem_capacity - 1 -> Int]
    BY DEF Used, Slots, WellFormed, Shape
  <2> QED BY <2>1
<1>2. PICK b \in 0..m - 1 : t.bucket[b] = k
  BY DEF WellFormed, Leads
<1>3. m \in Nat /\ m > 0
  BY <1>2 DEF WellFormed
<1> HIDE DEF h
<1>4. PICK i \in 0..m - 1 : Probe(h, i, m) = b
  BY <1>1, <1>3, ProbeReaches
<1>5. i \in Chain(t, h)
  BY <1>1, <1>2, <1>4 DEF Chain, Buckets, h
<1> QED BY <1>2, <1>4, <1>5 DEF h

\* ... and at no slot twice.
LEMMA ChainUnique ==
  ASSUME NEW t, WellFormed(t), NEW h \in Int, NEW i \in Chain(t, h), NEW j \in Chain(t, h),
         t.bucket[Probe(h, i, t.bucket_capacity)] = t.bucket[Probe(h, j, t.bucket_capacity)]
  PROVE  i = j
<1> DEFINE m == t.bucket_capacity
           b == Probe(h, i, m)
           c == Probe(h, j, m)
<1>1. /\ b \in 0..m - 1 /\ t.bucket[b] \in Used(t) /\ i \in 0..m - 1
      /\ c \in 0..m - 1 /\ t.bucket[c] \in Used(t) /\ j \in 0..m - 1
      /\ m \in Nat /\ m > 0
  BY ChainSound
<1>2. t.bucket[b] \in Nat /\ t.bucket[c] \in Nat
  <2>1. Used(t) \in SUBSET Nat
    BY UsedFinite DEF WellFormed
  <2> QED BY <1>1, <2>1
<1>3. b \in Full(t.bucket, m) /\ c \in Full(t.bucket, m)
  BY <1>1, <1>2 DEF Full
<1>4. b = c
  BY <1>3 DEF WellFormed, Leads
<1> QED BY <1>1, <1>4, ProbeInjective

\* What the chains of lai_hashtable lead to: walking the buckets from a hash meets
\* exactly the slots that hold it, each once, whatever was inserted, grown over and
\* removed before.
THEOREM ChainExact ==
  ASSUME NEW t, WellFormed(t), NEW h \in Int
  PROVE  /\ {t.bucket[Probe(h, i, t.bucket_capacity)] : i \in Chain(t, h)}
              = {k \in Used(t) : t.hash[k] = h}
         /\ \A i, j \in Chain(t, h) :
              t.bucket[Probe(h, i, t.bucket_capacity)] = t.bucket[Probe(h, j, t.bucket_capacity)]
              => i = j
<1> DEFINE slot(i) == t.bucket[Probe(h, i, t.bucket_capacity)]
<1>1. \A i \in Chain(t, h) : slot(i) \in Used(t) /\ t.hash[slot(i)] = h
  BY ChainSound
<1>2. \A k \in Used(t) : t.hash[k] = h => \E i \in Chain(t, h) : slot(i) = k
  <2> SUFFICES ASSUME NEW k \in Used(t), t.hash[k] = h
               PROVE  \E i \in Chain(t, h) : slot(i) = k
    OBVIOUS
  <2>1. \E i \in Chain(t, t.hash[k]) :
           t.bucket[Probe(t.hash[k], i, t.bucket_capacity)] = k
    BY ChainComplete
  <2> QED BY <2>1
<1>3. \A i, j \in Chain(t, h) : slot(i) = slot(j) => i = j
  BY ChainUnique
<1> HIDE DEF slot
<1>4. {slot(i) : i \in Chain(t, h)} = {k \in Used(t) : t.hash[k] = h}
  BY <1>1, <1>2
<1> QED BY <1>3, <1>4 DEF slot

\* lai_hashtable_chain_remove() at a place of the chain frees the slot there, and
\* nothing else changes.
THEOREM RemoveDrops ==
  ASSUME NEW t, WellFormed(t), NEW h \in Int, NEW i \in Chain(t, h)
  PROVE  /\ WellFormed(ChainRemove(t, h, i))
         /\ Drops(t, ChainRemove(t, h, i), t.bucket[Probe(h, i, t.bucket_capacity)])
<1> DEFINE n == t.elem_capacity
           m == t.bucket_capacity
           b == Probe(h, i, m)
           k == t.bucket[b]
           u == ChainRemove(t, h, i)
<1>0. /\ n \in Nat /\ m \in Nat /\ m = 2 * n /\ t \in Shape(n, m) /\ t.num_elems \in Nat
      /\ t.num_elems = Cardinality(Used(t))
  BY DEF WellFormed, Shape
<1>1. Used(t) \in SUBSET Nat /\ IsFiniteSet(Used(t)) /\ Used(t) \subseteq 0..n - 1
  BY <1>0, UsedFinite
<1>2. b \in 0..m - 1 /\ k \in Used(t)
  BY ChainSound
<1>3. u = [t EXCEPT !.elem[k] = Null, !.bucket[b] = -1, !.num_elems = @ - 1]
  BY DEF ChainRemove
<1>4. Leads([t.bucket EXCEPT ![b] = -1], m, Used(t) \ {k})
  <2>1. Leads(t.bucket, m, Used(t))
    BY DEF WellFormed
  <2> HIDE DEF b
  <2> QED BY <1>0, <1>1, <1>2, <2>1, LeaveBucket
<1> HIDE DEF k, b, u
<1>5. /\ t.elem \in [0..n - 1 -> Nat] /\ t.hash \in [0..n - 1 -> Int]
      /\ t.bucket \in [0..m - 1 -> Nat \cup {-1}]
  BY <1>0 DEF Shape
<1>6. /\ u.elem_capacity = n /\ u.bucket_capacity = m /\ u.num_elems = t.num_elems - 1
      /\ u.elem = [t.elem EXCEPT ![k] = Null] /\ u.hash = t.hash
      /\ u.bucket = [t.bucket EXCEPT ![b] = -1]
  BY <1>0, <1>3 DEF Shape
<1>7. /\ u.elem \in [0..n - 1 -> Nat] /\ u.bucket \in [0..m - 1 -> Nat \cup {-1}]
  BY <1>1, <1>2, <1>5, <1>6 DEF Null
<1>8. Used(u) = Used(t) \ {k}
  BY <1>0, <1>1, <1>2, <1>5, <1>6 DEF Used, Slots, Null
<1>9. u.num_elems = Cardinality(Used(u)) /\ u.num_elems \in Nat
  <2>1. Cardinality(Used(t) \ {k}) = Cardinality(Used(t)) - 1
    BY <1>1, <1>2, FS_RemoveElement
  <2>2. IsFiniteSet(Used(t) \ {k})
    BY <1>1, FS_RemoveElement
  <2>3. Cardinality(Used(t) \ {k}) \in Nat
    BY <2>2, FS_CardinalityType
  <2> QED BY <1>0, <1>6, <1>8, <2>1, <2>3
<1>10. u \in Shape(n, m)
  BY <1>0, <1>3, <1>5, <1>6, <1>7, <1>9 DEF Shape
<1>11. Drops(t, u, k)
  BY <1>1, <1>2, <1>5, <1>6, <1>8 DEF Drops
<1>12. u.elem_capacity > 0 => u.num_elems < u.elem_capacity
  BY <1>0, <1>6 DEF WellFormed
<1>13. WellFormed(u)
  BY <1>0, <1>4, <1>6, <1>8, <1>9, <1>10, <1>12 DEF WellFormed
<1> QED BY <1>11, <1>13 DEF u, k, b
===============================================================================
