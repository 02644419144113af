-------------------------- MODULE LaiOperandProofs --------------------------
(***************************************************************************)
(* The reference counts of LaiHeap and LaiOperand, for every number of     *)
(* objects, Names, invocations and operands.  A count is a number of       *)
(* places, so that the first part is about counting places; the second     *)
(* says for every operator on the heap how the count of every object and   *)
(* the number of places that hold it change together; the third follows    *)
(* the actions.  The last part says to which variable, and to which place  *)
(* in it, every object belongs, so that no two variables share one.  What  *)
(* the lemmas speak of is defined in LaiOperandInvariant.                  *)
(***************************************************************************)
EXTENDS LaiOperandInvariant, LaiHashtableProofs, SequenceTheorems

(***************************************************************************)
(* The places of a table: a finite set of rows, each a finite set.         *)
(***************************************************************************)

LEMMA ProductCardinality ==
  ASSUME NEW r, NEW T, IsFiniteSet(T)
  PROVE  IsFiniteSet({r} \X T) /\ Cardinality({r} \X T) = Cardinality(T)
<1>1. IsFiniteSet({r}) /\ Cardinality({r}) = 1
  BY FS_Singleton
<1>2. IsFiniteSet({r} \X T) /\ Cardinality({r} \X T) = Cardinality({r}) * Cardinality(T)
  BY <1>1, FS_Product
<1>3. Cardinality(T) \in Nat
  BY FS_CardinalityType
<1> QED BY <1>1, <1>2, <1>3

LEMMA DisjointUnion ==
  ASSUME NEW S, IsFiniteSet(S), NEW T, IsFiniteSet(T), S \cap T = {}
  PROVE  /\ IsFiniteSet(S \cup T)
         /\ Cardinality(S \cup T) = Cardinality(S) + Cardinality(T)
<1>1. /\ IsFiniteSet(S \cup T)
      /\ Cardinality(S \cup T) = Cardinality(S) + Cardinality(T) - Cardinality({})
  BY FS_Union
<1>2. Cardinality(S) \in Nat /\ Cardinality(T) \in Nat /\ Cardinality({}) = 0
  BY FS_CardinalityType, FS_EmptySet
<1> QED BY <1>1, <1>2

LEMMA TableFinite ==
  ASSUME NEW S, IsFiniteSet(DOMAIN S), \A r \in DOMAIN S : IsFiniteSet(S[r])
  PROVE  IsFiniteSet(Table(S)) /\ Cardinality(Table(S)) \in Nat
<1> DEFINE D == DOMAIN S
           T == {{r} \X S[r] : r \in D}
           f == [r \in D |-> {r} \X S[r]]
<1>1. f \in Surjection(D, T)
  BY DEF Surjection
<1>2. IsFiniteSet(T)
  BY <1>1, FS_Surjection
<1>3. \A t \in T : IsFiniteSet(t)
  <2> SUFFICES ASSUME NEW r \in D PROVE IsFiniteSet({r} \X S[r])
    OBVIOUS
  <2> QED BY ProductCardinality
<1>4. IsFiniteSet(UNION T)
  BY <1>2, <1>3, FS_UNION
<1>5. Table(S) = UNION T
  BY DEF Table
<1> QED
  <2> HIDE DEF T
  <2> QED BY <1>4, <1>5, FS_CardinalityType

\* The places of one row and those of the others.
LEMMA TableSplit ==
  ASSUME NEW S, IsFiniteSet(DOMAIN S), \A r \in DOMAIN S : IsFiniteSet(S[r]),
         NEW r \in DOMAIN S
  PROVE  LET others == [x \in DOMAIN S \ {r} |-> S[x]]
         IN  /\ Cardinality(Table(others)) \in Nat /\ Cardinality(S[r]) \in Nat
             /\ Cardinality(Table(S)) = Cardinality(Table(others)) + Cardinality(S[r])
<1> DEFINE others == [x \in DOMAIN S \ {r} |-> S[x]]
<1>1. IsFiniteSet(DOMAIN S \ {r}) /\ DOMAIN others = DOMAIN S \ {r}
  BY FS_RemoveElement
<1>2. IsFiniteSet(Table(others)) /\ Cardinality(Table(others)) \in Nat
  BY <1>1, TableFinite
<1>3. IsFiniteSet({r} \X S[r]) /\ Cardinality({r} \X S[r]) = Cardinality(S[r])
  BY ProductCardinality
<1>4. Table(S) = Table(others) \cup ({r} \X S[r])
  BY DEF Table
<1>5. Table(others) \cap ({r} \X S[r]) = {}
  BY DEF Table
<1>6. Cardinality(S[r]) \in Nat
  BY FS_CardinalityType
<1> HIDE DEF others
<1>7. Cardinality(Table(S)) = Cardinality(Table(others)) + Cardinality({r} \X S[r])
  BY <1>2, <1>3, <1>4, <1>5, DisjointUnion
<1>8. /\ Cardinality(Table(others)) \in Nat /\ Cardinality(S[r]) \in Nat
      /\ Cardinality(Table(S)) = Cardinality(Table(others)) + Cardinality(S[r])
  BY <1>2, <1>3, <1>6, <1>7
<1> QED BY <1>8 DEF others

(***************************************************************************)
(* The values in a sequence, or in any function, that hold an object.      *)
(***************************************************************************)

LEMMA UsesType ==
  ASSUME NEW vs, NEW o, IsFiniteSet(DOMAIN vs)
  PROVE  /\ IsFiniteSet(Users(vs, o)) /\ Uses(vs, o) = Cardinality(Users(vs, o))
         /\ Uses(vs, o) \in Nat
<1>1. Users(vs, o) \subseteq DOMAIN vs
  BY DEF Users
<1>2. IsFiniteSet(Users(vs, o))
  BY <1>1, FS_Subset
<1> QED BY <1>2, FS_CardinalityType DEF Uses, Users

LEMMA SeqFinite ==
  ASSUME NEW V, NEW vs \in Seq(V)
  PROVE  IsFiniteSet(DOMAIN vs) /\ Cardinality(DOMAIN vs) = Len(vs)
<1> DEFINE n == Len(vs)
<1>1. n \in Nat /\ DOMAIN vs = 1..n
  OBVIOUS
<1> HIDE DEF n
<1>2. IsFiniteSet(1..n) /\ Cardinality(1..n) = n
  BY <1>1, FS_Interval
<1> QED BY <1>1, <1>2 DEF n

LEMMA UsesOfSeq ==
  ASSUME NEW V, NEW vs \in Seq(V), NEW o
  PROVE  Uses(vs, o) \in Nat
BY SeqFinite, UsesType

LEMMA UsesNone == \A o : Uses(<<>>, o) = 0
<1> SUFFICES ASSUME NEW o PROVE Uses(<<>>, o) = 0
  OBVIOUS
<1>1. Users(<<>>, o) = {}
  BY DEF Users
<1>2. Uses(<<>>, o) = Cardinality(Users(<<>>, o))
  BY DEF Uses, Users
<1> QED BY <1>1, <1>2, FS_EmptySet

\* A value that is used is counted, and one of an object without users is not.
LEMMA UsesSome ==
  ASSUME NEW vs, NEW o, IsFiniteSet(DOMAIN vs), NEW i \in DOMAIN vs, Holds(vs[i], o)
  PROVE  Uses(vs, o) >= 1
<1>1. IsFiniteSet(Users(vs, o)) /\ Uses(vs, o) = Cardinality(Users(vs, o)) /\ Uses(vs, o) \in Nat
  BY UsesType
<1>2. Users(vs, o) # {}
  BY DEF Users
<1> QED BY <1>1, <1>2, FS_EmptySet

LEMMA UsesSame ==
  ASSUME NEW vs, NEW ws, NEW o, DOMAIN vs = DOMAIN ws,
         \A i \in DOMAIN vs : Holds(vs[i], o) <=> Holds(ws[i], o)
  PROVE  Uses(vs, o) = Uses(ws, o)
BY DEF Uses

\* One value is replaced by another.
LEMMA UsesAt ==
  ASSUME NEW vs, NEW ws, NEW o, IsFiniteSet(DOMAIN vs), DOMAIN ws = DOMAIN vs,
         NEW i \in DOMAIN vs, \A j \in DOMAIN vs \ {i} : Holds(ws[j], o) <=> Holds(vs[j], o)
  PROVE  /\ Uses(vs, o) \in Nat /\ Uses(ws, o) \in Nat
         /\ Uses(ws, o) + One(vs[i], o) = Uses(vs, o) + One(ws[i], o)
<1> DEFINE A == Users(vs, o) \ {i}
           B == Users(ws, o) \ {i}
<1>1. A = B
  BY DEF Users
<1>2. /\ IsFiniteSet(Users(vs, o)) /\ Uses(vs, o) = Cardinality(Users(vs, o))
      /\ Uses(vs, o) \in Nat
  BY UsesType
<1>3. /\ IsFiniteSet(Users(ws, o)) /\ Uses(ws, o) = Cardinality(Users(ws, o))
      /\ Uses(ws, o) \in Nat
  BY UsesType
<1>4. Cardinality(A) = Uses(vs, o) - One(vs[i], o)
  <2> DEFINE U == Users(vs, o)
  <2>1. i \in U <=> Holds(vs[i], o)
    BY DEF Users
  <2> HIDE DEF U
  <2>2. Cardinality(U \ {i}) = IF i \in U THEN Cardinality(U) - 1 ELSE Cardinality(U)
    BY <1>2, FS_RemoveElement DEF U
  <2> QED BY <1>2, <2>1, <2>2 DEF U, One
<1>5. Cardinality(B) = Uses(ws, o) - One(ws[i], o)
  <2> DEFINE U == Users(ws, o)
  <2>1. i \in U <=> Holds(ws[i], o)
    BY DEF Users
  <2> HIDE DEF U
  <2>2. Cardinality(U \ {i}) = IF i \in U THEN Cardinality(U) - 1 ELSE Cardinality(U)
    BY <1>3, FS_RemoveElement DEF U
  <2> QED BY <1>3, <2>1, <2>2 DEF U, One
<1>6. One(vs[i], o) \in Nat /\ One(ws[i], o) \in Nat
  BY DEF One
<1> HIDE DEF A, B
<1> QED BY <1>1, <1>2, <1>3, <1>4, <1>5, <1>6

LEMMA UsesConcat ==
  ASSUME NEW V, NEW vs \in Seq(V), NEW ws \in Seq(V), NEW o
  PROVE  /\ Uses(vs, o) \in Nat /\ Uses(ws, o) \in Nat
         /\ Uses(vs \o ws, o) = Uses(vs, o) + Uses(ws, o)
<1> DEFINE n == Len(vs)
           all == vs \o ws
           A == Users(vs, o)
           B == Users(ws, o)
           C == {n + i : i \in B}
           f == [i \in B |-> n + i]
<1>1. n \in Nat /\ DOMAIN vs = 1..n /\ Len(ws) \in Nat /\ DOMAIN ws = 1..Len(ws)
  OBVIOUS
<1>2. /\ DOMAIN all = 1..n + Len(ws)
      /\ \A i \in 1..n : all[i] = vs[i]
      /\ \A i \in 1..Len(ws) : all[n + i] = ws[i]
  OBVIOUS
<1>3. IsFiniteSet(A) /\ Uses(vs, o) = Cardinality(A) /\ Uses(vs, o) \in Nat
  BY SeqFinite, UsesType
<1>4. IsFiniteSet(B) /\ Uses(ws, o) = Cardinality(B) /\ Uses(ws, o) \in Nat
  BY SeqFinite, UsesType
<1>5. B \subseteq 1..Len(ws) /\ A \subseteq 1..n
  BY <1>1 DEF Users
<1>6. f \in Bijection(B, C)
  BY <1>1, <1>5 DEF Bijection, Injection, IsInjective, Surjection
<1>7. IsFiniteSet(C) /\ Cardinality(C) = Cardinality(B)
  BY <1>4, <1>6, FS_Bijection DEF ExistsBijection
<1>8. A \cap C = {}
  BY <1>1, <1>5
<1>9. Users(all, o) = A \cup C
  <2> HIDE DEF n, all
  <2>1. ASSUME NEW i \in A \cup C PROVE i \in Users(all, o)
    BY <1>1, <1>2, <1>5 DEF Users
  <2>2. ASSUME NEW i \in Users(all, o) PROVE i \in A \cup C
    <3>1. i \in 1..n + Len(ws) /\ Holds(all[i], o)
      BY <1>2 DEF Users
    <3>2. CASE i <= n
      BY <1>1, <1>2, <3>1, <3>2 DEF Users
    <3>3. CASE i > n
      <4>1. i - n \in 1..Len(ws) /\ i = n + (i - n)
        BY <1>1, <3>1, <3>3
      <4>2. Holds(ws[i - n], o)
        BY <1>2, <3>1, <4>1
      <4> QED BY <1>1, <4>1, <4>2 DEF Users
    <3> QED BY <1>1, <3>1, <3>2, <3>3
  <2> QED BY <2>1, <2>2
<1>10. Uses(all, o) = Cardinality(Users(all, o))
  BY DEF Uses, Users
<1> HIDE DEF n, all, A, B, C
<1>11. Cardinality(A \cup C) = Cardinality(A) + Cardinality(C)
  BY <1>3, <1>7, <1>8, DisjointUnion
<1> QED BY <1>3, <1>4, <1>7, <1>9, <1>10, <1>11 DEF all

LEMMA UsesOne ==
  ASSUME NEW v, NEW o
  PROVE  Uses(<<v>>, o) = One(v, o)
<1>1. Uses(<<v>>, o) = Cardinality(Users(<<v>>, o))
  BY DEF Uses, Users
<1>2. CASE Holds(v, o)
  <2>1. Users(<<v>>, o) = {1}
    BY <1>2 DEF Users
  <2> QED BY <1>1, <1>2, <2>1, FS_Singleton DEF One
<1>3. CASE ~Holds(v, o)
  <2>1. Users(<<v>>, o) = {}
    BY <1>3 DEF Users
  <2> QED BY <1>1, <1>3, <2>1, FS_EmptySet DEF One
<1> QED BY <1>2, <1>3

LEMMA UsesAppend ==
  ASSUME NEW V, NEW vs \in Seq(V), NEW v \in V, NEW o
  PROVE  Uses(Append(vs, v), o) = Uses(vs, o) + One(v, o)
<1>1. Append(vs, v) = vs \o <<v>> /\ <<v>> \in Seq(V)
  OBVIOUS
<1>2. Uses(vs \o <<v>>, o) = Uses(vs, o) + Uses(<<v>>, o)
  BY <1>1, UsesConcat, ZenonT(30)
<1> QED BY <1>1, <1>2, UsesOne

LEMMA UsesHead ==
  ASSUME NEW V, NEW vs \in Seq(V), vs # <<>>, NEW o
  PROVE  /\ Head(vs) \in V /\ Tail(vs) \in Seq(V)
         /\ Uses(vs, o) = One(Head(vs), o) + Uses(Tail(vs), o)
<1>1. Head(vs) \in V /\ Tail(vs) \in Seq(V) /\ vs = <<Head(vs)>> \o Tail(vs)
  OBVIOUS
<1>2. Uses(<<Head(vs)>> \o Tail(vs), o) = Uses(<<Head(vs)>>, o) + Uses(Tail(vs), o)
  <2> <<Head(vs)>> \in Seq(V)
    BY <1>1
  <2> QED BY <1>1, UsesConcat, ZenonT(30)
<1> QED BY <1>1, <1>2, UsesOne

LEMMA UsesFront ==
  ASSUME NEW V, NEW vs \in Seq(V), vs # <<>>, NEW o
  PROVE  LET front == SubSeq(vs, 1, Len(vs) - 1)
         IN  /\ front \in Seq(V) /\ vs[Len(vs)] \in V
             /\ Uses(vs, o) = Uses(front, o) + One(vs[Len(vs)], o)
<1> DEFINE front == SubSeq(vs, 1, Len(vs) - 1)
<1>1. front \in Seq(V) /\ vs[Len(vs)] \in V /\ vs = Append(front, vs[Len(vs)])
  OBVIOUS
<1> HIDE DEF front
<1>2. Uses(Append(front, vs[Len(vs)]), o) = Uses(front, o) + One(vs[Len(vs)], o)
  BY <1>1, UsesAppend
<1>3. front \in Seq(V) /\ vs[Len(vs)] \in V
      /\ Uses(vs, o) = Uses(front, o) + One(vs[Len(vs)], o)
  BY <1>1, <1>2
<1> QED BY <1>3 DEF front

(***************************************************************************)
(* The values in the rows of a table that hold an object.                  *)
(***************************************************************************)

LEMMA UsesInTable ==
  ASSUME NEW rows, NEW o
  PROVE  UsesIn(rows, o) = Cardinality(Table([r \in DOMAIN rows |-> Users(rows[r], o)]))
BY SMTT(30) DEF UsesIn, Table, Users

LEMMA UsesInType ==
  ASSUME NEW rows, NEW o, FiniteRows(rows)
  PROVE  UsesIn(rows, o) \in Nat
<1> DEFINE S == [r \in DOMAIN rows |-> Users(rows[r], o)]
<1>1. IsFiniteSet(DOMAIN S) /\ \A r \in DOMAIN S : IsFiniteSet(S[r])
  BY UsesType DEF FiniteRows
<1> HIDE DEF S
<1>2. Cardinality(Table(S)) \in Nat
  BY <1>1, TableFinite
<1> QED BY <1>2, UsesInTable DEF S

LEMMA UsesInSplit ==
  ASSUME NEW rows, NEW o, FiniteRows(rows), NEW r \in DOMAIN rows
  PROVE  /\ UsesIn(Others(rows, r), o) \in Nat /\ Uses(rows[r], o) \in Nat
         /\ UsesIn(rows, o) = UsesIn(Others(rows, r), o) + Uses(rows[r], o)
<1> DEFINE S == [x \in DOMAIN rows |-> Users(rows[x], o)]
           T == [x \in DOMAIN rows \ {r} |-> Users(rows[x], o)]
<1>1. IsFiniteSet(DOMAIN S) /\ \A x \in DOMAIN S : IsFiniteSet(S[x])
  BY UsesType DEF FiniteRows
<1>2. /\ r \in DOMAIN S /\ T = [x \in DOMAIN S \ {r} |-> S[x]]
      /\ Cardinality(S[r]) = Uses(rows[r], o)
  BY UsesType DEF FiniteRows
<1>3. UsesIn(rows, o) = Cardinality(Table(S))
  BY UsesInTable
<1>4. UsesIn(Others(rows, r), o) = Cardinality(Table(T))
  <2>1. T = [x \in DOMAIN Others(rows, r) |-> Users(Others(rows, r)[x], o)]
    BY DEF Others
  <2> HIDE DEF T
  <2> QED BY <2>1, UsesInTable
<1> HIDE DEF S, T
<1>5. /\ Cardinality(Table(T)) \in Nat /\ Cardinality(S[r]) \in Nat
      /\ Cardinality(Table(S)) = Cardinality(Table(T)) + Cardinality(S[r])
  BY <1>1, <1>2, TableSplit
<1> QED BY <1>2, <1>3, <1>4, <1>5

LEMMA UsesInSame ==
  ASSUME NEW rows, NEW cols, NEW o, DOMAIN rows = DOMAIN cols,
         \A r \in DOMAIN rows : Users(rows[r], o) = Users(cols[r], o)
  PROVE  UsesIn(rows, o) = UsesIn(cols, o)
<1>1. [r \in DOMAIN rows |-> Users(rows[r], o)] = [r \in DOMAIN cols |-> Users(cols[r], o)]
  OBVIOUS
<1> QED BY <1>1, UsesInTable

\* One row is replaced by another.
LEMMA UsesInAt ==
  ASSUME NEW rows, NEW cols, NEW o, FiniteRows(rows), FiniteRows(cols),
         DOMAIN rows = DOMAIN cols, NEW r \in DOMAIN rows,
         \A x \in DOMAIN rows \ {r} : Users(cols[x], o) = Users(rows[x], o)
  PROVE  /\ UsesIn(rows, o) \in Nat /\ UsesIn(cols, o) \in Nat
         /\ Uses(rows[r], o) \in Nat /\ Uses(cols[r], o) \in Nat
         /\ UsesIn(cols, o) + Uses(rows[r], o) = UsesIn(rows, o) + Uses(cols[r], o)
<1>1. UsesIn(Others(rows, r), o) = UsesIn(Others(cols, r), o)
  <2>1. /\ DOMAIN Others(rows, r) = DOMAIN Others(cols, r)
        /\ \A x \in DOMAIN Others(rows, r) :
              Users(Others(rows, r)[x], o) = Users(Others(cols, r)[x], o)
    BY DEF Others
  <2> QED BY <2>1, UsesInSame
<1>2. /\ UsesIn(Others(rows, r), o) \in Nat /\ Uses(rows[r], o) \in Nat
      /\ UsesIn(rows, o) = UsesIn(Others(rows, r), o) + Uses(rows[r], o)
  BY UsesInSplit
<1>3. /\ UsesIn(Others(cols, r), o) \in Nat /\ Uses(cols[r], o) \in Nat
      /\ UsesIn(cols, o) = UsesIn(Others(cols, r), o) + Uses(cols[r], o)
  BY UsesInSplit
<1>4. UsesIn(rows, o) \in Nat /\ UsesIn(cols, o) \in Nat
  BY UsesInType
<1> QED BY <1>1, <1>2, <1>3, <1>4

\* A row that holds an object is counted.
LEMMA UsesInSome ==
  ASSUME NEW rows, NEW o, FiniteRows(rows), NEW r \in DOMAIN rows
  PROVE  UsesIn(rows, o) \in Nat /\ Uses(rows[r], o) \in Nat /\ Uses(rows[r], o) <= UsesIn(rows, o)
<1>1. /\ UsesIn(Others(rows, r), o) \in Nat /\ Uses(rows[r], o) \in Nat
      /\ UsesIn(rows, o) = UsesIn(Others(rows, r), o) + Uses(rows[r], o)
  BY UsesInSplit
<1> QED BY <1>1

(***************************************************************************)
(* Heaps of values in V, and heaps in which the count of every object is   *)
(* the number of elements that hold it and of the places outside of the    *)
(* heap that do, which are given by c.                                     *)
(***************************************************************************)

LEMMA PlusType ==
  ASSUME NEW V, NEW c \in [Objects -> Nat], NEW vs \in Seq(V)
  PROVE  Plus(c, vs) \in [Objects -> Nat]
<1>1. \A o \in Objects : Uses(vs, o) \in Nat
  BY UsesOfSeq
<1> QED BY <1>1 DEF Plus

LEMMA PlusAt ==
  ASSUME NEW c, NEW vs, NEW o \in Objects
  PROVE  Plus(c, vs)[o] = c[o] + Uses(vs, o)
BY DEF Plus

LEMMA PlusOne ==
  ASSUME NEW V, NEW c \in [Objects -> Nat], NEW v \in V
  PROVE  /\ Plus(c, <<v>>) \in [Objects -> Nat]
         /\ \A o \in Objects : Plus(c, <<v>>)[o] = c[o] + One(v, o)
<1>1. <<v>> \in Seq(V)
  OBVIOUS
<1>2. Plus(c, <<v>>) \in [Objects -> Nat]
  BY <1>1, PlusType
<1>3. \A o \in Objects : Plus(c, <<v>>)[o] = c[o] + One(v, o)
  BY UsesOne, PlusAt
<1> QED BY <1>2, <1>3

LEMMA HeapRows ==
  ASSUME NEW V, NEW h \in HeapOf(V)
  PROVE  /\ FiniteRows(Rows(h)) /\ DOMAIN Rows(h) = Objects
         /\ \A p \in Objects : Rows(h)[p] = h[p].elems /\ h[p].elems \in Seq(V)
         /\ \A o : UsesIn(Rows(h), o) \in Nat
<1>1. DOMAIN Rows(h) = Objects /\ \A p \in Objects : Rows(h)[p] = h[p].elems
  BY DEF Rows
<1>2. ASSUME NEW p \in Objects PROVE h[p].elems \in Seq(V)
  BY DEF HeapOf, Cell
<1>3. FiniteRows(Rows(h))
  BY <1>1, <1>2, SeqFinite, ObjectsAssumption DEF FiniteRows
<1> QED BY <1>1, <1>2, <1>3, UsesInType

\* Two heaps that differ in the elements of one object.
LEMMA HeapAt ==
  ASSUME NEW V, NEW h \in HeapOf(V), NEW h2 \in HeapOf(V), NEW x \in Objects,
         \A p \in Objects \ {x} : h2[p].elems = h[p].elems, NEW o
  PROVE  /\ UsesIn(Rows(h), o) \in Nat /\ UsesIn(Rows(h2), o) \in Nat
         /\ Uses(h[x].elems, o) \in Nat /\ Uses(h2[x].elems, o) \in Nat
         /\ UsesIn(Rows(h2), o) + Uses(h[x].elems, o) = UsesIn(Rows(h), o) + Uses(h2[x].elems, o)
<1>1. /\ FiniteRows(Rows(h)) /\ DOMAIN Rows(h) = Objects
      /\ FiniteRows(Rows(h2)) /\ DOMAIN Rows(h2) = Objects
      /\ \A p \in Objects : Rows(h)[p] = h[p].elems /\ Rows(h2)[p] = h2[p].elems
  BY HeapRows
<1>2. \A p \in Objects \ {x} : Users(Rows(h2)[p], o) = Users(Rows(h)[p], o)
  BY <1>1
<1>3. Rows(h)[x] = h[x].elems /\ Rows(h2)[x] = h2[x].elems
  BY <1>1
<1> QED BY ONLY <1>1, <1>2, <1>3, UsesInAt

\* Two heaps with the same elements.
LEMMA HeapSame ==
  ASSUME NEW h, NEW h2, \A p \in Objects : h2[p].elems = h[p].elems
  PROVE  Rows(h2) = Rows(h)
BY DEF Rows

\* What is used has not been freed.
LEMMA UsedAlive ==
  ASSUME NEW V, NEW h, NEW c, Counted(h, V, c), NEW o \in Objects,
         c[o] > 0 \/ \E p \in Objects : \E i \in DOMAIN h[p].elems : Holds(h[p].elems[i], o)
  PROVE  h[o].kind # "free" /\ h[o].rc \in Nat /\ h[o].rc > 0
<1>1. /\ h \in HeapOf(V) /\ c[o] \in Nat /\ h[o].rc = UsesIn(Rows(h), o) + c[o]
      /\ h[o].kind = "free" <=> h[o].rc = 0
  BY DEF Counted
<1>2. UsesIn(Rows(h), o) \in Nat
  BY <1>1, HeapRows
<1>3. CASE c[o] > 0
  BY <1>1, <1>2, <1>3
<1>4. ASSUME NEW p \in Objects, NEW i \in DOMAIN h[p].elems, Holds(h[p].elems[i], o)
      PROVE  UsesIn(Rows(h), o) >= 1
  <2>1. FiniteRows(Rows(h)) /\ p \in DOMAIN Rows(h) /\ Rows(h)[p] = h[p].elems
    BY <1>1, HeapRows
  <2>2. IsFiniteSet(DOMAIN h[p].elems)
    BY <2>1 DEF FiniteRows
  <2>3. Uses(h[p].elems, o) >= 1
    BY <1>4, <2>2, UsesSome
  <2>4. Uses(Rows(h)[p], o) \in Nat /\ Uses(Rows(h)[p], o) <= UsesIn(Rows(h), o)
    BY <2>1, UsesInSome
  <2> QED BY <1>2, <2>1, <2>3, <2>4
<1>5. UsesIn(Rows(h), o) >= 1 \/ c[o] > 0
  BY <1>4
<1> QED BY <1>1, <1>2, <1>5

\* A new reference to a value of which the object is alive.
LEMMA RefType ==
  ASSUME NEW V, ValueSet(V), NEW h \in HeapOf(V), NEW v \in V
  PROVE  /\ Ref(h, v) \in HeapOf(V)
         /\ \A o \in Objects :
              /\ Ref(h, v)[o].kind = h[o].kind /\ Ref(h, v)[o].size = h[o].size
              /\ Ref(h, v)[o].elems = h[o].elems
              /\ Ref(h, v)[o].rc = h[o].rc + One(v, o)
<1>1. CASE ~Counts(v)
  <2>1. Ref(h, v) = h /\ \A o \in Objects : One(v, o) = 0 /\ h[o].rc \in Nat
    BY <1>1 DEF Ref, One, Holds, HeapOf, Cell
  <2> QED BY <2>1
<1>2. CASE Counts(v)
  <2>1. v.object \in Objects
    BY <1>2 DEF ValueSet
  <2> DEFINE x == v.object
  <2>2. Ref(h, v) = [h EXCEPT ![x].rc = @ + 1]
    BY <1>2 DEF Ref
  <2>3. \A o \in Objects : One(v, o) = IF o = x THEN 1 ELSE 0
    BY <1>2 DEF One, Holds
  <2>4. h \in [Objects -> Cell(V)] /\ \A o \in Objects : CellOK(h[o]) /\ h[o].rc \in Nat
    BY DEF HeapOf, Cell
  <2> HIDE DEF x
  <2>5. x \in Objects
    BY <2>1 DEF x
  <2>6. \A o \in Objects :
              /\ Ref(h, v)[o].kind = h[o].kind /\ Ref(h, v)[o].size = h[o].size
              /\ Ref(h, v)[o].elems = h[o].elems
              /\ Ref(h, v)[o].rc = h[o].rc + One(v, o)
    BY <2>2, <2>3, <2>4, <2>5 DEF Cell
  <2>7. Ref(h, v) \in [Objects -> Cell(V)]
    <3> DEFINE cell == [h[x] EXCEPT !.rc = @ + 1]
    <3>1. h[x] \in Cell(V) /\ h[x].rc \in Nat
      BY <2>4, <2>5
    <3>2. cell \in Cell(V)
      BY <3>1 DEF Cell
    <3>3. Ref(h, v) = [h EXCEPT ![x] = cell]
      BY <2>2, <2>4, <2>5
    <3> HIDE DEF cell
    <3> QED BY <2>4, <2>5, <3>2, <3>3
  <2>8. \A o \in Objects : CellOK(Ref(h, v)[o])
    BY <2>4, <2>6 DEF CellOK
  <2> QED BY <2>6, <2>7, <2>8 DEF HeapOf
<1> QED BY <1>1, <1>2

LEMMA RefKeeps ==
  ASSUME NEW V, ValueSet(V), NEW h, NEW c, Counted(h, V, c), NEW v \in V,
         Counts(v) => h[v.object].kind # "free"
  PROVE  Counted(Ref(h, v), V, Plus(c, <<v>>)) /\ Grows(h, Ref(h, v)) /\ Shrinks(h, Ref(h, v))
<1>1. /\ h \in HeapOf(V) /\ c \in [Objects -> Nat]
      /\ \A o \in Objects : /\ h[o].rc = UsesIn(Rows(h), o) + c[o]
                            /\ h[o].kind = "free" <=> h[o].rc = 0
  BY DEF Counted
<1> DEFINE g == Ref(h, v)
<1>2. /\ g \in HeapOf(V)
      /\ \A o \in Objects : /\ g[o].kind = h[o].kind /\ g[o].size = h[o].size
                            /\ g[o].elems = h[o].elems /\ g[o].rc = h[o].rc + One(v, o)
  BY <1>1, RefType
<1>3. Rows(g) = Rows(h)
  BY <1>2, HeapSame
<1>4. Plus(c, <<v>>) \in [Objects -> Nat] /\ \A o \in Objects : Plus(c, <<v>>)[o] = c[o] + One(v, o)
  BY <1>1, PlusOne
<1> HIDE DEF g
<1>5. ASSUME NEW o \in Objects
      PROVE  /\ g[o].rc = UsesIn(Rows(g), o) + Plus(c, <<v>>)[o]
             /\ g[o].kind = "free" <=> g[o].rc = 0
  <2>1. UsesIn(Rows(h), o) \in Nat /\ c[o] \in Nat
    BY <1>1, HeapRows
  <2>2. One(v, o) \in {0, 1} /\ (One(v, o) = 1 => h[o].kind # "free")
    BY DEF One, Holds
  <2>3. h[o].rc = UsesIn(Rows(h), o) + c[o] /\ (h[o].kind = "free" <=> h[o].rc = 0)
    BY <1>1
  <2>4. g[o].kind = h[o].kind /\ g[o].rc = h[o].rc + One(v, o) /\ UsesIn(Rows(g), o) = UsesIn(Rows(h), o)
    BY <1>2, <1>3
  <2>5. Plus(c, <<v>>)[o] = c[o] + One(v, o)
    BY <1>4
  <2> QED BY ONLY <2>1, <2>2, <2>3, <2>4, <2>5
<1>6. Grows(h, g) /\ Shrinks(h, g)
  BY <1>2 DEF Grows, Shrinks
<1> QED BY <1>2, <1>4, <1>5, <1>6 DEF Counted, g

\* One object is replaced.
LEMMA CellKeeps ==
  ASSUME NEW V, NEW h \in HeapOf(V), NEW x \in Objects, NEW cell \in Cell(V), CellOK(cell)
  PROVE  LET g == [h EXCEPT ![x] = cell]
         IN  /\ g \in HeapOf(V) /\ g[x] = cell
             /\ \A o \in Objects \ {x} : g[o] = h[o]
<1> DEFINE g == [h EXCEPT ![x] = cell]
<1>1. h \in [Objects -> Cell(V)] /\ \A o \in Objects : CellOK(h[o])
  BY DEF HeapOf
<1>2. g \in [Objects -> Cell(V)] /\ g[x] = cell /\ \A o \in Objects \ {x} : g[o] = h[o]
  BY <1>1
<1>3. \A o \in Objects : CellOK(g[o])
  BY <1>1, <1>2
<1> HIDE DEF g
<1>4. g \in HeapOf(V) /\ g[x] = cell /\ \A o \in Objects \ {x} : g[o] = h[o]
  BY <1>2, <1>3 DEF HeapOf
<1> QED BY <1>4 DEF g

LEMMA CellType ==
  ASSUME NEW V, NEW h \in HeapOf(V), NEW x \in Objects
  PROVE  /\ h[x] \in Cell(V) /\ CellOK(h[x])
         /\ h[x].kind \in {"free", "bytes", "package"} /\ h[x].rc \in Nat /\ h[x].size \in Nat
         /\ h[x].elems \in Seq(V)
BY DEF HeapOf, Cell

LEMMA ElemsTable ==
  ASSUME NEW V, NEW h \in HeapOf(V)
  PROVE  LET S == [o \in Objects |-> DOMAIN h[o].elems]
         IN  /\ Elems(h) = Cardinality(Table(S)) /\ Elems(h) \in Nat
             /\ IsFiniteSet(DOMAIN S) /\ \A r \in DOMAIN S : IsFiniteSet(S[r])
<1> DEFINE S == [o \in Objects |-> DOMAIN h[o].elems]
<1>1. Elems(h) = Cardinality(Table(S))
  BY DEF Elems, Table
<1>2. IsFiniteSet(DOMAIN S)
  BY ObjectsAssumption
<1>3. \A r \in DOMAIN S : IsFiniteSet(S[r])
  BY CellType, SeqFinite
<1> HIDE DEF S
<1>4. Cardinality(Table(S)) \in Nat
  BY <1>2, <1>3, TableFinite
<1>5. Elems(h) = Cardinality(Table(S)) /\ Elems(h) \in Nat
      /\ IsFiniteSet(DOMAIN S) /\ \A r \in DOMAIN S : IsFiniteSet(S[r])
  BY <1>1, <1>2, <1>3, <1>4
<1> QED BY <1>5 DEF S

LEMMA ElemsSame ==
  ASSUME NEW h, NEW g, \A o \in Objects : g[o].elems = h[o].elems
  PROVE  Elems(g) = Elems(h)
BY DEF Elems

\* An object loses its elements.
LEMMA ElemsFreed ==
  ASSUME NEW V, NEW h \in HeapOf(V), NEW g \in HeapOf(V), NEW x \in Objects, g[x].elems = <<>>,
         \A o \in Objects \ {x} : g[o].elems = h[o].elems
  PROVE  /\ Elems(g) \in Nat /\ Elems(h) \in Nat /\ Len(h[x].elems) \in Nat
         /\ Elems(h) = Elems(g) + Len(h[x].elems)
<1> DEFINE S == [o \in Objects |-> DOMAIN h[o].elems]
           T == [o \in Objects |-> DOMAIN g[o].elems]
           A == [o \in DOMAIN S \ {x} |-> S[o]]
           B == [o \in DOMAIN T \ {x} |-> T[o]]
<1>1. /\ Elems(h) = Cardinality(Table(S)) /\ Elems(h) \in Nat
      /\ IsFiniteSet(DOMAIN S) /\ \A r \in DOMAIN S : IsFiniteSet(S[r])
  BY ElemsTable
<1>2. /\ Elems(g) = Cardinality(Table(T)) /\ Elems(g) \in Nat
      /\ IsFiniteSet(DOMAIN T) /\ \A r \in DOMAIN T : IsFiniteSet(T[r])
  BY ElemsTable
<1>3. A = B /\ S[x] = DOMAIN h[x].elems /\ T[x] = {} /\ x \in DOMAIN S /\ x \in DOMAIN T
  OBVIOUS
<1>4. Cardinality(S[x]) = Len(h[x].elems) /\ Len(h[x].elems) \in Nat
  <2>1. h[x].elems \in Seq(V)
    BY CellType
  <2>2. Cardinality(DOMAIN h[x].elems) = Len(h[x].elems) /\ Len(h[x].elems) \in Nat
    BY <2>1, SeqFinite
  <2> QED BY <1>3, <2>2
<1>5. Cardinality(T[x]) = 0
  BY <1>3, FS_EmptySet
<1> HIDE DEF S, T
<1>6. Cardinality(Table(A)) \in Nat /\ Cardinality(Table(S)) = Cardinality(Table(A)) + Cardinality(S[x])
  BY <1>1, <1>3, TableSplit, SMTT(30)
<1>7. Cardinality(Table(B)) \in Nat /\ Cardinality(Table(T)) = Cardinality(Table(B)) + Cardinality(T[x])
  BY <1>2, <1>3, TableSplit
<1> HIDE DEF A, B
<1> QED BY <1>1, <1>2, <1>3, <1>4, <1>5, <1>6, <1>7

LEMMA FreeKeeps ==
  ASSUME NEW V, ValueSet(V), NEW c \in [Objects -> Nat], NEW h, NEW left, NEW v, NEW rest, NEW g,
         LastUse(V, c, h, left, v, rest), Freed(V, h, g, v.object)
  PROVE  LET more == h[v.object].elems \o rest
         IN  /\ more \in Seq(V) /\ Counted(g, V, Plus(c, more)) /\ Shrinks(h, g)
             /\ Len(more) + Elems(g) + 1 = Len(left) + Elems(h)
<1> DEFINE x == v.object
           more == h[x].elems \o rest
<1> USE DEF LastUse, Freed
<1> DEFINE e == h[x].elems
<1>0. more = e \o rest
  OBVIOUS
<1>1. /\ h \in HeapOf(V) /\ x \in Objects
      /\ \A o \in Objects : /\ h[o].rc = UsesIn(Rows(h), o) + Plus(c, left)[o]
                            /\ h[o].kind = "free" <=> h[o].rc = 0
  BY DEF Counted, ValueSet
<1>2. e \in Seq(V) /\ more \in Seq(V)
  BY <1>0, <1>1, CellType
<1>3. h \in HeapOf(V) /\ g \in HeapOf(V) /\ x \in Objects
  BY <1>1
<1>4. g \in HeapOf(V) /\ g[x] = Free /\ \A o \in Objects \ {x} : g[o] = h[o]
  OBVIOUS
<1>14. v \in V /\ rest \in Seq(V) /\ left = <<v>> \o rest
  OBVIOUS
<1> HIDE DEF e, x, more, LastUse, Freed
<1>5. ASSUME NEW o \in Objects
      PROVE  /\ Uses(e, o) \in Nat /\ Uses(rest, o) \in Nat /\ c[o] \in Nat
             /\ Plus(c, more)[o] = c[o] + (Uses(e, o) + Uses(rest, o))
             /\ Plus(c, left)[o] = c[o] + (One(v, o) + Uses(rest, o))
  <2>1. Uses(e, o) \in Nat /\ Uses(rest, o) \in Nat /\ Uses(more, o) = Uses(e, o) + Uses(rest, o)
    BY <1>0, <1>2, UsesConcat
  <2>2. <<v>> \in Seq(V)
    BY <1>14
  <2>3. Uses(<<v>> \o rest, o) = Uses(<<v>>, o) + Uses(rest, o)
    BY <1>14, <2>2, UsesConcat, ZenonT(30)
  <2>4. Uses(left, o) = One(v, o) + Uses(rest, o)
    BY <1>14, <2>3, UsesOne
  <2> QED BY <2>1, <2>4, PlusAt
<1>6. ASSUME NEW o \in Objects
      PROVE  /\ UsesIn(Rows(g), o) \in Nat /\ UsesIn(Rows(h), o) \in Nat
             /\ UsesIn(Rows(g), o) + Uses(e, o) = UsesIn(Rows(h), o)
  <2>0. \A p \in Objects \ {x} : g[p].elems = h[p].elems
    BY <1>4
  <2>1. /\ UsesIn(Rows(h), o) \in Nat /\ UsesIn(Rows(g), o) \in Nat
        /\ UsesIn(Rows(g), o) + Uses(h[x].elems, o) = UsesIn(Rows(h), o) + Uses(g[x].elems, o)
    BY ONLY <1>1, <1>4, <2>0, HeapAt
  <2>2. g[x].elems = <<>>
    BY <1>4 DEF Free
  <2>3. Uses(g[x].elems, o) = 0
    BY <2>2, UsesNone
  <2> QED BY <2>1, <2>3 DEF e
<1>7. One(v, x) = 1 /\ \A o \in Objects \ {x} : One(v, o) = 0
  BY DEF One, Holds, x, LastUse
<1>8. h[x].rc \in Nat /\ ~(h[x].rc > 1)
  BY <1>1, CellType DEF x, LastUse
<1>9. ASSUME NEW o \in Objects
      PROVE  /\ g[o].rc = UsesIn(Rows(g), o) + Plus(c, more)[o]
             /\ g[o].kind = "free" <=> g[o].rc = 0
  <2>1. /\ h[o].rc = UsesIn(Rows(h), o) + Plus(c, left)[o]
        /\ h[o].kind = "free" <=> h[o].rc = 0
    BY <1>1
  <2>4. /\ Uses(e, o) \in Nat /\ Uses(rest, o) \in Nat /\ c[o] \in Nat
        /\ Plus(c, more)[o] = c[o] + (Uses(e, o) + Uses(rest, o))
        /\ Plus(c, left)[o] = c[o] + (One(v, o) + Uses(rest, o))
    BY <1>5
  <2>5. /\ UsesIn(Rows(g), o) \in Nat /\ UsesIn(Rows(h), o) \in Nat
        /\ UsesIn(Rows(g), o) + Uses(e, o) = UsesIn(Rows(h), o)
    BY <1>6
  <2>2. CASE o = x
    <3>1. g[o].kind = "free" /\ g[o].rc = 0
      BY <1>4, <2>2 DEF Free
    <3>2. One(v, o) = 1 /\ h[o].rc \in Nat /\ ~(h[o].rc > 1)
      BY <1>7, <1>8, <2>2
    <3>3. UsesIn(Rows(h), o) = 0 /\ c[o] = 0 /\ Uses(rest, o) = 0
      BY ONLY <2>1, <2>4, <2>5, <3>2
    <3>4. UsesIn(Rows(g), o) = 0 /\ Uses(e, o) = 0
      BY ONLY <2>4, <2>5, <3>3
    <3>5. Plus(c, more)[o] = 0
      BY ONLY <2>4, <3>3, <3>4
    <3> QED BY ONLY <3>1, <3>4, <3>5
  <2>3. CASE o # x
    <3>1. g[o] = h[o] /\ One(v, o) = 0
      BY <1>4, <1>7, <2>3
    <3>2. Plus(c, left)[o] = c[o] + Uses(rest, o)
      BY ONLY <2>4, <3>1
    <3>3. UsesIn(Rows(h), o) + Plus(c, left)[o] = UsesIn(Rows(g), o) + Plus(c, more)[o]
      BY ONLY <2>4, <2>5, <3>2
    <3>4. g[o].rc = h[o].rc /\ g[o].kind = h[o].kind
      BY ONLY <3>1
    <3> QED BY ONLY <2>1, <3>3, <3>4
  <2> QED BY <2>2, <2>3
<1>10. Plus(c, more) \in [Objects -> Nat]
  BY <1>2, PlusType
<1>11. Shrinks(h, g)
  <2>1. g[x].kind = "free"
    BY <1>4 DEF Free
  <2>2. \A o \in Objects : g[o].kind # "free" => g[o] = h[o]
    BY <1>4, <2>1
  <2> QED BY <2>2 DEF Shrinks
<1>12. Len(more) + Elems(g) + 1 = Len(left) + Elems(h)
  <2>1. /\ Elems(g) \in Nat /\ Elems(h) \in Nat /\ Len(e) \in Nat
        /\ Elems(h) = Elems(g) + Len(e)
    <3>1. g[x].elems = <<>> /\ \A o \in Objects \ {x} : g[o].elems = h[o].elems
      BY <1>4 DEF Free
    <3>2. /\ Elems(g) \in Nat /\ Elems(h) \in Nat /\ Len(h[x].elems) \in Nat
          /\ Elems(h) = Elems(g) + Len(h[x].elems)
      BY ONLY <1>3, <3>1, ElemsFreed
    <3> QED BY <3>2 DEF e
  <2>2. Len(more) = Len(e) + Len(rest) /\ Len(left) = 1 + Len(rest) /\ Len(rest) \in Nat
    BY <1>0, <1>2, <1>14
  <2> QED BY <2>1, <2>2
<1>13. Counted(g, V, Plus(c, more))
  BY <1>4, <1>9, <1>10 DEF Counted
<1> QED BY <1>2, <1>11, <1>12, <1>13 DEF more, x

LEMMA FinalizeNextKeeps ==
  ASSUME NEW V, ValueSet(V), NEW c \in [Objects -> Nat], NEW s \in Finalizing(V, c)
  PROVE  LET t == FinalizeNext(s)
         IN  /\ t \in Finalizing(V, c) /\ Shrinks(s.heap, t.heap)
             /\ IF s.left = <<>> THEN t = s
                ELSE Len(t.left) + Elems(t.heap) + 1 = Len(s.left) + Elems(s.heap)
<1> DEFINE t == FinalizeNext(s)
           h == s.heap
           left == s.left
           v == Head(left)
           rest == Tail(left)
           x == v.object
           Keeps2 == /\ t \in Finalizing(V, c) /\ Shrinks(h, t.heap)
                     /\ IF left = <<>> THEN t = s
                        ELSE Len(t.left) + Elems(t.heap) + 1 = Len(left) + Elems(h)
<1>1. /\ s = [heap |-> h, left |-> left] /\ h \in HeapOf(V) /\ left \in Seq(V)
      /\ Counted(h, V, Plus(c, left))
  BY DEF Finalizing
<1>2. CASE left = <<>>
  <2>1. t = s
    BY <1>2 DEF FinalizeNext
  <2>2. Shrinks(h, h)
    BY DEF Shrinks
  <2> QED BY <1>1, <1>2, <2>1, <2>2
<1>3. CASE left # <<>>
  <2>1. v \in V /\ rest \in Seq(V) /\ left = <<v>> \o rest /\ Len(left) = Len(rest) + 1
        /\ Len(rest) \in Nat
    BY <1>1, <1>3
  <2>2. \A o : Uses(left, o) = One(v, o) + Uses(rest, o) /\ Uses(rest, o) \in Nat
    BY <1>1, <1>3, UsesHead, UsesOfSeq, ZenonT(30)
  <2>3. Elems(h) \in Nat
    BY <1>1, ElemsTable
  <2> HIDE DEF v, rest
  <2>4. CASE ~Counts(v)
    <3>1. t = [heap |-> h, left |-> rest]
      BY <1>1, <1>3, <2>4 DEF FinalizeNext, v, rest
    <3>2. \A o \in Objects : One(v, o) = 0
      BY <2>4 DEF One, Holds
    <3>3. Plus(c, rest) = Plus(c, left)
      BY <2>2, <3>2 DEF Plus
    <3>4. t \in Finalizing(V, c)
      BY <1>1, <2>1, <3>1, <3>3 DEF Finalizing
    <3>5. Shrinks(h, t.heap)
      BY <3>1 DEF Shrinks
    <3>6. Len(t.left) + Elems(t.heap) + 1 = Len(left) + Elems(h)
      BY <2>1, <2>3, <3>1
    <3> QED BY <1>3, <3>4, <3>5, <3>6
  <2>5. CASE Counts(v) /\ h[x].rc > 1
    <3> DEFINE cell == [h[x] EXCEPT !.rc = @ - 1]
               g == [h EXCEPT ![x] = cell]
    <3>1. x \in Objects
      BY <2>1, <2>5 DEF ValueSet
    <3>2. h[x] \in Cell(V) /\ h[x].rc \in Nat /\ CellOK(h[x])
      BY <1>1, <3>1, CellType, SMTT(30)
    <3>3. /\ cell \in Cell(V) /\ CellOK(cell) /\ cell.rc = h[x].rc - 1
          /\ cell.kind = h[x].kind /\ cell.size = h[x].size /\ cell.elems = h[x].elems
      BY <2>5, <3>2, SMTT(30) DEF Cell, CellOK
    <3>4. t = [heap |-> g, left |-> rest]
      BY <1>1, <1>3, <2>5, <3>1 DEF FinalizeNext, v, rest, HeapOf
    <3> HIDE DEF cell
    <3>5. g \in HeapOf(V) /\ g[x] = cell /\ \A o \in Objects \ {x} : g[o] = h[o]
      BY <1>1, <3>1, <3>3, CellKeeps
    <3> HIDE DEF g
    <3>6. \A o \in Objects : /\ g[o].kind = h[o].kind /\ g[o].size = h[o].size
                             /\ g[o].elems = h[o].elems /\ g[o].rc = h[o].rc - One(v, o)
      <4>1. One(v, x) = 1 /\ \A o \in Objects \ {x} : One(v, o) = 0
        BY <2>5 DEF One, Holds
      <4>2. \A o \in Objects : h[o].rc \in Nat
        BY <1>1, CellType
      <4> HIDE DEF x
      <4> QED BY <3>3, <3>5, <4>1, <4>2
    <3>7. Rows(g) = Rows(h) /\ Elems(g) = Elems(h)
      BY <3>6, HeapSame, ElemsSame
    <3>8. Plus(c, rest) \in [Objects -> Nat]
      BY <2>1, PlusType
    <3>9. ASSUME NEW o \in Objects
          PROVE  /\ g[o].rc = UsesIn(Rows(g), o) + Plus(c, rest)[o]
                 /\ g[o].kind = "free" <=> g[o].rc = 0
      <4>1. /\ h[o].rc = UsesIn(Rows(h), o) + Plus(c, left)[o]
            /\ h[o].kind = "free" <=> h[o].rc = 0
        BY <1>1 DEF Counted
      <4>2. UsesIn(Rows(h), o) \in Nat /\ c[o] \in Nat
        BY <1>1, HeapRows
      <4>3. One(v, o) = IF o = x THEN 1 ELSE 0
        BY <2>5 DEF One, Holds
      <4>4. /\ Plus(c, rest)[o] = c[o] + Uses(rest, o)
            /\ Plus(c, left)[o] = c[o] + (One(v, o) + Uses(rest, o))
        BY <2>2, PlusAt
      <4>5. Uses(rest, o) \in Nat
        BY <2>2
      <4>6. /\ g[o].kind = h[o].kind /\ g[o].rc = h[o].rc - One(v, o)
            /\ UsesIn(Rows(g), o) = UsesIn(Rows(h), o)
        BY <3>6, <3>7
      <4>7. o = x => h[o].rc > 1
        BY <2>5
      <4> HIDE DEF x
      <4> QED BY ONLY <4>1, <4>2, <4>3, <4>4, <4>5, <4>6, <4>7
    <3>10. Counted(g, V, Plus(c, rest))
      BY <3>5, <3>8, <3>9 DEF Counted
    <3>11. t \in Finalizing(V, c)
      BY <2>1, <3>4, <3>5, <3>10 DEF Finalizing
    <3>12. Shrinks(h, t.heap)
      BY <3>4, <3>6 DEF Shrinks
    <3>13. Len(t.left) + Elems(t.heap) + 1 = Len(left) + Elems(h)
      BY <2>1, <2>3, <3>4, <3>7
    <3> QED BY <1>3, <3>11, <3>12, <3>13
  <2>6. CASE Counts(v) /\ ~(h[x].rc > 1)
    <3> DEFINE g == [h EXCEPT ![x] = Free]
               more == h[x].elems \o rest
    <3>1. t = [heap |-> g, left |-> more]
      BY <1>1, <1>3, <2>6 DEF FinalizeNext, v, rest
    <3>2. x \in Objects
      BY <2>1, <2>6 DEF ValueSet
    <3>4. Freed(V, h, g, x)
      <4>1. Free \in Cell(V) /\ CellOK(Free)
        BY DEF Free, Cell, CellOK
      <4>2. g \in HeapOf(V) /\ g[x] = Free /\ \A o \in Objects \ {x} : g[o] = h[o]
        BY <1>1, <3>2, <4>1, CellKeeps
      <4> HIDE DEF g
      <4> QED BY <3>2, <4>2 DEF Freed
    <3>5. LastUse(V, c, h, left, v, rest)
      BY <1>1, <2>1, <2>6 DEF LastUse
    <3>6. /\ more \in Seq(V) /\ Counted(g, V, Plus(c, more)) /\ Shrinks(h, g)
          /\ Len(more) + Elems(g) + 1 = Len(left) + Elems(h)
      <4> HIDE DEF h, left, g
      <4> QED BY <3>4, <3>5, FreeKeeps, SMTT(30)
    <3>7. g \in HeapOf(V)
      BY <3>4 DEF Freed
    <3> HIDE DEF g, more
    <3>3. t \in Finalizing(V, c)
      BY <3>1, <3>6, <3>7 DEF Finalizing
    <3> QED BY <1>3, <3>1, <3>3, <3>6, SMTT(30)
  <2> QED BY <2>4, <2>5, <2>6
<1> QED BY <1>2, <1>3

LEMMA ShrinksTrans ==
  ASSUME NEW f, NEW g, NEW h, Shrinks(f, g), Shrinks(g, h)
  PROVE  Shrinks(f, h)
<1> SUFFICES ASSUME NEW o \in Objects, h[o].kind # "free"
             PROVE  h[o].kind = f[o].kind /\ h[o].size = f[o].size /\ h[o].elems = f[o].elems
  BY DEF Shrinks
<1>1. h[o].kind = g[o].kind /\ h[o].size = g[o].size /\ h[o].elems = g[o].elems
  BY DEF Shrinks
<1>2. g[o].kind = f[o].kind /\ g[o].size = f[o].size /\ g[o].elems = f[o].elems
  BY <1>1 DEF Shrinks
<1> QED BY <1>1, <1>2

LEMMA PlusNothing ==
  ASSUME NEW c \in [Objects -> Nat]
  PROVE  Plus(c, <<>>) = c
<1>1. \A o \in Objects : Plus(c, <<>>)[o] = c[o]
  BY UsesNone, PlusAt
<1>2. Plus(c, <<>>) = [o \in Objects |-> Plus(c, <<>>)[o]]
  BY DEF Plus
<1> QED BY <1>1, <1>2

LEMMA FinalizeRecursion ==
  ASSUME NEW V, ValueSet(V), NEW c \in [Objects -> Nat], NEW h, NEW vs,
         [heap |-> h, left |-> vs] \in Finalizing(V, c)
  PROVE  \E g : Finalizes(h, vs, Len(vs) + Elems(h), g)
<1> DEFINE S == Finalizing(V, c)
           first == [heap |-> h, left |-> vs]
           end == Len(vs) + Cardinality(UNION {{o} \X DOMAIN h[o].elems : o \in Objects})
           F == [p \in S \X (1..end) |-> FinalizeNext(p[1])]
<1>1. end \in Nat /\ end = Len(vs) + Elems(h)
  <2>1. h \in HeapOf(V) /\ vs \in Seq(V)
    BY DEF Finalizing
  <2>3. Elems(h) \in Nat
    BY <2>1, ElemsTable
  <2>2. Elems(h) \in Nat /\ Len(vs) \in Nat
    BY <2>1, <2>3
  <2> QED BY <2>2 DEF Elems
<1>2. first \in S
  OBVIOUS
<1> HIDE DEF end, S, first
<1>3. F \in Steps(S, end)
  <2>1. ASSUME NEW p \in S \X (1..end) PROVE FinalizeNext(p[1]) \in S
    <3>1. p[1] \in S
      OBVIOUS
    <3> QED BY <3>1, FinalizeNextKeeps DEF S
  <2> QED BY <2>1 DEF Steps
<1>4. PICK g \in [0..end -> S] : Iterates(g, first, F, end)
  <2> HIDE DEF F
  <2> QED BY <1>1, <1>2, <1>3, RecursionExists
<1>5. ASSUME NEW n \in 1..end PROVE g[n] = FinalizeNext(g[n - 1])
  <2>1. <<g[n - 1], n>> \in S \X (1..end)
    BY <1>1, SMTT(30)
  <2>2. F[<<g[n - 1], n>>] = FinalizeNext(g[n - 1])
    BY <2>1
  <2> QED BY <1>4, <2>2 DEF Iterates
<1> HIDE DEF F
<1> DEFINE after[n \in 0..end] == IF n = 0 THEN first ELSE FinalizeNext(after[n - 1])
<1>6. g = [n \in 0..end |-> IF n = 0 THEN first ELSE FinalizeNext(g[n - 1])]
  <2>1. ASSUME NEW n \in 0..end
        PROVE  g[n] = IF n = 0 THEN first ELSE FinalizeNext(g[n - 1])
    <3>1. CASE n = 0
      BY <3>1, <1>4 DEF Iterates
    <3>2. CASE n # 0
      <4>1. n \in 1..end
        BY <1>1, <3>2
      <4> QED BY <3>2, <4>1, <1>5
    <3> QED BY <3>1, <3>2
  <2> QED BY <2>1
<1>7. after = [n \in 0..end |-> IF n = 0 THEN first ELSE FinalizeNext(after[n - 1])]
  BY <1>6, Zenon
<1>8. Finalize(h, vs) = after[end].heap
  BY DEF Finalize, end, first
<1> HIDE DEF after
<1>9. after[0] = first /\ \A n \in 1..end : after[n] = FinalizeNext(after[n - 1])
  <2>1. 0 \in 0..end /\ \A n \in 1..end : n \in 0..end /\ n # 0
    BY <1>1
  <2> QED BY <1>7, <2>1
<1>10. Finalizes(h, vs, end, after)
  BY <1>8, <1>9 DEF Finalizes, first
<1> QED BY <1>1, <1>10

\* lai_var_finalize() of values gives up exactly the uses that they are.
LEMMA FinalizeKeeps ==
  ASSUME NEW V, ValueSet(V), NEW c \in [Objects -> Nat], NEW h, NEW vs \in Seq(V),
         Counted(h, V, Plus(c, vs))
  PROVE  Counted(Finalize(h, vs), V, c) /\ Shrinks(h, Finalize(h, vs))
<1> DEFINE first == [heap |-> h, left |-> vs]
           end == Len(vs) + Elems(h)
           S == Finalizing(V, c)
<1>1. first \in S
  BY DEF Finalizing, Counted
<1>2. end \in Nat
  <2>1. h \in HeapOf(V)
    BY DEF Counted
  <2>3. Elems(h) \in Nat
    BY <2>1, ElemsTable
  <2>2. Elems(h) \in Nat /\ Len(vs) \in Nat
    BY <2>3
  <2> QED BY <2>2
<1>3. PICK g : Finalizes(h, vs, end, g)
  BY <1>1, FinalizeRecursion
<1> DEFINE Ahead(s, n) == s.left = <<>> \/ Len(s.left) + Elems(s.heap) + n = end
           T == {n \in 0..end : g[n] \in S /\ Shrinks(h, g[n].heap) /\ Ahead(g[n], n)}
<1>4. 0 \in T
  <2>1. g[0] = first
    BY <1>3 DEF Finalizes
  <2>2. Shrinks(h, h)
    BY DEF Shrinks
  <2>3. Ahead(first, 0)
    BY <1>2
  <2> QED BY <1>1, <1>2, <2>1, <2>2, <2>3
<1>5. ASSUME NEW n \in 1..end, n - 1 \in T PROVE n \in T
  <2> DEFINE s == g[n - 1]
             t == g[n]
  <2>1. s \in S /\ Shrinks(h, s.heap) /\ Ahead(s, n - 1)
    BY <1>5
  <2>2. t = FinalizeNext(s)
    BY <1>3 DEF Finalizes
  <2> HIDE DEF s, t
  <2>3. /\ t \in S /\ Shrinks(s.heap, t.heap)
        /\ IF s.left = <<>> THEN t = s
           ELSE Len(t.left) + Elems(t.heap) + 1 = Len(s.left) + Elems(s.heap)
    BY <2>1, <2>2, FinalizeNextKeeps
  <2>4. Shrinks(h, t.heap)
    BY <2>1, <2>3, ShrinksTrans
  <2>5. Ahead(t, n)
    <3>1. /\ s.heap \in HeapOf(V) /\ s.left \in Seq(V)
          /\ t.heap \in HeapOf(V) /\ t.left \in Seq(V)
      BY <2>1, <2>3 DEF Finalizing
    <3>0. Elems(s.heap) \in Nat /\ Elems(t.heap) \in Nat
      BY <3>1, ElemsTable
    <3>2. /\ Elems(s.heap) \in Nat /\ Len(s.left) \in Nat
          /\ Elems(t.heap) \in Nat /\ Len(t.left) \in Nat
      BY <3>0, <3>1
    <3> HIDE DEF end, S
    <3>3. CASE s.left = <<>>
      BY <2>3, <3>3
    <3>4. CASE s.left # <<>>
      <4>1. Len(t.left) + Elems(t.heap) + 1 = Len(s.left) + Elems(s.heap)
        BY <2>3, <3>4
      <4>2. Len(s.left) + Elems(s.heap) + (n - 1) = end
        BY <2>1, <3>4
      <4>3. Len(t.left) + Elems(t.heap) + n = end
        BY <1>2, <3>2, <4>1, <4>2, SMTT(30)
      <4> QED BY <4>3
    <3> QED BY <3>3, <3>4
  <2>6. n \in 0..end
    BY <1>2
  <2> HIDE DEF Ahead, S
  <2> QED BY <2>3, <2>4, <2>5, <2>6 DEF t
<1>6. \A n \in 0..end : n \in T
  <2> HIDE DEF T, end
  <2> QED BY <1>2, <1>4, <1>5, IntervalInduction
<1> DEFINE t == g[end]
<1>7. t \in S /\ Shrinks(h, t.heap) /\ Ahead(t, end)
  <2>1. end \in 0..end
    BY <1>2
  <2>2. end \in T
    BY <1>6, <2>1
  <2> QED BY <2>2
<1> HIDE DEF t, T
<1>8. t.left = <<>>
  <2>1. t.heap \in HeapOf(V) /\ t.left \in Seq(V)
    BY <1>7 DEF Finalizing
  <2>0. Elems(t.heap) \in Nat
    BY <2>1, ElemsTable
  <2>2. Elems(t.heap) \in Nat /\ Len(t.left) \in Nat
    BY <2>0, <2>1
  <2> HIDE DEF end
  <2>3. CASE Len(t.left) + Elems(t.heap) + end = end
    <3>1. Len(t.left) = 0
      BY <1>2, <2>2, <2>3
    <3> QED BY <2>1, <3>1
  <2> QED BY <1>7, <2>3
<1>9. Counted(t.heap, V, Plus(c, <<>>))
  BY <1>7, <1>8 DEF Finalizing
<1>10. Finalize(h, vs) = t.heap
  BY <1>3 DEF Finalizes, t
<1> HIDE DEF S, end
<1> QED BY <1>7, <1>9, <1>10, PlusNothing

(***************************************************************************)
(* Counts as functions: the places of several sequences of values.         *)
(***************************************************************************)

LEMMA CountedSame ==
  ASSUME NEW V, NEW h, NEW c, Counted(h, V, c), NEW d \in [Objects -> Nat],
         \A o \in Objects : d[o] = c[o]
  PROVE  Counted(h, V, d)
<1>1. c \in [Objects -> Nat]
  BY DEF Counted
<1>2. c = d
  BY <1>1
<1> QED BY <1>2

LEMMA PlusConcat ==
  ASSUME NEW V, NEW c \in [Objects -> Nat], NEW vs \in Seq(V), NEW ws \in Seq(V)
  PROVE  /\ Plus(Plus(c, vs), ws) = Plus(c, vs \o ws)
         /\ Plus(Plus(c, vs), ws) = Plus(Plus(c, ws), vs)
<1>1. \A o \in Objects : c[o] \in Nat /\ Uses(vs, o) \in Nat /\ Uses(ws, o) \in Nat
                         /\ Uses(vs \o ws, o) = Uses(vs, o) + Uses(ws, o)
  BY UsesConcat
<1>2. \A o \in Objects :
        /\ Plus(Plus(c, vs), ws)[o] = (c[o] + Uses(vs, o)) + Uses(ws, o)
        /\ Plus(c, vs \o ws)[o] = c[o] + Uses(vs \o ws, o)
        /\ Plus(Plus(c, ws), vs)[o] = (c[o] + Uses(ws, o)) + Uses(vs, o)
  BY PlusAt
<1>3. /\ Plus(Plus(c, vs), ws) = [o \in Objects |-> Plus(Plus(c, vs), ws)[o]]
      /\ Plus(c, vs \o ws) = [o \in Objects |-> Plus(c, vs \o ws)[o]]
      /\ Plus(Plus(c, ws), vs) = [o \in Objects |-> Plus(Plus(c, ws), vs)[o]]
  BY DEF Plus
<1>4. \A o \in Objects : /\ Plus(Plus(c, vs), ws)[o] = Plus(c, vs \o ws)[o]
                         /\ Plus(Plus(c, vs), ws)[o] = Plus(Plus(c, ws), vs)[o]
  BY <1>1, <1>2
<1> QED BY <1>3, <1>4

LEMMA PlusNone ==
  ASSUME NEW c \in [Objects -> Nat], NEW v, ~Counts(v)
  PROVE  Plus(c, <<v>>) = c
<1>1. \A o \in Objects : Uses(<<v>>, o) = 0
  BY UsesOne DEF One, Holds
<1>2. \A o \in Objects : Plus(c, <<v>>)[o] = c[o]
  BY <1>1, PlusAt
<1>3. Plus(c, <<v>>) = [o \in Objects |-> Plus(c, <<v>>)[o]]
  BY DEF Plus
<1> QED BY <1>2, <1>3

LEMMA PlusMore ==
  ASSUME NEW V, NEW c \in [Objects -> Nat], NEW v \in V, Counts(v), v.object \in Objects
  PROVE  Plus(c, <<v>>)[v.object] > 0
<1>1. Plus(c, <<v>>)[v.object] = c[v.object] + One(v, v.object)
  BY PlusOne
<1>2. One(v, v.object) = 1
  BY DEF One, Holds
<1> QED BY <1>1, <1>2

LEMMA GrowsTrans ==
  ASSUME NEW f, NEW g, NEW h, Grows(f, g), Grows(g, h)
  PROVE  Grows(f, h)
<1> SUFFICES ASSUME NEW o \in Objects, f[o].kind # "free"
             PROVE  h[o].kind = f[o].kind /\ h[o].size = f[o].size /\ h[o].elems = f[o].elems
  BY DEF Grows
<1>1. g[o].kind = f[o].kind /\ g[o].size = f[o].size /\ g[o].elems = f[o].elems
  BY DEF Grows
<1>2. h[o].kind = g[o].kind /\ h[o].size = g[o].size /\ h[o].elems = g[o].elems
  BY <1>1 DEF Grows
<1> QED BY <1>1, <1>2

\* lai_var_assign().
LEMMA AssignKeeps ==
  ASSUME NEW V, ValueSet(V), NEW h, NEW c \in [Objects -> Nat], NEW old \in V, NEW new \in V,
         Counted(h, V, Plus(c, <<old>>)), Counts(new) => h[new.object].kind # "free"
  PROVE  Counted(Assign(h, old, new), V, Plus(c, <<new>>)) /\ Shrinks(h, Assign(h, old, new))
<1>1. Counted(Ref(h, new), V, Plus(Plus(c, <<old>>), <<new>>)) /\ Shrinks(h, Ref(h, new))
  BY RefKeeps
<1>2. <<old>> \in Seq(V) /\ <<new>> \in Seq(V)
  OBVIOUS
<1>3. Plus(Plus(c, <<old>>), <<new>>) = Plus(Plus(c, <<new>>), <<old>>)
  <2> DEFINE vs == <<old>>
             ws == <<new>>
  <2> HIDE DEF vs, ws
  <2>1. vs \in Seq(V) /\ ws \in Seq(V)
    BY <1>2 DEF vs, ws
  <2>2. Plus(Plus(c, vs), ws) = Plus(Plus(c, ws), vs)
    BY ONLY <2>1, c \in [Objects -> Nat], PlusConcat
  <2> QED BY <2>2 DEF vs, ws
<1>4. Plus(c, <<new>>) \in [Objects -> Nat]
  BY <1>2, PlusType
<1> DEFINE d == Plus(c, <<new>>)
           g == Ref(h, new)
           vs == <<old>>
<1>7. Assign(h, old, new) = Finalize(g, vs)
  BY DEF Assign
<1>8. Plus(Plus(c, <<old>>), <<new>>) = Plus(d, vs)
  BY <1>3
<1>6. Counted(g, V, Plus(d, vs)) /\ vs \in Seq(V)
  BY ONLY <1>1, <1>2, <1>8
<1> HIDE DEF d, g, vs
<1>5. Counted(Finalize(g, vs), V, d) /\ Shrinks(g, Finalize(g, vs))
  BY <1>4, <1>6, FinalizeKeeps DEF d
<1> QED BY <1>1, <1>5, <1>7, ShrinksTrans DEF d, g

(***************************************************************************)
(* Packages: elements are replaced, and packages are created.              *)
(***************************************************************************)

LEMMA SetElementSets ==
  ASSUME NEW V, NEW h \in HeapOf(V), NEW o, NEW i, InPackage(h, o, i), NEW v \in V
  PROVE  /\ SetElement(h, o, i, v) \in HeapOf(V)
         /\ ElementSet(h, SetElement(h, o, i, v), o, i, v)
         /\ i \in DOMAIN h[o].elems /\ h[o].elems[i] \in V
<1> DEFINE e == h[o].elems
           f == [j \in DOMAIN e |-> IF j = i THEN v ELSE e[j]]
           cell == [h[o] EXCEPT !.elems = f]
           g == [h EXCEPT ![o] = cell]
<1>1. o \in Objects /\ h[o].kind = "package" /\ i \in 1..h[o].size
  BY DEF InPackage
<1>2. h[o] \in Cell(V) /\ CellOK(h[o]) /\ e \in Seq(V) /\ h[o].size \in Nat
  BY <1>1, CellType
<1>3. DOMAIN e = 1..Len(e) /\ Len(e) \in Nat /\ h[o].size <= Len(e) /\ i \in DOMAIN e /\ e[i] \in V
  BY <1>1, <1>2 DEF CellOK
<1>4. f \in Seq(V) /\ Len(f) = Len(e) /\ DOMAIN f = DOMAIN e
  <2> DEFINE n == Len(e)
  <2>1. \A j \in 1..n : f[j] \in V
    BY <1>2, <1>3
  <2>2. n \in Nat /\ f = [j \in 1..n |-> f[j]] /\ DOMAIN f = 1..n
    BY <1>3
  <2> HIDE DEF f, n
  <2>3. f \in Seq(V) /\ Len(f) = n
    BY <2>1, <2>2
  <2> QED BY <1>3, <2>2, <2>3 DEF n
<1>5. f[i] = v /\ \A j \in DOMAIN e \ {i} : f[j] = e[j]
  BY <1>3
<1> HIDE DEF f
<1>6. /\ cell \in Cell(V) /\ cell.kind = h[o].kind /\ cell.rc = h[o].rc /\ cell.size = h[o].size
      /\ cell.elems = f
  BY <1>2, <1>4 DEF Cell
<1>7. CellOK(cell)
  <2>1. \A j \in DOMAIN f : j > h[o].size => f[j] = None
    <3> SUFFICES ASSUME NEW j \in DOMAIN f, j > h[o].size PROVE f[j] = None
      OBVIOUS
    <3>1. j # i /\ j \in DOMAIN e
      BY <1>1, <1>2, <1>3, <1>4
    <3> QED BY <1>1, <1>2, <1>5, <3>1 DEF CellOK
  <2> QED BY <1>1, <1>2, <1>3, <1>4, <1>6, <2>1 DEF CellOK
<1>8. SetElement(h, o, i, v) = g
  <2>1. h \in [Objects -> Cell(V)]
    BY DEF HeapOf
  <2> QED BY <1>1, <2>1 DEF SetElement, f, Cell
<1> HIDE DEF cell
<1>9. g \in HeapOf(V) /\ g[o] = cell /\ \A p \in Objects \ {o} : g[p] = h[p]
  BY <1>1, <1>6, <1>7, CellKeeps
<1> HIDE DEF g
<1>10. ElementSet(h, g, o, i, v)
  BY <1>4, <1>5, <1>6, <1>9 DEF ElementSet
<1> QED BY <1>3, <1>8, <1>9, <1>10

LEMMA SetElementKeeps ==
  ASSUME NEW V, ValueSet(V), NEW h, NEW c \in [Objects -> Nat], NEW v \in V,
         Counted(h, V, Plus(c, <<v>>)), NEW o, NEW i, InPackage(h, o, i)
  PROVE  /\ Counted(SetElement(h, o, i, v), V, Plus(c, <<h[o].elems[i]>>))
         /\ ElementSet(h, SetElement(h, o, i, v), o, i, v)
         /\ h[o].elems[i] \in V
<1> DEFINE g == SetElement(h, o, i, v)
           e == h[o].elems
<1>1. h \in HeapOf(V) /\ o \in Objects
  BY DEF Counted, InPackage
<1>2. g \in HeapOf(V) /\ ElementSet(h, g, o, i, v) /\ i \in DOMAIN e /\ e[i] \in V
  BY <1>1, SetElementSets
<1> HIDE DEF g, e
<1>3. ASSUME NEW p \in Objects
      PROVE  /\ UsesIn(Rows(g), p) \in Nat /\ UsesIn(Rows(h), p) \in Nat
             /\ UsesIn(Rows(g), p) + One(e[i], p) = UsesIn(Rows(h), p) + One(v, p)
  <2>0. \A q \in Objects \ {o} : g[q].elems = h[q].elems
    BY <1>2 DEF ElementSet
  <2>1. /\ UsesIn(Rows(h), p) \in Nat /\ UsesIn(Rows(g), p) \in Nat
        /\ Uses(h[o].elems, p) \in Nat /\ Uses(g[o].elems, p) \in Nat
        /\ UsesIn(Rows(g), p) + Uses(h[o].elems, p) = UsesIn(Rows(h), p) + Uses(g[o].elems, p)
    BY ONLY <1>1, <1>2, <2>0, HeapAt
  <2>2. Uses(g[o].elems, p) + One(e[i], p) = Uses(e, p) + One(v, p)
    <3> DEFINE f == g[o].elems
    <3>1. e \in Seq(V)
      BY <1>1, CellType DEF e
    <3>2. IsFiniteSet(DOMAIN e)
      BY <3>1, SeqFinite
    <3>3. DOMAIN f = DOMAIN e /\ f[i] = v /\ \A j \in DOMAIN e \ {i} : Holds(f[j], p) <=> Holds(e[j], p)
      BY <1>2 DEF ElementSet, e
    <3> HIDE DEF f
    <3>4. Uses(f, p) + One(e[i], p) = Uses(e, p) + One(f[i], p)
      BY <1>2, <3>2, <3>3, UsesAt
    <3> QED BY <3>3, <3>4 DEF f
  <2>3. One(e[i], p) \in Nat /\ One(v, p) \in Nat
    BY DEF One
  <2> QED BY <2>1, <2>2, <2>3 DEF e
<1>4. ASSUME NEW p \in Objects
      PROVE  /\ g[p].rc = UsesIn(Rows(g), p) + Plus(c, <<e[i]>>)[p]
             /\ g[p].kind = "free" <=> g[p].rc = 0
  <2>1. g[p].rc = h[p].rc /\ g[p].kind = h[p].kind
    BY <1>2 DEF ElementSet
  <2>2. h[p].rc = UsesIn(Rows(h), p) + Plus(c, <<v>>)[p] /\ (h[p].kind = "free" <=> h[p].rc = 0)
    BY DEF Counted
  <2>3. Plus(c, <<v>>)[p] = c[p] + One(v, p) /\ Plus(c, <<e[i]>>)[p] = c[p] + One(e[i], p)
    BY <1>2, PlusOne
  <2>4. c[p] \in Nat /\ One(e[i], p) \in Nat /\ One(v, p) \in Nat
    BY DEF One
  <2>5. /\ UsesIn(Rows(g), p) \in Nat /\ UsesIn(Rows(h), p) \in Nat
        /\ UsesIn(Rows(g), p) + One(e[i], p) = UsesIn(Rows(h), p) + One(v, p)
    BY <1>3
  <2>6. UsesIn(Rows(h), p) + Plus(c, <<v>>)[p] = UsesIn(Rows(g), p) + Plus(c, <<e[i]>>)[p]
    BY ONLY <2>3, <2>4, <2>5
  <2> QED BY ONLY <2>1, <2>2, <2>6
<1>5. Plus(c, <<e[i]>>) \in [Objects -> Nat]
  BY <1>2, PlusOne
<1>6. Counted(g, V, Plus(c, <<e[i]>>))
  BY <1>2, <1>4, <1>5 DEF Counted
<1> QED BY <1>2, <1>6 DEF g, e

\* lai_exec_pkg_var_store().
LEMMA AssignElementKeeps ==
  ASSUME NEW V, ValueSet(V), NEW h, NEW c \in [Objects -> Nat], Counted(h, V, c), NEW new \in V,
         Counts(new) => h[new.object].kind # "free", NEW o, NEW i, InPackage(h, o, i)
  PROVE  /\ Counted(AssignElement(h, o, i, new), V, c)
         /\ ElementAssigned(h, AssignElement(h, o, i, new), o, i, new)
<1> DEFINE f == Ref(h, new)
           g == SetElement(f, o, i, new)
           k == AssignElement(h, o, i, new)
<1>1. Counted(f, V, Plus(c, <<new>>))
  BY RefKeeps
<1>2. h \in HeapOf(V) /\ o \in Objects
  BY DEF Counted, InPackage
<1>3. \A p \in Objects : f[p].kind = h[p].kind /\ f[p].size = h[p].size /\ f[p].elems = h[p].elems
  BY <1>2, RefType
<1>4. InPackage(f, o, i)
  BY <1>2, <1>3 DEF InPackage
<1> HIDE DEF f
<1>5. /\ Counted(g, V, Plus(c, <<f[o].elems[i]>>)) /\ ElementSet(f, g, o, i, new)
      /\ f[o].elems[i] \in V
  BY <1>1, <1>4, SetElementKeeps
<1> DEFINE old == f[o].elems[i]
<1>6. k = Finalize(g, <<old>>)
  BY <1>2, <1>3 DEF AssignElement, f
<1>7. <<old>> \in Seq(V)
  BY <1>5
<1> HIDE DEF g, k, old
<1>8. Counted(k, V, c) /\ Shrinks(g, k)
  BY <1>5, <1>6, <1>7, FinalizeKeeps DEF old
<1>9. ElementAssigned(h, k, o, i, new)
  <2>1. \A p \in Objects : k[p].kind # "free" =>
          k[p].kind = g[p].kind /\ k[p].size = g[p].size /\ k[p].elems = g[p].elems
    BY <1>8 DEF Shrinks
  <2>2. \A p \in Objects \ {o} : g[p] = f[p]
    BY <1>5 DEF ElementSet
  <2>3. /\ g[o].kind = f[o].kind /\ g[o].size = f[o].size /\ DOMAIN g[o].elems = DOMAIN f[o].elems
        /\ g[o].elems[i] = new
        /\ \A j \in DOMAIN f[o].elems \ {i} : g[o].elems[j] = f[o].elems[j]
    BY <1>5 DEF ElementSet
  <2>4. \A p \in Objects \ {o} : k[p].kind # "free" =>
          k[p].kind = h[p].kind /\ k[p].size = h[p].size /\ k[p].elems = h[p].elems
    BY <1>3, <2>1, <2>2
  <2>5. k[o].kind # "free" =>
         /\ k[o].kind = h[o].kind /\ k[o].size = h[o].size
         /\ DOMAIN k[o].elems = DOMAIN h[o].elems /\ k[o].elems[i] = new
         /\ \A j \in DOMAIN h[o].elems \ {i} : k[o].elems[j] = h[o].elems[j]
    BY <1>2, <1>3, <2>1, <2>3, SMTT(30)
  <2> QED BY <2>4, <2>5 DEF ElementAssigned
<1> QED BY <1>8, <1>9 DEF k

\* A new object: its elements are counted before, its value after.
LEMMA CreateKeeps ==
  ASSUME NEW V, ValueSet(V), NEW h, NEW c \in [Objects -> Nat], NEW elems \in Seq(V),
         Counted(h, V, Plus(c, elems)), Unused(h) # {},
         NEW kind \in {"bytes", "package"}, kind = "bytes" => elems = <<>>
  PROVE  LET x == Fresh(h)
             g == Create(h, kind, elems)
         IN  /\ x \in Objects /\ h[x].kind = "free" /\ Whole(x) \in V
             /\ g[x].kind = kind /\ g[x].elems = elems
             /\ kind = "package" => g[x].size = Len(elems)
             /\ Counted(g, V, Plus(c, <<Whole(x)>>)) /\ Grows(h, g)
<1> DEFINE x == Fresh(h)
           v == Whole(x)
           cell == [kind |-> kind, rc |-> 1, elems |-> elems,
                    size |-> IF kind = "bytes" THEN 1 ELSE Len(elems)]
           g == [h EXCEPT ![x] = cell]
<1>1. x \in Objects /\ h[x].kind = "free"
  BY DEF Fresh, Unused
<1>2. v \in V /\ Counts(v) /\ v.object = x
  BY <1>1 DEF ValueSet, Counts, Whole
<1>3. g = Create(h, kind, elems)
  BY DEF Create
<1>4. h \in HeapOf(V) /\ \A o \in Objects : /\ h[o].rc = UsesIn(Rows(h), o) + Plus(c, elems)[o]
                                            /\ h[o].kind = "free" <=> h[o].rc = 0
  BY DEF Counted
<1>5. h[x].elems = <<>>
  BY <1>1, <1>4, CellType DEF CellOK
<1>6. cell \in Cell(V) /\ CellOK(cell)
  <2>1. Len(elems) \in Nat /\ DOMAIN elems = 1..Len(elems)
    OBVIOUS
  <2> QED BY <2>1 DEF Cell, CellOK
<1>7. /\ cell.kind = kind /\ cell.rc = 1 /\ cell.elems = elems
      /\ kind = "package" => cell.size = Len(elems)
  OBVIOUS
<1> HIDE DEF cell, x, v
<1>8. g \in HeapOf(V) /\ g[x] = cell /\ \A o \in Objects \ {x} : g[o] = h[o]
  BY <1>1, <1>4, <1>6, CellKeeps
<1> HIDE DEF g
<1>9. ASSUME NEW o \in Objects
      PROVE  /\ g[o].rc = UsesIn(Rows(g), o) + Plus(c, <<v>>)[o]
             /\ g[o].kind = "free" <=> g[o].rc = 0
  <2>1. /\ UsesIn(Rows(h), o) \in Nat /\ UsesIn(Rows(g), o) \in Nat
        /\ UsesIn(Rows(g), o) + Uses(<<>>, o) = UsesIn(Rows(h), o) + Uses(elems, o)
    <3>1. \A p \in Objects \ {x} : g[p].elems = h[p].elems
      BY <1>8
    <3>2. h[x].elems = <<>> /\ g[x].elems = elems
      BY <1>5, <1>7, <1>8
    <3>3. /\ UsesIn(Rows(h), o) \in Nat /\ UsesIn(Rows(g), o) \in Nat
          /\ Uses(h[x].elems, o) \in Nat /\ Uses(g[x].elems, o) \in Nat
          /\ UsesIn(Rows(g), o) + Uses(h[x].elems, o) = UsesIn(Rows(h), o) + Uses(g[x].elems, o)
      BY ONLY <1>1, <1>4, <1>8, <3>1, HeapAt, SMTT(30)
    <3> QED BY ONLY <3>2, <3>3
  <2>2. Uses(<<>>, o) = 0 /\ Uses(elems, o) \in Nat /\ c[o] \in Nat
    BY UsesNone, UsesOfSeq
  <2>3. Plus(c, <<v>>)[o] = c[o] + One(v, o) /\ Plus(c, elems)[o] = c[o] + Uses(elems, o)
    BY <1>2, PlusOne, PlusAt, ZenonT(30)
  <2>4. One(v, o) = IF o = x THEN 1 ELSE 0
    BY <1>2 DEF One, Holds
  <2>5. /\ h[o].rc = UsesIn(Rows(h), o) + Plus(c, elems)[o]
        /\ h[o].kind = "free" <=> h[o].rc = 0
    BY <1>4
  <2>6. CASE o = x
    <3>1. g[o].rc = 1 /\ g[o].kind = kind /\ h[o].kind = "free"
      BY <1>1, <1>7, <1>8, <2>6
    <3>2. kind # "free"
      OBVIOUS
    <3>3. UsesIn(Rows(h), o) = 0 /\ c[o] = 0 /\ Uses(elems, o) = 0
      BY ONLY <2>1, <2>2, <2>3, <2>5, <3>1, SMTT(30)
    <3>4. UsesIn(Rows(g), o) = 0
      BY ONLY <2>1, <2>2, <3>3
    <3>5. Plus(c, <<v>>)[o] = 1
      BY ONLY <2>3, <2>4, <2>6, <3>3
    <3> QED BY ONLY <3>1, <3>2, <3>4, <3>5
  <2>7. CASE o # x
    <3>1. g[o] = h[o]
      BY <1>8, <2>7
    <3>2. Plus(c, <<v>>)[o] = c[o]
      BY ONLY <2>2, <2>3, <2>4, <2>7
    <3>3. UsesIn(Rows(g), o) + Plus(c, <<v>>)[o] = UsesIn(Rows(h), o) + Plus(c, elems)[o]
      BY ONLY <2>1, <2>2, <2>3, <3>2
    <3> QED BY ONLY <2>5, <3>1, <3>3
  <2> QED BY <2>6, <2>7
<1>10. Plus(c, <<v>>) \in [Objects -> Nat]
  BY <1>2, PlusOne
<1>11. Counted(g, V, Plus(c, <<v>>))
  BY <1>8, <1>9, <1>10, SMTT(30) DEF Counted
<1>12. Grows(h, g)
  <2>1. \A o \in Objects : h[o].kind # "free" => g[o] = h[o]
    BY <1>1, <1>8
  <2> QED BY <2>1 DEF Grows
<1>13. g[x].kind = kind /\ g[x].elems = elems /\ (kind = "package" => g[x].size = Len(elems))
  BY <1>7, <1>8
<1> QED BY <1>1, <1>2, <1>3, <1>11, <1>12, <1>13 DEF x, v

LEMMA ElementsOfType ==
  ASSUME NEW V, NEW h \in HeapOf(V), NEW o \in Objects
  PROVE  LET e == ElementsOf(h, o)
         IN  /\ e \in Seq(V) /\ Len(e) \in Nat /\ DOMAIN e = 1..Len(e)
             /\ h[o].kind = "package" => Len(e) = h[o].size
             /\ h[o].kind # "package" => e = <<>>
             /\ \A i \in DOMAIN e : i \in DOMAIN h[o].elems /\ e[i] = h[o].elems[i]
<1>1. h[o].elems \in Seq(V) /\ h[o].size \in Nat /\ CellOK(h[o])
  BY CellType
<1>2. CASE h[o].kind = "package"
  <2> DEFINE n == h[o].size
             f == h[o].elems
             e == SubSeq(f, 1, n)
  <2>1. n \in Nat /\ f \in Seq(V) /\ n <= Len(f) /\ ElementsOf(h, o) = e
    BY <1>1, <1>2 DEF CellOK, ElementsOf
  <2> HIDE DEF n, f
  <2>2. e \in Seq(V) /\ Len(e) = n /\ \A i \in 1..n : e[i] = f[i] /\ i \in DOMAIN f
    BY <2>1
  <2> HIDE DEF e
  <2> QED BY <1>2, <2>1, <2>2 DEF n, f
<1>3. CASE h[o].kind # "package"
  BY <1>3 DEF ElementsOf
<1> QED BY <1>2, <1>3

(***************************************************************************)
(* Clones.                                                                 *)
(***************************************************************************)

LEMMA NonesKeep ==
  ASSUME NEW V, ValueSet(V), NEW c \in [Objects -> Nat], NEW e \in Seq(V)
  PROVE  LET nones == [i \in DOMAIN e |-> None]
         IN  nones \in Seq(V) /\ Len(nones) = Len(e) /\ DOMAIN nones = DOMAIN e /\ Plus(c, nones) = c
<1> DEFINE nones == [i \in DOMAIN e |-> None]
<1>1. nones \in Seq(V) /\ Len(nones) = Len(e) /\ DOMAIN nones = DOMAIN e
  BY DEF ValueSet
<1>2. ASSUME NEW o \in Objects PROVE Uses(nones, o) = 0
  <2>1. Users(nones, o) = {}
    BY DEF Users, Holds, Counts, None
  <2> HIDE DEF nones
  <2> QED BY <1>1, <2>1, UsesType, SeqFinite, FS_EmptySet
<1> HIDE DEF nones
<1>3. \A o \in Objects : Plus(c, nones)[o] = c[o]
  BY <1>2, PlusAt
<1>4. Plus(c, nones) = [o \in Objects |-> Plus(c, nones)[o]]
  BY DEF Plus
<1>5. Plus(c, nones) = c
  BY <1>3, <1>4
<1> QED BY <1>1, <1>5 DEF nones

\* The copy of an object has its elements to be cloned.
LEMMA CopyObjectKeeps ==
  ASSUME NEW V, ValueSet(V), NEW h, NEW c \in [Objects -> Nat], Counted(h, V, c),
         NEW v \in V, v.type = "object", h[v.object].kind # "free", Unused(h) # {}
  PROVE  LET k == Copy(h, v)
         IN  /\ Counted(k.heap, V, Plus(c, <<k.value>>)) /\ Grows(h, k.heap)
             /\ k.value = Whole(Fresh(h)) /\ Fresh(h) \in Objects /\ h[Fresh(h)].kind = "free"
             /\ SlotsOK(V, h, k.heap, k.left)
             /\ \A i \in DOMAIN k.left : k.left[i].object = Fresh(h)
<1> DEFINE k == Copy(h, v)
           x == Fresh(h)
           e == ElementsOf(h, v.object)
           kind == h[v.object].kind
           nones == [i \in DOMAIN e |-> None]
           g == Create(h, kind, nones)
           left == [i \in DOMAIN e |-> [object |-> x, at |-> i, value |-> e[i]]]
<1>1. h \in HeapOf(V) /\ v.object \in Objects
  BY DEF Counted, ValueSet, Counts
<1>2. /\ e \in Seq(V) /\ Len(e) \in Nat /\ DOMAIN e = 1..Len(e)
      /\ kind # "package" => e = <<>>
      /\ \A i \in DOMAIN e : i \in DOMAIN h[v.object].elems /\ e[i] = h[v.object].elems[i]
  BY <1>1, ElementsOfType
<1>3. kind \in {"bytes", "package"}
  BY <1>1, CellType
<1>4. k = [heap |-> g, value |-> Whole(x), left |-> left]
  BY DEF Copy
<1> HIDE DEF e, kind, k
<1>5. nones \in Seq(V) /\ Len(nones) = Len(e) /\ DOMAIN nones = DOMAIN e /\ Plus(c, nones) = c
  BY <1>2, NonesKeep
<1>6. kind = "bytes" => nones = <<>>
  BY <1>2
<1>7. \A i \in DOMAIN e : nones[i] = None
  OBVIOUS
<1> HIDE DEF nones
<1>8. /\ x \in Objects /\ h[x].kind = "free" /\ Whole(x) \in V
      /\ g[x].kind = kind /\ g[x].elems = nones /\ (kind = "package" => g[x].size = Len(nones))
      /\ Counted(g, V, Plus(c, <<Whole(x)>>)) /\ Grows(h, g)
  BY <1>3, <1>5, <1>6, CreateKeeps, SMTT(30)
<1> HIDE DEF x, g
<1>9. ASSUME NEW i \in DOMAIN e
      PROVE  left[i] = [object |-> x, at |-> i, value |-> e[i]] /\ SlotOK(h, g, left[i])
  <2>1. left[i] = [object |-> x, at |-> i, value |-> e[i]]
    OBVIOUS
  <2>2. kind = "package"
    BY <1>2, <1>3
  <2>3. InPackage(g, x, i) /\ g[x].elems[i] = None
    BY <1>2, <1>5, <1>7, <1>8, <2>2 DEF InPackage
  <2>4. Live(g, e[i])
    <3> SUFFICES ASSUME Counts(e[i]) PROVE g[e[i].object].kind # "free"
      BY DEF Live
    <3>1. e[i] \in V /\ e[i].object \in Objects
      BY <1>2 DEF ValueSet
    <3>2. i \in DOMAIN h[v.object].elems /\ Holds(h[v.object].elems[i], e[i].object)
      BY <1>2 DEF Holds
    <3>3. h[e[i].object].kind # "free"
      BY ONLY <1>1, <3>1, <3>2, Counted(h, V, c), UsedAlive
    <3> QED BY <1>8, <3>1, <3>3 DEF Grows
  <2> QED BY <1>8, <2>1, <2>3, <2>4 DEF SlotOK
<1>10. left \in Seq(SlotSet(V))
  <2>1. \A i \in 1..Len(e) : left[i] \in SlotSet(V)
    BY <1>2, <1>8 DEF SlotSet
  <2> QED BY <1>2, <2>1
<1>11. SlotsOK(V, h, g, left)
  <2>1. DOMAIN left = DOMAIN e
    OBVIOUS
  <2> HIDE DEF left
  <2> QED BY <1>9, <1>10, <2>1 DEF SlotsOK
<1>12. \A i \in DOMAIN left : left[i].object = x
  BY <1>9, SMTT(30)
<1> HIDE DEF left
<1> QED BY <1>4, <1>8, <1>11, <1>12 DEF x, k

LEMMA CopyKeeps ==
  ASSUME NEW V, ValueSet(V), NEW h, NEW c \in [Objects -> Nat], Counted(h, V, c),
         NEW v \in V, Live(h, v), Fits(h, v)
  PROVE  LET k == Copy(h, v)
         IN  /\ Counted(k.heap, V, Plus(c, <<k.value>>)) /\ Grows(h, k.heap) /\ k.value \in V
             /\ IF v.type = "object"
                THEN Counts(k.value) /\ k.value.object \in Objects /\ h[k.value.object].kind = "free"
                ELSE k.value = v
             /\ SlotsOK(V, h, k.heap, k.left)
             /\ \A i \in DOMAIN k.left : h[k.left[i].object].kind = "free"
<1>1. CASE v.type = "object"
  <2> DEFINE k == Copy(h, v)
  <2>1. h[v.object].kind # "free" /\ Unused(h) # {}
    BY <1>1 DEF Live, Counts, Fits
  <2>2. /\ Counted(k.heap, V, Plus(c, <<k.value>>)) /\ Grows(h, k.heap)
        /\ k.value = Whole(Fresh(h)) /\ Fresh(h) \in Objects /\ h[Fresh(h)].kind = "free"
        /\ SlotsOK(V, h, k.heap, k.left)
        /\ \A i \in DOMAIN k.left : k.left[i].object = Fresh(h)
    BY <1>1, <2>1, CopyObjectKeeps
  <2>3. Whole(Fresh(h)) \in V /\ Counts(Whole(Fresh(h))) /\ Whole(Fresh(h)).object = Fresh(h)
    BY <2>2 DEF ValueSet, Counts, Whole
  <2> HIDE DEF k
  <2> QED BY <1>1, <2>2, <2>3 DEF k
<1>2. CASE v.type # "object"
  <2>1. Copy(h, v) = [heap |-> Ref(h, v), value |-> v, left |-> <<>>]
    BY <1>2 DEF Copy
  <2>2. Counted(Ref(h, v), V, Plus(c, <<v>>)) /\ Grows(h, Ref(h, v))
    BY RefKeeps DEF Live
  <2>3. SlotsOK(V, h, Ref(h, v), <<>>)
    BY DEF SlotsOK
  <2> QED BY <1>2, <2>1, <2>2, <2>3
<1> QED BY <1>1, <1>2

LEMMA SlotsFilled ==
  ASSUME NEW V, ValueSet(V), NEW h0, NEW h \in HeapOf(V), NEW copied, NEW g, NEW slot, NEW value,
         SlotFilled(h0, h, copied, g, slot, value)
  PROVE  /\ Grows(h0, g)
         /\ \A other \in SlotSet(V) :
              /\ SlotOK(h0, h, other) /\ (slot.object # other.object \/ slot.at # other.at)
                 => SlotOK(h0, g, other)
              /\ SlotOK(h, copied, other) => SlotOK(h0, g, other)
<1> DEFINE x == slot.object
           at == slot.at
<1>1. x \in Objects /\ h0[x].kind = "free" /\ h[x].kind = "package"
  BY DEF SlotFilled, SlotOK, InPackage
<1>2. \A o \in Objects : h[o].kind # "free" =>
        copied[o].kind = h[o].kind /\ copied[o].size = h[o].size /\ copied[o].elems = h[o].elems
  BY DEF SlotFilled, Grows
<1>3. /\ \A o \in Objects \ {x} : g[o] = copied[o]
      /\ g[x].kind = copied[x].kind /\ g[x].size = copied[x].size
      /\ \A j \in DOMAIN copied[x].elems \ {at} : g[x].elems[j] = copied[x].elems[j]
  BY DEF SlotFilled, ElementSet
<1>4. \A o \in Objects : h0[o].kind # "free" =>
        h[o].kind = h0[o].kind /\ h[o].size = h0[o].size /\ h[o].elems = h0[o].elems
  BY DEF SlotFilled, Grows
<1>0. DOMAIN g[x].elems = DOMAIN copied[x].elems
  BY DEF SlotFilled, ElementSet
<1> HIDE DEF x, at
<1>5. Grows(h0, g)
  BY <1>1, <1>2, <1>3, <1>4 DEF Grows
<1>6. \A o \in Objects : g[o].kind = copied[o].kind
  BY <1>3
<1>7. ASSUME NEW other \in SlotSet(V), SlotOK(h0, h, other),
             slot.object # other.object \/ slot.at # other.at
      PROVE  SlotOK(h0, g, other)
  <2> DEFINE y == other.object
             j == other.at
             e == h[y].elems
  <2>1. /\ y \in Objects /\ h0[y].kind = "free" /\ h[y].kind = "package" /\ j \in 1..h[y].size
        /\ e[j] = None /\ Live(h, other.value)
    BY <1>7 DEF SlotOK, InPackage
  <2>2. x # y \/ at # j
    BY <1>7 DEF x, at
  <2>3. other.value \in V
    BY DEF SlotSet
  <2>8. j \in DOMAIN e
    <3>1. e \in Seq(V) /\ CellOK(h[y]) /\ h[y].size \in Nat
      BY <2>1, CellType
    <3> QED BY <2>1, <3>1 DEF CellOK
  <2> HIDE DEF y, j, e
  <2>4. copied[y].kind = "package" /\ copied[y].size = h[y].size /\ copied[y].elems = e
    BY <1>2, <2>1 DEF e
  <2>5. g[y].kind = "package" /\ g[y].size = h[y].size
    BY <1>3, <2>1, <2>4
  <2>6. g[y].elems[j] = None
    <3>1. CASE y # x
      BY <1>3, <2>1, <2>4, <3>1
    <3>2. CASE y = x
      <4>1. j \in DOMAIN copied[x].elems /\ j # at
        BY <2>2, <2>4, <2>8, <3>2
      <4> QED BY <1>3, <2>1, <2>4, <3>2, <4>1
    <3> QED BY <3>1, <3>2
  <2>7. Live(g, other.value)
    BY <1>2, <1>6, <2>1, <2>3 DEF Live, ValueSet
  <2> QED BY <2>1, <2>5, <2>6, <2>7 DEF SlotOK, InPackage, y, j
<1>8. ASSUME NEW other \in SlotSet(V), SlotOK(h, copied, other) PROVE SlotOK(h0, g, other)
  <2> DEFINE y == other.object
  <2>1. /\ y \in Objects /\ h[y].kind = "free" /\ InPackage(copied, y, other.at)
        /\ copied[y].elems[other.at] = None /\ Live(copied, other.value)
    BY <1>8 DEF SlotOK, InPackage
  <2>2. other.value \in V
    BY DEF SlotSet
  <2>3. g[y] = copied[y]
    BY <1>1, <1>3, <2>1
  <2>4. h0[y].kind = "free"
    BY <1>4, <2>1
  <2>5. Live(g, other.value)
    BY <1>6, <2>1, <2>2 DEF Live, ValueSet
  <2>6. InPackage(g, y, other.at) /\ g[y].elems[other.at] = None
    BY <2>1, <2>3 DEF InPackage
  <2> QED BY <2>4, <2>5, <2>6 DEF SlotOK
<1> QED BY <1>5, <1>7, <1>8

LEMMA SlotsConcat ==
  ASSUME NEW V, NEW h0, NEW h, NEW ls, NEW ms, SlotsOK(V, h0, h, ls), SlotsOK(V, h0, h, ms),
         \A i \in DOMAIN ls, j \in DOMAIN ms : ls[i].object # ms[j].object
  PROVE  SlotsOK(V, h0, h, ls \o ms)
<1> DEFINE n == Len(ls)
           all == ls \o ms
<1>1. /\ ls \in Seq(SlotSet(V)) /\ ms \in Seq(SlotSet(V))
      /\ \A i \in DOMAIN ls : SlotOK(h0, h, ls[i])
      /\ \A i \in DOMAIN ms : SlotOK(h0, h, ms[i])
      /\ \A i, j \in DOMAIN ls : i # j => ls[i].object # ls[j].object \/ ls[i].at # ls[j].at
      /\ \A i, j \in DOMAIN ms : i # j => ms[i].object # ms[j].object \/ ms[i].at # ms[j].at
  BY DEF SlotsOK
<1>2. all \in Seq(SlotSet(V)) /\ n \in Nat /\ Len(ms) \in Nat
  BY <1>1
<1>3. ASSUME NEW i \in DOMAIN all
      PROVE  \/ i \in DOMAIN ls /\ all[i] = ls[i]
             \/ i > n /\ i - n \in DOMAIN ms /\ all[i] = ms[i - n]
  <2>1. DOMAIN all = 1..(n + Len(ms)) /\ DOMAIN ls = 1..n /\ DOMAIN ms = 1..Len(ms)
    BY <1>1
  <2>2. CASE i <= n
    BY <1>1, <2>1, <2>2
  <2>3. CASE i > n
    BY <1>1, <2>1, <2>3
  <2> QED BY <1>2, <2>1, <2>2, <2>3
<1>4. \A i \in DOMAIN all : i \in Nat
  BY <1>2
<1> HIDE DEF all, n
<1>5. \A i \in DOMAIN all : SlotOK(h0, h, all[i])
  BY <1>1, <1>3
<1>6. ASSUME NEW i \in DOMAIN all, NEW j \in DOMAIN all, i # j
      PROVE  all[i].object # all[j].object \/ all[i].at # all[j].at
  <2>1. i \in Nat /\ j \in Nat
    BY <1>4
  <2>2. CASE i \in DOMAIN ls /\ all[i] = ls[i] /\ j \in DOMAIN ls /\ all[j] = ls[j]
    BY <1>1, <1>6, <2>2
  <2>3. CASE i \in DOMAIN ls /\ all[i] = ls[i] /\ j - n \in DOMAIN ms /\ all[j] = ms[j - n]
    BY <2>3
  <2>4. CASE i - n \in DOMAIN ms /\ all[i] = ms[i - n] /\ j \in DOMAIN ls /\ all[j] = ls[j]
    BY <2>4
  <2>5. CASE i - n \in DOMAIN ms /\ all[i] = ms[i - n] /\ j - n \in DOMAIN ms /\ all[j] = ms[j - n]
    <3>1. i - n # j - n
      BY <1>2, <1>6, <2>1
    <3> QED BY <1>1, <2>5, <3>1
  <2> QED BY <1>3, <2>2, <2>3, <2>4, <2>5
<1> QED BY <1>2, <1>5, <1>6 DEF SlotsOK, all

LEMMA CloneNextKeeps ==
  ASSUME NEW V, ValueSet(V), NEW h0, NEW c \in [Objects -> Nat], NEW s \in Cloning(V, c, h0)
  PROVE  CloneNext(s) \in Cloning(V, c, h0)
<1> DEFINE t == CloneNext(s)
           h == s.heap
           left == s.left
           slot == Head(left)
           v == slot.value
           k == Copy(h, v)
           value == k.value
           o == slot.object
           at == slot.at
           g == SetElement(k.heap, o, at, value)
           more == k.left \o Tail(left)
<1>1. /\ s = [heap |-> h, left |-> left] /\ h \in HeapOf(V) /\ left \in Seq(SlotSet(V))
      /\ Counted(h, V, c) /\ Grows(h0, h) /\ SlotsOK(V, h0, h, left)
  BY SMTT(30) DEF Cloning
<1>2. CASE left = <<>> \/ ~Fits(h, v)
  BY <1>2 DEF CloneNext
<1>3. CASE left # <<>> /\ Fits(h, v)
  <2>1. t = [heap |-> g, left |-> more]
    BY <1>3 DEF CloneNext, CloneSlot
  <2> HIDE DEF t
  <2>2. slot \in SlotSet(V) /\ SlotOK(h0, h, slot) /\ slot = left[1] /\ 1 \in DOMAIN left
    BY <1>1, <1>3, SMTT(30) DEF SlotsOK
  <2> HIDE DEF slot
  <2>3. v \in V /\ Live(h, v)
    BY <2>2, SMTT(30) DEF SlotSet, SlotOK
  <2> HIDE DEF h, left, v
  <2>4. /\ Counted(k.heap, V, Plus(c, <<value>>)) /\ Grows(h, k.heap) /\ value \in V
        /\ SlotsOK(V, h, k.heap, k.left)
        /\ \A i \in DOMAIN k.left : h[k.left[i].object].kind = "free"
    BY <1>1, <1>3, <2>3, CopyKeeps
  <2> HIDE DEF k, value
  <2>5. InPackage(h, o, at) /\ h[o].elems[at] = None
    BY <2>2 DEF SlotOK
  <2> HIDE DEF o, at
  <2>6. InPackage(k.heap, o, at) /\ k.heap[o].elems[at] = None
    BY <2>4, <2>5 DEF Grows, InPackage
  <2>7. /\ Counted(g, V, Plus(c, <<k.heap[o].elems[at]>>))
        /\ ElementSet(k.heap, g, o, at, value)
    BY <2>4, <2>6, SetElementKeeps
  <2> HIDE DEF g
  <2>8. Counted(g, V, c)
    BY <2>6, <2>7, PlusNone DEF Counts, None
  <2>9. SlotFilled(h0, h, k.heap, g, slot, value)
    BY ONLY <1>1, <2>2, <2>4, <2>7 DEF SlotFilled, o, at
  <2>10. /\ Grows(h0, g)
         /\ \A other \in SlotSet(V) :
              /\ SlotOK(h0, h, other) /\ (slot.object # other.object \/ slot.at # other.at)
                 => SlotOK(h0, g, other)
              /\ SlotOK(h, k.heap, other) => SlotOK(h0, g, other)
    <3>1. h \in HeapOf(V)
      BY <1>1
    <3> QED BY ONLY ValueSet(V), <2>9, <3>1, SlotsFilled
  <2> DEFINE rest == Tail(left)
  <2>11. /\ rest \in Seq(SlotSet(V)) /\ Len(rest) = Len(left) - 1 /\ Len(left) \in Nat
         /\ \A i \in DOMAIN rest : rest[i] = left[i + 1] /\ i + 1 \in DOMAIN left /\ i + 1 # 1
         /\ \A i \in DOMAIN rest : i \in Nat
    BY <1>1, <1>3
  <2> HIDE DEF rest
  <2>12. SlotsOK(V, h0, g, rest)
    <3>1. ASSUME NEW i \in DOMAIN rest PROVE SlotOK(h0, g, rest[i])
      <4>1. rest[i] \in SlotSet(V) /\ SlotOK(h0, h, rest[i])
        BY <1>1, <2>11 DEF SlotsOK
      <4>2. slot.object # rest[i].object \/ slot.at # rest[i].at
        BY <1>1, <2>2, <2>11 DEF SlotsOK
      <4> QED BY <2>10, <4>1, <4>2
    <3>2. ASSUME NEW i \in DOMAIN rest, NEW j \in DOMAIN rest, i # j
          PROVE  rest[i].object # rest[j].object \/ rest[i].at # rest[j].at
      <4>1. i + 1 # j + 1
        BY <2>11, <3>2, SMTT(30)
      <4> QED BY <1>1, <2>11, <4>1, SMTT(30) DEF SlotsOK
    <3> QED BY <2>11, <3>1, <3>2 DEF SlotsOK
  <2>13. SlotsOK(V, h0, g, k.left)
    <3>1. ASSUME NEW i \in DOMAIN k.left PROVE SlotOK(h0, g, k.left[i])
      <4>1. k.left[i] \in SlotSet(V) /\ SlotOK(h, k.heap, k.left[i])
        BY <2>4 DEF SlotsOK
      <4> QED BY <2>10, <4>1
    <3> QED BY <2>4, <3>1 DEF SlotsOK
  <2>14. \A i \in DOMAIN k.left, j \in DOMAIN rest : k.left[i].object # rest[j].object
    <3> SUFFICES ASSUME NEW i \in DOMAIN k.left, NEW j \in DOMAIN rest
                 PROVE  k.left[i].object # rest[j].object
      OBVIOUS
    <3>1. h[k.left[i].object].kind = "free"
      BY <2>4
    <3>2. SlotOK(h0, h, rest[j])
      BY <1>1, <2>11 DEF SlotsOK
    <3>3. h[rest[j].object].kind = "package"
      BY <3>2 DEF SlotOK, InPackage
    <3> QED BY <3>1, <3>3
  <2>15. SlotsOK(V, h0, g, k.left \o rest)
    BY <2>12, <2>13, <2>14, SlotsConcat, SMTT(30)
  <2>16. more \in Seq(SlotSet(V)) /\ g \in HeapOf(V)
    BY <2>4, <2>8, <2>11 DEF SlotsOK, Counted, rest
  <2>17. SlotsOK(V, h0, g, more)
    BY <2>15 DEF rest
  <2> HIDE DEF more
  <2>18. [heap |-> g, left |-> more] \in Cloning(V, c, h0)
    BY <2>8, <2>10, <2>16, <2>17 DEF Cloning
  <2>19. t \in Cloning(V, c, h0)
    BY ONLY <2>1, <2>18
  <2> QED BY <2>19, SMTT(30) DEF t
<1> HIDE DEF left, h, v
<1>4. left = <<>> \/ ~Fits(h, v) \/ (left # <<>> /\ Fits(h, v))
  OBVIOUS
<1> QED BY ONLY <1>2, <1>3, <1>4

\* A recursion whose values have a property of their own at every step.
LEMMA StagedRecursion ==
  ASSUME NEW n \in Nat, NEW U, NEW P \in [0..n -> SUBSET U], NEW first \in P[0],
         NEW F \in Steps(U, n), \A i \in 1..n : \A s \in P[i - 1] : F[<<s, i>>] \in P[i]
  PROVE  \E g \in [0..n -> U] : Iterates(g, first, F, n) /\ \A i \in 0..n : g[i] \in P[i]
<1>1. 0 \in 0..n /\ P[0] \subseteq U
  OBVIOUS
<1>2. PICK g \in [0..n -> U] : Iterates(g, first, F, n)
  BY <1>1, RecursionExists
<1> DEFINE T == {i \in 0..n : g[i] \in P[i]}
<1>3. 0 \in T
  BY <1>1, <1>2 DEF Iterates
<1>4. ASSUME NEW i \in 1..n, i - 1 \in T PROVE i \in T
  <2>1. g[i - 1] \in P[i - 1]
    BY <1>4
  <2>2. g[i] = F[<<g[i - 1], i>>]
    BY <1>2 DEF Iterates
  <2>3. F[<<g[i - 1], i>>] \in P[i]
    BY <2>1
  <2> QED BY <2>2, <2>3
<1>5. \A i \in 0..n : i \in T
  <2> HIDE DEF T
  <2> QED BY <1>3, <1>4, IntervalInduction
<1> QED BY <1>2, <1>5

LEMMA CloneEnd ==
  ASSUME NEW V, NEW h \in HeapOf(V)
  PROVE  Cardinality(Unused(h)) * Cardinality(UNION {DOMAIN h[o].elems : o \in Objects}) \in Nat
<1> DEFINE D == {DOMAIN h[o].elems : o \in Objects}
           f == [o \in Objects |-> DOMAIN h[o].elems]
<1>1. f \in Surjection(Objects, D)
  BY DEF Surjection
<1>2. IsFiniteSet(D)
  BY <1>1, FS_Surjection, ObjectsAssumption
<1>3. \A d \in D : IsFiniteSet(d)
  BY CellType, SeqFinite
<1>4. IsFiniteSet(UNION D)
  <2> HIDE DEF D
  <2> QED BY <1>2, <1>3, FS_UNION
<1>5. IsFiniteSet(Unused(h))
  BY FS_Subset, ObjectsAssumption DEF Unused
<1> HIDE DEF D
<1>6. Cardinality(UNION D) \in Nat /\ Cardinality(Unused(h)) \in Nat
  BY <1>4, <1>5, FS_CardinalityType
<1>7. Cardinality(Unused(h)) * Cardinality(UNION D) \in Nat
  BY <1>6
<1> QED BY <1>7 DEF D

\* The recursive function of Clone stays within what its steps preserve.
LEMMA CloneRecursion ==
  ASSUME NEW V, NEW h \in HeapOf(V), NEW v, NEW S, Clone(h, v).fits,
         [heap |-> Copy(h, v).heap, left |-> Copy(h, v).left] \in S,
         \A s \in S : CloneNext(s) \in S
  PROVE  /\ Fits(h, v)
         /\ \E s \in S : Clone(h, v) = [heap |-> s.heap, value |-> Copy(h, v).value,
                                      fits |-> s.left = <<>>]
<1> DEFINE copy == Copy(h, v)
           first == [heap |-> copy.heap, left |-> copy.left]
           end == Cardinality(Unused(h)) * Cardinality(UNION {DOMAIN h[o].elems : o \in Objects})
           F == [p \in S \X (1..end) |-> CloneNext(p[1])]
           after[n \in 0..end] == IF n = 0 THEN first ELSE CloneNext(after[n - 1])
<1>1. Fits(h, v) /\ Clone(h, v) = [heap |-> after[end].heap, value |-> copy.value,
                                   fits |-> after[end].left = <<>>]
  <2>1. CASE Fits(h, v)
    BY <2>1, SMTT(30) DEF Clone, CloneRest, Cloned, CloneSteps
  <2>2. CASE ~Fits(h, v)
    <3>1. Clone(h, v) = [heap |-> h, value |-> None, fits |-> FALSE]
      BY <2>2, SMTT(30) DEF Clone
    <3> QED BY <3>1
  <2> QED BY <2>1, <2>2, SMTT(30)
<1>3. first \in S
  OBVIOUS
<1> HIDE DEF copy
<1>4. end \in Nat
  BY CloneEnd
<1> HIDE DEF end, first
<1>7. F \in Steps(S, end)
  BY DEF Steps
<1>8. PICK g \in [0..end -> S] : Iterates(g, first, F, end)
  <2> HIDE DEF F
  <2> QED BY <1>3, <1>4, <1>7, RecursionExists
<1>9. ASSUME NEW n \in 0..end PROVE g[n] = IF n = 0 THEN first ELSE CloneNext(g[n - 1])
  <2>1. CASE n = 0
    BY <1>8, <2>1 DEF Iterates
  <2>2. CASE n # 0
    <3>1. n \in 1..end /\ <<g[n - 1], n>> \in S \X (1..end)
      BY <1>4, <2>2
    <3> QED BY <1>8, <2>2, <3>1 DEF Iterates
  <2> QED BY <2>1, <2>2
<1>10. g = [n \in 0..end |-> IF n = 0 THEN first ELSE CloneNext(g[n - 1])]
  BY <1>9
<1>11. after = [n \in 0..end |-> IF n = 0 THEN first ELSE CloneNext(after[n - 1])]
  BY <1>10, Zenon
<1> HIDE DEF after
<1>12. ASSUME NEW n \in 0..end PROVE after[n] = IF n = 0 THEN first ELSE CloneNext(after[n - 1])
  BY <1>11
<1>13. \A n \in 0..end : after[n] \in S
  <2>1. after[0] \in S
    BY <1>3, <1>4, <1>12
  <2>2. \A n \in 1..end : after[n - 1] \in S => after[n] \in S
    BY <1>4, <1>12
  <2> QED BY <1>4, <2>1, <2>2, RecursionType
<1>14. after[end] \in S
  BY <1>4, <1>13
<1> QED BY <1>1, <1>14 DEF copy

LEMMA CloneKeeps ==
  ASSUME NEW V, ValueSet(V), NEW h, NEW c \in [Objects -> Nat], Counted(h, V, c),
         NEW v \in V, Live(h, v), Clone(h, v).fits
  PROVE  CloneOK(V, h, c, v, Clone(h, v))
<1> DEFINE copy == Copy(h, v)
           S == Cloning(V, Plus(c, <<copy.value>>), h)
<1>1. Fits(h, v)
  <2> SUFFICES ASSUME ~Fits(h, v) PROVE FALSE
    OBVIOUS
  <2>1. Clone(h, v) = [heap |-> h, value |-> None, fits |-> FALSE]
    BY SMTT(30) DEF Clone
  <2> QED BY <2>1
<1>2. /\ Counted(copy.heap, V, Plus(c, <<copy.value>>)) /\ Grows(h, copy.heap) /\ copy.value \in V
      /\ IF v.type = "object"
         THEN Counts(copy.value) /\ copy.value.object \in Objects /\ h[copy.value.object].kind = "free"
         ELSE copy.value = v
      /\ SlotsOK(V, h, copy.heap, copy.left)
  <2> HIDE DEF S
  <2> QED BY <1>1, CopyKeeps
<1> HIDE DEF copy
<1>3. [heap |-> copy.heap, left |-> copy.left] \in S
  BY <1>2 DEF Cloning, SlotsOK, Counted
<1>4. h \in HeapOf(V) /\ Plus(c, <<copy.value>>) \in [Objects -> Nat]
  BY <1>2, PlusOne DEF Counted
<1>5. \A s \in S : CloneNext(s) \in S
  BY <1>4, CloneNextKeeps
<1> HIDE DEF S
<1>6. PICK s \in S : Clone(h, v) = [heap |-> s.heap, value |-> copy.value, fits |-> s.left = <<>>]
  BY <1>3, <1>4, <1>5, CloneRecursion DEF copy
<1>7. Counted(s.heap, V, Plus(c, <<copy.value>>)) /\ Grows(h, s.heap)
  BY <1>6 DEF S, Cloning
<1> QED BY <1>2, <1>6, <1>7, SMTT(30) DEF CloneOK

(***************************************************************************)
(* Packages are overwritten.                                               *)
(***************************************************************************)

LEMMA ArrayKeeps ==
  ASSUME NEW V, ValueSet(V), NEW h, NEW c \in [Objects -> Nat], Counted(h, V, c),
         NEW o, NEW n, NEW f, NEW gone, ArrayOK(V, h, o, n, f, gone)
  PROVE  LET g == WithArray(h, o, n, f)
         IN  /\ Counted(g, V, Plus(c, gone))
             /\ g[o].kind = "package" /\ g[o].size = n /\ g[o].elems = f
             /\ \A p \in Objects \ {o} : g[p] = h[p]
<1> DEFINE cell == [h[o] EXCEPT !.size = n, !.elems = f]
           g == [h EXCEPT ![o] = cell]
<1>6. WithArray(h, o, n, f) = g
  BY DEF WithArray
<1>7. o \in Objects /\ h[o].kind = "package"
  BY DEF ArrayOK
<1>0. /\ o \in Objects /\ h[o].kind = "package" /\ n \in Nat /\ f \in Seq(V) /\ gone \in Seq(V)
      /\ n <= Len(f) /\ \A i \in DOMAIN f : i > n => f[i] = None
      /\ \A p \in Objects : Uses(h[o].elems, p) = Uses(f, p) + Uses(gone, p)
  BY DEF ArrayOK
<1>1. h \in HeapOf(V) /\ h[o] \in Cell(V)
  BY <1>0, CellType DEF Counted
<1>2. /\ cell \in Cell(V) /\ CellOK(cell) /\ cell.kind = "package" /\ cell.rc = h[o].rc
      /\ cell.size = n /\ cell.elems = f
  BY <1>0, <1>1 DEF Cell, CellOK
<1> HIDE DEF cell
<1>3. g \in HeapOf(V) /\ g[o] = cell /\ \A p \in Objects \ {o} : g[p] = h[p]
  BY <1>0, <1>1, <1>2, CellKeeps
<1> HIDE DEF g
<1>4. ASSUME NEW p \in Objects
      PROVE  /\ g[p].rc = UsesIn(Rows(g), p) + Plus(c, gone)[p]
             /\ g[p].kind = "free" <=> g[p].rc = 0
  <2>1. h[p].rc = UsesIn(Rows(h), p) + c[p] /\ (h[p].kind = "free" <=> h[p].rc = 0)
    BY DEF Counted
  <2>2. g[p].rc = h[p].rc /\ g[p].kind = h[p].kind
    BY <1>2, <1>3, <1>7
  <2>3. /\ UsesIn(Rows(h), p) \in Nat /\ UsesIn(Rows(g), p) \in Nat
        /\ UsesIn(Rows(g), p) + Uses(h[o].elems, p) = UsesIn(Rows(h), p) + Uses(f, p)
    <3>1. \A q \in Objects \ {o} : g[q].elems = h[q].elems
      BY <1>3
    <3>2. g[o].elems = f
      BY <1>2, <1>3
    <3>3. /\ UsesIn(Rows(h), p) \in Nat /\ UsesIn(Rows(g), p) \in Nat
          /\ Uses(h[o].elems, p) \in Nat /\ Uses(g[o].elems, p) \in Nat
          /\ UsesIn(Rows(g), p) + Uses(h[o].elems, p) = UsesIn(Rows(h), p) + Uses(g[o].elems, p)
      BY ONLY <1>1, <1>3, <1>7, <3>1, HeapAt
    <3> QED BY ONLY <3>2, <3>3
  <2>4. Uses(h[o].elems, p) = Uses(f, p) + Uses(gone, p) /\ Uses(f, p) \in Nat /\ Uses(gone, p) \in Nat
    BY <1>0, UsesOfSeq
  <2>5. Plus(c, gone)[p] = c[p] + Uses(gone, p) /\ c[p] \in Nat
    BY PlusAt
  <2>7. UsesIn(Rows(g), p) + Uses(gone, p) = UsesIn(Rows(h), p)
    BY ONLY <2>3, <2>4
  <2>6. UsesIn(Rows(g), p) + Plus(c, gone)[p] = UsesIn(Rows(h), p) + c[p]
    BY ONLY <2>3, <2>4, <2>5, <2>7
  <2> QED BY ONLY <2>1, <2>2, <2>6
<1>5. Counted(g, V, Plus(c, gone))
  BY <1>0, <1>3, <1>4, PlusType DEF Counted
<1> QED BY <1>2, <1>3, <1>5, <1>6

LEMMA SequenceSplit ==
  ASSUME NEW V, NEW e \in Seq(V), NEW n \in Nat, n <= Len(e)
  PROVE  SubSeq(e, 1, n) \o SubSeq(e, n + 1, Len(e)) = e /\ SubSeq(e, n + 1, Len(e)) \in Seq(V)
<1> DEFINE m == Len(e)
           front == SubSeq(e, 1, n)
           rest == SubSeq(e, n + 1, m)
           all == front \o rest
<1>1. m \in Nat /\ n + 1 \in Nat /\ n + 1 \in 1..(m + 1) /\ m \in 0..m
  OBVIOUS
<1>2. front \in Seq(V) /\ Len(front) = n /\ \A i \in 1..n : front[i] = e[i]
  <2>1. 1 \in 1..(Len(e) + 1) /\ n \in (1 - 1)..Len(e)
    BY <1>1
  <2> QED BY <2>1, SubSeqProperties
<1>3. rest \in Seq(V) /\ Len(rest) = m - n /\ \A i \in 1..(m - n) : rest[i] = e[n + i]
  <2>1. n + 1 \in 1..(Len(e) + 1) /\ m \in ((n + 1) - 1)..Len(e)
    BY <1>1
  <2> QED BY <2>1, SubSeqProperties
<1> HIDE DEF front, rest, m
<1>4. /\ all \in Seq(V) /\ Len(all) = n + (m - n)
      /\ \A i \in 1..(n + (m - n)) : all[i] = IF i <= n THEN front[i] ELSE rest[i - n]
  <2>1. /\ all \in Seq(V) /\ Len(all) = Len(front) + Len(rest)
        /\ \A i \in 1..(Len(front) + Len(rest)) :
              all[i] = IF i <= Len(front) THEN front[i] ELSE rest[i - Len(front)]
    BY ONLY <1>2, <1>3, ConcatProperties, ZenonT(30)
  <2> HIDE DEF all
  <2> QED BY <1>2, <1>3, <2>1, SMTT(30)
<1> HIDE DEF all
<1>5. Len(all) = m /\ \A i \in 1..m : all[i] = e[i]
  <2>1. Len(all) = m
    BY ONLY <1>1, <1>4, n \in Nat
  <2>2. ASSUME NEW i \in 1..m PROVE all[i] = e[i]
    <3>1. i \in 1..(n + (m - n))
      BY ONLY <1>1, n \in Nat, i \in 1..m
    <3>2. CASE i <= n
      <4>1. i \in 1..n
        BY ONLY <1>1, <3>2
      <4> QED BY ONLY <1>2, <1>4, <3>1, <3>2, <4>1
    <3>3. CASE ~(i <= n)
      <4>1. i - n \in 1..(m - n) /\ n + (i - n) = i
        BY ONLY <1>1, <3>3, n \in Nat, i \in 1..m
      <4>2. all[i] = rest[i - n] /\ rest[i - n] = e[n + (i - n)]
        BY ONLY <1>3, <1>4, <3>1, <3>3, <4>1
      <4> QED BY ONLY <4>1, <4>2
    <3> QED BY ONLY <3>2, <3>3
  <2> QED BY ONLY <2>1, <2>2
<1>6. all = e
  <2>1. /\ all \in Seq(V) /\ e \in Seq(V) /\ Len(all) = Len(e)
        /\ \A i \in 1..Len(all) : all[i] = e[i]
    BY <1>4, <1>5 DEF m
  <2> QED BY ONLY <2>1, SeqEqual
<1> QED BY <1>3, <1>6 DEF all, front, rest, m

\* lai_obj_resize_pkg().
LEMMA ResizeKeeps ==
  ASSUME NEW V, ValueSet(V), NEW h, NEW c \in [Objects -> Nat], Counted(h, V, c),
         NEW o \in Objects, h[o].kind = "package", NEW n \in Nat
  PROVE  /\ Counted(Resize(h, o, n), V, c) /\ Resized(h, Resize(h, o, n), o, n)
         /\ Drawn(h, Resize(h, o, n), o, o)
<1> DEFINE e == h[o].elems
           size == h[o].size
<1>1. /\ h \in HeapOf(V) /\ h[o] \in Cell(V) /\ e \in Seq(V) /\ size \in Nat /\ size <= Len(e)
      /\ \A i \in DOMAIN e : i > size => e[i] = None
      /\ DOMAIN e = 1..Len(e) /\ Len(e) \in Nat
  BY CellType DEF Counted, CellOK
<1>2. None \in V /\ \A p : ~Holds(None, p)
  BY DEF ValueSet, Holds, Counts, None
<1>3. CASE n <= size
  <2> DEFINE f == [i \in DOMAIN e |-> IF i <= n THEN e[i] ELSE None]
             front == SubSeq(e, 1, n)
             gone == SubSeq(e, n + 1, Len(e))
             g == WithArray(h, o, n, f)
  <2>1. Resize(h, o, n) = Finalize(g, gone)
    <3>1. [h EXCEPT ![o].size = n, ![o].elems = f] = g
      BY <1>1 DEF HeapOf, Cell, WithArray
    <3> QED BY <1>3, <3>1 DEF Resize
  <2> HIDE DEF e
  <2>2. f \in Seq(V) /\ Len(f) = Len(e) /\ DOMAIN f = DOMAIN e
    BY <1>1, <1>2
  <2>9. n <= Len(e)
    BY <1>1, <1>3
  <2>10. front \in Seq(V) /\ Len(front) = n /\ \A i \in 1..n : front[i] = e[i] /\ i \in DOMAIN e
    BY ONLY <1>1, <2>9, n \in Nat
  <2>3. /\ front \in Seq(V) /\ gone \in Seq(V) /\ e = front \o gone /\ Len(front) = n
        /\ \A i \in 1..n : front[i] = e[i] /\ i \in DOMAIN e
    <3>1. front \o gone = e /\ gone \in Seq(V)
      BY ONLY <1>1, <2>9, n \in Nat, SequenceSplit, Zenon
    <3> QED BY <2>10, <3>1
  <2>4. \A i \in DOMAIN e : f[i] = IF i <= n THEN e[i] ELSE None
    OBVIOUS
  <2> HIDE DEF f, front, gone
  <2>5. ASSUME NEW p \in Objects PROVE Uses(e, p) = Uses(f, p) + Uses(gone, p)
    <3>1. Uses(e, p) = Uses(front, p) + Uses(gone, p)
      BY <2>3, UsesConcat
    <3>2. DOMAIN front = 1..n
      BY <2>3
    <3>4. \A i \in DOMAIN f : Holds(f[i], p) <=> i \in 1..n /\ Holds(front[i], p)
      <4> SUFFICES ASSUME NEW i \in DOMAIN f
                   PROVE  Holds(f[i], p) <=> i \in 1..n /\ Holds(front[i], p)
        OBVIOUS
      <4>1. i \in DOMAIN e /\ i \in 1..Len(e)
        BY <1>1, <2>2
      <4>2. CASE i <= n
        BY <2>3, <2>4, <4>1, <4>2
      <4>3. CASE ~(i <= n)
        BY <1>2, <2>4, <4>1, <4>3
      <4> QED BY <4>2, <4>3
    <3>5. \A i \in 1..n : i \in DOMAIN f
      BY <2>2, <2>3
    <3>3. Users(f, p) = Users(front, p)
      BY <3>2, <3>4, <3>5 DEF Users
    <3> QED BY <3>1, <3>3 DEF Uses, Users
  <2>6. /\ Counted(g, V, Plus(c, gone)) /\ g[o].kind = "package" /\ g[o].size = n
        /\ g[o].elems = f /\ \A p \in Objects \ {o} : g[p] = h[p]
    <3>1. n <= Len(f) /\ \A i \in DOMAIN f : i > n => f[i] = None
      BY <1>1, <1>3, <2>2, <2>4
    <3>2. \A p \in Objects : Uses(h[o].elems, p) = Uses(f, p) + Uses(gone, p)
      BY <2>5 DEF e
    <3>3. ArrayOK(V, h, o, n, f, gone)
      BY <2>2, <2>3, <3>1, <3>2 DEF ArrayOK
    <3> QED BY <3>3, ArrayKeeps
  <2> HIDE DEF g
  <2>7. Counted(Finalize(g, gone), V, c) /\ Shrinks(g, Finalize(g, gone))
    BY <2>3, <2>6, FinalizeKeeps
  <2>8. Resized(h, Finalize(g, gone), o, n)
    BY <2>6, <2>7 DEF Resized, Shrinks
  <2>11. Drawn(h, Finalize(g, gone), o, o)
    <3> DEFINE k == Finalize(g, gone)
    <3> HIDE DEF k
    <3>1. Counted(k, V, c) /\ Shrinks(g, k)
      BY <2>7 DEF k
    <3>2. k[o].kind = "free" => k[o].elems = <<>>
      BY <3>1, CellType DEF Counted, CellOK
    <3>3. k[o].kind # "free" => k[o].elems = f
      BY <2>6, <3>1 DEF Shrinks
    <3>4. \A i \in DOMAIN k[o].elems : k[o].elems = f /\ i \in DOMAIN e
      BY <2>2, <3>2, <3>3
    <3>5. \A i \in DOMAIN k[o].elems : k[o].elems[i] = None \/ k[o].elems[i] = e[i]
      BY <2>4, <3>4
    <3> QED BY <3>4, <3>5 DEF Drawn, e, k
  <2> QED BY <2>1, <2>7, <2>8, <2>11
<1>4. CASE n > size
  <2> DEFINE f == [i \in 1..n |-> IF i <= size THEN e[i] ELSE None]
             g == WithArray(h, o, n, f)
  <2>1. Resize(h, o, n) = g
    <3>1. [h EXCEPT ![o].size = n, ![o].elems = f] = g
      BY <1>1 DEF HeapOf, Cell, WithArray
    <3>2. ~(n <= size)
      BY <1>1, <1>4
    <3> QED BY <3>1, <3>2 DEF Resize
  <2> HIDE DEF e, size
  <2>2. f \in Seq(V) /\ Len(f) = n /\ DOMAIN f = 1..n
    <3>1. \A i \in 1..n : f[i] \in V
      BY <1>1, <1>2
    <3> QED BY <3>1
  <2>4. \A i \in 1..n : f[i] = IF i <= size THEN e[i] ELSE None
    OBVIOUS
  <2> HIDE DEF f
  <2>5. ASSUME NEW p \in Objects PROVE Uses(e, p) = Uses(f, p) + Uses(<<>>, p)
    <3>4. ASSUME NEW i \in DOMAIN e, Holds(e[i], p) PROVE i \in 1..n /\ f[i] = e[i]
      <4>1. i \in Nat /\ i <= size /\ i > 0
        BY <1>1, <1>2, <3>4
      <4> QED BY <1>1, <1>4, <2>4, <4>1
    <3>5. ASSUME NEW i \in 1..n, Holds(f[i], p) PROVE i \in DOMAIN e /\ f[i] = e[i]
      <4>1. i <= size /\ f[i] = e[i]
        BY <1>2, <2>4, <3>5
      <4> QED BY <1>1, <4>1
    <3>1. Users(f, p) = Users(e, p)
      BY <2>2, <3>4, <3>5 DEF Users
    <3>2. Uses(<<>>, p) = 0 /\ Uses(e, p) \in Nat
      BY <1>1, UsesNone, UsesOfSeq
    <3>3. Uses(e, p) = Uses(f, p)
      BY <3>1 DEF Uses, Users
    <3> QED BY <3>2, <3>3
  <2>6. /\ Counted(g, V, Plus(c, <<>>)) /\ g[o].kind = "package" /\ g[o].size = n
        /\ g[o].elems = f /\ \A p \in Objects \ {o} : g[p] = h[p]
    <3>1. n <= Len(f) /\ \A i \in DOMAIN f : i > n => f[i] = None
      BY <2>2
    <3>2. \A p \in Objects : Uses(h[o].elems, p) = Uses(f, p) + Uses(<<>>, p)
      BY <2>5 DEF e
    <3>3. <<>> \in Seq(V)
      OBVIOUS
    <3>4. ArrayOK(V, h, o, n, f, <<>>)
      BY <2>2, <3>1, <3>2, <3>3 DEF ArrayOK
    <3> QED BY <3>4, ArrayKeeps
  <2>7. Resized(h, g, o, n)
    BY <2>6, SMTT(30) DEF Resized
  <2>8. Drawn(h, g, o, o)
    <3>1. ASSUME NEW i \in 1..n, f[i] # None PROVE f[i] = e[i] /\ i \in DOMAIN e
      <4>1. i \in Nat /\ i > 0 /\ i <= size /\ f[i] = e[i]
        BY <2>4, <3>1
      <4> QED BY <1>1, <4>1
    <3>2. g[o].elems = f /\ DOMAIN f = 1..n
      BY <2>2, <2>6
    <3> QED BY <3>1, <3>2 DEF Drawn, e
  <2> QED BY <2>1, <2>6, <2>7, <2>8, PlusNothing
<1> QED BY <1>1, <1>3, <1>4

LEMMA OverwriteNext ==
  ASSUME NEW V, ValueSet(V), NEW h, NEW c \in [Objects -> Nat], NEW o, NEW r,
         Overwrites(V, c, h, o, r), NEW i \in 1..h[r].size, NEW s \in Overwritten(V, c, h, o, r, i - 1)
  PROVE  LET new == s[r].elems[i]
         IN  AssignElement(Ref(s, new), o, i, new) \in Overwritten(V, c, h, o, r, i)
<1> DEFINE e == h[r].elems
           n == h[r].size
           new == s[r].elems[i]
           before == SubSeq(e, 1, i - 1)
           now == SubSeq(e, 1, i)
           d == Plus(c, before)
           d2 == Plus(c, now)
           f == Ref(s, new)
           g == AssignElement(f, o, i, new)
<1>1. /\ o \in Objects /\ r \in Objects /\ o # r /\ h \in HeapOf(V)
      /\ h[o].kind = "package" /\ h[r].kind = "package" /\ c[o] > 0 /\ c[r] > 0
  BY DEF Overwrites, Counted
<1>2. e \in Seq(V) /\ n \in Nat /\ n <= Len(e) /\ Len(e) \in Nat
  BY <1>1, CellType DEF CellOK
<1>3. i \in DOMAIN e /\ e[i] \in V /\ i \in Nat /\ 1 <= i /\ i <= n
  BY <1>2
<1> HIDE DEF e
<1>4. before \in Seq(V) /\ now \in Seq(V) /\ now = Append(before, e[i])
  BY <1>2, <1>3, SMTT(30)
<1>5. s \in HeapOf(V) /\ Counted(s, V, d) /\ Resized(h, s, o, n) /\ Drawn(h, s, o, r)
  BY DEF Overwritten, e
<1> HIDE DEF before, now, n
<1>6. d \in [Objects -> Nat] /\ d[o] > 0 /\ d[r] > 0
  <2>1. /\ Uses(before, o) \in Nat /\ Uses(before, r) \in Nat
        /\ d[o] = c[o] + Uses(before, o) /\ d[r] = c[r] + Uses(before, r)
    BY <1>1, <1>4, UsesOfSeq, PlusAt
  <2>2. c[o] \in Nat /\ c[r] \in Nat
    BY <1>1
  <2>3. d \in [Objects -> Nat]
    BY <1>4, PlusType
  <2> HIDE DEF d
  <2> QED BY <1>1, <2>1, <2>2, <2>3
<1>7. d2 = Plus(d, <<e[i]>>)
  <2> DEFINE one == <<e[i]>>
  <2>1. one \in Seq(V) /\ now = before \o one
    BY <1>3, <1>4
  <2> HIDE DEF one
  <2>2. Plus(Plus(c, before), one) = Plus(c, before \o one)
    BY <1>4, <2>1, PlusConcat
  <2> QED BY <2>1, <2>2 DEF one
<1>8. d2 \in [Objects -> Nat]
  BY <1>4, PlusType
<1> HIDE DEF d, d2
<1>9. s[o].kind # "free" /\ s[r].kind # "free"
  BY ONLY <1>1, <1>5, <1>6, UsedAlive
<1>10. s[o].kind = "package" /\ s[o].size = n /\ s[r].elems = e
  BY <1>1, <1>5, <1>9 DEF Resized, e
<1>11. new = e[i] /\ new \in V /\ i \in DOMAIN s[r].elems
  BY <1>3, <1>10
<1>12. Counts(new) => s[new.object].kind # "free"
  <2> SUFFICES ASSUME Counts(new) PROVE s[new.object].kind # "free"
    OBVIOUS
  <2>1. new.object \in Objects /\ Holds(s[r].elems[i], new.object)
    BY <1>11 DEF ValueSet, Holds
  <2> HIDE DEF new
  <2> QED BY ONLY <1>1, <1>5, <1>11, <2>1, UsedAlive, SMTT(30)
<1> HIDE DEF new
<1>13. Counted(f, V, d2) /\ Grows(s, f) /\ Shrinks(s, f)
  <2>1. Counted(f, V, Plus(d, <<new>>)) /\ Grows(s, f) /\ Shrinks(s, f)
    BY ONLY ValueSet(V), <1>5, <1>6, <1>11, <1>12, RefKeeps
  <2> QED BY <1>7, <1>11, <2>1
<1>14. \A p \in Objects : f[p].kind = s[p].kind /\ f[p].size = s[p].size /\ f[p].elems = s[p].elems
  BY <1>5, <1>11, RefType
<1> HIDE DEF f
<1>15. InPackage(f, o, i) /\ (Counts(new) => f[new.object].kind # "free")
  <2>1. Counts(new) => new.object \in Objects
    BY <1>11 DEF ValueSet
  <2>2. i \in 1..n
    BY <1>2, <1>3
  <2> QED BY <1>1, <1>10, <1>12, <1>14, <2>1, <2>2 DEF InPackage
<1>16. Counted(g, V, d2) /\ ElementAssigned(f, g, o, i, new)
  BY <1>8, <1>11, <1>13, <1>15, AssignElementKeeps
<1> HIDE DEF g
<1>17. Resized(h, g, o, n)
  <2>1. ASSUME NEW p \in Objects \ {o}, g[p].kind # "free"
        PROVE  g[p].kind = h[p].kind /\ g[p].size = h[p].size /\ g[p].elems = h[p].elems
    <3>1. g[p].kind = f[p].kind /\ g[p].size = f[p].size /\ g[p].elems = f[p].elems
      BY <1>16, <2>1 DEF ElementAssigned
    <3> QED BY <1>5, <1>14, <2>1, <3>1 DEF Resized
  <2>2. g[o].kind # "free" => g[o].kind = "package" /\ g[o].size = n
    BY <1>1, <1>10, <1>14, <1>16 DEF ElementAssigned
  <2> QED BY <2>1, <2>2 DEF Resized
<1>18. g \in HeapOf(V)
  BY <1>16 DEF Counted
<1>19. Drawn(h, g, o, r)
  <2>1. CASE g[o].kind = "free"
    BY <1>1, <1>18, <2>1, CellType DEF CellOK, Drawn
  <2>2. CASE g[o].kind # "free"
    <3>1. /\ DOMAIN g[o].elems = DOMAIN s[o].elems /\ g[o].elems[i] = e[i] /\ i \in DOMAIN h[r].elems
          /\ \A j \in DOMAIN g[o].elems \ {i} : g[o].elems[j] = s[o].elems[j]
      BY <1>1, <1>3, <1>11, <1>14, <1>16, <2>2 DEF ElementAssigned, e
    <3> HIDE DEF e
    <3>2. \A j \in DOMAIN g[o].elems : j # i =>
             LET x == g[o].elems[j]
             IN  \/ x = None
                 \/ j \in DOMAIN h[o].elems /\ x = h[o].elems[j]
                 \/ j \in DOMAIN h[r].elems /\ x = h[r].elems[j]
      BY ONLY <1>5, <3>1 DEF Drawn
    <3> QED BY ONLY <3>1, <3>2 DEF Drawn, e
  <2> QED BY <2>1, <2>2
<1> QED BY <1>16, <1>17, <1>18, <1>19 DEF Overwritten, d2, now, e, n, g, f, new

\* lai_obj_copy_into() of a package: the elements gain a use that nobody has.
LEMMA OverwriteKeeps ==
  ASSUME NEW V, ValueSet(V), NEW h, NEW c \in [Objects -> Nat], NEW o, NEW r,
         Overwrites(V, c, h, o, r)
  PROVE  /\ Counted(Overwrite(h, o, r), V, Plus(c, ElementsOf(h, r)))
         /\ Resized(h, Overwrite(h, o, r), o, h[r].size) /\ Drawn(h, Overwrite(h, o, r), o, r)
<1> DEFINE n == h[r].size
           U == HeapOf(V)
           first == Resize(h, o, n)
           Next1(s, i) == LET new == s[r].elems[i] IN AssignElement(Ref(s, new), o, i, new)
           P == [i \in 0..n |-> Overwritten(V, c, h, o, r, i)]
           F == [p \in U \X (1..n) |-> IF p[1] \in P[p[2] - 1] THEN Next1(p[1], p[2]) ELSE p[1]]
           stored[i \in 0..n] ==
             IF i = 0 THEN first
             ELSE LET new == stored[i - 1][r].elems[i]
                  IN  AssignElement(Ref(stored[i - 1], new), o, i, new)
<1>1. /\ Counted(h, V, c) /\ o \in Objects /\ r \in Objects /\ h \in HeapOf(V)
      /\ h[o].kind = "package" /\ h[r].kind = "package"
  BY DEF Overwrites, Counted
<1>2. n \in Nat /\ h[r].elems \in Seq(V)
  BY <1>1, CellType
<1>3. Overwrite(h, o, r) = stored[n]
  BY DEF Overwrite
<1>4. Counted(first, V, c) /\ Resized(h, first, o, n) /\ Drawn(h, first, o, r)
  BY <1>1, <1>2, ResizeKeeps DEF Drawn
<1> HIDE DEF first
<1>5. first \in P[0]
  <2>1. SubSeq(h[r].elems, 1, 0) = <<>>
    BY <1>2
  <2>2. Plus(c, SubSeq(h[r].elems, 1, 0)) = c
    BY <2>1, PlusNothing
  <2>3. first \in Overwritten(V, c, h, o, r, 0)
    BY <1>4, <2>2 DEF Overwritten, Counted
  <2> QED BY <1>2, <2>3
<1>6. P \in [0..n -> SUBSET U]
  BY DEF Overwritten
<1>7. \A i \in 1..n : \A s \in P[i - 1] : Next1(s, i) \in P[i]
  <2> SUFFICES ASSUME NEW i \in 1..n, NEW s \in P[i - 1] PROVE Next1(s, i) \in P[i]
    OBVIOUS
  <2>1. i \in 0..n /\ i - 1 \in 0..n
    BY <1>2
  <2>2. s \in Overwritten(V, c, h, o, r, i - 1)
    BY <2>1
  <2>3. Next1(s, i) \in Overwritten(V, c, h, o, r, i)
    BY <2>2, OverwriteNext
  <2> HIDE DEF Next1
  <2> QED BY <2>1, <2>3
<1>8. \A i \in 1..n : i - 1 \in 0..n
  BY <1>2
<1> HIDE DEF Next1, P, U, n
<1>9. F \in Steps(U, n)
  <2>1. ASSUME NEW p \in U \X (1..n) PROVE F[p] \in U
    <3>1. p[1] \in U /\ p[2] \in 1..n /\ p[2] \in 0..n
      BY <1>2
    <3>2. CASE p[1] \in P[p[2] - 1]
      BY <1>6, <1>7, <3>1, <3>2
    <3>3. CASE p[1] \notin P[p[2] - 1]
      BY <3>1, <3>3
    <3> QED BY <3>2, <3>3
  <2> QED BY <2>1 DEF Steps
<1>10. ASSUME NEW i \in 1..n, NEW s \in P[i - 1]
       PROVE  F[<<s, i>>] = Next1(s, i) /\ F[<<s, i>>] \in P[i]
  <2>1. <<s, i>> \in U \X (1..n)
    BY <1>6, <1>8
  <2>2. F[<<s, i>>] = Next1(s, i)
    BY <2>1
  <2> QED BY <1>7, <2>2
<1> HIDE DEF F
<1>11. PICK g \in [0..n -> U] : Iterates(g, first, F, n) /\ \A i \in 0..n : g[i] \in P[i]
  BY <1>2, <1>5, <1>6, <1>9, <1>10, StagedRecursion
<1>12. ASSUME NEW i \in 0..n PROVE g[i] = IF i = 0 THEN first ELSE Next1(g[i - 1], i)
  <2>1. CASE i = 0
    BY <1>11, <2>1 DEF Iterates
  <2>2. CASE i # 0
    <3>1. i \in 1..n /\ g[i - 1] \in P[i - 1]
      BY <1>2, <1>11, <2>2
    <3> QED BY <1>10, <1>11, <2>2, <3>1 DEF Iterates
  <2> QED BY <2>1, <2>2
<1>13. g = [i \in 0..n |-> IF i = 0 THEN first
                           ELSE LET new == g[i - 1][r].elems[i]
                                IN  AssignElement(Ref(g[i - 1], new), o, i, new)]
  BY <1>12 DEF Next1
<1>14. stored = [i \in 0..n |-> IF i = 0 THEN first
                           ELSE LET new == stored[i - 1][r].elems[i]
                                IN  AssignElement(Ref(stored[i - 1], new), o, i, new)]
  BY <1>13, Zenon
<1> HIDE DEF stored
<1>15. \A i \in 0..n : stored[i] \in P[i]
  <2> DEFINE T == {i \in 0..n : stored[i] \in P[i]}
  <2>1. 0 \in T
    BY <1>2, <1>5, <1>14
  <2>2. ASSUME NEW i \in 1..n, i - 1 \in T PROVE i \in T
    <3>1. stored[i - 1] \in P[i - 1] /\ i \in 0..n /\ i # 0
      <4>1. stored[i - 1] \in P[i - 1]
        BY ONLY <2>2 DEF T
      <4>2. i \in 0..n /\ i # 0
        BY ONLY <1>2, <2>2
      <4> QED BY ONLY <4>1, <4>2
    <3>2. stored[i] = Next1(stored[i - 1], i)
      BY <1>14, <3>1, Zenon DEF Next1
    <3> QED BY <1>7, <3>1, <3>2
  <2> HIDE DEF T
  <2>3. \A i \in 0..n : i \in T
    BY <1>2, <2>1, <2>2, IntervalInduction
  <2> QED BY <2>3 DEF T
<1>16. stored[n] \in Overwritten(V, c, h, o, r, n)
  BY <1>2, <1>15 DEF P
<1>17. SubSeq(h[r].elems, 1, n) = ElementsOf(h, r)
  BY <1>1 DEF ElementsOf, n
<1> QED BY <1>3, <1>16, <1>17 DEF Overwritten, n

(***************************************************************************)
(* Literals.                                                               *)
(***************************************************************************)

LEMMA PlusAppend ==
  ASSUME NEW V, NEW c \in [Objects -> Nat], NEW vs \in Seq(V), NEW v \in V
  PROVE  /\ Append(vs, v) \in Seq(V) /\ Plus(c, Append(vs, v)) = Plus(Plus(c, vs), <<v>>)
         /\ Plus(c, vs) \in [Objects -> Nat]
<1> DEFINE one == <<v>>
<1>1. one \in Seq(V) /\ Append(vs, v) = vs \o one /\ Append(vs, v) \in Seq(V)
  OBVIOUS
<1> HIDE DEF one
<1>2. Plus(Plus(c, vs), one) = Plus(c, vs \o one)
  BY <1>1, PlusConcat
<1>3. Plus(c, vs) \in [Objects -> Nat]
  BY PlusType
<1> QED BY <1>1, <1>2, <1>3 DEF one

LEMMA UnusedFinite ==
  ASSUME NEW h
  PROVE  /\ IsFiniteSet(Unused(h)) /\ Cardinality(Unused(h)) \in Nat
         /\ Cardinality(Unused(h)) > 0 <=> Unused(h) # {}
<1>1. IsFiniteSet(Unused(h))
  BY FS_Subset, ObjectsAssumption DEF Unused
<1>2. Cardinality(Unused(h)) \in Nat /\ (Cardinality(Unused(h)) = 0 <=> Unused(h) = {})
  BY <1>1, FS_CardinalityType, FS_EmptySet
<1> QED BY <1>1, <1>2

\* A new string or buffer.
LEMMA CreateBytesKeeps ==
  ASSUME NEW V, ValueSet(V), NEW h, NEW c \in [Objects -> Nat], Counted(h, V, c), Unused(h) # {}
  PROVE  LET x == Fresh(h)
             g == Create(h, "bytes", <<>>)
         IN  /\ x \in Objects /\ h[x].kind = "free" /\ Whole(x) \in V
             /\ Counted(g, V, Plus(c, <<Whole(x)>>)) /\ Grows(h, g)
             /\ Cardinality(Unused(g)) = Cardinality(Unused(h)) - 1
<1> DEFINE x == Fresh(h)
           g == Create(h, "bytes", <<>>)
           none == <<>>
<1>1. none \in Seq(V) /\ Counted(h, V, Plus(c, none))
  BY PlusNothing
<1>2. /\ x \in Objects /\ h[x].kind = "free" /\ Whole(x) \in V
      /\ g[x].kind = "bytes"
      /\ Counted(g, V, Plus(c, <<Whole(x)>>)) /\ Grows(h, g)
  <2> DEFINE kind == "bytes"
             g2 == Create(h, kind, none)
  <2>1. kind \in {"bytes", "package"} /\ (kind = "bytes" => none = <<>>)
    OBVIOUS
  <2> HIDE DEF none, kind, x
  <2>2. /\ x \in Objects /\ h[x].kind = "free" /\ Whole(x) \in V
        /\ g2[x].kind = kind
        /\ Counted(g2, V, Plus(c, <<Whole(x)>>)) /\ Grows(h, g2)
    BY <1>1, <2>1, CreateKeeps DEF x
  <2> QED BY <2>2 DEF kind, none
<1>3. h \in HeapOf(V) /\ h \in [Objects -> Cell(V)]
  BY DEF Counted, HeapOf
<1>4. \A p \in Objects \ {x} : g[p] = h[p]
  BY <1>3 DEF Create
<1> HIDE DEF g, x
<1>5. Unused(g) = Unused(h) \ {x} /\ x \in Unused(h)
  BY <1>2, <1>4 DEF Unused
<1>6. Cardinality(Unused(g)) = Cardinality(Unused(h)) - 1
  BY <1>5, UnusedFinite, FS_RemoveElement
<1> QED BY <1>2, <1>6 DEF g, x

LEMMA BytesInNext ==
  ASSUME NEW kinds, NEW i \in Nat, i > 0
  PROVE  /\ BytesIn(kinds, i) \in Nat /\ BytesIn(kinds, i - 1) \in Nat
         /\ BytesIn(kinds, i) = BytesIn(kinds, i - 1) + IF kinds[i] = "bytes" THEN 1 ELSE 0
<1> DEFINE S(k) == {j \in 1..k : kinds[j] = "bytes"}
<1>1. IsFiniteSet(1..i) /\ IsFiniteSet(1..(i - 1))
  BY FS_Interval
<1>2. IsFiniteSet(S(i)) /\ IsFiniteSet(S(i - 1))
  BY <1>1, FS_Subset
<1>3. Cardinality(S(i)) \in Nat /\ Cardinality(S(i - 1)) \in Nat
  BY <1>2, FS_CardinalityType
<1>4. CASE kinds[i] = "bytes"
  <2>1. i \in S(i) /\ S(i) \ {i} = S(i - 1)
    BY <1>4
  <2> HIDE DEF S
  <2>2. Cardinality(S(i) \ {i}) = Cardinality(S(i)) - 1
    BY <1>2, <2>1, FS_RemoveElement
  <2>3. Cardinality(S(i)) = Cardinality(S(i - 1)) + 1
    BY <1>3, <2>1, <2>2
  <2>4. BytesIn(kinds, i) = Cardinality(S(i)) /\ BytesIn(kinds, i - 1) = Cardinality(S(i - 1))
    BY DEF BytesIn, S
  <2> QED BY <1>3, <1>4, <2>3, <2>4
<1>5. CASE kinds[i] # "bytes"
  <2>1. S(i) = S(i - 1)
    BY <1>5
  <2> QED BY <1>3, <1>5, <2>1 DEF BytesIn
<1> QED BY <1>4, <1>5

\* The elements that are not to be counted: integers, and no element.
LEMMA BuildScalar ==
  ASSUME NEW V, ValueSet(V), NEW c \in [Objects -> Nat], NEW b, b.elems \in Seq(V),
         Counted(b.heap, V, Plus(c, b.elems)), NEW v \in {Integer, None}
  PROVE  /\ Append(b.elems, v) \in Seq(V) /\ Counted(b.heap, V, Plus(c, Append(b.elems, v)))
<1>1. v \in V /\ ~Counts(v)
  BY DEF ValueSet, Counts, Integer, None
<1> DEFINE d == Plus(c, b.elems)
<1>2. /\ Append(b.elems, v) \in Seq(V) /\ Plus(c, Append(b.elems, v)) = Plus(d, <<v>>)
      /\ d \in [Objects -> Nat]
  BY <1>1, PlusAppend
<1> HIDE DEF d
<1>3. Plus(d, <<v>>) = d
  BY <1>1, <1>2, PlusNone
<1> QED BY <1>2, <1>3 DEF d

LEMMA BuildNextKeeps ==
  ASSUME NEW V, ValueSet(V), NEW c \in [Objects -> Nat], NEW h, NEW kinds, NEW i \in Nat, i > 0,
         kinds[i] \in Kinds, BytesIn(kinds, i) < Cardinality(Unused(h)),
         NEW b \in Built(V, c, h, kinds, i - 1)
  PROVE  BuildNext(b, kinds[i]) \in Built(V, c, h, kinds, i)
<1> DEFINE t == BuildNext(b, kinds[i])
           m == BytesIn(kinds, i)
           k == BytesIn(kinds, i - 1)
           room == Cardinality(Unused(h))
<1>1. /\ b.heap \in HeapOf(V) /\ b.elems \in Seq(V) /\ Counted(b.heap, V, Plus(c, b.elems))
      /\ Grows(h, b.heap) /\ Cardinality(Unused(b.heap)) + k = room
  BY DEF Built
<1>2. m \in Nat /\ k \in Nat /\ m = k + IF kinds[i] = "bytes" THEN 1 ELSE 0
  BY BytesInNext
<1>3. room \in Nat /\ Cardinality(Unused(b.heap)) \in Nat /\ m < room
  BY UnusedFinite
<1> HIDE DEF m, k, room
<1>4. CASE kinds[i] = "bytes"
  <2> DEFINE x == Fresh(b.heap)
             g == Create(b.heap, "bytes", <<>>)
             d == Plus(c, b.elems)
             elems == Append(b.elems, Whole(x))
  <2>1. t = [heap |-> g, elems |-> elems]
    BY <1>4 DEF BuildNext
  <2>2. Unused(b.heap) # {}
    <3>1. Cardinality(Unused(b.heap)) > 0
      BY ONLY <1>1, <1>2, <1>3
    <3> QED BY <3>1, UnusedFinite
  <2>3. d \in [Objects -> Nat]
    BY <1>1, PlusType
  <2> HIDE DEF d
  <2>4. /\ x \in Objects /\ Whole(x) \in V
        /\ Counted(g, V, Plus(d, <<Whole(x)>>)) /\ Grows(b.heap, g)
        /\ Cardinality(Unused(g)) = Cardinality(Unused(b.heap)) - 1
    BY <1>1, <2>2, <2>3, CreateBytesKeeps DEF d
  <2>5. elems \in Seq(V) /\ Plus(c, elems) = Plus(d, <<Whole(x)>>)
    BY <1>1, <2>4, PlusAppend DEF d
  <2> HIDE DEF g, elems, x
  <2>6. Grows(h, g)
    BY <1>1, <2>4, GrowsTrans
  <2>7. Cardinality(Unused(g)) + m = room
    BY ONLY <1>1, <1>2, <1>3, <1>4, <2>4
  <2>8. g \in HeapOf(V)
    BY <2>4 DEF Counted
  <2>9. [heap |-> g, elems |-> elems] \in Built(V, c, h, kinds, i)
    BY <2>4, <2>5, <2>6, <2>7, <2>8 DEF Built, m, room
  <2> QED BY <2>1, <2>9
<1>5. CASE kinds[i] # "bytes"
  <2>1. PICK v \in {Integer, None} : t = [heap |-> b.heap, elems |-> Append(b.elems, v)]
    BY <1>5 DEF BuildNext, Kinds
  <2> DEFINE elems == Append(b.elems, v)
  <2>2. elems \in Seq(V) /\ Counted(b.heap, V, Plus(c, elems))
    BY <1>1, BuildScalar
  <2> HIDE DEF elems
  <2>3. Cardinality(Unused(b.heap)) + m = room
    BY <1>1, <1>2, <1>5
  <2>4. [heap |-> b.heap, elems |-> elems] \in Built(V, c, h, kinds, i)
    BY <1>1, <2>2, <2>3 DEF Built, m, room
  <2> QED BY <2>1, <2>4 DEF elems
<1> QED BY <1>4, <1>5

LEMMA BytesInLess ==
  ASSUME NEW h, NEW n \in Nat, NEW kinds, BytesIn(kinds, n) < Cardinality(Unused(h)), NEW i \in 1..n
  PROVE  BytesIn(kinds, i) < Cardinality(Unused(h))
<1> DEFINE S(k) == {j \in 1..k : kinds[j] = "bytes"}
<1>1. IsFiniteSet(1..n)
  BY FS_Interval
<1>2. IsFiniteSet(S(n)) /\ S(i) \subseteq S(n)
  BY <1>1, FS_Subset
<1> HIDE DEF S
<1>3. Cardinality(S(i)) \in Nat /\ Cardinality(S(n)) \in Nat /\ Cardinality(S(i)) <= Cardinality(S(n))
  BY <1>2, FS_Subset, FS_CardinalityType
<1>4. BytesIn(kinds, i) = Cardinality(S(i)) /\ BytesIn(kinds, n) = Cardinality(S(n))
  BY DEF BytesIn, S
<1>5. Cardinality(Unused(h)) \in Nat
  BY UnusedFinite
<1> QED BY <1>3, <1>4, <1>5

\* The recursive function of Initialized stays within what its steps preserve.
LEMMA InitializedRecursion ==
  ASSUME NEW h, NEW kinds \in Seq(Kinds), NEW U, NEW P \in [0..Len(kinds) -> SUBSET U],
         [heap |-> h, elems |-> <<>>] \in P[0],
         \A i \in 1..Len(kinds) : \A b \in P[i - 1] : BuildNext(b, kinds[i]) \in P[i]
  PROVE  Initialized(h, kinds) \in P[Len(kinds)]
<1> DEFINE n == Len(kinds)
           first == [heap |-> h, elems |-> <<>>]
           F == [p \in U \X (1..n) |-> IF p[1] \in P[p[2] - 1] THEN BuildNext(p[1], kinds[p[2]]) ELSE p[1]]
           built[i \in 0..n] ==
             IF i = 0 THEN [heap |-> h, elems |-> <<>>]
             ELSE LET b == built[i - 1]
                  IN  CASE kinds[i] = "bytes" ->
                             [heap |-> Create(b.heap, "bytes", <<>>),
                              elems |-> Append(b.elems, Whole(Fresh(b.heap)))]
                        [] kinds[i] = "integer" ->
                             [heap |-> b.heap, elems |-> Append(b.elems, Integer)]
                        [] OTHER -> [heap |-> b.heap, elems |-> Append(b.elems, None)]
<1>1. n \in Nat /\ \A i \in 1..n : kinds[i] \in Kinds
  OBVIOUS
<1>2. Initialized(h, kinds) = built[n]
  BY DEF Initialized
<1>3. first \in P[0]
  OBVIOUS
<1>4. P \in [0..n -> SUBSET U]
  OBVIOUS
<1>6. \A i \in 1..n : \A b \in P[i - 1] : BuildNext(b, kinds[i]) \in P[i]
  OBVIOUS
<1>7. \A i \in 1..n : i - 1 \in 0..n
  BY <1>1
<1> HIDE DEF first, n
<1>8. F \in Steps(U, n)
  <2>1. ASSUME NEW p \in U \X (1..n) PROVE F[p] \in U
    <3>1. p[1] \in U /\ p[2] \in 1..n /\ p[2] \in 0..n
      BY <1>1
    <3>2. CASE p[1] \in P[p[2] - 1]
      BY <1>4, <1>6, <3>1, <3>2
    <3>3. CASE p[1] \notin P[p[2] - 1]
      BY <3>1, <3>3
    <3> QED BY <3>2, <3>3
  <2> QED BY <2>1 DEF Steps
<1>9. ASSUME NEW i \in 1..n, NEW b \in P[i - 1]
      PROVE  F[<<b, i>>] = BuildNext(b, kinds[i]) /\ F[<<b, i>>] \in P[i]
  <2>1. <<b, i>> \in U \X (1..n)
    BY <1>4, <1>7
  <2>2. F[<<b, i>>] = BuildNext(b, kinds[i])
    BY <2>1
  <2> QED BY <1>6, <2>2
<1> HIDE DEF F
<1>10. PICK g \in [0..n -> U] : Iterates(g, first, F, n) /\ \A i \in 0..n : g[i] \in P[i]
  BY <1>1, <1>3, <1>4, <1>8, <1>9, StagedRecursion
<1>11. ASSUME NEW i \in 0..n PROVE g[i] = IF i = 0 THEN first ELSE BuildNext(g[i - 1], kinds[i])
  <2>1. CASE i = 0
    BY <1>10, <2>1 DEF Iterates
  <2>2. CASE i # 0
    <3>1. i \in 1..n /\ g[i - 1] \in P[i - 1]
      BY <1>1, <1>10, <2>2
    <3> QED BY <1>9, <1>10, <2>2, <3>1 DEF Iterates
  <2> QED BY <2>1, <2>2
<1>12. g = [i \in 0..n |->
             IF i = 0 THEN [heap |-> h, elems |-> <<>>]
             ELSE LET b == g[i - 1]
                  IN  CASE kinds[i] = "bytes" ->
                             [heap |-> Create(b.heap, "bytes", <<>>),
                              elems |-> Append(b.elems, Whole(Fresh(b.heap)))]
                        [] kinds[i] = "integer" ->
                             [heap |-> b.heap, elems |-> Append(b.elems, Integer)]
                        [] OTHER -> [heap |-> b.heap, elems |-> Append(b.elems, None)]]
  BY <1>11 DEF BuildNext, first
<1>13. built = [i \in 0..n |->
             IF i = 0 THEN [heap |-> h, elems |-> <<>>]
             ELSE LET b == built[i - 1]
                  IN  CASE kinds[i] = "bytes" ->
                             [heap |-> Create(b.heap, "bytes", <<>>),
                              elems |-> Append(b.elems, Whole(Fresh(b.heap)))]
                        [] kinds[i] = "integer" ->
                             [heap |-> b.heap, elems |-> Append(b.elems, Integer)]
                        [] OTHER -> [heap |-> b.heap, elems |-> Append(b.elems, None)]]
  BY <1>12, Zenon
<1> HIDE DEF built
<1>14. ASSUME NEW i \in 0..n PROVE built[i] = IF i = 0 THEN first ELSE BuildNext(built[i - 1], kinds[i])
  BY <1>13, Zenon DEF BuildNext, first
<1>15. \A i \in 0..n : built[i] \in P[i]
  <2> DEFINE T == {i \in 0..n : built[i] \in P[i]}
  <2>1. 0 \in T
    BY <1>1, <1>3, <1>14
  <2>2. ASSUME NEW i \in 1..n, i - 1 \in T PROVE i \in T
    <3>1. built[i - 1] \in P[i - 1] /\ i \in 0..n /\ i # 0
      BY <1>1, <2>2
    <3>2. built[i] = BuildNext(built[i - 1], kinds[i])
      BY <1>14, <3>1
    <3> QED BY <1>6, <3>1, <3>2
  <2> HIDE DEF T
  <2>3. \A i \in 0..n : i \in T
    BY <1>1, <2>1, <2>2, IntervalInduction
  <2> QED BY <2>3 DEF T
<1>16. built[n] \in P[n]
  BY <1>1, <1>15
<1> QED BY <1>2, <1>16 DEF n

LEMMA InitializedKeeps ==
  ASSUME NEW V, ValueSet(V), NEW c \in [Objects -> Nat], NEW h, Counted(h, V, c),
         NEW kinds \in Seq(Kinds), BytesIn(kinds, Len(kinds)) < Cardinality(Unused(h))
  PROVE  LET b == Initialized(h, kinds)
         IN  /\ b.elems \in Seq(V) /\ Counted(b.heap, V, Plus(c, b.elems)) /\ Grows(h, b.heap)
             /\ Unused(b.heap) # {}
<1> DEFINE n == Len(kinds)
           U == [heap : HeapOf(V), elems : Seq(V)]
           first == [heap |-> h, elems |-> <<>>]
           P == [i \in 0..n |-> Built(V, c, h, kinds, i)]
           b == Initialized(h, kinds)
<1>1. n \in Nat /\ \A i \in 1..n : kinds[i] \in Kinds
  OBVIOUS
<1>3. first \in P[0]
  <2>1. BytesIn(kinds, 0) = 0
    <3>1. {j \in 1..0 : kinds[j] = "bytes"} = {}
      OBVIOUS
    <3> QED BY <3>1, FS_EmptySet DEF BytesIn
  <2>2. Cardinality(Unused(h)) \in Nat
    BY UnusedFinite
  <2>3. Counted(h, V, Plus(c, <<>>)) /\ h \in HeapOf(V) /\ Grows(h, h)
    BY PlusNothing DEF Counted, Grows
  <2>4. first \in Built(V, c, h, kinds, 0)
    BY <2>1, <2>2, <2>3 DEF Built
  <2> QED BY <1>1, <2>4
<1>4. P \in [0..n -> SUBSET U]
  BY DEF Built
<1>5. ASSUME NEW i \in 1..n PROVE BytesIn(kinds, i) < Cardinality(Unused(h))
  BY <1>1, BytesInLess
<1>6. \A i \in 1..n : \A x \in P[i - 1] : BuildNext(x, kinds[i]) \in P[i]
  <2> SUFFICES ASSUME NEW i \in 1..n, NEW x \in P[i - 1] PROVE BuildNext(x, kinds[i]) \in P[i]
    OBVIOUS
  <2>1. i \in 0..n /\ i - 1 \in 0..n /\ i \in Nat /\ i > 0
    BY <1>1
  <2>2. x \in Built(V, c, h, kinds, i - 1)
    BY <2>1
  <2>3. kinds[i] \in Kinds /\ BytesIn(kinds, i) < Cardinality(Unused(h))
    BY <1>1, <1>5
  <2> HIDE DEF n
  <2>4. BuildNext(x, kinds[i]) \in Built(V, c, h, kinds, i)
    BY <2>1, <2>2, <2>3, BuildNextKeeps
  <2> QED BY <2>1, <2>4
<1> HIDE DEF P, U
<1>15. b \in P[n]
  <2> HIDE DEF b
  <2>1. P \in [0..Len(kinds) -> SUBSET U] /\ [heap |-> h, elems |-> <<>>] \in P[0]
    BY <1>3, <1>4
  <2>2. \A i \in 1..Len(kinds) : \A x \in P[i - 1] : BuildNext(x, kinds[i]) \in P[i]
    BY <1>6
  <2> QED BY <2>1, <2>2, InitializedRecursion DEF b
<1> HIDE DEF n
<1>16. b \in Built(V, c, h, kinds, n)
  BY <1>1, <1>15 DEF P
<1> HIDE DEF b
<1>17. /\ b.elems \in Seq(V) /\ Counted(b.heap, V, Plus(c, b.elems)) /\ Grows(h, b.heap)
       /\ Cardinality(Unused(b.heap)) + BytesIn(kinds, n) = Cardinality(Unused(h))
  BY <1>16 DEF Built
<1>18. Unused(b.heap) # {}
  <2>1. Cardinality(Unused(b.heap)) \in Nat /\ Cardinality(Unused(h)) \in Nat
    BY UnusedFinite
  <2>2. BytesIn(kinds, n) < Cardinality(Unused(h))
    BY DEF n
  <2>3. BytesIn(kinds, n) \in Nat
    <3>1. IsFiniteSet(1..n)
      BY <1>1, FS_Interval
    <3>2. IsFiniteSet({j \in 1..n : kinds[j] = "bytes"})
      BY <3>1, FS_Subset
    <3> QED BY <3>2, FS_CardinalityType DEF BytesIn
  <2>4. Cardinality(Unused(b.heap)) > 0
    BY ONLY <1>17, <2>1, <2>2, <2>3
  <2> QED BY <2>4, UnusedFinite
<1> QED BY <1>17, <1>18 DEF b

(***************************************************************************)
(* The state.  The values of a state with d invocations refer to variables *)
(* of these, and the places outside of the heap are those of the Names,    *)
(* the invocations and the references that were lost.                      *)
(***************************************************************************)

LEMMA PositionsType == Positions \subseteq Nat \ {0} /\ 1 \in Positions
<1>1. \A kinds \in Contents : DOMAIN kinds \subseteq Nat \ {0}
  <2> SUFFICES ASSUME NEW kinds \in Contents PROVE DOMAIN kinds \subseteq Nat \ {0}
    OBVIOUS
  <2>1. kinds \in Seq(Kinds)
    BY ContentsAssumption
  <2> QED BY <2>1
<1> DEFINE D == {DOMAIN kinds : kinds \in Contents}
<1>2. \A d \in D : d \subseteq Nat \ {0}
  BY <1>1
<1>3. Positions = {1} \cup UNION D
  BY DEF Positions
<1> HIDE DEF D
<1>4. \A n \in UNION D : n \in Nat \ {0}
  BY <1>2
<1>5. \A n \in Positions : n \in UNION D \/ n = 1
  BY <1>3
<1>6. \A n \in Positions : n \in Nat \ {0}
  BY <1>4, <1>5
<1> QED BY <1>3, <1>6

LEMMA AliveValues ==
  ASSUME NEW d \in Nat
  PROVE  /\ ValueSet(Alive(d)) /\ {None, Integer, Dangling} \subseteq Alive(d)
         /\ \A o \in Objects, i \in Positions : Element(o, i) \in Alive(d)
         /\ \A p \in Everywhere(d) : Reference(p) \in Alive(d)
         /\ \A v \in Alive(d) :
              /\ v.type = "reference" => v.place \in Everywhere(d) /\ v = Reference(v.place)
              /\ v.type = "object" => v = Whole(v.object)
              /\ v.type = "index" => v.at \in Positions
              /\ v.type \in {"none", "integer", "dangling", "object", "index", "reference"}
         /\ \A e \in Nat : d <= e => Alive(d) \subseteq Alive(e)
<1>1. ValueSet(Alive(d))
  <2>1. None \in Alive(d) /\ Integer \in Alive(d) /\ \A o \in Objects : Whole(o) \in Alive(d)
    BY DEF Alive
  <2>2. ASSUME NEW v \in Alive(d), Counts(v) PROVE v.object \in Objects
    <3>1. CASE v \in {None, Integer, Dangling}
      BY <2>2, <3>1 DEF Counts, None, Integer, Dangling
    <3>2. CASE v \in {Whole(o) : o \in Objects}
      BY <3>2 DEF Whole
    <3>3. CASE v \in {Element(o, i) : o \in Objects, i \in Positions}
      BY <3>3 DEF Element
    <3>4. CASE v \in {Reference(p) : p \in Everywhere(d)}
      BY <2>2, <3>4 DEF Counts, Reference
    <3> QED BY <3>1, <3>2, <3>3, <3>4 DEF Alive
  <2> QED BY <2>1, <2>2 DEF ValueSet
<1>2. \A v \in Alive(d) :
              /\ v.type = "reference" => v.place \in Everywhere(d) /\ v = Reference(v.place)
              /\ v.type = "object" => v = Whole(v.object)
              /\ v.type = "index" => v.at \in Positions
              /\ v.type \in {"none", "integer", "dangling", "object", "index", "reference"}
  BY DEF Alive, None, Integer, Dangling, Whole, Element, Reference
<1>3. \A e \in Nat : d <= e => Alive(d) \subseteq Alive(e)
  <2> SUFFICES ASSUME NEW e \in Nat, d <= e PROVE Everywhere(d) \subseteq Everywhere(e)
    BY DEF Alive
  <2>1. 1..d \subseteq 1..e
    OBVIOUS
  <2> QED BY <2>1 DEF Everywhere
<1> QED BY <1>1, <1>2, <1>3 DEF Alive

LEMMA HeapLarger ==
  ASSUME NEW V, NEW W, V \subseteq W, NEW h, NEW c, Counted(h, V, c)
  PROVE  Counted(h, W, c)
<1>1. Seq(V) \subseteq Seq(W)
  OBVIOUS
<1>2. Cell(V) \subseteq Cell(W)
  BY <1>1 DEF Cell
<1>3. h \in HeapOf(W)
  BY <1>2 DEF Counted, HeapOf
<1> QED BY <1>3 DEF Counted

LEMMA KeptUses ==
  ASSUME NEW V, NEW f \in FrameOf(V), NEW o
  PROVE  /\ Kept(f) \in Seq(V)
         /\ Uses(f.fields, o) \in Nat /\ Uses(f.ops, o) \in Nat
         /\ One(f.local, o) \in Nat /\ One(f.arg, o) \in Nat
         /\ Uses(Kept(f), o) = (One(f.local, o) + One(f.arg, o)) + Uses(f.fields, o) + Uses(f.ops, o)
<1> DEFINE two == <<f.local, f.arg>>
           more == two \o f.fields
<1>1. f.local \in V /\ f.arg \in V /\ f.fields \in Seq(V) /\ f.ops \in Seq(V)
  BY DEF FrameOf
<1>2. two \in Seq(V)
  BY <1>1
<1>4. Uses(two, o) = One(f.local, o) + One(f.arg, o)
  <2> DEFINE one == <<f.local>>
  <2>1. two = Append(one, f.arg) /\ one \in Seq(V)
    BY <1>1
  <2>2. Uses(one, o) = One(f.local, o)
    BY UsesOne
  <2> HIDE DEF one, two
  <2>3. Uses(Append(one, f.arg), o) = Uses(one, o) + One(f.arg, o)
    BY <1>1, <2>1, UsesAppend
  <2> QED BY <2>1, <2>2, <2>3
<1> HIDE DEF two
<1>5. more \in Seq(V) /\ Uses(more, o) = Uses(two, o) + Uses(f.fields, o)
  <2> DEFINE fields == f.fields
  <2>1. fields \in Seq(V)
    BY <1>1
  <2> HIDE DEF fields
  <2>2. two \o fields \in Seq(V) /\ Uses(two \o fields, o) = Uses(two, o) + Uses(fields, o)
    BY <1>2, <2>1, UsesConcat
  <2> QED BY <2>2 DEF fields
<1>6. Kept(f) = more \o f.ops
  BY DEF Kept, two
<1> HIDE DEF more
<1>7. Kept(f) \in Seq(V) /\ Uses(Kept(f), o) = Uses(more, o) + Uses(f.ops, o)
  BY <1>1, <1>5, <1>6, UsesConcat
<1>8. Uses(f.fields, o) \in Nat /\ Uses(f.ops, o) \in Nat
  BY <1>1, UsesOfSeq
<1>9. One(f.local, o) \in Nat /\ One(f.arg, o) \in Nat
  BY DEF One
<1> QED BY <1>4, <1>5, <1>7, <1>8, <1>9

LEMMA FrameRowsFinite ==
  ASSUME NEW V, NEW fr \in Seq(FrameOf(V))
  PROVE  /\ FiniteRows(FrameRows(fr)) /\ DOMAIN FrameRows(fr) = DOMAIN fr
         /\ \A k \in DOMAIN fr : fr[k] \in FrameOf(V) /\ FrameRows(fr)[k] = Kept(fr[k])
         /\ \A o : UsesIn(FrameRows(fr), o) \in Nat
<1>1. \A k \in DOMAIN fr : fr[k] \in FrameOf(V) /\ FrameRows(fr)[k] = Kept(fr[k])
  BY DEF FrameRows
<1>2. DOMAIN FrameRows(fr) = DOMAIN fr /\ IsFiniteSet(DOMAIN fr)
  BY SeqFinite DEF FrameRows
<1>3. \A k \in DOMAIN fr : IsFiniteSet(DOMAIN Kept(fr[k]))
  BY <1>1, KeptUses, SeqFinite
<1>4. FiniteRows(FrameRows(fr))
  BY <1>1, <1>2, <1>3 DEF FiniteRows
<1> QED BY <1>1, <1>2, <1>4, UsesInType

\* One invocation changes.
LEMMA OneFrame ==
  ASSUME NEW V, NEW fr \in Seq(FrameOf(V)), NEW gr \in Seq(FrameOf(V)), DOMAIN gr = DOMAIN fr,
         NEW k \in DOMAIN fr, \A j \in DOMAIN fr \ {k} : gr[j] = fr[j], NEW o
  PROVE  /\ UsesIn(FrameRows(fr), o) \in Nat /\ UsesIn(FrameRows(gr), o) \in Nat
         /\ Uses(Kept(fr[k]), o) \in Nat /\ Uses(Kept(gr[k]), o) \in Nat
         /\ UsesIn(FrameRows(gr), o) + Uses(Kept(fr[k]), o)
              = UsesIn(FrameRows(fr), o) + Uses(Kept(gr[k]), o)
<1> DEFINE R == FrameRows(fr)
           S == FrameRows(gr)
<1>1. /\ FiniteRows(R) /\ DOMAIN R = DOMAIN fr /\ FiniteRows(S) /\ DOMAIN S = DOMAIN gr
      /\ \A j \in DOMAIN fr : R[j] = Kept(fr[j]) /\ S[j] = Kept(gr[j])
  BY FrameRowsFinite
<1> HIDE DEF R, S
<1>2. \A j \in DOMAIN R \ {k} : Users(S[j], o) = Users(R[j], o)
  BY <1>1
<1>3. k \in DOMAIN R /\ R[k] = Kept(fr[k]) /\ S[k] = Kept(gr[k]) /\ DOMAIN R = DOMAIN S
  BY <1>1
<1>4. /\ UsesIn(R, o) \in Nat /\ UsesIn(S, o) \in Nat
      /\ Uses(R[k], o) \in Nat /\ Uses(S[k], o) \in Nat
      /\ UsesIn(S, o) + Uses(R[k], o) = UsesIn(R, o) + Uses(S[k], o)
  BY ONLY <1>1, <1>2, <1>3, UsesInAt, SMTT(30)
<1> QED BY <1>3, <1>4 DEF R, S

LEMMA OutsideAt ==
  ASSUME NEW V, NEW nm, NEW fr, NEW ls, StateOf(V, nm, fr, ls)
  PROVE  /\ Outside(nm, fr, ls) \in [Objects -> Nat]
         /\ \A o \in Objects :
              /\ Uses(nm, o) \in Nat /\ UsesIn(FrameRows(fr), o) \in Nat /\ ls[o] \in Nat
              /\ Outside(nm, fr, ls)[o] = Uses(nm, o) + UsesIn(FrameRows(fr), o) + ls[o]
<1>1. nm \in [Names -> V] /\ fr \in Seq(FrameOf(V)) /\ ls \in [Objects -> Nat]
  BY DEF StateOf
<1>2. \A o \in Objects : Uses(nm, o) \in Nat
  BY <1>1, UsesType, ContentsAssumption
<1>3. \A o \in Objects : UsesIn(FrameRows(fr), o) \in Nat
  BY <1>1, FrameRowsFinite
<1>4. \A o \in Objects : Outside(nm, fr, ls)[o] = Uses(nm, o) + UsesIn(FrameRows(fr), o) + ls[o]
  BY DEF Outside
<1>5. \A o \in Objects : Uses(nm, o) + UsesIn(FrameRows(fr), o) + ls[o] \in Nat
  BY <1>1, <1>2, <1>3
<1>6. Outside(nm, fr, ls) \in [Objects -> Nat]
  BY <1>5, SMTT(30) DEF Outside
<1> QED BY <1>1, <1>2, <1>3, <1>4, <1>6

LEMMA WithOpsType ==
  ASSUME NEW V, NEW fr \in Seq(FrameOf(V)), fr # <<>>, NEW ops \in Seq(V)
  PROVE  LET gr == WithOps(fr, ops)
             n == Len(fr)
         IN  /\ gr \in Seq(FrameOf(V)) /\ Len(gr) = n /\ DOMAIN gr = DOMAIN fr
             /\ n \in DOMAIN fr /\ n \in Nat /\ n > 0
             /\ \A k \in DOMAIN fr \ {n} : gr[k] = fr[k]
             /\ fr[n] \in FrameOf(V) /\ gr[n] \in FrameOf(V)
             /\ gr[n].local = fr[n].local /\ gr[n].arg = fr[n].arg
             /\ gr[n].fields = fr[n].fields /\ gr[n].ops = ops
<1> DEFINE n == Len(fr)
           gr == WithOps(fr, ops)
           top == [fr[n] EXCEPT !.ops = ops]
<1>1. n \in Nat /\ n > 0 /\ DOMAIN fr = 1..n /\ n \in DOMAIN fr /\ fr[n] \in FrameOf(V)
  OBVIOUS
<1>2. /\ top \in FrameOf(V) /\ top.local = fr[n].local /\ top.arg = fr[n].arg
      /\ top.fields = fr[n].fields /\ top.ops = ops
  BY <1>1 DEF FrameOf
<1>3. gr = [k \in 1..n |-> IF k = n THEN top ELSE fr[k]]
  BY <1>1 DEF WithOps
<1>4. \A k \in 1..n : fr[k] \in FrameOf(V)
  BY <1>1
<1> HIDE DEF gr, top, n
<1>5. \A k \in 1..n : gr[k] = IF k = n THEN top ELSE fr[k]
  BY <1>3
<1>6. \A k \in 1..n : gr[k] \in FrameOf(V)
  BY <1>2, <1>4, <1>5
<1>7. gr \in Seq(FrameOf(V)) /\ Len(gr) = n /\ DOMAIN gr = 1..n
  BY <1>1, <1>3, <1>6
<1> QED BY <1>1, <1>2, <1>5, <1>7, Zenon DEF n, gr

LEMMA OpsCount ==
  ASSUME NEW V, NEW nm, NEW fr, NEW ls, StateOf(V, nm, fr, ls), fr # <<>>, NEW ops \in Seq(V)
  PROVE  /\ StateOf(V, nm, WithOps(fr, ops), ls)
         /\ Outside(nm, WithOps(fr, ops), ls) = Plus(Outside(nm, WithOps(fr, <<>>), ls), ops)
<1> DEFINE n == Len(fr)
           gr == WithOps(fr, ops)
           br == WithOps(fr, <<>>)
<1>0. /\ fr \in Seq(FrameOf(V)) /\ <<>> \in Seq(V)
      /\ nm \in [Names -> V] /\ ls \in [Objects -> Nat]
  BY DEF StateOf
<1>1. /\ gr \in Seq(FrameOf(V)) /\ DOMAIN gr = DOMAIN fr /\ n \in DOMAIN fr
      /\ \A k \in DOMAIN fr \ {n} : gr[k] = fr[k]
      /\ gr[n] \in FrameOf(V) /\ gr[n].local = fr[n].local /\ gr[n].arg = fr[n].arg
      /\ gr[n].fields = fr[n].fields /\ gr[n].ops = ops
  BY <1>0, WithOpsType
<1>2. /\ br \in Seq(FrameOf(V)) /\ DOMAIN br = DOMAIN fr
      /\ \A k \in DOMAIN fr \ {n} : br[k] = fr[k]
      /\ br[n] \in FrameOf(V) /\ br[n].local = fr[n].local /\ br[n].arg = fr[n].arg
      /\ br[n].fields = fr[n].fields /\ br[n].ops = <<>>
  <2> DEFINE none == <<>>
             dr == WithOps(fr, none)
  <2>1. none \in Seq(V)
    OBVIOUS
  <2> HIDE DEF none
  <2>2. /\ dr \in Seq(FrameOf(V)) /\ DOMAIN dr = DOMAIN fr
        /\ \A k \in DOMAIN fr \ {n} : dr[k] = fr[k]
        /\ dr[n] \in FrameOf(V) /\ dr[n].local = fr[n].local /\ dr[n].arg = fr[n].arg
        /\ dr[n].fields = fr[n].fields /\ dr[n].ops = none
    BY <1>0, <2>1, WithOpsType
  <2> QED BY <2>2 DEF none
<1> HIDE DEF gr, br, n
<1>3. StateOf(V, nm, gr, ls) /\ StateOf(V, nm, br, ls)
  BY <1>0, <1>1, <1>2 DEF StateOf
<1>4. ASSUME NEW o \in Objects
      PROVE  Outside(nm, gr, ls)[o] = Outside(nm, br, ls)[o] + Uses(ops, o)
  <2>1. /\ UsesIn(FrameRows(br), o) \in Nat /\ UsesIn(FrameRows(gr), o) \in Nat
        /\ Uses(Kept(br[n]), o) \in Nat /\ Uses(Kept(gr[n]), o) \in Nat
        /\ UsesIn(FrameRows(gr), o) + Uses(Kept(br[n]), o)
             = UsesIn(FrameRows(br), o) + Uses(Kept(gr[n]), o)
    <3>1. n \in DOMAIN br /\ DOMAIN gr = DOMAIN br /\ \A j \in DOMAIN br \ {n} : gr[j] = br[j]
      BY <1>1, <1>2
    <3> QED BY ONLY <1>1, <1>2, <3>1, OneFrame, SMTT(30)
  <2> DEFINE same == (One(fr[n].local, o) + One(fr[n].arg, o)) + Uses(fr[n].fields, o)
  <2>2. Uses(Kept(gr[n]), o) = same + Uses(ops, o) /\ same \in Nat /\ Uses(ops, o) \in Nat
    <3>1. /\ Uses(gr[n].fields, o) \in Nat /\ Uses(gr[n].ops, o) \in Nat
          /\ One(gr[n].local, o) \in Nat /\ One(gr[n].arg, o) \in Nat
          /\ Uses(Kept(gr[n]), o)
               = (One(gr[n].local, o) + One(gr[n].arg, o)) + Uses(gr[n].fields, o) + Uses(gr[n].ops, o)
      BY <1>1, KeptUses
    <3> QED BY <1>1, <3>1, SMTT(30)
  <2>3. Uses(Kept(br[n]), o) = same
    <3>1. /\ Uses(br[n].fields, o) \in Nat /\ Uses(br[n].ops, o) \in Nat
          /\ One(br[n].local, o) \in Nat /\ One(br[n].arg, o) \in Nat
          /\ Uses(Kept(br[n]), o)
               = (One(br[n].local, o) + One(br[n].arg, o)) + Uses(br[n].fields, o) + Uses(br[n].ops, o)
      BY <1>2, KeptUses
    <3>2. Uses(br[n].ops, o) = 0
      BY <1>2, UsesNone
    <3> QED BY <1>2, <3>1, <3>2
  <2> HIDE DEF same
  <2>4. /\ Uses(nm, o) \in Nat /\ ls[o] \in Nat
        /\ Outside(nm, gr, ls)[o] = Uses(nm, o) + UsesIn(FrameRows(gr), o) + ls[o]
        /\ Outside(nm, br, ls)[o] = Uses(nm, o) + UsesIn(FrameRows(br), o) + ls[o]
    BY <1>3, OutsideAt
  <2>5. UsesIn(FrameRows(gr), o) = UsesIn(FrameRows(br), o) + Uses(ops, o)
    BY ONLY <2>1, <2>2, <2>3, SMTT(30)
  <2> QED BY ONLY <2>1, <2>2, <2>4, <2>5, SMTT(30)
<1>5. Outside(nm, gr, ls) = Plus(Outside(nm, br, ls), ops)
  <2>1. Outside(nm, gr, ls) = [o \in Objects |-> Outside(nm, gr, ls)[o]]
    BY DEF Outside
  <2> QED BY <1>4, <2>1 DEF Plus
<1> QED BY <1>3, <1>5 DEF gr, br

LEMMA SetFrameType ==
  ASSUME NEW V, NEW f \in FrameOf(V), NEW k, NEW p, NEW v \in V
  PROVE  LET g == SetFrame(f, k, p, v)
         IN  /\ g \in FrameOf(V) /\ g.fields = f.fields /\ g.ops = f.ops
             /\ g.local = IF p = <<"local", k>> THEN v ELSE f.local
             /\ g.arg = IF p = <<"arg", k>> THEN v ELSE f.arg
             /\ (p # <<"local", k>> /\ p # <<"arg", k>>) => g = f
<1> DEFINE l == IF p = <<"local", k>> THEN v ELSE f.local
           a == IF p = <<"arg", k>> THEN v ELSE f.arg
           g == [f EXCEPT !.local = l, !.arg = a]
<1>1. l \in V /\ a \in V
  BY DEF FrameOf
<1>2. SetFrame(f, k, p, v) = g
  BY DEF SetFrame, FrameOf
<1> HIDE DEF l, a
<1>3. g \in FrameOf(V) /\ g.fields = f.fields /\ g.ops = f.ops /\ g.local = l /\ g.arg = a
  BY <1>1 DEF FrameOf
<1>4. (p # <<"local", k>> /\ p # <<"arg", k>>) => g = f
  BY DEF FrameOf, l, a
<1> QED BY <1>2, <1>3, <1>4 DEF l, a

LEMMA SetFramesType ==
  ASSUME NEW V, NEW fr \in Seq(FrameOf(V)), NEW p, NEW v \in V
  PROVE  LET gr == SetFrames(fr, p, v)
         IN  /\ gr \in Seq(FrameOf(V)) /\ Len(gr) = Len(fr) /\ DOMAIN gr = DOMAIN fr
             /\ \A k \in DOMAIN fr : fr[k] \in FrameOf(V) /\ gr[k] = SetFrame(fr[k], k, p, v)
<1> DEFINE n == Len(fr)
           gr == SetFrames(fr, p, v)
<1>1. n \in Nat /\ DOMAIN fr = 1..n /\ \A k \in 1..n : fr[k] \in FrameOf(V)
  OBVIOUS
<1>2. gr = [k \in 1..n |-> SetFrame(fr[k], k, p, v)]
  BY <1>1 DEF SetFrames
<1> HIDE DEF gr, n
<1>3. \A k \in 1..n : gr[k] = SetFrame(fr[k], k, p, v) /\ gr[k] \in FrameOf(V)
  BY <1>1, <1>2, SetFrameType
<1>4. gr \in Seq(FrameOf(V)) /\ Len(gr) = n /\ DOMAIN gr = 1..n
  BY <1>1, <1>2, <1>3
<1> QED BY <1>1, <1>3, <1>4 DEF gr, n

\* A Name gets another value.
LEMMA NameCount ==
  ASSUME NEW V, NEW nm, NEW fr, NEW ls, StateOf(V, nm, fr, ls), NEW n \in Names, NEW v \in V
  PROVE  LET p == <<"name", n>>
         IN  /\ StateOf(V, SetNames(nm, p, v), fr, ls) /\ nm[n] \in V
             /\ \A o \in Objects : Outside(SetNames(nm, p, v), fr, ls)[o] + One(nm[n], o)
                                     = Outside(nm, fr, ls)[o] + One(v, o)
<1> DEFINE p == <<"name", n>>
           nm2 == SetNames(nm, p, v)
<1>1. nm \in [Names -> V] /\ fr \in Seq(FrameOf(V)) /\ ls \in [Objects -> Nat]
  BY DEF StateOf
<1>2. \A m \in Names : nm2[m] = IF m = n THEN v ELSE nm[m]
  BY DEF SetNames
<1>3. nm2 \in [Names -> V]
  BY <1>1 DEF SetNames
<1> HIDE DEF nm2
<1>4. StateOf(V, nm2, fr, ls)
  BY <1>1, <1>3 DEF StateOf
<1>5. ASSUME NEW o \in Objects
      PROVE  Outside(nm2, fr, ls)[o] + One(nm[n], o) = Outside(nm, fr, ls)[o] + One(v, o)
  <2>1. /\ DOMAIN nm2 = DOMAIN nm /\ n \in DOMAIN nm /\ nm2[n] = v /\ IsFiniteSet(DOMAIN nm)
        /\ \A m \in DOMAIN nm \ {n} : Holds(nm2[m], o) <=> Holds(nm[m], o)
    BY <1>1, <1>2, <1>3, ContentsAssumption
  <2>2. Uses(nm2, o) + One(nm[n], o) = Uses(nm, o) + One(nm2[n], o)
    BY ONLY <2>1, UsesAt
  <2>3. /\ Uses(nm, o) \in Nat /\ UsesIn(FrameRows(fr), o) \in Nat /\ ls[o] \in Nat
        /\ Outside(nm, fr, ls)[o] = Uses(nm, o) + UsesIn(FrameRows(fr), o) + ls[o]
    BY OutsideAt
  <2>4. /\ Uses(nm2, o) \in Nat
        /\ Outside(nm2, fr, ls)[o] = Uses(nm2, o) + UsesIn(FrameRows(fr), o) + ls[o]
    BY <1>4, OutsideAt
  <2>5. One(nm[n], o) \in Nat /\ One(v, o) \in Nat
    BY DEF One
  <2>6. Uses(nm2, o) + One(nm[n], o) = Uses(nm, o) + One(v, o)
    BY <2>1, <2>2
  <2> QED BY ONLY <2>3, <2>4, <2>5, <2>6
<1> QED BY <1>1, <1>4, <1>5 DEF nm2

\* A local or an argument gets another value.
LEMMA FrameCount ==
  ASSUME NEW V, NEW nm, NEW fr, NEW ls, StateOf(V, nm, fr, ls), NEW field \in {"local", "arg"},
         NEW k \in 1..Len(fr), NEW v \in V
  PROVE  LET p == <<field, k>>
             old == At(nm, fr, p)
         IN  /\ StateOf(V, nm, SetFrames(fr, p, v), ls) /\ old \in V
             /\ \A o \in Objects : Outside(nm, SetFrames(fr, p, v), ls)[o] + One(old, o)
                                     = Outside(nm, fr, ls)[o] + One(v, o)
<1> DEFINE p == <<field, k>>
           gr == SetFrames(fr, p, v)
           old == At(nm, fr, p)
           f == fr[k]
           g == gr[k]
<1>1. /\ nm \in [Names -> V] /\ fr \in Seq(FrameOf(V)) /\ ls \in [Objects -> Nat]
      /\ k \in DOMAIN fr
  BY DEF StateOf
<1>2. /\ gr \in Seq(FrameOf(V)) /\ DOMAIN gr = DOMAIN fr
      /\ \A j \in DOMAIN fr : fr[j] \in FrameOf(V) /\ gr[j] = SetFrame(fr[j], j, p, v)
  BY <1>1, SetFramesType
<1>3. /\ f \in FrameOf(V) /\ g \in FrameOf(V) /\ g.fields = f.fields /\ g.ops = f.ops
      /\ g.local = IF field = "local" THEN v ELSE f.local
      /\ g.arg = IF field = "arg" THEN v ELSE f.arg
  <2>1. f \in FrameOf(V) /\ g = SetFrame(f, k, p, v)
    BY <1>1, <1>2
  <2>2. /\ g \in FrameOf(V) /\ g.fields = f.fields /\ g.ops = f.ops
        /\ g.local = IF p = <<"local", k>> THEN v ELSE f.local
        /\ g.arg = IF p = <<"arg", k>> THEN v ELSE f.arg
    BY <2>1, SetFrameType
  <2> QED BY <2>1, <2>2
<1>4. \A j \in DOMAIN fr \ {k} : gr[j] = fr[j]
  <2> SUFFICES ASSUME NEW j \in DOMAIN fr, j # k PROVE gr[j] = fr[j]
    OBVIOUS
  <2>1. p # <<"local", j>> /\ p # <<"arg", j>> /\ fr[j] \in FrameOf(V)
    BY <1>2
  <2>2. SetFrame(fr[j], j, p, v) = fr[j]
    BY <2>1, SetFrameType
  <2> QED BY <1>2, <2>2
<1>5. old = IF field = "local" THEN f.local ELSE f.arg
  BY DEF At
<1>6. old \in V
  BY <1>3, <1>5 DEF FrameOf
<1> HIDE DEF gr, g, f, old
<1>7. StateOf(V, nm, gr, ls)
  BY <1>1, <1>2 DEF StateOf
<1>8. ASSUME NEW o \in Objects
      PROVE  Outside(nm, gr, ls)[o] + One(old, o) = Outside(nm, fr, ls)[o] + One(v, o)
  <2>1. /\ UsesIn(FrameRows(fr), o) \in Nat /\ UsesIn(FrameRows(gr), o) \in Nat
        /\ Uses(Kept(f), o) \in Nat /\ Uses(Kept(g), o) \in Nat
        /\ UsesIn(FrameRows(gr), o) + Uses(Kept(f), o) = UsesIn(FrameRows(fr), o) + Uses(Kept(g), o)
    <3>1. /\ UsesIn(FrameRows(fr), o) \in Nat /\ UsesIn(FrameRows(gr), o) \in Nat
          /\ Uses(Kept(fr[k]), o) \in Nat /\ Uses(Kept(gr[k]), o) \in Nat
          /\ UsesIn(FrameRows(gr), o) + Uses(Kept(fr[k]), o)
               = UsesIn(FrameRows(fr), o) + Uses(Kept(gr[k]), o)
      <4>1. gr \in Seq(FrameOf(V)) /\ DOMAIN gr = DOMAIN fr
        BY <1>2
      <4>2. fr \in Seq(FrameOf(V)) /\ k \in DOMAIN fr
        BY <1>1
      <4> QED BY ONLY <1>4, <4>1, <4>2, OneFrame, SMTT(30)
    <3> QED BY <3>1 DEF f, g
  <2>2. /\ Uses(f.fields, o) \in Nat /\ Uses(f.ops, o) \in Nat
        /\ One(f.local, o) \in Nat /\ One(f.arg, o) \in Nat
        /\ Uses(Kept(f), o) = (One(f.local, o) + One(f.arg, o)) + Uses(f.fields, o) + Uses(f.ops, o)
    BY <1>3, KeptUses
  <2>3. /\ One(g.local, o) \in Nat /\ One(g.arg, o) \in Nat
        /\ Uses(Kept(g), o) = (One(g.local, o) + One(g.arg, o)) + Uses(f.fields, o) + Uses(f.ops, o)
    <3>1. /\ One(g.local, o) \in Nat /\ One(g.arg, o) \in Nat
          /\ Uses(Kept(g), o) = (One(g.local, o) + One(g.arg, o)) + Uses(g.fields, o) + Uses(g.ops, o)
      BY <1>3, KeptUses
    <3> QED BY <1>3, <3>1
  <2>4. One(old, o) \in Nat /\ One(v, o) \in Nat
    BY DEF One
  <2>5. Uses(Kept(g), o) + One(old, o) = Uses(Kept(f), o) + One(v, o)
    <3>1. CASE field = "local"
      <4>1. g.local = v /\ g.arg = f.arg /\ old = f.local
        BY <1>3, <1>5, <3>1
      <4> QED BY ONLY <2>2, <2>3, <2>4, <4>1, SMTT(30)
    <3>2. CASE field = "arg"
      <4>1. g.local = f.local /\ g.arg = v /\ old = f.arg
        BY <1>3, <1>5, <3>2
      <4> QED BY ONLY <2>2, <2>3, <2>4, <4>1, SMTT(30)
    <3> QED BY <3>1, <3>2
  <2>6. UsesIn(FrameRows(gr), o) + One(old, o) = UsesIn(FrameRows(fr), o) + One(v, o)
    BY ONLY <2>1, <2>4, <2>5, SMTT(30)
  <2>7. /\ Uses(nm, o) \in Nat /\ ls[o] \in Nat
        /\ Outside(nm, fr, ls)[o] = Uses(nm, o) + UsesIn(FrameRows(fr), o) + ls[o]
        /\ Outside(nm, gr, ls)[o] = Uses(nm, o) + UsesIn(FrameRows(gr), o) + ls[o]
    BY <1>7, OutsideAt
  <2> DEFINE x == UsesIn(FrameRows(fr), o)
             y == UsesIn(FrameRows(gr), o)
             a == One(old, o)
             b == One(v, o)
             u == Uses(nm, o)
             w == ls[o]
             s == Outside(nm, fr, ls)[o]
             t == Outside(nm, gr, ls)[o]
  <2>8. x \in Nat /\ y \in Nat /\ a \in Nat /\ b \in Nat /\ y + a = x + b
    BY ONLY <2>1, <2>4, <2>6
  <2>9. u \in Nat /\ w \in Nat /\ s = u + x + w /\ t = u + y + w
    BY ONLY <2>7
  <2> HIDE DEF x, y, a, b, u, w, s, t
  <2>10. t + a = s + b
    BY ONLY <2>8, <2>9
  <2> QED BY <2>10 DEF a, b, s, t
<1> QED BY <1>6, <1>7, <1>8 DEF gr, old

LEMMA PlaceCount ==
  ASSUME NEW V, NEW nm, NEW fr, NEW ls, StateOf(V, nm, fr, ls), NEW p \in Everywhere(Len(fr)),
         NEW v \in V
  PROVE  LET nm2 == SetNames(nm, p, v)
             fr2 == SetFrames(fr, p, v)
         IN  /\ StateOf(V, nm2, fr2, ls) /\ At(nm, fr, p) \in V
             /\ \A o \in Objects : Outside(nm2, fr2, ls)[o] + One(At(nm, fr, p), o)
                                     = Outside(nm, fr, ls)[o] + One(v, o)
<1>1. nm \in [Names -> V] /\ fr \in Seq(FrameOf(V))
  BY DEF StateOf
<1>2. ASSUME NEW n \in Names, p = <<"name", n>>
      PROVE  SetFrames(fr, p, v) = fr /\ At(nm, fr, p) = nm[n]
  <2>1. p[1] = "name" /\ p[2] = n
    BY <1>2
  <2>2. \A k \in DOMAIN fr : SetFrame(fr[k], k, p, v) = fr[k]
    <3> SUFFICES ASSUME NEW k \in DOMAIN fr PROVE SetFrame(fr[k], k, p, v) = fr[k]
      OBVIOUS
    <3>1. p # <<"local", k>> /\ p # <<"arg", k>> /\ fr[k] \in FrameOf(V)
      BY <1>1, <1>2
    <3> QED BY <3>1, SetFrameType
  <2>3. SetFrames(fr, p, v) = [k \in DOMAIN fr |-> fr[k]]
    BY <2>2 DEF SetFrames
  <2>4. fr = [k \in DOMAIN fr |-> fr[k]]
    BY <1>1
  <2> QED BY <2>1, <2>3, <2>4 DEF At
<1>3. ASSUME NEW field \in {"local", "arg"}, NEW k \in 1..Len(fr), p = <<field, k>>
      PROVE  SetNames(nm, p, v) = nm
  <2>1. \A n \in Names : p # <<"name", n>>
    BY <1>3
  <2> QED BY <1>1, <2>1 DEF SetNames
<1>4. CASE \E n \in Names : p = <<"name", n>>
  <2>1. PICK n \in Names : p = <<"name", n>>
    BY <1>4
  <2>2. SetFrames(fr, p, v) = fr /\ At(nm, fr, p) = nm[n]
    BY <1>2, <2>1
  <2> DEFINE nm2 == SetNames(nm, <<"name", n>>, v)
  <2>3. /\ StateOf(V, nm2, fr, ls) /\ nm[n] \in V
        /\ \A o \in Objects : Outside(nm2, fr, ls)[o] + One(nm[n], o)
                                = Outside(nm, fr, ls)[o] + One(v, o)
    BY NameCount
  <2>4. SetNames(nm, p, v) = nm2
    BY <2>1
  <2> HIDE DEF nm2
  <2> QED BY <2>2, <2>3, <2>4
<1>5. CASE \E field \in {"local", "arg"}, k \in 1..Len(fr) : p = <<field, k>>
  <2>1. PICK field \in {"local", "arg"}, k \in 1..Len(fr) : p = <<field, k>>
    BY <1>5
  <2>2. SetNames(nm, p, v) = nm
    BY <1>3, <2>1
  <2> QED BY <2>1, <2>2, FrameCount
<1>6. (\E n \in Names : p = <<"name", n>>)
      \/ \E field \in {"local", "arg"}, k \in 1..Len(fr) : p = <<field, k>>
  BY DEF Everywhere
<1> QED BY <1>4, <1>5, <1>6

\* The place of a variable, and what is there.
LEMMA PlaceSplit ==
  ASSUME NEW V, None \in V, NEW nm, NEW fr, NEW ls, StateOf(V, nm, fr, ls),
         NEW p \in Everywhere(Len(fr))
  PROVE  /\ At(nm, fr, p) \in V
         /\ \E c \in [Objects -> Nat] :
              /\ Outside(nm, fr, ls) = Plus(c, <<At(nm, fr, p)>>)
              /\ \A v \in V : Outside(SetNames(nm, p, v), SetFrames(fr, p, v), ls) = Plus(c, <<v>>)
<1> DEFINE Cnt(v) == Outside(SetNames(nm, p, v), SetFrames(fr, p, v), ls)
           all == Outside(nm, fr, ls)
           old == At(nm, fr, p)
           c == Cnt(None)
<1>1. /\ old \in V
      /\ \A v \in V : StateOf(V, SetNames(nm, p, v), SetFrames(fr, p, v), ls)
      /\ \A v \in V : \A o \in Objects : Cnt(v)[o] + One(old, o) = all[o] + One(v, o)
  BY PlaceCount
<1>2. all \in [Objects -> Nat] /\ \A v \in V : Cnt(v) \in [Objects -> Nat]
  BY <1>1, OutsideAt
<1>3. c \in [Objects -> Nat]
  BY <1>2
<1>4. all = [o \in Objects |-> all[o]] /\ \A v \in V : Cnt(v) = [o \in Objects |-> Cnt(v)[o]]
  BY DEF Outside
<1> HIDE DEF all, Cnt, old
<1>5. ASSUME NEW o \in Objects
      PROVE  all[o] = c[o] + One(old, o) /\ \A v \in V : Cnt(v)[o] = c[o] + One(v, o)
  <2>1. One(None, o) = 0 /\ One(old, o) \in Nat /\ \A v \in V : One(v, o) \in Nat
    BY DEF One, Holds, Counts, None
  <2>2. c[o] + One(old, o) = all[o] + One(None, o)
    BY <1>1
  <2>3. c[o] \in Nat /\ all[o] \in Nat /\ \A v \in V : Cnt(v)[o] \in Nat
    BY <1>2, <1>3
  <2>4. all[o] = c[o] + One(old, o)
    BY ONLY <2>1, <2>2, <2>3
  <2>5. ASSUME NEW v \in V PROVE Cnt(v)[o] = c[o] + One(v, o)
    <3>1. Cnt(v)[o] + One(old, o) = all[o] + One(v, o) /\ Cnt(v)[o] \in Nat /\ One(v, o) \in Nat
      BY <1>1, <2>1, <2>3
    <3> QED BY ONLY <2>1, <2>3, <2>4, <3>1, SMTT(30)
  <2> QED BY <2>4, <2>5
<1>6. \A v : \A o \in Objects : Plus(c, <<v>>)[o] = c[o] + One(v, o)
  BY UsesOne, PlusAt
<1>7. \A v : Plus(c, <<v>>) = [o \in Objects |-> Plus(c, <<v>>)[o]]
  BY DEF Plus
<1> HIDE DEF c
<1>8. all = Plus(c, <<old>>)
  BY <1>4, <1>5, <1>6, <1>7
<1>9. ASSUME NEW v \in V PROVE Cnt(v) = Plus(c, <<v>>)
  BY <1>4, <1>5, <1>6, <1>7
<1> QED BY <1>1, <1>3, <1>8, <1>9 DEF all, Cnt, old

(***************************************************************************)
(* Put, and what it leaves to be finalized.                                *)
(***************************************************************************)

LEMMA ActiveState ==
  ASSUME Active
  PROVE  /\ Depth \in Nat /\ Depth > 0 /\ ValueSet(Alive(Depth))
         /\ StateOf(Alive(Depth), name, frames, lost)
         /\ Top \in FrameOf(Alive(Depth)) /\ Top.ops \in Seq(Alive(Depth))
         /\ Base \in [Objects -> Nat]
         /\ Outside(name, frames, lost) = Plus(Base, Top.ops)
         /\ Counted(heap, Alive(Depth), Plus(Base, Top.ops))
<1> DEFINE V == Alive(Depth)
<1>1. StateOf(V, name, frames, lost) /\ frames # <<>> /\ Counted(heap, V, Outside(name, frames, lost))
  BY DEF Active, HeapOK
<1>2. frames \in Seq(FrameOf(V))
  BY <1>1 DEF StateOf
<1>3. Depth \in Nat /\ Depth > 0 /\ Top \in FrameOf(V)
  BY <1>1, <1>2 DEF Depth, Top
<1>4. ValueSet(V)
  BY <1>3, AliveValues
<1> HIDE DEF V
<1>5. Top.ops \in Seq(V)
  BY <1>3 DEF FrameOf
<1>6. Outside(name, WithOps(frames, Top.ops), lost) = Plus(Base, Top.ops)
  BY <1>1, <1>5, OpsCount DEF Base
<1>7. WithOps(frames, Top.ops) = frames
  <2>1. \A k \in DOMAIN frames : WithOps(frames, Top.ops)[k] = frames[k]
    <3> SUFFICES ASSUME NEW k \in DOMAIN frames, k = Len(frames)
                 PROVE  [frames[k] EXCEPT !.ops = Top.ops] = frames[k]
      BY DEF WithOps
    <3>1. frames[k] \in FrameOf(V) /\ Top = frames[k]
      BY <1>2 DEF Top, Depth
    <3> QED BY <3>1 DEF FrameOf
  <2>2. WithOps(frames, Top.ops) = [k \in DOMAIN frames |-> WithOps(frames, Top.ops)[k]]
    BY DEF WithOps
  <2>3. frames = [k \in DOMAIN frames |-> frames[k]]
    BY <1>2
  <2> QED BY <2>1, <2>2, <2>3
<1>8. Base \in [Objects -> Nat]
  <2> DEFINE none == <<>>
  <2>1. none \in Seq(V)
    OBVIOUS
  <2> HIDE DEF none
  <2>2. StateOf(V, name, WithOps(frames, none), lost)
    BY <1>1, <2>1, OpsCount
  <2>3. Outside(name, WithOps(frames, none), lost) \in [Objects -> Nat]
    BY <2>2, OutsideAt
  <2> QED BY <2>3 DEF Base, none
<1> QED BY <1>1, <1>3, <1>4, <1>5, <1>6, <1>7, <1>8 DEF V

LEMMA TotalAt ==
  ASSUME Active, NEW ops \in Seq(Alive(Depth)), NEW gone \in Seq(Alive(Depth)),
         NEW forgot \in Seq(Alive(Depth))
  PROVE  /\ Plus(Base, ops) \in [Objects -> Nat]
         /\ Plus(Plus(Base, ops), forgot) \in [Objects -> Nat]
         /\ Total(ops, gone, forgot) \in [Objects -> Nat]
         /\ \A o \in Objects :
              /\ Base[o] \in Nat /\ Uses(ops, o) \in Nat /\ Uses(forgot, o) \in Nat
              /\ Uses(gone, o) \in Nat
              /\ Total(ops, gone, forgot)[o]
                   = Base[o] + Uses(ops, o) + Uses(forgot, o) + Uses(gone, o)
<1>1. Base \in [Objects -> Nat]
  BY ActiveState
<1>2. Plus(Base, ops) \in [Objects -> Nat]
  BY <1>1, PlusType
<1>3. Plus(Plus(Base, ops), forgot) \in [Objects -> Nat]
  BY <1>2, PlusType
<1>4. Total(ops, gone, forgot) \in [Objects -> Nat]
  BY <1>3, PlusType DEF Total
<1>5. ASSUME NEW o \in Objects
      PROVE  /\ Base[o] \in Nat /\ Uses(ops, o) \in Nat /\ Uses(forgot, o) \in Nat
             /\ Uses(gone, o) \in Nat
             /\ Total(ops, gone, forgot)[o]
                  = Base[o] + Uses(ops, o) + Uses(forgot, o) + Uses(gone, o)
  <2>1. Base[o] \in Nat
    BY <1>1
  <2>2. Uses(ops, o) \in Nat /\ Uses(forgot, o) \in Nat /\ Uses(gone, o) \in Nat
    BY UsesOfSeq
  <2>3. Total(ops, gone, forgot)[o] = Plus(Plus(Base, ops), forgot)[o] + Uses(gone, o)
    BY PlusAt DEF Total
  <2>4. Plus(Plus(Base, ops), forgot)[o] = Plus(Base, ops)[o] + Uses(forgot, o)
    BY PlusAt
  <2>5. Plus(Base, ops)[o] = Base[o] + Uses(ops, o)
    BY PlusAt
  <2> QED BY <2>1, <2>2, <2>3, <2>4, <2>5
<1> QED BY <1>2, <1>3, <1>4, <1>5

LEMMA ReadyMoved ==
  ASSUME Active, NEW h, NEW ops, NEW gone, NEW forgot, Ready(h, ops, gone, forgot),
         NEW ops2 \in Seq(Alive(Depth)), NEW gone2 \in Seq(Alive(Depth)),
         NEW forgot2 \in Seq(Alive(Depth)),
         \A o \in Objects : Uses(ops2, o) + Uses(forgot2, o) + Uses(gone2, o)
                              = Uses(ops, o) + Uses(forgot, o) + Uses(gone, o)
  PROVE  Ready(h, ops2, gone2, forgot2)
<1>1. /\ ops \in Seq(Alive(Depth)) /\ gone \in Seq(Alive(Depth)) /\ forgot \in Seq(Alive(Depth))
      /\ Counted(h, Alive(Depth), Total(ops, gone, forgot))
  BY DEF Ready, Total
<1>2. Total(ops2, gone2, forgot2) \in [Objects -> Nat]
  BY TotalAt
<1>3. ASSUME NEW o \in Objects
      PROVE  Total(ops2, gone2, forgot2)[o] = Total(ops, gone, forgot)[o]
  <2>1. /\ Base[o] \in Nat /\ Uses(ops, o) \in Nat /\ Uses(forgot, o) \in Nat
        /\ Uses(gone, o) \in Nat
        /\ Total(ops, gone, forgot)[o]
             = Base[o] + Uses(ops, o) + Uses(forgot, o) + Uses(gone, o)
    BY <1>1, TotalAt, SMTT(30)
  <2>2. /\ Uses(ops2, o) \in Nat /\ Uses(forgot2, o) \in Nat /\ Uses(gone2, o) \in Nat
        /\ Total(ops2, gone2, forgot2)[o]
             = Base[o] + Uses(ops2, o) + Uses(forgot2, o) + Uses(gone2, o)
    BY TotalAt
  <2>3. Uses(ops2, o) + Uses(forgot2, o) + Uses(gone2, o)
          = Uses(ops, o) + Uses(forgot, o) + Uses(gone, o)
    OBVIOUS
  <2> DEFINE a == Base[o]
             u == Uses(ops, o)
             v == Uses(forgot, o)
             w == Uses(gone, o)
             x == Uses(ops2, o)
             y == Uses(forgot2, o)
             z == Uses(gone2, o)
             s == Total(ops, gone, forgot)[o]
             t == Total(ops2, gone2, forgot2)[o]
  <2>4. /\ a \in Nat /\ u \in Nat /\ v \in Nat /\ w \in Nat /\ x \in Nat /\ y \in Nat /\ z \in Nat
        /\ s = a + u + v + w /\ t = a + x + y + z /\ x + y + z = u + v + w
    BY ONLY <2>1, <2>2, <2>3
  <2> HIDE DEF a, u, v, w, x, y, z, s, t
  <2>5. t = s
    BY ONLY <2>4
  <2> QED BY <2>5 DEF s, t
<1>4. Counted(h, Alive(Depth), Total(ops2, gone2, forgot2))
  BY <1>1, <1>2, <1>3, CountedSame
<1> QED BY <1>4 DEF Ready, Total

\* Lose.
LEMMA LostCount ==
  ASSUME NEW V, NEW nm, NEW fr, NEW ls, StateOf(V, nm, fr, ls), NEW gone \in Seq(V)
  PROVE  LET ls2 == [o \in Objects |-> ls[o] + Uses(gone, o)]
         IN  StateOf(V, nm, fr, ls2) /\ Outside(nm, fr, ls2) = Plus(Outside(nm, fr, ls), gone)
<1> DEFINE ls2 == [o \in Objects |-> ls[o] + Uses(gone, o)]
<1>1. ls \in [Objects -> Nat] /\ \A o \in Objects : Uses(gone, o) \in Nat
  BY UsesOfSeq DEF StateOf
<1>2. ls2 \in [Objects -> Nat] /\ \A o \in Objects : ls2[o] = ls[o] + Uses(gone, o)
  BY <1>1
<1> HIDE DEF ls2
<1>3. StateOf(V, nm, fr, ls2)
  BY <1>2 DEF StateOf
<1>4. ASSUME NEW o \in Objects
      PROVE  Outside(nm, fr, ls2)[o] = Outside(nm, fr, ls)[o] + Uses(gone, o)
  <2>1. /\ Uses(nm, o) \in Nat /\ UsesIn(FrameRows(fr), o) \in Nat /\ ls[o] \in Nat
        /\ Outside(nm, fr, ls)[o] = Uses(nm, o) + UsesIn(FrameRows(fr), o) + ls[o]
    BY OutsideAt
  <2>2. Outside(nm, fr, ls2)[o] = Uses(nm, o) + UsesIn(FrameRows(fr), o) + ls2[o]
    BY <1>3, OutsideAt
  <2>3. ls2[o] = ls[o] + Uses(gone, o) /\ Uses(gone, o) \in Nat
    BY <1>1, <1>2
  <2> QED BY ONLY <2>1, <2>2, <2>3
<1>5. Outside(nm, fr, ls2) = [o \in Objects |-> Outside(nm, fr, ls2)[o]]
  BY DEF Outside
<1>6. Outside(nm, fr, ls2) = Plus(Outside(nm, fr, ls), gone)
  BY <1>4, <1>5 DEF Plus
<1> QED BY <1>3, <1>6 DEF ls2

LEMMA PutParts ==
  ASSUME Active, NEW p, NEW v \in Alive(Depth), NEW ops \in Seq(Alive(Depth)), Put(p, v, ops)
  PROVE  name' = SetNames(name, p, v) /\ frames' = SetFrames(WithOps(frames, ops), p, v)
<1> DEFINE V == Alive(Depth)
           gr == WithOps(frames, ops)
<1>1. StateOf(V, name, frames, lost) /\ frames # <<>>
  BY ActiveState DEF Active
<1>2. frames \in Seq(FrameOf(V)) /\ \A k \in DOMAIN frames : frames[k] \in FrameOf(V)
  BY <1>1, SMTT(30) DEF StateOf
<1>3. name' = SetNames(name, p, v)
  BY ZenonT(30) DEF Put, SetNames
<1> DEFINE new(k) == [frames[k] EXCEPT !.local = IF p = <<"local", k>> THEN v ELSE @,
                                       !.arg = IF p = <<"arg", k>> THEN v ELSE @,
                                       !.ops = IF k = Depth THEN ops ELSE @]
<1>4. frames' = [k \in DOMAIN frames |-> new(k)]
  BY DEF Put
<1>5. DOMAIN gr = DOMAIN frames
  BY DEF WithOps
<1>6. ASSUME NEW k \in DOMAIN frames
      PROVE  new(k) = SetFrame(gr[k], k, p, v)
  <2> DEFINE f == frames[k]
             l == IF p = <<"local", k>> THEN v ELSE f.local
             a == IF p = <<"arg", k>> THEN v ELSE f.arg
             q == IF k = Depth THEN ops ELSE f.ops
  <2>1. f \in FrameOf(V) /\ new(k) = [f EXCEPT !.local = l, !.arg = a, !.ops = q]
    BY <1>2
  <2>2. gr[k] = [f EXCEPT !.ops = q]
    <3>1. gr[k] = IF k = Depth THEN [f EXCEPT !.ops = ops] ELSE f
      BY DEF WithOps, Depth
    <3> QED BY <2>1, <3>1 DEF FrameOf
  <2>3. SetFrame(gr[k], k, p, v) = [gr[k] EXCEPT !.local = l, !.arg = a]
    BY <2>1, <2>2 DEF SetFrame, FrameOf
  <2> HIDE DEF f, l, a, q
  <2>4. [[f EXCEPT !.ops = q] EXCEPT !.local = l, !.arg = a]
          = [f EXCEPT !.local = l, !.arg = a, !.ops = q]
    BY <2>1 DEF FrameOf
  <2> QED BY <2>1, <2>2, <2>3, <2>4
<1> HIDE DEF gr, new
<1>7. frames' = [k \in DOMAIN gr |-> SetFrame(gr[k], k, p, v)]
  BY <1>4, <1>5, <1>6
<1> QED BY <1>3, <1>7 DEF gr, SetFrames

\* Only the pending operands change.
LEMMA PutNowhere ==
  ASSUME Active, NEW v \in Alive(Depth), NEW ops \in Seq(Alive(Depth)), Put(Nowhere, v, ops)
  PROVE  name' = name /\ frames' = WithOps(frames, ops)
<1> DEFINE V == Alive(Depth)
           gr == WithOps(frames, ops)
           p == Nowhere
<1>1. StateOf(V, name, frames, lost) /\ frames # <<>>
  BY ActiveState DEF Active
<1>2. frames \in Seq(FrameOf(V)) /\ name \in [Names -> V]
  BY <1>1 DEF StateOf
<1>3. gr \in Seq(FrameOf(V))
  BY <1>1, <1>2, WithOpsType
<1>4. \A k : p # <<"local", k>> /\ p # <<"arg", k>> /\ p # <<"name", k>>
  BY DEF Nowhere
<1> HIDE DEF p, gr
<1>5. name' = SetNames(name, p, v) /\ frames' = SetFrames(gr, p, v)
  BY PutParts DEF p, gr
<1>6. SetNames(name, p, v) = name
  BY <1>2, <1>4 DEF SetNames
<1>7. \A k \in DOMAIN gr : SetFrame(gr[k], k, p, v) = gr[k]
  <2> SUFFICES ASSUME NEW k \in DOMAIN gr PROVE SetFrame(gr[k], k, p, v) = gr[k]
    OBVIOUS
  <2>1. gr[k] \in FrameOf(V)
    BY <1>3
  <2> QED BY <1>4, <2>1, SetFrameType
<1>8. SetFrames(gr, p, v) = [k \in DOMAIN gr |-> gr[k]]
  BY <1>7 DEF SetFrames
<1>9. gr = [k \in DOMAIN gr |-> gr[k]]
  BY <1>3
<1> QED BY <1>5, <1>6, <1>8, <1>9 DEF gr

LEMMA NowhereCount ==
  ASSUME Active, NEW v \in Alive(Depth), NEW ops \in Seq(Alive(Depth)),
         NEW forgot \in Seq(Alive(Depth)), Put(Nowhere, v, ops), Loses(forgot)
  PROVE  /\ Depth' = Depth /\ StateOf(Alive(Depth), name', frames', lost')
         /\ Outside(name', frames', lost') = Plus(Plus(Base, ops), forgot)
<1> DEFINE V == Alive(Depth)
           gr == WithOps(frames, ops)
           ls == [o \in Objects |-> lost[o] + Uses(forgot, o)]
<1>1. StateOf(V, name, frames, lost) /\ frames # <<>>
  BY ActiveState DEF Active
<1>2. name' = name /\ frames' = gr /\ lost' = ls
  BY PutNowhere DEF Loses
<1>3. StateOf(V, name, gr, lost) /\ Outside(name, gr, lost) = Plus(Base, ops)
  BY <1>1, OpsCount DEF Base
<1>4. Len(gr) = Len(frames)
  BY <1>1, WithOpsType DEF StateOf
<1> HIDE DEF gr
<1>5. StateOf(V, name, gr, ls) /\ Outside(name, gr, ls) = Plus(Outside(name, gr, lost), forgot)
  BY <1>3, LostCount
<1> HIDE DEF ls
<1> QED BY <1>2, <1>3, <1>4, <1>5 DEF Depth

\* Place p takes r for what it holds.
LEMMA PlaceStored ==
  ASSUME Active, NEW p \in Everywhere(Depth), NEW r \in Alive(Depth),
         NEW ops \in Seq(Alive(Depth)), NEW forgot \in Seq(Alive(Depth)),
         Put(p, r, ops), Lose(forgot)
  PROVE  /\ Depth' = Depth /\ StateOf(Alive(Depth), name', frames', lost')
         /\ Value(p) \in Alive(Depth)
         /\ \E c \in [Objects -> Nat] :
              /\ Plus(Plus(Base, ops), forgot) = Plus(c, <<Value(p)>>)
              /\ Outside(name', frames', lost') = Plus(c, <<r>>)
<1> DEFINE V == Alive(Depth)
           gr == WithOps(frames, ops)
           ls == [o \in Objects |-> lost[o] + Uses(forgot, o)]
<1>1. StateOf(V, name, frames, lost) /\ frames # <<>> /\ None \in V /\ Depth \in Nat
  BY ActiveState DEF Active, ValueSet
<1>2. name' = SetNames(name, p, r) /\ frames' = SetFrames(gr, p, r) /\ lost' = ls
  BY PutParts DEF Lose
<1>3. StateOf(V, name, gr, lost) /\ Outside(name, gr, lost) = Plus(Base, ops)
  BY <1>1, OpsCount DEF Base
<1>4. /\ gr \in Seq(FrameOf(V)) /\ Len(gr) = Len(frames)
      /\ \A k \in 1..Len(frames) : gr[k].local = frames[k].local /\ gr[k].arg = frames[k].arg
  <2>1. frames \in Seq(FrameOf(V))
    BY <1>1 DEF StateOf
  <2>2. /\ gr \in Seq(FrameOf(V)) /\ Len(gr) = Len(frames) /\ DOMAIN gr = DOMAIN frames
        /\ \A k \in DOMAIN frames \ {Len(frames)} : gr[k] = frames[k]
        /\ gr[Len(frames)].local = frames[Len(frames)].local
        /\ gr[Len(frames)].arg = frames[Len(frames)].arg
    BY <1>1, <2>1, WithOpsType
  <2>3. DOMAIN frames = 1..Len(frames)
    BY <2>1
  <2> HIDE DEF gr
  <2> QED BY <2>2, <2>3
<1> HIDE DEF gr
<1>5. StateOf(V, name, gr, ls) /\ Outside(name, gr, ls) = Plus(Outside(name, gr, lost), forgot)
  BY <1>3, LostCount
<1> HIDE DEF ls
<1>6. p \in Everywhere(Len(gr))
  BY <1>4 DEF Depth
<1>7. StateOf(V, SetNames(name, p, r), SetFrames(gr, p, r), ls)
  BY <1>5, <1>6, PlaceCount
<1>8. Len(SetFrames(gr, p, r)) = Len(frames)
  BY <1>4, SetFramesType
<1>9. /\ At(name, gr, p) \in V
      /\ \E c \in [Objects -> Nat] :
           /\ Outside(name, gr, ls) = Plus(c, <<At(name, gr, p)>>)
           /\ \A v \in V : Outside(SetNames(name, p, v), SetFrames(gr, p, v), ls) = Plus(c, <<v>>)
  BY <1>1, <1>5, <1>6, PlaceSplit
<1>10. Value(p) = At(name, gr, p)
  <2>1. p[1] \in {"local", "arg"} => p[2] \in 1..Len(frames)
    BY DEF Everywhere, Depth
  <2> QED BY <1>4, <2>1 DEF Value, At
<1> QED BY <1>2, <1>3, <1>5, <1>7, <1>8, <1>9, <1>10 DEF Depth

\* What a place holds is in use.
LEMMA ValueAlive ==
  ASSUME Active, NEW p \in Everywhere(Depth)
  PROVE  Value(p) \in Alive(Depth) /\ Live(heap, Value(p))
<1> DEFINE V == Alive(Depth)
<1>1. /\ StateOf(V, name, frames, lost) /\ None \in V /\ ValueSet(V)
      /\ Counted(heap, V, Outside(name, frames, lost))
  BY ActiveState DEF Active, HeapOK, ValueSet
<1>2. Value(p) = At(name, frames, p)
  BY DEF Value, At
<1>3. /\ Value(p) \in V
      /\ \E c \in [Objects -> Nat] : Outside(name, frames, lost) = Plus(c, <<Value(p)>>)
  BY <1>1, <1>2, PlaceSplit DEF Depth
<1>4. ASSUME Counts(Value(p)) PROVE heap[Value(p).object].kind # "free"
  <2> DEFINE v == Value(p)
  <2>1. PICK c \in [Objects -> Nat] : Outside(name, frames, lost) = Plus(c, <<v>>)
    BY <1>3
  <2>2. v.object \in Objects
    BY <1>1, <1>3, <1>4 DEF ValueSet
  <2>3. v \in V /\ Counts(v)
    BY <1>3, <1>4
  <2> HIDE DEF v
  <2>4. Plus(c, <<v>>)[v.object] > 0
    BY <2>2, <2>3, PlusMore
  <2>5. heap[v.object].kind # "free"
    BY <1>1, <2>1, <2>2, <2>4, UsedAlive
  <2> QED BY <2>5 DEF v
<1> QED BY <1>3, <1>4 DEF Live

(***************************************************************************)
(* Stores.                                                                 *)
(***************************************************************************)

LEMMA FinalizeNowhere ==
  ASSUME Active, NEW h, NEW ops, NEW gone, NEW forgot,
         Ready(h, ops, gone, forgot), NEW v \in Alive(Depth),
         Put(Nowhere, v, ops), Loses(forgot), heap' = Finalize(h, gone)
  PROVE  HeapOK' /\ Depth' = Depth /\ Bound(h, heap') /\ Shrinks(h, heap')
<1> DEFINE V == Alive(Depth)
           c == Plus(Plus(Base, ops), forgot)
<1>1. /\ ops \in Seq(V) /\ gone \in Seq(V) /\ forgot \in Seq(V)
      /\ Counted(h, V, Plus(c, gone)) /\ ValueSet(V)
  BY ActiveState DEF Ready
<1>2. c \in [Objects -> Nat]
  BY <1>1, TotalAt
<1>4. Depth' = Depth /\ StateOf(V, name', frames', lost') /\ Outside(name', frames', lost') = c
  BY <1>1, NowhereCount
<1> HIDE DEF c
<1>5. Counted(heap', V, c) /\ Shrinks(h, heap')
  BY <1>1, <1>2, FinalizeKeeps
<1>6. HeapOK'
  BY <1>4, <1>5 DEF HeapOK
<1>7. Bound(h, heap')
  BY <1>5 DEF Bound, Shrinks
<1> QED BY <1>4, <1>5, <1>6, <1>7

LEMMA ReplaceNowhere ==
  ASSUME Active, NEW h, NEW r, NEW ops, NEW gone, NEW forgot,
         Storing(h, r, ops, gone, forgot), NEW v \in Alive(Depth),
         Replace(h, Nowhere, v, ops, gone, forgot)
  PROVE  HeapOK' /\ Depth' = Depth /\ Bound(h, heap') /\ Shrinks(h, heap')
<1>1. Ready(h, ops, gone, forgot)
  BY DEF Storing
<1>2. Put(Nowhere, v, ops) /\ Loses(forgot) /\ heap' = Finalize(h, gone)
  BY DEF Replace, Lose, Loses
<1> QED BY <1>1, <1>2, FinalizeNowhere

\* Nothing is finalized.
LEMMA ReadyNowhere ==
  ASSUME Active, NEW ops, NEW forgot, Ready(heap', ops, <<>>, forgot), NEW v \in Alive(Depth),
         Put(Nowhere, v, ops), Loses(forgot)
  PROVE  HeapOK' /\ Depth' = Depth
<1> DEFINE V == Alive(Depth)
           c == Plus(Plus(Base, ops), forgot)
<1>1. ops \in Seq(V) /\ forgot \in Seq(V) /\ Counted(heap', V, Plus(c, <<>>))
  BY DEF Ready
<1>2. c \in [Objects -> Nat]
  BY <1>1, TotalAt
<1>3. Depth' = Depth /\ StateOf(V, name', frames', lost') /\ Outside(name', frames', lost') = c
  BY <1>1, NowhereCount
<1> HIDE DEF c
<1>4. Plus(c, <<>>) = c
  BY <1>2, PlusNothing
<1>5. Counted(heap', V, Outside(name', frames', lost'))
  BY <1>1, <1>3, <1>4
<1> QED BY <1>3, <1>5 DEF HeapOK

LEMMA ReplaceKeeps ==
  ASSUME Active, NEW h, NEW q \in Everywhere(Depth), NEW r, NEW ops, NEW gone, NEW forgot,
         Storing(h, r, ops, gone, forgot), Replace(h, q, r, ops, gone, forgot)
  PROVE  HeapOK' /\ Depth' = Depth /\ Bound(h, heap') /\ Shrinks(h, heap')
<1> DEFINE V == Alive(Depth)
           c == Plus(Plus(Base, ops), forgot)
           old == Value(q)
<1>1. /\ ops \in Seq(V) /\ gone \in Seq(V) /\ forgot \in Seq(V) /\ r \in V
      /\ Counted(h, V, Plus(c, gone)) /\ ValueSet(V)
      /\ Counts(r) => Plus(c, gone)[r.object] > 0
  BY ActiveState DEF Storing, Ready, Total
<1>2. c \in [Objects -> Nat]
  BY <1>1, TotalAt
<1>3. Put(q, r, ops) /\ Lose(forgot) /\ heap' = Finalize(Assign(h, old, r), gone)
  <2>1. q # Nowhere
    BY DEF Everywhere, Nowhere
  <2> QED BY <2>1 DEF Replace
<1>4. /\ Depth' = Depth /\ StateOf(V, name', frames', lost') /\ old \in V
      /\ \E e \in [Objects -> Nat] :
           c = Plus(e, <<old>>) /\ Outside(name', frames', lost') = Plus(e, <<r>>)
  BY <1>1, <1>3, PlaceStored
<1> HIDE DEF c, old
<1>5. PICK e \in [Objects -> Nat] :
           c = Plus(e, <<old>>) /\ Outside(name', frames', lost') = Plus(e, <<r>>)
  BY <1>4
<1> DEFINE olds == <<old>>
           news == <<r>>
<1>6. olds \in Seq(V) /\ news \in Seq(V)
  BY <1>1, <1>4
<1>7. Counts(r) => h[r.object].kind # "free"
  <2> SUFFICES ASSUME Counts(r) PROVE h[r.object].kind # "free"
    OBVIOUS
  <2>1. r.object \in Objects /\ Plus(c, gone)[r.object] > 0
    BY <1>1 DEF ValueSet
  <2> QED BY <1>1, <2>1, UsedAlive
<1>8. /\ Plus(e, gone) \in [Objects -> Nat]
      /\ Plus(c, gone) = Plus(Plus(e, gone), <<old>>)
  <2>1. c = Plus(e, olds)
    BY <1>5
  <2> HIDE DEF olds
  <2>2. Plus(Plus(e, olds), gone) = Plus(Plus(e, gone), olds)
    BY <1>1, <1>6, PlusConcat, SMTT(30)
  <2>3. Plus(e, gone) \in [Objects -> Nat]
    BY <1>1, PlusType
  <2> QED BY <2>1, <2>2, <2>3 DEF olds
<1>9. /\ Counted(Assign(h, old, r), V, Plus(Plus(e, gone), <<r>>))
      /\ Shrinks(h, Assign(h, old, r))
  <2>1. Counted(h, V, Plus(Plus(e, gone), <<old>>))
    BY <1>1, <1>8
  <2> DEFINE d == Plus(e, gone)
  <2>2. d \in [Objects -> Nat] /\ Counted(h, V, Plus(d, <<old>>))
    BY <1>8, <2>1
  <2> HIDE DEF d
  <2>3. Counted(Assign(h, old, r), V, Plus(d, <<r>>)) /\ Shrinks(h, Assign(h, old, r))
    BY <1>1, <1>4, <1>7, <2>2, AssignKeeps
  <2> QED BY <2>3 DEF d
<1>10. /\ Plus(e, <<r>>) \in [Objects -> Nat]
       /\ Counted(Assign(h, old, r), V, Plus(Plus(e, <<r>>), gone))
  <2>1. Counted(Assign(h, old, r), V, Plus(Plus(e, gone), news))
    BY <1>9
  <2> HIDE DEF news
  <2>2. Plus(Plus(e, gone), news) = Plus(Plus(e, news), gone)
    BY <1>1, <1>6, PlusConcat, SMTT(30)
  <2>3. Plus(e, news) \in [Objects -> Nat]
    BY <1>6, PlusType
  <2> QED BY <2>1, <2>2, <2>3 DEF news
<1>11. Counted(heap', V, Plus(e, <<r>>)) /\ Shrinks(Assign(h, old, r), heap')
  <2> DEFINE d == Plus(e, <<r>>)
             g == Assign(h, old, r)
  <2>1. d \in [Objects -> Nat] /\ Counted(g, V, Plus(d, gone)) /\ heap' = Finalize(g, gone)
    BY <1>3, <1>10
  <2> HIDE DEF d, g
  <2>2. Counted(heap', V, d) /\ Shrinks(g, heap')
    BY <1>1, <2>1, FinalizeKeeps
  <2> QED BY <2>2 DEF d, g
<1>12. HeapOK'
  BY <1>4, <1>5, <1>11 DEF HeapOK
<1>13. Shrinks(h, heap')
  BY <1>9, <1>11, ShrinksTrans
<1>14. Bound(h, heap')
  BY <1>13 DEF Bound, Shrinks
<1> QED BY <1>4, <1>12, <1>13, <1>14

\* A package that a Name holds is overwritten.
LEMMA OverwriteStore ==
  ASSUME Active, NEW h, NEW q \in Everywhere(Depth), q[1] = "name", NEW r, NEW ops, NEW gone,
         NEW forgot, Storing(h, r, ops, gone, forgot),
         TypeOf(h, Value(q)) = "package", TypeOf(h, r) = "package", r # Value(q),
         heap' = Finalize(Overwrite(h, Value(q).object, r.object), gone),
         Put(Nowhere, None, ops), Lose(forgot \o ElementsOf(h, r.object))
  PROVE  /\ HeapOK' /\ Depth' = Depth /\ Bound(h, heap')
         /\ Replaced(h, heap', Value(q).object, r.object)
<1> DEFINE V == Alive(Depth)
           base == Plus(Base, ops)
           c == Plus(base, forgot)
           old == Value(q)
           o == old.object
           x == r.object
           elems == ElementsOf(h, x)
           g == Overwrite(h, o, x)
<1>1. /\ ops \in Seq(V) /\ gone \in Seq(V) /\ forgot \in Seq(V) /\ r \in V
      /\ Counted(h, V, Plus(c, gone)) /\ ValueSet(V) /\ None \in V /\ Depth \in Nat
      /\ Counts(r) => Plus(c, gone)[x] > 0
  BY ActiveState DEF Storing, Ready, Total, ValueSet
<1>2. base \in [Objects -> Nat] /\ c \in [Objects -> Nat]
  BY <1>1, TotalAt
<1>3. old \in V
  BY ValueAlive
<1>4. /\ old.type = "object" /\ h[o].kind = "package" /\ old = Whole(o) /\ o \in Objects
      /\ r.type = "object" /\ h[x].kind = "package" /\ r = Whole(x) /\ x \in Objects
      /\ Counts(old) /\ Counts(r) /\ o # x
  <2>1. \A v \in V : TypeOf(h, v) = "package" =>
          v.type = "object" /\ h[v.object].kind = "package" /\ v = Whole(v.object)
    BY <1>1, AliveValues DEF TypeOf
  <2>2. \A v \in V : v.type = "object" => Counts(v) /\ v.object \in Objects
    BY <1>1 DEF Counts, ValueSet
  <2>3. /\ old.type = "object" /\ h[o].kind = "package" /\ old = Whole(o)
        /\ Counts(old) /\ o \in Objects
    BY <1>3, <2>1, <2>2
  <2>4. /\ r.type = "object" /\ h[x].kind = "package" /\ r = Whole(x)
        /\ Counts(r) /\ x \in Objects
    BY <1>1, <2>1, <2>2
  <2> QED BY <2>3, <2>4
<1>5. Plus(c, gone)[o] > 0
  <2>1. Outside(name, WithOps(frames, ops), lost) = base
    <3>1. StateOf(V, name, frames, lost) /\ frames # <<>>
      BY ActiveState DEF Active
    <3> QED BY <1>1, <3>1, OpsCount DEF Base
  <2>2. base[o] > 0
    <3>1. StateOf(V, name, frames, lost) /\ frames # <<>>
      BY ActiveState DEF Active
    <3>2. StateOf(V, name, WithOps(frames, ops), lost)
      BY <1>1, <3>1, OpsCount
    <3>3. /\ Uses(name, o) \in Nat /\ UsesIn(FrameRows(WithOps(frames, ops)), o) \in Nat
          /\ lost[o] \in Nat
          /\ Outside(name, WithOps(frames, ops), lost)[o]
               = Uses(name, o) + UsesIn(FrameRows(WithOps(frames, ops)), o) + lost[o]
      BY <1>4, <3>2, OutsideAt
    <3>4. Uses(name, o) >= 1
      <4>1. q[2] \in Names /\ old = name[q[2]]
        BY DEF Everywhere, Value
      <4>2. name \in [Names -> V]
        BY <3>1 DEF StateOf
      <4>3. Holds(name[q[2]], o)
        BY <1>4, <4>1 DEF Holds
      <4>4. IsFiniteSet(DOMAIN name) /\ q[2] \in DOMAIN name
        BY <4>1, <4>2, ContentsAssumption
      <4> HIDE DEF o
      <4> QED BY <4>3, <4>4, UsesSome
    <3> HIDE DEF o, base
    <3> QED BY <2>1, <3>3, <3>4
  <2> HIDE DEF base, o
  <2>3. c[o] = base[o] + Uses(forgot, o) /\ Uses(forgot, o) \in Nat /\ base[o] \in Nat
    BY <1>1, <1>2, <1>4, PlusAt, UsesOfSeq
  <2> HIDE DEF c
  <2>4. Plus(c, gone)[o] = c[o] + Uses(gone, o) /\ Uses(gone, o) \in Nat
    BY <1>1, <1>4, PlusAt, UsesOfSeq
  <2> QED BY <2>2, <2>3, <2>4
<1>6. elems \in Seq(V)
  BY <1>1, <1>4, ElementsOfType DEF Counted
<1>7. /\ Counted(g, V, Plus(Plus(c, gone), elems)) /\ Resized(h, g, o, h[x].size)
      /\ Drawn(h, g, o, x)
  <2> DEFINE d == Plus(c, gone)
  <2>1. d \in [Objects -> Nat]
    BY <1>1, <1>2, PlusType
  <2>2. Overwrites(V, d, h, o, x)
    BY <1>1, <1>4, <1>5 DEF Overwrites
  <2> HIDE DEF d, o, x
  <2>3. /\ Counted(Overwrite(h, o, x), V, Plus(d, ElementsOf(h, x)))
        /\ Resized(h, Overwrite(h, o, x), o, h[x].size) /\ Drawn(h, Overwrite(h, o, x), o, x)
    BY <1>1, <2>1, <2>2, OverwriteKeeps
  <2> QED BY <2>3 DEF d
<1>8. Counted(g, V, Plus(Plus(c, elems), gone)) /\ Plus(c, elems) \in [Objects -> Nat]
  <2> HIDE DEF c, elems
  <2>1. Plus(Plus(c, gone), elems) = Plus(Plus(c, elems), gone)
    BY <1>1, <1>2, <1>6, PlusConcat, SMTT(30)
  <2>2. Plus(c, elems) \in [Objects -> Nat]
    BY <1>2, <1>6, PlusType
  <2> QED BY <1>7, <2>1, <2>2
<1>9. Plus(c, elems) = Plus(base, forgot \o elems) /\ forgot \o elems \in Seq(V)
  <2> HIDE DEF base, elems
  <2>1. Plus(Plus(base, forgot), elems) = Plus(base, forgot \o elems)
    BY <1>1, <1>2, <1>6, PlusConcat, SMTT(30)
  <2> QED BY <1>1, <1>6, <2>1
<1>10. /\ Depth' = Depth /\ StateOf(V, name', frames', lost')
       /\ Outside(name', frames', lost') = Plus(base, forgot \o elems)
  <2> DEFINE all == forgot \o elems
  <2>1. all \in Seq(V) /\ Loses(all)
    BY <1>9 DEF Lose, Loses
  <2> HIDE DEF all
  <2>2. /\ Depth' = Depth /\ StateOf(V, name', frames', lost')
        /\ Outside(name', frames', lost') = Plus(base, all)
    BY <1>1, <2>1, NowhereCount
  <2> QED BY <2>2 DEF all
<1>11. Counted(heap', V, Plus(c, elems)) /\ Shrinks(g, heap')
  <2> DEFINE d == Plus(c, elems)
  <2>1. d \in [Objects -> Nat] /\ Counted(g, V, Plus(d, gone)) /\ heap' = Finalize(g, gone)
    BY <1>8
  <2> HIDE DEF d, g
  <2>2. Counted(heap', V, d) /\ Shrinks(g, heap')
    BY <1>1, <2>1, FinalizeKeeps
  <2> QED BY <2>2 DEF d
<1>12. HeapOK'
  BY <1>9, <1>10, <1>11 DEF HeapOK
<1>13. Bound(h, heap')
  <2> SUFFICES ASSUME NEW y \in Objects, heap'[y].kind # "free"
               PROVE  heap'[y].elems = h[y].elems \/ \E n \in Names : name[n] = Whole(y)
    BY DEF Bound
  <2>1. q[2] \in Names /\ old = name[q[2]]
    BY DEF Everywhere, Value
  <2>2. CASE y = o
    BY <1>4, <2>1, <2>2
  <2>3. CASE y # o
    <3> HIDE DEF g, o
    <3>1. g[y].kind = heap'[y].kind /\ g[y].elems = heap'[y].elems
      BY <1>11 DEF Shrinks
    <3>2. g[y].elems = h[y].elems
      BY <1>7, <2>3, <3>1 DEF Resized
    <3> QED BY <3>1, <3>2
  <2> QED BY <2>2, <2>3
<1>14. Replaced(h, heap', o, x)
  <2> HIDE DEF g, o, x
  <2>1. g \in HeapOf(V)
    BY <1>8 DEF Counted
  <2> QED BY <1>4, <1>7, <1>11, <2>1 DEF Replaced
<1> QED BY <1>10, <1>12, <1>13, <1>14

LEMMA PanicKeeps ==
  ASSUME Active, NEW why, Panic(why)
  PROVE  HeapOK' /\ Depth' = Depth /\ Stable
<1>1. heap' = heap /\ name' = name /\ frames' = frames /\ lost' = lost
  BY DEF Panic
<1>2. Depth' = Depth
  BY <1>1 DEF Depth
<1>3. HeapOK
  BY DEF Active
<1>4. HeapOK'
  BY <1>1, <1>2, <1>3 DEF HeapOK
<1> QED BY <1>1, <1>2, <1>4 DEF Stable

LEMMA GrowsBound ==
  ASSUME NEW h, Grows(heap, h), Bound(h, heap')
  PROVE  Stable
BY DEF Grows, Bound, Stable

LEMMA MutateKeeps ==
  ASSUME Active, NEW h, Grows(heap, h), NEW q \in Everywhere(Depth), NEW r, NEW ops, NEW gone,
         NEW forgot, Storing(h, r, ops, gone, forgot), r.type = "object" => r # Value(q),
         Mutate(h, q, r, ops, gone, forgot)
  PROVE  HeapOK' /\ Depth' = Depth /\ Stable
<1>1. None \in Alive(Depth)
  BY ActiveState DEF ValueSet
<1>2. CASE Replace(h, q, r, ops, gone, forgot)
  BY <1>2, ReplaceKeeps, GrowsBound
<1>3. CASE Replace(h, Nowhere, None, ops, gone, forgot)
  BY <1>1, <1>3, ReplaceNowhere, GrowsBound
<1>4. CASE /\ q[1] = "name" /\ TypeOf(h, Value(q)) = "package" /\ TypeOf(h, r) = "package"
           /\ heap' = Finalize(Overwrite(h, Value(q).object, r.object), gone)
           /\ Put(Nowhere, None, ops)
           /\ Lose(forgot \o ElementsOf(h, r.object))
  <2>1. r # Value(q)
    <3>1. Depth \in Nat /\ r \in Alive(Depth)
      BY ActiveState DEF Storing
    <3>2. r.type # "package"
      BY <3>1, AliveValues
    <3> QED BY <1>4, <3>2 DEF TypeOf
  <2>2. HeapOK' /\ Depth' = Depth /\ Bound(h, heap')
    BY <1>4, <2>1, OverwriteStore
  <2> QED BY <2>2, GrowsBound
<1>5. CASE Panic("types")
  BY <1>5, PanicKeeps
<1> QED BY <1>2, <1>3, <1>4, <1>5 DEF Mutate

\* What a store to an argument leads to.
LEMMA ThroughPlace ==
  ASSUME Active, NEW p \in Everywhere(Depth), Through(p), Value(p) # Dangling
  PROVE  Value(p).place \in Everywhere(Depth)
<1>1. Value(p) \in Alive(Depth) /\ Depth \in Nat
  BY ValueAlive, ActiveState
<1>2. \A v \in Alive(Depth) : v.type \in {"reference", "dangling"} /\ v # Dangling =>
        v.place \in Everywhere(Depth)
  BY DEF Alive, None, Integer, Dangling, Whole, Element, Reference
<1> QED BY <1>1, <1>2 DEF Through

LEMMA MutateOperandKeeps ==
  ASSUME Active, NEW h, Grows(heap, h), NEW p \in Everywhere(Depth), NEW r, NEW ops, NEW gone,
         NEW forgot, Storing(h, r, ops, gone, forgot), r.type = "object" => r # Value(p),
         MutateOperand(h, p, r, ops, gone, forgot)
  PROVE  HeapOK' /\ Depth' = Depth /\ Stable
<1>1. CASE Panic("wild")
  BY <1>1, PanicKeeps
<1>2. CASE Through(p) /\ Value(p) # Dangling /\ Replace(h, Value(p).place, r, ops, gone, forgot)
  BY <1>2, ThroughPlace, ReplaceKeeps, GrowsBound
<1>3. CASE Mutate(h, p, r, ops, gone, forgot)
  BY <1>3, MutateKeeps
<1> QED BY <1>1, <1>2, <1>3 DEF MutateOperand

LEMMA EmplaceOperandKeeps ==
  ASSUME Active, NEW h, Grows(heap, h), NEW p \in Everywhere(Depth), NEW r, NEW ops, NEW gone,
         NEW forgot, Storing(h, r, ops, gone, forgot),
         EmplaceOperand(h, p, r, ops, gone, forgot)
  PROVE  HeapOK' /\ Depth' = Depth /\ Stable
<1>1. CASE Panic("wild")
  BY <1>1, PanicKeeps
<1>2. CASE Through(p) /\ Value(p) # Dangling /\ Replace(h, Value(p).place, r, ops, gone, forgot)
  BY <1>2, ThroughPlace, ReplaceKeeps, GrowsBound
<1>3. CASE Replace(h, p, r, ops, gone, forgot)
  BY <1>3, ReplaceKeeps, GrowsBound
<1> QED BY <1>1, <1>2, <1>3 DEF EmplaceOperand

(***************************************************************************)
(* Operands.                                                               *)
(***************************************************************************)

LEMMA EvaluatedPlain ==
  ASSUME NEW V, NEW h, NEW c \in [Objects -> Nat], NEW g, NEW v \in V, Grows(h, g),
         Counted(g, V, Plus(c, <<v>>))
  PROVE  Evaluated(V, h, c, Result(g, v, <<>>))
<1>1. <<>> \in Seq(V) /\ Plus(c, <<>>) = c
  BY PlusNothing
<1> DEFINE none == <<>>
           s == Result(g, v, none)
<1>2. s.lost = none /\ s.value = v /\ s.heap = g
  BY DEF Result
<1>3. none \in Seq(V) /\ Plus(c, none) = c
  BY <1>1
<1> HIDE DEF none, s
<1>4. Evaluated(V, h, c, s)
  BY <1>2, <1>3 DEF Evaluated
<1> QED BY <1>4 DEF none, s

LEMMA IndexOfKeeps ==
  ASSUME NEW V, ValueSet(V), NEW c \in [Objects -> Nat], Counted(heap, V, c),
         NEW v \in V, Live(heap, v), NEW i, v.type = "object" => Element(v.object, i) \in V,
         IndexOf(v, i).fault = "ok"
  PROVE  Evaluated(V, heap, c, IndexOf(v, i))
<1> DEFINE e == Element(v.object, i)
<1>1. v.type = "object" /\ IndexOf(v, i) = Result(Ref(heap, e), e, <<>>)
  BY DEF IndexOf, Fault, Result
<1>2. e \in V /\ e.type = "index" /\ e.object = v.object
  BY <1>1 DEF Element
<1>3. heap[e.object].kind # "free"
  BY <1>1, <1>2 DEF Live, Counts
<1> HIDE DEF e
<1>4. Counted(Ref(heap, e), V, Plus(c, <<e>>)) /\ Grows(heap, Ref(heap, e))
  BY <1>2, <1>3, RefKeeps
<1> QED BY <1>1, <1>2, <1>4, EvaluatedPlain

LEMMA DereferenceKeeps ==
  ASSUME NEW V, ValueSet(V), NEW h, NEW c \in [Objects -> Nat], Counted(h, V, c),
         NEW v \in V, Live(h, v),
         v.type = "reference" => Value(v.place) \in V /\ Live(h, Value(v.place)),
         Dereference(h, v).fault = "ok"
  PROVE  Evaluated(V, h, c, Dereference(h, v))
<1>1. CASE v.type = "reference"
  <2> DEFINE w == Value(v.place)
             k == Clone(h, w)
  <2>1. w \in V /\ Live(h, w)
    BY <1>1
  <2>2. k.fits /\ Dereference(h, v) = Result(k.heap, k.value, <<>>)
    BY <1>1 DEF Dereference, Fault, Result
  <2> HIDE DEF w
  <2>3. CloneOK(V, h, c, w, k)
    BY <2>1, <2>2, CloneKeeps
  <2>4. Counted(k.heap, V, Plus(c, <<k.value>>)) /\ Grows(h, k.heap) /\ k.value \in V
    BY <2>3 DEF CloneOK
  <2> HIDE DEF k
  <2> QED BY <2>2, <2>4, EvaluatedPlain
<1> DEFINE views == <<v>>
<1>2. views \in Seq(V)
  OBVIOUS
<1>3. ASSUME v.type = "index"
      PROVE  /\ Counts(v) /\ v.object \in Objects
             /\ Counted(Ref(h, v), V, Plus(c, views)) /\ Grows(h, Ref(h, v))
             /\ Plus(c, views) \in [Objects -> Nat]
  <2>1. Counts(v) /\ v.object \in Objects /\ h[v.object].kind # "free"
    BY <1>3 DEF Counts, ValueSet, Live
  <2>2. Counted(Ref(h, v), V, Plus(c, <<v>>)) /\ Grows(h, Ref(h, v))
    BY <2>1, RefKeeps
  <2>3. Plus(c, views) \in [Objects -> Nat]
    <3> HIDE DEF views
    <3> QED BY <1>2, PlusType
  <2> QED BY <2>1, <2>2, <2>3
<1>4. CASE v.type = "index" /\ h[v.object].kind = "bytes"
  <2>1. Dereference(h, v) = Result(Ref(h, v), Integer, views)
    BY <1>4 DEF Dereference
  <2>2. Integer \in V /\ ~Counts(Integer)
    BY DEF ValueSet, Counts, Integer
  <2> DEFINE d == Plus(c, views)
             t == Result(Ref(h, v), Integer, views)
  <2>3. d \in [Objects -> Nat] /\ Counted(Ref(h, v), V, d) /\ Grows(h, Ref(h, v))
    BY <1>3, <1>4
  <2>4. t.heap = Ref(h, v) /\ t.value = Integer /\ t.lost = views
    BY DEF Result
  <2> HIDE DEF d, views, t
  <2>5. Plus(d, <<Integer>>) = d
    BY <2>2, <2>3, PlusNone
  <2>6. Evaluated(V, h, c, t)
    BY <1>2, <2>2, <2>3, <2>4, <2>5 DEF Evaluated, d
  <2> QED BY <2>1, <2>6 DEF t
<1>5. CASE v.type = "index" /\ h[v.object].kind # "bytes" /\ v.at \in DOMAIN h[v.object].elems
  <2> DEFINE e == h[v.object].elems[v.at]
             g == Ref(h, v)
             t == Result(Ref(g, e), e, views)
  <2>1. Dereference(h, v) = t
    BY <1>5 DEF Dereference
  <2> DEFINE d == Plus(c, views)
  <2>2. /\ d \in [Objects -> Nat] /\ Counted(g, V, d) /\ Grows(h, g) /\ v.object \in Objects
    BY <1>3, <1>5
  <2> HIDE DEF g, t, d
  <2>3. e \in V
    <3>1. h[v.object].elems \in Seq(V)
      BY <2>2, CellType, SMTT(30) DEF Counted
    <3> QED BY <1>5, <3>1
  <2>4. Counts(e) => h[e.object].kind # "free"
    <3> SUFFICES ASSUME Counts(e) PROVE h[e.object].kind # "free"
      OBVIOUS
    <3>1. e.object \in Objects
      BY <2>3 DEF ValueSet
    <3>2. Holds(e, e.object)
      BY SMTT(30) DEF Holds
    <3>3. \E p \in Objects : \E j \in DOMAIN h[p].elems : Holds(h[p].elems[j], e.object)
      BY <1>5, <2>2, <3>2, SMTT(30)
    <3> HIDE DEF e
    <3>4. Counted(h, V, c)
      BY <1>2
    <3> QED BY ONLY <3>1, <3>3, <3>4, UsedAlive
  <2> HIDE DEF e
  <2>5. Counts(e) => g[e.object].kind # "free"
    BY <2>2, <2>3, <2>4, SMTT(30) DEF Grows, ValueSet
  <2>6. t.heap = Ref(g, e) /\ t.value = e /\ t.lost = views
    BY DEF Result, t
  <2> HIDE DEF e, views
  <2>7. Counted(Ref(g, e), V, Plus(d, <<e>>)) /\ Grows(g, Ref(g, e))
    BY <2>2, <2>3, <2>5, RefKeeps
  <2>8. Grows(h, Ref(g, e))
    BY <2>2, <2>7, GrowsTrans
  <2>9. Evaluated(V, h, c, t)
    BY <1>2, <2>3, <2>6, <2>7, <2>8 DEF Evaluated, d
  <2> QED BY <2>1, <2>9, SMTT(30)
<1>6. \/ v.type = "reference"
      \/ v.type = "index" /\ h[v.object].kind = "bytes"
      \/ v.type = "index" /\ h[v.object].kind # "bytes" /\ v.at \in DOMAIN h[v.object].elems
  <2> DEFINE why == IF v.type \in {"index", "dangling"} THEN "wild" ELSE "types"
  <2>1. \A x : Fault(x).fault = x
    BY DEF Fault, Result
  <2>2. why # "ok"
    BY SMTT(30)
  <2> DEFINE bytes == h[v.object].kind = "bytes"
             inside == v.at \in DOMAIN h[v.object].elems
  <2>3. ASSUME v.type # "reference", ~(v.type = "index" /\ bytes), ~(v.type = "index" /\ inside)
        PROVE  Dereference(h, v) = Fault(why)
    BY <2>3 DEF Dereference
  <2> HIDE DEF why
  <2>4. v.type = "reference" \/ (v.type = "index" /\ bytes) \/ (v.type = "index" /\ inside)
    BY <2>1, <2>2, <2>3
  <2> QED BY <2>4
<1> QED BY <1>1, <1>4, <1>5, <1>6

LEMMA PlacesType ==
  ASSUME Active, NEW p \in Places
  PROVE  p \in Everywhere(Depth)
<1>1. Depth \in Nat /\ Depth > 0
  BY ActiveState
<1>2. Depth \in 1..Depth
  BY <1>1
<1> QED BY <1>2 DEF Places, Everywhere

LEMMA TermsType ==
  ASSUME Active, NEW term \in Terms
  PROVE  /\ term.op \in {"operand", "bytes", "package", "variable", "reference", "dereference",
                         "index", "element"}
         /\ term.op = "package" => term.kinds \in Seq(Kinds)
         /\ term.op \in {"variable", "reference", "dereference", "index", "element"} =>
              term.place \in Everywhere(Depth)
         /\ term.op \in {"index", "element"} => term.at \in Positions
<1>1. CASE term \in {Term("operand", Nowhere, 0), Term("bytes", Nowhere, 0)}
  BY <1>1 DEF Term
<1>2. CASE term \in {[op |-> "package", kinds |-> kinds] : kinds \in Contents}
  BY <1>2, ContentsAssumption
<1>3. CASE term \in {Term(op, p, 0) : op \in {"variable", "reference", "dereference"}, p \in Places}
  <2>1. PICK op \in {"variable", "reference", "dereference"}, p \in Places : term = Term(op, p, 0)
    BY <1>3
  <2>2. term.op = op /\ term.place = p
    BY <2>1 DEF Term
  <2> QED BY <2>2, PlacesType
<1>4. CASE term \in {Term(op, p, i) : op \in {"index", "element"}, p \in Places, i \in Positions}
  <2>1. PICK op \in {"index", "element"}, p \in Places, i \in Positions : term = Term(op, p, i)
    BY <1>4
  <2>2. term.op = op /\ term.place = p /\ term.at = i
    BY <2>1 DEF Term
  <2> QED BY <2>2, PlacesType
<1> QED BY <1>1, <1>2, <1>3, <1>4 DEF Terms

\* A literal has room for the objects it creates.
LEMMA LiteralKeeps ==
  ASSUME NEW V, ValueSet(V), NEW c \in [Objects -> Nat], Counted(heap, V, c),
         NEW term, term.op = "package" => term.kinds \in Seq(Kinds),
         term.op \in {"bytes", "package"}, Creates(term) <= Cardinality(Unused(heap))
  PROVE  Evaluated(V, heap, c, Operand(term))
<1>1. Cardinality(Unused(heap)) \in Nat
  BY UnusedFinite
<1>2. CASE term.op = "bytes"
  <2>1. Creates(term) = 1
    BY <1>2 DEF Creates
  <2>2. Unused(heap) # {}
    BY <1>1, <2>1, UnusedFinite
  <2> DEFINE x == Fresh(heap)
             v == Whole(x)
             g == Create(heap, "bytes", <<>>)
  <2>3. v \in V /\ Counted(g, V, Plus(c, <<v>>)) /\ Grows(heap, g)
    BY <2>2, CreateBytesKeeps
  <2>4. Operand(term) = Result(g, v, <<>>)
    BY <1>2 DEF Operand
  <2> HIDE DEF v, g
  <2> QED BY <2>3, <2>4, EvaluatedPlain
<1>3. CASE term.op = "package"
  <2> DEFINE kinds == term.kinds
             bytes == Cardinality({i \in DOMAIN kinds : kinds[i] = "bytes"})
             b == Initialized(heap, kinds)
  <2>1. kinds \in Seq(Kinds)
    BY <1>3
  <2>2. Creates(term) = 1 + bytes
    BY <1>3 DEF Creates
  <2>3. bytes = BytesIn(kinds, Len(kinds))
    <3>1. DOMAIN kinds = 1..Len(kinds)
      BY <2>1
    <3> QED BY <3>1 DEF BytesIn
  <2>4. bytes \in Nat
    <3>1. IsFiniteSet(DOMAIN kinds)
      BY <2>1, SeqFinite
    <3>2. IsFiniteSet({i \in DOMAIN kinds : kinds[i] = "bytes"})
      BY <3>1, FS_Subset
    <3> QED BY <3>2, FS_CardinalityType
  <2>5. Operand(term) = Result(Create(b.heap, "package", b.elems), Whole(Fresh(b.heap)), <<>>)
    BY <1>3 DEF Operand
  <2> HIDE DEF kinds, bytes, b
  <2>6. BytesIn(kinds, Len(kinds)) < Cardinality(Unused(heap))
    BY <1>1, <2>2, <2>3, <2>4
  <2>7. /\ b.elems \in Seq(V) /\ Counted(b.heap, V, Plus(c, b.elems)) /\ Grows(heap, b.heap)
        /\ Unused(b.heap) # {}
    BY <2>1, <2>6, InitializedKeeps DEF b
  <2> DEFINE kind == "package"
             v == Whole(Fresh(b.heap))
             g == Create(b.heap, kind, b.elems)
  <2>8. kind \in {"bytes", "package"} /\ kind # "bytes"
    OBVIOUS
  <2> HIDE DEF kind
  <2>9. v \in V /\ Counted(g, V, Plus(c, <<v>>)) /\ Grows(b.heap, g)
    BY <2>7, <2>8, CreateKeeps
  <2>10. Operand(term) = Result(g, v, <<>>)
    BY <2>5 DEF kind
  <2> HIDE DEF v, g
  <2>11. Grows(heap, g)
    BY <2>7, <2>9, GrowsTrans
  <2> QED BY <2>9, <2>10, <2>11, EvaluatedPlain
<1> QED BY <1>2, <1>3

\* The other terms but operands, of a state with counts c.
LEMMA ViewKeeps ==
  ASSUME Active, NEW term \in Terms, term.op \notin {"operand", "bytes", "package"},
         Operand(term).fault = "ok"
  PROVE  Evaluated(Alive(Depth), heap, Plus(Base, Top.ops), Operand(term))
<1> DEFINE V == Alive(Depth)
           c == Plus(Base, Top.ops)
           p == term.place
           v == Value(p)
           i == term.at
<1>1. /\ Depth \in Nat /\ ValueSet(V) /\ Counted(heap, V, c) /\ Top.ops \in Seq(V)
  BY ActiveState
<1>2. c \in [Objects -> Nat]
  BY <1>1 DEF Counted
<1>3. /\ term.op \in {"variable", "reference", "dereference", "index", "element"}
      /\ p \in Everywhere(Depth)
      /\ term.op \in {"index", "element"} => i \in Positions
  BY TermsType
<1>4. v \in V /\ Live(heap, v)
  BY <1>3, ValueAlive
<1>5. v.type = "reference" => Value(v.place) \in V /\ Live(heap, Value(v.place))
  <2>1. \A w \in V : w.type = "reference" => w.place \in Everywhere(Depth)
    BY <1>1, AliveValues
  <2> QED BY <1>4, <2>1, ValueAlive
<1>6. term.op \in {"index", "element"} => (v.type = "object" => Element(v.object, i) \in V)
  BY <1>1, <1>3, <1>4, AliveValues DEF ValueSet, Counts
<1> HIDE DEF c, v
<1>7. CASE term.op = "variable"
  <2>1. Operand(term) = Result(Ref(heap, v), v, <<>>)
    BY <1>7 DEF Operand, v
  <2>2. Counted(Ref(heap, v), V, Plus(c, <<v>>)) /\ Grows(heap, Ref(heap, v))
    BY <1>1, <1>4, RefKeeps DEF Live
  <2> QED BY <1>2, <1>4, <2>1, <2>2, EvaluatedPlain DEF c
<1>8. CASE term.op = "reference"
  <2> DEFINE r == Reference(p)
  <2>1. Operand(term) = Result(heap, r, <<>>)
    BY <1>8 DEF Operand
  <2>2. r \in V /\ ~Counts(r)
    BY <1>1, <1>3, AliveValues DEF Reference, Counts
  <2> HIDE DEF r
  <2>3. Plus(c, <<r>>) = c
    BY <1>2, <2>2, PlusNone
  <2>4. Grows(heap, heap)
    BY DEF Grows
  <2>5. Counted(heap, V, Plus(c, <<r>>))
    BY <1>1, <2>3 DEF c
  <2> QED BY <1>2, <2>1, <2>2, <2>4, <2>5, EvaluatedPlain DEF c
<1>9. CASE term.op = "dereference"
  <2>1. Operand(term) = Dereference(heap, v)
    BY <1>9 DEF Operand, v
  <2>2. Evaluated(V, heap, c, Dereference(heap, v))
    BY <1>1, <1>2, <1>4, <1>5, <2>1, DereferenceKeeps DEF c
  <2> QED BY <2>1, <2>2 DEF c
<1>10. CASE term.op = "index"
  <2>1. Operand(term) = IndexOf(v, i)
    BY <1>10 DEF Operand, v
  <2>2. Evaluated(V, heap, c, IndexOf(v, i))
    BY <1>1, <1>2, <1>4, <1>6, <1>10, <2>1, IndexOfKeeps DEF c
  <2> QED BY <2>1, <2>2 DEF c
<1>11. CASE term.op = "element"
  <2> DEFINE e == Element(v.object, i)
  <2>1. Operand(term) = IF IndexOf(v, i).fault # "ok" THEN IndexOf(v, i)
                        ELSE Dereference(heap, IndexOf(v, i).value)
    BY <1>11 DEF Operand, v
  <2>2. IndexOf(v, i).fault = "ok"
    BY <2>1
  <2>3. v.type = "object" /\ IndexOf(v, i).value = e
    BY <2>2 DEF IndexOf, Fault, Result
  <2>4. e \in V /\ e.type = "index" /\ e.object = v.object
    BY <1>6, <1>11, <2>3 DEF Element
  <2>5. Live(heap, e)
    BY <1>4, <2>3, <2>4 DEF Live, Counts
  <2> HIDE DEF e
  <2>6. Dereference(heap, e).fault = "ok"
    BY <2>1, <2>2, <2>3
  <2>7. Evaluated(V, heap, c, Dereference(heap, e))
    BY <1>1, <1>2, <2>4, <2>5, <2>6, DereferenceKeeps DEF c
  <2> QED BY <2>1, <2>2, <2>3, <2>7 DEF c
<1> QED BY <1>3, <1>7, <1>8, <1>9, <1>10, <1>11, SMTT(30)

\* The evaluation of any term.
LEMMA OperandKeeps ==
  ASSUME Active, NEW term \in Terms, May(term), Operand(term).fault = "ok"
  PROVE  LET s == Operand(term)
         IN  /\ Ready(s.heap, Pending(term), <<s.value>>, s.lost) /\ Grows(heap, s.heap)
             /\ s.value \in Alive(Depth)
<1> DEFINE V == Alive(Depth)
           c == Plus(Base, Top.ops)
           s == Operand(term)
<1>1. /\ ValueSet(V) /\ Counted(heap, V, c) /\ Top.ops \in Seq(V) /\ Base \in [Objects -> Nat]
  BY ActiveState
<1>2. c \in [Objects -> Nat]
  BY <1>1 DEF Counted
<1>3. CASE term.op # "operand"
  <2>1. Evaluated(V, heap, c, s)
    <3>1. CASE term.op \in {"bytes", "package"}
      <4>1. /\ term.op = "package" => term.kinds \in Seq(Kinds)
            /\ Creates(term) <= Cardinality(Unused(heap))
        BY TermsType DEF May
      <4> HIDE DEF c
      <4> QED BY <1>1, <1>2, <3>1, <4>1, LiteralKeeps DEF c
    <3>2. CASE term.op \notin {"bytes", "package"}
      BY <1>3, <3>2, ViewKeeps
    <3> QED BY <3>1, <3>2
  <2>2. Pending(term) = Top.ops
    BY <1>3 DEF Pending
  <2> HIDE DEF s
  <2>3. /\ s.lost \in Seq(V) /\ s.value \in V /\ Grows(heap, s.heap)
        /\ Counted(s.heap, V, Plus(Plus(c, s.lost), <<s.value>>))
    BY <2>1 DEF Evaluated
  <2>4. <<s.value>> \in Seq(V)
    BY <2>3
  <2> QED BY <1>1, <2>2, <2>3, <2>4 DEF Ready, s
<1>4. CASE term.op = "operand"
  <2> DEFINE ops == Top.ops
             rest == Rest
             v == Last
             none == <<>>
  <2>1. s = Result(heap, v, none) /\ Pending(term) = rest /\ ops # <<>>
    BY <1>4 DEF Operand, Pending, May
  <2>2. ops \in Seq(V) /\ rest = SubSeq(ops, 1, Len(ops) - 1) /\ v = ops[Len(ops)]
    BY <1>1 DEF Rest, Last
  <2>3. none \in Seq(V)
    OBVIOUS
  <2>4. s.heap = heap /\ s.value = v /\ s.lost = none
    BY <2>1 DEF Result
  <2> HIDE DEF s, ops, rest, v, none
  <2>5. rest \in Seq(V) /\ v \in V /\ \A o : Uses(ops, o) = Uses(rest, o) + One(v, o)
    BY <2>1, <2>2, UsesFront
  <2> DEFINE views == <<v>>
  <2>6. views \in Seq(V) /\ \A o : Uses(views, o) = One(v, o)
    BY <2>5, UsesOne
  <2>7. Ready(heap, ops, none, none)
    <3>1. Plus(c, none) = c
      <4> HIDE DEF c
      <4> QED BY <1>2, PlusNothing DEF none
    <3>2. Counted(heap, V, Plus(Plus(Plus(Base, ops), none), none))
      BY <1>1, <3>1 DEF ops
    <3> QED BY <2>2, <2>3, <3>2 DEF Ready
  <2> HIDE DEF views
  <2>8. \A o \in Objects : Uses(rest, o) + Uses(none, o) + Uses(views, o)
                             = Uses(ops, o) + Uses(none, o) + Uses(none, o)
    <3> SUFFICES ASSUME NEW o \in Objects
                 PROVE  Uses(rest, o) + Uses(none, o) + Uses(views, o)
                          = Uses(ops, o) + Uses(none, o) + Uses(none, o)
      OBVIOUS
    <3>1. Uses(none, o) = 0
      BY UsesNone DEF none
    <3>2. Uses(ops, o) = Uses(rest, o) + One(v, o) /\ Uses(views, o) = One(v, o)
      BY <2>5, <2>6
    <3>3. Uses(rest, o) \in Nat /\ One(v, o) \in Nat
      BY <2>5, UsesOfSeq DEF One
    <3> QED BY <3>1, <3>2, <3>3
  <2>9. Ready(heap, rest, views, none)
    BY <2>3, <2>5, <2>6, <2>7, <2>8, ReadyMoved, SMTT(30)
  <2>10. Grows(heap, heap)
    BY DEF Grows
  <2> QED BY <2>1, <2>4, <2>5, <2>9, <2>10 DEF s, views
<1> QED BY <1>3, <1>4

(***************************************************************************)
(* The inductive invariant.                                                *)
(***************************************************************************)

LEMMA LoseBound ==
  ASSUME LostOK, NEW V, NEW vs \in Seq(V), Lose(vs)
  PROVE  LostOK'
<1>1. lost \in [Objects -> Nat]
  BY BoundsAssumption DEF LostOK
<1>2. IsFiniteSet(DOMAIN vs)
  BY SeqFinite
<1> DEFINE L == UNION {{o} \X (1..lost[o]) : o \in Objects}
           C == {i \in DOMAIN vs : Counts(vs[i])}
           S == [o \in Objects |-> 1..lost[o]]
<1>3. /\ IsFiniteSet(L) /\ Cardinality(L) \in Nat
      /\ \A o \in Objects : lost[o] <= Cardinality(L)
  <2>1. L = Table(S)
    BY DEF Table
  <2>2. \A o \in Objects : IsFiniteSet(1..lost[o]) /\ Cardinality(1..lost[o]) = lost[o]
    <3> SUFFICES ASSUME NEW o \in Objects
                 PROVE  IsFiniteSet(1..lost[o]) /\ Cardinality(1..lost[o]) = lost[o]
      OBVIOUS
    <3> DEFINE n == lost[o]
    <3>1. n \in Nat
      BY <1>1
    <3> HIDE DEF n
    <3>2. n \in Int /\ 1 \in Int
      BY <3>1
    <3>3. IsFiniteSet(1..n) /\ Cardinality(1..n) = IF 1 > n THEN 0 ELSE n - 1 + 1
      BY ONLY <3>2, FS_Interval
    <3>4. Cardinality(1..n) = n
      BY <3>1, <3>3
    <3> QED BY <3>3, <3>4 DEF n
  <2>3. DOMAIN S = Objects /\ IsFiniteSet(DOMAIN S) /\ \A r \in DOMAIN S : IsFiniteSet(S[r])
    BY <2>2, ObjectsAssumption
  <2>4. \A o \in Objects : S[o] = 1..lost[o]
    OBVIOUS
  <2> HIDE DEF S, L
  <2>5. IsFiniteSet(L) /\ Cardinality(L) \in Nat
    BY <2>1, <2>3, TableFinite
  <2>6. ASSUME NEW o \in Objects PROVE lost[o] <= Cardinality(L)
    <3> DEFINE others == [x \in DOMAIN S \ {o} |-> S[x]]
    <3>1. /\ Cardinality(Table(others)) \in Nat /\ Cardinality(S[o]) \in Nat
          /\ Cardinality(Table(S)) = Cardinality(Table(others)) + Cardinality(S[o])
      BY <2>3, TableSplit
    <3>2. Cardinality(S[o]) = lost[o]
      BY <2>2, <2>4
    <3> HIDE DEF others
    <3> QED BY <2>1, <3>1, <3>2
  <2> QED BY <2>5, <2>6
<1>4. /\ Cardinality(C) \in Nat
      /\ \A o \in Objects : Uses(vs, o) \in Nat /\ Uses(vs, o) <= Cardinality(C)
  <2>1. IsFiniteSet(C) /\ Cardinality(C) \in Nat
    BY <1>2, FS_Subset, FS_CardinalityType
  <2>2. ASSUME NEW o \in Objects PROVE Uses(vs, o) \in Nat /\ Uses(vs, o) <= Cardinality(C)
    <3>1. Users(vs, o) \subseteq C
      BY DEF Users, Holds
    <3>2. Uses(vs, o) = Cardinality(Users(vs, o)) /\ Uses(vs, o) \in Nat
      BY <1>2, UsesType
    <3> HIDE DEF C
    <3>3. Cardinality(Users(vs, o)) <= Cardinality(C)
      BY <2>1, <3>1, FS_Subset
    <3> QED BY <3>2, <3>3
  <2> QED BY <2>1, <2>2
<1>5. /\ Cardinality(L) + Cardinality(C) <= MaxLost
      /\ lost' = [o \in Objects |-> lost[o] + Uses(vs, o)]
  BY DEF Lose
<1> HIDE DEF L, C
<1>6. \A o \in Objects : lost[o] + Uses(vs, o) \in 0..MaxLost
  <2> SUFFICES ASSUME NEW o \in Objects PROVE lost[o] + Uses(vs, o) \in 0..MaxLost
    OBVIOUS
  <2>1. /\ lost[o] \in Nat /\ Uses(vs, o) \in Nat /\ lost[o] <= Cardinality(L)
        /\ Uses(vs, o) <= Cardinality(C) /\ MaxLost \in Nat
    BY <1>1, <1>3, <1>4, BoundsAssumption
  <2>2. Cardinality(L) \in Nat /\ Cardinality(C) \in Nat
    BY <1>3, <1>4
  <2> QED BY ONLY <1>5, <2>1, <2>2, SMTT(30)
<1> QED BY <1>5, <1>6 DEF LostOK

\* Put keeps the buffer fields, and the pending operands of the callers.
LEMMA PutFrames ==
  ASSUME Active, FramesOK(frames), NEW q, NEW v \in Alive(Depth),
         NEW ops \in Seq(Alive(Depth)), Len(ops) <= MaxOps, Put(q, v, ops)
  PROVE  FramesOK(frames')
<1> DEFINE V == Alive(Depth)
           new(k) == [frames[k] EXCEPT !.local = IF q = <<"local", k>> THEN v ELSE @,
                                       !.arg = IF q = <<"arg", k>> THEN v ELSE @,
                                       !.ops = IF k = Depth THEN ops ELSE @]
<1>1. frames \in Seq(FrameOf(V)) /\ frames # <<>>
  BY ActiveState DEF Active, StateOf
<1>2. DOMAIN frames = 1..Len(frames) /\ Len(frames) \in Nat
  BY <1>1
<1>3. frames' = [k \in 1..Len(frames) |-> new(k)]
  BY <1>2 DEF Put
<1>4. \A k \in 1..Len(frames) :
        /\ new(k).fields = frames[k].fields
        /\ new(k).ops = IF k = Len(frames) THEN ops ELSE frames[k].ops
  <2> SUFFICES ASSUME NEW k \in 1..Len(frames)
               PROVE  /\ new(k).fields = frames[k].fields
                      /\ new(k).ops = IF k = Len(frames) THEN ops ELSE frames[k].ops
    OBVIOUS
  <2>1. frames[k] \in FrameOf(V)
    BY <1>1
  <2> QED BY <2>1 DEF FrameOf, Depth
<1> HIDE DEF new
<1>5. Len(frames') = Len(frames)
  BY <1>2, <1>3
<1> QED BY <1>3, <1>4, <1>5, SMTT(30) DEF FramesOK

LEMMA TameKeeps ==
  ASSUME Active, FramesOK(frames), LostOK,
         NEW ops \in Seq(Alive(Depth)), Len(ops) <= MaxOps, Tame(ops)
  PROVE  FramesOK(frames') /\ LostOK' /\ status' \in Statuses
<1>1. FramesOK(frames')
  BY PutFrames DEF Tame
<1>2. LostOK'
  <2>1. CASE lost' = lost
    BY <2>1 DEF LostOK
  <2>2. CASE \E vs \in Seq(Alive(Depth)) : Lose(vs)
    BY <2>2, LoseBound
  <2> QED BY <2>1, <2>2 DEF Tame
<1> QED BY <1>1, <1>2 DEF Tame

LEMMA PanicTame ==
  ASSUME NEW why \in Statuses, Panic(why)
  PROVE  \A ops : Tame(ops)
BY DEF Panic, Tame

LEMMA ReplaceTame ==
  ASSUME status \in Statuses, NEW h, NEW q, NEW r \in Alive(Depth), NEW ops, NEW gone,
         NEW forgot \in Seq(Alive(Depth)), Replace(h, q, r, ops, gone, forgot)
  PROVE  Tame(ops)
BY DEF Replace, Tame

LEMMA MutateTame ==
  ASSUME Active, status \in Statuses, NEW h, NEW q, NEW r, NEW ops, NEW gone, NEW forgot,
         Storing(h, r, ops, gone, forgot), Mutate(h, q, r, ops, gone, forgot)
  PROVE  Tame(ops)
<1>1. /\ r \in Alive(Depth) /\ None \in Alive(Depth) /\ forgot \in Seq(Alive(Depth))
      /\ Depth \in Nat /\ ValueSet(Alive(Depth)) /\ h \in HeapOf(Alive(Depth))
  BY ActiveState DEF Storing, Ready, Counted, ValueSet
<1>2. CASE Replace(h, q, r, ops, gone, forgot)
  BY <1>1, <1>2, ReplaceTame
<1>3. CASE Replace(h, Nowhere, None, ops, gone, forgot)
  BY <1>1, <1>3, ReplaceTame
<1>4. CASE /\ TypeOf(h, r) = "package" /\ Put(Nowhere, None, ops) /\ UNCHANGED status
           /\ Lose(forgot \o ElementsOf(h, r.object))
  <2>1. r.type = "object"
    <3>1. r.type # "package"
      BY <1>1, AliveValues
    <3> QED BY <1>4, <3>1 DEF TypeOf
  <2>2. r.object \in Objects
    BY <1>1, <2>1 DEF ValueSet, Counts
  <2>3. ElementsOf(h, r.object) \in Seq(Alive(Depth))
    BY <1>1, <2>2, ElementsOfType
  <2> DEFINE all == forgot \o ElementsOf(h, r.object)
  <2>4. all \in Seq(Alive(Depth)) /\ Lose(all)
    BY <1>1, <1>4, <2>3
  <2> HIDE DEF all
  <2> QED BY <1>1, <1>4, <2>4 DEF Tame
<1>5. CASE Panic("types")
  BY <1>5, PanicTame DEF Statuses
<1> QED BY <1>2, <1>3, <1>4, <1>5, SMTT(30) DEF Mutate

LEMMA OperandTame ==
  ASSUME Active, status \in Statuses, NEW h, NEW p, NEW r, NEW ops, NEW gone, NEW forgot,
         Storing(h, r, ops, gone, forgot),
         MutateOperand(h, p, r, ops, gone, forgot) \/ EmplaceOperand(h, p, r, ops, gone, forgot)
  PROVE  Tame(ops)
<1>1. r \in Alive(Depth) /\ forgot \in Seq(Alive(Depth))
  BY DEF Storing, Ready
<1>2. CASE Panic("wild")
  BY <1>2, PanicTame DEF Statuses
<1>3. CASE \E q : Replace(h, q, r, ops, gone, forgot)
  BY <1>1, <1>3, ReplaceTame
<1>4. CASE Mutate(h, p, r, ops, gone, forgot)
  BY <1>4, MutateTame
<1> QED BY <1>2, <1>3, <1>4 DEF MutateOperand, EmplaceOperand

LEMMA RunningActive ==
  ASSUME IInv, Running
  PROVE  /\ Active /\ FramesOK(frames) /\ LostOK /\ status \in Statuses
         /\ Len(Top.ops) <= MaxOps /\ Len(Top.ops) \in Nat /\ MaxOps \in Nat
<1>1. Active
  BY DEF IInv, Running, Active
<1>2. Depth \in Nat /\ Depth > 0 /\ Top.ops \in Seq(Alive(Depth))
  BY <1>1, ActiveState
<1>3. FramesOK(frames)
  BY DEF IInv
<1>4. Len(Top.ops) <= MaxOps
  BY <1>2, <1>3 DEF FramesOK, Depth, Top
<1> QED BY <1>1, <1>2, <1>3, <1>4, BoundsAssumption DEF IInv

\* The faults of an evaluation that stops the machine.
LEMMA FaultType ==
  ASSUME Active, NEW term \in Terms, May(term)
  PROVE  Operand(term).fault \in Statuses
<1>1. /\ \A x : Fault(x).fault = x
      /\ \A h, v, gone : Result(h, v, gone).fault = "ok"
  BY DEF Fault, Result
<1>2. \A v, i : IndexOf(v, i).fault \in Statuses
  BY <1>1 DEF IndexOf, Statuses
<1>3. \A h, v : Dereference(h, v).fault \in Statuses \cup {"room"}
  <2> SUFFICES ASSUME NEW h, NEW v
               PROVE  Dereference(h, v).fault \in Statuses \cup {"room"}
    OBVIOUS
  <2> DEFINE c == Clone(h, Value(v.place))
             e == h[v.object].elems[v.at]
             why == IF v.type \in {"index", "dangling"} THEN "wild" ELSE "types"
  <2>1. Dereference(h, v) \in {Result(c.heap, c.value, <<>>), Fault("room"),
                               Result(Ref(h, v), Integer, <<v>>),
                               Result(Ref(Ref(h, v), e), e, <<v>>), Fault(why)}
    BY DEF Dereference
  <2>2. why \in Statuses /\ "ok" \in Statuses
    BY DEF Statuses
  <2> HIDE DEF c, e, why
  <2> QED BY <1>1, <2>1, <2>2
<1>4. Operand(term).fault # "room"
  BY DEF May
<1>5. term.op \in {"operand", "bytes", "package", "variable", "reference", "dereference",
                   "index", "element"}
  BY TermsType
<1>6. "ok" \in Statuses
  BY DEF Statuses
<1>7. CASE term.op \in {"operand", "bytes", "package", "variable", "reference"}
  <2>1. \E h, v, gone : Operand(term) = Result(h, v, gone)
    BY <1>7 DEF Operand
  <2> QED BY <1>1, <1>6, <2>1
<1>8. CASE term.op = "dereference"
  <2>1. Operand(term) = Dereference(heap, Value(term.place))
    BY <1>8 DEF Operand
  <2> QED BY <1>3, <1>4, <2>1
<1>9. CASE term.op \in {"index", "element"}
  <2> DEFINE ix == IndexOf(Value(term.place), term.at)
  <2>1. Operand(term) \in {ix, Dereference(heap, ix.value)}
    BY <1>9 DEF Operand
  <2> HIDE DEF ix
  <2>2. ix.fault \in Statuses
    BY <1>2 DEF ix
  <2> QED BY <1>3, <1>4, <2>1, <2>2, SMTT(30)
<1> QED BY <1>5, <1>7, <1>8, <1>9

LEMMA PanicGood ==
  ASSUME IInv, Running, NEW why \in Statuses, Panic(why)
  PROVE  Good /\ Stable
<1>1. HeapOK' /\ Stable
  BY RunningActive, PanicKeeps
<1>2. frames' = frames /\ lost' = lost /\ status' \in Statuses
  BY DEF Panic
<1> QED BY <1>1, <1>2 DEF Good, IInv, LostOK

\* lai_obj_clone() of an operand that is dropped afterwards.
LEMMA CloneReady ==
  ASSUME Active, NEW h, NEW ops, NEW v, NEW forgot, Ready(h, ops, <<v>>, forgot),
         v \in Alive(Depth), Grows(heap, h), Clone(h, v).fits
  PROVE  LET c == Clone(h, v)
         IN  /\ Ready(c.heap, ops, <<v, c.value>>, forgot) /\ Grows(heap, c.heap)
             /\ c.value \in Alive(Depth)
             /\ c.value.type = "object" =>
                  c.value.object \in Objects /\ heap[c.value.object].kind = "free"
<1> DEFINE V == Alive(Depth)
           c == Clone(h, v)
           w == c.value
           g == c.heap
           gone == <<v>>
           t == Plus(Plus(Base, ops), forgot)
           d == Plus(t, gone)
<1>1. /\ ops \in Seq(V) /\ forgot \in Seq(V) /\ gone \in Seq(V) /\ v \in V
      /\ Counted(h, V, d) /\ ValueSet(V)
  BY ActiveState DEF Ready
<1>2. d \in [Objects -> Nat]
  BY <1>1 DEF Counted
<1>3. t \in [Objects -> Nat]
  <2> HIDE DEF gone
  <2> QED BY <1>1, TotalAt
<1>4. Live(h, v)
  <2> SUFFICES ASSUME Counts(v) PROVE h[v.object].kind # "free"
    BY DEF Live
  <2>1. v.object \in Objects
    BY <1>1 DEF ValueSet
  <2>2. d[v.object] > 0
    <3> HIDE DEF t
    <3> QED BY <1>1, <1>3, <2>1, PlusMore
  <2> HIDE DEF d
  <2> QED BY <1>1, <2>1, <2>2, UsedAlive
<1> HIDE DEF d
<1>5. CloneOK(V, h, d, v, c)
  BY <1>1, <1>2, <1>4, CloneKeeps
<1> HIDE DEF c
<1>6. /\ Counted(g, V, Plus(d, <<w>>)) /\ Grows(h, g) /\ w \in V
      /\ IF v.type = "object"
         THEN Counts(w) /\ w.object \in Objects /\ h[w.object].kind = "free" ELSE w = v
  BY <1>5 DEF CloneOK
<1> DEFINE ws == <<w>>
           both == <<v, w>>
<1>7. ws \in Seq(V) /\ both = gone \o ws /\ both \in Seq(V)
  BY <1>1, <1>6
<1>8. Counted(g, V, Plus(t, both))
  <2>1. Plus(Plus(t, gone), ws) = Plus(t, gone \o ws)
    <3> HIDE DEF t, gone, ws
    <3> QED BY <1>1, <1>3, <1>7, PlusConcat, SMTT(30)
  <2>2. Counted(g, V, Plus(Plus(t, gone), ws))
    BY <1>6 DEF d
  <2> HIDE DEF gone, ws, both, t
  <2> QED BY <1>7, <2>1, <2>2
<1>9. Ready(g, ops, both, forgot)
  BY <1>1, <1>7, <1>8 DEF Ready
<1>10. Grows(heap, g)
  BY <1>6, GrowsTrans
<1>11. w.type = "object" => w.object \in Objects /\ heap[w.object].kind = "free"
  BY <1>6 DEF Grows
<1> QED BY <1>6, <1>9, <1>10, <1>11 DEF c

\* The result r of an operator is wanted, or not.
LEMMA ResultReady ==
  ASSUME Active, NEW h, NEW ops, NEW v, NEW r, NEW forgot, Ready(h, ops, <<v, r>>, forgot),
         v \in Alive(Depth), r \in Alive(Depth), NEW want \in BOOLEAN
  PROVE  Storing(h, r, ops \o IF want THEN <<r>> ELSE <<>>,
                 <<v>> \o IF want THEN <<>> ELSE <<r>>, forgot)
<1> DEFINE V == Alive(Depth)
           both == <<v, r>>
           vs == <<v>>
           rs == <<r>>
           none == <<>>
           more == IF want THEN rs ELSE none
           less == IF want THEN none ELSE rs
           ops2 == ops \o more
           gone2 == vs \o less
<1>1. /\ ops \in Seq(V) /\ both \in Seq(V) /\ forgot \in Seq(V)
      /\ vs \in Seq(V) /\ rs \in Seq(V) /\ none \in Seq(V) /\ both = vs \o rs
  <2>1. ops \in Seq(V) /\ forgot \in Seq(V)
    BY DEF Ready
  <2>2. v \in V /\ r \in V
    OBVIOUS
  <2> HIDE DEF V
  <2>3. vs \in Seq(V) /\ rs \in Seq(V) /\ none \in Seq(V) /\ both \in Seq(V)
    BY <2>2
  <2>4. both = vs \o rs
    <3>1. vs \o rs \in Seq(V) /\ Len(vs \o rs) = 2
      BY <2>3
    <3>2. (vs \o rs)[1] = v /\ (vs \o rs)[2] = r
      BY <2>3
    <3>3. both \in Seq(V) /\ Len(both) = 2 /\ both[1] = v /\ both[2] = r
      BY <2>3
    <3> DEFINE joined == vs \o rs
    <3>4. /\ joined \in Seq(V) /\ Len(joined) = 2 /\ joined[1] = v /\ joined[2] = r
      BY <3>1, <3>2
    <3> HIDE DEF joined, both
    <3>5. joined = both
      BY <3>3, <3>4
    <3> QED BY <3>5 DEF joined
  <2> QED BY <2>1, <2>3, <2>4
<1>2. more \in Seq(V) /\ less \in Seq(V)
  BY <1>1
<1>3. \A o : Uses(none, o) = 0 /\ Uses(rs, o) = One(r, o)
  BY UsesNone, UsesOne
<1> HIDE DEF both, vs, rs, none
<1>4. \A o : Uses(more, o) + Uses(less, o) = Uses(rs, o) /\ Uses(rs, o) \in Nat
             /\ Uses(more, o) \in Nat /\ Uses(less, o) \in Nat
  BY <1>1, <1>3, UsesOfSeq, SMTT(30)
<1> HIDE DEF more, less
<1>5. ops2 \in Seq(V) /\ gone2 \in Seq(V)
  BY <1>1, <1>2
<1>6. ASSUME NEW o \in Objects
      PROVE  Uses(ops2, o) + Uses(forgot, o) + Uses(gone2, o)
               = Uses(ops, o) + Uses(forgot, o) + Uses(both, o)
  <2>1. Uses(ops2, o) = Uses(ops, o) + Uses(more, o) /\ Uses(ops, o) \in Nat
    BY <1>1, <1>2, UsesConcat
  <2>2. Uses(gone2, o) = Uses(vs, o) + Uses(less, o) /\ Uses(vs, o) \in Nat
    BY <1>1, <1>2, UsesConcat
  <2>3. Uses(both, o) = Uses(vs, o) + Uses(rs, o)
    BY <1>1, UsesConcat
  <2>4. /\ Uses(more, o) + Uses(less, o) = Uses(rs, o) /\ Uses(rs, o) \in Nat
        /\ Uses(more, o) \in Nat /\ Uses(less, o) \in Nat
    BY <1>4
  <2>5. Uses(forgot, o) \in Nat
    BY <1>1, UsesOfSeq
  <2> DEFINE a == Uses(ops, o)
             b == Uses(more, o)
             e == Uses(less, o)
             f == Uses(forgot, o)
             g == Uses(vs, o)
             x == Uses(rs, o)
             y == Uses(ops2, o)
             z == Uses(gone2, o)
             u == Uses(both, o)
  <2>6. /\ a \in Nat /\ b \in Nat /\ e \in Nat /\ f \in Nat /\ g \in Nat /\ x \in Nat
        /\ y = a + b /\ z = g + e /\ u = g + x /\ b + e = x
    BY ONLY <2>1, <2>2, <2>3, <2>4, <2>5
  <2> HIDE DEF a, b, e, f, g, x, y, z, u
  <2>7. y + f + z = a + f + u
    BY ONLY <2>6
  <2> QED BY <2>7 DEF a, f, u, y, z
<1>7. Ready(h, ops, both, forgot)
  BY DEF both
<1> HIDE DEF ops2, gone2
<1>8. Ready(h, ops2, gone2, forgot)
  BY <1>1, <1>5, <1>6, <1>7, ReadyMoved
<1>9. ASSUME Counts(r) PROVE Total(ops2, gone2, forgot)[r.object] > 0
  <2> DEFINE o == r.object
  <2>1. o \in Objects /\ One(r, o) = 1
    <3>1. ValueSet(Alive(Depth))
      BY ActiveState
    <3>2. o \in Objects
      BY <1>9, <3>1 DEF ValueSet
    <3>3. Holds(r, o)
      BY <1>9 DEF Holds
    <3> QED BY <3>2, <3>3 DEF One
  <2> HIDE DEF o
  <2>2. /\ Base[o] \in Nat /\ Uses(ops2, o) \in Nat /\ Uses(forgot, o) \in Nat
        /\ Uses(gone2, o) \in Nat
        /\ Total(ops2, gone2, forgot)[o]
             = Base[o] + Uses(ops2, o) + Uses(forgot, o) + Uses(gone2, o)
    <3>1. ops2 \in Seq(Alive(Depth)) /\ gone2 \in Seq(Alive(Depth)) /\ forgot \in Seq(Alive(Depth))
      BY <1>1, <1>5
    <3> QED BY <2>1, <3>1, TotalAt
  <2>3. Uses(both, o) = Uses(vs, o) + Uses(rs, o) /\ Uses(vs, o) \in Nat
    BY <1>1, UsesConcat
  <2>4. Uses(rs, o) = 1
    BY <1>3, <2>1
  <2>5. Uses(ops2, o) + Uses(forgot, o) + Uses(gone2, o)
          = Uses(ops, o) + Uses(forgot, o) + Uses(both, o)
    BY <1>6, <2>1
  <2>6. Uses(ops, o) \in Nat
    BY <1>1, UsesOfSeq
  <2>7. Total(ops2, gone2, forgot)[o] > 0
    BY ONLY <2>2, <2>3, <2>4, <2>5, <2>6
  <2> QED BY <2>7 DEF o
<1>10. Storing(h, r, ops2, gone2, forgot)
  BY <1>8, <1>9 DEF Storing
<1> QED BY <1>10 DEF ops2, gone2, more, less, vs, rs, none

(***************************************************************************)
(* The operators.                                                          *)
(***************************************************************************)

LEMMA PairConcat ==
  ASSUME NEW V, NEW v \in V, NEW r \in V
  PROVE  <<v, r>> = <<v>> \o <<r>> /\ <<v, r>> \in Seq(V)
<1> DEFINE both == <<v, r>>
           joined == <<v>> \o <<r>>
<1>1. joined \in Seq(V) /\ Len(joined) = 2
  OBVIOUS
<1>2. joined[1] = v /\ joined[2] = r
  OBVIOUS
<1>3. both \in Seq(V) /\ Len(both) = 2 /\ both[1] = v /\ both[2] = r
  OBVIOUS
<1> HIDE DEF joined, both
<1>4. joined = both
  BY <1>1, <1>2, <1>3
<1> QED BY <1>3, <1>4 DEF joined, both

LEMMA ConcatLen ==
  ASSUME NEW V, NEW vs \in Seq(V), NEW ws \in Seq(V)
  PROVE  /\ vs \o ws \in Seq(V) /\ Len(vs \o ws) = Len(vs) + Len(ws)
         /\ Len(vs) \in Nat /\ Len(ws) \in Nat
OBVIOUS

LEMMA PendingType ==
  ASSUME IInv, Running, NEW term \in Terms, May(term), Operand(term).fault = "ok"
  PROVE  /\ Pending(term) \in Seq(Alive(Depth))
         /\ Len(Pending(term)) \in Nat /\ Len(Pending(term)) <= MaxOps
<1>1. Active /\ Len(Top.ops) <= MaxOps /\ Len(Top.ops) \in Nat /\ MaxOps \in Nat
  BY RunningActive
<1>2. Pending(term) \in Seq(Alive(Depth))
  <2> DEFINE s == Operand(term)
             gone == <<s.value>>
  <2>1. Ready(s.heap, Pending(term), gone, s.lost)
    BY <1>1, OperandKeeps
  <2> QED BY <2>1 DEF Ready
<1>3. Top.ops \in Seq(Alive(Depth))
  BY <1>1, ActiveState
<1>4. Len(Pending(term)) <= Len(Top.ops)
  <2>1. CASE term.op = "operand"
    <3>1. Pending(term) = SubSeq(Top.ops, 1, Len(Top.ops) - 1) /\ Top.ops # <<>>
      BY <2>1 DEF Pending, Rest, May
    <3> DEFINE ops == Top.ops
    <3>2. ops \in Seq(Alive(Depth)) /\ ops # <<>>
      BY <1>3, <3>1
    <3> HIDE DEF ops
    <3> DEFINE n == Len(ops) - 1
    <3>3. Len(ops) \in Nat /\ n \in Nat /\ n <= Len(ops)
      BY <3>2
    <3> HIDE DEF n
    <3>4. SubSeq(ops, 1, n) = [i \in 1..n |-> ops[i]]
      BY <3>2, <3>3
    <3>5. Len(SubSeq(ops, 1, n)) = n
      BY <3>3, <3>4
    <3> QED BY <3>1, <3>3, <3>5 DEF ops, n
  <2>2. CASE term.op # "operand"
    <3>1. Pending(term) = Top.ops
      BY <2>2 DEF Pending
    <3> QED BY <1>1, <3>1
  <2> QED BY <2>1, <2>2
<1>5. Len(Pending(term)) \in Nat
  BY <1>2
<1> QED BY <1>1, <1>2, <1>4, <1>5

\* The operand becomes one that is pending.
LEMMA PushReady ==
  ASSUME Active, NEW h, NEW ops, NEW v \in Alive(Depth), NEW forgot, Ready(h, ops, <<v>>, forgot)
  PROVE  Ready(h, Append(ops, v), <<>>, forgot) /\ Append(ops, v) \in Seq(Alive(Depth))
<1> DEFINE V == Alive(Depth)
           vs == <<v>>
           none == <<>>
           more == Append(ops, v)
<1>1. ops \in Seq(V) /\ forgot \in Seq(V) /\ v \in V
  BY DEF Ready
<1>2. vs \in Seq(V) /\ none \in Seq(V) /\ more \in Seq(V)
  <2> HIDE DEF V
  <2> QED BY <1>1
<1>3. \A o : Uses(none, o) = 0 /\ Uses(vs, o) = One(v, o)
  BY UsesNone, UsesOne
<1>4. \A o : Uses(more, o) = Uses(ops, o) + One(v, o)
  BY <1>1, UsesAppend
<1>5. Ready(h, ops, vs, forgot)
  OBVIOUS
<1> HIDE DEF vs, none, more
<1>6. \A o \in Objects : Uses(more, o) + Uses(forgot, o) + Uses(none, o)
                           = Uses(ops, o) + Uses(forgot, o) + Uses(vs, o)
  <2> SUFFICES ASSUME NEW o \in Objects
               PROVE  Uses(more, o) + Uses(forgot, o) + Uses(none, o)
                        = Uses(ops, o) + Uses(forgot, o) + Uses(vs, o)
    OBVIOUS
  <2>1. Uses(ops, o) \in Nat /\ Uses(forgot, o) \in Nat /\ One(v, o) \in Nat
    BY <1>1, UsesOfSeq DEF One
  <2>2. /\ Uses(none, o) = 0 /\ Uses(vs, o) = One(v, o)
        /\ Uses(more, o) = Uses(ops, o) + One(v, o)
    BY <1>3, <1>4
  <2> QED BY ONLY <2>1, <2>2
<1>7. Ready(h, more, none, forgot)
  BY <1>1, <1>2, <1>5, <1>6, ReadyMoved
<1> QED BY <1>2, <1>7 DEF more, none

LEMMA PushKeeps ==
  ASSUME IInv, Running, NEW term \in Terms, Push(term)
  PROVE  Good /\ Stable
<1> DEFINE s == Operand(term)
           ops == Pending(term)
           v == s.value
           more == Append(ops, v)
<1>1. Active /\ FramesOK(frames) /\ LostOK /\ status \in Statuses /\ May(term)
  BY RunningActive DEF Push
<1>2. CASE s.fault # "ok"
  <2>1. Panic(s.fault) /\ s.fault \in Statuses
    BY <1>1, <1>2, FaultType DEF Push
  <2> QED BY <2>1, PanicGood
<1>3. CASE s.fault = "ok"
  <2>1. /\ heap' = s.heap /\ Lose(s.lost) /\ Put(Nowhere, None, more) /\ UNCHANGED status
        /\ Len(ops) < MaxOps
    BY <1>3 DEF Push
  <2>2. Ready(s.heap, ops, <<v>>, s.lost) /\ Grows(heap, s.heap) /\ v \in Alive(Depth)
    BY <1>1, <1>3, OperandKeeps
  <2>3. Ready(s.heap, more, <<>>, s.lost) /\ more \in Seq(Alive(Depth))
    BY <1>1, <2>2, PushReady
  <2>4. None \in Alive(Depth)
    BY <1>1, ActiveState DEF ValueSet
  <2>5. s.lost \in Seq(Alive(Depth)) /\ Loses(s.lost)
    BY <2>1, <2>2 DEF Ready, Lose, Loses
  <2>6. ops \in Seq(Alive(Depth)) /\ Len(ops) \in Nat
    BY <1>1, <1>3, PendingType
  <2> HIDE DEF s
  <2>7. HeapOK'
    BY <1>1, <2>1, <2>3, <2>4, <2>5, ReadyNowhere
  <2>8. Len(more) <= MaxOps
    <3>1. Len(more) = Len(ops) + 1
      BY <2>6
    <3> QED BY <2>1, <2>6, <3>1, BoundsAssumption
  <2>9. Tame(more)
    BY <1>1, <2>1, <2>4, <2>5 DEF Tame
  <2>10. FramesOK(frames') /\ LostOK' /\ status' \in Statuses
    BY <1>1, <2>3, <2>8, <2>9, TameKeeps
  <2>11. Stable
    BY <2>1, <2>2 DEF Grows, Stable
  <2> QED BY <2>7, <2>10, <2>11 DEF Good
<1> QED BY <1>2, <1>3

LEMMA DropKeeps ==
  ASSUME IInv, Drop
  PROVE  Good /\ Stable /\ Shrinks(heap, heap')
<1> DEFINE term == Term("operand", Nowhere, 0)
           v == Last
           none == <<>>
           s == Operand(term)
<1>1. Running /\ Top.ops # <<>>
  BY DEF Drop
<1>2. Active /\ FramesOK(frames) /\ LostOK /\ status \in Statuses
  BY <1>1, RunningActive
<1>3. term \in Terms /\ term.op = "operand"
  BY DEF Terms, Term
<1>4. s = Result(heap, v, none) /\ Creates(term) = 0 /\ Pending(term) = Rest
  BY <1>3 DEF Operand, Creates, Pending
<1>5. s.heap = heap /\ s.value = v /\ s.lost = none /\ s.fault = "ok"
  BY <1>4 DEF Result
<1> HIDE DEF term, s, v, none
<1>6. May(term)
  <2>1. Cardinality(Unused(heap)) \in Nat
    BY UnusedFinite
  <2>2. Operand(term).fault = "ok"
    BY <1>5 DEF s
  <2> QED BY <1>1, <1>3, <1>4, <2>1, <2>2 DEF May
<1>7. Ready(heap, Rest, <<v>>, none) /\ v \in Alive(Depth)
  <2>1. s.fault = "ok" /\ s = Operand(term)
    BY <1>5 DEF s
  <2>2. Ready(s.heap, Pending(term), <<s.value>>, s.lost) /\ s.value \in Alive(Depth)
    BY <1>2, <1>3, <1>6, <2>1, OperandKeeps
  <2> QED BY <1>4, <1>5, <2>2
<1>8. Rest \in Seq(Alive(Depth)) /\ Len(Rest) <= MaxOps
  <2>1. Operand(term).fault = "ok"
    BY <1>5 DEF s
  <2> QED BY <1>1, <1>3, <1>4, <1>6, <2>1, PendingType
<1>9. heap' = Finalize(heap, <<v>>) /\ Put(Nowhere, None, Rest) /\ lost' = lost /\ status' = status
  BY DEF Drop, v
<1>10. Loses(none)
  <2>1. lost \in [Objects -> 0..MaxLost]
    BY <1>2 DEF LostOK
  <2>2. \A o \in Objects : lost[o] \in Nat
    BY <2>1, BoundsAssumption
  <2>3. lost = [o \in Objects |-> lost[o] + Uses(none, o)]
    BY <2>1, <2>2, UsesNone DEF none
  <2> QED BY <1>9, <2>3 DEF Loses
<1>11. None \in Alive(Depth)
  BY <1>2, ActiveState DEF ValueSet
<1> DEFINE gone == <<v>>
<1>12. Ready(heap, Rest, gone, none) /\ heap' = Finalize(heap, gone)
  BY <1>7, <1>9
<1> HIDE DEF gone
<1>13. HeapOK' /\ Bound(heap, heap') /\ Shrinks(heap, heap')
  BY <1>2, <1>9, <1>10, <1>11, <1>12, FinalizeNowhere
<1>14. Stable
  BY <1>13 DEF Bound, Stable
<1>15. Tame(Rest)
  BY <1>2, <1>9, <1>11 DEF Tame
<1>16. FramesOK(frames') /\ LostOK' /\ status' \in Statuses
  BY <1>2, <1>8, <1>15, TameKeeps
<1> QED BY <1>13, <1>14, <1>16 DEF Good

\* What is cloned is not what a variable holds.
LEMMA CloneNew ==
  ASSUME Active, NEW p \in Everywhere(Depth), NEW r,
         r.type = "object" => r.object \in Objects /\ heap[r.object].kind = "free"
  PROVE  r.type = "object" => r # Value(p)
<1> SUFFICES ASSUME r.type = "object", r = Value(p) PROVE FALSE
  OBVIOUS
<1>1. Live(heap, r)
  BY ValueAlive
<1>2. Counts(r)
  BY DEF Counts
<1> QED BY <1>1, <1>2 DEF Live

LEMMA StoreKeeps ==
  ASSUME IInv, Running, NEW term \in Terms, NEW p \in Places, NEW want \in BOOLEAN,
         Store(term, p, want)
  PROVE  Good /\ Stable
<1> DEFINE s == Operand(term)
           c == Clone(s.heap, s.value)
           v == s.value
           r == c.value
           ops == Pending(term)
           ops2 == Results(term, r, want)
           gone2 == Gone(s, r, want)
<1>1. /\ Active /\ FramesOK(frames) /\ LostOK /\ status \in Statuses
      /\ May(term) /\ (want => Len(ops) < MaxOps) /\ p \in Everywhere(Depth)
  BY RunningActive, PlacesType DEF Store, StoreCopy, MayStore
<1>2. CASE s.fault # "ok"
  <2>1. Panic(s.fault) /\ s.fault \in Statuses
    BY <1>1, <1>2, FaultType DEF Store, StoreCopy
  <2> QED BY <2>1, PanicGood
<1>3. CASE s.fault = "ok"
  <2>1. c.fits /\ MutateOperand(c.heap, p, r, ops2, gone2, s.lost)
    BY <1>3 DEF Store, StoreCopy
  <2>2. Ready(s.heap, ops, <<v>>, s.lost) /\ Grows(heap, s.heap) /\ v \in Alive(Depth)
    BY <1>1, <1>3, OperandKeeps
  <2>3. ops \in Seq(Alive(Depth)) /\ Len(ops) \in Nat /\ Len(ops) <= MaxOps
    BY <1>1, <1>3, PendingType
  <2>4. ops2 = ops \o (IF want THEN <<r>> ELSE <<>>) /\ gone2 = <<v>> \o (IF want THEN <<>> ELSE <<r>>)
    BY DEF Results, Gone
  <2> HIDE DEF s, ops, ops2, gone2
  <2>5. /\ Ready(c.heap, ops, <<v, r>>, s.lost) /\ Grows(heap, c.heap) /\ r \in Alive(Depth)
        /\ r.type = "object" => r.object \in Objects /\ heap[r.object].kind = "free"
    <3> HIDE DEF v
    <3>1. c.fits /\ c = Clone(s.heap, v)
      BY <2>1 DEF v
    <3> DEFINE g == s.heap
               forgot == s.lost
    <3>2. Ready(g, ops, <<v>>, forgot) /\ Grows(heap, g) /\ Clone(g, v).fits /\ c = Clone(g, v)
      BY <2>2, <3>1
    <3> HIDE DEF g, forgot, c
    <3>3. LET k == Clone(g, v)
          IN  /\ Ready(k.heap, ops, <<v, k.value>>, forgot) /\ Grows(heap, k.heap)
              /\ k.value \in Alive(Depth)
              /\ k.value.type = "object" =>
                   k.value.object \in Objects /\ heap[k.value.object].kind = "free"
      BY <1>1, <2>2, <3>2, CloneReady
    <3> QED BY <3>2, <3>3 DEF forgot
  <2>6. Storing(c.heap, r, ops2, gone2, s.lost)
    <3> HIDE DEF c, r, v
    <3> DEFINE g == c.heap
               forgot == s.lost
    <3>1. Ready(g, ops, <<v, r>>, forgot)
      BY <2>5
    <3> HIDE DEF g, forgot
    <3>2. Storing(g, r, ops \o (IF want THEN <<r>> ELSE <<>>),
                  <<v>> \o (IF want THEN <<>> ELSE <<r>>), forgot)
      BY <1>1, <2>2, <2>5, <3>1, ResultReady
    <3> QED BY <2>4, <3>2 DEF g, forgot
  <2>7. r.type = "object" => r # Value(p)
    BY <1>1, <2>5, CloneNew
  <2> HIDE DEF r, c
  <2>8. HeapOK' /\ Stable
    BY <1>1, <2>1, <2>5, <2>6, <2>7, MutateOperandKeeps
  <2>9. Tame(ops2)
    BY <1>1, <2>1, <2>6, OperandTame
  <2>10. ops2 \in Seq(Alive(Depth)) /\ Len(ops2) <= MaxOps
    <3>1. ops2 \in Seq(Alive(Depth))
      BY <2>6 DEF Storing, Ready
    <3>2. CASE want
      <4>1. ops2 = ops \o <<r>>
        BY <2>4, <3>2
      <4> DEFINE rs == <<r>>
      <4>2. rs \in Seq(Alive(Depth)) /\ Len(rs) = 1
        BY <2>5
      <4> HIDE DEF rs
      <4>3. Len(ops \o rs) = Len(ops) + Len(rs)
        BY <2>3, <4>2, ConcatLen
      <4>4. Len(ops2) = Len(ops) + 1
        BY <4>1, <4>2, <4>3 DEF rs
      <4>5. Len(ops) < MaxOps /\ MaxOps \in Nat
        BY <1>1, <3>2, BoundsAssumption DEF ops
      <4> QED BY <2>3, <3>1, <4>4, <4>5
    <3>3. CASE ~want
      <4>1. ops2 = ops
        BY <2>3, <2>4, <3>3
      <4> QED BY <2>3, <3>1, <4>1
    <3> QED BY <3>2, <3>3
  <2>11. FramesOK(frames') /\ LostOK' /\ status' \in Statuses
    BY <1>1, <2>9, <2>10, TameKeeps
  <2> QED BY <2>8, <2>11 DEF Good
<1> QED BY <1>2, <1>3

LEMMA CopyObjectGood ==
  ASSUME IInv, Running, NEW term \in Terms, NEW p \in Places, CopyObject(term, p)
  PROVE  Good /\ Stable
<1> DEFINE s == Operand(term)
           c == Clone(s.heap, s.value)
           v == s.value
           r == c.value
           ops == Pending(term)
           gone == <<v, r>>
<1>1. /\ Active /\ FramesOK(frames) /\ LostOK /\ status \in Statuses
      /\ May(term) /\ p \in Everywhere(Depth)
  BY RunningActive, PlacesType DEF CopyObject, EmplaceCopy
<1>2. CASE s.fault # "ok"
  <2>1. Panic(s.fault) /\ s.fault \in Statuses
    BY <1>1, <1>2, FaultType DEF CopyObject, EmplaceCopy
  <2> QED BY <2>1, PanicGood
<1>3. CASE s.fault = "ok"
  <2>1. c.fits /\ EmplaceOperand(c.heap, p, r, ops, gone, s.lost)
    BY <1>3 DEF CopyObject, EmplaceCopy
  <2>2. Ready(s.heap, ops, <<v>>, s.lost) /\ Grows(heap, s.heap) /\ v \in Alive(Depth)
    BY <1>1, <1>3, OperandKeeps
  <2>3. ops \in Seq(Alive(Depth)) /\ Len(ops) \in Nat /\ Len(ops) <= MaxOps
    BY <1>1, <1>3, PendingType
  <2> HIDE DEF ops
  <2>4. Ready(c.heap, ops, gone, s.lost) /\ Grows(heap, c.heap) /\ r \in Alive(Depth)
    <3> DEFINE g == s.heap
               forgot == s.lost
    <3>1. Ready(g, ops, <<v>>, forgot) /\ Grows(heap, g) /\ Clone(g, v).fits /\ c = Clone(g, v)
      BY <2>1, <2>2
    <3> HIDE DEF g, forgot, c, v, s
    <3>2. LET k == Clone(g, v)
          IN  /\ Ready(k.heap, ops, <<v, k.value>>, forgot) /\ Grows(heap, k.heap)
              /\ k.value \in Alive(Depth)
      BY <1>1, <2>2, <3>1, CloneReady
    <3> QED BY <3>1, <3>2 DEF forgot
  <2>5. Storing(c.heap, r, ops, gone, s.lost)
    <3> DEFINE g == c.heap
               forgot == s.lost
    <3> HIDE DEF s, c, v, r, g, forgot
    <3>1. Ready(g, ops, <<v, r>>, forgot)
      BY <2>4 DEF g, forgot
    <3>2. FALSE \in BOOLEAN
      OBVIOUS
    <3>3. Storing(g, r, ops \o (IF FALSE THEN <<r>> ELSE <<>>),
                  <<v>> \o (IF FALSE THEN <<>> ELSE <<r>>), forgot)
      BY <1>1, <2>2, <2>4, <3>1, <3>2, ResultReady
    <3>4. ops \o (IF FALSE THEN <<r>> ELSE <<>>) = ops
      BY <2>3
    <3>5. <<v>> \o (IF FALSE THEN <<>> ELSE <<r>>) = gone
      <4>1. v \in Alive(Depth) /\ r \in Alive(Depth)
        BY <2>2, <2>4
      <4> QED BY <4>1, PairConcat
    <3>6. Storing(g, r, ops, gone, forgot)
      BY <3>3, <3>4, <3>5
    <3> QED BY <3>6 DEF g, forgot
  <2> HIDE DEF r, c, gone, s
  <2>6. HeapOK' /\ Stable
    BY <1>1, <2>1, <2>4, <2>5, EmplaceOperandKeeps
  <2>7. Tame(ops)
    BY <1>1, <2>1, <2>5, OperandTame
  <2>8. FramesOK(frames') /\ LostOK' /\ status' \in Statuses
    BY <1>1, <2>3, <2>7, TameKeeps
  <2> QED BY <2>6, <2>8 DEF Good
<1> QED BY <1>2, <1>3

LEMMA ElementStored ==
  ASSUME Active, NEW h, NEW ops, NEW v, NEW r, NEW forgot, Ready(h, ops, <<v, r>>, forgot),
         r \in Alive(Depth), NEW o, NEW i, InPackage(h, o, i)
  PROVE  /\ Ready(AssignElement(h, o, i, r), ops, <<v, r>>, forgot)
         /\ ElementAssigned(h, AssignElement(h, o, i, r), o, i, r)
<1> DEFINE V == Alive(Depth)
           gone == <<v, r>>
           t == Plus(Plus(Base, ops), forgot)
           d == Plus(t, gone)
<1>1. /\ ops \in Seq(V) /\ forgot \in Seq(V) /\ gone \in Seq(V) /\ r \in V
      /\ Counted(h, V, d) /\ ValueSet(V)
  BY ActiveState DEF Ready
<1>2. d \in [Objects -> Nat]
  BY <1>1 DEF Counted
<1>3. Counts(r) => h[r.object].kind # "free"
  <2> SUFFICES ASSUME Counts(r) PROVE h[r.object].kind # "free"
    OBVIOUS
  <2>1. r.object \in Objects
    BY <1>1 DEF ValueSet
  <2>2. Uses(gone, r.object) >= 1
    <3>1. 2 \in DOMAIN gone /\ gone[2] = r
      OBVIOUS
    <3>2. Holds(gone[2], r.object)
      BY <3>1 DEF Holds
    <3>3. IsFiniteSet(DOMAIN gone)
      BY <1>1, SeqFinite
    <3> HIDE DEF gone
    <3> QED BY <3>1, <3>2, <3>3, UsesSome
  <2>3. d[r.object] = t[r.object] + Uses(gone, r.object) /\ Uses(gone, r.object) \in Nat
    <3> HIDE DEF gone, t
    <3>1. d[r.object] = t[r.object] + Uses(gone, r.object)
      BY <2>1, PlusAt
    <3>2. Uses(gone, r.object) \in Nat
      BY <1>1, UsesOfSeq
    <3> QED BY <3>1, <3>2
  <2>4. t[r.object] \in Nat
    <3>1. t \in [Objects -> Nat]
      <4> HIDE DEF gone
      <4> QED BY <1>1, TotalAt
    <3> QED BY <2>1, <3>1
  <2> HIDE DEF d, t, gone
  <2>5. d[r.object] > 0
    BY <2>2, <2>3, <2>4
  <2> QED BY <1>1, <2>1, <2>5, UsedAlive
<1> HIDE DEF d
<1>4. /\ Counted(AssignElement(h, o, i, r), V, d)
      /\ ElementAssigned(h, AssignElement(h, o, i, r), o, i, r)
  BY <1>1, <1>2, <1>3, AssignElementKeeps
<1>5. Ready(AssignElement(h, o, i, r), ops, gone, forgot)
  BY <1>1, <1>4 DEF Ready, d
<1> QED BY <1>4, <1>5

LEMMA StoreElementKeeps ==
  ASSUME IInv, Running, NEW term \in Terms, NEW p \in Places, NEW i \in Positions,
         StoreElement(term, p, i)
  PROVE  Good /\ (Stable \/ \E o \in Objects : Value(p) = Whole(o) /\ StableBut(o))
<1> DEFINE s == Operand(term)
           c == Clone(s.heap, s.value)
           ix == IndexOf(Value(p), i)
           o == Value(p).object
           v == s.value
           r == c.value
           ops == Pending(term)
<1>1. /\ Active /\ FramesOK(frames) /\ LostOK /\ status \in Statuses
      /\ May(term) /\ p \in Everywhere(Depth) /\ Depth \in Nat
  BY RunningActive, PlacesType, ActiveState DEF StoreElement, StoreElementCopy
<1>2. CASE s.fault # "ok"
  <2>1. Panic(s.fault) /\ s.fault \in Statuses
    BY <1>1, <1>2, FaultType DEF StoreElement, StoreElementCopy
  <2> QED BY <2>1, PanicGood
<1>3. CASE s.fault = "ok" /\ ix.fault # "ok"
  <2>1. Panic(ix.fault)
    BY <1>3 DEF StoreElement, StoreElementCopy
  <2>2. ix.fault \in Statuses
    BY DEF IndexOf, Fault, Result, Statuses
  <2> QED BY <2>1, <2>2, PanicGood
<1>4. CASE s.fault = "ok" /\ ix.fault = "ok"
  <2> DEFINE g == IF heap[o].kind = "bytes" THEN c.heap ELSE AssignElement(c.heap, o, i, r)
  <2>1. /\ c.fits /\ heap' = Finalize(g, <<v, r>>)
        /\ Put(Nowhere, None, ops) /\ Lose(s.lost) /\ status' = status
    BY <1>4 DEF StoreElement, StoreElementCopy
  <2>2. Ready(s.heap, ops, <<v>>, s.lost) /\ Grows(heap, s.heap) /\ v \in Alive(Depth)
    BY <1>1, <1>4, OperandKeeps
  <2>3. ops \in Seq(Alive(Depth)) /\ Len(ops) \in Nat /\ Len(ops) <= MaxOps
    BY <1>1, <1>4, PendingType
  <2>4. Value(p).type = "object" /\ ~(i > heap[o].size)
    BY <1>4 DEF IndexOf, Fault, Result
  <2>5. Value(p) = Whole(o) /\ o \in Objects /\ heap[o].kind \in {"bytes", "package"}
    <3>1. Value(p) \in Alive(Depth) /\ Live(heap, Value(p))
      BY <1>1, ValueAlive
    <3>2. Value(p) = Whole(o)
      BY <1>1, <2>4, <3>1, AliveValues
    <3>3. Counts(Value(p)) /\ o \in Objects
      BY <1>1, <2>4, <3>1, ActiveState DEF Counts, ValueSet
    <3>4. heap \in HeapOf(Alive(Depth))
      BY <1>1, ActiveState DEF Counted
    <3>5. heap[o].kind \in {"free", "bytes", "package"} /\ heap[o].kind # "free"
      <4>1. heap[o].kind # "free"
        BY <3>1, <3>3 DEF Live
      <4> HIDE DEF o
      <4> QED BY <3>3, <3>4, <4>1, CellType
    <3> QED BY <3>2, <3>3, <3>5
  <2> HIDE DEF ops, o, ix
  <2>6. Ready(c.heap, ops, <<v, r>>, s.lost) /\ Grows(heap, c.heap) /\ r \in Alive(Depth)
    <3> DEFINE h == s.heap
               forgot == s.lost
    <3>1. Ready(h, ops, <<v>>, forgot) /\ Grows(heap, h) /\ Clone(h, v).fits /\ c = Clone(h, v)
      BY <2>1, <2>2
    <3> HIDE DEF h, forgot, c, v, s
    <3>2. LET k == Clone(h, v)
          IN  /\ Ready(k.heap, ops, <<v, k.value>>, forgot) /\ Grows(heap, k.heap)
              /\ k.value \in Alive(Depth)
      BY <1>1, <2>2, <3>1, CloneReady
    <3> QED BY <3>1, <3>2 DEF forgot
  <2>7. None \in Alive(Depth) /\ Loses(s.lost)
    BY <1>1, <2>1, ActiveState DEF ValueSet, Lose, Loses
  <2> DEFINE f == c.heap
             forgot == s.lost
             gone == <<v, r>>
  <2>8. forgot \in Seq(Alive(Depth))
    BY <2>2, SMTT(30) DEF Ready
  <2>9. /\ Ready(g, ops, gone, forgot)
        /\ \A x \in Objects \ {o} : heap[x].kind # "free" /\ g[x].kind # "free" =>
             g[x].elems = heap[x].elems
    <3>1. CASE heap[o].kind = "bytes"
      <4>1. g = f
        BY <3>1, SMTT(30)
      <4> QED BY <2>6, <4>1 DEF Grows
    <3>2. CASE heap[o].kind = "package"
      <4>1. g = AssignElement(f, o, i, r)
        BY <3>2
      <4>2. f[o].kind = "package" /\ i \in 1..f[o].size
        <5>1. f[o].kind = "package" /\ f[o].size = heap[o].size
          BY <2>5, <2>6, <3>2 DEF Grows
        <5>2. i \in Nat /\ i >= 1
          BY PositionsType
        <5>3. heap[o].size \in Nat
          <6>1. heap \in HeapOf(Alive(Depth))
            BY <1>1, ActiveState DEF Counted
          <6> QED BY <2>5, <6>1, CellType, SMTT(30)
        <5> QED BY <2>4, <5>1, <5>2, <5>3, SMTT(30)
      <4>3. InPackage(f, o, i)
        BY <2>5, <4>2 DEF InPackage
      <4>4. Ready(f, ops, <<v, r>>, forgot)
        BY <2>6
      <4> HIDE DEF f, r, v, forgot, g
      <4>5. /\ Ready(AssignElement(f, o, i, r), ops, <<v, r>>, forgot)
            /\ ElementAssigned(f, AssignElement(f, o, i, r), o, i, r)
        BY <1>1, <2>6, <4>3, <4>4, ElementStored, SMTT(30)
      <4>6. \A x \in Objects \ {o} : heap[x].kind # "free" /\ g[x].kind # "free" =>
              g[x].elems = heap[x].elems
        BY <2>6, <4>1, <4>5, ZenonT(30) DEF Grows, ElementAssigned, f
      <4> QED BY <4>1, <4>5, <4>6 DEF r, v, forgot
    <3> QED BY <2>5, <3>1, <3>2, SMTT(30)
  <2>10. heap' = Finalize(g, gone)
    BY <2>1
  <2>11. Loses(forgot) /\ Lose(forgot) /\ Put(Nowhere, None, ops) /\ status' = status
    BY <2>1, <2>7
  <2> HIDE DEF g, gone, forgot, s, c
  <2>12. HeapOK' /\ Bound(g, heap') /\ Shrinks(g, heap')
    BY <1>1, <2>7, <2>9, <2>10, <2>11, FinalizeNowhere
  <2>13. StableBut(o)
    BY <2>9, <2>12 DEF Shrinks, StableBut
  <2>14. Tame(ops)
    BY <1>1, <2>7, <2>8, <2>11 DEF Tame
  <2>15. FramesOK(frames') /\ LostOK' /\ status' \in Statuses
    BY <1>1, <2>3, <2>14, TameKeeps
  <2> QED BY <2>5, <2>12, <2>13, <2>15 DEF Good
<1> QED BY <1>2, <1>3, <1>4, SMTT(30)

LEMMA StoringOne ==
  ASSUME Active, NEW h, NEW ops, NEW r \in Alive(Depth), NEW forgot, Ready(h, ops, <<r>>, forgot)
  PROVE  Storing(h, r, ops, <<r>>, forgot)
<1> DEFINE V == Alive(Depth)
           t == Plus(Plus(Base, ops), forgot)
<1>1. ops \in Seq(V) /\ forgot \in Seq(V) /\ ValueSet(V)
  BY ActiveState DEF Ready
<1>2. t \in [Objects -> Nat]
  BY <1>1, TotalAt
<1>3. ASSUME Counts(r) PROVE Total(ops, <<r>>, forgot)[r.object] > 0
  <2>1. r.object \in Objects
    BY <1>1, <1>3 DEF ValueSet
  <2> HIDE DEF t
  <2>2. Plus(t, <<r>>)[r.object] > 0
    BY <1>2, <1>3, <2>1, PlusMore
  <2> QED BY <2>2 DEF Total, t
<1> QED BY <1>3 DEF Storing

\* An index is stored as it is.
LEMMA IndexStoring ==
  ASSUME Active, NEW p \in Everywhere(Depth), NEW i \in Positions,
         IndexOf(Value(p), i).fault = "ok"
  PROVE  LET s == IndexOf(Value(p), i)
         IN  /\ Storing(s.heap, s.value, Top.ops, <<s.value>>, <<>>)
             /\ Grows(heap, s.heap) /\ s.value.type = "index" /\ s.value \in Alive(Depth)
<1> DEFINE s == IndexOf(Value(p), i)
           V == Alive(Depth)
           c == Plus(Base, Top.ops)
           ops == Top.ops
           r == s.value
           w == Value(p)
<1>2. /\ Depth \in Nat /\ ValueSet(V) /\ Counted(heap, V, c) /\ ops \in Seq(V)
  BY ActiveState
<1>3. c \in [Objects -> Nat]
  BY <1>2 DEF Counted
<1>4. w \in V /\ Live(heap, w)
  BY ValueAlive
<1>5. w.type = "object" => Element(w.object, i) \in V
  BY <1>2, <1>4, AliveValues DEF ValueSet, Counts
<1>6. Evaluated(V, heap, c, s)
  <2> DEFINE x == IndexOf(w, i)
  <2>1. x.fault = "ok"
    OBVIOUS
  <2> HIDE DEF c, w, V
  <2>2. Evaluated(V, heap, c, x)
    BY <1>2, <1>3, <1>4, <1>5, <2>1, IndexOfKeeps, SMTT(30) DEF c
  <2> QED BY <2>2 DEF w
<1>7. r.type = "index" /\ s.lost = <<>>
  BY DEF IndexOf, Fault, Result, Element
<1> DEFINE none == <<>>
           h == s.heap
           gone == <<r>>
<1>8. none \in Seq(V) /\ r \in V /\ Grows(heap, h) /\ gone \in Seq(V)
      /\ Counted(h, V, Plus(Plus(c, none), gone))
  BY <1>6, <1>7 DEF Evaluated
<1> HIDE DEF none, h, r, s
<1>9. Ready(h, ops, gone, none)
  BY <1>2, <1>8 DEF Ready
<1>10. Storing(h, r, ops, gone, none)
  BY <1>8, <1>9, StoringOne
<1> QED BY <1>7, <1>8, <1>10 DEF none, h, r, s

LEMMA IndexToKeeps ==
  ASSUME IInv, Running, NEW p \in Places, NEW i \in Positions, NEW q \in Places, IndexTo(p, i, q)
  PROVE  Good /\ Stable
<1> DEFINE s == IndexOf(Value(p), i)
           ops == Top.ops
           r == s.value
           h == s.heap
           none == <<>>
           gone == <<r>>
<1>1. /\ Active /\ FramesOK(frames) /\ LostOK /\ status \in Statuses
      /\ p \in Everywhere(Depth) /\ q \in Everywhere(Depth)
      /\ Len(ops) <= MaxOps /\ ops \in Seq(Alive(Depth))
  BY RunningActive, PlacesType, ActiveState
<1>2. CASE s.fault # "ok"
  <2>1. Panic(s.fault)
    BY <1>2 DEF IndexTo
  <2>2. s.fault \in Statuses
    BY DEF IndexOf, Fault, Result, Statuses
  <2> QED BY <2>1, <2>2, PanicGood
<1>3. CASE s.fault = "ok"
  <2>1. MutateOperand(h, q, r, ops, gone, none)
    BY <1>3 DEF IndexTo
  <2>2. Storing(h, r, ops, gone, none) /\ Grows(heap, h) /\ r.type = "index" /\ r \in Alive(Depth)
    BY <1>1, <1>3, IndexStoring
  <2> HIDE DEF none, h, r, s, gone
  <2>3. r.type = "object" => r # Value(q)
    BY <2>2
  <2>4. HeapOK' /\ Stable
    BY <1>1, <2>1, <2>2, <2>3, MutateOperandKeeps
  <2>5. Tame(ops)
    BY <1>1, <2>1, <2>2, OperandTame
  <2>6. FramesOK(frames') /\ LostOK' /\ status' \in Statuses
    BY <1>1, <2>5, TameKeeps
  <2> QED BY <2>4, <2>6 DEF Good
<1> QED BY <1>2, <1>3

LEMMA SizeOfKeeps ==
  ASSUME IInv, Running, NEW p \in Places, SizeOf(p)
  PROVE  Good /\ Stable
<1> DEFINE V == Alive(Depth)
           v == Value(p)
           all == Outside(name, frames, lost)
           ls == [o \in Objects |-> lost[o] + Uses(<<v>>, o)]
<1>1. /\ Active /\ FramesOK(frames) /\ LostOK /\ status \in Statuses
      /\ p \in Everywhere(Depth)
  BY RunningActive, PlacesType
<1>2. CASE v.type # "object"
  <2>1. Panic("types")
    BY <1>2 DEF SizeOf
  <2>2. "types" \in Statuses
    BY DEF Statuses
  <2> QED BY <2>1, <2>2, PanicGood
<1>3. CASE v.type = "object"
  <2>1. /\ heap' = Ref(heap, v) /\ Lose(<<v>>) /\ name' = name /\ frames' = frames
        /\ status' = status
    BY <1>3 DEF SizeOf
  <2>2. /\ StateOf(V, name, frames, lost) /\ ValueSet(V) /\ Counted(heap, V, all)
    BY <1>1, ActiveState DEF Active, HeapOK
  <2>3. v \in V /\ Live(heap, v)
    BY <1>1, ValueAlive
  <2> DEFINE vs == <<v>>
  <2>4. vs \in Seq(V) /\ lost' = [o \in Objects |-> lost[o] + Uses(vs, o)] /\ Lose(vs)
    BY <2>1, <2>3 DEF Lose
  <2>5. all \in [Objects -> Nat]
    BY <2>2 DEF Counted
  <2> HIDE DEF all
  <2>6. Counted(heap', V, Plus(all, <<v>>)) /\ Grows(heap, heap')
    <3> HIDE DEF v
    <3>1. Counts(v) => heap[v.object].kind # "free"
      BY <2>3 DEF Live
    <3>2. Counted(Ref(heap, v), V, Plus(all, <<v>>)) /\ Grows(heap, Ref(heap, v))
      BY <2>2, <2>3, <2>5, <3>1, RefKeeps
    <3> QED BY <2>1, <3>2
  <2>7. Counted(heap', V, Plus(all, vs))
    BY <2>6
  <2> HIDE DEF vs
  <2>8. StateOf(V, name, frames, lost') /\ Outside(name, frames, lost') = Plus(all, vs)
    BY <2>2, <2>4, LostCount DEF all
  <2>9. Depth' = Depth
    BY <2>1 DEF Depth
  <2>10. HeapOK'
    BY <2>1, <2>7, <2>8, <2>9 DEF HeapOK
  <2>11. LostOK'
    BY <1>1, <2>4, LoseBound
  <2>12. FramesOK(frames') /\ status' \in Statuses
    BY <1>1, <2>1
  <2>13. Stable
    BY <2>6 DEF Grows, Stable
  <2> QED BY <2>10, <2>11, <2>12, <2>13 DEF Good
<1> QED BY <1>2, <1>3

LEMMA CreateFieldKeeps ==
  ASSUME IInv, Running, NEW p \in Places, CreateField(p)
  PROVE  Good /\ Stable
<1> DEFINE V == Alive(Depth)
           v == Value(p)
           vs == <<v>>
           all == Outside(name, frames, lost)
           n == Depth
           f == Top
           g == [f EXCEPT !.fields = vs]
           fr == [frames EXCEPT ![n] = g]
<1>1. /\ Active /\ FramesOK(frames) /\ LostOK /\ status \in Statuses
      /\ p \in Everywhere(Depth) /\ n \in Nat /\ n > 0 /\ ValueSet(V)
  BY RunningActive, PlacesType, ActiveState
<1>2. /\ TypeOf(heap, v) = "bytes" /\ f.fields = <<>> /\ heap' = Ref(heap, v)
      /\ frames' = fr /\ name' = name /\ lost' = lost /\ status' = status
  BY DEF CreateField, Top
<1>3. /\ StateOf(V, name, frames, lost) /\ Counted(heap, V, all) /\ f \in FrameOf(V)
  BY <1>1, ActiveState DEF Active, HeapOK
<1>4. v \in V /\ Live(heap, v)
  BY <1>1, ValueAlive
<1>5. v \in Wholes /\ Counts(v)
  <2>1. v.type # "bytes"
    BY <1>1, <1>4, AliveValues
  <2>2. v.type = "object"
    BY <1>2, <2>1 DEF TypeOf
  <2>3. v = Whole(v.object) /\ v.object \in Objects /\ Counts(v)
    BY <1>1, <1>4, <2>2, AliveValues DEF ValueSet, Counts
  <2> QED BY <2>3 DEF Wholes
<1>6. vs \in Seq(V) /\ vs \in Seq(Wholes) /\ \A o : Uses(vs, o) = One(v, o)
  BY <1>4, <1>5, UsesOne
<1>7. frames \in Seq(FrameOf(V)) /\ n = Len(frames) /\ n \in 1..Len(frames)
  BY <1>1, <1>3 DEF StateOf, Depth
<1> HIDE DEF vs, n, f
<1>8. /\ g \in FrameOf(V) /\ g.local = f.local /\ g.arg = f.arg /\ g.ops = f.ops
      /\ g.fields = vs
  BY <1>3, <1>6 DEF FrameOf
<1> HIDE DEF g
<1>9. /\ fr \in Seq(FrameOf(V)) /\ Len(fr) = Len(frames) /\ DOMAIN fr = DOMAIN frames
      /\ fr[n] = g /\ \A k \in DOMAIN frames \ {n} : fr[k] = frames[k]
      /\ n \in DOMAIN frames
  BY <1>7, <1>8
<1>10. frames[n] = f
  BY DEF f, Top, n
<1> HIDE DEF fr
<1>11. StateOf(V, name, fr, lost)
  BY <1>3, <1>9 DEF StateOf
<1>12. ASSUME NEW o \in Objects PROVE Outside(name, fr, lost)[o] = all[o] + One(v, o)
  <2>1. /\ UsesIn(FrameRows(frames), o) \in Nat /\ UsesIn(FrameRows(fr), o) \in Nat
        /\ Uses(Kept(f), o) \in Nat /\ Uses(Kept(g), o) \in Nat
        /\ UsesIn(FrameRows(fr), o) + Uses(Kept(f), o)
             = UsesIn(FrameRows(frames), o) + Uses(Kept(g), o)
    <3>1. frames \in Seq(FrameOf(V))
      BY <1>7
    <3>2. /\ UsesIn(FrameRows(frames), o) \in Nat /\ UsesIn(FrameRows(fr), o) \in Nat
          /\ Uses(Kept(frames[n]), o) \in Nat /\ Uses(Kept(fr[n]), o) \in Nat
          /\ UsesIn(FrameRows(fr), o) + Uses(Kept(frames[n]), o)
               = UsesIn(FrameRows(frames), o) + Uses(Kept(fr[n]), o)
      <4>1. /\ fr \in Seq(FrameOf(V)) /\ DOMAIN fr = DOMAIN frames /\ n \in DOMAIN frames
            /\ \A k \in DOMAIN frames \ {n} : fr[k] = frames[k]
        BY <1>9
      <4> HIDE DEF V
      <4> QED BY ONLY <3>1, <4>1, OneFrame, SMTT(30)
    <3> QED BY <1>9, <1>10, <3>2
  <2>2. /\ Uses(f.ops, o) \in Nat /\ One(f.local, o) \in Nat /\ One(f.arg, o) \in Nat
        /\ Uses(Kept(f), o) = (One(f.local, o) + One(f.arg, o)) + Uses(f.fields, o) + Uses(f.ops, o)
    BY <1>3, KeptUses
  <2>3. Uses(Kept(g), o) = (One(f.local, o) + One(f.arg, o)) + One(v, o) + Uses(f.ops, o)
    <3>1. Uses(Kept(g), o) = (One(g.local, o) + One(g.arg, o)) + Uses(g.fields, o) + Uses(g.ops, o)
      BY <1>8, KeptUses
    <3>2. Uses(g.fields, o) = One(v, o)
      BY <1>6, <1>8
    <3> QED BY <1>8, <3>1, <3>2
  <2>4. Uses(f.fields, o) = 0 /\ One(v, o) \in Nat
    BY <1>2, UsesNone DEF One
  <2>5. /\ Uses(name, o) \in Nat /\ lost[o] \in Nat
        /\ all[o] = Uses(name, o) + UsesIn(FrameRows(frames), o) + lost[o]
    BY <1>3, OutsideAt
  <2>6. Outside(name, fr, lost)[o] = Uses(name, o) + UsesIn(FrameRows(fr), o) + lost[o]
    BY <1>11, OutsideAt
  <2>7. Uses(Kept(g), o) = Uses(Kept(f), o) + One(v, o)
    BY ONLY <2>2, <2>3, <2>4
  <2>8. UsesIn(FrameRows(fr), o) = UsesIn(FrameRows(frames), o) + One(v, o)
    BY ONLY <2>1, <2>4, <2>7
  <2> QED BY ONLY <2>1, <2>4, <2>5, <2>6, <2>8
<1>13. Outside(name, fr, lost) = Plus(all, <<v>>)
  <2>1. Outside(name, fr, lost) = [o \in Objects |-> Outside(name, fr, lost)[o]]
    BY DEF Outside
  <2>2. \A o : Uses(<<v>>, o) = One(v, o)
    BY UsesOne
  <2> QED BY <1>12, <2>1, <2>2 DEF Plus
<1>14. all \in [Objects -> Nat]
  BY <1>3 DEF Counted
<1> HIDE DEF all, v
<1>15. Counted(heap', V, Plus(all, <<v>>)) /\ Grows(heap, heap')
  <2>1. Counts(v) => heap[v.object].kind # "free"
    BY <1>4 DEF Live
  <2>2. Counted(Ref(heap, v), V, Plus(all, <<v>>)) /\ Grows(heap, Ref(heap, v))
    BY <1>1, <1>3, <1>4, <1>14, <2>1, RefKeeps
  <2> QED BY <1>2, <2>2
<1>16. Depth' = Depth
  BY <1>2, <1>9 DEF Depth
<1>17. HeapOK'
  BY <1>2, <1>11, <1>13, <1>15, <1>16 DEF HeapOK
<1>18. FramesOK(frames')
  <2>1. \A k \in 1..Len(frames) : fr[k].ops = frames[k].ops
    BY <1>7, <1>8, <1>9, <1>10
  <2>2. \A k \in 1..Len(frames) : fr[k].fields \in Seq(Wholes)
    <3> SUFFICES ASSUME NEW k \in 1..Len(frames) PROVE fr[k].fields \in Seq(Wholes)
      OBVIOUS
    <3>1. CASE k = n
      BY <1>6, <1>8, <1>9, <3>1
    <3>2. CASE k # n
      BY <1>1, <1>7, <1>9, <3>2, SMTT(30) DEF FramesOK
    <3> QED BY <3>1, <3>2
  <2> QED BY <1>1, <1>2, <1>9, <2>1, <2>2 DEF FramesOK
<1>19. LostOK' /\ status' \in Statuses
  BY <1>1, <1>2 DEF LostOK
<1>20. Stable
  BY <1>15 DEF Grows, Stable
<1> QED BY <1>17, <1>18, <1>19, <1>20 DEF Good

(***************************************************************************)
(* Calls: an invocation comes on top.                                      *)
(***************************************************************************)

LEMMA StateLarger ==
  ASSUME NEW V, NEW W, V \subseteq W, NEW nm, NEW fr, NEW ls, StateOf(V, nm, fr, ls)
  PROVE  StateOf(W, nm, fr, ls)
<1>1. Seq(V) \subseteq Seq(W)
  <2> SUFFICES ASSUME NEW s \in Seq(V) PROVE s \in Seq(W)
    OBVIOUS
  <2>1. \A i \in 1..Len(s) : s[i] \in W
    OBVIOUS
  <2> QED BY <2>1
<1>2. FrameOf(V) \subseteq FrameOf(W)
  BY <1>1 DEF FrameOf
<1>3. fr \in Seq(FrameOf(W))
  <2> DEFINE A == FrameOf(V)
             B == FrameOf(W)
  <2>1. fr \in Seq(A) /\ A \subseteq B
    BY <1>2 DEF StateOf
  <2> HIDE DEF A, B
  <2>2. \A i \in 1..Len(fr) : fr[i] \in B
    BY <2>1
  <2>3. fr \in Seq(B)
    BY <2>1, <2>2
  <2> QED BY <2>3 DEF B
<1> QED BY <1>3 DEF StateOf

LEMMA AppendFrame ==
  ASSUME NEW V, NEW nm, NEW fr, NEW ls, StateOf(V, nm, fr, ls), NEW f \in FrameOf(V)
  PROVE  LET gr == Append(fr, f)
         IN  /\ StateOf(V, nm, gr, ls) /\ Len(gr) = Len(fr) + 1
             /\ \A o \in Objects : Outside(nm, gr, ls)[o] = Outside(nm, fr, ls)[o] + Uses(Kept(f), o)
<1> DEFINE gr == Append(fr, f)
           n == Len(fr) + 1
           S == FrameOf(V)
<1>1. fr \in Seq(S) /\ f \in S
  BY DEF StateOf
<1> HIDE DEF S
<1>2. /\ gr \in Seq(S) /\ Len(gr) = n /\ DOMAIN gr = 1..n /\ n \in DOMAIN gr /\ gr[n] = f
      /\ DOMAIN gr \ {n} = DOMAIN fr /\ \A k \in DOMAIN fr : gr[k] = fr[k]
  <2>1. gr \in Seq(S) /\ Len(gr) = n /\ gr[n] = f
    BY <1>1
  <2>2. Len(fr) \in Nat /\ DOMAIN fr = 1..Len(fr) /\ DOMAIN gr = 1..n
    BY <1>1, <2>1
  <2>3. \A k \in 1..Len(fr) : gr[k] = fr[k]
    BY <1>1
  <2>4. n \in 1..n /\ (1..n) \ {n} = 1..Len(fr)
    BY <2>2
  <2> HIDE DEF gr, n
  <2> QED BY <2>1, <2>2, <2>3, <2>4
<1>3. StateOf(V, nm, gr, ls)
  BY <1>2 DEF StateOf, S
<1> HIDE DEF gr, n
<1>4. ASSUME NEW o \in Objects
      PROVE  Outside(nm, gr, ls)[o] = Outside(nm, fr, ls)[o] + Uses(Kept(f), o)
  <2> DEFINE rows == FrameRows(gr)
  <2>1. /\ FiniteRows(rows) /\ DOMAIN rows = DOMAIN gr /\ rows[n] = Kept(f)
        /\ \A k \in DOMAIN gr : rows[k] = Kept(gr[k])
    BY <1>2, FrameRowsFinite DEF S
  <2>2. Others(rows, n) = FrameRows(fr)
    BY <1>2, <2>1 DEF Others, FrameRows
  <2> HIDE DEF rows
  <2>3. /\ UsesIn(Others(rows, n), o) \in Nat /\ Uses(rows[n], o) \in Nat
        /\ UsesIn(rows, o) = UsesIn(Others(rows, n), o) + Uses(rows[n], o)
    BY <1>2, <2>1, UsesInSplit
  <2>4. UsesIn(FrameRows(gr), o) = UsesIn(FrameRows(fr), o) + Uses(Kept(f), o)
    BY <2>1, <2>2, <2>3 DEF rows
  <2>5. Uses(Kept(f), o) \in Nat
    BY <2>1, <2>3
  <2>6. /\ Uses(nm, o) \in Nat /\ UsesIn(FrameRows(fr), o) \in Nat /\ ls[o] \in Nat
        /\ Outside(nm, fr, ls)[o] = Uses(nm, o) + UsesIn(FrameRows(fr), o) + ls[o]
    BY OutsideAt
  <2>7. Outside(nm, gr, ls)[o] = Uses(nm, o) + UsesIn(FrameRows(gr), o) + ls[o]
    BY <1>3, OutsideAt
  <2> QED BY ONLY <2>4, <2>5, <2>6, <2>7
<1> QED BY <1>2, <1>3, <1>4 DEF gr, n

\* A new invocation with its argument.
LEMMA FrameKept ==
  ASSUME NEW V, None \in V, NEW v \in V
  PROVE  /\ Frame(v) \in FrameOf(V) /\ \A o : Uses(Kept(Frame(v)), o) = One(v, o)
         /\ Frame(v).fields = <<>> /\ Frame(v).ops = <<>>
<1> DEFINE f == Frame(v)
           none == <<>>
<1>1. none \in Seq(V) /\ \A o : Uses(none, o) = 0
  BY UsesNone
<1>2. f \in FrameOf(V) /\ f.local = None /\ f.arg = v /\ f.fields = none /\ f.ops = none
  BY <1>1 DEF Frame, FrameOf
<1> HIDE DEF f, none
<1>3. ASSUME NEW o PROVE Uses(Kept(f), o) = One(v, o)
  <2>1. Uses(Kept(f), o) = (One(f.local, o) + One(f.arg, o)) + Uses(f.fields, o) + Uses(f.ops, o)
    BY <1>2, KeptUses
  <2>2. One(None, o) = 0 /\ One(v, o) \in Nat
    BY DEF One, Holds, Counts, None
  <2> QED BY <1>1, <1>2, <2>1, <2>2
<1> QED BY <1>2, <1>3 DEF f, none

\* The state after a call, by its parts.
LEMMA Entered ==
  ASSUME NEW V, NEW W, V \subseteq W, None \in V, NEW nm, NEW fr, NEW ls, StateOf(V, nm, fr, ls),
         NEW v \in V, NEW h, Counted(h, V, Plus(Outside(nm, fr, ls), <<v>>))
  PROVE  LET gr == Append(fr, Frame(v))
         IN  StateOf(W, nm, gr, ls) /\ Counted(h, W, Outside(nm, gr, ls)) /\ Len(gr) = Len(fr) + 1
<1> DEFINE f == Frame(v)
           gr == Append(fr, f)
           c == Outside(nm, fr, ls)
           d == Outside(nm, gr, ls)
<1>1. f \in FrameOf(V) /\ \A o : Uses(Kept(f), o) = One(v, o)
  BY FrameKept
<1> HIDE DEF f
<1>2. /\ StateOf(V, nm, gr, ls) /\ Len(gr) = Len(fr) + 1
      /\ \A o \in Objects : d[o] = c[o] + Uses(Kept(f), o)
  BY <1>1, AppendFrame
<1> HIDE DEF gr
<1>3. c \in [Objects -> Nat] /\ d \in [Objects -> Nat]
  BY <1>2, OutsideAt
<1> HIDE DEF c, d
<1>4. /\ Plus(c, <<v>>) \in [Objects -> Nat]
      /\ \A o \in Objects : Plus(c, <<v>>)[o] = c[o] + One(v, o)
  BY <1>3, PlusOne
<1>5. \A o \in Objects : d[o] = Plus(c, <<v>>)[o]
  BY <1>1, <1>2, <1>4
<1>6. Counted(h, V, Plus(c, <<v>>))
  BY DEF c
<1>7. Counted(h, V, d)
  BY <1>3, <1>5, <1>6, CountedSame
<1>8. Counted(h, W, d) /\ StateOf(W, nm, gr, ls)
  BY <1>2, <1>7, HeapLarger, StateLarger
<1> QED BY <1>2, <1>8 DEF d, gr, f

LEMMA EvalKeeps ==
  ASSUME IInv, Eval
  PROVE  Good /\ Stable
<1> DEFINE V == Alive(0)
           W == Alive(1)
           gr == Append(frames, Frame(None))
           c == Outside(name, frames, lost)
<1>1. /\ status = "ok" /\ frames = <<>> /\ frames' = <<Frame(None)>>
      /\ heap' = heap /\ name' = name /\ lost' = lost /\ status' = status
  BY DEF Eval
<1>2. Depth = 0
  BY <1>1 DEF Depth
<1>3. StateOf(V, name, frames, lost) /\ Counted(heap, V, c) /\ LostOK
  BY <1>2 DEF IInv, HeapOK
<1>4. V \subseteq W /\ None \in V
  BY AliveValues
<1>5. c \in [Objects -> Nat]
  BY <1>3 DEF Counted
<1> HIDE DEF c, V, W
<1>6. Plus(c, <<None>>) = c
  <2>1. ~Counts(None)
    BY DEF Counts, None
  <2> QED BY <1>5, <2>1, PlusNone
<1>7. Counted(heap, V, Plus(Outside(name, frames, lost), <<None>>))
  BY <1>3, <1>6 DEF c
<1>8. StateOf(W, name, gr, lost) /\ Counted(heap, W, Outside(name, gr, lost)) /\ Len(gr) = Len(frames) + 1
  BY <1>3, <1>4, <1>7, Entered
<1>9. frames' = gr
  BY <1>1
<1>10. Len(gr) = 1 /\ gr[1] = Frame(None)
  BY <1>1
<1> HIDE DEF gr
<1>11. Depth' = 1
  BY <1>9, <1>10 DEF Depth
<1>12. HeapOK'
  BY <1>1, <1>8, <1>9, <1>11 DEF HeapOK, W
<1>13. FramesOK(frames')
  <2> DEFINE none == <<>>
  <2>1. none \in Seq(Wholes) /\ Len(none) = 0
    OBVIOUS
  <2>2. Frame(None).fields = none /\ Frame(None).ops = none
    BY DEF Frame
  <2> HIDE DEF none
  <2>3. 0 <= MaxOps /\ 1 <= MaxFrames
    BY BoundsAssumption
  <2>4. \A k \in 1..Len(gr) : k = 1 /\ ~(k < Len(gr))
    BY <1>10
  <2>5. \A k \in 1..Len(gr) : gr[k].fields = none /\ gr[k].ops = none
    BY <1>10, <2>2, <2>4
  <2>6. FramesOK(gr)
    BY <1>10, <2>1, <2>3, <2>4, <2>5 DEF FramesOK
  <2> QED BY <1>9, <2>6
<1>14. LostOK' /\ status' \in Statuses /\ Stable
  BY <1>1, <1>3 DEF LostOK, IInv, Stable
<1> QED BY <1>12, <1>13, <1>14 DEF Good

LEMMA CallKeeps ==
  ASSUME IInv, Running, NEW term \in Terms, Call(term)
  PROVE  Good /\ Stable
<1> DEFINE s == Operand(term)
           ops == Pending(term)
           v == s.value
           V == Alive(Depth)
           W == Alive(Depth + 1)
           fr == WithOps(frames, ops)
           gr == Append(fr, Frame(v))
           forgot == s.lost
<1>1. /\ Active /\ FramesOK(frames) /\ LostOK /\ status \in Statuses /\ May(term)
      /\ Depth < MaxFrames /\ Len(ops) < MaxOps /\ Depth \in Nat /\ Depth > 0 /\ ValueSet(V)
  BY RunningActive, ActiveState DEF Call
<1>2. CASE s.fault # "ok"
  <2>1. Panic(s.fault) /\ s.fault \in Statuses
    BY <1>1, <1>2, FaultType DEF Call
  <2> QED BY <2>1, PanicGood
<1>3. CASE s.fault = "ok"
  <2>1. /\ heap' = s.heap /\ Lose(forgot) /\ name' = name /\ status' = status
        /\ frames' = Append([frames EXCEPT ![Depth].ops = ops], Frame(v))
    BY <1>3, SMTT(30) DEF Call
  <2>2. Ready(s.heap, ops, <<v>>, forgot) /\ Grows(heap, s.heap) /\ v \in V
    BY <1>1, <1>3, OperandKeeps
  <2>3. ops \in Seq(V) /\ Len(ops) \in Nat /\ forgot \in Seq(V)
    BY <1>1, <1>3, <2>2, PendingType DEF Ready
  <2> DEFINE h == s.heap
             ls == [o \in Objects |-> lost[o] + Uses(forgot, o)]
  <2>4. lost' = ls
    BY <2>1 DEF Lose
  <2>5. StateOf(V, name, frames, lost) /\ frames # <<>> /\ frames \in Seq(FrameOf(V))
    BY <1>1, ActiveState DEF Active, StateOf
  <2>6. V \subseteq W /\ None \in V
    BY <1>1, AliveValues
  <2>7. Counted(h, V, Plus(Plus(Plus(Base, ops), forgot), <<v>>)) /\ Grows(heap, h)
    BY <2>2 DEF Ready
  <2>8. heap' = h
    BY <2>1
  <2> HIDE DEF s, V, W, ops, v, forgot, h
  <2>9. StateOf(V, name, fr, lost) /\ Outside(name, fr, lost) = Plus(Base, ops)
    BY <2>3, <2>5, OpsCount DEF Base
  <2>10. /\ fr \in Seq(FrameOf(V)) /\ Len(fr) = Depth /\ DOMAIN fr = DOMAIN frames
         /\ Depth \in DOMAIN frames
         /\ \A k \in DOMAIN frames \ {Depth} : fr[k] = frames[k]
         /\ fr[Depth].fields = frames[Depth].fields /\ fr[Depth].ops = ops
    BY <2>3, <2>5, WithOpsType DEF Depth
  <2>11. frames' = gr
    <3> DEFINE fr2 == [frames EXCEPT ![Depth].ops = ops]
    <3>1. fr = fr2
      BY <2>10 DEF WithOps, Depth
    <3> QED BY <2>1, <3>1
  <2> HIDE DEF fr
  <2>12. StateOf(V, name, fr, ls) /\ Outside(name, fr, ls) = Plus(Plus(Base, ops), forgot)
    BY <2>3, <2>9, LostCount
  <2> HIDE DEF ls
  <2>13. Counted(h, V, Plus(Outside(name, fr, ls), <<v>>))
    BY <2>7, <2>12
  <2>14. v \in V
    BY <2>2
  <2>15. /\ StateOf(W, name, gr, ls) /\ Counted(h, W, Outside(name, gr, ls))
         /\ Len(gr) = Len(fr) + 1
    BY ONLY <2>6, <2>12, <2>13, <2>14, Entered
  <2>16. gr[Depth + 1] = Frame(v) /\ \A k \in DOMAIN fr : gr[k] = fr[k]
    BY <1>1, <2>10
  <2> HIDE DEF gr
  <2>17. Depth' = Depth + 1
    BY <2>10, <2>11, <2>15 DEF Depth
  <2>18. HeapOK'
    BY <2>1, <2>4, <2>8, <2>11, <2>15, <2>17 DEF HeapOK, W
  <2>19. FramesOK(frames')
    <3>1. Len(gr) = Depth + 1 /\ Depth + 1 <= MaxFrames
      BY <1>1, <2>10, <2>15, BoundsAssumption
    <3>2. DOMAIN frames = 1..Depth
      BY <2>5 DEF Depth
    <3> SUFFICES ASSUME NEW k \in 1..Depth + 1
                 PROVE  /\ gr[k].fields \in Seq(Wholes)
                        /\ Len(gr[k].ops) <= MaxOps /\ (k < Depth + 1 => Len(gr[k].ops) < MaxOps)
      BY <2>11, <3>1 DEF FramesOK
    <3>3. CASE k = Depth + 1
      <4> DEFINE none == <<>>
      <4>1. none \in Seq(Wholes) /\ Len(none) = 0
        OBVIOUS
      <4>2. gr[k].fields = none /\ gr[k].ops = none
        BY <2>16, <3>3 DEF Frame
      <4> HIDE DEF none
      <4>3. 0 <= MaxOps
        BY BoundsAssumption
      <4>4. ~(k < Depth + 1)
        BY <1>1, <3>3
      <4> QED BY <4>1, <4>2, <4>3, <4>4
    <3>4. CASE k = Depth
      <4>1. gr[k].fields = frames[k].fields /\ gr[k].ops = ops
        BY <2>10, <2>16, <3>4
      <4>2. frames[k].fields \in Seq(Wholes)
        BY <1>1, <2>10, <3>2, <3>4 DEF FramesOK, Depth
      <4>3. Len(ops) <= MaxOps /\ Len(ops) < MaxOps
        BY <1>1, <2>3, BoundsAssumption DEF ops
      <4> QED BY <4>1, <4>2, <4>3
    <3>5. CASE k \in 1..Depth /\ k # Depth
      <4>1. gr[k] = frames[k] /\ k \in 1..Len(frames) /\ k < Len(frames)
        BY <1>1, <2>10, <2>16, <3>2, <3>5, SMTT(30) DEF Depth
      <4> QED BY <1>1, <4>1 DEF FramesOK
    <3> QED BY <1>1, <3>3, <3>4, <3>5
  <2>20. LostOK'
    BY <1>1, <2>1, <2>3, LoseBound
  <2>21. status' \in Statuses /\ Stable
    BY <1>1, <2>1, <2>7, <2>8 DEF Grows, Stable
  <2> QED BY <2>18, <2>19, <2>20, <2>21 DEF Good
<1> QED BY <1>2, <1>3

(***************************************************************************)
(* Invocations end: the references to their variables dangle.              *)
(***************************************************************************)

LEMMA SameUsers ==
  ASSUME NEW vs, NEW ws, SameUses(vs, ws), NEW o
  PROVE  Users(vs, o) = Users(ws, o) /\ Uses(vs, o) = Uses(ws, o)
<1>1. Users(vs, o) = Users(ws, o)
  BY DEF Users, SameUses
<1>2. Uses(vs, o) = Uses(ws, o)
  BY UsesSame DEF SameUses
<1> QED BY <1>1, <1>2

LEMMA SameConcat ==
  ASSUME NEW V, NEW W, NEW vs \in Seq(V), NEW ws \in Seq(V), NEW vs2 \in Seq(W), NEW ws2 \in Seq(W),
         SameUses(vs2, vs), SameUses(ws2, ws)
  PROVE  SameUses(vs2 \o ws2, vs \o ws)
<1>1. /\ Len(vs) \in Nat /\ Len(ws) \in Nat /\ Len(vs2) = Len(vs) /\ Len(ws2) = Len(ws)
      /\ DOMAIN vs = 1..Len(vs) /\ DOMAIN ws = 1..Len(ws)
  BY DEF SameUses
<1> DEFINE j == vs \o ws
           j2 == vs2 \o ws2
           m == Len(vs)
           n == Len(vs) + Len(ws)
<1>2. /\ DOMAIN j = 1..n /\ DOMAIN j2 = 1..n
      /\ \A i \in 1..n : j[i] = IF i <= m THEN vs[i] ELSE ws[i - m]
      /\ \A i \in 1..n : j2[i] = IF i <= m THEN vs2[i] ELSE ws2[i - m]
  <2>1. Len(j) = n /\ DOMAIN j = 1..n /\ \A i \in 1..n : j[i] = IF i <= m THEN vs[i] ELSE ws[i - m]
    BY <1>1
  <2>2. Len(j2) = n /\ DOMAIN j2 = 1..n /\ \A i \in 1..n : j2[i] = IF i <= m THEN vs2[i] ELSE ws2[i - m]
    <3>1. /\ j2 \in Seq(W) /\ Len(j2) = Len(vs2) + Len(ws2)
          /\ \A i \in 1..(Len(vs2) + Len(ws2)) :
               j2[i] = IF i <= Len(vs2) THEN vs2[i] ELSE ws2[i - Len(vs2)]
      BY ConcatProperties, ZenonT(30)
    <3> HIDE DEF j2
    <3> QED BY <1>1, <3>1
  <2> HIDE DEF j, j2, m, n
  <2> QED BY <2>1, <2>2, Zenon
<1> HIDE DEF j, j2
<1>3. ASSUME NEW i \in 1..n, NEW o PROVE Holds(j2[i], o) <=> Holds(j[i], o)
  <2>1. CASE i <= m
    BY <1>1, <1>2, <2>1, SMTT(30) DEF SameUses
  <2>2. CASE ~(i <= m)
    <3>1. i - m \in 1..Len(ws)
      BY <1>1, <2>2
    <3> QED BY <1>1, <1>2, <2>2, <3>1 DEF SameUses
  <2> QED BY <2>1, <2>2
<1>4. SameUses(j2, j)
  BY <1>2, <1>3 DEF SameUses
<1> QED BY <1>4 DEF j, j2

LEMMA RenameOne ==
  ASSUME NEW V, NEW W, NEW old, Renames(V, W, old), NEW v \in V
  PROVE  old[v] \in W /\ old[v] \in {v, Dangling} /\ \A o : Holds(old[v], o) <=> Holds(v, o)
<1>1. old[v] = v \/ (old[v] = Dangling /\ v.type = "reference")
  BY DEF Renames
<1>2. \A o : Holds(old[v], o) <=> Holds(v, o)
  BY <1>1 DEF Holds, Counts, Dangling
<1> QED BY <1>1, <1>2 DEF Renames

LEMMA MapSeqType ==
  ASSUME NEW V, NEW W, NEW old, Renames(V, W, old), NEW vs \in Seq(V)
  PROVE  LET ws == MapSeq(old, vs)
         IN  /\ ws \in Seq(W) /\ Len(ws) = Len(vs) /\ DOMAIN ws = DOMAIN vs /\ SameUses(ws, vs)
             /\ \A i \in DOMAIN vs : ws[i] = old[vs[i]] /\ ws[i] \in {vs[i], Dangling}
<1> DEFINE ws == MapSeq(old, vs)
           n == Len(vs)
<1>1. n \in Nat /\ DOMAIN vs = 1..n /\ \A i \in 1..n : vs[i] \in V
  OBVIOUS
<1>2. ws = [i \in 1..n |-> old[vs[i]]]
  BY <1>1 DEF MapSeq
<1>3. \A i \in 1..n : /\ old[vs[i]] \in W /\ old[vs[i]] \in {vs[i], Dangling}
                      /\ \A o : Holds(old[vs[i]], o) <=> Holds(vs[i], o)
  BY <1>1, RenameOne
<1> HIDE DEF ws, n
<1>4. ws \in Seq(W) /\ Len(ws) = n /\ DOMAIN ws = 1..n /\ \A i \in 1..n : ws[i] = old[vs[i]]
  BY <1>1, <1>2, <1>3
<1>5. SameUses(ws, vs)
  BY <1>1, <1>3, <1>4 DEF SameUses
<1> QED BY <1>1, <1>3, <1>4, <1>5 DEF ws, n

LEMMA HeapRenamed ==
  ASSUME NEW V, ValueSet(V), NEW W, NEW old, Renames(V, W, old), NEW h, NEW c, Counted(h, V, c)
  PROVE  /\ Counted(Renamed(old, h), W, c)
         /\ \A o \in Objects : /\ Renamed(old, h)[o].kind = h[o].kind
                               /\ Renamed(old, h)[o].elems = MapSeq(old, h[o].elems)
<1> DEFINE g == Renamed(old, h)
<1>1. h \in HeapOf(V) /\ c \in [Objects -> Nat]
  BY DEF Counted
<1>2. ASSUME NEW o \in Objects
      PROVE  /\ g[o] \in Cell(W) /\ CellOK(g[o])
             /\ g[o].kind = h[o].kind /\ g[o].rc = h[o].rc /\ g[o].size = h[o].size
             /\ g[o].elems = MapSeq(old, h[o].elems)
             /\ SameUses(g[o].elems, h[o].elems)
  <2> DEFINE cell == h[o]
             e == cell.elems
             f == MapSeq(old, e)
  <2>1. cell \in Cell(V) /\ CellOK(cell)
    BY <1>1, CellType
  <2>2. e \in Seq(V) /\ cell.size \in Nat
    BY <2>1 DEF Cell
  <2>3. /\ f \in Seq(W) /\ Len(f) = Len(e) /\ DOMAIN f = DOMAIN e /\ SameUses(f, e)
        /\ \A i \in DOMAIN e : f[i] = old[e[i]]
    <3> HIDE DEF e
    <3> QED BY <2>2, MapSeqType
  <2>4. g[o] = [cell EXCEPT !.elems = f]
    BY DEF Renamed
  <2> HIDE DEF f, g
  <2>5. /\ g[o] \in Cell(W) /\ g[o].kind = cell.kind /\ g[o].rc = cell.rc /\ g[o].size = cell.size
        /\ g[o].elems = f
    BY <2>1, <2>3, <2>4, SMTT(30) DEF Cell
  <2>6. old[None] = None
    <3>1. None \in V
      BY DEF ValueSet
    <3>2. None.type # "reference"
      BY DEF None
    <3> QED BY <3>1, <3>2 DEF Renames
  <2>7. e = <<>> => f = <<>>
    BY <2>2, <2>3
  <2>8. CellOK(g[o])
    BY <2>1, <2>3, <2>5, <2>6, <2>7 DEF CellOK
  <2> QED BY <2>3, <2>5, <2>8 DEF f
<1>3. g = [o \in Objects |-> g[o]]
  BY DEF Renamed
<1> HIDE DEF g
<1>4. g \in HeapOf(W)
  BY <1>2, <1>3 DEF HeapOf
<1>5. ASSUME NEW o PROVE UsesIn(Rows(g), o) = UsesIn(Rows(h), o)
  <2>1. \A p \in Objects : Users(g[p].elems, o) = Users(h[p].elems, o)
    BY <1>2, SameUsers
  <2>2. \A p \in Objects : Users(Rows(g)[p], o) = Users(Rows(h)[p], o)
    BY <2>1 DEF Rows
  <2>3. DOMAIN Rows(g) = Objects /\ DOMAIN Rows(h) = Objects
    BY DEF Rows
  <2> QED BY <2>2, <2>3, UsesInSame
<1>6. Counted(g, W, c)
  BY <1>1, <1>2, <1>4, <1>5 DEF Counted
<1> QED BY <1>2, <1>6 DEF g

LEMMA WitherRenamed ==
  ASSUME NEW V, ValueSet(V), NEW W, NEW old, Renames(V, W, old), NEW h, NEW k, NEW c, Counted(k, V, c),
         Shrinks(h, k)
  PROVE  Withers(h, Renamed(old, k))
<1> DEFINE g == Renamed(old, k)
<1>1. \A o \in Objects : g[o].kind = k[o].kind /\ g[o].elems = MapSeq(old, k[o].elems)
  BY HeapRenamed
<1> HIDE DEF g
<1> SUFFICES ASSUME NEW x \in Objects, g[x].kind # "free"
             PROVE  /\ DOMAIN g[x].elems = DOMAIN h[x].elems
                    /\ \A i \in DOMAIN h[x].elems : g[x].elems[i] \in {h[x].elems[i], Dangling}
  BY DEF Withers, g
<1> DEFINE e == k[x].elems
<1>2. e = h[x].elems
  BY <1>1 DEF Shrinks
<1>3. e \in Seq(V)
  BY CellType DEF Counted
<1> HIDE DEF e
<1>4. LET ws == MapSeq(old, e)
      IN  DOMAIN ws = DOMAIN e /\ \A i \in DOMAIN e : ws[i] \in {e[i], Dangling}
  BY <1>3, MapSeqType
<1>5. g[x].elems = MapSeq(old, e)
  BY <1>1 DEF e
<1> QED BY <1>2, <1>4, <1>5

LEMMA WholesValues ==
  ASSUME NEW V, ValueSet(V), NEW vs \in Seq(Wholes)
  PROVE  vs \in Seq(V)
<1>1. Wholes \subseteq V
  BY DEF Wholes, ValueSet
<1>2. \A i \in 1..Len(vs) : vs[i] \in V
  BY <1>1
<1> QED BY <1>2

LEMMA PairSame ==
  ASSUME NEW V, NEW W, NEW old, Renames(V, W, old), NEW v \in V, NEW w \in V
  PROVE  SameUses(<<old[v], old[w]>>, <<v, w>>)
<1>1. \A o : (Holds(old[v], o) <=> Holds(v, o)) /\ (Holds(old[w], o) <=> Holds(w, o))
  BY RenameOne
<1> DEFINE a == <<old[v], old[w]>>
           b == <<v, w>>
<1>2. /\ DOMAIN a = {1, 2} /\ DOMAIN b = {1, 2}
      /\ a[1] = old[v] /\ a[2] = old[w] /\ b[1] = v /\ b[2] = w
  OBVIOUS
<1> HIDE DEF a, b
<1>3. SameUses(a, b)
  BY <1>1, <1>2 DEF SameUses
<1> QED BY <1>3 DEF a, b

LEMMA FrameRenamed ==
  ASSUME NEW V, ValueSet(V), NEW W, ValueSet(W), NEW old, Renames(V, W, old),
         NEW f \in FrameOf(V), f.fields \in Seq(Wholes)
  PROVE  LET g == RenamedFrame(old, f)
         IN  /\ g \in FrameOf(W) /\ g.fields = f.fields /\ Len(g.ops) = Len(f.ops)
             /\ \A o : Users(Kept(g), o) = Users(Kept(f), o)
<1> DEFINE g == RenamedFrame(old, f)
           ops == f.ops
           ops2 == MapSeq(old, ops)
           fields == f.fields
           two == <<f.local, f.arg>>
           two2 == <<old[f.local], old[f.arg]>>
<1>1. ops \in Seq(V) /\ f.local \in V /\ f.arg \in V /\ fields \in Seq(V) /\ fields \in Seq(W)
  BY WholesValues DEF FrameOf
<1> HIDE DEF ops
<1>2. ops2 \in Seq(W) /\ Len(ops2) = Len(ops) /\ SameUses(ops2, ops)
  BY <1>1, MapSeqType
<1>3. old[f.local] \in W /\ old[f.arg] \in W
  BY <1>1, RenameOne
<1> HIDE DEF ops2
<1>4. /\ g \in FrameOf(W) /\ g.local = old[f.local] /\ g.arg = old[f.arg] /\ g.fields = fields
      /\ g.ops = ops2
  BY <1>1, <1>2, <1>3 DEF FrameOf, RenamedFrame, ops2, ops
<1>5. two \in Seq(V) /\ two2 \in Seq(W) /\ SameUses(two2, two)
  BY <1>1, <1>3, PairSame
<1>6. SameUses(fields, fields)
  BY DEF SameUses
<1>7. Kept(f) = (two \o fields) \o ops /\ Kept(g) = (two2 \o fields) \o ops2
  BY <1>4 DEF Kept, ops
<1> HIDE DEF two, two2, fields, g
<1>8. SameUses(two2 \o fields, two \o fields)
  BY <1>1, <1>5, <1>6, SameConcat
<1> DEFINE x == two \o fields
           x2 == two2 \o fields
<1>9. x \in Seq(V) /\ x2 \in Seq(W)
  BY <1>1, <1>5, ConcatLen
<1>10. SameUses(x2, x) /\ Kept(f) = x \o ops /\ Kept(g) = x2 \o ops2
  BY <1>7, <1>8
<1> HIDE DEF x, x2
<1>11. SameUses(x2 \o ops2, x \o ops)
  BY <1>1, <1>2, <1>9, <1>10, SameConcat
<1>12. SameUses(Kept(g), Kept(f))
  BY <1>10, <1>11
<1>13. \A o : Users(Kept(g), o) = Users(Kept(f), o)
  BY <1>12, SameUsers
<1> QED BY <1>2, <1>4, <1>13 DEF g, ops, fields

LEMMA StateRenamed ==
  ASSUME NEW V, ValueSet(V), NEW W, ValueSet(W), NEW old, Renames(V, W, old),
         NEW nm, NEW fr, NEW ls, StateOf(V, nm, fr, ls),
         \A k \in 1..Len(fr) : fr[k].fields \in Seq(Wholes)
  PROVE  LET nm2 == RenamedNames(old, nm)
             fr2 == RenamedFrames(old, fr)
         IN  /\ StateOf(W, nm2, fr2, ls) /\ Outside(nm2, fr2, ls) = Outside(nm, fr, ls)
             /\ Len(fr2) = Len(fr)
             /\ \A k \in 1..Len(fr) :
                  fr2[k].fields = fr[k].fields /\ Len(fr2[k].ops) = Len(fr[k].ops)
<1> DEFINE nm2 == RenamedNames(old, nm)
           fr2 == RenamedFrames(old, fr)
           S == FrameOf(V)
           T == FrameOf(W)
<1>1. /\ nm \in [Names -> V] /\ fr \in Seq(S) /\ ls \in [Objects -> Nat]
  BY DEF StateOf
<1>2. /\ nm2 \in [Names -> W] /\ DOMAIN nm2 = DOMAIN nm
      /\ \A n \in Names : \A o : Holds(nm2[n], o) <=> Holds(nm[n], o)
  <2>1. \A n \in Names : old[nm[n]] \in W /\ \A o : Holds(old[nm[n]], o) <=> Holds(nm[n], o)
    BY <1>1, RenameOne
  <2> QED BY <1>1, <2>1 DEF RenamedNames
<1>3. Len(fr) \in Nat /\ DOMAIN fr = 1..Len(fr) /\ \A k \in DOMAIN fr : fr[k] \in S
  <2> HIDE DEF S
  <2> QED BY <1>1
<1>4. ASSUME NEW k \in DOMAIN fr
      PROVE  LET g == RenamedFrame(old, fr[k])
             IN  /\ g \in T /\ g.fields = fr[k].fields /\ Len(g.ops) = Len(fr[k].ops)
                 /\ \A o : Users(Kept(g), o) = Users(Kept(fr[k]), o)
  <2> DEFINE f == fr[k]
  <2>1. f \in FrameOf(V) /\ f.fields \in Seq(Wholes)
    BY <1>3
  <2> HIDE DEF f
  <2>2. LET g == RenamedFrame(old, f)
        IN  /\ g \in FrameOf(W) /\ g.fields = f.fields /\ Len(g.ops) = Len(f.ops)
            /\ \A o : Users(Kept(g), o) = Users(Kept(f), o)
    BY <2>1, FrameRenamed
  <2> QED BY <2>2 DEF f
<1> HIDE DEF S, T, nm2
<1>5. fr2 = [k \in 1..Len(fr) |-> RenamedFrame(old, fr[k])]
  BY <1>3 DEF RenamedFrames
<1> HIDE DEF fr2
<1>6. /\ fr2 \in Seq(T) /\ Len(fr2) = Len(fr) /\ DOMAIN fr2 = DOMAIN fr
      /\ \A k \in DOMAIN fr : fr2[k] = RenamedFrame(old, fr[k])
  BY <1>3, <1>4, <1>5
<1>7. StateOf(W, nm2, fr2, ls)
  BY <1>1, <1>2, <1>6 DEF StateOf, T
<1>8. ASSUME NEW o \in Objects
      PROVE  Uses(nm2, o) = Uses(nm, o) /\ UsesIn(FrameRows(fr2), o) = UsesIn(FrameRows(fr), o)
  <2>1. Uses(nm2, o) = Uses(nm, o)
    BY <1>1, <1>2, UsesSame
  <2>2. DOMAIN FrameRows(fr2) = DOMAIN fr /\ DOMAIN FrameRows(fr) = DOMAIN fr
    BY <1>6 DEF FrameRows
  <2>3. \A k \in DOMAIN fr : Users(FrameRows(fr2)[k], o) = Users(FrameRows(fr)[k], o)
    BY <1>4, <1>6 DEF FrameRows
  <2> QED BY <2>1, <2>2, <2>3, UsesInSame
<1>9. Outside(nm2, fr2, ls) = Outside(nm, fr, ls)
  BY <1>8 DEF Outside
<1>10. \A k \in 1..Len(fr) : fr2[k].fields = fr[k].fields /\ Len(fr2[k].ops) = Len(fr[k].ops)
  BY <1>3, <1>4, <1>6, SMTT(30)
<1> QED BY <1>6, <1>7, <1>9, <1>10 DEF nm2, fr2

\* More pending operands for the invocation on top.
LEMMA OpsMore ==
  ASSUME NEW V, NEW nm, NEW fr, NEW ls, StateOf(V, nm, fr, ls), fr # <<>>, NEW rs \in Seq(V)
  PROVE  LET gr == WithOps(fr, fr[Len(fr)].ops \o rs)
         IN  /\ StateOf(V, nm, gr, ls) /\ Outside(nm, gr, ls) = Plus(Outside(nm, fr, ls), rs)
<1> DEFINE ops == fr[Len(fr)].ops
           more == ops \o rs
           none == <<>>
           bare == Outside(nm, WithOps(fr, none), ls)
<1>1. fr \in Seq(FrameOf(V)) /\ none \in Seq(V)
  BY DEF StateOf
<1>2. ops \in Seq(V)
  <2> DEFINE S == FrameOf(V)
  <2>1. fr \in Seq(S) /\ fr # <<>>
    BY <1>1
  <2> HIDE DEF S
  <2>2. fr[Len(fr)] \in S
    BY <2>1
  <2> QED BY <2>2 DEF S, FrameOf
<1> HIDE DEF ops, none
<1>3. more \in Seq(V)
  BY <1>2, ConcatLen
<1>4. WithOps(fr, ops) = fr
  <2>1. \A k \in DOMAIN fr : fr[k] \in FrameOf(V)
    BY <1>1, FrameRowsFinite
  <2>2. \A k \in DOMAIN fr : [fr[k] EXCEPT !.ops = fr[k].ops] = fr[k]
    BY <2>1 DEF FrameOf
  <2>3. DOMAIN fr = 1..Len(fr)
    <3> DEFINE S == FrameOf(V)
    <3>1. fr \in Seq(S)
      BY <1>1
    <3> HIDE DEF S
    <3> QED BY <3>1
  <2>4. fr = [k \in DOMAIN fr |-> fr[k]]
    <3> DEFINE S == FrameOf(V)
    <3>1. fr \in Seq(S)
      BY <1>1
    <3> HIDE DEF S
    <3> QED BY <3>1
  <2> QED BY <2>2, <2>4 DEF WithOps, ops
<1> HIDE DEF more
<1>5. /\ StateOf(V, nm, WithOps(fr, more), ls)
      /\ Outside(nm, WithOps(fr, more), ls) = Plus(Outside(nm, WithOps(fr, <<>>), ls), more)
  BY <1>3, OpsCount
<1>6. Outside(nm, WithOps(fr, ops), ls) = Plus(Outside(nm, WithOps(fr, <<>>), ls), ops)
  BY <1>2, OpsCount
<1>7. StateOf(V, nm, WithOps(fr, none), ls)
  BY <1>1, OpsCount
<1>8. bare \in [Objects -> Nat]
  BY <1>7, OutsideAt
<1>9. bare = Outside(nm, WithOps(fr, <<>>), ls)
  BY DEF none
<1> HIDE DEF bare
<1>10. Plus(Plus(bare, ops), rs) = Plus(bare, ops \o rs)
  BY <1>2, <1>8, PlusConcat
<1> QED BY <1>4, <1>5, <1>6, <1>9, <1>10 DEF more, ops

LEMMA BaseSplit ==
  ASSUME Active
  PROVE  /\ StateOf(Alive(Depth), name, Front, lost) /\ Len(Front) = Depth - 1
         /\ DOMAIN Front = 1..Depth - 1 /\ \A k \in 1..Depth - 1 : Front[k] = frames[k]
         /\ \A o \in Objects :
              Base[o] = Outside(name, Front, lost)[o]
                        + ((One(Top.local, o) + One(Top.arg, o)) + Uses(Top.fields, o))
<1> DEFINE V == Alive(Depth)
           S == FrameOf(V)
           n == Depth
           none == <<>>
           bare == [Top EXCEPT !.ops = none]
           gr == Append(Front, bare)
           fr == WithOps(frames, none)
<1>1. /\ n \in Nat /\ n > 0 /\ StateOf(V, name, frames, lost) /\ Top \in S /\ frames # <<>>
  BY ActiveState DEF Active
<1>2. /\ frames \in Seq(S) /\ Len(frames) = n /\ DOMAIN frames = 1..n
      /\ \A k \in 1..n : frames[k] \in S
  <2>1. frames \in Seq(S) /\ Len(frames) = n
    BY <1>1 DEF StateOf, Depth
  <2> HIDE DEF S, n
  <2> QED BY <2>1
<1>3. none \in Seq(V) /\ \A o : Uses(none, o) = 0
  BY UsesNone
<1> HIDE DEF none
<1>4. bare \in S /\ bare.local = Top.local /\ bare.arg = Top.arg /\ bare.fields = Top.fields
      /\ bare.ops = none
  BY <1>1, <1>3 DEF FrameOf
<1> HIDE DEF bare
<1>5. n - 1 \in Nat /\ \A k \in 1..n - 1 : k \in 1..n /\ k # n
  BY <1>1
<1>6. /\ Front \in Seq(S) /\ Len(Front) = n - 1 /\ DOMAIN Front = 1..n - 1
      /\ \A k \in 1..n - 1 : Front[k] = frames[k]
  <2>1. Front = [k \in 1..n - 1 |-> frames[k]]
    BY DEF Front
  <2> HIDE DEF S, n
  <2> QED BY <1>2, <1>5, <2>1
<1>7. StateOf(V, name, Front, lost)
  BY <1>1, <1>6 DEF StateOf
<1>8. gr = fr
  <2>1. fr = [k \in 1..n |-> IF k = n THEN bare ELSE frames[k]]
    BY <1>2 DEF WithOps, Top, bare
  <2>2. gr = [k \in 1..n |-> IF k = n THEN bare ELSE frames[k]]
    <3> HIDE DEF S, n
    <3>1. gr \in Seq(S) /\ Len(gr) = n /\ gr[n] = bare /\ \A k \in 1..n - 1 : gr[k] = Front[k]
      BY <1>1, <1>4, <1>5, <1>6
    <3> HIDE DEF gr
    <3>2. gr = [k \in 1..n |-> gr[k]]
      BY <1>1, <3>1
    <3>3. \A k \in 1..n : gr[k] = IF k = n THEN bare ELSE frames[k]
      <4> SUFFICES ASSUME NEW k \in 1..n PROVE gr[k] = IF k = n THEN bare ELSE frames[k]
        OBVIOUS
      <4>1. CASE k = n
        BY <3>1, <4>1
      <4>2. CASE k # n
        <5>1. k \in 1..n - 1
          BY <1>1, <4>2
        <5> QED BY <1>6, <3>1, <4>2, <5>1
      <4> QED BY <4>1, <4>2
    <3> QED BY <3>2, <3>3
  <2> QED BY <2>1, <2>2
<1>9. \A o \in Objects : Outside(name, gr, lost)[o] = Outside(name, Front, lost)[o] + Uses(Kept(bare), o)
  <2>1. bare \in FrameOf(V)
    BY <1>4
  <2> HIDE DEF V
  <2> QED BY <1>7, <2>1, AppendFrame
<1>10. ASSUME NEW o \in Objects
       PROVE  Uses(Kept(bare), o) = (One(Top.local, o) + One(Top.arg, o)) + Uses(Top.fields, o)
  <2>1. /\ Uses(Kept(bare), o) = (One(bare.local, o) + One(bare.arg, o)) + Uses(bare.fields, o) + Uses(bare.ops, o)
        /\ Uses(bare.fields, o) \in Nat
        /\ One(bare.local, o) \in Nat /\ One(bare.arg, o) \in Nat
    BY <1>4, KeptUses
  <2> QED BY <1>3, <1>4, <2>1
<1>11. Base = Outside(name, gr, lost)
  BY <1>8 DEF Base, none
<1> QED BY <1>6, <1>7, <1>9, <1>10, <1>11

LEMMA LeaveCount ==
  ASSUME Active, NEW h, NEW gone \in Seq(Alive(Depth)), NEW rs \in Seq(Alive(Depth)), NEW forgot,
         Ready(h, <<>>, gone \o rs, forgot)
  PROVE  LET left == <<Top.local, Top.arg>> \o Top.fields \o gone
             c == Plus(Plus(Outside(name, Front, lost), forgot), rs)
         IN  /\ left \in Seq(Alive(Depth)) /\ c \in [Objects -> Nat]
             /\ Counted(h, Alive(Depth), Plus(c, left))
<1> DEFINE V == Alive(Depth)
           two == <<Top.local, Top.arg>>
           held == two \o Top.fields
           left == held \o gone
           out == Outside(name, Front, lost)
           c == Plus(Plus(out, forgot), rs)
           none == <<>>
           more == gone \o rs
<1>1. /\ Top \in FrameOf(V) /\ StateOf(V, name, Front, lost) /\ forgot \in Seq(V)
      /\ \A o \in Objects : Base[o] = out[o] + ((One(Top.local, o) + One(Top.arg, o)) + Uses(Top.fields, o))
  BY ActiveState, BaseSplit DEF Ready
<1>2. Top.local \in V /\ Top.arg \in V /\ Top.fields \in Seq(V)
  BY <1>1 DEF FrameOf
<1>3. out \in [Objects -> Nat]
  BY <1>1, OutsideAt
<1>4. none \in Seq(V) /\ \A o : Uses(none, o) = 0
  BY UsesNone
<1>5. Ready(h, none, more, forgot)
  OBVIOUS
<1>6. more \in Seq(V) /\ \A o : Uses(more, o) = Uses(gone, o) + Uses(rs, o)
  BY UsesConcat, ConcatLen
<1>7. two \in Seq(V) /\ \A o : Uses(two, o) = One(Top.local, o) + One(Top.arg, o)
  <2> DEFINE a == <<Top.local>>
             b == <<Top.arg>>
  <2>1. two = a \o b /\ two \in Seq(V) /\ a \in Seq(V) /\ b \in Seq(V)
    BY <1>2, PairConcat, SMTT(30)
  <2>2. \A o : Uses(a, o) = One(Top.local, o) /\ Uses(b, o) = One(Top.arg, o)
    BY UsesOne
  <2> HIDE DEF a, b, two
  <2>3. \A o : Uses(two, o) = Uses(a, o) + Uses(b, o)
    BY <2>1, UsesConcat
  <2> QED BY <2>1, <2>2, <2>3
<1> HIDE DEF none, more, two, out
<1>8. held \in Seq(V) /\ \A o : Uses(held, o) = Uses(two, o) + Uses(Top.fields, o)
  BY <1>2, <1>7, UsesConcat, ConcatLen, SMTT(30)
<1> HIDE DEF held
<1>9. left \in Seq(V) /\ \A o : Uses(left, o) = Uses(held, o) + Uses(gone, o)
  BY <1>8, UsesConcat, ConcatLen
<1> DEFINE d == Plus(out, forgot)
<1>10. /\ d \in [Objects -> Nat] /\ Plus(d, rs) \in [Objects -> Nat]
  <2>1. d \in [Objects -> Nat]
    BY <1>1, <1>3, PlusType
  <2> HIDE DEF d
  <2> QED BY <2>1, PlusType
<1>11. c = Plus(d, rs)
  OBVIOUS
<1> HIDE DEF left, c
<1>12. c \in [Objects -> Nat] /\ Plus(c, left) \in [Objects -> Nat]
  BY <1>9, <1>10, <1>11, PlusType
<1>13. Counted(h, V, Total(none, more, forgot)) /\ Total(none, more, forgot) \in [Objects -> Nat]
  <2>1. Counted(h, V, Total(none, more, forgot))
    BY <1>5 DEF Ready, Total
  <2> QED BY <2>1 DEF Counted
<1>14. ASSUME NEW o \in Objects PROVE Plus(c, left)[o] = Total(none, more, forgot)[o]
  <2> DEFINE l == One(Top.local, o) + One(Top.arg, o)
             f == Uses(Top.fields, o)
             g == Uses(gone, o)
             r == Uses(rs, o)
             u == Uses(forgot, o)
             x == out[o]
  <2>1. l \in Nat /\ f \in Nat /\ g \in Nat /\ r \in Nat /\ u \in Nat /\ x \in Nat
    BY <1>1, <1>2, <1>3, UsesOfSeq, SMTT(30) DEF One
  <2>2. Plus(c, left)[o] = c[o] + Uses(left, o) /\ c[o] = d[o] + r /\ d[o] = x + u
    BY <1>11, PlusAt
  <2>3. Uses(left, o) = (l + f) + g
    BY <1>7, <1>8, <1>9
  <2>4. Base[o] = x + (l + f)
    BY <1>1 DEF out
  <2>5. Total(none, more, forgot)[o] = Base[o] + Uses(none, o) + Uses(forgot, o) + Uses(more, o)
    BY <1>1, <1>4, <1>6, TotalAt, SMTT(30)
  <2>6. Uses(none, o) = 0 /\ Uses(more, o) = g + r /\ Uses(forgot, o) = u
    BY <1>4, <1>6
  <2> DEFINE p == Plus(c, left)[o]
             t == Total(none, more, forgot)[o]
             cc == c[o]
             dd == d[o]
             b == Base[o]
             ll == Uses(left, o)
             q == Uses(none, o)
             m == Uses(more, o)
             w == Uses(forgot, o)
  <2>7. p = cc + ll /\ cc = dd + r /\ dd = x + u /\ ll = (l + f) + g /\ b = x + (l + f)
    BY <2>2, <2>3, <2>4
  <2>8. t = b + q + w + m /\ q = 0 /\ m = g + r /\ w = u
    BY <2>5, <2>6
  <2> HIDE DEF l, f, g, r, u, x, p, t, cc, dd, b, ll, q, m, w
  <2>9. p = t
    BY ONLY <2>1, <2>7, <2>8
  <2> QED BY <2>9 DEF p, t
<1>15. Counted(h, V, Plus(c, left))
  BY <1>12, <1>13, <1>14, CountedSame
<1> QED BY <1>9, <1>12, <1>15 DEF left, c, held, two, out

LEMMA ExpiredRenames ==
  ASSUME Depth \in Nat, Depth > 0
  PROVE  Renames(Alive(Depth), Alive(Depth - 1), OldVariables)
<1> DEFINE n == Depth
           V == Alive(n)
           W == Alive(n - 1)
<1>1. n - 1 \in Nat /\ n - 1 <= n
  OBVIOUS
<1>2. W \subseteq V /\ Dangling \in W
  BY <1>1, AliveValues
<1>3. ASSUME NEW v \in V
      PROVE  /\ Expired(v, n) \in W
             /\ Expired(v, n) = v \/ (Expired(v, n) = Dangling /\ v.type = "reference")
  <2>1. CASE v \in {Reference(<<"local", n>>), Reference(<<"arg", n>>)}
    BY <1>2, <2>1 DEF Expired, Reference
  <2>2. CASE v \notin {Reference(<<"local", n>>), Reference(<<"arg", n>>)}
    <3>1. Expired(v, n) = v
      BY <2>2 DEF Expired
    <3>2. v \in W
      <4>1. CASE v \in {Reference(p) : p \in Everywhere(n)}
        <5>1. PICK p \in Everywhere(n) : v = Reference(p)
          BY <4>1
        <5>2. p \in Everywhere(n - 1)
          <6>1. CASE p \in {"name"} \X Names
            BY <6>1 DEF Everywhere
          <6>2. CASE p \in {"local", "arg"} \X (1..n)
            <7>1. PICK s \in {"local", "arg"}, k \in 1..n : p = <<s, k>>
              BY <6>2
            <7>2. k # n
              BY <2>2, <5>1, <7>1
            <7>3. k \in 1..n - 1
              BY <7>2
            <7> QED BY <7>1, <7>3 DEF Everywhere
          <6> QED BY <6>1, <6>2 DEF Everywhere
        <5> QED BY <5>1, <5>2 DEF Alive
      <4>2. CASE v \notin {Reference(p) : p \in Everywhere(n)}
        BY <4>2 DEF Alive
      <4> QED BY <4>1, <4>2
    <3> QED BY <3>1, <3>2
  <2> QED BY <2>1, <2>2
<1> QED BY <1>2, <1>3 DEF Renames, OldVariables

\* The parts of the state after an invocation was left.
LEMMA LeaveParts ==
  ASSUME Active, FramesOK(frames), NEW h, NEW gone, NEW results, NEW forgot,
         Leave(h, gone, results, forgot),
         Finalize(h, <<Top.local, Top.arg>> \o Top.fields \o gone) \in HeapOf(Alive(Depth)),
         results \in Seq(Alive(Depth - 1))
  PROVE  LET after == Finalize(h, <<Top.local, Top.arg>> \o Top.fields \o gone)
             fr == RenamedFrames(OldVariables, Front)
         IN  /\ heap' = Renamed(OldVariables, after)
             /\ name' = RenamedNames(OldVariables, name)
             /\ frames' = IF Depth = 1 THEN fr ELSE WithOps(fr, fr[Len(fr)].ops \o results)
<1> DEFINE n == Depth
           V == Alive(n)
           old == OldVariables
           after == Finalize(h, <<Top.local, Top.arg>> \o Top.fields \o gone)
           fr == RenamedFrames(old, Front)
<1>1. /\ n \in Nat /\ n > 0 /\ name \in [Names -> V] /\ frames \in Seq(FrameOf(V))
      /\ \A v \in V : old[v] = Expired(v, n)
  BY ActiveState DEF StateOf, OldVariables
<1>2. heap' = Renamed(old, after)
  <2>1. heap' = [o \in Objects |->
                   [after[o] EXCEPT !.elems = [i \in DOMAIN after[o].elems |-> Expired(after[o].elems[i], n)]]]
    BY DEF Leave
  <2>2. after \in HeapOf(V)
    OBVIOUS
  <2> HIDE DEF after
  <2>3. ASSUME NEW o \in Objects
        PROVE  [i \in DOMAIN after[o].elems |-> Expired(after[o].elems[i], n)] = MapSeq(old, after[o].elems)
    <3> DEFINE e == after[o].elems
    <3>1. e \in Seq(V)
      BY <2>2, CellType
    <3> HIDE DEF e
    <3>2. \A i \in DOMAIN e : e[i] \in V
      <4> HIDE DEF V
      <4> QED BY <3>1
    <3>3. [i \in DOMAIN e |-> Expired(e[i], n)] = MapSeq(old, e)
      BY <1>1, <3>2 DEF MapSeq
    <3> QED BY <3>3 DEF e
  <2> QED BY <2>1, <2>3 DEF Renamed
<1>3. name' = RenamedNames(old, name)
  <2>1. name' = [m \in Names |-> Expired(name[m], n)]
    BY DEF Leave
  <2>2. \A m \in Names : Expired(name[m], n) = old[name[m]]
    BY <1>1
  <2> QED BY <2>1, <2>2, SMTT(30) DEF RenamedNames
<1>4. frames' = IF n = 1 THEN fr ELSE WithOps(fr, fr[Len(fr)].ops \o results)
  <2> DEFINE New(k) == [frames[k] EXCEPT !.local = old[frames[k].local], !.arg = old[frames[k].arg],
                          !.ops = MapSeq(old, frames[k].ops) \o IF k = n - 1 THEN results ELSE <<>>]
  <2>1. frames' = [k \in 1..n - 1 |->
              [frames[k] EXCEPT !.local = Expired(frames[k].local, n),
                                !.arg = Expired(frames[k].arg, n),
                                !.ops = [i \in DOMAIN frames[k].ops |-> Expired(frames[k].ops[i], n)]
                                        \o IF k = n - 1 THEN results ELSE <<>>]]
    BY DEF Leave
  <2>2. \A k \in 1..n - 1 : frames[k] \in FrameOf(V)
    <3>1. DOMAIN frames = 1..n /\ \A k \in 1..n : frames[k] \in FrameOf(V)
      <4> DEFINE S == FrameOf(V)
      <4>1. frames \in Seq(S)
        BY <1>1
      <4> HIDE DEF S
      <4>2. DOMAIN frames = 1..Len(frames) /\ \A k \in 1..Len(frames) : frames[k] \in S
        BY <4>1
      <4> QED BY <4>2 DEF S, Depth
    <3>2. \A k \in 1..n - 1 : k \in 1..n
      BY <1>1
    <3> QED BY <3>1, <3>2
  <2>3. ASSUME NEW k \in 1..n - 1
        PROVE  /\ Expired(frames[k].local, n) = old[frames[k].local]
               /\ Expired(frames[k].arg, n) = old[frames[k].arg]
               /\ [i \in DOMAIN frames[k].ops |-> Expired(frames[k].ops[i], n)] = MapSeq(old, frames[k].ops)
    <3> DEFINE ops == frames[k].ops
    <3>1. frames[k].local \in V /\ frames[k].arg \in V /\ ops \in Seq(V)
      BY <2>2 DEF FrameOf
    <3>2. [i \in DOMAIN ops |-> Expired(ops[i], n)] = MapSeq(old, ops)
      <4> HIDE DEF ops, V
      <4>1. \A i \in DOMAIN ops : ops[i] \in V
        BY <3>1, SMTT(30)
      <4> QED BY <1>1, <4>1 DEF MapSeq
    <3> QED BY <1>1, <3>1, <3>2, ZenonT(30)
  <2>4. frames' = [k \in 1..n - 1 |-> New(k)]
    BY <2>1, <2>3
  <2>5. /\ DOMAIN Front = 1..n - 1 /\ Len(Front) = n - 1
        /\ \A k \in 1..n - 1 : Front[k] = frames[k]
    BY BaseSplit
  <2>6. fr = [k \in 1..n - 1 |-> RenamedFrame(old, frames[k])]
    BY <2>5 DEF RenamedFrames
  <2>7. \A k \in 1..n - 1 : fr[k].ops = MapSeq(old, frames[k].ops)
    <3> SUFFICES ASSUME NEW k \in 1..n - 1 PROVE fr[k].ops = MapSeq(old, frames[k].ops)
      OBVIOUS
    <3>1. fr[k] = RenamedFrame(old, frames[k])
      BY <2>6
    <3>2. frames[k] \in FrameOf(V)
      BY <2>2
    <3> QED BY <3>1, <3>2 DEF RenamedFrame, FrameOf
  <2>8. Len(fr) = n - 1
    BY <1>1, <2>6
  <2> HIDE DEF fr
  <2>9. CASE n = 1
    <3>1. 1..n - 1 = {}
      BY <2>9, SMTT(30)
    <3>2. frames' = fr
      BY <2>4, <2>6, <3>1
    <3> QED BY <2>9, <3>2
  <2>10. CASE n # 1
    <3> DEFINE more == fr[n - 1].ops \o results
    <3>1. WithOps(fr, more) = [k \in 1..n - 1 |-> IF k = n - 1 THEN [fr[k] EXCEPT !.ops = more] ELSE fr[k]]
      BY <2>6, <2>8 DEF WithOps
    <3>2. ASSUME NEW k \in 1..n - 1
          PROVE  New(k) = IF k = n - 1 THEN [fr[k] EXCEPT !.ops = more] ELSE fr[k]
      <4> DEFINE f == frames[k]
                 g == RenamedFrame(old, f)
                 ops == MapSeq(old, f.ops)
      <4>1. f \in FrameOf(V) /\ fr[k] = g
        BY <2>2, <2>6
      <4>2. f.ops \in Seq(V)
        BY <4>1 DEF FrameOf
      <4>3. ops \in Seq(Alive(n - 1))
        <5> DEFINE vs == f.ops
        <5>1. vs \in Seq(V)
          BY <4>2
        <5>2. Renames(V, Alive(n - 1), old)
          BY <1>1, ExpiredRenames
        <5> HIDE DEF vs, V, old
        <5>3. MapSeq(old, vs) \in Seq(Alive(n - 1))
          BY <5>1, <5>2, MapSeqType
        <5> QED BY <5>3 DEF vs
      <4>4. fr[k].ops = ops
        BY <2>7
      <4> HIDE DEF f, ops
      <4>5. CASE k = n - 1
        <5>1. New(k) = [f EXCEPT !.local = old[f.local], !.arg = old[f.arg], !.ops = ops \o results]
          BY <4>5 DEF f, ops
        <5>2. more = ops \o results
          BY <4>4, <4>5
        <5>3. g = [f EXCEPT !.local = old[f.local], !.arg = old[f.arg], !.ops = ops]
          BY DEF RenamedFrame, ops
        <5> HIDE DEF New, more, g
        <5>4. [g EXCEPT !.ops = more] = New(k)
          BY <4>1, <5>1, <5>2, <5>3 DEF FrameOf
        <5> QED BY <4>1, <4>5, <5>4
      <4>6. CASE k # n - 1
        <5>1. New(k) = [f EXCEPT !.local = old[f.local], !.arg = old[f.arg], !.ops = ops \o <<>>]
          BY <4>6 DEF f, ops
        <5>2. ops \o <<>> = ops
          BY <4>3
        <5>3. g = [f EXCEPT !.local = old[f.local], !.arg = old[f.arg], !.ops = ops]
          BY DEF RenamedFrame, ops
        <5> QED BY <4>1, <4>6, <5>1, <5>2, <5>3
      <4> QED BY <4>5, <4>6
    <3> HIDE DEF New
    <3>3. frames' = WithOps(fr, more)
      BY <2>4, <3>1, <3>2
    <3> QED BY <2>8, <2>10, <3>3, SMTT(30)
  <2> QED BY <2>9, <2>10, SMTT(30) DEF fr
<1> QED BY <1>2, <1>3, <1>4

LEMMA LeaveKeeps ==
  ASSUME IInv, Running, NEW h, NEW gone, NEW rs, NEW results, NEW forgot,
         Leaving(h, gone, rs, results, forgot), Leave(h, gone, results, forgot)
  PROVE  Good /\ Steadies(heap, heap') /\ Withers(h, heap')
<1> DEFINE n == Depth
           V == Alive(n)
           W == Alive(n - 1)
           old == OldVariables
           left == <<Top.local, Top.arg>> \o Top.fields \o gone
           after == Finalize(h, left)
           out == Outside(name, Front, lost)
           d == Plus(out, forgot)
           c == Plus(d, rs)
           nm == RenamedNames(old, name)
           fr == RenamedFrames(old, Front)
           gr == WithOps(fr, fr[Len(fr)].ops \o results)
           ls == [o \in Objects |-> lost[o] + Uses(forgot, o)]
<1>1. /\ Active /\ FramesOK(frames) /\ LostOK /\ status \in Statuses
      /\ n \in Nat /\ n > 0 /\ n - 1 \in Nat
  BY RunningActive, ActiveState
<1>2. /\ Ready(h, <<>>, gone \o rs, forgot) /\ Grows(heap, h)
      /\ gone \in Seq(V) /\ rs \in Seq(V) /\ results \in Seq(W)
      /\ SameUses(results, rs) /\ Len(results) <= 1 /\ Len(results) \in Nat
      /\ n = 1 => \A o : Uses(rs, o) = 0
  BY DEF Leaving
<1>3. left \in Seq(V) /\ c \in [Objects -> Nat] /\ Counted(h, V, Plus(c, left))
  BY <1>1, <1>2, LeaveCount
<1>4. ValueSet(V) /\ ValueSet(W) /\ Renames(V, W, old) /\ W \subseteq V /\ forgot \in Seq(V)
  BY <1>1, <1>2, AliveValues, ExpiredRenames, SMTT(30) DEF Ready, Renames
<1>5. Counted(after, V, c) /\ Shrinks(h, after)
  <2> HIDE DEF V, left, c
  <2> QED BY <1>3, <1>4, FinalizeKeeps
<1>6. /\ heap' = Renamed(old, after) /\ name' = nm
      /\ frames' = IF n = 1 THEN fr ELSE gr
  <2>1. after \in HeapOf(V)
    BY <1>5 DEF Counted
  <2> QED BY <1>1, <1>2, <2>1, LeaveParts
<1>7. Lose(forgot) /\ lost' = ls /\ status' = status
  BY DEF Leave, Lose
<1>8. /\ StateOf(V, name, Front, lost) /\ Len(Front) = n - 1
      /\ \A k \in 1..n - 1 : Front[k] = frames[k]
  BY <1>1, BaseSplit
<1>9. \A k \in 1..n - 1 : k \in 1..Len(frames) /\ k < Len(frames)
  BY <1>1 DEF Depth
<1>10. \A k \in 1..n - 1 : Front[k].fields \in Seq(Wholes) /\ Len(Front[k].ops) < MaxOps
  BY <1>1, <1>8, <1>9 DEF FramesOK
<1> HIDE DEF V, W, old, left, after
<1>11. Counted(heap', W, c)
  BY <1>4, <1>5, <1>6, HeapRenamed, SMTT(30)
<1>12. Steadies(heap, heap') /\ Withers(h, heap')
  <2>1. Withers(h, heap')
    BY <1>4, <1>5, <1>6, WitherRenamed, SMTT(30)
  <2>2. ASSUME NEW x \in Objects, heap[x].kind # "free", heap'[x].kind # "free"
        PROVE  /\ DOMAIN heap'[x].elems = DOMAIN heap[x].elems
               /\ \A i \in DOMAIN heap[x].elems : heap'[x].elems[i] \in {heap[x].elems[i], Dangling}
    <3>1. h[x].kind # "free" /\ h[x].elems = heap[x].elems
      BY <1>2, <2>2 DEF Grows
    <3> QED BY <2>1, <2>2, <3>1 DEF Withers
  <2> QED BY <2>1, <2>2 DEF Steadies
<1>13. /\ StateOf(W, nm, fr, lost) /\ Outside(nm, fr, lost) = out
       /\ Len(fr) = n - 1
       /\ \A k \in 1..n - 1 : fr[k].fields = Front[k].fields /\ Len(fr[k].ops) = Len(Front[k].ops)
  <2>1. \A k \in 1..Len(Front) : Front[k].fields \in Seq(Wholes)
    BY <1>8, <1>10
  <2>2. LET nm2 == RenamedNames(old, name)
            fr2 == RenamedFrames(old, Front)
        IN  /\ StateOf(W, nm2, fr2, lost) /\ Outside(nm2, fr2, lost) = Outside(name, Front, lost)
            /\ Len(fr2) = Len(Front)
            /\ \A k \in 1..Len(Front) :
                 fr2[k].fields = Front[k].fields /\ Len(fr2[k].ops) = Len(Front[k].ops)
    BY <1>4, <1>8, <2>1, StateRenamed
  <2> QED BY <1>8, <2>2
<1> HIDE DEF nm, fr
<1>14. StateOf(W, nm, fr, ls) /\ Outside(nm, fr, ls) = d
  <2>1. StateOf(V, nm, fr, lost)
    BY <1>4, <1>13, StateLarger
  <2>2. StateOf(V, nm, fr, ls) /\ Outside(nm, fr, ls) = Plus(Outside(nm, fr, lost), forgot)
    BY <1>4, <2>1, LostCount
  <2> QED BY <1>13, <2>2 DEF StateOf
<1> HIDE DEF ls, out
<1>15. d \in [Objects -> Nat]
  BY <1>14, OutsideAt
<1> HIDE DEF d
<1>16. frames' # <<>> => n # 1
  <2>1. CASE n = 1
    <3>1. Len(fr) = 0 /\ fr \in Seq(FrameOf(W))
      BY <1>13, <2>1 DEF StateOf
    <3> DEFINE S == FrameOf(W)
    <3>2. fr \in Seq(S)
      BY <3>1
    <3> HIDE DEF S
    <3>3. fr = <<>>
      BY <3>1, <3>2
    <3> QED BY <1>6, <2>1, <3>3
  <2> QED BY <2>1
<1>17. /\ Len(frames') = n - 1 /\ StateOf(W, nm, frames', ls)
       /\ Counted(heap', W, Outside(nm, frames', ls))
       /\ \A k \in 1..n - 1 : /\ frames'[k].fields = fr[k].fields
                              /\ Len(frames'[k].ops) <= Len(fr[k].ops) + 1
                              /\ k < n - 1 => Len(frames'[k].ops) = Len(fr[k].ops)
  <2>1. CASE n = 1
    <3>1. frames' = fr
      BY <1>6, <2>1
    <3>2. \A o \in Objects : d[o] = c[o]
      <4> SUFFICES ASSUME NEW o \in Objects PROVE d[o] = c[o]
        OBVIOUS
      <4>1. c[o] = d[o] + Uses(rs, o) /\ d[o] \in Nat
        BY <1>15, PlusAt
      <4> QED BY <1>2, <2>1, <4>1
    <3>3. Counted(heap', W, d)
      <4> HIDE DEF c
      <4> QED BY <1>11, <1>15, <3>2, CountedSame
    <3>4. 1..n - 1 = {}
      BY <2>1
    <3> QED BY <1>13, <1>14, <3>1, <3>3, <3>4
  <2>2. CASE n # 1
    <3>1. frames' = gr
      BY <1>6, <2>2
    <3>2. fr \in Seq(FrameOf(W)) /\ fr # <<>> /\ Len(fr) > 0
      BY <1>1, <1>13, <2>2 DEF StateOf
    <3> DEFINE ops == fr[Len(fr)].ops
               more == ops \o results
    <3>3. ops \in Seq(W)
      <4> DEFINE S == FrameOf(W)
      <4>1. fr \in Seq(S) /\ fr # <<>>
        BY <3>2
      <4> HIDE DEF S
      <4>2. fr[Len(fr)] \in S
        BY <4>1
      <4> QED BY <4>2 DEF S, FrameOf
    <3>4. StateOf(W, nm, gr, ls) /\ Outside(nm, gr, ls) = Plus(d, results)
      BY <1>2, <1>14, <3>2, OpsMore
    <3>5. gr = WithOps(fr, more)
      OBVIOUS
    <3> HIDE DEF gr, ops
    <3>6. more \in Seq(W) /\ Len(more) = Len(ops) + Len(results) /\ Len(ops) \in Nat
      BY <1>2, <3>3, ConcatLen
    <3> HIDE DEF more
    <3>7. /\ Len(gr) = Len(fr) /\ DOMAIN gr = DOMAIN fr
          /\ \A k \in DOMAIN fr \ {Len(fr)} : gr[k] = fr[k]
          /\ gr[Len(fr)].fields = fr[Len(fr)].fields /\ gr[Len(fr)].ops = more
      BY <3>2, <3>5, <3>6, WithOpsType
    <3>8. DOMAIN fr = 1..n - 1 /\ \A k \in 1..n - 1 : Len(fr[k].ops) \in Nat
      <4> DEFINE S == FrameOf(W)
      <4>1. fr \in Seq(S)
        BY <3>2
      <4> HIDE DEF S
      <4>2. DOMAIN fr = 1..n - 1 /\ \A k \in 1..n - 1 : fr[k] \in S
        BY <1>13, <4>1
      <4>3. \A k \in 1..n - 1 : fr[k].ops \in Seq(W)
        BY <4>2 DEF S, FrameOf
      <4>4. \A k \in 1..n - 1 : Len(fr[k].ops) \in Nat
        <5> SUFFICES ASSUME NEW k \in 1..n - 1 PROVE Len(fr[k].ops) \in Nat
          OBVIOUS
        <5> DEFINE x == fr[k].ops
        <5>1. x \in Seq(W)
          BY <4>3
        <5> HIDE DEF x
        <5>2. Len(x) \in Nat
          BY <5>1
        <5> QED BY <5>2 DEF x
      <4> QED BY <4>2, <4>4
    <3>9. ASSUME NEW k \in 1..n - 1
          PROVE  /\ gr[k].fields = fr[k].fields /\ Len(gr[k].ops) <= Len(fr[k].ops) + 1
                 /\ k < n - 1 => Len(gr[k].ops) = Len(fr[k].ops)
      <4>1. CASE k = n - 1
        <5>1. gr[k].fields = fr[k].fields /\ Len(gr[k].ops) = Len(fr[k].ops) + Len(results)
          BY <1>13, <3>6, <3>7, <4>1 DEF ops
        <5>2. Len(fr[k].ops) \in Nat
          BY <3>8
        <5>3. ~(k < n - 1)
          BY <1>1, <4>1
        <5> QED BY <1>2, <5>1, <5>2, <5>3, SMTT(30)
      <4>2. CASE k # n - 1
        <5>1. gr[k] = fr[k]
          BY <1>13, <3>7, <3>8, <4>2, SMTT(30)
        <5> QED BY <3>8, <5>1
      <4> QED BY <4>1, <4>2
    <3>10. Plus(d, results) \in [Objects -> Nat]
      BY <1>2, <1>15, PlusType, SMTT(30)
    <3>11. \A o \in Objects : Plus(d, results)[o] = c[o]
      <4> SUFFICES ASSUME NEW o \in Objects PROVE Plus(d, results)[o] = c[o]
        OBVIOUS
      <4>1. Uses(results, o) = Uses(rs, o)
        BY <1>2, SameUsers
      <4> QED BY <4>1, PlusAt
    <3> HIDE DEF c
    <3>12. Counted(heap', W, Plus(d, results))
      BY <1>11, <3>10, <3>11, CountedSame
    <3> QED BY <1>13, <3>1, <3>4, <3>7, <3>9, <3>12
  <2> QED BY <2>1, <2>2
<1>18. Depth' = n - 1
  BY <1>17 DEF Depth
<1>19. HeapOK'
  BY <1>6, <1>7, <1>17, <1>18 DEF HeapOK, W
<1>20. FramesOK(frames')
  <2>1. n - 1 <= MaxFrames
    <3>1. Len(frames) <= MaxFrames /\ Len(frames) = n
      BY <1>1 DEF FramesOK, Depth
    <3> QED BY <1>1, <3>1, BoundsAssumption
  <2> SUFFICES ASSUME NEW k \in 1..n - 1
               PROVE  /\ frames'[k].fields \in Seq(Wholes)
                      /\ Len(frames'[k].ops) <= MaxOps
                      /\ k < n - 1 => Len(frames'[k].ops) < MaxOps
    BY <1>17, <2>1 DEF FramesOK
  <2>2. frames'[k].fields = Front[k].fields /\ Front[k].fields \in Seq(Wholes)
    BY <1>10, <1>13, <1>17
  <2>3. /\ Len(fr[k].ops) < MaxOps /\ Len(frames'[k].ops) <= Len(fr[k].ops) + 1
        /\ k < n - 1 => Len(frames'[k].ops) = Len(fr[k].ops)
    BY <1>10, <1>13, <1>17
  <2>4. Len(fr[k].ops) \in Nat /\ Len(frames'[k].ops) \in Nat
    <3> DEFINE S == FrameOf(W)
               x == fr[k].ops
               y == frames'[k].ops
    <3>1. fr \in Seq(S) /\ frames' \in Seq(S) /\ Len(fr) = n - 1 /\ Len(frames') = n - 1
      BY <1>13, <1>17 DEF StateOf
    <3> HIDE DEF S
    <3>2. fr[k] \in S /\ frames'[k] \in S
      BY <3>1
    <3>3. x \in Seq(W) /\ y \in Seq(W)
      BY <3>2 DEF S, FrameOf
    <3> HIDE DEF x, y
    <3>4. Len(x) \in Nat /\ Len(y) \in Nat
      BY <3>3
    <3> QED BY <3>4 DEF x, y
  <2> QED BY <2>2, <2>3, <2>4, BoundsAssumption, SMTT(30)
<1>21. LostOK'
  BY <1>1, <1>4, <1>7, LoseBound
<1> QED BY <1>1, <1>7, <1>12, <1>19, <1>20, <1>21 DEF Good

LEMMA ReturnKeeps ==
  ASSUME IInv, Running, NEW term \in Terms, Return(term)
  PROVE  /\ Good /\ (Stable \/ Steadies(heap, heap'))
         /\ LET s == Operand(term)
            IN  s.fault = "ok" =>
                  Withers(IF Depth = 1 THEN s.heap ELSE Clone(s.heap, s.value).heap, heap')
<1> DEFINE s == Operand(term)
           ops == Pending(term)
           v == s.value
           n == Depth
           V == Alive(n)
           W == Alive(n - 1)
           h == s.heap
           forgot == s.lost
           gone == <<v>>
           none == <<>>
           c == Clone(h, v)
<1>1. /\ Active /\ May(term) /\ ops = none /\ n \in Nat /\ n > 0
  BY RunningActive, ActiveState DEF Return, ReturnCopy
<1>2. CASE s.fault # "ok"
  <2>1. Panic(s.fault) /\ s.fault \in Statuses
    BY <1>1, <1>2, FaultType DEF Return, ReturnCopy
  <2>2. Good /\ Stable
    BY <2>1, PanicGood
  <2> QED BY <1>2, <2>2
<1>3. ASSUME s.fault = "ok", n = 1
      PROVE  Good /\ Steadies(heap, heap') /\ Withers(h, heap')
  <2>1. Leave(h, gone, none, forgot)
    BY <1>3 DEF Return, ReturnCopy
  <2>2. Ready(h, ops, gone, forgot) /\ Grows(heap, h) /\ v \in V
    BY <1>1, <1>3, OperandKeeps
  <2> HIDE DEF s, v, h, forgot, V, W, ops
  <2>3. gone \in Seq(V) /\ none \in Seq(V) /\ none \in Seq(W) /\ Len(none) = 0
    BY <2>2
  <2>4. gone \o none = gone
    BY <2>3
  <2>5. \A o : Uses(none, o) = 0
    BY UsesNone
  <2>6. SameUses(none, none)
    BY DEF SameUses
  <2>7. Ready(h, <<>>, gone \o none, forgot)
    BY <1>1, <2>2, <2>4
  <2> HIDE DEF gone, none
  <2>8. Leaving(h, gone, none, none, forgot)
    BY <2>2, <2>3, <2>5, <2>6, <2>7 DEF Leaving, V, W
  <2> QED BY <2>1, <2>8, LeaveKeeps
<1>4. ASSUME s.fault = "ok", n # 1
      PROVE  Good /\ Steadies(heap, heap') /\ Withers(c.heap, heap')
  <2> DEFINE r == c.value
             results == <<Expired(r, n)>>
             rs == <<r>>
             g == c.heap
  <2>1. c.fits /\ Leave(g, gone, results, forgot)
    BY <1>4 DEF Return, ReturnCopy
  <2>2. Ready(h, ops, gone, forgot) /\ Grows(heap, h) /\ v \in V
    BY <1>1, <1>4, OperandKeeps
  <2> HIDE DEF s, v, h, forgot, ops, c
  <2>3. Ready(g, ops, <<v, r>>, forgot) /\ Grows(heap, g) /\ r \in V
    <3>1. Clone(h, v).fits /\ c = Clone(h, v) /\ Ready(h, ops, <<v>>, forgot)
      BY <2>1, <2>2 DEF c
    <3>2. LET k == Clone(h, v)
          IN  /\ Ready(k.heap, ops, <<v, k.value>>, forgot) /\ Grows(heap, k.heap)
              /\ k.value \in Alive(Depth)
      BY <1>1, <2>2, <3>1, CloneReady
    <3> QED BY <3>1, <3>2
  <2>4. Renames(V, W, OldVariables) /\ OldVariables[r] = Expired(r, n)
    BY <1>1, <2>3, ExpiredRenames DEF OldVariables
  <2> HIDE DEF V, W, r, g
  <2>5. Expired(r, n) \in W /\ \A o : Holds(Expired(r, n), o) <=> Holds(r, o)
    BY <2>3, <2>4, RenameOne
  <2>6. /\ gone \in Seq(V) /\ rs \in Seq(V) /\ results \in Seq(W) /\ Len(results) = 1
    BY <2>2, <2>3, <2>5
  <2>7. SameUses(results, rs)
    BY <2>5 DEF SameUses
  <2>8. gone \o rs = <<v, r>>
    BY <2>2, <2>3, PairConcat
  <2>9. Ready(g, <<>>, gone \o rs, forgot)
    BY <1>1, <2>3, <2>8
  <2> HIDE DEF gone, rs, results
  <2>10. Leaving(g, gone, rs, results, forgot)
    BY <1>4, <2>3, <2>6, <2>7, <2>9 DEF Leaving, V, W
  <2>11. Good /\ Steadies(heap, heap') /\ Withers(g, heap')
    BY <2>1, <2>10, LeaveKeeps
  <2> QED BY <2>11 DEF g
<1> HIDE DEF s, c, n, h
<1>5. CASE s.fault = "ok"
  <2>1. /\ Good /\ Steadies(heap, heap')
        /\ Withers(IF n = 1 THEN h ELSE c.heap, heap')
    BY <1>3, <1>4, <1>5
  <2> QED BY <1>5, <2>1 DEF s, c, n, h, v
<1> QED BY <1>2, <1>5 DEF s

LEMMA EndMethodKeeps ==
  ASSUME IInv, EndMethod
  PROVE  /\ Good /\ (Stable \/ Steadies(heap, heap'))
         /\ (\A k \in 1..Depth : frames[k].ops = <<>>) => Withers(heap, heap')
<1> DEFINE n == Depth
           V == Alive(n)
           W == Alive(n - 1)
           none == <<>>
           results == <<Integer>>
<1>1. Running /\ Top.ops = <<>>
  BY DEF EndMethod
<1>2. /\ Active /\ n \in Nat /\ n > 0 /\ ValueSet(V) /\ ValueSet(W)
      /\ Base \in [Objects -> Nat] /\ Counted(heap, V, Plus(Base, Top.ops))
  BY <1>1, RunningActive, ActiveState, AliveValues
<1>3. CASE \E k \in 1..Depth : frames[k].ops # <<>>
  <2>1. Panic("opstack") /\ "opstack" \in Statuses
    BY <1>3 DEF EndMethod, Statuses
  <2>2. Good /\ Stable
    BY <1>1, <2>1, PanicGood
  <2> QED BY <1>3, <2>2
<1>4. CASE ~\E k \in 1..Depth : frames[k].ops # <<>>
  <2>1. Leave(heap, none, results, none)
    BY <1>4 DEF EndMethod
  <2>2. results \in Seq(V) /\ results \in Seq(W) /\ Len(results) = 1
    BY <1>2 DEF ValueSet
  <2>3. none \in Seq(V) /\ none \o results = results
    BY <2>2
  <2>4. ~Counts(Integer) /\ \A o : One(Integer, o) = 0
    BY DEF Counts, Integer, One, Holds
  <2>5. \A o : Uses(results, o) = 0
    BY <2>4, UsesOne
  <2>6. SameUses(results, results)
    BY DEF SameUses
  <2>7. Plus(Plus(Plus(Base, none), none), results) = Base
    <3>1. Plus(Base, none) = Base
      BY <1>2, PlusNothing
    <3>2. Plus(Base, results) = Base
      BY <1>2, <2>4, PlusNone
    <3> QED BY <3>1, <3>2
  <2>8. Counted(heap, V, Base)
    <3>1. Plus(Base, <<>>) = Base
      BY <1>2, PlusNothing
    <3> QED BY <1>1, <1>2, <3>1
  <2> HIDE DEF results, V, W
  <2>9. Ready(heap, <<>>, none \o results, none)
    <3>1. Counted(heap, V, Plus(Plus(Plus(Base, none), none), results))
      BY <2>7, <2>8
    <3> HIDE DEF none
    <3>2. Ready(heap, none, results, none)
      BY <2>2, <2>3, <3>1 DEF Ready, V
    <3> QED BY <2>3, <3>2 DEF none
  <2>10. Grows(heap, heap)
    BY DEF Grows
  <2> HIDE DEF none
  <2>11. Leaving(heap, none, results, results, none)
    BY <2>2, <2>3, <2>5, <2>6, <2>9, <2>10 DEF Leaving, V, W
  <2> QED BY <1>1, <2>1, <2>11, LeaveKeeps
<1> QED BY <1>3, <1>4

(***************************************************************************)
(* An error: everything that the invocations hold is put into one sequence. *)
(***************************************************************************)

LEMMA UptoNext ==
  ASSUME NEW V, NEW n \in Nat, NEW part \in [1..n -> Seq(V)], NEW o
  PROVE  /\ UsesIn(Upto(part, 0), o) = 0
         /\ \A i \in 1..n :
              /\ UsesIn(Upto(part, i - 1), o) \in Nat /\ Uses(part[i], o) \in Nat
              /\ UsesIn(Upto(part, i), o) = UsesIn(Upto(part, i - 1), o) + Uses(part[i], o)
<1>1. UsesIn(Upto(part, 0), o) = 0
  <2> DEFINE rows == Upto(part, 0)
  <2>1. DOMAIN rows = {}
    BY DEF Upto
  <2> HIDE DEF rows
  <2>2. UNION {{r} \X {i \in DOMAIN rows[r] : Holds(rows[r][i], o)} : r \in DOMAIN rows} = {}
    BY <2>1
  <2>3. UsesIn(rows, o) = 0
    BY <2>2, FS_EmptySet DEF UsesIn
  <2> QED BY <2>3 DEF rows
<1>2. ASSUME NEW i \in 1..n
      PROVE  /\ UsesIn(Upto(part, i - 1), o) \in Nat /\ Uses(part[i], o) \in Nat
             /\ UsesIn(Upto(part, i), o) = UsesIn(Upto(part, i - 1), o) + Uses(part[i], o)
  <2> DEFINE rows == Upto(part, i)
  <2>1. /\ DOMAIN rows = 1..i /\ i \in DOMAIN rows /\ rows[i] = part[i]
        /\ \A k \in DOMAIN rows : rows[k] \in Seq(V)
    <3>1. DOMAIN rows = 1..i /\ \A k \in 1..i : rows[k] = part[k]
      BY DEF Upto
    <3>2. \A k \in 1..i : k \in 1..n
      OBVIOUS
    <3>3. i \in 1..i
      OBVIOUS
    <3> HIDE DEF rows
    <3> QED BY <3>1, <3>2, <3>3
  <2>2. Others(rows, i) = Upto(part, i - 1)
    <3>1. (1..i) \ {i} = 1..i - 1
      OBVIOUS
    <3>2. \A k \in 1..i - 1 : rows[k] = part[k]
      BY DEF Upto
    <3> HIDE DEF rows
    <3> QED BY <2>1, <3>1, <3>2 DEF Others, Upto
  <2> HIDE DEF rows
  <2>3. FiniteRows(rows)
    <3>1. i \in Int /\ IsFiniteSet(1..i)
      BY FS_Interval
    <3>2. \A k \in DOMAIN rows : IsFiniteSet(DOMAIN rows[k])
      BY <2>1, SeqFinite
    <3> QED BY <2>1, <3>1, <3>2 DEF FiniteRows
  <2>4. /\ UsesIn(Others(rows, i), o) \in Nat /\ Uses(rows[i], o) \in Nat
        /\ UsesIn(rows, o) = UsesIn(Others(rows, i), o) + Uses(rows[i], o)
    BY <2>1, <2>3, UsesInSplit
  <2> QED BY <2>1, <2>2, <2>4 DEF rows
<1> QED BY <1>1, <1>2

LEMMA ConcatRecursion ==
  ASSUME NEW V, NEW n \in Nat, NEW part \in [1..n -> Seq(V)]
  PROVE  Joined(V, n, part)
<1> DEFINE U == Seq(V)
           none == <<>>
           P == [i \in 0..n |-> {vs \in U : \A o : Uses(vs, o) = UsesIn(Upto(part, i), o)}]
           F == [p \in U \X (1..n) |-> p[1] \o part[p[2]]]
<1>1. none \in U /\ \A o : Uses(none, o) = 0
  BY UsesNone
<1>2. /\ \A o : UsesIn(Upto(part, 0), o) = 0
      /\ \A o : \A i \in 1..n :
              /\ UsesIn(Upto(part, i - 1), o) \in Nat /\ Uses(part[i], o) \in Nat
              /\ UsesIn(Upto(part, i), o) = UsesIn(Upto(part, i - 1), o) + Uses(part[i], o)
  <2> SUFFICES ASSUME NEW o
               PROVE  /\ UsesIn(Upto(part, 0), o) = 0
                      /\ \A i \in 1..n :
                           /\ UsesIn(Upto(part, i - 1), o) \in Nat /\ Uses(part[i], o) \in Nat
                           /\ UsesIn(Upto(part, i), o)
                                = UsesIn(Upto(part, i - 1), o) + Uses(part[i], o)
    OBVIOUS
  <2> QED BY UptoNext
<1> HIDE DEF none
<1>3. none \in P[0]
  BY <1>1, <1>2
<1>4. P \in [0..n -> SUBSET U]
  OBVIOUS
<1>5. \A vs, ws \in U : vs \o ws \in U /\ \A o : Uses(vs \o ws, o) = Uses(vs, o) + Uses(ws, o)
  BY UsesConcat, ConcatLen
<1> HIDE DEF U
<1>6. part \in [1..n -> U]
  BY DEF U
<1>7. F \in Steps(U, n)
  BY <1>5, <1>6 DEF Steps
<1>8. ASSUME NEW i \in 1..n, NEW vs \in P[i - 1] PROVE F[<<vs, i>>] = vs \o part[i] /\ F[<<vs, i>>] \in P[i]
  <2>1. i - 1 \in 0..n /\ i \in 0..n
    OBVIOUS
  <2>2. vs \in U /\ \A o : Uses(vs, o) = UsesIn(Upto(part, i - 1), o)
    BY <2>1
  <2>3. F[<<vs, i>>] = vs \o part[i]
    BY <2>2
  <2>4. vs \o part[i] \in U /\ \A o : Uses(vs \o part[i], o) = UsesIn(Upto(part, i), o)
    BY <1>2, <1>5, <1>6, <2>2
  <2> QED BY <2>1, <2>3, <2>4
<1> HIDE DEF F
<1>9. PICK g \in [0..n -> U] : Iterates(g, none, F, n) /\ \A i \in 0..n : g[i] \in P[i]
  <2> HIDE DEF P
  <2> QED BY <1>3, <1>4, <1>7, <1>8, StagedRecursion
<1>10. g[0] = none
  BY <1>9 DEF Iterates
<1>11. \A i \in 1..n : g[i] = g[i - 1] \o part[i]
  <2> SUFFICES ASSUME NEW i \in 1..n PROVE g[i] = g[i - 1] \o part[i]
    BY SMTT(30)
  <2>1. i - 1 \in 0..n
    OBVIOUS
  <2>2. g[i - 1] \in P[i - 1]
    BY <1>9, <2>1
  <2>3. g[i] = F[<<g[i - 1], i>>]
    BY <1>9 DEF Iterates
  <2> QED BY <1>8, <2>2, <2>3
<1>12. \A i \in 0..n : \A o : Uses(g[i], o) = UsesIn(Upto(part, i), o)
  BY <1>9
<1> QED BY <1>9, <1>10, <1>11, <1>12 DEF U, none, Joined

LEMMA PartsUses ==
  ASSUME NEW V, NEW n, NEW part, Parts(V, n, part)
  PROVE  Joined(V, n, part) /\ \A o : Summed(n, part, o)
<1>1. n \in Nat /\ part \in [1..n -> Seq(V)]
  BY DEF Parts
<1>2. Joined(V, n, part)
  BY <1>1, ConcatRecursion
<1>3. \A o : Summed(n, part, o)
  <2> SUFFICES ASSUME NEW o PROVE Summed(n, part, o)
    OBVIOUS
  <2>1. /\ UsesIn(Upto(part, 0), o) = 0
        /\ \A i \in 1..n :
             /\ UsesIn(Upto(part, i - 1), o) \in Nat /\ Uses(part[i], o) \in Nat
             /\ UsesIn(Upto(part, i), o) = UsesIn(Upto(part, i - 1), o) + Uses(part[i], o)
    BY <1>1, UptoNext, ZenonT(30)
  <2> QED BY <2>1 DEF Summed
<1> QED BY <1>2, <1>3

LEMMA HeldUses ==
  ASSUME NEW V, frames \in Seq(FrameOf(V))
  PROVE  /\ Held \in Seq(V) /\ Fields \in Seq(V)
         /\ \A o : /\ Uses(Held, o) \in Nat /\ Uses(Fields, o) \in Nat
                   /\ UsesIn(FrameRows(frames), o) = Uses(Held, o) + Uses(Fields, o)
<1> DEFINE n == Depth
           S == FrameOf(V)
           parts == [k \in 1..n |-> <<frames[k].local, frames[k].arg>> \o frames[k].ops]
           buffers == [k \in 1..n |-> frames[k].fields]
           kept == [k \in 1..n |-> Kept(frames[k])]
           held[k \in 0..n] ==
             IF k = 0 THEN <<>>
             ELSE held[k - 1] \o <<frames[k].local, frames[k].arg>> \o frames[k].ops
           fields[k \in 0..n] == IF k = 0 THEN <<>> ELSE fields[k - 1] \o frames[k].fields
<1>1. Held = held[n] /\ Fields = fields[n]
  BY DEF Held, Fields
<1>2. /\ n \in Nat /\ DOMAIN frames = 1..n /\ \A k \in 1..n : frames[k] \in S
  <2>1. frames \in Seq(S)
    OBVIOUS
  <2> HIDE DEF S
  <2> QED BY <2>1 DEF Depth
<1>3. ASSUME NEW k \in 1..n
      PROVE  LET f == frames[k]
                 two == <<f.local, f.arg>>
             IN  /\ two \in Seq(V) /\ f.ops \in Seq(V) /\ f.fields \in Seq(V)
                 /\ two \o f.ops \in Seq(V) /\ Kept(f) \in Seq(V)
                 /\ \A o : Uses(Kept(f), o) = Uses(two \o f.ops, o) + Uses(f.fields, o)
  <2> DEFINE f == frames[k]
             two == <<f.local, f.arg>>
             ops == f.ops
             bufs == f.fields
  <2>1. f \in FrameOf(V)
    BY <1>2
  <2>2. f.local \in V /\ f.arg \in V /\ ops \in Seq(V) /\ bufs \in Seq(V)
    BY <2>1 DEF FrameOf
  <2>3. two \in Seq(V)
    BY <2>2
  <2>4. Kept(f) = (two \o bufs) \o ops
    BY DEF Kept
  <2> HIDE DEF two, ops, bufs, f
  <2> DEFINE x == two \o bufs
  <2>5. x \in Seq(V) /\ two \o ops \in Seq(V)
    BY <2>2, <2>3, ConcatLen
  <2>6. Kept(f) = x \o ops /\ \A o : Uses(x, o) = Uses(two, o) + Uses(bufs, o)
    BY <2>2, <2>3, <2>4, UsesConcat
  <2> HIDE DEF x
  <2>7. Kept(f) \in Seq(V) /\ \A o : Uses(Kept(f), o) = Uses(x, o) + Uses(ops, o)
    BY <2>2, <2>5, <2>6, UsesConcat, ConcatLen
  <2>8. \A o : Uses(two \o ops, o) = Uses(two, o) + Uses(ops, o)
    BY <2>2, <2>3, UsesConcat
  <2>9. \A o : Uses(two, o) \in Nat /\ Uses(ops, o) \in Nat /\ Uses(bufs, o) \in Nat
    BY <2>2, <2>3, UsesOfSeq
  <2>10. \A o : Uses(Kept(f), o) = Uses(two \o ops, o) + Uses(bufs, o)
    BY <2>6, <2>7, <2>8, <2>9
  <2> QED BY <2>2, <2>3, <2>5, <2>7, <2>10 DEF two, ops, bufs, f
<1>4. /\ parts \in [1..n -> Seq(V)] /\ buffers \in [1..n -> Seq(V)] /\ kept \in [1..n -> Seq(V)]
      /\ \A k \in 1..n : \A o : Uses(kept[k], o) = Uses(parts[k], o) + Uses(buffers[k], o)
  BY <1>3
<1>5. \A i \in 1..n : /\ parts[i] = <<frames[i].local, frames[i].arg>> \o frames[i].ops
                      /\ buffers[i] = frames[i].fields
  OBVIOUS
<1>6. FrameRows(frames) = Upto(kept, n)
  BY <1>2 DEF FrameRows, Upto
<1> HIDE DEF n, S, parts, buffers, kept
<1>71. Parts(V, n, parts) /\ Parts(V, n, buffers) /\ Parts(V, n, kept)
  BY <1>2, <1>4 DEF Parts
<1>72. Joined(V, n, parts) /\ Joined(V, n, buffers)
  BY <1>71, PartsUses
<1>73. \A o : Summed(n, parts, o) /\ Summed(n, buffers, o) /\ Summed(n, kept, o)
  BY <1>71, PartsUses
<1>7. PICK g \in [0..n -> Seq(V)] :
        /\ g[0] = <<>> /\ \A i \in 1..n : g[i] = g[i - 1] \o parts[i]
        /\ \A i \in 0..n : \A o : Uses(g[i], o) = UsesIn(Upto(parts, i), o)
  BY <1>72 DEF Joined
<1>8. PICK b \in [0..n -> Seq(V)] :
        /\ b[0] = <<>> /\ \A i \in 1..n : b[i] = b[i - 1] \o buffers[i]
        /\ \A i \in 0..n : \A o : Uses(b[i], o) = UsesIn(Upto(buffers, i), o)
  BY <1>72 DEF Joined
<1>9. \A i \in 1..n : i \in 0..n /\ i - 1 \in 0..n /\ i # 0
  BY <1>2
<1>10. n \in 0..n /\ 0 \in 0..n
  BY <1>2, SMTT(30)
<1>11. ASSUME NEW i \in 1..n
       PROVE  g[i] = g[i - 1] \o <<frames[i].local, frames[i].arg>> \o frames[i].ops
  <2> DEFINE x == g[i - 1]
             y == <<frames[i].local, frames[i].arg>>
             z == frames[i].ops
  <2>1. x \in Seq(V) /\ y \in Seq(V) /\ z \in Seq(V)
    BY <1>3, <1>7, <1>9
  <2>2. g[i] = x \o (y \o z)
    BY <1>5, <1>7
  <2> HIDE DEF x, y, z
  <2>3. x \o (y \o z) = (x \o y) \o z
    BY <2>1, SMTT(30)
  <2> QED BY <2>2, <2>3, Zenon DEF x, y, z
<1>12. g = [k \in 0..n |->
              IF k = 0 THEN <<>>
              ELSE g[k - 1] \o <<frames[k].local, frames[k].arg>> \o frames[k].ops]
  <2>1. \A k \in 0..n : k = 0 \/ k \in 1..n
    BY <1>2, SMTT(30)
  <2>2. \A k \in 0..n :
          g[k] = IF k = 0 THEN <<>>
                 ELSE g[k - 1] \o <<frames[k].local, frames[k].arg>> \o frames[k].ops
    BY <1>7, <1>9, <1>11, <2>1
  <2>3. g = [k \in 0..n |-> g[k]]
    BY <1>7
  <2> QED BY <2>2, <2>3
<1>13. held = [k \in 0..n |->
              IF k = 0 THEN <<>>
              ELSE held[k - 1] \o <<frames[k].local, frames[k].arg>> \o frames[k].ops]
  BY <1>12, Zenon
<1>14. b = [k \in 0..n |-> IF k = 0 THEN <<>> ELSE b[k - 1] \o frames[k].fields]
  <2>1. \A k \in 0..n : k = 0 \/ k \in 1..n
    BY <1>2
  <2>2. \A k \in 0..n : b[k] = IF k = 0 THEN <<>> ELSE b[k - 1] \o frames[k].fields
    BY <1>5, <1>8, <1>9, <2>1
  <2>3. b = [k \in 0..n |-> b[k]]
    BY <1>8
  <2> QED BY <2>2, <2>3
<1>15. fields = [k \in 0..n |-> IF k = 0 THEN <<>> ELSE fields[k - 1] \o frames[k].fields]
  BY <1>14, Zenon
<1> HIDE DEF held, fields
<1>16. \A i \in 0..n : held[i] = g[i] /\ fields[i] = b[i]
  <2> DEFINE T == {i \in 0..n : held[i] = g[i] /\ fields[i] = b[i]}
  <2>1. 0 \in T
    <3>1. held[0] = <<>> /\ fields[0] = <<>>
      BY <1>10, <1>13, <1>15
    <3> QED BY <1>7, <1>8, <1>10, <3>1, SMTT(30)
  <2>2. ASSUME NEW i \in 1..n, i - 1 \in T PROVE i \in T
    <3>1. held[i] = held[i - 1] \o <<frames[i].local, frames[i].arg>> \o frames[i].ops
      BY <1>9, <1>13, ZenonT(30)
    <3>2. fields[i] = fields[i - 1] \o frames[i].fields
      BY <1>9, <1>15, ZenonT(30)
    <3>3. fields[i] = b[i]
      BY <1>5, <1>8, <2>2, <3>2
    <3>4. held[i] = g[i]
      BY <1>11, <2>2, <3>1
    <3> QED BY <1>9, <3>3, <3>4, SMTT(30)
  <2> HIDE DEF T
  <2>3. \A i \in 0..n : i \in T
    BY <1>2, <2>1, <2>2, IntervalInduction
  <2> QED BY <2>3 DEF T
<1>17. Held = g[n] /\ Fields = b[n]
  BY <1>1, <1>10, <1>16
<1>18. ASSUME NEW o PROVE UsesIn(Upto(kept, n), o) = UsesIn(Upto(parts, n), o) + UsesIn(Upto(buffers, n), o)
  <2> DEFINE a(i) == UsesIn(Upto(parts, i), o)
             c(i) == UsesIn(Upto(buffers, i), o)
             d(i) == UsesIn(Upto(kept, i), o)
             T == {i \in 0..n : d(i) = a(i) + c(i)}
  <2>1. /\ a(0) = 0 /\ c(0) = 0 /\ d(0) = 0
        /\ \A i \in 1..n : /\ a(i - 1) \in Nat /\ Uses(parts[i], o) \in Nat /\ a(i) = a(i - 1) + Uses(parts[i], o)
                           /\ c(i - 1) \in Nat /\ Uses(buffers[i], o) \in Nat /\ c(i) = c(i - 1) + Uses(buffers[i], o)
                           /\ d(i) = d(i - 1) + Uses(kept[i], o)
    BY <1>73 DEF Summed
  <2> HIDE DEF a, c, d
  <2>2. 0 \in T
    BY <1>10, <2>1
  <2>3. ASSUME NEW i \in 1..n, i - 1 \in T PROVE i \in T
    <3>1. d(i - 1) = a(i - 1) + c(i - 1)
      BY <2>3
    <3>2. Uses(kept[i], o) = Uses(parts[i], o) + Uses(buffers[i], o)
      BY <1>4
    <3>3. d(i) = a(i) + c(i)
      BY <2>1, <3>1, <3>2, SMTT(30)
    <3> QED BY <1>9, <3>3
  <2> HIDE DEF T
  <2>4. \A i \in 0..n : i \in T
    BY <1>2, <2>2, <2>3, IntervalInduction
  <2>5. n \in T
    BY <1>10, <2>4
  <2> QED BY <2>5 DEF T, a, c, d
<1>19. \A o : Uses(Held, o) = UsesIn(Upto(parts, n), o) /\ Uses(Fields, o) = UsesIn(Upto(buffers, n), o)
  BY <1>7, <1>8, <1>10, <1>17
<1>20. Held \in Seq(V) /\ Fields \in Seq(V)
  BY <1>7, <1>8, <1>10, <1>17
<1>21. \A o : Uses(Held, o) \in Nat /\ Uses(Fields, o) \in Nat
  BY <1>20, UsesOfSeq
<1> QED BY <1>6, <1>18, <1>19, <1>20, <1>21

LEMMA SurvivingRenames ==
  ASSUME Depth \in Nat
  PROVE  Renames(Alive(Depth), Alive(0), OldReferences)
<1> DEFINE n == Depth
           V == Alive(n)
           W == Alive(0)
<1>1. W \subseteq V /\ Dangling \in W
  BY AliveValues
<1>2. ASSUME NEW v \in V
      PROVE  /\ Surviving(v) \in W
             /\ Surviving(v) = v \/ (Surviving(v) = Dangling /\ v.type = "reference")
  <2>1. CASE v.type = "reference" /\ v.place[1] # "name"
    BY <1>1, <2>1 DEF Surviving
  <2>2. CASE ~(v.type = "reference" /\ v.place[1] # "name")
    <3>1. Surviving(v) = v
      BY <2>2 DEF Surviving
    <3>2. v \in W
      <4>1. CASE v \in {Reference(p) : p \in Everywhere(n)}
        <5>1. PICK p \in Everywhere(n) : v = Reference(p)
          BY <4>1
        <5>2. p[1] = "name"
          BY <2>2, <5>1 DEF Reference
        <5>3. p \in Everywhere(0)
          BY <5>2 DEF Everywhere
        <5> QED BY <5>1, <5>3 DEF Alive
      <4>2. CASE v \notin {Reference(p) : p \in Everywhere(n)}
        BY <4>2 DEF Alive
      <4> QED BY <4>1, <4>2
    <3> QED BY <3>1, <3>2
  <2> QED BY <2>1, <2>2
<1> QED BY <1>1, <1>2 DEF Renames, OldReferences

\* The places of a state without invocations.
LEMMA NoFrames ==
  ASSUME NEW V, NEW nm, NEW fr, NEW ls, StateOf(V, nm, fr, ls)
  PROVE  /\ StateOf(V, nm, <<>>, ls)
         /\ \A o \in Objects :
              Outside(nm, fr, ls)[o] = Outside(nm, <<>>, ls)[o] + UsesIn(FrameRows(fr), o)
<1> DEFINE none == <<>>
<1>1. none \in Seq(FrameOf(V)) /\ DOMAIN none = {}
  OBVIOUS
<1> HIDE DEF none
<1>2. StateOf(V, nm, none, ls)
  BY <1>1 DEF StateOf
<1>3. ASSUME NEW o \in Objects
      PROVE  Outside(nm, fr, ls)[o] = Outside(nm, none, ls)[o] + UsesIn(FrameRows(fr), o)
  <2> DEFINE rows == FrameRows(none)
  <2>1. DOMAIN rows = {}
    BY <1>1 DEF FrameRows
  <2> HIDE DEF rows
  <2>2. UNION {{r} \X {i \in DOMAIN rows[r] : Holds(rows[r][i], o)} : r \in DOMAIN rows} = {}
    BY <2>1
  <2>3. UsesIn(FrameRows(none), o) = 0
    BY <2>2, FS_EmptySet DEF UsesIn, rows
  <2>4. /\ Uses(nm, o) \in Nat /\ UsesIn(FrameRows(fr), o) \in Nat /\ ls[o] \in Nat
        /\ Outside(nm, fr, ls)[o] = Uses(nm, o) + UsesIn(FrameRows(fr), o) + ls[o]
    BY OutsideAt
  <2>5. Outside(nm, none, ls)[o] = Uses(nm, o) + UsesIn(FrameRows(none), o) + ls[o]
    BY <1>2, OutsideAt
  <2> QED BY ONLY <2>3, <2>4, <2>5
<1> QED BY <1>2, <1>3 DEF none

LEMMA FailKeeps ==
  ASSUME IInv, Fail
  PROVE  Good /\ Steadies(heap, heap') /\ Withers(heap, heap')
<1> DEFINE n == Depth
           V == Alive(n)
           W == Alive(0)
           old == OldReferences
           left == Held
           forgot == Fields
           after == Finalize(heap, left)
           all == Outside(name, frames, lost)
           none == <<>>
           out == Outside(name, none, lost)
           c == Plus(out, forgot)
           nm == RenamedNames(old, name)
           ls == [o \in Objects |-> lost[o] + Uses(forgot, o)]
<1>1. /\ Running /\ Lose(forgot) /\ lost' = ls /\ status' = status /\ frames' = none
      /\ heap' = [o \in Objects |->
            [after[o] EXCEPT !.elems = [i \in DOMAIN after[o].elems |-> Surviving(after[o].elems[i])]]]
      /\ name' = [m \in Names |-> Surviving(name[m])]
  BY DEF Fail, Lose, Surviving
<1>2. /\ Active /\ FramesOK(frames) /\ LostOK /\ status \in Statuses
      /\ n \in Nat /\ ValueSet(V) /\ ValueSet(W)
      /\ StateOf(V, name, frames, lost) /\ Counted(heap, V, all)
  BY <1>1, RunningActive, ActiveState, AliveValues DEF Active, HeapOK
<1>3. Renames(V, W, old) /\ W \subseteq V /\ \A v \in V : old[v] = Surviving(v)
  BY <1>2, SurvivingRenames DEF Renames, OldReferences
<1>4. /\ left \in Seq(V) /\ forgot \in Seq(V)
      /\ \A o : /\ Uses(left, o) \in Nat /\ Uses(forgot, o) \in Nat
                /\ UsesIn(FrameRows(frames), o) = Uses(left, o) + Uses(forgot, o)
  <2>1. frames \in Seq(FrameOf(V))
    BY <1>2 DEF StateOf
  <2> HIDE DEF V
  <2> QED BY <2>1, HeldUses
<1>5. StateOf(V, name, none, lost) /\ \A o \in Objects : all[o] = out[o] + UsesIn(FrameRows(frames), o)
  BY <1>2, NoFrames
<1>6. out \in [Objects -> Nat] /\ all \in [Objects -> Nat]
  BY <1>2, <1>5, OutsideAt
<1>7. name \in [Names -> V]
  BY <1>2 DEF StateOf
<1> HIDE DEF n, V, W, old, left, forgot, all, none, out, ls, nm
<1>8. c \in [Objects -> Nat]
  BY <1>4, <1>6, PlusType
<1>9. Counted(heap, V, Plus(c, left))
  <2>1. Plus(c, left) \in [Objects -> Nat]
    <3> HIDE DEF c
    <3> QED BY <1>4, <1>8, PlusType
  <2>2. \A o \in Objects : Plus(c, left)[o] = all[o]
    <3> SUFFICES ASSUME NEW o \in Objects PROVE Plus(c, left)[o] = all[o]
      OBVIOUS
    <3>1. Plus(c, left)[o] = c[o] + Uses(left, o) /\ c[o] = out[o] + Uses(forgot, o)
      BY PlusAt
    <3>2. out[o] \in Nat /\ Uses(left, o) \in Nat /\ Uses(forgot, o) \in Nat
      BY <1>4, <1>6
    <3>3. all[o] = out[o] + (Uses(left, o) + Uses(forgot, o))
      BY <1>4, <1>5
    <3> QED BY <3>1, <3>2, <3>3
  <2> HIDE DEF c
  <2> QED BY <1>2, <2>1, <2>2, CountedSame
<1> HIDE DEF c
<1>10. Counted(after, V, c) /\ Shrinks(heap, after)
  BY <1>2, <1>4, <1>8, <1>9, FinalizeKeeps
<1> HIDE DEF after
<1>11. heap' = Renamed(old, after)
  <2>1. after \in HeapOf(V)
    BY <1>10 DEF Counted
  <2>2. ASSUME NEW o \in Objects
        PROVE  [i \in DOMAIN after[o].elems |-> Surviving(after[o].elems[i])] = MapSeq(old, after[o].elems)
    <3> DEFINE e == after[o].elems
    <3>1. e \in Seq(V)
      BY <2>1, CellType
    <3> HIDE DEF e
    <3>2. \A i \in DOMAIN e : e[i] \in V
      BY <3>1
    <3>3. [i \in DOMAIN e |-> Surviving(e[i])] = MapSeq(old, e)
      BY <1>3, <3>2 DEF MapSeq
    <3> QED BY <3>3 DEF e
  <2> QED BY <1>1, <2>2 DEF Renamed
<1>12. name' = nm
  <2>1. \A m \in Names : Surviving(name[m]) = old[name[m]]
    BY <1>3, <1>7
  <2> QED BY <1>1, <2>1 DEF RenamedNames, nm
<1>13. Counted(heap', W, c) /\ Withers(heap, heap')
  BY <1>2, <1>3, <1>10, <1>11, HeapRenamed, WitherRenamed
<1>14. StateOf(W, nm, none, lost) /\ Outside(nm, none, lost) = out
  <2>1. \A k \in 1..Len(none) : none[k].fields \in Seq(Wholes)
    BY DEF none
  <2>2. LET nm2 == RenamedNames(old, name)
            fr2 == RenamedFrames(old, none)
        IN  StateOf(W, nm2, fr2, lost) /\ Outside(nm2, fr2, lost) = Outside(name, none, lost)
    BY <1>2, <1>3, <1>5, <2>1, StateRenamed
  <2>3. RenamedFrames(old, none) = none
    BY DEF RenamedFrames, none
  <2> QED BY <2>2, <2>3 DEF nm, out
<1>15. StateOf(W, nm, none, ls) /\ Outside(nm, none, ls) = c
  <2>1. StateOf(V, nm, none, lost)
    BY <1>3, <1>14, StateLarger
  <2>2. StateOf(V, nm, none, ls) /\ Outside(nm, none, ls) = Plus(Outside(nm, none, lost), forgot)
    BY <1>4, <2>1, LostCount DEF ls
  <2> QED BY <1>14, <2>2 DEF StateOf, c
<1>16. Depth' = 0
  BY <1>1 DEF Depth, none
<1>17. HeapOK'
  BY <1>1, <1>12, <1>13, <1>15, <1>16 DEF HeapOK, W
<1>18. FramesOK(frames')
  <2>1. Len(none) = 0 /\ 0 <= MaxFrames /\ 1..0 = {}
    BY BoundsAssumption DEF none
  <2>2. FramesOK(none)
    BY <2>1 DEF FramesOK
  <2> QED BY <1>1, <2>2
<1>19. LostOK'
  BY <1>1, <1>2, <1>4, LoseBound
<1>20. Steadies(heap, heap')
  BY <1>13 DEF Withers, Steadies
<1> QED BY <1>1, <1>2, <1>13, <1>17, <1>18, <1>19, <1>20, SMTT(30) DEF Good

(***************************************************************************)
(* The specification.                                                      *)
(***************************************************************************)

LEMMA OperatorKeeps ==
  ASSUME IInv, Running, Operator
  PROVE  Good /\ ElementsKept
<1>1. CASE \E term \in Terms : Push(term)
  BY <1>1, PushKeeps DEF ElementsKept
<1>2. CASE \E term \in Terms : Call(term)
  BY <1>2, CallKeeps DEF ElementsKept
<1>3. CASE \E term \in Terms : Return(term)
  <2>1. PICK term \in Terms : Return(term)
    BY <1>3
  <2>2. Good /\ (Stable \/ Steadies(heap, heap'))
    BY <2>1, ReturnKeeps
  <2> QED BY <2>2 DEF ElementsKept
<1>4. CASE \E term \in Terms, p \in Places, want \in BOOLEAN : Store(term, p, want)
  <2>1. PICK term \in Terms, p \in Places, want \in BOOLEAN : Store(term, p, want)
    BY <1>4
  <2>2. Good /\ Stable
    BY <2>1, StoreKeeps
  <2> QED BY <2>2 DEF ElementsKept
<1>5. CASE \E term \in Terms, p \in Places : CopyObject(term, p)
  <2>1. PICK term \in Terms, p \in Places : CopyObject(term, p)
    BY <1>5
  <2>2. Good /\ Stable
    BY <2>1, CopyObjectGood
  <2> QED BY <2>2 DEF ElementsKept
<1>6. CASE \E term \in Terms, p \in Places, i \in Positions : StoreElement(term, p, i)
  <2>1. PICK term \in Terms, p \in Places, i \in Positions : StoreElement(term, p, i)
    BY <1>6
  <2>2. Good /\ (Stable \/ \E o \in Objects : Value(p) = Whole(o) /\ StableBut(o))
    BY <2>1, StoreElementKeeps
  <2> QED BY <2>1, <2>2 DEF ElementsKept
<1>7. CASE \E p \in Places : SizeOf(p)
  BY <1>7, SizeOfKeeps DEF ElementsKept
<1>8. CASE \E p \in Places : CreateField(p)
  BY <1>8, CreateFieldKeeps DEF ElementsKept
<1>9. CASE \E p \in Places : \E i \in Positions, q \in Places : IndexTo(p, i, q)
  <2>1. PICK p \in Places, i \in Positions, q \in Places : IndexTo(p, i, q)
    BY <1>9
  <2>2. Good /\ Stable
    BY <2>1, IndexToKeeps
  <2> QED BY <2>2 DEF ElementsKept
<1> QED BY <1>1, <1>2, <1>3, <1>4, <1>5, <1>6, <1>7, <1>8, <1>9, SMTT(30) DEF Operator

LEMMA StepKeeps ==
  ASSUME IInv, Next
  PROVE  IInv' /\ ElementsKept
<1>1. steps \in 0..MaxSteps /\ MaxSteps \in Nat
  BY BoundsAssumption DEF IInv
<1>2. CASE Running /\ steps < MaxSteps /\ steps' = steps + 1 /\ Operator
  <2>1. Good /\ ElementsKept
    BY <1>2, OperatorKeeps
  <2>2. steps' \in 0..MaxSteps
    BY <1>1, <1>2
  <2> QED BY <2>1, <2>2 DEF Good, IInv
<1>3. CASE Eval
  <2>1. Good /\ Stable /\ steps' = steps
    BY <1>3, EvalKeeps, SMTT(30) DEF Eval
  <2> QED BY <1>1, <2>1, SMTT(30) DEF Good, IInv, ElementsKept
<1>4. CASE Drop
  <2>1. Good /\ Stable /\ steps' = steps
    BY <1>4, DropKeeps DEF Drop
  <2> QED BY <1>1, <2>1 DEF Good, IInv, ElementsKept
<1>5. CASE EndMethod
  <2>1. Good /\ (Stable \/ Steadies(heap, heap')) /\ steps' = steps
    BY <1>5, EndMethodKeeps DEF EndMethod
  <2> QED BY <1>1, <2>1 DEF Good, IInv, ElementsKept
<1>6. CASE Fail
  <2>1. Good /\ Steadies(heap, heap') /\ steps' = steps
    BY <1>6, FailKeeps DEF Fail
  <2> QED BY <1>1, <2>1, SMTT(30) DEF Good, IInv, ElementsKept
<1> QED BY <1>2, <1>3, <1>4, <1>5, <1>6 DEF Next

LEMMA InitOK == Init => IInv
<1> SUFFICES ASSUME Init PROVE IInv
  OBVIOUS
<1> DEFINE V == Alive(0)
           none == <<>>
           c == Outside(name, frames, lost)
<1>1. /\ heap = [o \in Objects |-> Free] /\ name = [n \in Names |-> Integer]
      /\ frames = none /\ lost = [o \in Objects |-> 0] /\ status = "ok" /\ steps = 0
  BY DEF Init
<1>2. Depth = 0 /\ Len(none) = 0
  BY <1>1 DEF Depth
<1>3. ValueSet(V) /\ Integer \in V
  BY AliveValues DEF ValueSet
<1>4. StateOf(V, name, frames, lost)
  BY <1>1, <1>3 DEF StateOf
<1>5. \A o : Uses(none, o) = 0
  BY UsesNone
<1>6. \A o \in Objects : heap[o].kind = "free" /\ heap[o].rc = 0 /\ heap[o].elems = none
  BY <1>1 DEF Free
<1>7. heap \in HeapOf(V)
  <2>1. Free \in Cell(V) /\ CellOK(Free)
    BY DEF Free, Cell, CellOK
  <2> QED BY <1>1, <2>1 DEF HeapOf
<1>8. ASSUME NEW o \in Objects PROVE c[o] = 0
  <2>1. Uses(name, o) = 0
    <3>1. {i \in DOMAIN name : Holds(name[i], o)} = {}
      BY <1>1 DEF Holds, Counts, Integer
    <3> QED BY <3>1, FS_EmptySet DEF Uses
  <2>2. UsesIn(FrameRows(frames), o) = 0
    <3> DEFINE rows == FrameRows(frames)
    <3>1. DOMAIN rows = {}
      BY <1>1 DEF FrameRows
    <3> HIDE DEF rows
    <3>2. UNION {{r} \X {i \in DOMAIN rows[r] : Holds(rows[r][i], o)} : r \in DOMAIN rows} = {}
      BY <3>1
    <3> QED BY <3>2, FS_EmptySet DEF UsesIn, rows
  <2>3. lost[o] = 0
    BY <1>1
  <2> QED BY <2>1, <2>2, <2>3 DEF Outside
<1>9. ASSUME NEW o \in Objects PROVE UsesIn(Rows(heap), o) = 0
  <2> DEFINE rows == Rows(heap)
  <2>1. \A r \in DOMAIN rows : rows[r] = none
    BY <1>6 DEF Rows
  <2>2. DOMAIN none = {}
    OBVIOUS
  <2> HIDE DEF rows, none
  <2>3. UNION {{r} \X {i \in DOMAIN rows[r] : Holds(rows[r][i], o)} : r \in DOMAIN rows} = {}
    BY <2>1, <2>2
  <2> QED BY <2>3, FS_EmptySet DEF UsesIn, rows
<1>10. c \in [Objects -> Nat]
  BY <1>4, OutsideAt
<1> HIDE DEF c, V, none
<1>11. Counted(heap, V, c)
  BY <1>6, <1>7, <1>8, <1>9, <1>10 DEF Counted
<1>12. HeapOK
  BY <1>2, <1>4, <1>11 DEF HeapOK, V, c
<1>13. FramesOK(frames)
  <2>1. 0 <= MaxFrames /\ 1..0 = {}
    BY BoundsAssumption
  <2> QED BY <1>1, <1>2, <2>1 DEF FramesOK
<1>14. LostOK /\ status \in Statuses /\ steps \in 0..MaxSteps
  BY <1>1, BoundsAssumption DEF LostOK, Statuses
<1> QED BY <1>12, <1>13, <1>14 DEF IInv

LEMMA AliveTyped ==
  ASSUME Depth \in Nat, Depth <= MaxFrames
  PROVE  Alive(Depth) \subseteq Values
<1>1. 1..Depth \subseteq 1..MaxFrames
  BY BoundsAssumption
<1>2. Everywhere(Depth) \subseteq ({"local", "arg"} \X (1..MaxFrames)) \cup ({"name"} \X Names)
  BY <1>1 DEF Everywhere
<1> QED BY <1>2 DEF Alive, Values

LEMMA InvariantTyped ==
  ASSUME IInv
  PROVE  TypeOK
<1> DEFINE V == Alive(Depth)
           W == Values
           c == Outside(name, frames, lost)
<1>1. StateOf(V, name, frames, lost) /\ Counted(heap, V, c) /\ FramesOK(frames)
  BY DEF IInv, HeapOK
<1>2. Depth \in Nat /\ Depth <= MaxFrames /\ DOMAIN frames = 1..Depth
  <2> DEFINE S == FrameOf(V)
  <2>1. frames \in Seq(S)
    BY <1>1 DEF StateOf
  <2> HIDE DEF S
  <2> QED BY <1>1, <2>1 DEF FramesOK, Depth
<1>3. V \subseteq W
  BY <1>2, AliveTyped
<1> HIDE DEF V, W, c
<1>4. StateOf(W, name, frames, lost) /\ Counted(heap, W, c)
  BY <1>1, <1>3, StateLarger, HeapLarger
<1>5. ASSUME NEW o \in Objects
      PROVE  /\ heap[o].kind \in {"free", "bytes", "package"}
             /\ heap[o].rc \in Nat
             /\ heap[o].elems \in Seq(Values)
             /\ heap[o].kind = "package" => heap[o].size \in 0..Len(heap[o].elems)
  <2> DEFINE cell == heap[o]
  <2>1. cell \in Cell(W) /\ CellOK(cell)
    BY <1>4, CellType DEF Counted
  <2> HIDE DEF cell
  <2>2. /\ cell.kind \in {"free", "bytes", "package"} /\ cell.rc \in Nat /\ cell.elems \in Seq(W)
        /\ cell.size \in Nat
    BY <2>1 DEF Cell
  <2>3. cell.kind = "package" => cell.size <= Len(cell.elems)
    BY <2>1 DEF CellOK
  <2> DEFINE l == Len(cell.elems)
  <2>4. l \in Nat
    BY <2>2
  <2>5. cell.kind = "package" => cell.size \in 0..l
    BY <2>2, <2>3, <2>4, SMTT(30)
  <2> QED BY <2>2, <2>5 DEF cell, W
<1>6. /\ name \in [Names -> Values]
      /\ frames \in Seq([local : Values, arg : Values, fields : Seq(Values), ops : Seq(Values)])
  BY <1>4 DEF StateOf, FrameOf, W
<1>7. \A k \in 1..Depth : Len(frames[k].ops) <= MaxOps
  BY <1>1 DEF FramesOK, Depth
<1>8. /\ lost \in [Objects -> 0..MaxLost] /\ steps \in 0..MaxSteps
      /\ status \in {"ok", "types", "bounds", "opstack", "wild"}
  BY DEF IInv, LostOK, Statuses
<1> QED BY <1>2, <1>5, <1>6, <1>7, <1>8, SMTT(30) DEF TypeOK

LEMMA InvariantExact ==
  ASSUME IInv
  PROVE  RefCountsExact
<1> DEFINE V == Alive(Depth)
<1>1. StateOf(V, name, frames, lost) /\ Counted(heap, V, Outside(name, frames, lost))
  BY DEF IInv, HeapOK
<1> HIDE DEF V
<1> SUFFICES ASSUME NEW o \in Objects
             PROVE  /\ heap[o].rc = Uses(name, o) + UsesIn([k \in DOMAIN frames |-> Kept(frames[k])], o)
                                    + UsesIn([p \in Objects |-> heap[p].elems], o) + lost[o]
                    /\ heap[o].kind = "free" <=> heap[o].rc = 0
  BY DEF RefCountsExact
<1>2. /\ heap[o].rc = UsesIn(Rows(heap), o) + Outside(name, frames, lost)[o]
      /\ heap[o].kind = "free" <=> heap[o].rc = 0
  BY <1>1 DEF Counted
<1>3. /\ Uses(name, o) \in Nat /\ UsesIn(FrameRows(frames), o) \in Nat /\ lost[o] \in Nat
      /\ Outside(name, frames, lost)[o] = Uses(name, o) + UsesIn(FrameRows(frames), o) + lost[o]
  BY <1>1, OutsideAt
<1>4. UsesIn(Rows(heap), o) \in Nat
  BY <1>1, HeapRows DEF Counted
<1>5. heap[o].rc = Uses(name, o) + UsesIn(FrameRows(frames), o) + UsesIn(Rows(heap), o) + lost[o]
  BY <1>2, <1>3, <1>4
<1> QED BY <1>2, <1>5 DEF FrameRows, Rows

LEMMA KeptBound ==
  ASSUME ElementsKept, NEW o \in Objects
  PROVE  BoundTo(o)
<1> DEFINE e == heap[o].elems
           f == heap'[o].elems
<1> SUFFICES ASSUME heap[o].kind = "package", heap'[o].kind = "package",
                    DOMAIN e # DOMAIN f \/ \E i \in DOMAIN e : f[i] \notin {e[i], Dangling}
             PROVE  \/ \E n \in Names : name[n] = Whole(o)
                    \/ \E term \in Terms, p \in Places, i \in Positions :
                         Value(p) = Whole(o) /\ StoreElement(term, p, i)
  BY DEF BoundTo
<1>1. f # e
  OBVIOUS
<1>2. CASE Stable
  BY <1>1, <1>2, SMTT(30) DEF Stable
<1>3. CASE Steadies(heap, heap')
  BY <1>3 DEF Steadies
<1>4. CASE \E term \in Terms, p \in Places, i \in Positions, x \in Objects :
             Value(p) = Whole(x) /\ StoreElement(term, p, i) /\ StableBut(x)
  <2>1. PICK term \in Terms, p \in Places, i \in Positions, x \in Objects :
             Value(p) = Whole(x) /\ StoreElement(term, p, i) /\ StableBut(x)
    BY <1>4
  <2>2. CASE x = o
    BY <2>1, <2>2
  <2>3. CASE x # o
    <3>1. heap'[o].elems = heap[o].elems \/ \E n \in Names : name[n] = Whole(o)
      BY <2>1, <2>3 DEF StableBut
    <3> QED BY <1>1, <3>1
  <2> QED BY <2>2, <2>3
<1> QED BY <1>2, <1>3, <1>4, SMTT(30) DEF ElementsKept

\* The inductive invariant holds in every state: the counts, and what the bounds and
\* the types need.
THEOREM InvariantHolds == Spec => []IInv
<1>1. Init => IInv
  BY InitOK
<1>2. IInv /\ [Next]_vars => IInv'
  <2> SUFFICES ASSUME IInv, [Next]_vars PROVE IInv'
    OBVIOUS
  <2>1. CASE Next
    BY <2>1, StepKeeps
  <2>2. CASE UNCHANGED vars
    <3>1. /\ heap' = heap /\ name' = name /\ frames' = frames /\ lost' = lost /\ status' = status
          /\ steps' = steps
      BY <2>2 DEF vars
    <3>2. Depth' = Depth
      BY <3>1 DEF Depth
    <3> QED BY <3>1, <3>2 DEF IInv, HeapOK, LostOK
  <2> QED BY <2>1, <2>2
<1> QED BY <1>1, <1>2, PTL DEF Spec

\* Every object, variable and operand has its type, and no invocation has more operands
\* than the bound: Call() takes its operand from the stack.
THEOREM TypesHold == Spec => []TypeOK
<1>1. IInv => TypeOK
  BY InvariantTyped
<1> QED BY <1>1, InvariantHolds, PTL

\* The count of every object is the number of variables, elements, operands and buffer
\* fields that use it and of references that were lost, whatever operators, calls,
\* returns and errors came before: what nothing uses is freed, apart from cycles.
THEOREM CountsExact == Spec => []RefCountsExact
<1>1. IInv => RefCountsExact
  BY InvariantExact
<1> QED BY <1>1, InvariantHolds, PTL

\* The elements of a package change only by a store to Index() of it or to a Name that
\* holds it: an index keeps referring to the package it was made of.
THEOREM IndicesStayBound == Spec => IndicesBindToObjects
<1>1. IInv /\ [Next]_vars => [\A o \in Objects : BoundTo(o)]_vars
  <2> SUFFICES ASSUME IInv, Next PROVE \A o \in Objects : BoundTo(o)
    OBVIOUS
  <2>1. ElementsKept
    BY StepKeeps, SMTT(30)
  <2> QED BY <2>1, KeptBound
<1>2. [\A o \in Objects : BoundTo(o)]_vars
      => [\A o \in Objects :
            LET e == heap[o].elems f == heap'[o].elems
            IN  /\ heap[o].kind = "package" /\ heap'[o].kind = "package"
                /\ \/ DOMAIN e # DOMAIN f
                   \/ \E i \in DOMAIN e : f[i] \notin {e[i], Dangling}
                => \/ \E n \in Names : name[n] = Whole(o)
                   \/ \E term \in Terms, p \in Places, i \in Positions :
                        Value(p) = Whole(o) /\ StoreElement(term, p, i)]_vars
  BY DEF BoundTo
<1> QED BY <1>1, <1>2, InvariantHolds, PTL DEF Spec, IndicesBindToObjects

(***************************************************************************)
(* Ownership.  Every object has a spot: the variable at the root of the    *)
(* package it is in, and the path of positions that leads to it from       *)
(* there.  An object keeps its spot for as long as it lives.  Several      *)
(* objects may be at one spot, such as the old and the new value of a      *)
(* variable, but no object is ever at two, which is what keeps variables   *)
(* apart.                                                                  *)
(***************************************************************************)

LEMMA SpotsType ==
  /\ \A a \in Spots, i \in Nat : Child(a, i) \in Spots
  /\ \A k \in Nat : {Root(<<"local", k>>), Root(<<"arg", k>>), Root(<<"name", k>>), Root(Nowhere)}
                      \subseteq Spots
BY DEF Spots, Child, Root, Nowhere

LEMMA RootSpot ==
  ASSUME NEW d \in Nat, NEW p \in Everywhere(d)
  PROVE  Root(p) \in Spots
<1>1. p \in {"local", "arg", "name", "null"} \X Nat
  BY ContentsAssumption DEF Everywhere
<1> QED BY <1>1 DEF Root, Spots

LEMMA PlantedShrinks ==
  ASSUME NEW V, NEW h, NEW g \in HeapOf(V), NEW at, Planted(h, at), Shrinks(h, g)
  PROVE  Planted(g, at)
<1> SUFFICES ASSUME NEW o \in Objects, NEW i \in DOMAIN g[o].elems
             PROVE  Sits(at, g[o].elems[i], Child(at[o], i))
  BY DEF Planted
<1>1. g[o].kind # "free"
  BY CellType DEF CellOK
<1>2. g[o].elems = h[o].elems
  BY <1>1 DEF Shrinks
<1> QED BY <1>2 DEF Planted

LEMMA PlantedSame ==
  ASSUME NEW h, NEW g, \A o \in Objects : g[o].elems = h[o].elems, NEW at, Planted(h, at)
  PROVE  Planted(g, at)
BY DEF Planted

LEMMA PlantedRef ==
  ASSUME NEW V, ValueSet(V), NEW h \in HeapOf(V), NEW v \in V, NEW at, Planted(h, at)
  PROVE  Planted(Ref(h, v), at)
<1>1. \A o \in Objects : Ref(h, v)[o].elems = h[o].elems
  BY RefType
<1> DEFINE g == Ref(h, v)
<1> HIDE DEF g
<1>2. \A o \in Objects : g[o].elems = h[o].elems
  BY <1>1 DEF g
<1>3. Planted(g, at)
  BY <1>2, PlantedSame
<1> QED BY <1>3 DEF g

LEMMA GrowsSurvives ==
  ASSUME NEW h, NEW g, Grows(h, g)
  PROVE  Survives(h, g)
BY DEF Grows, Survives

LEMMA StaysTrans ==
  ASSUME NEW h, NEW g, Survives(h, g), NEW at, NEW at2, NEW at3, Stays(h, at, at2), Stays(g, at2, at3)
  PROVE  Stays(h, at, at3)
BY DEF Stays, Survives

\* A new object takes a spot.
LEMMA CreatePlanted ==
  ASSUME NEW V, ValueSet(V), NEW h, NEW c, Counted(h, V, c), NEW at, Planted(h, at),
         NEW kind, NEW elems, Unused(h) # {}, NEW a \in Spots,
         \A i \in DOMAIN elems :
            elems[i].type = "object" => elems[i].object # Fresh(h) /\ at[elems[i].object] = Child(a, i)
  PROVE  \E at2 : /\ Planted(Create(h, kind, elems), at2) /\ Stays(h, at, at2)
                  /\ at2[Fresh(h)] = a
                  /\ \A o \in Objects \ {Fresh(h)} : at2[o] = at[o]
<1> DEFINE x == Fresh(h)
           g == Create(h, kind, elems)
           at2 == [at EXCEPT ![x] = a]
<1>1. x \in Objects /\ h[x].kind = "free" /\ h \in HeapOf(V)
  BY DEF Fresh, Unused, Counted
<1>2. g[x].elems = elems /\ \A o \in Objects \ {x} : g[o] = h[o]
  BY <1>1 DEF Create, HeapOf
<1>3. at2 \in [Objects -> Spots] /\ at2[x] = a /\ \A o \in Objects \ {x} : at2[o] = at[o]
  BY <1>1 DEF Planted
<1> HIDE DEF x, g, at2
<1>4. ASSUME NEW o \in Objects \ {x}, NEW i \in DOMAIN h[o].elems, h[o].elems[i].type = "object"
      PROVE  h[o].elems[i].object \in Objects \ {x}
  <2> DEFINE v == h[o].elems[i]
  <2>1. v \in V
    BY <1>1, CellType
  <2>2. v.object \in Objects /\ Holds(v, v.object)
    BY <1>4, <2>1 DEF ValueSet, Counts, Holds
  <2>3. h[v.object].kind # "free"
    BY <2>2, UsedAlive
  <2> QED BY <1>1, <2>2, <2>3
<1>5. ASSUME NEW o \in Objects, NEW i \in DOMAIN g[o].elems
      PROVE  Sits(at2, g[o].elems[i], Child(at2[o], i))
  <2>1. CASE o = x
    <3>1. /\ i \in DOMAIN elems /\ g[o].elems[i] = elems[i] /\ at2[o] = a
          /\ elems[i].type = "object" => elems[i].object # x /\ at[elems[i].object] = Child(a, i)
      BY <1>2, <1>3, <2>1 DEF x
    <3>2. DOMAIN at2 = Objects /\ DOMAIN at = Objects /\ at2 = [at EXCEPT ![x] = a]
      BY <1>3 DEF Planted, at2
    <3> QED BY <3>1, <3>2 DEF Sits
  <2>2. CASE o # x
    <3>1. g[o].elems = h[o].elems /\ at2[o] = at[o] /\ o \in Objects \ {x}
      BY <1>2, <1>3, <2>2
    <3>2. Sits(at, h[o].elems[i], Child(at[o], i))
      BY <3>1 DEF Planted
    <3> QED BY <1>3, <1>4, <3>1, <3>2 DEF Sits
  <2> QED BY <2>1, <2>2
<1>6. Planted(g, at2)
  BY <1>3, <1>5 DEF Planted
<1>7. Stays(h, at, at2)
  BY <1>1, <1>3 DEF Stays
<1> QED BY <1>3, <1>6, <1>7 DEF x, g

LEMMA CopyPlanted ==
  ASSUME NEW V, ValueSet(V), NEW h, NEW c, Counted(h, V, c), NEW v \in V, Live(h, v), Fits(h, v),
         NEW at, Planted(h, at), NEW a \in Spots
  PROVE  LET k == Copy(h, v)
         IN  \E at2 : Planted(k.heap, at2) /\ Stays(h, at, at2) /\ Sits(at2, k.value, a)
<1>1. CASE v.type = "object"
  <2> DEFINE e == ElementsOf(h, v.object)
             nones == [i \in DOMAIN e |-> None]
             kind == h[v.object].kind
  <2>1. Unused(h) # {}
    BY <1>1 DEF Fits
  <2>2. \A i \in DOMAIN nones : nones[i].type # "object"
    BY DEF None
  <2>3. Copy(h, v).heap = Create(h, kind, nones) /\ Copy(h, v).value = Whole(Fresh(h))
    BY <1>1 DEF Copy
  <2> HIDE DEF nones, kind
  <2>4. PICK at2 : Planted(Create(h, kind, nones), at2) /\ Stays(h, at, at2) /\ at2[Fresh(h)] = a
    BY <2>1, <2>2, CreatePlanted
  <2>5. Sits(at2, Whole(Fresh(h)), a)
    BY <2>4 DEF Sits, Whole
  <2> QED BY <2>3, <2>4, <2>5
<1>2. CASE v.type # "object"
  <2>1. Copy(h, v).heap = Ref(h, v) /\ Copy(h, v).value = v
    BY <1>2 DEF Copy
  <2>2. Planted(Ref(h, v), at)
    BY PlantedRef DEF Counted
  <2>3. Stays(h, at, at) /\ Sits(at, v, a)
    BY <1>2 DEF Stays, Sits
  <2> QED BY <2>1, <2>2, <2>3
<1> QED BY <1>1, <1>2

LEMMA PlantedElement ==
  ASSUME NEW h, NEW g, NEW o, NEW i, NEW v, ElementSet(h, g, o, i, v), NEW at, Planted(h, at),
         o \in Objects, Sits(at, v, Child(at[o], i))
  PROVE  Planted(g, at)
<1> SUFFICES ASSUME NEW p \in Objects, NEW j \in DOMAIN g[p].elems
             PROVE  Sits(at, g[p].elems[j], Child(at[p], j))
  BY DEF Planted
<1>1. CASE p = o /\ j = i
  BY <1>1 DEF ElementSet
<1>2. CASE p # o \/ j # i
  <2>1. j \in DOMAIN h[p].elems /\ g[p].elems[j] = h[p].elems[j]
    BY <1>2 DEF ElementSet
  <2> QED BY <2>1 DEF Planted
<1> QED BY <1>1, <1>2

LEMMA CloneNextPlanted ==
  ASSUME NEW V, ValueSet(V), NEW h0, NEW c \in [Objects -> Nat],
         NEW h1, NEW at1, NEW s \in Growing(V, c, h0, h1, at1)
  PROVE  CloneNext(s) \in Growing(V, c, h0, h1, at1)
<1> DEFINE h == s.heap
           left == s.left
           slot == Head(left)
           k == Copy(h, slot.value)
           o == slot.object
           i == slot.at
           g == SetElement(k.heap, o, i, k.value)
<1>1. CloneNext(s) \in Cloning(V, c, h0)
  BY CloneNextKeeps DEF Growing
<1>2. PICK at : Planted(h, at) /\ Stays(h1, at1, at)
  BY DEF Growing
<1>5. Survives(h1, h)
  BY DEF Growing
<1>3. CASE left = <<>> \/ ~Fits(h, slot.value)
  BY <1>3 DEF CloneNext
<1>4. CASE left # <<>> /\ Fits(h, slot.value)
  <2>1. CloneNext(s).heap = g
    BY <1>4 DEF CloneNext, CloneSlot
  <2>2. /\ Counted(h, V, c) /\ Grows(h0, h) /\ SlotsOK(V, h0, h, left) /\ left \in Seq(SlotSet(V))
    BY SMTT(30) DEF Growing, Cloning
  <2>3. slot \in SlotSet(V) /\ SlotOK(h0, h, slot)
    <3>1. slot = left[1] /\ 1 \in DOMAIN left
      BY <1>4, <2>2
    <3> HIDE DEF slot, left, h
    <3> QED BY <2>2, <3>1 DEF SlotsOK
  <2> HIDE DEF slot, left, h
  <2>4. /\ slot.value \in V /\ Live(h, slot.value) /\ o \in Objects /\ i \in Nat
        /\ InPackage(h, o, i)
    BY <2>3, SMTT(30) DEF SlotSet, SlotOK
  <2>5. Counted(k.heap, V, Plus(c, <<k.value>>)) /\ Grows(h, k.heap) /\ k.value \in V
    BY <1>4, <2>2, <2>4, CopyKeeps
  <2>6. Child(at[o], i) \in Spots
    BY <1>2, <2>4, SpotsType DEF Planted
  <2>7. PICK at2 : /\ Planted(k.heap, at2) /\ Stays(h, at, at2)
                   /\ Sits(at2, k.value, Child(at[o], i))
    BY <1>2, <1>4, <2>2, <2>4, <2>6, CopyPlanted
  <2> HIDE DEF k
  <2>8. InPackage(k.heap, o, i) /\ at2[o] = at[o]
    BY <2>4, <2>5, <2>7 DEF Grows, InPackage, Stays
  <2>9. ElementSet(k.heap, g, o, i, k.value)
    BY <2>5, <2>8, SetElementKeeps
  <2> HIDE DEF g, o, i
  <2>10. Planted(g, at2)
    BY <2>4, <2>7, <2>8, <2>9, PlantedElement
  <2>11. Stays(h1, at1, at2)
    BY <1>2, <1>5, <2>7, StaysTrans
  <2>12. Survives(h1, g)
    <3>1. \A p \in Objects : g[p].kind = k.heap[p].kind
      BY <2>9 DEF ElementSet
    <3> QED BY <1>5, <2>5, <3>1 DEF Grows, Survives
  <2> QED BY <1>1, <2>1, <2>10, <2>11, <2>12 DEF Growing
<1> QED BY <1>3, <1>4

LEMMA ClonePlanted ==
  ASSUME NEW V, ValueSet(V), NEW h, NEW c \in [Objects -> Nat], Counted(h, V, c),
         NEW v \in V, Live(h, v), Clone(h, v).fits, NEW at, Planted(h, at), NEW a \in Spots
  PROVE  LET k == Clone(h, v)
         IN  \E at2 : Planted(k.heap, at2) /\ Stays(h, at, at2) /\ Sits(at2, k.value, a)
<1> DEFINE copy == Copy(h, v)
           d == Plus(c, <<copy.value>>)
           first == [heap |-> copy.heap, left |-> copy.left]
<1>1. Fits(h, v)
  <2> SUFFICES ASSUME ~Fits(h, v) PROVE FALSE
    OBVIOUS
  <2>1. Clone(h, v) = [heap |-> h, value |-> None, fits |-> FALSE]
    BY SMTT(30) DEF Clone
  <2> QED BY <2>1
<1>2. PICK at1 : Planted(copy.heap, at1) /\ Stays(h, at, at1) /\ Sits(at1, copy.value, a)
  <2> HIDE DEF d, first
  <2> QED BY <1>1, CopyPlanted
<1>3. /\ Counted(copy.heap, V, d) /\ Grows(h, copy.heap) /\ copy.value \in V
      /\ v.type = "object" => Counts(copy.value) /\ copy.value.object \in Objects
      /\ v.type # "object" => copy.value = v
      /\ SlotsOK(V, h, copy.heap, copy.left)
  <2> HIDE DEF first
  <2> QED BY <1>1, CopyKeeps DEF d
<1> HIDE DEF copy
<1>4. d \in [Objects -> Nat] /\ copy.heap \in HeapOf(V) /\ h \in HeapOf(V)
  BY <1>3, PlusOne DEF Counted
<1> HIDE DEF d
<1> DEFINE S == Growing(V, d, h, copy.heap, at1)
<1>5. first \in S
  <2>1. first \in Cloning(V, d, h)
    BY <1>3, <1>4 DEF Cloning, SlotsOK
  <2>2. Survives(copy.heap, copy.heap) /\ Stays(copy.heap, at1, at1)
    BY DEF Survives, Stays
  <2> QED BY <1>2, <2>1, <2>2 DEF Growing
<1>6. \A s \in S : CloneNext(s) \in S
  BY <1>4, CloneNextPlanted
<1> HIDE DEF S
<1>7. PICK s \in S : Clone(h, v) = [heap |-> s.heap, value |-> copy.value, fits |-> s.left = <<>>]
  BY <1>4, <1>5, <1>6, CloneRecursion DEF copy
<1>8. PICK at2 : Planted(s.heap, at2) /\ Stays(copy.heap, at1, at2)
  BY DEF S, Growing
<1>9. Stays(h, at, at2)
  BY <1>2, <1>3, <1>8, GrowsSurvives, StaysTrans
<1>10. Sits(at2, copy.value, a)
  <2> SUFFICES ASSUME copy.value.type = "object" PROVE at2[copy.value.object] = a
    BY DEF Sits
  <2>3. Counts(copy.value) /\ copy.value.object \in Objects
    BY <1>3
  <2>4. d[copy.value.object] > 0
    BY <1>3, <2>3, PlusMore DEF d
  <2>1. Live(copy.heap, copy.value) /\ copy.value.object \in Objects
    BY <1>3, <2>3, <2>4, UsedAlive DEF Live
  <2>2. at1[copy.value.object] = a
    BY <1>2 DEF Sits
  <2> QED BY <1>8, <2>1, <2>2 DEF Stays, Live, Counts
<1> QED BY <1>7, <1>8, <1>9, <1>10

\* What is counted outside of the heap is alive.
LEMMA HeldAlive ==
  ASSUME NEW V, ValueSet(V), NEW c \in [Objects -> Nat], NEW vs \in Seq(V), NEW h,
         Counted(h, V, Plus(c, vs)), NEW i \in DOMAIN vs, Counts(vs[i])
  PROVE  vs[i].object \in Objects /\ h[vs[i].object].kind # "free"
<1> DEFINE o == vs[i].object
<1>1. o \in Objects /\ Holds(vs[i], o)
  BY DEF ValueSet, Holds
<1> HIDE DEF o
<1>2. Uses(vs, o) >= 1 /\ Uses(vs, o) \in Nat
  BY <1>1, SeqFinite, UsesSome, UsesOfSeq
<1>3. Plus(c, vs)[o] > 0
  <2>1. Plus(c, vs)[o] = c[o] + Uses(vs, o) /\ c[o] \in Nat
    BY <1>1, PlusAt
  <2> QED BY <1>2, <2>1
<1> QED BY <1>1, <1>3, UsedAlive DEF o

LEMMA ShelvedAppend ==
  ASSUME NEW V, NEW elems \in Seq(V), NEW at, Shelved(at, elems), NEW v,
         Sits(at, v, Child(Shelf, Len(elems) + 1))
  PROVE  Shelved(at, Append(elems, v))
<1> SUFFICES ASSUME NEW i \in DOMAIN Append(elems, v)
             PROVE  Sits(at, Append(elems, v)[i], Child(Shelf, i))
  BY DEF Shelved
<1>1. CASE i = Len(elems) + 1
  <2>1. Append(elems, v)[i] = v
    BY <1>1
  <2> QED BY <1>1, <2>1
<1>2. CASE i # Len(elems) + 1
  <2>1. i \in DOMAIN elems /\ Append(elems, v)[i] = elems[i]
    BY <1>2
  <2> QED BY <2>1 DEF Shelved
<1> QED BY <1>1, <1>2

LEMMA BuildNextPlanted ==
  ASSUME NEW V, ValueSet(V), NEW c \in [Objects -> Nat], NEW h, NEW at0, NEW kinds,
         NEW i \in Nat, i > 0, kinds[i] \in Kinds, BytesIn(kinds, i) < Cardinality(Unused(h)),
         NEW b \in ShelfBuilt(V, c, h, at0, kinds, i - 1)
  PROVE  BuildNext(b, kinds[i]) \in ShelfBuilt(V, c, h, at0, kinds, i)
<1> DEFINE t == BuildNext(b, kinds[i])
           j == Len(b.elems) + 1
<1>1. t \in Built(V, c, h, kinds, i)
  BY BuildNextKeeps DEF ShelfBuilt
<1>2. PICK at : Planted(b.heap, at) /\ Stays(h, at0, at) /\ Shelved(at, b.elems)
  BY DEF ShelfBuilt
<1>3. /\ b.elems \in Seq(V) /\ Counted(b.heap, V, Plus(c, b.elems)) /\ Grows(h, b.heap)
      /\ Cardinality(Unused(b.heap)) + BytesIn(kinds, i - 1) = Cardinality(Unused(h))
  BY DEF ShelfBuilt, Built
<1>4. j \in Nat /\ Child(Shelf, j) \in Spots
  <2>1. j \in Nat
    BY <1>3
  <2> HIDE DEF j
  <2> QED BY <2>1, SpotsType DEF Shelf
<1>5. CASE kinds[i] = "bytes"
  <2> DEFINE x == Fresh(b.heap)
             g == Create(b.heap, "bytes", <<>>)
  <2>1. t.heap = g /\ t.elems = Append(b.elems, Whole(x))
    BY <1>5 DEF BuildNext
  <2>2. Unused(b.heap) # {}
    <3>1. BytesIn(kinds, i) = BytesIn(kinds, i - 1) + 1 /\ BytesIn(kinds, i - 1) \in Nat
      BY <1>5, BytesInNext
    <3>2. Cardinality(Unused(b.heap)) \in Nat /\ Cardinality(Unused(h)) \in Nat
      BY UnusedFinite
    <3>3. Cardinality(Unused(b.heap)) > 0
      BY <1>3, <3>1, <3>2
    <3> QED BY <3>3, UnusedFinite
  <2>3. PICK at2 : /\ Planted(g, at2) /\ Stays(b.heap, at, at2) /\ at2[x] = Child(Shelf, j)
    BY <1>2, <1>3, <1>4, <2>2, CreatePlanted
  <2>4. Shelved(at2, b.elems)
    <3> SUFFICES ASSUME NEW n \in DOMAIN b.elems, b.elems[n].type = "object"
                 PROVE  at2[b.elems[n].object] = Child(Shelf, n)
      BY DEF Shelved, Sits
    <3>1. b.elems[n].object \in Objects /\ b.heap[b.elems[n].object].kind # "free"
      BY <1>3, HeldAlive DEF Counts
    <3> QED BY <1>2, <2>3, <3>1 DEF Shelved, Sits, Stays
  <2>5. Sits(at2, Whole(x), Child(Shelf, j))
    BY <2>3 DEF Sits, Whole
  <2>6. Shelved(at2, Append(b.elems, Whole(x)))
    BY <1>3, <2>4, <2>5, ShelvedAppend
  <2>7. Stays(h, at0, at2)
    BY <1>2, <1>3, <2>3, GrowsSurvives, StaysTrans
  <2> QED BY <1>1, <2>1, <2>3, <2>6, <2>7 DEF ShelfBuilt
<1>6. CASE kinds[i] # "bytes"
  <2>1. PICK v \in {Integer, None} : t.heap = b.heap /\ t.elems = Append(b.elems, v)
    BY <1>6 DEF BuildNext, Kinds
  <2>2. Sits(at, v, Child(Shelf, j))
    BY DEF Sits, Integer, None
  <2>3. Shelved(at, t.elems)
    BY <1>2, <1>3, <2>1, <2>2, ShelvedAppend
  <2> QED BY <1>1, <1>2, <2>1, <2>3 DEF ShelfBuilt
<1> QED BY <1>5, <1>6

LEMMA InitializedPlanted ==
  ASSUME NEW V, ValueSet(V), NEW c \in [Objects -> Nat], NEW h, Counted(h, V, c),
         NEW kinds \in Seq(Kinds), BytesIn(kinds, Len(kinds)) < Cardinality(Unused(h)),
         NEW at0, Planted(h, at0)
  PROVE  LET b == Initialized(h, kinds)
         IN  \E at : Planted(b.heap, at) /\ Stays(h, at0, at) /\ Shelved(at, b.elems)
<1> DEFINE n == Len(kinds)
           U == [heap : HeapOf(V), elems : Seq(V)]
           P == [i \in 0..n |-> ShelfBuilt(V, c, h, at0, kinds, i)]
           b == Initialized(h, kinds)
           first == [heap |-> h, elems |-> <<>>]
<1>1. n \in Nat /\ \A i \in 1..n : kinds[i] \in Kinds
  OBVIOUS
<1>2. first \in P[0]
  <2>1. BytesIn(kinds, 0) = 0
    <3>1. {j \in 1..0 : kinds[j] = "bytes"} = {}
      OBVIOUS
    <3> QED BY <3>1, FS_EmptySet DEF BytesIn
  <2>2. Cardinality(Unused(h)) \in Nat
    BY UnusedFinite
  <2>3. Counted(h, V, Plus(c, <<>>)) /\ h \in HeapOf(V) /\ Grows(h, h)
    BY PlusNothing DEF Counted, Grows
  <2>4. first \in Built(V, c, h, kinds, 0)
    BY <2>1, <2>2, <2>3 DEF Built
  <2>5. Stays(h, at0, at0) /\ Shelved(at0, <<>>)
    BY DEF Stays, Shelved
  <2>6. first \in ShelfBuilt(V, c, h, at0, kinds, 0)
    BY <2>4, <2>5 DEF ShelfBuilt
  <2> QED BY <1>1, <2>6
<1>3. P \in [0..n -> SUBSET U]
  BY DEF ShelfBuilt, Built
<1>4. ASSUME NEW i \in 1..n PROVE BytesIn(kinds, i) < Cardinality(Unused(h))
  BY <1>1, BytesInLess
<1>5. \A i \in 1..n : \A x \in P[i - 1] : BuildNext(x, kinds[i]) \in P[i]
  <2> SUFFICES ASSUME NEW i \in 1..n, NEW x \in P[i - 1] PROVE BuildNext(x, kinds[i]) \in P[i]
    OBVIOUS
  <2>1. i \in 0..n /\ i - 1 \in 0..n /\ i \in Nat /\ i > 0
    BY <1>1
  <2>2. x \in ShelfBuilt(V, c, h, at0, kinds, i - 1)
    BY <2>1
  <2>3. kinds[i] \in Kinds /\ BytesIn(kinds, i) < Cardinality(Unused(h))
    BY <1>1, <1>4
  <2> HIDE DEF n
  <2>4. BuildNext(x, kinds[i]) \in ShelfBuilt(V, c, h, at0, kinds, i)
    BY <2>1, <2>2, <2>3, BuildNextPlanted
  <2> QED BY <2>1, <2>4
<1> HIDE DEF P, U
<1>6. b \in P[n]
  <2> HIDE DEF b
  <2>1. P \in [0..Len(kinds) -> SUBSET U] /\ [heap |-> h, elems |-> <<>>] \in P[0]
    BY <1>2, <1>3
  <2>2. \A i \in 1..Len(kinds) : \A x \in P[i - 1] : BuildNext(x, kinds[i]) \in P[i]
    BY <1>5
  <2> QED BY <2>1, <2>2, InitializedRecursion DEF b
<1> HIDE DEF n
<1>7. b \in ShelfBuilt(V, c, h, at0, kinds, n)
  BY <1>1, <1>6 DEF P
<1> HIDE DEF b
<1> QED BY <1>7 DEF ShelfBuilt, b

\* The evaluation of a term changes the spots of new objects only.
LEMMA DereferencePlanted ==
  ASSUME NEW V, ValueSet(V), NEW h, NEW c \in [Objects -> Nat], Counted(h, V, c),
         NEW v \in V, Live(h, v),
         v.type = "reference" => Value(v.place) \in V /\ Live(h, Value(v.place)),
         Dereference(h, v).fault = "ok", NEW at, Planted(h, at)
  PROVE  \E at2 : Planted(Dereference(h, v).heap, at2) /\ Stays(h, at, at2)
<1>0. Stays(h, at, at) /\ h \in HeapOf(V)
  BY DEF Stays, Counted
<1>1. CASE v.type = "reference"
  <2> DEFINE w == Value(v.place)
             k == Clone(h, w)
  <2>1. w \in V /\ Live(h, w)
    BY <1>1
  <2>2. k.fits /\ Dereference(h, v).heap = k.heap
    BY <1>1 DEF Dereference, Fault, Result
  <2>3. Shelf \in Spots
    BY SpotsType DEF Shelf
  <2> HIDE DEF w
  <2>4. \E at2 : Planted(k.heap, at2) /\ Stays(h, at, at2) /\ Sits(at2, k.value, Shelf)
    BY <2>1, <2>2, <2>3, ClonePlanted
  <2> QED BY <2>2, <2>4
<1>2. CASE v.type = "index" /\ h[v.object].kind = "bytes"
  <2>1. Dereference(h, v).heap = Ref(h, v)
    BY <1>2 DEF Dereference, Result
  <2> QED BY <1>0, <2>1, PlantedRef
<1>3. CASE v.type = "index" /\ h[v.object].kind # "bytes" /\ v.at \in DOMAIN h[v.object].elems
  <2> DEFINE e == h[v.object].elems[v.at]
             g == Ref(h, v)
  <2>1. Dereference(h, v).heap = Ref(g, e)
    BY <1>3 DEF Dereference, Result
  <2>2. e \in V
    <3>1. v.object \in Objects
      BY <1>3 DEF ValueSet, Counts
    <3>2. h[v.object].elems \in Seq(V)
      BY <1>0, <3>1, CellType
    <3> QED BY <1>3, <3>2
  <2>3. g \in HeapOf(V) /\ Planted(g, at)
    BY <1>0, RefType, PlantedRef
  <2> HIDE DEF g, e
  <2>4. Planted(Ref(g, e), at)
    BY <2>2, <2>3, PlantedRef
  <2> QED BY <1>0, <2>1, <2>4
<1>4. \/ v.type = "reference"
      \/ v.type = "index" /\ h[v.object].kind = "bytes"
      \/ v.type = "index" /\ h[v.object].kind # "bytes" /\ v.at \in DOMAIN h[v.object].elems
  <2> DEFINE why == IF v.type \in {"index", "dangling"} THEN "wild" ELSE "types"
  <2>1. \A x : Fault(x).fault = x
    BY DEF Fault, Result
  <2>2. why # "ok"
    BY SMTT(30)
  <2> DEFINE bytes == h[v.object].kind = "bytes"
             inside == v.at \in DOMAIN h[v.object].elems
  <2>3. ASSUME v.type # "reference", ~(v.type = "index" /\ bytes), ~(v.type = "index" /\ inside)
        PROVE  Dereference(h, v) = Fault(why)
    BY <2>3 DEF Dereference
  <2> HIDE DEF why
  <2>4. v.type = "reference" \/ (v.type = "index" /\ bytes) \/ (v.type = "index" /\ inside)
    BY <2>1, <2>2, <2>3
  <2> QED BY <2>4
<1> QED BY <1>1, <1>2, <1>3, <1>4

LEMMA LiteralPlanted ==
  ASSUME NEW V, ValueSet(V), NEW c \in [Objects -> Nat], Counted(heap, V, c),
         NEW term, term.op = "package" => term.kinds \in Seq(Kinds),
         term.op \in {"bytes", "package"}, Creates(term) <= Cardinality(Unused(heap)),
         NEW at, Planted(heap, at)
  PROVE  \E at2 : Planted(Operand(term).heap, at2) /\ Stays(heap, at, at2)
<1>1. Cardinality(Unused(heap)) \in Nat
  BY UnusedFinite
<1>0. Shelf \in Spots
  BY SpotsType DEF Shelf
<1>2. CASE term.op = "bytes"
  <2>1. Creates(term) = 1
    BY <1>2 DEF Creates
  <2>2. Unused(heap) # {}
    BY <1>1, <2>1, UnusedFinite
  <2>3. Operand(term).heap = Create(heap, "bytes", <<>>)
    BY <1>2 DEF Operand, Result
  <2> DEFINE none == <<>>
  <2>5. \A i \in DOMAIN none :
           none[i].type = "object" => none[i].object # Fresh(heap) /\ at[none[i].object] = Child(Shelf, i)
    OBVIOUS
  <2> DEFINE kind == "bytes"
  <2> HIDE DEF none, kind
  <2>6. ValueSet(V) /\ Counted(heap, V, c) /\ Planted(heap, at)
    OBVIOUS
  <2>4. \E at2 : Planted(Create(heap, kind, none), at2) /\ Stays(heap, at, at2)
    BY ONLY <1>0, <2>2, <2>5, <2>6, CreatePlanted
  <2> QED BY <2>3, <2>4 DEF none, kind
<1>3. CASE term.op = "package"
  <2> DEFINE kinds == term.kinds
             bytes == Cardinality({i \in DOMAIN kinds : kinds[i] = "bytes"})
             b == Initialized(heap, kinds)
  <2>1. kinds \in Seq(Kinds)
    BY <1>3
  <2>2. Creates(term) = 1 + bytes
    BY <1>3 DEF Creates
  <2>3. bytes = BytesIn(kinds, Len(kinds))
    <3>1. DOMAIN kinds = 1..Len(kinds)
      BY <2>1
    <3> QED BY <3>1 DEF BytesIn
  <2>4. bytes \in Nat
    <3>1. IsFiniteSet(DOMAIN kinds)
      BY <2>1, SeqFinite
    <3>2. IsFiniteSet({i \in DOMAIN kinds : kinds[i] = "bytes"})
      BY <3>1, FS_Subset
    <3> QED BY <3>2, FS_CardinalityType
  <2>5. Operand(term).heap = Create(b.heap, "package", b.elems)
    BY <1>3 DEF Operand, Result
  <2> HIDE DEF kinds, bytes, b
  <2>6. BytesIn(kinds, Len(kinds)) < Cardinality(Unused(heap))
    BY <1>1, <2>2, <2>3, <2>4
  <2>7. /\ b.elems \in Seq(V) /\ Counted(b.heap, V, Plus(c, b.elems)) /\ Grows(heap, b.heap)
        /\ Unused(b.heap) # {}
    BY <2>1, <2>6, InitializedKeeps DEF b
  <2>8. PICK at1 : Planted(b.heap, at1) /\ Stays(heap, at, at1) /\ Shelved(at1, b.elems)
    BY <2>1, <2>6, InitializedPlanted DEF b
  <2>9. \A i \in DOMAIN b.elems : b.elems[i].type = "object" =>
           b.elems[i].object # Fresh(b.heap) /\ at1[b.elems[i].object] = Child(Shelf, i)
    <3> SUFFICES ASSUME NEW i \in DOMAIN b.elems, b.elems[i].type = "object"
                 PROVE  b.elems[i].object # Fresh(b.heap) /\ at1[b.elems[i].object] = Child(Shelf, i)
      OBVIOUS
    <3>3. Counts(b.elems[i])
      BY DEF Counts
    <3>1. b.heap[b.elems[i].object].kind # "free"
      BY <2>7, <3>3, HeldAlive
    <3>2. b.heap[Fresh(b.heap)].kind = "free"
      BY <2>7 DEF Fresh, Unused
    <3> QED BY <2>8, <3>1, <3>2 DEF Shelved, Sits
  <2> DEFINE kind == "package"
  <2>10. PICK at2 : Planted(Create(b.heap, kind, b.elems), at2) /\ Stays(b.heap, at1, at2)
    <3> DEFINE g == b.heap
               elems == b.elems
               d == Plus(c, b.elems)
    <3>1. Counted(g, V, d) /\ Unused(g) # {} /\ Planted(g, at1)
      BY <2>7, <2>8
    <3>2. \A i \in DOMAIN elems : elems[i].type = "object" =>
             elems[i].object # Fresh(g) /\ at1[elems[i].object] = Child(Shelf, i)
      BY <2>9
    <3> HIDE DEF kind, g, elems, d
    <3>3. \E at2 : Planted(Create(g, kind, elems), at2) /\ Stays(g, at1, at2)
      BY ONLY ValueSet(V), <1>0, <3>1, <3>2, CreatePlanted
    <3> QED BY <3>3 DEF g, elems
  <2>11. Stays(heap, at, at2)
    BY <2>7, <2>8, <2>10, GrowsSurvives, StaysTrans
  <2> QED BY <2>5, <2>10, <2>11
<1> QED BY <1>2, <1>3

LEMMA OperandPlanted ==
  ASSUME Active, NEW term \in Terms, May(term), Operand(term).fault = "ok",
         NEW at, Planted(heap, at)
  PROVE  \E at2 : Planted(Operand(term).heap, at2) /\ Stays(heap, at, at2)
<1> DEFINE V == Alive(Depth)
           c == Plus(Base, Top.ops)
           p == term.place
           v == Value(p)
           i == term.at
<1>1. /\ Depth \in Nat /\ ValueSet(V) /\ Counted(heap, V, c) /\ Top.ops \in Seq(V)
  BY ActiveState
<1>2. c \in [Objects -> Nat] /\ heap \in HeapOf(V) /\ Stays(heap, at, at)
  BY <1>1 DEF Counted, Stays
<1>3. CASE term.op \in {"bytes", "package"}
  <2>1. /\ term.op = "package" => term.kinds \in Seq(Kinds)
        /\ Creates(term) <= Cardinality(Unused(heap))
    BY TermsType DEF May
  <2> HIDE DEF c
  <2> QED BY <1>1, <1>2, <1>3, <2>1, LiteralPlanted
<1>4. CASE term.op \in {"operand", "reference"}
  <2>1. Operand(term).heap = heap
    BY <1>4 DEF Operand, Result
  <2> QED BY <1>2, <2>1
<1>5. CASE term.op \in {"variable", "dereference", "index", "element"}
  <2>1. /\ p \in Everywhere(Depth)
        /\ term.op \in {"index", "element"} => i \in Positions
    BY <1>5, TermsType, SMTT(30)
  <2>2. v \in V /\ Live(heap, v)
    BY <2>1, ValueAlive
  <2>3. v.type = "reference" => Value(v.place) \in V /\ Live(heap, Value(v.place))
    <3>1. \A w \in V : w.type = "reference" => w.place \in Everywhere(Depth)
      BY <1>1, AliveValues
    <3> QED BY <2>2, <3>1, ValueAlive
  <2>4. term.op \in {"index", "element"} => (v.type = "object" => Element(v.object, i) \in V)
    BY <1>1, <2>1, <2>2, AliveValues DEF ValueSet, Counts
  <2> HIDE DEF c, v
  <2>5. CASE term.op = "variable"
    <3>1. Operand(term).heap = Ref(heap, v)
      BY <2>5 DEF Operand, Result, v
    <3> QED BY <1>1, <1>2, <2>2, <3>1, PlantedRef
  <2>6. CASE term.op = "dereference"
    <3>1. Operand(term) = Dereference(heap, v)
      BY <2>6 DEF Operand, v
    <3>2. Dereference(heap, v).fault = "ok"
      BY <3>1
    <3> QED BY <1>1, <1>2, <2>2, <2>3, <3>1, <3>2, DereferencePlanted
  <2> DEFINE e == Element(v.object, i)
  <2>7. ASSUME IndexOf(v, i).fault = "ok"
        PROVE  v.type = "object" /\ IndexOf(v, i).value = e /\ IndexOf(v, i).heap = Ref(heap, e)
    BY <2>7 DEF IndexOf, Fault, Result
  <2>8. CASE term.op = "index"
    <3>1. Operand(term) = IndexOf(v, i)
      BY <2>8 DEF Operand, v
    <3>2. e \in V /\ Operand(term).heap = Ref(heap, e)
      BY <2>4, <2>7, <2>8, <3>1
    <3> HIDE DEF e
    <3> QED BY <1>1, <1>2, <3>2, PlantedRef
  <2>9. CASE term.op = "element"
    <3>1. Operand(term) = IF IndexOf(v, i).fault # "ok" THEN IndexOf(v, i)
                          ELSE Dereference(heap, IndexOf(v, i).value)
      BY <2>9 DEF Operand, v
    <3>2. IndexOf(v, i).fault = "ok"
      BY <3>1
    <3>3. e \in V /\ e.type = "index" /\ e.object = v.object
      BY <2>4, <2>7, <2>9, <3>2 DEF Element
    <3>4. Live(heap, e)
      BY <2>2, <2>7, <3>2, <3>3 DEF Live, Counts
    <3>5. Operand(term) = Dereference(heap, e)
      BY <2>7, <3>1, <3>2
    <3> HIDE DEF e
    <3>6. Dereference(heap, e).fault = "ok"
      BY <3>5
    <3>7. e.type = "reference" => Value(e.place) \in V /\ Live(heap, Value(e.place))
      BY <3>3
    <3> QED BY <1>1, <1>2, <3>3, <3>4, <3>5, <3>6, <3>7, DereferencePlanted
  <2> QED BY <1>5, <2>5, <2>6, <2>8, <2>9
<1>6. term.op \in {"operand", "bytes", "package", "variable", "reference", "dereference", "index", "element"}
  BY TermsType, SMTT(30)
<1> QED BY <1>3, <1>4, <1>5, <1>6

(***************************************************************************)
(* The variables.                                                          *)
(***************************************************************************)

LEMMA RootPlaces ==
  ASSUME Active, NEW p \in Roots(frames)
  PROVE  p \in Everywhere(Depth) /\ At(name, frames, p) = Value(p)
<1>1. frames \in Seq(FrameOf(Alive(Depth)))
  BY ActiveState DEF StateOf
<1>2. DOMAIN frames = 1..Depth
  BY <1>1 DEF Depth
<1> QED BY <1>2 DEF Roots, Everywhere, At, Value

LEMMA RootedStays ==
  ASSUME Active, NEW at, NEW at2, Rooted(at, name, frames), Stays(heap, at, at2)
  PROVE  Rooted(at2, name, frames)
<1> SUFFICES ASSUME NEW p \in Roots(frames), At(name, frames, p).type = "object"
             PROVE  at2[At(name, frames, p).object] = Root(p)
  BY DEF Rooted, Sits
<1> DEFINE v == At(name, frames, p)
<1>1. v \in Alive(Depth) /\ Live(heap, v)
  BY RootPlaces, ValueAlive
<1>2. v.object \in Objects /\ heap[v.object].kind # "free"
  BY <1>1, ActiveState DEF ValueSet, Counts, Live
<1>3. at[v.object] = Root(p)
  BY DEF Rooted, Sits
<1> QED BY <1>2, <1>3 DEF Stays

\* The value of the variable that an index, a name or a call refers to.
LEMMA RootedAt ==
  ASSUME Active, NEW at, Rooted(at, name, frames), NEW q \in Everywhere(Depth), q[1] = "name"
  PROVE  Sits(at, Value(q), Root(q))
<1>1. q \in Roots(frames)
  BY DEF Everywhere, Roots
<1> QED BY <1>1, RootPlaces DEF Rooted

LEMMA PutRooted ==
  ASSUME Active, NEW q \in Everywhere(Depth) \cup {Nowhere}, NEW v \in Alive(Depth),
         NEW ops \in Seq(Alive(Depth)), Put(q, v, ops),
         NEW at, Rooted(at, name, frames), Sits(at, v, Root(q))
  PROVE  Rooted(at, name', frames')
<1> DEFINE V == Alive(Depth)
           wr == WithOps(frames, ops)
<1>1. name' = SetNames(name, q, v) /\ frames' = SetFrames(wr, q, v)
  BY PutParts
<1>2. /\ wr \in Seq(FrameOf(V)) /\ DOMAIN wr = DOMAIN frames
      /\ \A k \in DOMAIN frames : wr[k].local = frames[k].local
  <2>1. frames \in Seq(FrameOf(V)) /\ frames # <<>>
    BY ActiveState DEF StateOf, Active
  <2> QED BY <2>1, WithOpsType
<1>3. /\ DOMAIN frames' = DOMAIN frames
      /\ \A k \in DOMAIN frames :
           frames'[k].local = IF q = <<"local", k>> THEN v ELSE frames[k].local
  <2> HIDE DEF wr
  <2>1. /\ DOMAIN SetFrames(wr, q, v) = DOMAIN wr
        /\ \A k \in DOMAIN wr : wr[k] \in FrameOf(V) /\ SetFrames(wr, q, v)[k] = SetFrame(wr[k], k, q, v)
    BY <1>2, SetFramesType
  <2>2. \A k \in DOMAIN wr :
          SetFrame(wr[k], k, q, v).local = IF q = <<"local", k>> THEN v ELSE wr[k].local
    BY <2>1, SetFrameType
  <2> QED BY <1>1, <1>2, <2>1, <2>2
<1> DEFINE nm == name'
           fr == frames'
<1>4. ASSUME NEW k \in DOMAIN frames
      PROVE  Sits(at, At(nm, fr, <<"local", k>>), Root(<<"local", k>>))
  <2> DEFINE p == <<"local", k>>
             w == At(nm, fr, p)
             u == At(name, frames, p)
  <2>1. w = fr[k].local /\ u = frames[k].local
    BY DEF At
  <2>2. fr[k].local = IF q = p THEN v ELSE frames[k].local
    BY <1>3
  <2>3. Sits(at, u, Root(p))
    BY DEF Rooted, Roots
  <2> HIDE DEF p, w, u
  <2>4. Sits(at, w, Root(p))
    BY <2>1, <2>2, <2>3
  <2> QED BY <2>4 DEF p, w
<1>5. ASSUME NEW n \in Names
      PROVE  Sits(at, At(nm, fr, <<"name", n>>), Root(<<"name", n>>))
  <2> DEFINE p == <<"name", n>>
             w == At(nm, fr, p)
             u == At(name, frames, p)
  <2>1. w = nm[n] /\ u = name[n]
    BY DEF At
  <2>2. nm[n] = IF q = p THEN v ELSE name[n]
    BY <1>1 DEF SetNames
  <2>3. Sits(at, u, Root(p))
    BY DEF Rooted, Roots
  <2> HIDE DEF p, w, u
  <2>4. Sits(at, w, Root(p))
    BY <2>1, <2>2, <2>3
  <2> QED BY <2>4 DEF p, w
<1>6. Roots(fr) = ({"local"} \X DOMAIN frames) \cup ({"name"} \X Names)
  BY <1>3 DEF Roots
<1> HIDE DEF nm, fr
<1>7. Rooted(at, nm, fr)
  BY <1>4, <1>5, <1>6 DEF Rooted
<1> QED BY <1>7 DEF nm, fr

LEMMA NowhereRooted ==
  ASSUME Active, NEW ops \in Seq(Alive(Depth)), Put(Nowhere, None, ops),
         NEW at, Rooted(at, name, frames)
  PROVE  Rooted(at, name', frames')
<1>1. None \in Alive(Depth) /\ Sits(at, None, Root(Nowhere))
  BY ActiveState DEF ValueSet, Sits, None
<1> QED BY <1>1, PutRooted

LEMMA OwnershipHolds ==
  ASSUME NEW at, Planted(heap', at), Rooted(at, name', frames')
  PROVE  Ownership'
BY DEF Ownership

LEMMA PanicOwned ==
  ASSUME Ownership, NEW why, Panic(why)
  PROVE  Ownership'
BY DEF Ownership, Panic

(***************************************************************************)
(* Stores: r was created at the spot of the variable that it is stored to. *)
(***************************************************************************)

LEMMA PlantedDrawn ==
  ASSUME NEW h, NEW k, NEW o, NEW r, NEW n, o \in Objects, r \in Objects, NEW V, k \in HeapOf(V),
         Resized(h, k, o, n), Drawn(h, k, o, r), NEW at, Planted(h, at), at[o] = at[r]
  PROVE  Planted(k, at)
<1> SUFFICES ASSUME NEW p \in Objects, NEW i \in DOMAIN k[p].elems
             PROVE  Sits(at, k[p].elems[i], Child(at[p], i))
  BY DEF Planted
<1>1. CASE p = o
  <2>1. CASE k[o].elems[i] = None
    BY <1>1, <2>1 DEF Sits, None
  <2>2. CASE i \in DOMAIN h[o].elems /\ k[o].elems[i] = h[o].elems[i]
    BY <1>1, <2>2 DEF Planted
  <2>3. CASE i \in DOMAIN h[r].elems /\ k[o].elems[i] = h[r].elems[i]
    BY <1>1, <2>3 DEF Planted
  <2> QED BY <1>1, <2>1, <2>2, <2>3 DEF Drawn
<1>2. CASE p # o
  <2>1. k[p].kind # "free"
    BY CellType DEF CellOK
  <2>2. k[p].elems = h[p].elems
    BY <1>2, <2>1 DEF Resized
  <2> QED BY <2>2 DEF Planted
<1> QED BY <1>1, <1>2

LEMMA ReplaceOwned ==
  ASSUME Active, NEW h, NEW q \in Everywhere(Depth), NEW r, NEW ops, NEW gone, NEW forgot,
         Storing(h, r, ops, gone, forgot), Replace(h, q, r, ops, gone, forgot),
         NEW at, Planted(h, at), Rooted(at, name, frames), Sits(at, r, Root(q))
  PROVE  Ownership'
<1>1. Shrinks(h, heap') /\ HeapOK'
  BY ReplaceKeeps
<1>2. Planted(heap', at)
  <2>1. heap' \in HeapOf(Alive(Depth)')
    BY <1>1 DEF HeapOK, Counted
  <2> QED BY <1>1, <2>1, PlantedShrinks
<1>3. Rooted(at, name', frames')
  <2>1. Put(q, r, ops) /\ r \in Alive(Depth) /\ ops \in Seq(Alive(Depth))
    BY DEF Replace, Storing, Ready
  <2> QED BY <2>1, PutRooted
<1> QED BY <1>2, <1>3, OwnershipHolds

LEMMA ReplaceNowhereOwned ==
  ASSUME Active, NEW h, NEW r, NEW ops, NEW gone, NEW forgot, Storing(h, r, ops, gone, forgot),
         Replace(h, Nowhere, None, ops, gone, forgot),
         NEW at, Planted(h, at), Rooted(at, name, frames)
  PROVE  Ownership'
<1>1. Shrinks(h, heap') /\ HeapOK'
  <2>1. None \in Alive(Depth)
    BY ActiveState DEF ValueSet
  <2> QED BY <2>1, ReplaceNowhere
<1>2. Planted(heap', at)
  <2>1. heap' \in HeapOf(Alive(Depth)')
    BY <1>1 DEF HeapOK, Counted
  <2> QED BY <1>1, <2>1, PlantedShrinks
<1>3. Rooted(at, name', frames')
  <2>1. Put(Nowhere, None, ops) /\ ops \in Seq(Alive(Depth))
    BY DEF Replace, Storing, Ready
  <2> QED BY <2>1, NowhereRooted
<1> QED BY <1>2, <1>3, OwnershipHolds

LEMMA OverwriteOwned ==
  ASSUME Active, NEW h, NEW q \in Everywhere(Depth), q[1] = "name", NEW r, NEW ops, NEW gone,
         NEW forgot, Storing(h, r, ops, gone, forgot),
         TypeOf(h, Value(q)) = "package", TypeOf(h, r) = "package", r # Value(q),
         heap' = Finalize(Overwrite(h, Value(q).object, r.object), gone),
         Put(Nowhere, None, ops), Lose(forgot \o ElementsOf(h, r.object)),
         NEW at, Planted(h, at), Rooted(at, name, frames), Sits(at, r, Root(q))
  PROVE  Ownership'
<1> DEFINE o == Value(q).object
           x == r.object
<1>1. HeapOK' /\ Replaced(h, heap', o, x)
  BY OverwriteStore
<1>2. PICK k : /\ k \in HeapOf(Alive(Depth)) /\ Drawn(h, k, o, x) /\ Shrinks(k, heap')
               /\ o \in Objects /\ x \in Objects /\ \E n : Resized(h, k, o, n)
  BY <1>1 DEF Replaced
<1>3. at[o] = at[x]
  <2>1. Value(q).type = "object" /\ r.type = "object"
    <3>1. \A v \in Alive(Depth) : TypeOf(h, v) = "package" => v.type = "object"
      BY ActiveState, AliveValues DEF TypeOf
    <3>2. Value(q) \in Alive(Depth) /\ r \in Alive(Depth)
      BY ValueAlive DEF Storing
    <3> QED BY <3>1, <3>2
  <2> QED BY <2>1, RootedAt DEF Sits
<1> HIDE DEF o, x
<1>4. Planted(k, at)
  BY <1>2, <1>3, PlantedDrawn
<1>5. Planted(heap', at)
  <2>1. heap' \in HeapOf(Alive(Depth)')
    BY <1>1 DEF HeapOK, Counted
  <2> QED BY <1>2, <1>4, <2>1, PlantedShrinks
<1>6. Rooted(at, name', frames')
  <2>1. ops \in Seq(Alive(Depth))
    BY DEF Storing, Ready
  <2> QED BY <2>1, NowhereRooted
<1> QED BY <1>5, <1>6, OwnershipHolds

LEMMA MutateOwned ==
  ASSUME Active, Ownership, NEW h, NEW q \in Everywhere(Depth), NEW r, NEW ops, NEW gone,
         NEW forgot, Storing(h, r, ops, gone, forgot), r.type = "object" => r # Value(q),
         Mutate(h, q, r, ops, gone, forgot),
         NEW at, Planted(h, at), Rooted(at, name, frames), Sits(at, r, Root(q))
  PROVE  Ownership'
<1> DEFINE old == TypeOf(h, Value(q))
           new == TypeOf(h, r)
<1>1. CASE q[1] # "name" \/ old \notin Scalars \cup {"package"}
  <2>1. Replace(h, q, r, ops, gone, forgot)
    BY <1>1 DEF Mutate
  <2> QED BY <2>1, ReplaceOwned
<1>2. CASE q[1] = "name" /\ old \in Scalars /\ new \in Scalars
  <2>1. Replace(h, Nowhere, None, ops, gone, forgot)
    BY <1>2 DEF Mutate
  <2> QED BY <2>1, ReplaceNowhereOwned
<1>3. CASE q[1] = "name" /\ old = "package" /\ new = "package"
  <2>1. old \notin Scalars
    BY <1>3 DEF Scalars
  <2>2. /\ heap' = Finalize(Overwrite(h, Value(q).object, r.object), gone)
        /\ Put(Nowhere, None, ops)
        /\ Lose(forgot \o ElementsOf(h, r.object))
    BY <1>3, <2>1 DEF Mutate
  <2>3. r # Value(q)
    <3>1. r.type = "object"
      <4>1. r \in Alive(Depth)
        BY DEF Storing
      <4> QED BY <1>3, <4>1, ActiveState, AliveValues DEF TypeOf
    <3> QED BY <3>1
  <2> QED BY <1>3, <2>2, <2>3, OverwriteOwned
<1>4. CASE /\ q[1] = "name" /\ old \in Scalars \cup {"package"}
           /\ ~(old \in Scalars /\ new \in Scalars) /\ ~(old = "package" /\ new = "package")
  <2>1. Panic("types")
    BY <1>4 DEF Mutate
  <2> QED BY <2>1, PanicOwned
<1> QED BY <1>1, <1>2, <1>3, <1>4

LEMMA TargetPlace ==
  ASSUME Active, NEW p \in Everywhere(Depth)
  PROVE  Target(p) \in Everywhere(Depth)
BY ThroughPlace DEF Target

LEMMA MutateOperandOwned ==
  ASSUME Active, Ownership, NEW h, NEW p \in Everywhere(Depth), NEW r, NEW ops, NEW gone,
         NEW forgot, Storing(h, r, ops, gone, forgot), r.type = "object" => r # Value(p),
         MutateOperand(h, p, r, ops, gone, forgot),
         NEW at, Planted(h, at), Rooted(at, name, frames), Sits(at, r, Root(Target(p)))
  PROVE  Ownership'
<1>1. CASE Through(p) /\ Value(p) = Dangling
  <2>1. Panic("wild")
    BY <1>1 DEF MutateOperand
  <2> QED BY <2>1, PanicOwned
<1>2. CASE Through(p) /\ Value(p) # Dangling
  <2>1. Replace(h, Target(p), r, ops, gone, forgot)
    BY <1>2 DEF MutateOperand, Target
  <2> QED BY <2>1, TargetPlace, ReplaceOwned
<1>3. CASE ~Through(p)
  <2>1. Mutate(h, p, r, ops, gone, forgot) /\ Target(p) = p
    BY <1>3 DEF MutateOperand, Target
  <2> QED BY <2>1, MutateOwned
<1> QED BY <1>1, <1>2, <1>3

LEMMA EmplaceOperandOwned ==
  ASSUME Active, Ownership, NEW h, NEW p \in Everywhere(Depth), NEW r, NEW ops, NEW gone,
         NEW forgot, Storing(h, r, ops, gone, forgot),
         EmplaceOperand(h, p, r, ops, gone, forgot),
         NEW at, Planted(h, at), Rooted(at, name, frames), Sits(at, r, Root(Target(p)))
  PROVE  Ownership'
<1>1. CASE Through(p) /\ Value(p) = Dangling
  <2>1. Panic("wild")
    BY <1>1 DEF EmplaceOperand
  <2> QED BY <2>1, PanicOwned
<1>2. CASE ~(Through(p) /\ Value(p) = Dangling)
  <2>1. Replace(h, Target(p), r, ops, gone, forgot)
    BY <1>2 DEF EmplaceOperand, Target
  <2> QED BY <2>1, TargetPlace, ReplaceOwned
<1> QED BY <1>1, <1>2

(***************************************************************************)
(* The operators.                                                          *)
(***************************************************************************)

LEMMA OperandOwned ==
  ASSUME Active, Ownership, NEW term \in Terms, May(term), Operand(term).fault = "ok"
  PROVE  \E at : Planted(Operand(term).heap, at) /\ Rooted(at, name, frames)
<1>1. PICK at : Planted(heap, at) /\ Rooted(at, name, frames)
  BY DEF Ownership
<1>2. PICK at2 : Planted(Operand(term).heap, at2) /\ Stays(heap, at, at2)
  BY <1>1, OperandPlanted
<1>3. Rooted(at2, name, frames)
  BY <1>1, <1>2, RootedStays
<1> QED BY <1>2, <1>3

\* The copy of an operand goes to any spot.
LEMMA CloneOwned ==
  ASSUME Active, NEW h, NEW ops, NEW v, NEW forgot, Ready(h, ops, <<v>>, forgot),
         v \in Alive(Depth), Grows(heap, h), Clone(h, v).fits,
         NEW at, Planted(h, at), Rooted(at, name, frames), NEW a \in Spots
  PROVE  \E at2 : /\ Planted(Clone(h, v).heap, at2) /\ Rooted(at2, name, frames)
                  /\ Stays(h, at, at2) /\ Sits(at2, Clone(h, v).value, a)
<1> DEFINE V == Alive(Depth)
           c == Plus(Plus(Base, ops), forgot)
           views == <<v>>
<1>1. /\ ValueSet(V) /\ ops \in Seq(V) /\ forgot \in Seq(V) /\ views \in Seq(V)
      /\ Counted(h, V, Plus(c, views)) /\ Base \in [Objects -> Nat]
  BY ActiveState DEF Ready
<1>2. c \in [Objects -> Nat] /\ Plus(c, views) \in [Objects -> Nat]
  <2> HIDE DEF views
  <2>1. Plus(Base, ops) \in [Objects -> Nat]
    BY <1>1, PlusType
  <2>2. c \in [Objects -> Nat]
    BY <1>1, <2>1, PlusType
  <2> HIDE DEF c
  <2> QED BY <1>1, <2>2, PlusType
<1>3. Live(h, v)
  <2> SUFFICES ASSUME Counts(v) PROVE h[v.object].kind # "free"
    BY DEF Live
  <2>1. 1 \in DOMAIN views /\ views[1] = v
    OBVIOUS
  <2> HIDE DEF views, c
  <2> QED BY <1>1, <1>2, <2>1, HeldAlive
<1> DEFINE d == Plus(c, views)
<1>4. Counted(h, V, d) /\ d \in [Objects -> Nat]
  BY <1>1, <1>2
<1> HIDE DEF d, c, views
<1>5. PICK at2 : /\ Planted(Clone(h, v).heap, at2) /\ Stays(h, at, at2)
                 /\ Sits(at2, Clone(h, v).value, a)
  BY <1>1, <1>3, <1>4, ClonePlanted
<1>6. Stays(heap, at, at2)
  BY <1>5 DEF Stays, Grows
<1>7. Rooted(at2, name, frames)
  BY <1>6, RootedStays
<1> QED BY <1>5, <1>7

LEMMA PushOwned ==
  ASSUME IInv, Running, Ownership, NEW term \in Terms, Push(term)
  PROVE  Ownership'
<1> DEFINE s == Operand(term)
           more == Append(Pending(term), s.value)
<1>1. Active /\ May(term)
  BY RunningActive DEF Push
<1>2. CASE s.fault # "ok"
  <2>1. Panic(s.fault)
    BY <1>2 DEF Push
  <2> QED BY <2>1, PanicOwned
<1>3. CASE s.fault = "ok"
  <2>1. heap' = s.heap /\ Put(Nowhere, None, more)
    BY <1>3 DEF Push
  <2>2. PICK at : Planted(s.heap, at) /\ Rooted(at, name, frames)
    BY <1>1, <1>3, OperandOwned
  <2>3. more \in Seq(Alive(Depth))
    <3>1. Ready(s.heap, Pending(term), <<s.value>>, s.lost) /\ s.value \in Alive(Depth)
      BY <1>1, <1>3, OperandKeeps
    <3> QED BY <1>1, <3>1, PushReady
  <2> HIDE DEF more, s
  <2>4. Rooted(at, name', frames')
    BY <1>1, <2>1, <2>2, <2>3, NowhereRooted
  <2> QED BY <2>1, <2>2, <2>4, OwnershipHolds
<1> QED BY <1>2, <1>3

LEMMA DropOwned ==
  ASSUME IInv, Ownership, Drop
  PROVE  Ownership'
<1>1. Running /\ Top.ops # <<>> /\ Put(Nowhere, None, Rest)
  BY DEF Drop
<1>2. Active
  BY <1>1, RunningActive
<1>3. HeapOK' /\ Shrinks(heap, heap')
  BY DropKeeps DEF Good
<1>4. PICK at : Planted(heap, at) /\ Rooted(at, name, frames)
  BY DEF Ownership
<1>5. heap' \in HeapOf(Alive(Depth)')
  BY <1>3 DEF HeapOK, Counted
<1>6. Planted(heap', at)
  BY <1>3, <1>4, <1>5, PlantedShrinks
<1>7. Rest \in Seq(Alive(Depth))
  <2>1. Top.ops \in Seq(Alive(Depth))
    BY <1>2, ActiveState
  <2> QED BY <1>1, <2>1 DEF Rest
<1>8. Rooted(at, name', frames')
  BY <1>1, <1>2, <1>4, <1>7, NowhereRooted
<1> QED BY <1>6, <1>8, OwnershipHolds

\* The copy of an operand that is evaluated.
LEMMA CopyOwned ==
  ASSUME IInv, Running, Ownership, NEW term \in Terms, May(term), Operand(term).fault = "ok",
         Clone(Operand(term).heap, Operand(term).value).fits, NEW a \in Spots
  PROVE  LET s == Operand(term)
             c == Clone(s.heap, s.value)
         IN  /\ \E at : /\ Planted(c.heap, at) /\ Rooted(at, name, frames)
                        /\ Sits(at, c.value, a)
             /\ Ready(c.heap, Pending(term), <<s.value, c.value>>, s.lost)
             /\ Grows(heap, c.heap) /\ s.value \in Alive(Depth) /\ c.value \in Alive(Depth)
             /\ c.value.type = "object" =>
                  c.value.object \in Objects /\ heap[c.value.object].kind = "free"
<1> DEFINE s == Operand(term)
           h == s.heap
           v == s.value
           ops == Pending(term)
           forgot == s.lost
           c == Clone(h, v)
<1>1. Active
  BY RunningActive
<1>2. Ready(h, ops, <<v>>, forgot) /\ Grows(heap, h) /\ v \in Alive(Depth)
  BY <1>1, OperandKeeps
<1>3. PICK at : Planted(h, at) /\ Rooted(at, name, frames)
  BY <1>1, OperandOwned
<1>4. Clone(h, v).fits
  OBVIOUS
<1> HIDE DEF s, h, v, ops, forgot
<1>5. \E at2 : /\ Planted(c.heap, at2) /\ Rooted(at2, name, frames) /\ Sits(at2, c.value, a)
  BY <1>1, <1>2, <1>3, <1>4, CloneOwned
<1>6. /\ Ready(c.heap, ops, <<v, c.value>>, forgot) /\ Grows(heap, c.heap)
      /\ c.value \in Alive(Depth)
      /\ c.value.type = "object" =>
           c.value.object \in Objects /\ heap[c.value.object].kind = "free"
  BY <1>1, <1>2, <1>4, CloneReady
<1> QED BY <1>2, <1>5, <1>6 DEF c, h, v, ops, forgot, s

LEMMA StoreOwned ==
  ASSUME IInv, Running, Ownership, NEW term \in Terms, NEW p \in Places, NEW want \in BOOLEAN,
         Store(term, p, want)
  PROVE  Ownership'
<1> DEFINE s == Operand(term)
           v == s.value
           forgot == s.lost
           c == Clone(s.heap, s.value)
           g == c.heap
           r == c.value
           ops == Pending(term)
           ops2 == Results(term, r, want)
           gone2 == Gone(s, r, want)
<1>1. Active /\ May(term) /\ p \in Everywhere(Depth)
  BY RunningActive, PlacesType DEF Store, StoreCopy, MayStore
<1>2. CASE s.fault # "ok"
  <2>1. Panic(s.fault)
    BY <1>2 DEF Store, StoreCopy
  <2> QED BY <2>1, PanicOwned
<1>3. CASE s.fault = "ok"
  <2>1. c.fits /\ MutateOperand(g, p, r, ops2, gone2, forgot)
    BY <1>3 DEF Store, StoreCopy
  <2>2. Root(Target(p)) \in Spots
    BY <1>1, TargetPlace, RootSpot, ActiveState
  <2>3. /\ \E at : /\ Planted(g, at) /\ Rooted(at, name, frames)
                   /\ Sits(at, r, Root(Target(p)))
        /\ Ready(g, ops, <<v, r>>, forgot) /\ v \in Alive(Depth) /\ r \in Alive(Depth)
        /\ r.type = "object" => r.object \in Objects /\ heap[r.object].kind = "free"
    BY <1>1, <1>3, <2>1, <2>2, CopyOwned
  <2>4. ops2 = ops \o (IF want THEN <<r>> ELSE <<>>) /\ gone2 = <<v>> \o (IF want THEN <<>> ELSE <<r>>)
    BY DEF Results, Gone
  <2> HIDE DEF s, v, forgot, c, g, r, ops, ops2, gone2
  <2>5. Storing(g, r, ops \o (IF want THEN <<r>> ELSE <<>>),
                <<v>> \o (IF want THEN <<>> ELSE <<r>>), forgot)
    BY <1>1, <2>3, ResultReady
  <2>6. Storing(g, r, ops2, gone2, forgot)
    BY <2>4, <2>5
  <2>7. r.type = "object" => r # Value(p)
    BY <1>1, <2>3, CloneNew
  <2> QED BY <1>1, <2>1, <2>3, <2>6, <2>7, MutateOperandOwned
<1> QED BY <1>2, <1>3

LEMMA CopyObjectOwned ==
  ASSUME IInv, Running, Ownership, NEW term \in Terms, NEW p \in Places, CopyObject(term, p)
  PROVE  Ownership'
<1> DEFINE s == Operand(term)
           v == s.value
           forgot == s.lost
           c == Clone(s.heap, s.value)
           g == c.heap
           r == c.value
           ops == Pending(term)
           gone == <<v, r>>
<1>1. Active /\ May(term) /\ p \in Everywhere(Depth)
  BY RunningActive, PlacesType DEF CopyObject, EmplaceCopy
<1>2. CASE s.fault # "ok"
  <2>1. Panic(s.fault)
    BY <1>2 DEF CopyObject, EmplaceCopy
  <2> QED BY <2>1, PanicOwned
<1>3. CASE s.fault = "ok"
  <2>1. c.fits /\ EmplaceOperand(g, p, r, ops, gone, forgot)
    BY <1>3 DEF CopyObject, EmplaceCopy
  <2>2. Root(Target(p)) \in Spots
    BY <1>1, TargetPlace, RootSpot, ActiveState
  <2>3. /\ \E at : /\ Planted(g, at) /\ Rooted(at, name, frames)
                   /\ Sits(at, r, Root(Target(p)))
        /\ Ready(g, ops, <<v, r>>, forgot) /\ v \in Alive(Depth) /\ r \in Alive(Depth)
    BY <1>1, <1>3, <2>1, <2>2, CopyOwned
  <2> HIDE DEF s, v, forgot, c, g, r, ops
  <2>4. FALSE \in BOOLEAN
    OBVIOUS
  <2>5. Storing(g, r, ops \o (IF FALSE THEN <<r>> ELSE <<>>),
                <<v>> \o (IF FALSE THEN <<>> ELSE <<r>>), forgot)
    BY <1>1, <2>3, <2>4, ResultReady
  <2>6. ops \o (IF FALSE THEN <<r>> ELSE <<>>) = ops
    <3>1. ops \in Seq(Alive(Depth))
      BY <2>3 DEF Ready
    <3> QED BY <3>1
  <2>7. <<v>> \o (IF FALSE THEN <<>> ELSE <<r>>) = gone
    BY <2>3, PairConcat
  <2> HIDE DEF gone
  <2>8. Storing(g, r, ops, gone, forgot)
    BY <2>5, <2>6, <2>7
  <2> QED BY <1>1, <2>1, <2>3, <2>8, EmplaceOperandOwned
<1> QED BY <1>2, <1>3

LEMMA PlantedAssigned ==
  ASSUME NEW V, NEW h, NEW g \in HeapOf(V), NEW o \in Objects, NEW i, NEW v,
         ElementAssigned(h, g, o, i, v), NEW at, Planted(h, at), Sits(at, v, Child(at[o], i))
  PROVE  Planted(g, at)
<1> SUFFICES ASSUME NEW x \in Objects, NEW j \in DOMAIN g[x].elems
             PROVE  Sits(at, g[x].elems[j], Child(at[x], j))
  BY DEF Planted
<1>1. g[x].kind # "free"
  BY CellType DEF CellOK
<1>2. CASE x = o /\ j = i
  BY <1>1, <1>2 DEF ElementAssigned
<1>3. CASE x # o \/ j # i
  <2>1. j \in DOMAIN h[x].elems /\ g[x].elems[j] = h[x].elems[j]
    BY <1>1, <1>3 DEF ElementAssigned
  <2> QED BY <2>1 DEF Planted
<1> QED BY <1>2, <1>3

LEMMA StoreElementOwned ==
  ASSUME IInv, Running, Ownership, NEW term \in Terms, NEW p \in Places, NEW i \in Positions,
         StoreElement(term, p, i)
  PROVE  Ownership'
<1> DEFINE s == Operand(term)
           h == s.heap
           v == s.value
           forgot == s.lost
           c == Clone(h, v)
           f == c.heap
           r == c.value
           ix == IndexOf(Value(p), i)
           o == Value(p).object
           ops == Pending(term)
           gone == <<v, r>>
           g == IF heap[o].kind = "bytes" THEN f ELSE AssignElement(f, o, i, r)
<1>1. /\ Active /\ May(term) /\ p \in Everywhere(Depth) /\ Depth \in Nat
  BY RunningActive, PlacesType, ActiveState DEF StoreElement, StoreElementCopy
<1>2. CASE s.fault # "ok"
  <2>1. Panic(s.fault)
    BY <1>2 DEF StoreElement, StoreElementCopy
  <2> QED BY <2>1, PanicOwned
<1>3. CASE s.fault = "ok" /\ ix.fault # "ok"
  <2>1. Panic(ix.fault)
    BY <1>3 DEF StoreElement, StoreElementCopy
  <2> QED BY <2>1, PanicOwned
<1>4. CASE s.fault = "ok" /\ ix.fault = "ok"
  <2>1. /\ Clone(h, v).fits /\ heap' = Finalize(g, gone)
        /\ Put(Nowhere, None, ops) /\ Lose(forgot) /\ status' = status
    BY <1>4 DEF StoreElement, StoreElementCopy
  <2>2. Ready(h, ops, <<v>>, forgot) /\ Grows(heap, h) /\ v \in Alive(Depth)
    BY <1>1, <1>4, OperandKeeps
  <2>3. PICK at : Planted(h, at) /\ Rooted(at, name, frames)
    BY <1>1, <1>4, OperandOwned
  <2>4. Value(p).type = "object" /\ ~(i > heap[o].size)
    BY <1>4 DEF IndexOf, Fault, Result
  <2>5. o \in Objects /\ heap[o].kind \in {"bytes", "package"} /\ heap[o].size \in Nat
    <3>1. Value(p) \in Alive(Depth) /\ Live(heap, Value(p))
      BY <1>1, ValueAlive
    <3>2. Counts(Value(p)) /\ o \in Objects
      BY <1>1, <2>4, <3>1, ActiveState DEF Counts, ValueSet
    <3>3. heap \in HeapOf(Alive(Depth)) /\ heap[o].kind # "free"
      BY <1>1, <3>1, <3>2, ActiveState DEF Counted, Live
    <3> HIDE DEF o
    <3> QED BY <3>2, <3>3, CellType, SMTT(30)
  <2>6. ops \in Seq(Alive(Depth))
    BY <1>1, <1>4, PendingType
  <2> HIDE DEF s, h, v, forgot, ops, o, ix
  <2>7. h[o].kind = heap[o].kind /\ h[o].kind # "free"
    BY <2>2, <2>5 DEF Grows
  <2> DEFINE a == Child(at[o], i)
  <2>8. a \in Spots
    BY <2>3, <2>5, PositionsType, SpotsType DEF Planted
  <2> HIDE DEF a
  <2>9. PICK at2 : /\ Planted(f, at2) /\ Rooted(at2, name, frames)
                   /\ Stays(h, at, at2) /\ Sits(at2, r, a)
    BY <1>1, <2>1, <2>2, <2>3, <2>8, CloneOwned
  <2>10. at2[o] = at[o]
    BY <2>5, <2>7, <2>9 DEF Stays
  <2>11. Ready(f, ops, <<v, r>>, forgot) /\ Grows(heap, f) /\ r \in Alive(Depth)
    BY <1>1, <2>1, <2>2, CloneReady
  <2> HIDE DEF c, f, r
  <2>12. Ready(g, ops, gone, forgot) /\ Planted(g, at2)
    <3>1. CASE heap[o].kind = "bytes"
      BY <2>9, <2>11, <3>1
    <3>2. CASE heap[o].kind = "package"
      <4>1. g = AssignElement(f, o, i, r)
        BY <3>2
      <4>2. InPackage(f, o, i)
        <5>1. f[o].kind = "package" /\ f[o].size = heap[o].size
          BY <2>5, <2>11, <3>2 DEF Grows
        <5>2. i \in Nat /\ i >= 1
          BY PositionsType
        <5> QED BY <2>4, <2>5, <5>1, <5>2, SMTT(30) DEF InPackage
      <4> HIDE DEF g
      <4>3. /\ Ready(AssignElement(f, o, i, r), ops, <<v, r>>, forgot)
            /\ ElementAssigned(f, AssignElement(f, o, i, r), o, i, r)
        BY <1>1, <2>11, <4>2, ElementStored, SMTT(30)
      <4>4. Ready(g, ops, gone, forgot) /\ ElementAssigned(f, g, o, i, r)
        BY <4>1, <4>3
      <4>5. g \in HeapOf(Alive(Depth))
        BY <4>4 DEF Ready, Counted
      <4>6. Sits(at2, r, Child(at2[o], i))
        BY <2>9, <2>10 DEF a
      <4> QED BY <2>5, <2>9, <4>4, <4>5, <4>6, PlantedAssigned
    <3> QED BY <2>5, <3>1, <3>2
  <2> HIDE DEF g, gone
  <2>13. None \in Alive(Depth) /\ Loses(forgot)
    BY <1>1, <2>1, ActiveState DEF ValueSet, Lose, Loses
  <2>14. HeapOK' /\ Shrinks(g, heap')
    BY <1>1, <2>1, <2>12, <2>13, FinalizeNowhere
  <2>15. heap' \in HeapOf(Alive(Depth)')
    BY <2>14 DEF HeapOK, Counted
  <2>16. Planted(heap', at2)
    BY <2>12, <2>14, <2>15, PlantedShrinks
  <2>17. Rooted(at2, name', frames')
    BY <1>1, <2>1, <2>6, <2>9, NowhereRooted
  <2> QED BY <2>16, <2>17, OwnershipHolds
<1> QED BY <1>2, <1>3, <1>4, SMTT(30)

LEMMA IndexToOwned ==
  ASSUME IInv, Running, Ownership, NEW p \in Places, NEW i \in Positions, NEW q \in Places,
         IndexTo(p, i, q)
  PROVE  Ownership'
<1> DEFINE s == IndexOf(Value(p), i)
           ops == Top.ops
           r == s.value
           h == s.heap
           none == <<>>
           gone == <<r>>
<1>1. Active /\ p \in Everywhere(Depth) /\ q \in Everywhere(Depth)
  BY RunningActive, PlacesType
<1>2. CASE s.fault # "ok"
  <2>1. Panic(s.fault)
    BY <1>2 DEF IndexTo
  <2> QED BY <2>1, PanicOwned
<1>3. CASE s.fault = "ok"
  <2>1. MutateOperand(h, q, r, ops, gone, none)
    BY <1>3 DEF IndexTo
  <2>2. Storing(h, r, ops, gone, none) /\ r.type = "index" /\ r \in Alive(Depth)
    BY <1>1, <1>3, IndexStoring
  <2>3. PICK at : Planted(heap, at) /\ Rooted(at, name, frames)
    BY DEF Ownership
  <2>4. h = Ref(heap, r)
    BY <1>3 DEF IndexOf, Fault, Result
  <2> HIDE DEF none, h, r, s, gone, ops
  <2>5. ValueSet(Alive(Depth)) /\ heap \in HeapOf(Alive(Depth))
    BY <1>1, ActiveState DEF Counted
  <2>6. Planted(h, at)
    BY <2>2, <2>3, <2>4, <2>5, PlantedRef
  <2>7. Sits(at, r, Root(Target(q))) /\ (r.type = "object" => r # Value(q))
    BY <2>2 DEF Sits
  <2> QED BY <1>1, <2>1, <2>2, <2>3, <2>6, <2>7, MutateOperandOwned
<1> QED BY <1>2, <1>3

\* Variables that stay or lose their objects.
LEMMA RootedSame ==
  ASSUME NEW at, NEW nm, NEW fr, Rooted(at, nm, fr), NEW nm2, NEW fr2,
         \A n \in Names : nm2[n] = nm[n] \/ nm2[n].type # "object",
         \A k \in DOMAIN fr2 : \/ fr2[k].local.type # "object"
                               \/ k \in DOMAIN fr /\ fr2[k].local = fr[k].local
  PROVE  Rooted(at, nm2, fr2)
<1>1. ASSUME NEW n \in Names
      PROVE  Sits(at, At(nm2, fr2, <<"name", n>>), Root(<<"name", n>>))
  <2>1. Sits(at, At(nm, fr, <<"name", n>>), Root(<<"name", n>>))
    BY DEF Rooted, Roots
  <2>2. Sits(at, nm[n], Root(<<"name", n>>)) /\ At(nm2, fr2, <<"name", n>>) = nm2[n]
    BY <2>1 DEF At
  <2> QED BY <2>2 DEF Sits
<1>2. ASSUME NEW k \in DOMAIN fr2
      PROVE  Sits(at, At(nm2, fr2, <<"local", k>>), Root(<<"local", k>>))
  <2>1. At(nm2, fr2, <<"local", k>>) = fr2[k].local
    BY DEF At
  <2>2. CASE fr2[k].local.type # "object"
    BY <2>1, <2>2 DEF Sits
  <2>3. CASE k \in DOMAIN fr /\ fr2[k].local = fr[k].local
    <3>1. Sits(at, At(nm, fr, <<"local", k>>), Root(<<"local", k>>))
      BY <2>3 DEF Rooted, Roots
    <3>2. At(nm, fr, <<"local", k>>) = fr[k].local
      BY DEF At
    <3> QED BY <2>1, <2>3, <3>1, <3>2
  <2> QED BY <2>2, <2>3
<1> QED BY <1>1, <1>2 DEF Rooted, Roots

LEMMA RefOwned ==
  ASSUME Active, Ownership, NEW v \in Alive(Depth), heap' = Ref(heap, v), name' = name,
         DOMAIN frames' = DOMAIN frames,
         \A k \in DOMAIN frames : frames'[k].local = frames[k].local
  PROVE  Ownership'
<1>1. PICK at : Planted(heap, at) /\ Rooted(at, name, frames)
  BY DEF Ownership
<1>2. ValueSet(Alive(Depth)) /\ heap \in HeapOf(Alive(Depth))
  BY ActiveState DEF Counted
<1>3. Planted(heap', at)
  BY <1>1, <1>2, PlantedRef
<1>4. Rooted(at, name', frames')
  BY <1>1, RootedSame
<1> QED BY <1>3, <1>4, OwnershipHolds

LEMMA SizeOfOwned ==
  ASSUME IInv, Running, Ownership, NEW p \in Places, SizeOf(p)
  PROVE  Ownership'
<1>1. Active /\ p \in Everywhere(Depth)
  BY RunningActive, PlacesType
<1>2. CASE Value(p).type # "object"
  <2>1. Panic("types")
    BY <1>2 DEF SizeOf
  <2> QED BY <2>1, PanicOwned
<1>3. CASE Value(p).type = "object"
  <2>1. heap' = Ref(heap, Value(p)) /\ name' = name /\ frames' = frames
    BY <1>3 DEF SizeOf
  <2>2. Value(p) \in Alive(Depth)
    BY <1>1, ValueAlive
  <2> QED BY <1>1, <2>1, <2>2, RefOwned
<1> QED BY <1>2, <1>3

LEMMA CreateFieldOwned ==
  ASSUME IInv, Running, Ownership, NEW p \in Places, CreateField(p)
  PROVE  Ownership'
<1>1. Active /\ p \in Everywhere(Depth)
  BY RunningActive, PlacesType
<1> DEFINE vs == <<Value(p)>>
<1>2. /\ heap' = Ref(heap, Value(p)) /\ name' = name
      /\ frames' = [frames EXCEPT ![Depth].fields = vs]
  BY DEF CreateField
<1>3. Value(p) \in Alive(Depth)
  BY <1>1, ValueAlive
<1>4. frames \in Seq(FrameOf(Alive(Depth)))
  BY <1>1, ActiveState DEF StateOf
<1> HIDE DEF vs
<1>5. /\ DOMAIN frames' = DOMAIN frames
      /\ \A k \in DOMAIN frames : frames'[k].local = frames[k].local
  BY <1>2, <1>4, SMTT(30) DEF FrameOf
<1> QED BY <1>1, <1>2, <1>3, <1>5, RefOwned

LEMMA EvalOwned ==
  ASSUME Ownership, Eval
  PROVE  Ownership'
<1>1. PICK at : Planted(heap, at) /\ Rooted(at, name, frames)
  BY DEF Ownership
<1>2. heap' = heap /\ name' = name /\ frames' = <<Frame(None)>>
  BY DEF Eval
<1>3. \A k \in DOMAIN frames' : frames'[k] = Frame(None)
  BY <1>2
<1>4. Frame(None).local.type # "object"
  BY DEF Frame, None
<1>5. Rooted(at, name', frames')
  BY <1>1, <1>2, <1>3, <1>4, RootedSame
<1> QED BY <1>1, <1>2, <1>5, OwnershipHolds

LEMMA CallOwned ==
  ASSUME IInv, Running, Ownership, NEW term \in Terms, Call(term)
  PROVE  Ownership'
<1> DEFINE s == Operand(term)
           ops == Pending(term)
           v == s.value
           fr == [frames EXCEPT ![Depth].ops = ops]
<1>1. Active /\ May(term)
  BY RunningActive DEF Call
<1>2. CASE s.fault # "ok"
  <2>1. Panic(s.fault)
    BY <1>2 DEF Call
  <2> QED BY <2>1, PanicOwned
<1>3. CASE s.fault = "ok"
  <2>1. heap' = s.heap /\ name' = name /\ frames' = Append(fr, Frame(v))
    BY <1>3, SMTT(30) DEF Call
  <2>2. PICK at : Planted(s.heap, at) /\ Rooted(at, name, frames)
    BY <1>1, <1>3, OperandOwned
  <2>3. frames \in Seq(FrameOf(Alive(Depth)))
    BY <1>1, ActiveState DEF StateOf
  <2> HIDE DEF ops, v, s
  <2>4. /\ Len(fr) = Len(frames) /\ Len(frames) \in Nat /\ DOMAIN frames = 1..Len(frames)
        /\ \A k \in DOMAIN frames : fr[k].local = frames[k].local
    BY <2>3, SMTT(30) DEF FrameOf
  <2>5. \A k \in DOMAIN frames' : \/ frames'[k] = Frame(v)
                                  \/ k \in DOMAIN frames /\ frames'[k] = fr[k]
    BY <2>1, <2>4, SMTT(30)
  <2> HIDE DEF fr
  <2>6. \A k \in DOMAIN frames' : \/ frames'[k].local.type # "object"
                                  \/ k \in DOMAIN frames /\ frames'[k].local = frames[k].local
    <3>1. Frame(v).local.type # "object"
      BY DEF Frame, None
    <3> QED BY <2>4, <2>5, <3>1
  <2>7. Rooted(at, name', frames')
    BY <2>1, <2>2, <2>6, RootedSame
  <2> QED BY <2>1, <2>2, <2>7, OwnershipHolds
<1> QED BY <1>2, <1>3

\* What stays after the end of an invocation has its spot.
LEMMA WithersPlanted ==
  ASSUME NEW V, NEW h, NEW g \in HeapOf(V), Withers(h, g), NEW at, Planted(h, at)
  PROVE  Planted(g, at)
<1> SUFFICES ASSUME NEW o \in Objects, NEW i \in DOMAIN g[o].elems
             PROVE  Sits(at, g[o].elems[i], Child(at[o], i))
  BY DEF Planted
<1>1. g[o].kind # "free"
  BY CellType DEF CellOK
<1>2. i \in DOMAIN h[o].elems /\ g[o].elems[i] \in {h[o].elems[i], Dangling}
  BY <1>1 DEF Withers
<1>3. CASE g[o].elems[i] = h[o].elems[i]
  BY <1>2, <1>3 DEF Planted
<1>4. CASE g[o].elems[i] = Dangling
  BY <1>4 DEF Sits, Dangling
<1> QED BY <1>2, <1>3, <1>4

LEMMA LeaveOwned ==
  ASSUME Active, NEW h, NEW gone, NEW results, NEW forgot, Leave(h, gone, results, forgot),
         HeapOK', Withers(h, heap'), NEW at, Planted(h, at), Rooted(at, name, frames)
  PROVE  Ownership'
<1> DEFINE n == Depth
           V == Alive(n)
<1>1. heap' \in HeapOf(Alive(Depth)')
  BY DEF HeapOK, Counted
<1>2. Planted(heap', at)
  BY <1>1, WithersPlanted
<1>3. \A v : Expired(v, n) = v \/ Expired(v, n).type # "object"
  BY DEF Expired, Dangling
<1>4. \A m \in Names : name'[m] = name[m] \/ name'[m].type # "object"
  <2>1. name' = [m \in Names |-> Expired(name[m], n)]
    BY DEF Leave
  <2> QED BY <1>3, <2>1
<1>5. frames \in Seq(FrameOf(V)) /\ n \in Nat /\ n = Len(frames)
  BY ActiveState DEF StateOf, Depth
<1>6. \A k \in 1..n - 1 : k \in DOMAIN frames /\ frames[k] \in FrameOf(V)
  <2> DEFINE S == FrameOf(V)
  <2>1. frames \in Seq(S)
    BY <1>5
  <2> HIDE DEF S, n
  <2> QED BY <1>5, <2>1
<1> DEFINE ops(k) == [i \in DOMAIN frames[k].ops |-> Expired(frames[k].ops[i], n)]
                     \o IF k = n - 1 THEN results ELSE <<>>
           next(k) == [frames[k] EXCEPT !.local = Expired(frames[k].local, n),
                                        !.arg = Expired(frames[k].arg, n),
                                        !.ops = ops(k)]
<1>7. frames' = [k \in 1..n - 1 |-> next(k)]
  BY DEF Leave
<1> HIDE DEF ops
<1>8. \A k \in 1..n - 1 : next(k).local = Expired(frames[k].local, n)
  BY <1>6 DEF FrameOf
<1> HIDE DEF next
<1>9. \A k \in DOMAIN frames' : \/ frames'[k].local.type # "object"
                                \/ k \in DOMAIN frames /\ frames'[k].local = frames[k].local
  <2>1. DOMAIN frames' = 1..n - 1 /\ \A k \in 1..n - 1 : frames'[k] = next(k)
    BY <1>7
  <2> QED BY <1>3, <1>6, <1>8, <2>1
<1>10. Rooted(at, name', frames')
  BY <1>4, <1>9, RootedSame
<1> QED BY <1>2, <1>10, OwnershipHolds

LEMMA ReturnOwned ==
  ASSUME IInv, Running, Ownership, NEW term \in Terms, Return(term)
  PROVE  Ownership'
<1> DEFINE s == Operand(term)
           c == Clone(s.heap, s.value)
<1>1. Active /\ May(term)
  BY RunningActive DEF Return, ReturnCopy
<1>2. CASE s.fault # "ok"
  <2>1. Panic(s.fault)
    BY <1>2 DEF Return, ReturnCopy
  <2> QED BY <2>1, PanicOwned
<1>3. HeapOK' /\ (s.fault = "ok" => Withers(IF Depth = 1 THEN s.heap ELSE c.heap, heap'))
  BY ReturnKeeps DEF Good
<1>4. CASE s.fault = "ok" /\ Depth = 1
  <2>1. Leave(s.heap, <<s.value>>, <<>>, s.lost)
    BY <1>4 DEF Return, ReturnCopy
  <2>2. Withers(s.heap, heap')
    BY <1>3, <1>4
  <2>3. PICK at : Planted(s.heap, at) /\ Rooted(at, name, frames)
    BY <1>1, <1>4, OperandOwned
  <2> HIDE DEF s
  <2> QED BY <1>1, <1>3, <2>1, <2>2, <2>3, LeaveOwned
<1>5. CASE s.fault = "ok" /\ Depth # 1
  <2>1. c.fits /\ Leave(c.heap, <<s.value>>, <<Expired(c.value, Depth)>>, s.lost)
    BY <1>5 DEF Return, ReturnCopy
  <2>2. Withers(c.heap, heap')
    BY <1>3, <1>5
  <2>3. Shelf \in Spots
    BY SpotsType DEF Shelf
  <2>4. PICK at : Planted(c.heap, at) /\ Rooted(at, name, frames)
    BY <1>1, <1>5, <2>1, <2>3, CopyOwned
  <2> HIDE DEF s, c
  <2> QED BY <1>1, <1>3, <2>1, <2>2, <2>4, LeaveOwned
<1> QED BY <1>2, <1>4, <1>5

LEMMA EndMethodOwned ==
  ASSUME IInv, Ownership, EndMethod
  PROVE  Ownership'
<1>1. Active
  BY RunningActive DEF EndMethod
<1>2. CASE \E k \in 1..Depth : frames[k].ops # <<>>
  <2>1. Panic("opstack")
    BY <1>2 DEF EndMethod
  <2> QED BY <2>1, PanicOwned
<1>3. CASE ~\E k \in 1..Depth : frames[k].ops # <<>>
  <2>1. Leave(heap, <<>>, <<Integer>>, <<>>)
    BY <1>3 DEF EndMethod
  <2>2. HeapOK' /\ Withers(heap, heap')
    BY <1>3, EndMethodKeeps DEF Good
  <2>3. PICK at : Planted(heap, at) /\ Rooted(at, name, frames)
    BY DEF Ownership
  <2> QED BY <1>1, <2>1, <2>2, <2>3, LeaveOwned
<1> QED BY <1>2, <1>3

LEMMA FailOwned ==
  ASSUME IInv, Ownership, Fail
  PROVE  Ownership'
<1>1. HeapOK' /\ Withers(heap, heap')
  BY FailKeeps DEF Good
<1>2. PICK at : Planted(heap, at) /\ Rooted(at, name, frames)
  BY DEF Ownership
<1>3. heap' \in HeapOf(Alive(Depth)')
  BY <1>1 DEF HeapOK, Counted
<1>4. Planted(heap', at)
  BY <1>1, <1>2, <1>3, WithersPlanted
<1>5. name' = [m \in Names |-> Surviving(name[m])] /\ frames' = <<>>
  BY DEF Fail, Surviving
<1>6. \A m \in Names : name'[m] = name[m] \/ name'[m].type # "object"
  <2>1. \A v : Surviving(v) = v \/ Surviving(v).type # "object"
    BY DEF Surviving, Dangling
  <2> QED BY <1>5, <2>1
<1>7. \A k \in DOMAIN frames' : frames'[k].local.type # "object"
  BY <1>5
<1>8. Rooted(at, name', frames')
  BY <1>2, <1>6, <1>7, RootedSame
<1> QED BY <1>4, <1>8, OwnershipHolds

(***************************************************************************)
(* The steps.                                                              *)
(***************************************************************************)

LEMMA InitOwned == Init => Ownership
<1> SUFFICES ASSUME Init PROVE Ownership
  OBVIOUS
<1> DEFINE at == [o \in Objects |-> Shelf]
<1>1. at \in [Objects -> Spots]
  BY SpotsType DEF Shelf
<1>2. \A o \in Objects : heap[o].elems = <<>>
  BY DEF Init, Free
<1>3. Planted(heap, at)
  BY <1>1, <1>2 DEF Planted
<1>4. ASSUME NEW p \in Roots(frames) PROVE Sits(at, At(name, frames, p), Root(p))
  <2>1. frames = <<>> /\ name = [n \in Names |-> Integer]
    BY DEF Init
  <2>2. PICK n \in Names : p = <<"name", n>>
    BY <2>1 DEF Roots
  <2>3. At(name, frames, p) = Integer
    BY <2>1, <2>2 DEF At
  <2> QED BY <2>3 DEF Sits, Integer
<1>5. Rooted(at, name, frames)
  BY <1>4 DEF Rooted
<1> QED BY <1>3, <1>5 DEF Ownership

LEMMA StepOwned ==
  ASSUME IInv, Ownership, Next
  PROVE  Ownership'
<1>1. CASE Running /\ Operator
  <2>1. CASE \E term \in Terms : Push(term)
    BY <1>1, <2>1, PushOwned
  <2>2. CASE \E term \in Terms : Call(term)
    BY <1>1, <2>2, CallOwned
  <2>3. CASE \E term \in Terms : Return(term)
    BY <1>1, <2>3, ReturnOwned
  <2>4. CASE \E term \in Terms, p \in Places, want \in BOOLEAN : Store(term, p, want)
    BY <1>1, <2>4, StoreOwned
  <2>5. CASE \E term \in Terms, p \in Places : CopyObject(term, p)
    BY <1>1, <2>5, CopyObjectOwned
  <2>6. CASE \E term \in Terms, p \in Places, i \in Positions : StoreElement(term, p, i)
    BY <1>1, <2>6, StoreElementOwned
  <2>7. CASE \E p \in Places : SizeOf(p)
    BY <1>1, <2>7, SizeOfOwned
  <2>8. CASE \E p \in Places : CreateField(p)
    BY <1>1, <2>8, CreateFieldOwned
  <2>9. CASE \E p \in Places : \E i \in Positions, q \in Places : IndexTo(p, i, q)
    BY <1>1, <2>9, IndexToOwned
  <2> QED BY <1>1, <2>1, <2>2, <2>3, <2>4, <2>5, <2>6, <2>7, <2>8, <2>9, SMTT(30) DEF Operator
<1> QED BY <1>1, EvalOwned, DropOwned, EndMethodOwned, FailOwned DEF Next

LEMMA StutterOwned ==
  ASSUME Ownership, UNCHANGED vars
  PROVE  Ownership'
BY DEF Ownership, vars

(***************************************************************************)
(* What a variable contains is below its spot.                             *)
(***************************************************************************)

LEMMA ContainedIn ==
  ASSUME NEW v, NEW S \in SUBSET Objects, \A o \in Objects : v = Whole(o) => o \in S,
         \A x \in S, o \in Objects : \A i \in DOMAIN heap[x].elems :
            heap[x].elems[i] = Whole(o) => o \in S
  PROVE  Contained(v) \subseteq S
<1> DEFINE U == SUBSET S
           end == Cardinality(Objects)
           values(T) == UNION {{heap[o].elems[i] : i \in DOMAIN heap[o].elems} : o \in T}
           wholes(vs) == {o \in Objects : Whole(o) \in vs}
           first == wholes({v})
           Deeper(T) == T \cup wholes(values(T))
           F == [p \in U \X (1..end) |-> Deeper(p[1])]
           in[n \in 0..end] == IF n = 0 THEN first ELSE in[n - 1] \cup wholes(values(in[n - 1]))
<1>1. Contained(v) = in[end]
  BY DEF Contained
<1>2. end \in Nat
  BY ObjectsAssumption, FS_CardinalityType
<1>3. first \in U
  OBVIOUS
<1>4. \A T \in U : Deeper(T) \in U
  OBVIOUS
<1> HIDE DEF U, end, values, wholes, first
<1>5. in = [n \in 0..end |-> IF n = 0 THEN first ELSE Deeper(in[n - 1])]
  <2> HIDE DEF Deeper
  <2>1. F \in Steps(U, end)
    BY <1>4 DEF Steps
  <2>2. PICK g \in [0..end -> U] : Iterates(g, first, F, end)
    <3> HIDE DEF F
    <3> QED BY <1>2, <1>3, <2>1, RecursionExists
  <2>3. ASSUME NEW n \in 0..end PROVE g[n] = IF n = 0 THEN first ELSE Deeper(g[n - 1])
    <3>1. CASE n = 0
      BY <2>2, <3>1 DEF Iterates
    <3>2. CASE n # 0
      <4>1. n \in 1..end /\ <<g[n - 1], n>> \in U \X (1..end)
        BY <1>2, <3>2
      <4> QED BY <2>2, <3>2, <4>1 DEF Iterates
    <3> QED BY <3>1, <3>2
  <2>4. g = [n \in 0..end |-> IF n = 0 THEN first ELSE Deeper(g[n - 1])]
    BY <2>3
  <2>5. g = [n \in 0..end |-> IF n = 0 THEN first ELSE g[n - 1] \cup wholes(values(g[n - 1]))]
    BY <2>4 DEF Deeper
  <2>6. in = [n \in 0..end |-> IF n = 0 THEN first ELSE in[n - 1] \cup wholes(values(in[n - 1]))]
    BY <2>5, Zenon
  <2> HIDE DEF in
  <2> QED BY <2>6 DEF Deeper
<1> HIDE DEF in, Deeper
<1>6. ASSUME NEW n \in 0..end PROVE in[n] = IF n = 0 THEN first ELSE Deeper(in[n - 1])
  BY <1>5
<1>7. \A n \in 0..end : in[n] \in U
  <2>1. in[0] \in U
    BY <1>2, <1>3, <1>6
  <2>2. \A n \in 1..end : in[n - 1] \in U => in[n] \in U
    BY <1>2, <1>4, <1>6
  <2> QED BY <1>2, <2>1, <2>2, RecursionType
<1>8. in[end] \in U
  BY <1>2, <1>7
<1> QED BY <1>1, <1>8 DEF U

LEMMA ContainedBelow ==
  ASSUME HeapOK, NEW at, Planted(heap, at), NEW a \in Spots, NEW v, Sits(at, v, a)
  PROVE  Contained(v) \subseteq Below(at, a)
<1> DEFINE S == Below(at, a)
<1>1. S \in SUBSET Objects
  BY DEF Below
<1>2. \A o : Whole(o).type = "object" /\ Whole(o).object = o
  BY DEF Whole
<1>3. ASSUME NEW o \in Objects, v = Whole(o) PROVE o \in S
  <2>1. at[o] = a
    BY <1>2, <1>3 DEF Sits
  <2>2. Len(a.path) \in Nat
    BY DEF Spots
  <2> QED BY <2>1, <2>2 DEF Below
<1>4. ASSUME NEW x \in S, NEW o \in Objects, NEW i \in DOMAIN heap[x].elems,
             heap[x].elems[i] = Whole(o)
      PROVE  o \in S
  <2>1. x \in Objects /\ at[x] \in Spots /\ at[o] = Child(at[x], i)
    BY <1>1, <1>2, <1>4 DEF Planted, Sits
  <2> DEFINE s == at[x].path
             t == at[o].path
             m == Len(a.path)
  <2>2. s \in Seq(Nat) /\ m \in Nat
    BY <2>1 DEF Spots
  <2>3. t = Append(s, i) /\ at[o].root = at[x].root
    BY <2>1 DEF Child
  <2>4. at[x].root = a.root /\ m <= Len(s) /\ \A j \in 1..m : s[j] = a.path[j]
    BY DEF Below
  <2> HIDE DEF s, t, m
  <2>5. Len(t) = Len(s) + 1 /\ Len(s) \in Nat /\ \A j \in 1..Len(s) : t[j] = s[j]
    BY <2>2, <2>3
  <2>6. m <= Len(t) /\ \A j \in 1..m : t[j] = a.path[j]
    BY <2>2, <2>4, <2>5
  <2> QED BY <2>3, <2>4, <2>6 DEF Below, t, m
<1> HIDE DEF S
<1>5. Contained(v) \subseteq S
  BY <1>1, <1>3, <1>4, ContainedIn
<1> QED BY <1>5 DEF S

\* Different variables, and different elements of a package, have nothing in common.
LEMMA RootsApart ==
  ASSUME NEW at, NEW p, NEW q, p # q
  PROVE  Below(at, Root(p)) \cap Below(at, Root(q)) = {}
BY DEF Below, Root

LEMMA ChildrenApart ==
  ASSUME NEW at, NEW a \in Spots, NEW i \in Nat, NEW j \in Nat, i # j
  PROVE  Below(at, Child(a, i)) \cap Below(at, Child(a, j)) = {}
<1> SUFFICES ASSUME NEW o \in Below(at, Child(a, i)), o \in Below(at, Child(a, j)) PROVE FALSE
  OBVIOUS
<1> DEFINE s == a.path
           n == Len(s) + 1
<1>1. s \in Seq(Nat)
  BY DEF Spots
<1>2. Child(a, i).path = Append(s, i) /\ Child(a, j).path = Append(s, j)
  BY DEF Child
<1> HIDE DEF s
<1>3. /\ Len(Append(s, i)) = n /\ Len(Append(s, j)) = n /\ n \in 1..n
      /\ Append(s, i)[n] = i /\ Append(s, j)[n] = j
  BY <1>1
<1> HIDE DEF n
<1>4. at[o].path[n] = i
  BY <1>2, <1>3 DEF Below
<1>5. at[o].path[n] = j
  BY <1>2, <1>3 DEF Below
<1> QED BY <1>4, <1>5

LEMMA OwnershipApart ==
  ASSUME IInv, Ownership
  PROVE  VariablesOwnTheirObjects
<1> DEFINE V == Alive(Depth)
<1>1. /\ HeapOK /\ heap \in HeapOf(V) /\ frames \in Seq(FrameOf(V)) /\ Depth \in Nat
      /\ DOMAIN frames = 1..Depth
  <2>1. HeapOK /\ heap \in HeapOf(V) /\ frames \in Seq(FrameOf(V))
    BY DEF IInv, HeapOK, StateOf, Counted
  <2> DEFINE S == FrameOf(V)
  <2>2. frames \in Seq(S)
    BY <2>1
  <2> HIDE DEF S, V
  <2>3. Len(frames) \in Nat /\ DOMAIN frames = 1..Len(frames)
    BY <2>2
  <2> QED BY <2>1, <2>3 DEF Depth
<1>2. PICK at : Planted(heap, at) /\ Rooted(at, name, frames)
  BY DEF Ownership
<1>3. ASSUME NEW p \in Owners PROVE Root(p) \in Spots /\ Sits(at, Value(p), Root(p))
  <2>1. p \in Roots(frames) /\ p \in Everywhere(Depth)
    BY <1>1 DEF Owners, Roots, Everywhere
  <2>2. At(name, frames, p) = Value(p)
    BY DEF At, Value
  <2> QED BY <1>1, <1>2, <2>1, <2>2, RootSpot DEF Rooted
<1>4. ASSUME NEW p \in Owners PROVE Contained(Value(p)) \subseteq Below(at, Root(p))
  BY <1>1, <1>2, <1>3, ContainedBelow
<1>5. \A p, q \in Owners : p # q => Contained(Value(p)) \cap Contained(Value(q)) = {}
  BY <1>4, RootsApart
<1>6. ASSUME NEW o \in Objects, NEW i \in DOMAIN heap[o].elems, NEW j \in DOMAIN heap[o].elems,
             i # j
      PROVE  Contained(heap[o].elems[i]) \cap Contained(heap[o].elems[j]) = {}
  <2>1. at[o] \in Spots /\ i \in Nat /\ j \in Nat
    <3> DEFINE e == heap[o].elems
    <3>1. e \in Seq(V)
      BY <1>1, CellType
    <3> HIDE DEF e
    <3>2. DOMAIN e \subseteq Nat
      BY <3>1
    <3> QED BY <1>2, <3>2 DEF Planted, e
  <2>2. Child(at[o], i) \in Spots /\ Child(at[o], j) \in Spots
    BY <2>1, SpotsType
  <2>3. Contained(heap[o].elems[i]) \subseteq Below(at, Child(at[o], i))
    <3>1. Sits(at, heap[o].elems[i], Child(at[o], i))
      BY <1>2 DEF Planted
    <3> QED BY <1>1, <1>2, <2>2, <3>1, ContainedBelow
  <2>4. Contained(heap[o].elems[j]) \subseteq Below(at, Child(at[o], j))
    <3>1. Sits(at, heap[o].elems[j], Child(at[o], j))
      BY <1>2 DEF Planted
    <3> QED BY <1>1, <1>2, <2>2, <3>1, ContainedBelow
  <2>5. Below(at, Child(at[o], i)) \cap Below(at, Child(at[o], j)) = {}
    BY <1>6, <2>1, ChildrenApart
  <2> QED BY <2>3, <2>4, <2>5
<1>7. \A o : \A v : o \in Contained(v) => o \in Objects
  <2> SUFFICES ASSUME NEW v PROVE Contained(v) \subseteq Objects
    OBVIOUS
  <2> QED BY ContainedIn
<1> QED BY <1>5, <1>6, <1>7 DEF VariablesOwnTheirObjects

\* Every object is at one spot, where it was created, for as long as it lives: copies are
\* made at the spot that they are stored to, and what is stored, returned, finalized or
\* overwritten never moves.
THEOREM ObjectsKeepTheirSpots == Spec => []Ownership
<1>1. Init => Ownership
  BY InitOwned
<1>2. IInv /\ Ownership /\ [Next]_vars => Ownership'
  BY StepOwned, StutterOwned
<1> QED BY <1>1, <1>2, InvariantHolds, PTL DEF Spec

\* No two locals or Names, and no two elements of a package that one of them contains,
\* ever contain the same object: Store(), CopyObject() and Return() copy what they are
\* given, and arguments and indices only refer to it.
THEOREM VariablesStayApart == Spec => []VariablesOwnTheirObjects
<1>1. IInv /\ Ownership => VariablesOwnTheirObjects
  BY OwnershipApart
<1> QED BY <1>1, InvariantHolds, ObjectsKeepTheirSpots, PTL
=============================================================================
