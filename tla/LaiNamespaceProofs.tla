------------------------- MODULE LaiNamespaceProofs -------------------------
(***************************************************************************)
(* The namespace stays consistent for any tables and methods made of any   *)
(* terms, whatever their names hash to: lookups find what was installed,   *)
(* the array and the tables agree, methods take their nodes away and       *)
(* nobody else's, loops see every child once, and all of this implements   *)
(* a tree of named nodes.                                                  *)
(*                                                                         *)
(* The inductive invariant is stated over arbitrary nodes, arrays, tables, *)
(* contexts and loops, so that it can be taken apart: World is about what  *)
(* the interpreter leaves behind, Calls relates the per-method lists to    *)
(* it, and Walks the loops over children.                                  *)
(***************************************************************************)
EXTENDS LaiNamespace, LaiHashtableProofs, SequenceTheorems

NodeRecords == [name : Names \cup {"\\"}, kind : Kinds, parent : Pointers,
                target : Pointers, origin : Origins]

\* The links of the nodes lead to nodes, and those of the aliases not to aliases.
NodesOK(nd) ==
    /\ nd \in Seq(NodeRecords) /\ Len(nd) >= 1 /\ nd[Root].kind = "ROOT"
    /\ \A n \in 1..Len(nd) :
         /\ nd[n].parent \in 0..Len(nd)
         /\ nd[n].kind = "ALIAS" =>
              nd[n].target \in 1..Len(nd) /\ nd[nd[n].target].kind # "ALIAS"

\* What is in a slot in use of the table of p: a child of p, under its hash.
SlotOK(nd, p, t, k) ==
    /\ t.elem[k] \in 2..Len(nd)
    /\ nd[t.elem[k]].parent = p /\ nd[t.elem[k]].name \in Names
    /\ t.hash[k] = Hash[nd[t.elem[k]].name]

\* A children table: well formed, of children that have different names.
ChildrenOK(nd, p, t) ==
    /\ WellFormed(t)
    /\ \A k \in Used(t) : SlotOK(nd, p, t, k)
    /\ \A j, k \in Used(t) : nd[t.elem[j]].name = nd[t.elem[k]].name => j = k

TreeOK(nd, ch) ==
    /\ NodesOK(nd)
    /\ ch = [p \in 1..Len(nd) |-> ch[p]]
    /\ \A p \in 1..Len(nd) : ChildrenOK(nd, p, ch[p])

AllIn(ch) == UNION {Elements(ch[n]) : n \in DOMAIN ch}

\* The node i + 1 is at place i of the array, until it is uninstalled.
ArrayOK(nd, ar, ch) ==
    /\ ar \in Seq(Nat) /\ Len(ar) = Len(nd) - 1
    /\ \A i \in 1..Len(ar) :
         /\ ar[i] \in {Null, i + 1}
         /\ ar[i] # Null => (i + 1 \in AllIn(ch) <=> nd[i + 1].origin # "refused")
    /\ \A n \in AllIn(ch) : ar[n - 1] = n

\* The first of the predefined devices is there to stay.
FirstDevice(nd, ch) ==
    \E k \in Used(ch[Root]) :
        LET n == ch[Root].elem[k]
        IN  nd[n].name = Predefined[1] /\ nd[n].origin = "block"

World(nd, ar, ch) ==
    /\ TreeOK(nd, ch)
    /\ ArrayOK(nd, ar, ch)
    /\ FirstDevice(nd, ch)

Contexts(nd) == [handle : 1..Len(nd), method : BOOLEAN, list : Seq(1..Len(nd)),
                 ending : BOOLEAN, before : SUBSET (1..Len(nd))]

\* A per-method list is that of a method, and has nodes that were installed by a
\* method and still are.
ListsOK(nd, ch, cx) ==
    \A c \in 1..Len(cx) : \A i \in 1..Len(cx[c].list) :
        /\ cx[c].method
        /\ cx[c].list[i] \in AllIn(ch)
        /\ nd[cx[c].list[i]].origin = "method"

\* No node is on two lists, or on one twice.
ListsApart(cx) ==
    \A c, d \in 1..Len(cx) : \A i \in 1..Len(cx[c].list), j \in 1..Len(cx[d].list) :
        cx[c].list[i] = cx[d].list[j] => c = d /\ i = j

\* Since call c, no node was uninstalled that was there; those that are new are
\* on the list of that call or of one inside it, or were created in a block.
SinceCall(nd, ch, cx, c) ==
    /\ cx[c].before \subseteq AllIn(ch)
    /\ \A d \in c..Len(cx) : \A i \in 1..Len(cx[d].list) :
         cx[d].list[i] \notin cx[c].before
    /\ \A n \in AllIn(ch) \ cx[c].before :
         \/ nd[n].origin = "block"
         \/ \E d \in c..Len(cx) : \E i \in 1..Len(cx[d].list) : cx[d].list[i] = n

Calls(nd, ch, cx) ==
    /\ cx \in Seq(Contexts(nd))
    /\ \A c \in 1..Len(cx) : nd[cx[c].handle].kind # "ALIAS"
    /\ \A c \in 1..Len(cx) : cx[c].ending => cx[c].method
    /\ ListsOK(nd, ch, cx)
    /\ ListsApart(cx)
    /\ \A c \in 1..Len(cx) : cx[c].method => SinceCall(nd, ch, cx, c)

Frames(nd) ==
    [kind : {"init", "find"}, parent : 1..Len(nd), i : Nat, at : 0..Len(nd),
     phase : {"next", "sta", "judge", "ini", "down", "ask", "match"},
     start : SUBSET (1..Len(nd)), seen : Seq(1..Len(nd))]

Has(seen, n) == \E j \in 1..Len(seen) : seen[j] = n

\* The children of the start are where they were, and those that the iterator has
\* passed were seen; a child in a slot ahead was not.
FrameOK(ch, w) ==
    /\ w.phase # "next" => w.at # Null
    /\ \A n \in w.start : \E k \in Used(ch[w.parent]) :
         /\ ch[w.parent].elem[k] = n
         /\ k < w.i => Has(w.seen, n)
    /\ \A k \in Used(ch[w.parent]) : k >= w.i => ~Has(w.seen, ch[w.parent].elem[k])
    /\ \A i, j \in 1..Len(w.seen) : w.seen[i] = w.seen[j] => i = j

\* No method takes away a child that was there when a loop began.
StartsKept(cx, w) ==
    \A c \in 1..Len(cx) : \A i \in 1..Len(cx[c].list) : cx[c].list[i] \notin w.start

Walks(nd, ch, cx, wk) ==
    /\ wk \in Seq(Frames(nd))
    /\ \A f \in 1..Len(wk) : FrameOK(ch, wk[f]) /\ StartsKept(cx, wk[f])

IInv ==
    /\ World(node, array, children)
    /\ Calls(node, children, ctx)
    /\ Walks(node, children, ctx, walk)
    /\ status \in {"ok", "unresolved"}

(***************************************************************************)
(* Resolution of names in a consistent tree.                               *)
(***************************************************************************)

LEMMA HashTypes == \A name \in Names : Hash[name] \in Int
BY NamesAssumption

\* A lookup returns the child of that name, or Null when there is none.
LEMMA ChildFound ==
  ASSUME TreeOK(node, children), NEW p \in 1..Len(node), NEW name \in Names
  PROVE  \/ /\ Child(p, name) = Null
            /\ \A k \in Used(children[p]) : node[children[p].elem[k]].name # name
         \/ \E k \in Used(children[p]) :
              Child(p, name) = children[p].elem[k] /\ node[children[p].elem[k]].name = name
<1> DEFINE t == children[p]
           h == Hash[name]
           S == Matches(t, name)
<1>1. WellFormed(t) /\ h \in Int
  BY HashTypes DEF TreeOK, ChildrenOK
<1>2. \A i \in Chain(t, h) : t.bucket[Probe(h, i, t.bucket_capacity)] \in Used(t)
  BY <1>1, ChainSound
<1>3. CASE S = {}
  <2>1. Child(p, name) = Null
    BY <1>3 DEF Child
  <2>2. ASSUME NEW k \in Used(t), node[t.elem[k]].name = name PROVE FALSE
    <3>1. t.hash[k] = h
      BY <2>2 DEF TreeOK, ChildrenOK, SlotOK
    <3>2. PICK i \in Chain(t, t.hash[k]) :
            t.bucket[Probe(t.hash[k], i, t.bucket_capacity)] = k
      BY <1>1, ChainComplete
    <3>3. ChainGet(t, h, i) = t.elem[k] /\ i \in Chain(t, h)
      BY <3>1, <3>2 DEF ChainGet
    <3>4. i \in S
      BY <3>3, <2>2, SMTT(30) DEF Matches
    <3> QED BY <3>4, <1>3
  <2> QED BY <2>1, <2>2
<1>4. CASE S # {}
  <2> DEFINE i == Least(S)
             k == t.bucket[Probe(h, i, t.bucket_capacity)]
  <2>1. S \in SUBSET Nat
    <3>1. \A j \in Chain(t, h) : j \in 0..t.bucket_capacity - 1 /\ t.bucket_capacity \in Nat
      BY <1>1, ChainSound
    <3> QED BY <3>1 DEF Matches
  <2>2. i \in S
    BY <2>1, <1>4, LeastNatural
  <2>3. i \in Chain(t, h) /\ node[ChainGet(t, h, i)].name = name
    BY <2>2 DEF Matches
  <2>4. Child(p, name) = ChainGet(t, h, i)
    BY <1>4 DEF Child
  <2>5. ChainGet(t, h, i) = t.elem[k]
    BY DEF ChainGet
  <2> HIDE DEF i, S
  <2>6. k \in Used(t)
    BY <2>3, <1>2
  <2> QED BY <2>3, <2>4, <2>5, <2>6
<1> QED BY <1>3, <1>4

LEMMA ChildType ==
  ASSUME TreeOK(node, children), NEW p \in 1..Len(node), NEW name \in Names
  PROVE  Child(p, name) \in 0..Len(node)
<1>1. \A k \in Used(children[p]) : children[p].elem[k] \in 2..Len(node)
  BY DEF TreeOK, ChildrenOK, SlotOK
<1>2. Len(node) \in Nat
  BY DEF TreeOK, NodesOK
<1> QED BY <1>1, <1>2, ChildFound DEF Null

LEMMA TargetType ==
  ASSUME TreeOK(node, children), NEW n \in 0..Len(node)
  PROVE  /\ Target(n) \in 0..Len(node)
         /\ n # Null => Target(n) # Null
         /\ Target(n) # Null => node[Target(n)].kind # "ALIAS"
<1>1. Len(node) \in Nat
  BY DEF TreeOK, NodesOK
<1>2. CASE n # Null /\ node[n].kind = "ALIAS"
  BY <1>1, <1>2 DEF TreeOK, NodesOK, Target, Null
<1>3. CASE ~(n # Null /\ node[n].kind = "ALIAS")
  BY <1>1, <1>3 DEF Target
<1> QED BY <1>2, <1>3

\* Going up ends at a node.
LEMMA AboveType ==
  ASSUME TreeOK(node, children), NEW from \in 1..Len(node), NEW n \in Nat
  PROVE  Above(from, n) \in 1..Len(node)
<1> DEFINE S == 1..Len(node)
           Up(m) == IF node[m].parent = Null THEN m ELSE node[m].parent
           F == [p \in S \X (1..n) |-> Up(p[1])]
<1>0. Len(node) \in Nat /\ \A m \in S : node[m].parent \in 0..Len(node)
  BY DEF TreeOK, NodesOK
<1>1. \A m \in S : Up(m) \in S
  BY <1>0 DEF Null
<1>2. PICK g \in [0..n -> S] : Iterates(g, from, F, n)
  <2>1. F \in Steps(S, n)
    BY <1>1 DEF Steps
  <2> HIDE DEF S, F
  <2>2. from \in S
    BY DEF S
  <2> QED BY <2>1, <2>2, RecursionExists
<1>3. \A i \in 1..n : g[i] = Up(g[i - 1])
  <2> SUFFICES ASSUME NEW i \in 1..n PROVE g[i] = Up(g[i - 1])
    OBVIOUS
  <2>1. <<g[i - 1], i>> \in S \X (1..n)
    OBVIOUS
  <2>2. F[<<g[i - 1], i>>] = Up(g[i - 1])
    BY <2>1
  <2> QED BY <1>2, <2>2 DEF Iterates
<1> DEFINE above[i \in 0..n] ==
             IF i = 0 THEN from
             ELSE IF node[above[i - 1]].parent = Null THEN above[i - 1]
             ELSE node[above[i - 1]].parent
<1>4. g = [i \in 0..n |->
             IF i = 0 THEN from
             ELSE IF node[g[i - 1]].parent = Null THEN g[i - 1]
             ELSE node[g[i - 1]].parent]
  <2>1. \A i \in 0..n : g[i] =
             IF i = 0 THEN from
             ELSE IF node[g[i - 1]].parent = Null THEN g[i - 1]
             ELSE node[g[i - 1]].parent
    <3> SUFFICES ASSUME NEW i \in 0..n
                 PROVE  g[i] = IF i = 0 THEN from
                               ELSE IF node[g[i - 1]].parent = Null THEN g[i - 1]
                               ELSE node[g[i - 1]].parent
      OBVIOUS
    <3>1. CASE i = 0
      BY <3>1, <1>2 DEF Iterates
    <3>2. CASE i # 0
      BY <3>2, <1>3
    <3> QED BY <3>1, <3>2
  <2> QED BY <2>1
<1>5. above = [i \in 0..n |->
             IF i = 0 THEN from
             ELSE IF node[above[i - 1]].parent = Null THEN above[i - 1]
             ELSE node[above[i - 1]].parent]
  BY <1>4, Zenon
<1>6. Above(from, n) = above[n]
  BY DEF Above
<1> HIDE DEF above
<1>7. above[0] = from /\ \A i \in 1..n : above[i] = Up(above[i - 1])
  <2>1. above[0] = from
    BY <1>5, SMTT(30)
  <2>2. ASSUME NEW i \in 1..n PROVE above[i] = Up(above[i - 1])
    <3>1. i \in 0..n /\ i # 0
      OBVIOUS
    <3> QED BY <3>1, <1>5
  <2> QED BY <2>1, <2>2
<1>8. \A i \in 0..n : above[i] \in S
  <2>1. above[0] \in S
    BY <1>7
  <2>2. \A i \in 1..n : above[i - 1] \in S => above[i] \in S
    BY <1>1, <1>7
  <2> HIDE DEF S, Up
  <2> QED BY <2>1, <2>2, RecursionType
<1> QED BY <1>6, <1>8

LEMMA StartType ==
  ASSUME TreeOK(node, children), NEW from \in 1..Len(node), NEW path \in Paths
  PROVE  Start(from, path) \in 1..Len(node)
<1>1. Root \in 1..Len(node)
  BY DEF TreeOK, NodesOK, Root
<1>2. path.height \in Nat
  BY DEF Paths
<1> QED BY <1>1, <1>2, AboveType DEF Start
\* A walk from child to child ends at a node or at Null.
LEMMA DescendType ==
  ASSUME TreeOK(node, children), NEW from \in 0..Len(node),
         NEW segments \in Seq(Names), NEW n \in 0..Len(segments)
  PROVE  Descend(from, segments, n) \in 0..Len(node)
<1> DEFINE S == 0..Len(node)
           Down(m, i) == IF m = Null THEN Null ELSE Child(m, segments[i])
           F == [p \in S \X (1..n) |-> Down(p[1], p[2])]
<1>0. Len(node) \in Nat /\ n \in Nat /\ \A i \in 1..n : segments[i] \in Names
  BY DEF TreeOK, NodesOK
<1>1. \A m \in S, i \in 1..n : Down(m, i) \in S
  <2> SUFFICES ASSUME NEW m \in S, NEW i \in 1..n PROVE Down(m, i) \in S
    OBVIOUS
  <2>1. m # Null => Child(m, segments[i]) \in S
    BY <1>0, ChildType DEF Null
  <2> QED BY <1>0, <2>1 DEF Null
<1>2. PICK g \in [0..n -> S] : Iterates(g, from, F, n)
  <2>1. F \in Steps(S, n)
    BY <1>1 DEF Steps
  <2>2. from \in S
    OBVIOUS
  <2> HIDE DEF S, F
  <2> QED BY <1>0, <2>1, <2>2, RecursionExists
<1>3. \A i \in 1..n : g[i] = Down(g[i - 1], i)
  <2> SUFFICES ASSUME NEW i \in 1..n PROVE g[i] = Down(g[i - 1], i)
    OBVIOUS
  <2>1. <<g[i - 1], i>> \in S \X (1..n)
    BY <1>0
  <2>2. F[<<g[i - 1], i>>] = Down(g[i - 1], i)
    BY <2>1
  <2> QED BY <1>2, <2>2 DEF Iterates
<1> DEFINE reached[i \in 0..n] ==
             IF i = 0 THEN from
             ELSE IF reached[i - 1] = Null THEN Null
             ELSE Child(reached[i - 1], segments[i])
<1>4. g = [i \in 0..n |-> IF i = 0 THEN from
                          ELSE IF g[i - 1] = Null THEN Null
                          ELSE Child(g[i - 1], segments[i])]
  <2>1. \A i \in 0..n : g[i] = IF i = 0 THEN from
                               ELSE IF g[i - 1] = Null THEN Null
                               ELSE Child(g[i - 1], segments[i])
    <3> SUFFICES ASSUME NEW i \in 0..n
                 PROVE  g[i] = IF i = 0 THEN from
                               ELSE IF g[i - 1] = Null THEN Null
                               ELSE Child(g[i - 1], segments[i])
      OBVIOUS
    <3>1. CASE i = 0
      BY <3>1, <1>2 DEF Iterates
    <3>2. CASE i # 0
      <4>1. i \in 1..n
        BY <1>0, <3>2
      <4> QED BY <4>1, <3>2, <1>3
    <3> QED BY <3>1, <3>2
  <2> QED BY <2>1
<1>5. reached = [i \in 0..n |-> IF i = 0 THEN from
                                ELSE IF reached[i - 1] = Null THEN Null
                                ELSE Child(reached[i - 1], segments[i])]
  BY <1>4
<1>6. Descend(from, segments, n) = reached[n]
  BY DEF Descend
<1> HIDE DEF reached
<1>7. reached[0] = from /\ \A i \in 1..n : reached[i] = Down(reached[i - 1], i)
  <2>1. reached[0] = from
    BY <1>0, <1>5
  <2>2. ASSUME NEW i \in 1..n PROVE reached[i] = Down(reached[i - 1], i)
    <3>1. i \in 0..n /\ i # 0
      BY <1>0
    <3> QED BY <3>1, <1>5
  <2> QED BY <2>1, <2>2
<1>8. \A i \in 0..n : reached[i] \in S
  <2>1. reached[0] \in S
    BY <1>7
  <2>2. \A i \in 1..n : reached[i - 1] \in S => reached[i] \in S
    BY <1>1, <1>7
  <2> HIDE DEF S, Down
  <2> QED BY <1>0, <2>1, <2>2, RecursionType
<1> QED BY <1>0, <1>6, <1>8

\* The search through the scopes.
LEMMA SearchType ==
  ASSUME TreeOK(node, children), NEW from \in 1..Len(node), NEW name \in Names
  PROVE  /\ Search(from, name) \in 0..Len(node)
         /\ Search(from, name) # Null => node[Search(from, name)].kind # "ALIAS"
<1> DEFINE found == {i \in 0..Len(node) : Child(Above(from, i), name) # Null}
<1>0. Len(node) \in Nat
  BY DEF TreeOK, NodesOK
<1>1. CASE found = {}
  <2>1. Search(from, name) = Null
    BY <1>1 DEF Search
  <2> QED BY <1>0, <2>1 DEF Null
<1>2. CASE found # {}
  <2> DEFINE i == Least(found)
             c == Child(Above(from, i), name)
  <2>1. found \in SUBSET Nat
    BY <1>0
  <2>2. i \in found
    BY <2>1, <1>2, LeastNatural
  <2>3. i \in Nat
    BY <2>1, <2>2
  <2>4. Search(from, name) = Target(c)
    BY <1>2 DEF Search
  <2> HIDE DEF i, found
  <2>5. c \in 0..Len(node)
    <3>1. Above(from, i) \in 1..Len(node)
      BY <2>3, AboveType
    <3> QED BY <3>1, ChildType
  <2> HIDE DEF c
  <2> QED BY <2>4, <2>5, TargetType
<1> QED BY <1>1, <1>2

\* Resolution yields a node that is no alias, or Null.
LEMMA ResolveType ==
  ASSUME TreeOK(node, children), NEW from \in 1..Len(node), NEW path \in Paths
  PROVE  /\ Resolve(from, path) \in 0..Len(node)
         /\ Resolve(from, path) # Null => node[Resolve(from, path)].kind # "ALIAS"
<1>0. path.segments \in Seq(Names) /\ Len(path.segments) \in Nat
  BY DEF Paths
<1>1. CASE ~path.absolute /\ path.height = 0 /\ Len(path.segments) = 1
  <2>1. path.segments[1] \in Names
    BY <1>0, <1>1
  <2>2. Resolve(from, path) = Search(from, path.segments[1])
    BY <1>1 DEF Resolve
  <2> QED BY <2>1, <2>2, SearchType
<1>2. CASE ~(~path.absolute /\ path.height = 0 /\ Len(path.segments) = 1)
  <2> DEFINE n == Descend(Start(from, path), path.segments, Len(path.segments))
  <2>1. Resolve(from, path) = Target(n)
    BY <1>2 DEF Resolve
  <2>2. Start(from, path) \in 0..Len(node) /\ Len(path.segments) \in 0..Len(path.segments)
    <3>1. Start(from, path) \in 1..Len(node)
      BY StartType
    <3> QED BY <3>1, <1>0
  <2>3. n \in 0..Len(node)
    BY <1>0, <2>2, DescendType
  <2> HIDE DEF n
  <2> QED BY <2>1, <2>3, TargetType
<1> QED BY <1>1, <1>2

\* A new node has a node for its parent, or there is no such parent.
LEMMA NewParentType ==
  ASSUME TreeOK(node, children), NEW from \in 1..Len(node), NEW path \in Paths,
         path.segments # <<>>
  PROVE  NewParent(from, path) \in 0..Len(node)
<1> DEFINE S == 0..Len(node)
           n == Len(path.segments) - 1
           start == Start(from, path)
           Down(m, i) == IF m = Null THEN Null ELSE Target(Child(m, path.segments[i]))
           F == [p \in S \X (1..n) |-> Down(p[1], p[2])]
<1>0. Len(node) \in Nat /\ n \in Nat /\ \A i \in 1..n : path.segments[i] \in Names
  <2>1. path.segments \in Seq(Names)
    BY DEF Paths
  <2>2. Len(path.segments) \in Nat /\ Len(path.segments) # 0
    BY <2>1, EmptySeq
  <2> QED BY <2>1, <2>2 DEF TreeOK, NodesOK
<1>1. \A m \in S, i \in 1..n : Down(m, i) \in S
  <2> SUFFICES ASSUME NEW m \in S, NEW i \in 1..n PROVE Down(m, i) \in S
    OBVIOUS
  <2>1. m # Null => Child(m, path.segments[i]) \in S
    BY <1>0, ChildType DEF Null
  <2>2. m # Null => Target(Child(m, path.segments[i])) \in S
    BY <2>1, TargetType
  <2> QED BY <1>0, <2>2 DEF Null
<1>2. start \in S
  <2>1. start \in 1..Len(node)
    BY StartType
  <2> QED BY <2>1, <1>0
<1> HIDE DEF n, start
<1>3. PICK g \in [0..n -> S] : Iterates(g, start, F, n)
  <2>1. F \in Steps(S, n)
    BY <1>1 DEF Steps
  <2> HIDE DEF S, F
  <2> QED BY <1>0, <1>2, <2>1, RecursionExists
<1>4. \A i \in 1..n : g[i] = Down(g[i - 1], i)
  <2> SUFFICES ASSUME NEW i \in 1..n PROVE g[i] = Down(g[i - 1], i)
    OBVIOUS
  <2>1. <<g[i - 1], i>> \in S \X (1..n)
    BY <1>0
  <2>2. F[<<g[i - 1], i>>] = Down(g[i - 1], i)
    BY <2>1
  <2> QED BY <1>3, <2>2 DEF Iterates
<1> DEFINE reached[i \in 0..n] ==
             IF i = 0 THEN start
             ELSE IF reached[i - 1] = Null THEN Null
             ELSE Target(Child(reached[i - 1], path.segments[i]))
<1>5. g = [i \in 0..n |-> IF i = 0 THEN start
                          ELSE IF g[i - 1] = Null THEN Null
                          ELSE Target(Child(g[i - 1], path.segments[i]))]
  <2>1. \A i \in 0..n : g[i] = IF i = 0 THEN start
                               ELSE IF g[i - 1] = Null THEN Null
                               ELSE Target(Child(g[i - 1], path.segments[i]))
    <3> SUFFICES ASSUME NEW i \in 0..n
                 PROVE  g[i] = IF i = 0 THEN start
                               ELSE IF g[i - 1] = Null THEN Null
                               ELSE Target(Child(g[i - 1], path.segments[i]))
      OBVIOUS
    <3>1. CASE i = 0
      BY <3>1, <1>3 DEF Iterates
    <3>2. CASE i # 0
      <4>1. i \in 1..n
        BY <1>0, <3>2
      <4> QED BY <4>1, <3>2, <1>4
    <3> QED BY <3>1, <3>2
  <2> QED BY <2>1
<1>6. reached = [i \in 0..n |-> IF i = 0 THEN start
                                ELSE IF reached[i - 1] = Null THEN Null
                                ELSE Target(Child(reached[i - 1], path.segments[i]))]
  BY <1>5
<1>7. NewParent(from, path) = reached[n]
  BY DEF NewParent, n, start
<1> HIDE DEF reached
<1>8. reached[0] = start /\ \A i \in 1..n : reached[i] = Down(reached[i - 1], i)
  <2>1. reached[0] = start
    BY <1>0, <1>6
  <2>2. ASSUME NEW i \in 1..n PROVE reached[i] = Down(reached[i - 1], i)
    <3>1. i \in 0..n /\ i # 0
      BY <1>0
    <3> QED BY <3>1, <1>6
  <2> QED BY <2>1, <2>2
<1>9. \A i \in 0..n : reached[i] \in S
  <2>1. reached[0] \in S
    BY <1>2, <1>8
  <2>2. \A i \in 1..n : reached[i - 1] \in S => reached[i] \in S
    BY <1>1, <1>8
  <2> HIDE DEF S, Down
  <2> QED BY <1>0, <2>1, <2>2, RecursionType
<1> QED BY <1>0, <1>7, <1>9
(***************************************************************************)
(* What the steps do to nodes and tables.                                  *)
(***************************************************************************)
LEMMA SeqMono ==
  ASSUME NEW A, NEW B, A \subseteq B, NEW s \in Seq(A)
  PROVE  s \in Seq(B)
<1>1. Len(s) \in Nat /\ s \in [1..Len(s) -> A]
  BY LenProperties
<1>2. s \in [1..Len(s) -> B]
  BY <1>1
<1> QED BY <1>1, <1>2

\* Nodes are only added.
Extends(nd, nd2) ==
    /\ Len(nd) \in Nat /\ Len(nd2) \in Nat /\ Len(nd) <= Len(nd2)
    /\ \A n \in 1..Len(nd) : nd2[n] = nd[n]

\* The node gone leaves its table and the node new enters one; Null is none.
Changes(ch, ch2, gone, new) ==
    /\ DOMAIN ch \subseteq DOMAIN ch2
    /\ \A p \in DOMAIN ch : \A k \in Used(ch[p]) :
         ch[p].elem[k] # gone => k \in Used(ch2[p]) /\ ch2[p].elem[k] = ch[p].elem[k]
    /\ \A p \in DOMAIN ch : \A k \in Used(ch2[p]) :
         \/ k \in Used(ch[p]) /\ ch2[p].elem[k] = ch[p].elem[k]
         \/ ch2[p].elem[k] = new

LEMMA AllInElements ==
  ASSUME NEW ch, NEW n
  PROVE  n \in AllIn(ch) <=> \E p \in DOMAIN ch : \E k \in Used(ch[p]) : ch[p].elem[k] = n
BY DEF AllIn, Elements

LEMMA AppendTable ==
  ASSUME NEW ch, NEW n \in Nat, ch = [p \in 1..n |-> ch[p]], NEW t
  PROVE  Append(ch, t) = [p \in 1..n + 1 |-> IF p = n + 1 THEN t ELSE ch[p]]
<1> DEFINE S == {ch[p] : p \in 1..n} \cup {t}
<1>1. ch \in [1..n -> S]
  BY Zenon
<1>2. ch \in Seq(S) /\ Len(ch) = n
  BY <1>1
<1>3. t \in S
  OBVIOUS
<1> HIDE DEF S
<1>4. Append(ch, t) \in Seq(S) /\ Len(Append(ch, t)) = n + 1
  BY <1>2, <1>3, AppendProperties
<1>5. \A p \in 1..n + 1 : Append(ch, t)[p] = IF p = n + 1 THEN t ELSE ch[p]
  BY <1>2, <1>3, AppendProperties
<1> QED BY <1>4, <1>5

LEMMA AppendNode ==
  ASSUME NEW nd, NodesOK(nd), NEW r \in NodeRecords, r.parent \in 1..Len(nd),
         r.kind = "ALIAS" => r.target \in 1..Len(nd) /\ nd[r.target].kind # "ALIAS"
  PROVE  /\ NodesOK(Append(nd, r)) /\ Extends(nd, Append(nd, r))
         /\ Len(Append(nd, r)) = Len(nd) + 1 /\ Append(nd, r)[Len(nd) + 1] = r
<1> DEFINE nd2 == Append(nd, r)
<1>0. nd \in Seq(NodeRecords) /\ Len(nd) \in Nat /\ Len(nd) >= 1
  BY DEF NodesOK
<1>1. /\ nd2 \in Seq(NodeRecords) /\ Len(nd2) = Len(nd) + 1 /\ nd2[Len(nd) + 1] = r
      /\ \A n \in 1..Len(nd) : nd2[n] = nd[n]
  BY <1>0, AppendProperties
<1> HIDE DEF nd2
<1>2. Extends(nd, nd2)
  BY <1>0, <1>1 DEF Extends
<1>3. \A n \in 1..Len(nd2) :
         /\ nd2[n].parent \in 0..Len(nd2)
         /\ nd2[n].kind = "ALIAS" =>
              nd2[n].target \in 1..Len(nd2) /\ nd2[nd2[n].target].kind # "ALIAS"
  <2> SUFFICES ASSUME NEW n \in 1..Len(nd2)
               PROVE  /\ nd2[n].parent \in 0..Len(nd2)
                      /\ nd2[n].kind = "ALIAS" =>
                           nd2[n].target \in 1..Len(nd2) /\ nd2[nd2[n].target].kind # "ALIAS"
    OBVIOUS
  <2>1. CASE n = Len(nd) + 1
    <3>1. nd2[n] = r
      BY <1>1, <2>1
    <3> QED BY <1>0, <1>1, <3>1
  <2>2. CASE n \in 1..Len(nd)
    <3>1. /\ nd[n].parent \in 0..Len(nd)
          /\ nd[n].kind = "ALIAS" =>
               nd[n].target \in 1..Len(nd) /\ nd[nd[n].target].kind # "ALIAS"
      BY <2>2 DEF NodesOK
    <3> QED BY <1>0, <1>1, <2>2, <3>1
  <2> QED BY <1>0, <1>1, <2>1, <2>2
<1>4. NodesOK(nd2)
  <2>1. nd2[Root] = nd[Root] /\ nd[Root].kind = "ROOT"
    BY <1>0, <1>1 DEF NodesOK, Root
  <2> QED BY <1>0, <1>1, <1>3, <2>1 DEF NodesOK
<1> QED BY <1>1, <1>2, <1>4 DEF nd2

\* A table is as good as before when there are more nodes.
LEMMA ChildrenExtend ==
  ASSUME NEW nd, NEW nd2, Extends(nd, nd2), NEW p, NEW t, ChildrenOK(nd, p, t)
  PROVE  ChildrenOK(nd2, p, t)
<1>1. \A k \in Used(t) : t.elem[k] \in 2..Len(nd)
  BY DEF ChildrenOK, SlotOK
<1>2. \A k \in Used(t) : t.elem[k] \in 2..Len(nd2) /\ nd2[t.elem[k]] = nd[t.elem[k]]
  BY <1>1 DEF Extends
<1> QED BY <1>2 DEF ChildrenOK, SlotOK

LEMMA EmptyChildren ==
  ASSUME NEW nd, NEW p
  PROVE  ChildrenOK(nd, p, EmptyTable)
BY EmptyWellFormed DEF ChildrenOK
\* A node with a name that its parent has no child of is installed.
LEMMA InstallTree ==
  ASSUME NEW nd, NEW ch, TreeOK(nd, ch), NEW r \in NodeRecords, r.name \in Names,
         r.parent \in 1..Len(nd),
         r.kind = "ALIAS" => r.target \in 1..Len(nd) /\ nd[r.target].kind # "ALIAS",
         \A k \in Used(ch[r.parent]) : nd[ch[r.parent].elem[k]].name # r.name,
         NEW ch2,
         ch2 = Append([ch EXCEPT ![r.parent] = Insert(@, Hash[r.name], Len(nd) + 1)],
                      EmptyTable)
  PROVE  /\ TreeOK(Append(nd, r), ch2)
         /\ Changes(ch, ch2, Null, Len(nd) + 1)
         /\ AllIn(ch2) = AllIn(ch) \cup {Len(nd) + 1}
<1> DEFINE p == r.parent
           h == Hash[r.name]
           new == Len(nd) + 1
           nd2 == Append(nd, r)
           t == ch[p]
           t2 == Insert(t, h, new)
           mid == [ch EXCEPT ![p] = t2]
<1>0. Len(nd) \in Nat /\ Len(nd) >= 1 /\ p \in 1..Len(nd) /\ NodesOK(nd)
  BY DEF TreeOK, NodesOK
<1>1. /\ NodesOK(nd2) /\ Extends(nd, nd2) /\ Len(nd2) = new /\ nd2[new] = r
  BY <1>0, AppendNode
<1>2. ch = [q \in 1..Len(nd) |-> ch[q]] /\ \A q \in 1..Len(nd) : ChildrenOK(nd, q, ch[q])
  BY DEF TreeOK
<1>3. mid = [q \in 1..Len(nd) |-> IF q = p THEN t2 ELSE ch[q]]
  BY <1>2
<1>4. ch2 = [q \in 1..new |-> IF q = new THEN EmptyTable ELSE mid[q]]
  <2>1. mid = [q \in 1..Len(nd) |-> mid[q]]
    BY <1>3
  <2> HIDE DEF mid
  <2> QED BY <1>0, <2>1, AppendTable DEF mid
<1>5. WellFormed(t2) /\ \E k \in Nat : Adds(t, t2, k, h, new)
  <2>1. h \in Int /\ new \in Nat \ {0} /\ WellFormed(t)
    BY <1>0, <1>2, HashTypes DEF ChildrenOK
  <2> QED BY <2>1, InsertAdds
<1>6. PICK k0 \in Nat : Adds(t, t2, k0, h, new)
  BY <1>5
<1>7. /\ ch2[p] = t2 /\ ch2[new] = EmptyTable
      /\ \A q \in 1..Len(nd) : q # p => ch2[q] = ch[q]
      /\ DOMAIN ch2 = 1..new /\ DOMAIN ch = 1..Len(nd)
      /\ ch2 = [q \in 1..new |-> ch2[q]]
  <2> HIDE DEF p, t2, mid, nd2
  <2> QED BY ONLY <1>0, <1>2, <1>3, <1>4
<1> HIDE DEF nd2, t2, mid
<1>8. ChildrenOK(nd2, p, t2)
  <2>1. /\ \A k \in Used(t) : SlotOK(nd, p, t, k)
        /\ \A j, k \in Used(t) : nd[t.elem[j]].name = nd[t.elem[k]].name => j = k
    BY <1>0, <1>2 DEF ChildrenOK
  <2>2. \A k \in Used(t) : k \in Used(t2) /\ t2.elem[k] = t.elem[k] /\ t2.hash[k] = t.hash[k]
    BY <1>6 DEF Adds
  <2>3. /\ k0 \notin Used(t) /\ Used(t2) = Used(t) \cup {k0}
        /\ t2.elem[k0] = new /\ t2.hash[k0] = h
    BY <1>6, SMTT(30) DEF Adds
  <2>4. \A k \in Used(t) : t.elem[k] \in 1..Len(nd) /\ nd2[t.elem[k]] = nd[t.elem[k]]
    <3> HIDE DEF t, p
    <3> QED BY ONLY <1>0, <1>1, <2>1 DEF SlotOK, Extends
  <2>5. \A k \in Used(t) : SlotOK(nd2, p, t2, k)
    <3>1. Len(nd) \in Nat /\ Len(nd2) = Len(nd) + 1
      BY <1>0, <1>1
    <3> HIDE DEF t, p, h
    <3> QED BY ONLY <2>1, <2>2, <2>4, <3>1 DEF SlotOK
  <2>6. SlotOK(nd2, p, t2, k0)
    BY <1>0, <1>1, <2>3 DEF SlotOK
  <2>7. \A j, k \in Used(t2) : nd2[t2.elem[j]].name = nd2[t2.elem[k]].name => j = k
    <3>1. \A k \in Used(t) : nd2[t2.elem[k]].name = nd[t.elem[k]].name
      BY <2>2, <2>4
    <3>2. nd2[t2.elem[k0]].name = r.name
      BY <1>1, <2>3
    <3>3. \A k \in Used(t) : nd[t.elem[k]].name # r.name
      OBVIOUS
    <3> HIDE DEF t
    <3> QED BY ONLY <2>1, <2>3, <3>1, <3>2, <3>3
  <2> HIDE DEF t, p
  <2> QED BY ONLY <1>5, <2>3, <2>5, <2>6, <2>7 DEF ChildrenOK
<1>9. TreeOK(nd2, ch2)
  <2>1. ASSUME NEW q \in 1..new PROVE ChildrenOK(nd2, q, ch2[q])
    <3>1. CASE q = p
      BY <1>7, <1>8, <3>1
    <3>2. CASE q = new
      BY <1>7, <3>2, EmptyChildren
    <3>3. CASE q # p /\ q # new
      <4>1. q \in 1..Len(nd) /\ ch2[q] = ch[q]
        BY <1>0, <1>7, <3>3
      <4>2. ChildrenOK(nd, q, ch[q])
        BY <1>2, <4>1
      <4> QED BY <1>1, <4>1, <4>2, ChildrenExtend
    <3> QED BY <3>1, <3>2, <3>3
  <2> QED BY <1>1, <1>7, <2>1 DEF TreeOK
<1>10. Changes(ch, ch2, Null, new)
  <2>1. DOMAIN ch \subseteq DOMAIN ch2
    BY <1>0, <1>7
  <2>2. ASSUME NEW q \in DOMAIN ch
        PROVE  /\ \A k \in Used(ch[q]) : k \in Used(ch2[q]) /\ ch2[q].elem[k] = ch[q].elem[k]
               /\ \A k \in Used(ch2[q]) :
                    \/ k \in Used(ch[q]) /\ ch2[q].elem[k] = ch[q].elem[k]
                    \/ ch2[q].elem[k] = new
    <3>1. CASE q = p
      BY <1>6, <1>7, <3>1 DEF Adds
    <3>2. CASE q # p
      BY <1>7, <3>2
    <3> QED BY <3>1, <3>2
  <2> QED BY <2>1, <2>2 DEF Changes
<1>11. AllIn(ch2) = AllIn(ch) \cup {new}
  <2>1. ASSUME NEW n \in AllIn(ch2) PROVE n \in AllIn(ch) \cup {new}
    <3>1. PICK q \in DOMAIN ch2 : \E k \in Used(ch2[q]) : ch2[q].elem[k] = n
      BY ONLY <2>1, AllInElements
    <3>2. q # new
      BY <3>1, <1>7, EmptyWellFormed
    <3>3. q \in DOMAIN ch
      BY <1>0, <1>7, <3>1, <3>2
    <3>4. PICK k \in Used(ch2[q]) : ch2[q].elem[k] = n
      BY <3>1
    <3>5. (k \in Used(ch[q]) /\ ch2[q].elem[k] = ch[q].elem[k]) \/ n = new
      BY <1>10, <3>3, <3>4 DEF Changes
    <3> QED BY <3>3, <3>4, <3>5, AllInElements
  <2>2. ASSUME NEW n \in AllIn(ch) PROVE n \in AllIn(ch2)
    <3>1. PICK q \in DOMAIN ch : \E k \in Used(ch[q]) : ch[q].elem[k] = n
      BY <2>2, AllInElements
    <3>2. PICK k \in Used(ch[q]) : ch[q].elem[k] = n
      BY <3>1
    <3>3. ch[q].elem[k] # Null
      BY DEF Used
    <3>4. k \in Used(ch2[q]) /\ ch2[q].elem[k] = n /\ q \in DOMAIN ch2
      BY <1>10, <3>2, <3>3 DEF Changes
    <3> QED BY <3>4, AllInElements
  <2>3. new \in AllIn(ch2)
    <3>1. k0 \in Used(t2) /\ t2.elem[k0] = new
      BY <1>6 DEF Adds
    <3>2. p \in DOMAIN ch2
      BY <1>0, <1>7
    <3>3. \E k \in Used(ch2[p]) : ch2[p].elem[k] = new
      BY <1>7, <3>1
    <3> QED BY ONLY <3>2, <3>3, AllInElements
  <2> QED BY <2>1, <2>2, <2>3
<1> QED BY <1>9, <1>10, <1>11 DEF nd2

\* A duplicate is created and not installed.
LEMMA DuplicateTree ==
  ASSUME NEW nd, NEW ch, TreeOK(nd, ch), NEW r \in NodeRecords, r.parent \in 1..Len(nd),
         r.kind = "ALIAS" => r.target \in 1..Len(nd) /\ nd[r.target].kind # "ALIAS",
         NEW ch2, ch2 = Append(ch, EmptyTable)
  PROVE  /\ TreeOK(Append(nd, r), ch2)
         /\ Changes(ch, ch2, Null, Null)
         /\ AllIn(ch2) = AllIn(ch)
<1> DEFINE new == Len(nd) + 1
           nd2 == Append(nd, r)
<1>0. Len(nd) \in Nat /\ Len(nd) >= 1 /\ NodesOK(nd)
  BY DEF TreeOK, NodesOK
<1>1. /\ NodesOK(nd2) /\ Extends(nd, nd2) /\ Len(nd2) = new
  BY <1>0, AppendNode
<1>2. ch = [q \in 1..Len(nd) |-> ch[q]] /\ \A q \in 1..Len(nd) : ChildrenOK(nd, q, ch[q])
  BY DEF TreeOK
<1>3. ch2 = [q \in 1..new |-> IF q = new THEN EmptyTable ELSE ch[q]]
  BY <1>0, <1>2, AppendTable
<1>4. /\ ch2[new] = EmptyTable
      /\ \A q \in 1..Len(nd) : ch2[q] = ch[q]
      /\ DOMAIN ch2 = 1..new /\ DOMAIN ch = 1..Len(nd)
      /\ ch2 = [q \in 1..new |-> ch2[q]]
  BY <1>0, <1>2, <1>3
<1> HIDE DEF nd2
<1>5. TreeOK(nd2, ch2)
  <2>1. ASSUME NEW q \in 1..new PROVE ChildrenOK(nd2, q, ch2[q])
    <3>1. CASE q = new
      BY <1>4, <3>1, EmptyChildren
    <3>2. CASE q # new
      <4>1. q \in 1..Len(nd) /\ ch2[q] = ch[q]
        BY <1>0, <1>4, <3>2
      <4>2. ChildrenOK(nd, q, ch[q])
        BY <1>2, <4>1
      <4> QED BY <1>1, <4>1, <4>2, ChildrenExtend
    <3> QED BY <3>1, <3>2
  <2> QED BY <1>1, <1>4, <2>1 DEF TreeOK
<1>6. Changes(ch, ch2, Null, Null)
  BY <1>0, <1>4 DEF Changes
<1>7. AllIn(ch2) = AllIn(ch)
  <2>1. ASSUME NEW n \in AllIn(ch2) PROVE n \in AllIn(ch)
    <3>1. PICK q \in DOMAIN ch2 : \E k \in Used(ch2[q]) : ch2[q].elem[k] = n
      BY ONLY <2>1, AllInElements
    <3>2. q # new
      BY <3>1, <1>4, EmptyWellFormed
    <3>3. q \in DOMAIN ch /\ ch2[q] = ch[q]
      BY <1>0, <1>4, <3>1, <3>2
    <3> QED BY <3>1, <3>3, AllInElements
  <2>2. ASSUME NEW n \in AllIn(ch) PROVE n \in AllIn(ch2)
    <3>1. PICK q \in DOMAIN ch : \E k \in Used(ch[q]) : ch[q].elem[k] = n
      BY <2>2, AllInElements
    <3>2. q \in DOMAIN ch2 /\ ch2[q] = ch[q]
      BY <1>0, <1>4
    <3> QED BY <3>1, <3>2, AllInElements
  <2> QED BY <2>1, <2>2
<1> QED BY <1>5, <1>6, <1>7 DEF nd2
\* Where an installed node is.
LEMMA InstalledWhere ==
  ASSUME NEW nd, NEW ch, TreeOK(nd, ch), NEW n \in AllIn(ch)
  PROVE  /\ n \in 2..Len(nd) /\ n \in Nat /\ nd[n].parent \in 1..Len(nd)
         /\ nd[n].name \in Names
         /\ \E k \in Used(ch[nd[n].parent]) :
              ch[nd[n].parent].elem[k] = n /\ ch[nd[n].parent].hash[k] = Hash[nd[n].name]
<1>1. PICK p \in DOMAIN ch : \E k \in Used(ch[p]) : ch[p].elem[k] = n
  BY ONLY n \in AllIn(ch), AllInElements
<1>2. PICK k \in Used(ch[p]) : ch[p].elem[k] = n
  BY <1>1
<1>3. p \in 1..Len(nd) /\ Len(nd) \in Nat
  <2>1. ch = [q \in 1..Len(nd) |-> ch[q]]
    BY DEF TreeOK
  <2> QED BY <2>1 DEF TreeOK, NodesOK
<1>4. SlotOK(nd, p, ch[p], k)
  BY <1>3 DEF TreeOK, ChildrenOK
<1>5. n \in 2..Len(nd) /\ nd[n].parent = p /\ nd[n].name \in Names /\ ch[p].hash[k] = Hash[nd[n].name]
  BY <1>2, <1>4 DEF SlotOK
<1> QED BY <1>2, <1>3, <1>5

\* The loop of lai_uninstall_nsnode() over the children of the parent finds an
\* installed node once, and takes it out of the tree.
PlacesIn(nd, ch, n) ==
    LET t == ch[nd[n].parent] h == Hash[nd[n].name]
    IN  {i \in Chain(t, h) : ChainGet(t, h, i) = n}

Without(A, B, n) == A = B \ {n}

LEMMA UninstallTree ==
  ASSUME NEW nd, NEW ch, TreeOK(nd, ch), NEW n \in AllIn(ch), NEW i, i = Least(PlacesIn(nd, ch, n)),
         NEW ch2,
         ch2 = [ch EXCEPT ![nd[n].parent] = ChainRemove(@, Hash[nd[n].name], i)]
  PROVE  /\ PlacesIn(nd, ch, n) = {i}
         /\ TreeOK(nd, ch2)
         /\ Changes(ch, ch2, n, Null)
         /\ Without(AllIn(ch2), AllIn(ch), n)
<1> DEFINE p == nd[n].parent
           h == Hash[nd[n].name]
           t == ch[p]
           P == PlacesIn(nd, ch, n)
           B(j) == t.bucket[Probe(h, j, t.bucket_capacity)]
           t2 == ChainRemove(t, h, i)
<1>0. /\ n \in 2..Len(nd) /\ p \in 1..Len(nd) /\ nd[n].name \in Names
      /\ \E k \in Used(t) : t.elem[k] = n /\ t.hash[k] = h
  BY InstalledWhere
<1>1. PICK k \in Used(t) : t.elem[k] = n /\ t.hash[k] = h
  BY <1>0
<1>2. ch = [q \in 1..Len(nd) |-> ch[q]] /\ \A q \in 1..Len(nd) : ChildrenOK(nd, q, ch[q])
  BY DEF TreeOK
<1>3. /\ WellFormed(t) /\ h \in Int
      /\ \A j \in Used(t) : SlotOK(nd, p, t, j)
      /\ \A j, l \in Used(t) : nd[t.elem[j]].name = nd[t.elem[l]].name => j = l
  BY <1>0, <1>2, HashTypes, ZenonT(30) DEF ChildrenOK
<1>4. \A j \in Used(t) : t.elem[j] = n => j = k
  BY <1>1, <1>3
<1>5. P = {j \in Chain(t, h) : t.elem[B(j)] = n}
  BY ZenonT(30) DEF PlacesIn, ChainGet
<1>6. \A j \in Chain(t, h) : B(j) \in Used(t)
  BY <1>3, ChainSound
<1>7. P # {}
  <2>1. PICK j \in Chain(t, h) : B(j) = k
    <3> HIDE DEF t, h
    <3> QED BY ONLY <1>1, <1>3, ChainComplete
  <2> QED BY <1>1, <1>5, <2>1, ZenonT(30)
<1>8. \A j, l \in P : j = l
  <2> SUFFICES ASSUME NEW j \in P, NEW l \in P PROVE j = l
    OBVIOUS
  <2>1. j \in Chain(t, h) /\ l \in Chain(t, h) /\ B(j) = k /\ B(l) = k
    BY <1>4, <1>5, <1>6, Zenon
  <2> QED BY <1>3, <2>1, ChainUnique
<1>9. P \in SUBSET Nat
  <2>1. \A j \in Chain(t, h) : j \in 0..t.bucket_capacity - 1 /\ t.bucket_capacity \in Nat
    BY <1>3, ChainSound
  <2> HIDE DEF P, B
  <2>2. \A j \in P : j \in Nat
    BY <1>5, <2>1
  <2> QED BY <2>2, SMTT(30)
<1>10. i \in P
  <2> HIDE DEF P
  <2> QED BY <1>7, <1>9, LeastNatural DEF P
<1>11. P = {i}
  BY <1>8, <1>10
<1>12. i \in Chain(t, h) /\ B(i) = k
  BY <1>4, <1>5, <1>6, <1>10, ZenonT(30)
<1>13. WellFormed(t2) /\ Drops(t, t2, k)
  BY <1>3, <1>12, RemoveDrops
<1> HIDE DEF P, t2
<1>14. /\ ch2[p] = t2 /\ \A q \in 1..Len(nd) : q # p => ch2[q] = ch[q]
       /\ DOMAIN ch = 1..Len(nd) /\ DOMAIN ch2 = 1..Len(nd)
       /\ ch2 = [q \in 1..Len(nd) |-> ch2[q]]
  BY <1>0, <1>2 DEF t2
<1>15. ChildrenOK(nd, p, t2)
  <2>1. Used(t2) = Used(t) \ {k}
    BY <1>13 DEF Drops
  <2>2. \A j \in Used(t2) : j \in Used(t) /\ t2.elem[j] = t.elem[j] /\ t2.hash[j] = t.hash[j]
    BY <1>13, <2>1 DEF Drops
  <2>3. \A j \in Used(t2) : SlotOK(nd, p, t2, j)
    <3> HIDE DEF t, p, h
    <3> QED BY ONLY <1>3, <2>2 DEF SlotOK
  <2> QED BY <1>3, <1>13, <2>2, <2>3 DEF ChildrenOK
<1>16. TreeOK(nd, ch2)
  <2>1. ASSUME NEW q \in 1..Len(nd) PROVE ChildrenOK(nd, q, ch2[q])
    BY <1>2, <1>14, <1>15
  <2>2. NodesOK(nd)
    BY SMTT(30) DEF TreeOK
  <2> QED BY <1>14, <2>1, <2>2 DEF TreeOK
<1>17. Changes(ch, ch2, n, Null)
  <2>1. ASSUME NEW q \in 1..Len(nd)
        PROVE  /\ \A j \in Used(ch[q]) : ch[q].elem[j] # n =>
                    j \in Used(ch2[q]) /\ ch2[q].elem[j] = ch[q].elem[j]
               /\ \A j \in Used(ch2[q]) : j \in Used(ch[q]) /\ ch2[q].elem[j] = ch[q].elem[j]
    <3>1. CASE q = p
      <4>1. Used(t2) = Used(t) \ {k} /\ \A j \in Used(t2) : t2.elem[j] = t.elem[j]
        BY <1>13 DEF Drops
      <4> QED BY <1>1, <1>14, <3>1, <4>1
    <3>2. CASE q # p
      BY <1>14, <3>2
    <3> HIDE DEF p
    <3> QED BY ONLY <3>1, <3>2
  <2> QED BY <1>14, <2>1 DEF Changes
<1>18. AllIn(ch2) = AllIn(ch) \ {n}
  <2>1. ASSUME NEW m \in AllIn(ch2) PROVE m \in AllIn(ch) \ {n}
    <3>1. PICK q \in DOMAIN ch2 : \E j \in Used(ch2[q]) : ch2[q].elem[j] = m
      BY ONLY <2>1, AllInElements
    <3>2. PICK j \in Used(ch2[q]) : ch2[q].elem[j] = m
      BY <3>1
    <3>3. q \in 1..Len(nd) /\ q \in DOMAIN ch
      BY <1>14
    <3>4. ch2[q].elem[j] # Null
      BY SMTT(30) DEF Used
    <3>5. j \in Used(ch[q]) /\ ch[q].elem[j] = m
      BY <1>17, <3>2, <3>3, <3>4 DEF Changes
    <3>6. m \in AllIn(ch)
      BY ONLY <3>3, <3>5, AllInElements
    <3>7. m # n
      <4> SUFFICES ASSUME m = n PROVE FALSE
        OBVIOUS
      <4>1. SlotOK(nd, q, ch[q], j)
        BY <1>2, <3>3, <3>5 DEF ChildrenOK
      <4>2. q = p
        BY <3>5, <4>1 DEF SlotOK
      <4>3. j = k
        BY <1>4, <3>5, <4>2
      <4>4. Used(t2) = Used(t) \ {k}
        BY <1>13 DEF Drops
      <4> QED BY <1>14, <3>2, <4>2, <4>3, <4>4
    <3> QED BY <3>6, <3>7
  <2>2. ASSUME NEW m \in AllIn(ch) \ {n} PROVE m \in AllIn(ch2)
    <3>0. m \in AllIn(ch) /\ m # n
      BY <2>2
    <3>1. PICK q \in DOMAIN ch : \E j \in Used(ch[q]) : ch[q].elem[j] = m
      BY ONLY <3>0, AllInElements
    <3>2. PICK j \in Used(ch[q]) : ch[q].elem[j] = m
      BY <3>1
    <3>3. j \in Used(ch2[q]) /\ ch2[q].elem[j] = m /\ q \in DOMAIN ch2
      BY <1>17, <3>0, <3>2 DEF Changes
    <3> QED BY ONLY <3>3, AllInElements
  <2> QED BY <2>1, <2>2
<1> QED BY <1>11, <1>16, <1>17, <1>18 DEF P, Without
(***************************************************************************)
(* The array.                                                              *)
(***************************************************************************)

\* The new node is behind the others, and in no table if it was refused.
LEMMA AppendArray ==
  ASSUME NEW nd, NEW nd2, NEW ar, NEW ch, NEW ch2, ArrayOK(nd, ar, ch), Extends(nd, nd2),
         Len(nd) >= 1, Len(nd2) = Len(nd) + 1,
         \A n \in AllIn(ch) : n \in 2..Len(nd),
         \/ AllIn(ch2) = AllIn(ch) \cup {Len(nd2)} /\ nd2[Len(nd2)].origin # "refused"
         \/ AllIn(ch2) = AllIn(ch) /\ nd2[Len(nd2)].origin = "refused"
  PROVE  ArrayOK(nd2, Append(ar, Len(nd) + 1), ch2)
<1> DEFINE ar2 == Append(ar, Len(nd) + 1)
<1>0. Len(nd) \in Nat /\ ar \in Seq(Nat) /\ Len(ar) = Len(nd) - 1 /\ Len(nd) + 1 \in Nat
  BY DEF ArrayOK, Extends
<1>1. /\ ar2 \in Seq(Nat) /\ Len(ar2) = Len(nd) /\ ar2[Len(nd)] = Len(nd) + 1
      /\ \A i \in 1..Len(ar) : ar2[i] = ar[i]
  <2>1. /\ ar2 \in Seq(Nat) /\ Len(ar2) = Len(ar) + 1 /\ ar2[Len(ar) + 1] = Len(nd) + 1
        /\ \A i \in 1..Len(ar) : ar2[i] = ar[i]
    BY <1>0, AppendProperties
  <2> QED BY <1>0, <2>1
<1> HIDE DEF ar2
<1>2. ASSUME NEW i \in 1..Len(ar2)
      PROVE  /\ ar2[i] \in {Null, i + 1}
             /\ ar2[i] # Null => (i + 1 \in AllIn(ch2) <=> nd2[i + 1].origin # "refused")
  <2>1. CASE i = Len(nd)
    <3>1. ar2[i] = i + 1 /\ i + 1 = Len(nd2)
      BY <1>1, <2>1
    <3>2. Len(nd2) \notin AllIn(ch)
      BY <1>0
    <3> QED BY <3>1, <3>2
  <2>2. CASE i # Len(nd)
    <3>1. i \in 1..Len(ar) /\ i + 1 \in 1..Len(nd) /\ i + 1 # Len(nd2)
      BY <1>0, <1>1, <2>2
    <3>2. ar2[i] = ar[i] /\ nd2[i + 1] = nd[i + 1]
      BY <1>1, <3>1 DEF Extends
    <3>3. i + 1 \in AllIn(ch2) <=> i + 1 \in AllIn(ch)
      BY <3>1
    <3> QED BY <3>1, <3>2, <3>3 DEF ArrayOK
  <2> QED BY <2>1, <2>2
<1>3. ASSUME NEW n \in AllIn(ch2) PROVE ar2[n - 1] = n
  <2>1. CASE n \in AllIn(ch)
    <3>1. ar[n - 1] = n /\ n - 1 \in 1..Len(ar)
      BY <1>0, <2>1 DEF ArrayOK
    <3> QED BY <1>1, <3>1
  <2>2. CASE n = Len(nd2)
    BY <1>0, <1>1, <2>2
  <2> QED BY <2>1, <2>2
<1>4. ArrayOK(nd2, ar2, ch2)
  BY <1>0, <1>1, <1>2, <1>3 DEF ArrayOK
<1> QED BY <1>4 DEF ar2

\* The array forgets a node that is uninstalled.
LEMMA ForgetArray ==
  ASSUME NEW nd, NEW ar, NEW ch, NEW ch2, ArrayOK(nd, ar, ch), Len(nd) \in Nat,
         \A m \in AllIn(ch) : m \in 2..Len(nd),
         NEW n \in AllIn(ch), AllIn(ch2) = AllIn(ch) \ {n},
         NEW ar2, ar2 = [i \in DOMAIN ar |-> IF ar[i] = n THEN Null ELSE ar[i]]
  PROVE  ArrayOK(nd, ar2, ch2)
<1>0. ar \in Seq(Nat) /\ Len(ar) = Len(nd) - 1 /\ DOMAIN ar = 1..Len(ar) /\ Len(ar) \in Nat
  BY LenProperties DEF ArrayOK
<1>1. \A i \in 1..Len(ar) : ar[i] \in Nat
  BY <1>0
<1>2. ar2 \in [1..Len(ar) -> Nat]
  BY <1>0, <1>1 DEF Null
<1>3. ar2 \in Seq(Nat) /\ Len(ar2) = Len(ar)
  BY <1>0, <1>2
<1>4. \A i \in 1..Len(ar) : ar2[i] = IF ar[i] = n THEN Null ELSE ar[i]
  BY <1>0
<1>5. ASSUME NEW i \in 1..Len(ar2)
      PROVE  /\ ar2[i] \in {Null, i + 1}
             /\ ar2[i] # Null => (i + 1 \in AllIn(ch2) <=> nd[i + 1].origin # "refused")
  <2>1. /\ ar[i] \in {Null, i + 1}
        /\ ar[i] # Null => (i + 1 \in AllIn(ch) <=> nd[i + 1].origin # "refused")
    BY <1>3 DEF ArrayOK
  <2>2. ar2[i] = IF ar[i] = n THEN Null ELSE ar[i]
    BY <1>3, <1>4
  <2>3. CASE ar[i] = n
    BY <2>2, <2>3
  <2>4. CASE ar[i] # n /\ ar[i] # Null
    <3>1. ar[i] = i + 1 /\ i + 1 # n
      BY <2>1, <2>4
    <3> QED BY <2>1, <2>2, <2>4, <3>1
  <2>5. CASE ar[i] = Null /\ ar[i] # n
    BY <2>2, <2>5
  <2> QED BY <2>3, <2>4, <2>5
<1>6. ASSUME NEW m \in AllIn(ch2) PROVE ar2[m - 1] = m
  <2>1. m \in AllIn(ch) /\ m # n
    OBVIOUS
  <2>2. ar[m - 1] = m /\ m - 1 \in 1..Len(ar)
    BY <1>0, <2>1 DEF ArrayOK
  <2> QED BY <1>4, <2>1, <2>2
<1> QED BY <1>0, <1>3, <1>5, <1>6 DEF ArrayOK

\* The first predefined device stays unless it is what leaves the tables.
LEMMA FirstDeviceStays ==
  ASSUME NEW nd, NEW nd2, NEW ch, NEW ch2, NEW gone, NEW new,
         TreeOK(nd, ch), FirstDevice(nd, ch), Extends(nd, nd2), Changes(ch, ch2, gone, new),
         gone # Null => nd[gone].origin # "block"
  PROVE  FirstDevice(nd2, ch2)
<1>1. PICK k \in Used(ch[Root]) :
        nd[ch[Root].elem[k]].name = Predefined[1] /\ nd[ch[Root].elem[k]].origin = "block"
  BY DEF FirstDevice
<1>2. Root \in DOMAIN ch /\ ch[Root].elem[k] \in 2..Len(nd) /\ ch[Root].elem[k] # Null
      /\ Len(nd) \in Nat
  <2>1. ch = [q \in 1..Len(nd) |-> ch[q]] /\ Root \in 1..Len(nd) /\ Len(nd) \in Nat
    BY DEF TreeOK, NodesOK, Root
  <2>2. SlotOK(nd, Root, ch[Root], k)
    BY <2>1 DEF TreeOK, ChildrenOK
  <2> QED BY <2>1, <2>2 DEF SlotOK, Used
<1>3. ch[Root].elem[k] # gone
  BY <1>1, <1>2
<1>4. k \in Used(ch2[Root]) /\ ch2[Root].elem[k] = ch[Root].elem[k]
  BY <1>2, <1>3 DEF Changes
<1>5. nd2[ch[Root].elem[k]] = nd[ch[Root].elem[k]]
  BY <1>2 DEF Extends
<1> QED BY <1>1, <1>4, <1>5 DEF FirstDevice
(***************************************************************************)
(* The loops over children.                                                *)
(***************************************************************************)

LEMMA FramesExtend ==
  ASSUME NEW nd, NEW nd2, Extends(nd, nd2)
  PROVE  Frames(nd) \subseteq Frames(nd2)
<1>1. 1..Len(nd) \subseteq 1..Len(nd2) /\ 0..Len(nd) \subseteq 0..Len(nd2)
  BY DEF Extends
<1>2. ASSUME NEW w \in Frames(nd) PROVE w \in Frames(nd2)
  <2>1. w.seen \in Seq(1..Len(nd))
    BY DEF Frames
  <2>2. w.seen \in Seq(1..Len(nd2))
    BY <1>1, <2>1, SeqMono
  <2>3. w.start \in SUBSET (1..Len(nd2)) /\ w.parent \in 1..Len(nd2) /\ w.at \in 0..Len(nd2)
    BY <1>1 DEF Frames
  <2> QED BY <2>2, <2>3 DEF Frames
<1> QED BY <1>2

\* A loop goes on as if nothing had happened when a node enters or leaves a table:
\* children stay in their slots.
LEMMA FrameKept ==
  ASSUME NEW nd, NEW ch, NEW ch2, NEW gone, NEW new, NEW w \in Frames(nd),
         ch = [p \in 1..Len(nd) |-> ch[p]],
         FrameOK(ch, w), Changes(ch, ch2, gone, new), gone \notin w.start,
         new \notin 1..Len(nd)
  PROVE  FrameOK(ch2, w)
<1> DEFINE p == w.parent
<1>0. p \in DOMAIN ch /\ w.seen \in Seq(1..Len(nd))
  BY DEF Frames
<1>1. ASSUME NEW n \in w.start
      PROVE  \E k \in Used(ch2[p]) : ch2[p].elem[k] = n /\ (k < w.i => Has(w.seen, n))
  <2>1. PICK k \in Used(ch[p]) : ch[p].elem[k] = n /\ (k < w.i => Has(w.seen, n))
    BY DEF FrameOK
  <2>2. k \in Used(ch2[p]) /\ ch2[p].elem[k] = n
    BY <1>0, <2>1 DEF Changes
  <2> QED BY <2>1, <2>2
<1>2. ASSUME NEW k \in Used(ch2[p]), k >= w.i PROVE ~Has(w.seen, ch2[p].elem[k])
  <2>1. CASE k \in Used(ch[p]) /\ ch2[p].elem[k] = ch[p].elem[k]
    BY <1>2, <2>1 DEF FrameOK
  <2>2. CASE ch2[p].elem[k] = new
    <3>1. \A j \in 1..Len(w.seen) : w.seen[j] \in 1..Len(nd)
      BY <1>0
    <3> QED BY <2>2, <3>1 DEF Has
  <2> QED BY <1>0, <2>1, <2>2, ZenonT(30) DEF Changes
<1> QED BY <1>1, <1>2 DEF FrameOK

\* The nodes on the lists of cx2 were on lists of cx, or are new.
ListsWithin(cx, cx2, new) ==
    \A c \in 1..Len(cx2) : \A i \in 1..Len(cx2[c].list) :
        \/ cx2[c].list[i] = new
        \/ \E d \in 1..Len(cx) : \E j \in 1..Len(cx[d].list) :
             cx[d].list[j] = cx2[c].list[i]

LEMMA StartsStay ==
  ASSUME NEW nd, NEW cx, NEW cx2, NEW new, NEW w \in Frames(nd), StartsKept(cx, w),
         ListsWithin(cx, cx2, new), new \notin 1..Len(nd)
  PROVE  StartsKept(cx2, w)
<1>1. new \notin w.start
  BY DEF Frames
<1>2. ASSUME NEW c \in 1..Len(cx2), NEW i \in 1..Len(cx2[c].list)
      PROVE  cx2[c].list[i] \notin w.start
  <2>1. CASE cx2[c].list[i] = new
    BY <1>1, <2>1
  <2>2. CASE \E d \in 1..Len(cx) : \E j \in 1..Len(cx[d].list) :
               cx[d].list[j] = cx2[c].list[i]
    <3>1. PICK d \in 1..Len(cx) : \E j \in 1..Len(cx[d].list) :
                 cx[d].list[j] = cx2[c].list[i]
      BY <2>2
    <3>2. PICK j \in 1..Len(cx[d].list) : cx[d].list[j] = cx2[c].list[i]
      BY <3>1
    <3> QED BY <3>2 DEF StartsKept
  <2> QED BY <2>1, <2>2 DEF ListsWithin
<1> QED BY <1>2 DEF StartsKept

LEMMA WalksKept ==
  ASSUME NEW nd, NEW nd2, NEW ch, NEW ch2, NEW cx, NEW cx2, NEW wk, NEW gone, NEW new,
         Walks(nd, ch, cx, wk), Extends(nd, nd2), Changes(ch, ch2, gone, new),
         ch = [p \in 1..Len(nd) |-> ch[p]],
         \A f \in 1..Len(wk) : gone \notin wk[f].start,
         ListsWithin(cx, cx2, new), new \notin 1..Len(nd)
  PROVE  Walks(nd2, ch2, cx2, wk)
<1>1. wk \in Seq(Frames(nd)) /\ \A f \in 1..Len(wk) : wk[f] \in Frames(nd)
  BY DEF Walks
<1>2. wk \in Seq(Frames(nd2))
  BY <1>1, FramesExtend, SeqMono
<1>3. ASSUME NEW f \in 1..Len(wk) PROVE FrameOK(ch2, wk[f]) /\ StartsKept(cx2, wk[f])
  <2>1. FrameOK(ch, wk[f]) /\ StartsKept(cx, wk[f]) /\ wk[f] \in Frames(nd)
    BY <1>1 DEF Walks
  <2>2. FrameOK(ch2, wk[f])
    BY <2>1, FrameKept
  <2>3. StartsKept(cx2, wk[f])
    BY <2>1, StartsStay
  <2> QED BY <2>2, <2>3
<1> QED BY <1>2, <1>3 DEF Walks

\* Only the contexts change.
LEMMA WalksCalls ==
  ASSUME NEW nd, NEW ch, NEW cx, NEW cx2, NEW wk, Walks(nd, ch, cx, wk),
         ListsWithin(cx, cx2, Null)
  PROVE  Walks(nd, ch, cx2, wk)
<1>1. \A f \in 1..Len(wk) : wk[f] \in Frames(nd)
  BY DEF Walks
<1>2. Null \notin 1..Len(nd)
  BY DEF Null
<1>3. \A f \in 1..Len(wk) : StartsKept(cx2, wk[f])
  BY <1>1, <1>2, StartsStay DEF Walks
<1> QED BY <1>3 DEF Walks

(***************************************************************************)
(* The context stack.                                                      *)
(***************************************************************************)
LEMMA ContextsExtend ==
  ASSUME NEW nd, NEW nd2, Extends(nd, nd2)
  PROVE  Contexts(nd) \subseteq Contexts(nd2)
<1>1. 1..Len(nd) \subseteq 1..Len(nd2)
  BY DEF Extends
<1>2. ASSUME NEW c \in Contexts(nd) PROVE c \in Contexts(nd2)
  <2>1. c.list \in Seq(1..Len(nd))
    BY DEF Contexts
  <2>2. c.list \in Seq(1..Len(nd2))
    BY <1>1, <2>1, SeqMono
  <2>3. c.before \in SUBSET (1..Len(nd2)) /\ c.handle \in 1..Len(nd2)
    BY <1>1 DEF Contexts
  <2> QED BY <2>2, <2>3 DEF Contexts
<1> QED BY <1>2

\* The entry for a block or a call, whose list is empty.
Entry(h, method, before) ==
    [handle |-> h, method |-> method, list |-> <<>>, ending |-> FALSE, before |-> before]

LEMMA EmptyCalls ==
  ASSUME NEW nd, NEW ch
  PROVE  Calls(nd, ch, <<>>)
<1>1. <<>> \in Seq(Contexts(nd)) /\ Len(<<>>) = 0
  OBVIOUS
<1> QED BY <1>1 DEF Calls, ListsOK, ListsApart

LEMMA PushCalls ==
  ASSUME NEW nd, NEW ch, NEW cx, Calls(nd, ch, cx), NEW h \in 1..Len(nd),
         nd[h].kind # "ALIAS", NEW method \in BOOLEAN, NEW before,
         before \subseteq AllIn(ch), method => before = AllIn(ch),
         AllIn(ch) \subseteq 1..Len(nd)
  PROVE  /\ Calls(nd, ch, Append(cx, Entry(h, method, before)))
         /\ ListsWithin(cx, Append(cx, Entry(h, method, before)), Null)
<1> DEFINE e == Entry(h, method, before)
           cx2 == Append(cx, e)
           n == Len(cx)
<1>0. cx \in Seq(Contexts(nd)) /\ n \in Nat
  BY DEF Calls
<1>1. e \in Contexts(nd) /\ e.list = <<>> /\ Len(e.list) = 0
      /\ e.handle = h /\ e.method = method /\ e.before = before /\ e.ending = FALSE
  BY DEF Entry, Contexts
<1>2. /\ cx2 \in Seq(Contexts(nd)) /\ Len(cx2) = n + 1 /\ cx2[n + 1] = e
      /\ \A c \in 1..n : cx2[c] = cx[c]
  BY <1>0, <1>1, AppendProperties
<1> HIDE DEF e, cx2
<1>3. \A c \in 1..n + 1 : c \in 1..n \/ c = n + 1
  BY <1>0
<1>4. \A c \in 1..Len(cx2) : \A i \in 1..Len(cx2[c].list) : c \in 1..n /\ cx2[c] = cx[c]
  BY <1>1, <1>2, <1>3
<1>5. ListsOK(nd, ch, cx2)
  BY <1>4 DEF Calls, ListsOK
<1>6. ListsApart(cx2)
  <2> SUFFICES ASSUME NEW c \in 1..Len(cx2), NEW d \in 1..Len(cx2),
                      NEW i \in 1..Len(cx2[c].list), NEW j \in 1..Len(cx2[d].list),
                      cx2[c].list[i] = cx2[d].list[j]
               PROVE  c = d /\ i = j
    BY DEF ListsApart
  <2>1. /\ c \in 1..Len(cx) /\ cx2[c] = cx[c]
        /\ d \in 1..Len(cx) /\ cx2[d] = cx[d]
    BY <1>4
  <2>2. ListsApart(cx)
    BY DEF Calls
  <2> QED BY ONLY <2>1, <2>2, i \in 1..Len(cx2[c].list), j \in 1..Len(cx2[d].list),
             cx2[c].list[i] = cx2[d].list[j] DEF ListsApart
<1>7. ListsWithin(cx, cx2, Null)
  BY <1>4 DEF ListsWithin
<1>8. ASSUME NEW c \in 1..Len(cx2), cx2[c].method PROVE SinceCall(nd, ch, cx2, c)
  <2>1. CASE c \in 1..n
    <3>1. SinceCall(nd, ch, cx, c) /\ cx2[c] = cx[c]
      BY <1>2, <1>8, <2>1 DEF Calls
    <3>2. \A d \in c..Len(cx2) : \A i \in 1..Len(cx2[d].list) :
             d \in c..n /\ cx2[d] = cx[d]
      BY <1>2, <1>4, <2>1
    <3>3. \A d \in c..n : d \in c..Len(cx2) /\ cx2[d] = cx[d]
      BY <1>0, <1>2, <2>1
    <3>4. \A d \in c..Len(cx2) : \A i \in 1..Len(cx2[d].list) :
             cx2[d].list[i] \notin cx2[c].before
      BY <3>1, <3>2 DEF SinceCall
    <3>5. ASSUME NEW m \in AllIn(ch) \ cx2[c].before, nd[m].origin # "block"
          PROVE  \E d \in c..Len(cx2) : \E i \in 1..Len(cx2[d].list) : cx2[d].list[i] = m
      <4>1. PICK d \in c..n : \E i \in 1..Len(cx[d].list) : cx[d].list[i] = m
        BY <3>1, <3>5 DEF SinceCall
      <4> QED BY <3>3, <4>1
    <3> QED BY <3>1, <3>4, <3>5 DEF SinceCall
  <2>2. CASE c = n + 1
    <3>1. cx2[c].before = AllIn(ch)
      BY <1>1, <1>2, <1>8, <2>2
    <3>2. \A d \in c..Len(cx2) : Len(cx2[d].list) = 0
      BY <1>0, <1>1, <1>2, <2>2
    <3> QED BY <3>1, <3>2 DEF SinceCall
  <2> QED BY <1>2, <1>3, <2>1, <2>2
<1>9. \A c \in 1..Len(cx2) : nd[cx2[c].handle].kind # "ALIAS"
  BY <1>1, <1>2, <1>3 DEF Calls
<1>10. \A c \in 1..Len(cx2) : cx2[c].ending => cx2[c].method
  BY <1>1, <1>2, <1>3 DEF Calls
<1>11. Calls(nd, ch, cx2)
  BY <1>2, <1>5, <1>6, <1>8, <1>9, <1>10 DEF Calls
<1> QED BY <1>7, <1>11 DEF cx2, e

\* No call ends, and what is new was created in a block or refused.
LEMMA CallsKept ==
  ASSUME NEW nd, NEW nd2, NEW ch, NEW ch2, NEW cx, Calls(nd, ch, cx), Extends(nd, nd2),
         AllIn(ch) \subseteq 1..Len(nd), AllIn(ch) \subseteq AllIn(ch2),
         \A n \in AllIn(ch2) \ AllIn(ch) : nd2[n].origin = "block"
  PROVE  Calls(nd2, ch2, cx)
<1>0. cx \in Seq(Contexts(nd)) /\ \A c \in 1..Len(cx) : cx[c] \in Contexts(nd)
  BY DEF Calls
<1>1. cx \in Seq(Contexts(nd2))
  BY <1>0, ContextsExtend, SeqMono
<1>2. \A n \in AllIn(ch) : nd2[n] = nd[n]
  BY DEF Extends
<1>3. \A c \in 1..Len(cx) : nd2[cx[c].handle].kind # "ALIAS"
  <2>1. \A c \in 1..Len(cx) : cx[c].handle \in 1..Len(nd)
    BY <1>0 DEF Contexts
  <2> QED BY <2>1 DEF Calls, Extends
<1>4. ListsOK(nd2, ch2, cx)
  BY <1>2 DEF Calls, ListsOK
<1>5. ASSUME NEW c \in 1..Len(cx), cx[c].method PROVE SinceCall(nd2, ch2, cx, c)
  <2>1. SinceCall(nd, ch, cx, c)
    BY <1>5 DEF Calls
  <2>2. ASSUME NEW n \in AllIn(ch2) \ cx[c].before
        PROVE  \/ nd2[n].origin = "block"
               \/ \E d \in c..Len(cx) : \E i \in 1..Len(cx[d].list) : cx[d].list[i] = n
    <3>1. CASE n \in AllIn(ch)
      BY <1>2, <2>1, <3>1 DEF SinceCall
    <3>2. CASE n \notin AllIn(ch)
      BY <3>2
    <3> QED BY <3>1, <3>2
  <2> QED BY <2>1, <2>2 DEF SinceCall
<1> QED BY <1>1, <1>3, <1>4, <1>5 DEF Calls

LEMMA TopChanges ==
  ASSUME NEW S, NEW cx \in Seq(S), cx # <<>>, NEW e \in S,
         NEW cx2, cx2 = [cx EXCEPT ![Len(cx)] = e]
  PROVE  /\ Len(cx) \in Nat /\ Len(cx) \in 1..Len(cx) /\ cx[Len(cx)] \in S
         /\ cx2 \in Seq(S) /\ Len(cx2) = Len(cx)
         /\ \A c \in 1..Len(cx) : cx2[c] = IF c = Len(cx) THEN e ELSE cx[c]
<1>0. Len(cx) \in Nat /\ Len(cx) \in 1..Len(cx) /\ DOMAIN cx = 1..Len(cx)
      /\ \A c \in 1..Len(cx) : cx[c] \in S
  BY EmptySeq, LenProperties
<1>1. cx2 \in [1..Len(cx) -> S]
  BY <1>0
<1>2. cx2 \in Seq(S) /\ Len(cx2) = Len(cx)
  BY ONLY <1>0, <1>1
<1> QED BY <1>0, <1>2

\* The entry of the method that runs when it links a node.
LinkedTo(top, n) == [top EXCEPT !.list = Append(@, n)]

LEMMA LinkEntry ==
  ASSUME NEW nd, NEW top \in Contexts(nd), NEW n \in 1..Len(nd)
  PROVE  /\ LinkedTo(top, n) \in Contexts(nd)
         /\ LinkedTo(top, n).handle = top.handle /\ LinkedTo(top, n).method = top.method
         /\ LinkedTo(top, n).before = top.before
         /\ Len(top.list) \in Nat
         /\ Len(LinkedTo(top, n).list) = Len(top.list) + 1
         /\ LinkedTo(top, n).list[Len(top.list) + 1] = n
         /\ \A i \in 1..Len(top.list) : LinkedTo(top, n).list[i] = top.list[i]
<1>1. /\ top = [handle |-> top.handle, method |-> top.method, list |-> top.list,
                ending |-> top.ending, before |-> top.before]
      /\ top.handle \in 1..Len(nd) /\ top.ending \in BOOLEAN
      /\ top.before \in SUBSET (1..Len(nd)) /\ top.list \in Seq(1..Len(nd))
  BY DEF Contexts
<1>2. LinkedTo(top, n) = [handle |-> top.handle, method |-> top.method,
                          list |-> Append(top.list, n), ending |-> top.ending,
                          before |-> top.before]
  <2>1. PICK h, m, l, e, b : top = [handle |-> h, method |-> m, list |-> l, ending |-> e,
                                    before |-> b]
    BY <1>1
  <2> QED BY <2>1, SMTT(30) DEF LinkedTo
<1>3. /\ Append(top.list, n) \in Seq(1..Len(nd)) /\ Len(top.list) \in Nat
      /\ Len(Append(top.list, n)) = Len(top.list) + 1
      /\ Append(top.list, n)[Len(top.list) + 1] = n
      /\ \A i \in 1..Len(top.list) : Append(top.list, n)[i] = top.list[i]
  BY <1>1, AppendProperties
<1> QED BY <1>1, <1>2, <1>3 DEF Contexts

LEMMA CallsLinked ==
  ASSUME NEW nd, NEW nd2, NEW ch, NEW ch2, NEW cx, Calls(nd, ch, cx), Extends(nd, nd2),
         AllIn(ch) \subseteq 1..Len(nd), NEW n \in 1..Len(nd2), n \notin 1..Len(nd),
         AllIn(ch2) = AllIn(ch) \cup {n}, nd2[n].origin = "method",
         cx # <<>>, cx[Len(cx)].method,
         NEW cx2 \in Seq(Contexts(nd2)), Len(cx2) = Len(cx),
         \A c \in 1..Len(cx) :
           cx2[c] = IF c = Len(cx) THEN LinkedTo(cx[Len(cx)], n) ELSE cx[c]
  PROVE  Calls(nd2, ch2, cx2) /\ ListsWithin(cx, cx2, n)
<1> DEFINE top == cx[Len(cx)]
           e == LinkedTo(top, n)
<1>0. cx \in Seq(Contexts(nd)) /\ \A c \in 1..Len(cx) : cx[c] \in Contexts(nd)
  BY DEF Calls
<1>1. cx \in Seq(Contexts(nd2)) /\ \A c \in 1..Len(cx) : cx[c] \in Contexts(nd2)
  <2>1. cx \in Seq(Contexts(nd2))
    BY <1>0, ContextsExtend, SeqMono
  <2> QED BY <2>1
<1>2. Len(cx) \in 1..Len(cx) /\ Len(cx) \in Nat
  BY <1>0, EmptySeq, LenProperties
<1>3. top \in Contexts(nd) /\ top \in Contexts(nd2) /\ Len(top.list) \in Nat
  <2>1. top \in Contexts(nd) /\ top \in Contexts(nd2) /\ top.method
    BY <1>0, <1>1, <1>2
  <2> QED BY <2>1, LinkEntry
<1>4. /\ e \in Contexts(nd2) /\ e.handle = top.handle /\ e.method = top.method
      /\ e.before = top.before /\ Len(e.list) = Len(top.list) + 1 /\ e.list[Len(top.list) + 1] = n
      /\ \A i \in 1..Len(top.list) : e.list[i] = top.list[i]
  <2> HIDE DEF top
  <2> QED BY ONLY <1>3, LinkEntry, n \in 1..Len(nd2)
<1> HIDE DEF e
<1>5. /\ cx2 \in Seq(Contexts(nd2)) /\ Len(cx2) = Len(cx)
      /\ \A c \in 1..Len(cx) : cx2[c] = IF c = Len(cx) THEN e ELSE cx[c]
  BY DEF e
<1>6. \A c \in 1..Len(cx) : /\ cx2[c].handle = cx[c].handle /\ cx2[c].method = cx[c].method
                           /\ cx2[c].before = cx[c].before
  BY <1>4, <1>5
<1>6a. \A c \in 1..Len(cx) : cx2[c].ending => cx2[c].method
  BY <1>4, <1>5 DEF Calls
<1>7. ASSUME NEW c \in 1..Len(cx), NEW i \in 1..Len(cx2[c].list)
      PROVE  \/ i \in 1..Len(cx[c].list) /\ cx2[c].list[i] = cx[c].list[i]
             \/ c = Len(cx) /\ i = Len(top.list) + 1 /\ cx2[c].list[i] = n
  <2>1. CASE c = Len(cx)
    <3>1. cx2[c] = e /\ i \in 1..Len(top.list) + 1
      BY <1>4, <1>5, <2>1
    <3>2. i \in 1..Len(top.list) \/ i = Len(top.list) + 1
      BY <1>3, <3>1, SMTT(30)
    <3> QED BY <1>4, <2>1, <3>1, <3>2
  <2>2. CASE c # Len(cx)
    BY <1>5, <2>2
  <2> QED BY <2>1, <2>2
<1>8. \A c \in 1..Len(cx) : \A i \in 1..Len(cx[c].list) :
         i \in 1..Len(cx2[c].list) /\ cx2[c].list[i] = cx[c].list[i]
  <2> SUFFICES ASSUME NEW c \in 1..Len(cx), NEW i \in 1..Len(cx[c].list)
               PROVE  i \in 1..Len(cx2[c].list) /\ cx2[c].list[i] = cx[c].list[i]
    OBVIOUS
  <2>1. CASE c = Len(cx)
    <3>1. cx2[c] = e /\ i \in 1..Len(top.list) /\ i \in 1..Len(top.list) + 1
      BY <1>3, <1>5, <2>1
    <3> QED BY <1>4, <2>1, <3>1
  <2>2. CASE c # Len(cx)
    BY <1>5, <2>2
  <2> QED BY <2>1, <2>2
<1>9. \A c \in 1..Len(cx) : \A i \in 1..Len(cx[c].list) :
         cx[c].list[i] \in AllIn(ch) /\ cx[c].list[i] # n /\ cx[c].method
         /\ nd[cx[c].list[i]].origin = "method"
  <2>1. n \notin AllIn(ch)
    OBVIOUS
  <2> QED BY <2>1 DEF Calls, ListsOK
<1>10. \A m \in AllIn(ch) : nd2[m] = nd[m]
  BY DEF Extends
<1> HIDE DEF top
<1>11. ListsOK(nd2, ch2, cx2)
  <2> SUFFICES ASSUME NEW c \in 1..Len(cx), NEW i \in 1..Len(cx2[c].list)
               PROVE  /\ cx2[c].method /\ cx2[c].list[i] \in AllIn(ch2)
                      /\ nd2[cx2[c].list[i]].origin = "method"
    BY <1>5 DEF ListsOK
  <2>1. CASE i \in 1..Len(cx[c].list) /\ cx2[c].list[i] = cx[c].list[i]
    <3>1. cx2[c].list[i] \in AllIn(ch) /\ cx[c].method /\ nd[cx2[c].list[i]].origin = "method"
      BY <1>9, <2>1, SMTT(30)
    <3>2. AllIn(ch) \subseteq AllIn(ch2)
      OBVIOUS
    <3> QED BY <1>6, <1>10, <3>1, <3>2
  <2>2. CASE c = Len(cx) /\ i = Len(top.list) + 1 /\ cx2[c].list[i] = n
    BY <1>6, <2>2
  <2> QED BY <1>7, <2>1, <2>2
<1>12. ListsApart(cx2)
  <2> SUFFICES ASSUME NEW c \in 1..Len(cx), NEW d \in 1..Len(cx),
                      NEW i \in 1..Len(cx2[c].list), NEW j \in 1..Len(cx2[d].list),
                      cx2[c].list[i] = cx2[d].list[j]
               PROVE  c = d /\ i = j
    BY <1>5 DEF ListsApart
  <2>1. \/ i \in 1..Len(cx[c].list) /\ cx2[c].list[i] = cx[c].list[i]
        \/ c = Len(cx) /\ i = Len(top.list) + 1 /\ cx2[c].list[i] = n
    BY <1>7
  <2>2. \/ j \in 1..Len(cx[d].list) /\ cx2[d].list[j] = cx[d].list[j]
        \/ d = Len(cx) /\ j = Len(top.list) + 1 /\ cx2[d].list[j] = n
    BY <1>7
  <2>3. CASE i \in 1..Len(cx[c].list) /\ j \in 1..Len(cx[d].list)
             /\ cx2[c].list[i] = cx[c].list[i] /\ cx2[d].list[j] = cx[d].list[j]
    <3>1. cx[c].list[i] = cx[d].list[j]
      BY <2>3
    <3>2. ListsApart(cx)
      BY DEF Calls
    <3> QED BY <2>3, <3>1, <3>2 DEF ListsApart
  <2>4. CASE ~(i \in 1..Len(cx[c].list) /\ cx2[c].list[i] = cx[c].list[i])
    <3>1. c = Len(cx) /\ i = Len(top.list) + 1 /\ cx2[c].list[i] = n
      BY <2>1, <2>4
    <3>2. ~(j \in 1..Len(cx[d].list) /\ cx2[d].list[j] = cx[d].list[j])
      BY <1>9, <3>1
    <3> QED BY <2>2, <3>1, <3>2
  <2>5. CASE ~(j \in 1..Len(cx[d].list) /\ cx2[d].list[j] = cx[d].list[j])
    <3>1. d = Len(cx) /\ j = Len(top.list) + 1 /\ cx2[d].list[j] = n
      BY <2>2, <2>5
    <3>2. ~(i \in 1..Len(cx[c].list) /\ cx2[c].list[i] = cx[c].list[i])
      BY <1>9, <3>1
    <3> QED BY <2>1, <3>1, <3>2
  <2> QED BY <2>3, <2>4, <2>5
<1>13. ASSUME NEW c \in 1..Len(cx2), cx2[c].method PROVE SinceCall(nd2, ch2, cx2, c)
  <2>1. SinceCall(nd, ch, cx, c) /\ c \in 1..Len(cx) /\ cx2[c].before = cx[c].before
    BY <1>5, <1>6, <1>13 DEF Calls
  <2>2. \A d \in c..Len(cx) : d \in 1..Len(cx)
    BY <2>1
  <2>3. ASSUME NEW d \in c..Len(cx), NEW i \in 1..Len(cx2[d].list)
        PROVE  cx2[d].list[i] \notin cx[c].before
    <3>1. CASE i \in 1..Len(cx[d].list) /\ cx2[d].list[i] = cx[d].list[i]
      BY <2>1, <3>1 DEF SinceCall
    <3>2. CASE cx2[d].list[i] = n
      BY <2>1, <3>2 DEF SinceCall
    <3> QED BY <1>7, <2>2, <3>1, <3>2
  <2>4. ASSUME NEW m \in AllIn(ch2) \ cx[c].before
        PROVE  \/ nd2[m].origin = "block"
               \/ \E d \in c..Len(cx) : \E i \in 1..Len(cx2[d].list) : cx2[d].list[i] = m
    <3>1. CASE m = n
      <4>1. Len(cx) \in c..Len(cx) /\ Len(top.list) + 1 \in 1..Len(cx2[Len(cx)].list)
            /\ cx2[Len(cx)].list[Len(top.list) + 1] = n
        BY <1>2, <1>3, <1>4, <1>5, <2>1, SMTT(30)
      <4> QED BY <3>1, <4>1
    <3>2. CASE m \in AllIn(ch)
      <4>1. \/ nd[m].origin = "block"
            \/ \E d \in c..Len(cx) : \E i \in 1..Len(cx[d].list) : cx[d].list[i] = m
        BY <2>1, <3>2 DEF SinceCall
      <4>2. CASE nd[m].origin = "block"
        BY <1>10, <3>2, <4>2
      <4>3. CASE \E d \in c..Len(cx) : \E i \in 1..Len(cx[d].list) : cx[d].list[i] = m
        <5>1. PICK d \in c..Len(cx) : \E i \in 1..Len(cx[d].list) : cx[d].list[i] = m
          BY <4>3
        <5>2. PICK i \in 1..Len(cx[d].list) : cx[d].list[i] = m
          BY <5>1
        <5>3. i \in 1..Len(cx2[d].list) /\ cx2[d].list[i] = m
          BY <1>8, <2>2, <5>2
        <5> QED BY <5>3
      <4> QED BY <4>1, <4>2, <4>3
    <3> QED BY <3>1, <3>2
  <2>5. cx[c].before \subseteq AllIn(ch2)
    BY <2>1 DEF SinceCall
  <2> QED BY <1>5, <2>1, <2>3, <2>4, <2>5, ZenonT(30) DEF SinceCall
<1>14. \A c \in 1..Len(cx2) : nd2[cx2[c].handle].kind # "ALIAS"
  <2>1. \A c \in 1..Len(cx) : cx[c].handle \in 1..Len(nd)
    BY <1>0 DEF Contexts
  <2> QED BY <1>5, <1>6, <2>1 DEF Calls, Extends
<1>15. ListsWithin(cx, cx2, n)
  BY <1>5, <1>7 DEF ListsWithin
<1> QED BY <1>5, <1>6a, <1>11, <1>12, <1>13, <1>14, <1>15 DEF Calls

\* The method that runs has installed a node, and links it.
LEMMA CallsLink ==
  ASSUME NEW nd, NEW nd2, NEW ch, NEW ch2, NEW cx, Calls(nd, ch, cx), Extends(nd, nd2),
         AllIn(ch) \subseteq 1..Len(nd), NEW n \in 1..Len(nd2), n \notin 1..Len(nd),
         AllIn(ch2) = AllIn(ch) \cup {n}, nd2[n].origin = "method",
         cx # <<>>, cx[Len(cx)].method,
         NEW cx2, cx2 = [cx EXCEPT ![Len(cx)] = LinkedTo(cx[Len(cx)], n)]
  PROVE  Calls(nd2, ch2, cx2) /\ ListsWithin(cx, cx2, n)
<1>0. cx \in Seq(Contexts(nd)) /\ cx \in Seq(Contexts(nd2)) /\ cx # <<>>
  <2>1. cx \in Seq(Contexts(nd))
    BY DEF Calls
  <2> QED BY <2>1, ContextsExtend, SeqMono
<1>1. cx[Len(cx)] \in Contexts(nd2) /\ cx[Len(cx)].method
  BY <1>0, EmptySeq, LenProperties
<1>2. LinkedTo(cx[Len(cx)], n) \in Contexts(nd2)
  BY <1>1, LinkEntry
<1>3. /\ cx2 \in Seq(Contexts(nd2)) /\ Len(cx2) = Len(cx)
      /\ \A c \in 1..Len(cx) :
           cx2[c] = IF c = Len(cx) THEN LinkedTo(cx[Len(cx)], n) ELSE cx[c]
  BY <1>0, <1>2, TopChanges
<1> QED BY ONLY <1>3, CallsLinked, Calls(nd, ch, cx), Extends(nd, nd2), cx # <<>>,
        AllIn(ch) \subseteq 1..Len(nd), n \in 1..Len(nd2), n \notin 1..Len(nd),
        AllIn(ch2) = AllIn(ch) \cup {n}, nd2[n].origin = "method", cx[Len(cx)].method

\* A context whose list is empty ends.
LEMMA CallsPop ==
  ASSUME NEW nd, NEW ch, NEW cx, Calls(nd, ch, cx), cx # <<>>, Len(cx[Len(cx)].list) = 0
  PROVE  /\ Calls(nd, ch, SubSeq(cx, 1, Len(cx) - 1))
         /\ ListsWithin(cx, SubSeq(cx, 1, Len(cx) - 1), Null)
<1> DEFINE cx2 == SubSeq(cx, 1, Len(cx) - 1)
<1>0. cx \in Seq(Contexts(nd)) /\ Len(cx) \in Nat /\ Len(cx) >= 1
  <2>1. cx \in Seq(Contexts(nd))
    BY DEF Calls
  <2> QED BY <2>1, EmptySeq, LenProperties
<1>1. /\ cx2 \in Seq(Contexts(nd)) /\ Len(cx2) = Len(cx) - 1
      /\ \A c \in 1..Len(cx2) : cx2[c] = cx[c] /\ c \in 1..Len(cx)
  <2>1. cx2 \in Seq(Contexts(nd)) /\ Len(cx2) = Len(cx) - 1
    <3>1. \A c \in 1..Len(cx) - 1 : cx[c] \in Contexts(nd)
      BY <1>0
    <3> DEFINE n == Len(cx) - 1
    <3>2. n \in Int /\ n >= 0 /\ \A c \in 1..n : cx[c] \in Contexts(nd)
      BY <1>0, <3>1
    <3>3. SubSeq(cx, 1, n) \in Seq(Contexts(nd)) /\ Len(SubSeq(cx, 1, n)) = n
      <4> HIDE DEF n
      <4>1. /\ SubSeq(cx, 1, n) \in Seq(Contexts(nd))
            /\ Len(SubSeq(cx, 1, n)) = IF 1 <= n THEN n - 1 + 1 ELSE 0
        BY ONLY <3>2, SubSeqProperties
      <4> QED BY ONLY <3>2, <4>1
    <3> QED BY <3>3
  <2>2. \A c \in 1..Len(cx) - 1 : cx2[c] = cx[c] /\ c \in 1..Len(cx)
    BY <1>0
  <2> QED BY <2>1, <2>2
<1> HIDE DEF cx2
<1>2. \A c \in 1..Len(cx) : \A i \in 1..Len(cx[c].list) : c \in 1..Len(cx2)
  BY <1>0, <1>1
<1>3. ListsOK(nd, ch, cx2)
  BY <1>1 DEF Calls, ListsOK
<1>4. ListsApart(cx2)
  <2> SUFFICES ASSUME NEW c \in 1..Len(cx2), NEW d \in 1..Len(cx2),
                      NEW i \in 1..Len(cx2[c].list), NEW j \in 1..Len(cx2[d].list),
                      cx2[c].list[i] = cx2[d].list[j]
               PROVE  c = d /\ i = j
    BY DEF ListsApart
  <2>1. /\ c \in 1..Len(cx) /\ cx2[c] = cx[c]
        /\ d \in 1..Len(cx) /\ cx2[d] = cx[d]
    BY <1>1
  <2>2. ListsApart(cx)
    BY DEF Calls
  <2> QED BY ONLY <2>1, <2>2, i \in 1..Len(cx2[c].list), j \in 1..Len(cx2[d].list),
             cx2[c].list[i] = cx2[d].list[j] DEF ListsApart
<1>5. ASSUME NEW c \in 1..Len(cx2), cx2[c].method PROVE SinceCall(nd, ch, cx2, c)
  <2>1. SinceCall(nd, ch, cx, c) /\ cx2[c] = cx[c]
    BY <1>1, <1>5 DEF Calls
  <2>2. \A d \in c..Len(cx2) : d \in c..Len(cx) /\ cx2[d] = cx[d]
    BY <1>0, <1>1
  <2>3. \A d \in c..Len(cx) : \A i \in 1..Len(cx[d].list) : d \in c..Len(cx2)
    BY <1>1, <1>2
  <2>4. ASSUME NEW n \in AllIn(ch) \ cx[c].before, nd[n].origin # "block"
        PROVE  \E d \in c..Len(cx2) : \E i \in 1..Len(cx2[d].list) : cx2[d].list[i] = n
    <3>1. PICK d \in c..Len(cx) : \E i \in 1..Len(cx[d].list) : cx[d].list[i] = n
      BY <2>1, <2>4 DEF SinceCall
    <3> QED BY <2>2, <2>3, <3>1
  <2> QED BY <2>1, <2>2, <2>4 DEF SinceCall
<1>6. \A c \in 1..Len(cx2) : nd[cx2[c].handle].kind # "ALIAS"
  BY <1>1 DEF Calls
<1>7. \A c \in 1..Len(cx2) : cx2[c].ending => cx2[c].method
  BY <1>1 DEF Calls
<1>8. ListsWithin(cx, cx2, Null)
  BY <1>1 DEF ListsWithin
<1>9. Calls(nd, ch, cx2)
  BY <1>1, <1>3, <1>4, <1>5, <1>6, <1>7 DEF Calls
<1> QED BY <1>8, <1>9 DEF cx2

\* A method begins to end.
LEMMA CallsEnding ==
  ASSUME NEW nd, NEW ch, NEW cx, Calls(nd, ch, cx), cx # <<>>, cx[Len(cx)].method,
         NEW cx2, cx2 = [cx EXCEPT ![Len(cx)] = [cx[Len(cx)] EXCEPT !.ending = TRUE]]
  PROVE  Calls(nd, ch, cx2) /\ ListsWithin(cx, cx2, Null)
<1> DEFINE top == cx[Len(cx)]
           e == [top EXCEPT !.ending = TRUE]
<1>0. cx \in Seq(Contexts(nd)) /\ \A c \in 1..Len(cx) : cx[c] \in Contexts(nd)
  BY DEF Calls
<1>1. top \in Contexts(nd) /\ Len(cx) \in 1..Len(cx)
  BY <1>0, EmptySeq, LenProperties
<1>2. e \in Contexts(nd) /\ e.handle = top.handle /\ e.method = top.method
      /\ e.before = top.before /\ e.list = top.list
  BY <1>1 DEF Contexts
<1> HIDE DEF e
<1>3. /\ cx2 \in Seq(Contexts(nd)) /\ Len(cx2) = Len(cx)
      /\ \A c \in 1..Len(cx) : cx2[c] = IF c = Len(cx) THEN e ELSE cx[c]
  <2>1. cx2 = [cx EXCEPT ![Len(cx)] = e]
    BY DEF e
  <2> QED BY ONLY <1>0, <1>2, <2>1, cx # <<>>, TopChanges
<1>4. \A c \in 1..Len(cx) : /\ cx2[c].handle = cx[c].handle /\ cx2[c].method = cx[c].method
                           /\ cx2[c].before = cx[c].before /\ cx2[c].list = cx[c].list
  BY ONLY <1>2, <1>3
<1>5. \A c \in 1..Len(cx) : cx2[c].ending => cx2[c].method
  BY ONLY <1>2, <1>3, Calls(nd, ch, cx), cx[Len(cx)].method DEF Calls
<1>6. ListsOK(nd, ch, cx2)
  BY ONLY <1>3, <1>4, Calls(nd, ch, cx) DEF Calls, ListsOK
<1>7. ListsApart(cx2)
  <2>1. ListsApart(cx)
    BY ONLY Calls(nd, ch, cx) DEF Calls
  <2> QED BY ONLY <1>3, <1>4, <2>1, SMTT(30) DEF ListsApart
<1>8. ASSUME NEW c \in 1..Len(cx2), cx2[c].method PROVE SinceCall(nd, ch, cx2, c)
  <2>1. SinceCall(nd, ch, cx, c) /\ c \in 1..Len(cx)
    BY ONLY <1>3, <1>4, <1>8, Calls(nd, ch, cx) DEF Calls
  <2>2. \A d \in c..Len(cx) : d \in 1..Len(cx)
    BY <2>1
  <2>3. /\ cx2[c].before = cx[c].before /\ Len(cx2) = Len(cx)
        /\ \A d \in c..Len(cx) : cx2[d].list = cx[d].list
    BY ONLY <1>3, <1>4, <2>1, <2>2
  <2>4. \A d \in c..Len(cx2) : \A i \in 1..Len(cx2[d].list) :
           cx2[d].list[i] \notin cx2[c].before
    BY ONLY <2>1, <2>3 DEF SinceCall
  <2>5. \A m \in AllIn(ch) \ cx2[c].before :
           \/ nd[m].origin = "block"
           \/ \E d \in c..Len(cx2) : \E i \in 1..Len(cx2[d].list) : cx2[d].list[i] = m
    BY ONLY <2>1, <2>3 DEF SinceCall
  <2> QED BY ONLY <2>1, <2>3, <2>4, <2>5 DEF SinceCall
<1>9. \A c \in 1..Len(cx2) : nd[cx2[c].handle].kind # "ALIAS"
  BY ONLY <1>3, <1>4, Calls(nd, ch, cx) DEF Calls
<1>10. ListsWithin(cx, cx2, Null)
  BY ONLY <1>3, <1>4 DEF ListsWithin
<1>11. Calls(nd, ch, cx2)
  BY ONLY <1>3, <1>5, <1>6, <1>7, <1>8, <1>9 DEF Calls
<1> QED BY <1>10, <1>11

LEMMA TailPlaces ==
  ASSUME NEW S, NEW s \in Seq(S), Len(s) >= 1
  PROVE  /\ Tail(s) \in Seq(S) /\ Len(Tail(s)) = Len(s) - 1
         /\ \A i \in 1..Len(Tail(s)) : i + 1 \in 1..Len(s) /\ Tail(s)[i] = s[i + 1]
         /\ \A i \in 1..Len(s) :
              i # 1 => i - 1 \in 1..Len(Tail(s)) /\ Tail(s)[i - 1] = s[i]
<1>1. Len(s) \in Nat /\ s # <<>>
  BY EmptySeq, LenProperties
<1>2. /\ Tail(s) \in Seq(S) /\ Len(Tail(s)) = Len(s) - 1
      /\ \A i \in 1..Len(Tail(s)) : Tail(s)[i] = s[i + 1]
  BY <1>1, HeadTailProperties
<1>3. ASSUME NEW i \in 1..Len(s), i # 1
      PROVE  i - 1 \in 1..Len(Tail(s)) /\ Tail(s)[i - 1] = s[i]
  <2>1. i - 1 \in 1..Len(Tail(s)) /\ (i - 1) + 1 = i
    BY <1>1, <1>2, <1>3
  <2> QED BY <1>2, <2>1
<1>4. \A i \in 1..Len(Tail(s)) : i + 1 \in 1..Len(s)
  BY <1>1, <1>2
<1> QED BY <1>2, <1>3, <1>4

\* The entry of the method that ends when it unlinks the first node.
Unlinked(top) == [top EXCEPT !.list = Tail(@)]

LEMMA UnlinkEntry ==
  ASSUME NEW nd, NEW top \in Contexts(nd), Len(top.list) >= 1
  PROVE  /\ Unlinked(top) \in Contexts(nd)
         /\ Unlinked(top).handle = top.handle /\ Unlinked(top).method = top.method
         /\ Unlinked(top).before = top.before /\ Unlinked(top).ending = top.ending
         /\ Unlinked(top).list = Tail(top.list)
<1>1. /\ top = [handle |-> top.handle, method |-> top.method, list |-> top.list,
                ending |-> top.ending, before |-> top.before]
      /\ top.handle \in 1..Len(nd) /\ top.ending \in BOOLEAN /\ top.method \in BOOLEAN
      /\ top.before \in SUBSET (1..Len(nd)) /\ top.list \in Seq(1..Len(nd))
  BY DEF Contexts
<1>2. Unlinked(top) = [handle |-> top.handle, method |-> top.method,
                       list |-> Tail(top.list), ending |-> top.ending,
                       before |-> top.before]
  <2>1. PICK h, m, l, e, b : top = [handle |-> h, method |-> m, list |-> l, ending |-> e,
                                    before |-> b]
    BY <1>1
  <2> QED BY <2>1, SMTT(30) DEF Unlinked
<1>3. Tail(top.list) \in Seq(1..Len(nd))
  BY <1>1, TailPlaces
<1> QED BY <1>1, <1>2, <1>3 DEF Contexts

\* The first node of the list of a method that ends is uninstalled.
LEMMA CallsUninstall ==
  ASSUME NEW nd, NEW ch, NEW ch2, NEW cx, Calls(nd, ch, cx), cx # <<>>,
         cx[Len(cx)].list # <<>>, NEW n, n = cx[Len(cx)].list[1],
         AllIn(ch2) = AllIn(ch) \ {n},
         NEW cx2, cx2 = [cx EXCEPT ![Len(cx)] =
                           Unlinked(cx[Len(cx)])]
  PROVE  Calls(nd, ch2, cx2) /\ ListsWithin(cx, cx2, Null)
<1> DEFINE top == cx[Len(cx)]
           e == Unlinked(top)
<1>0. cx \in Seq(Contexts(nd)) /\ \A c \in 1..Len(cx) : cx[c] \in Contexts(nd)
  BY DEF Calls
<1>1. top \in Contexts(nd) /\ Len(cx) \in 1..Len(cx)
  BY <1>0, EmptySeq, LenProperties
<1>2. top.list \in Seq(1..Len(nd)) /\ Len(top.list) \in Nat /\ Len(top.list) >= 1
  <2>1. top.list \in Seq(1..Len(nd))
    BY <1>1 DEF Contexts
  <2> QED BY <2>1, EmptySeq, LenProperties
<1>3. /\ Len(Tail(top.list)) = Len(top.list) - 1
      /\ \A i \in 1..Len(Tail(top.list)) :
           i + 1 \in 1..Len(top.list) /\ Tail(top.list)[i] = top.list[i + 1]
      /\ \A i \in 1..Len(top.list) :
           i # 1 => i - 1 \in 1..Len(Tail(top.list)) /\ Tail(top.list)[i - 1] = top.list[i]
  <2> HIDE DEF top
  <2> QED BY ONLY <1>2, TailPlaces
<1>4. /\ e \in Contexts(nd) /\ e.handle = top.handle /\ e.method = top.method
      /\ e.before = top.before /\ e.ending = top.ending /\ e.list = Tail(top.list)
  <2> HIDE DEF top
  <2> QED BY ONLY <1>1, <1>2, UnlinkEntry
<1> HIDE DEF e
<1>5. /\ cx2 \in Seq(Contexts(nd)) /\ Len(cx2) = Len(cx)
      /\ \A c \in 1..Len(cx) : cx2[c] = IF c = Len(cx) THEN e ELSE cx[c]
  <2>1. cx2 = [cx EXCEPT ![Len(cx)] = e]
    BY DEF e
  <2> QED BY ONLY <1>0, <1>4, <2>1, cx # <<>>, TopChanges
<1>6. \A c \in 1..Len(cx) : /\ cx2[c].handle = cx[c].handle /\ cx2[c].method = cx[c].method
                           /\ cx2[c].before = cx[c].before /\ cx2[c].ending = cx[c].ending
  BY ONLY <1>4, <1>5
<1> DEFINE Old(c, i) == IF c = Len(cx) THEN i + 1 ELSE i
           New(c, i) == IF c = Len(cx) THEN i - 1 ELSE i
<1>7. ASSUME NEW c \in 1..Len(cx), NEW i \in 1..Len(cx2[c].list)
      PROVE  Old(c, i) \in 1..Len(cx[c].list) /\ cx2[c].list[i] = cx[c].list[Old(c, i)]
  <2>1. CASE c = Len(cx)
    <3>1. cx2[c].list = Tail(top.list) /\ cx[c].list = top.list
      BY ONLY <1>4, <1>5, <2>1
    <3> QED BY ONLY <1>3, <1>7, <2>1, <3>1
  <2>2. CASE c # Len(cx)
    BY ONLY <1>5, <1>7, <2>2
  <2> QED BY <2>1, <2>2
<1>8. ASSUME NEW c \in 1..Len(cx), NEW i \in 1..Len(cx[c].list), cx[c].list[i] # n
      PROVE  New(c, i) \in 1..Len(cx2[c].list) /\ cx2[c].list[New(c, i)] = cx[c].list[i]
  <2>1. CASE c = Len(cx)
    <3>1. cx2[c].list = Tail(top.list) /\ cx[c].list = top.list
      BY ONLY <1>4, <1>5, <2>1
    <3>2. i # 1
      BY <1>8, <2>1
    <3> QED BY ONLY <1>3, <1>8, <2>1, <3>1, <3>2
  <2>2. CASE c # Len(cx)
    BY ONLY <1>5, <1>8, <2>2
  <2> QED BY <2>1, <2>2
<1>9. /\ ListsApart(cx) /\ ListsOK(nd, ch, cx) /\ n \in AllIn(ch) /\ Len(cx) \in Nat
      /\ 1 \in 1..Len(cx[Len(cx)].list)
  <2>1. 1 \in 1..Len(top.list)
    BY <1>2
  <2> QED BY <1>1, <2>1 DEF Calls, ListsOK
<1>10. ASSUME NEW c \in 1..Len(cx), NEW i \in 1..Len(cx2[c].list)
       PROVE  cx2[c].list[i] # n
  <2> SUFFICES ASSUME cx2[c].list[i] = n PROVE FALSE
    OBVIOUS
  <2>1. Old(c, i) \in 1..Len(cx[c].list) /\ cx[c].list[Old(c, i)] = cx[Len(cx)].list[1]
    BY <1>7
  <2> HIDE DEF Old
  <2>2. c = Len(cx) /\ Old(c, i) = 1
    BY ONLY <1>1, <1>9, <2>1 DEF ListsApart
  <2> QED BY <2>2 DEF Old
<1>11. ListsOK(nd, ch2, cx2)
  <2>1. ASSUME NEW c \in 1..Len(cx), NEW i \in 1..Len(cx2[c].list)
        PROVE  /\ cx2[c].method /\ cx2[c].list[i] \in AllIn(ch2)
               /\ nd[cx2[c].list[i]].origin = "method"
    <3>1. Old(c, i) \in 1..Len(cx[c].list) /\ cx2[c].list[i] = cx[c].list[Old(c, i)]
      BY <1>7
    <3> HIDE DEF Old
    <3>2. /\ cx[c].method /\ cx[c].list[Old(c, i)] \in AllIn(ch)
          /\ nd[cx[c].list[Old(c, i)]].origin = "method"
      BY ONLY <1>9, <3>1, c \in 1..Len(cx) DEF ListsOK
    <3>3. cx2[c].list[i] # n
      BY <1>10
    <3> QED BY ONLY <1>6, <3>1, <3>2, <3>3, c \in 1..Len(cx), AllIn(ch2) = AllIn(ch) \ {n}
  <2> QED BY ONLY <1>5, <2>1 DEF ListsOK
<1>12. ListsApart(cx2)
  <2>1. ASSUME NEW c \in 1..Len(cx), NEW d \in 1..Len(cx),
               NEW i \in 1..Len(cx2[c].list), NEW j \in 1..Len(cx2[d].list),
               cx2[c].list[i] = cx2[d].list[j]
        PROVE  c = d /\ i = j
    <3>1. Old(c, i) \in 1..Len(cx[c].list) /\ cx2[c].list[i] = cx[c].list[Old(c, i)]
      BY <1>7
    <3>2. Old(d, j) \in 1..Len(cx[d].list) /\ cx2[d].list[j] = cx[d].list[Old(d, j)]
      BY <1>7
    <3> HIDE DEF Old
    <3>3. cx[c].list[Old(c, i)] = cx[d].list[Old(d, j)]
      BY ONLY <3>1, <3>2, <2>1
    <3> DEFINE oi == Old(c, i) oj == Old(d, j)
    <3>5. /\ oi \in 1..Len(cx[c].list) /\ oj \in 1..Len(cx[d].list)
          /\ cx[c].list[oi] = cx[d].list[oj]
      BY ONLY <3>1, <3>2, <3>3
    <3> HIDE DEF oi, oj
    <3>6. c = d /\ oi = oj
      BY ONLY <1>9, <3>5, c \in 1..Len(cx), d \in 1..Len(cx), ZenonT(30) DEF ListsApart
    <3>4. c = d /\ Old(c, i) = Old(d, j)
      BY ONLY <3>6 DEF oi, oj
    <3> QED BY ONLY <3>4, <2>1 DEF Old
  <2> QED BY ONLY <1>5, <2>1 DEF ListsApart
<1>13. ASSUME NEW c \in 1..Len(cx2), cx2[c].method PROVE SinceCall(nd, ch2, cx2, c)
  <2>1. SinceCall(nd, ch, cx, c) /\ c \in 1..Len(cx) /\ cx2[c].before = cx[c].before
    BY ONLY <1>5, <1>6, <1>13, Calls(nd, ch, cx) DEF Calls
  <2>2. \A d \in c..Len(cx) : d \in 1..Len(cx)
    BY <2>1
  <2>3. n \notin cx[c].before
    <3>1. Len(cx) \in c..Len(cx)
      BY <1>9, <2>1
    <3> QED BY <1>9, <2>1, <3>1 DEF SinceCall
  <2>4. ASSUME NEW d \in c..Len(cx), NEW i \in 1..Len(cx2[d].list)
        PROVE  cx2[d].list[i] \notin cx[c].before
    <3>1. Old(d, i) \in 1..Len(cx[d].list) /\ cx2[d].list[i] = cx[d].list[Old(d, i)]
      BY <1>7, <2>2
    <3> HIDE DEF Old
    <3> QED BY ONLY <2>1, <2>4, <3>1 DEF SinceCall
  <2>5. ASSUME NEW m \in AllIn(ch2) \ cx[c].before, nd[m].origin # "block"
        PROVE  \E d \in c..Len(cx) : \E i \in 1..Len(cx2[d].list) : cx2[d].list[i] = m
    <3>1. m \in AllIn(ch) \ cx[c].before /\ m # n
      BY ONLY <2>5, AllIn(ch2) = AllIn(ch) \ {n}
    <3>2. PICK d \in c..Len(cx) : \E i \in 1..Len(cx[d].list) : cx[d].list[i] = m
      BY ONLY <2>1, <2>5, <3>1 DEF SinceCall
    <3>3. PICK i \in 1..Len(cx[d].list) : cx[d].list[i] = m
      BY <3>2
    <3>4. New(d, i) \in 1..Len(cx2[d].list) /\ cx2[d].list[New(d, i)] = m
      BY <1>8, <2>2, <3>1, <3>3
    <3> HIDE DEF New
    <3> QED BY ONLY <3>4
  <2>6. cx[c].before \subseteq AllIn(ch2)
    BY <2>1, <2>3 DEF SinceCall
  <2> QED BY ONLY <1>5, <2>1, <2>4, <2>5, <2>6 DEF SinceCall
<1>14. \A c \in 1..Len(cx2) : nd[cx2[c].handle].kind # "ALIAS"
  BY ONLY <1>5, <1>6, Calls(nd, ch, cx) DEF Calls
<1>15. \A c \in 1..Len(cx2) : cx2[c].ending => cx2[c].method
  BY ONLY <1>5, <1>6, Calls(nd, ch, cx) DEF Calls
<1>16. ListsWithin(cx, cx2, Null)
  <2>1. ASSUME NEW c \in 1..Len(cx), NEW i \in 1..Len(cx2[c].list)
        PROVE  \E j \in 1..Len(cx[c].list) : cx[c].list[j] = cx2[c].list[i]
    <3>1. Old(c, i) \in 1..Len(cx[c].list) /\ cx2[c].list[i] = cx[c].list[Old(c, i)]
      BY <1>7
    <3> HIDE DEF Old
    <3> QED BY ONLY <3>1
  <2> QED BY ONLY <1>5, <2>1 DEF ListsWithin
<1>17. Calls(nd, ch2, cx2)
  BY ONLY <1>5, <1>11, <1>12, <1>13, <1>14, <1>15 DEF Calls
<1> QED BY <1>16, <1>17

(***************************************************************************)
(* The terms of AML.                                                       *)
(***************************************************************************)
LEMMA InstalledIs ==
  ASSUME TreeOK(node, children)
  PROVE  /\ Nodes = 1..Len(node) /\ Len(node) \in Nat /\ Len(node) >= 1
         /\ Installed = AllIn(children)
         /\ \A n \in AllIn(children) : n \in 2..Len(node)
         /\ AllIn(children) \subseteq 1..Len(node)
<1>1. Nodes = 1..Len(node) /\ Len(node) \in Nat /\ Len(node) >= 1
  BY LenProperties DEF TreeOK, NodesOK, Nodes
<1>2. children = [p \in 1..Len(node) |-> children[p]]
  BY DEF TreeOK
<1>3. DOMAIN children = Nodes
  BY ONLY <1>1, <1>2
<1>4. Installed = AllIn(children)
  BY <1>3 DEF Installed, AllIn
<1>5. \A n \in AllIn(children) : n \in 2..Len(node)
  BY InstalledWhere
<1> QED BY <1>1, <1>4, <1>5

\* The context that runs.
LEMMA TopType ==
  ASSUME IInv, ctx # <<>>
  PROVE  /\ Top \in Contexts(node) /\ Len(ctx) \in 1..Len(ctx) /\ Len(ctx) \in Nat
         /\ Top.handle \in 1..Len(node) /\ node[Top.handle].kind # "ALIAS"
         /\ Top.list \in Seq(1..Len(node))
         /\ Top.method \in BOOLEAN /\ Top.ending \in BOOLEAN
         /\ Top.ending => Top.method
<1>1. ctx \in Seq(Contexts(node))
  BY DEF IInv, Calls
<1>2. Top \in Contexts(node) /\ Len(ctx) \in 1..Len(ctx) /\ Len(ctx) \in Nat
  BY <1>1, EmptySeq, LenProperties DEF Top
<1>3. Top.handle \in 1..Len(node) /\ Top.list \in Seq(1..Len(node))
      /\ Top.method \in BOOLEAN /\ Top.ending \in BOOLEAN
  BY <1>2 DEF Contexts
<1> QED BY <1>2, <1>3 DEF IInv, Calls, Top

\* The node of a term.
Created(term, origin) ==
    NewNode(LastOf(term.path), term.kind, ParentOf(term), AliasOf(term), origin)

LEMMA CreateType ==
  ASSUME IInv, NEW term \in Terms, NEW origin \in Origins, Create(term, origin)
  PROVE  /\ Created(term, origin) \in NodeRecords
         /\ Created(term, origin).name = LastOf(term.path)
         /\ Created(term, origin).name \in Names
         /\ Created(term, origin).kind = term.kind
         /\ Created(term, origin).origin = origin
         /\ Created(term, origin).parent = ParentOf(term)
         /\ Created(term, origin).parent \in 1..Len(node)
         /\ Created(term, origin).kind = "ALIAS" =>
              /\ Created(term, origin).target \in 1..Len(node)
              /\ node[Created(term, origin).target].kind # "ALIAS"
         /\ node' = Append(node, Created(term, origin))
         /\ array' = Append(array, Len(node) + 1)
         /\ walk' = walk /\ status' = status /\ ctx # <<>>
<1>0. TreeOK(node, children) /\ ctx # <<>>
  BY DEF IInv, World, Create, Executing
<1>1. Top.handle \in 1..Len(node) /\ Nodes = 1..Len(node) /\ Len(node) \in Nat
  BY <1>0, TopType, InstalledIs
<1>2. term.kind \in {"DEVICE", "METHOD", "NAME", "ALIAS"} /\ term.path \in Paths
      /\ term.target \in Paths /\ term.path.segments # <<>>
  BY TermsAssumption DEF Create
<1>3. LastOf(term.path) \in Names
  <2>1. term.path.segments \in Seq(Names)
    BY <1>2 DEF Paths
  <2> QED BY <1>2, <2>1, EmptySeq, LenProperties DEF LastOf
<1>4. ParentOf(term) \in 1..Len(node)
  BY <1>1 DEF Create
<1>5. CASE term.kind = "ALIAS"
  <2>1. AliasOf(term) = Resolve(Top.handle, term.target) /\ AliasOf(term) \in 1..Len(node)
    BY <1>1, <1>5 DEF AliasOf, Create
  <2>2. AliasOf(term) # Null
    BY <1>1, <2>1 DEF Null
  <2>3. node[AliasOf(term)].kind # "ALIAS"
    BY <1>0, <1>1, <1>2, <2>1, <2>2, ResolveType
  <2>4. Created(term, origin) \in NodeRecords
    BY <1>1, <1>2, <1>3, <1>4, <2>1 DEF Created, NewNode, NodeRecords, Kinds, Pointers
  <2> QED BY <1>0, <1>2, <1>3, <1>4, <2>1, <2>3, <2>4 DEF Created, NewNode, Create
<1>6. CASE term.kind # "ALIAS"
  <2>1. AliasOf(term) = Null
    BY <1>6 DEF AliasOf
  <2>2. Created(term, origin) \in NodeRecords
    BY <1>1, <1>2, <1>3, <1>4, <2>1 DEF Created, NewNode, NodeRecords, Kinds, Pointers, Null
  <2> QED BY <1>0, <1>2, <1>3, <1>4, <1>6, <2>1, <2>2 DEF Created, NewNode, Create
<1> QED BY <1>5, <1>6

LEMMA WithinItself == ASSUME NEW cx, NEW new PROVE ListsWithin(cx, cx, new)
BY DEF ListsWithin

LEMMA WithinEmpty == ASSUME NEW cx, NEW new PROVE ListsWithin(cx, <<>>, new)
BY DEF ListsWithin

\* The context after a term has linked its node.
AfterLink(n) == WithTop(Linked(n))

LEMMA LinkStep ==
  ASSUME IInv, NEW nd2, NEW ch2, Extends(node, nd2), Len(nd2) = Len(node) + 1,
         AllIn(ch2) = AllIn(children) \cup {Len(node) + 1}, ctx # <<>>,
         nd2[Len(node) + 1].origin = Owner
  PROVE  /\ Calls(nd2, ch2, AfterLink(Len(node) + 1))
         /\ ListsWithin(ctx, AfterLink(Len(node) + 1), Len(node) + 1)
<1> DEFINE n == Len(node) + 1
<1>0. TreeOK(node, children) /\ Calls(node, children, ctx)
  BY DEF IInv, World
<1>1. /\ AllIn(children) \subseteq 1..Len(node) /\ n \notin 1..Len(node)
      /\ n \in 1..Len(nd2) /\ AllIn(children) \subseteq AllIn(ch2)
  BY <1>0, InstalledIs
<1>2. CASE Top.method
  <2>1. AfterLink(n) = [ctx EXCEPT ![Len(ctx)] = LinkedTo(ctx[Len(ctx)], n)]
    BY <1>2 DEF AfterLink, WithTop, Linked, LinkedTo, Top
  <2>2. nd2[n].origin = "method" /\ ctx[Len(ctx)].method
    BY <1>2 DEF Owner, Top
  <2> HIDE DEF n, AfterLink
  <2> QED BY <1>0, <1>1, <2>1, <2>2, CallsLink DEF n
<1>3. CASE ~Top.method
  <2>1. AfterLink(n) = ctx
    <3>1. ctx \in Seq(Contexts(node))
      BY <1>0 DEF Calls
    <3>2. AfterLink(n) = [ctx EXCEPT ![Len(ctx)] = ctx[Len(ctx)]]
      BY <1>3 DEF AfterLink, WithTop, Linked, Top
    <3> QED BY <3>1, <3>2
  <2>2. \A m \in AllIn(ch2) \ AllIn(children) : nd2[m].origin = "block"
    BY <1>3 DEF Owner
  <2>3. Calls(nd2, ch2, ctx)
    BY <1>0, <1>1, <2>2, CallsKept
  <2> QED BY <2>1, <2>3, WithinItself
<1> QED BY <1>2, <1>3

\* A new node is installed and linked.
LEMMA InstallStep ==
  ASSUME IInv, NEW term \in Terms, Install(term)
  PROVE  /\ World(node', array', children')
         /\ Calls(node', children', AfterLink(Len(node) + 1))
         /\ Walks(node', children', AfterLink(Len(node) + 1), walk')
         /\ status' = status
         /\ Extends(node, node') /\ Len(node') = Len(node) + 1
         /\ AllIn(children') = AllIn(children) \cup {Len(node) + 1}
         /\ Len(node) + 1 \notin AllIn(children)
         /\ node'[Len(node) + 1] = Created(term, Owner)
<1> DEFINE r == Created(term, Owner)
           n == Len(node) + 1
<1>0. /\ TreeOK(node, children) /\ ArrayOK(node, array, children)
      /\ FirstDevice(node, children) /\ Walks(node, children, ctx, walk)
  BY DEF IInv, World
<1>1. Owner \in Origins /\ Owner # "refused" /\ Create(term, Owner)
  BY DEF Install, Owner, Origins
<1>2. /\ r \in NodeRecords /\ r.name = LastOf(term.path) /\ r.name \in Names
      /\ r.origin = Owner /\ r.parent = ParentOf(term) /\ r.parent \in 1..Len(node)
      /\ r.kind = "ALIAS" => r.target \in 1..Len(node) /\ node[r.target].kind # "ALIAS"
      /\ node' = Append(node, r) /\ array' = Append(array, n)
      /\ walk' = walk /\ status' = status /\ ctx # <<>>
  BY <1>1, CreateType
<1> HIDE DEF r
<1>3. /\ Len(node) \in Nat /\ Len(node) >= 1 /\ AllIn(children) \subseteq 1..Len(node)
      /\ \A m \in AllIn(children) : m \in 2..Len(node)
      /\ n \notin 1..Len(node) /\ n \notin AllIn(children)
  BY <1>0, InstalledIs
<1>4. \A k \in Used(children[r.parent]) : node[children[r.parent].elem[k]].name # r.name
  <2>1. Child(r.parent, r.name) = Null
    BY <1>2 DEF Install
  <2>2. \A k \in Used(children[r.parent]) : children[r.parent].elem[k] # Null
    BY DEF Used
  <2> QED BY <1>0, <1>2, <2>1, <2>2, ChildFound
<1>5. children' = Append([children EXCEPT ![r.parent] = Insert(@, Hash[r.name], n)], EmptyTable)
  BY <1>2 DEF Install
<1>6. /\ TreeOK(Append(node, r), children') /\ Changes(children, children', Null, n)
      /\ AllIn(children') = AllIn(children) \cup {n}
  BY ONLY <1>0, <1>2, <1>4, <1>5, InstallTree
<1>7. /\ Extends(node, node') /\ Len(node') = n /\ node'[n] = r
  <2>1. NodesOK(node)
    BY <1>0 DEF TreeOK
  <2> QED BY <1>2, <2>1, AppendNode
<1>8. ArrayOK(node', array', children')
  <2>1. node'[Len(node')].origin # "refused"
    BY <1>1, <1>2, <1>7
  <2> HIDE DEF n
  <2> QED BY <1>0, <1>2, <1>3, <1>6, <1>7, <2>1, AppendArray DEF n
<1>9. FirstDevice(node', children')
  BY <1>0, <1>6, <1>7, FirstDeviceStays
<1>10. /\ Calls(node', children', AfterLink(n)) /\ ListsWithin(ctx, AfterLink(n), n)
  BY <1>2, <1>6, <1>7, LinkStep
<1>11. Walks(node', children', AfterLink(n), walk)
  <2>1. children = [p \in 1..Len(node) |-> children[p]]
    BY <1>0 DEF TreeOK
  <2>2. \A f \in 1..Len(walk) : Null \notin walk[f].start
    <3>1. \A f \in 1..Len(walk) : walk[f] \in Frames(node)
      BY <1>0 DEF Walks
    <3> QED BY <3>1 DEF Frames, Null
  <2> HIDE DEF n, AfterLink
  <2> QED BY <1>0, <1>3, <1>6, <1>7, <1>10, <2>1, <2>2, WalksKept
<1> QED BY <1>2, <1>3, <1>6, <1>7, <1>8, <1>9, <1>10, <1>11, SMTT(30) DEF World, r

\* A term whose node needs no block of its own.
LEMMA DefineStep ==
  ASSUME IInv, NEW term \in Terms, Install(term), ctx' = AfterLink(Len(node) + 1)
  PROVE  IInv'
<1>1. /\ World(node', array', children') /\ Calls(node', children', ctx')
      /\ Walks(node', children', ctx', walk') /\ status' = status
  BY InstallStep
<1>2. status' \in {"ok", "unresolved"}
  BY <1>1 DEF IInv
<1> QED BY <1>1, <1>2 DEF IInv

LEMMA OpenDeviceStep ==
  ASSUME IInv, NEW term \in Terms, OpenDevice(term)
  PROVE  IInv'
<1> DEFINE n == Len(node) + 1
           cx == AfterLink(n)
<1>1. /\ World(node', array', children') /\ Calls(node', children', cx)
      /\ Walks(node', children', cx, walk') /\ status' = status
      /\ Len(node') = n /\ node'[n] = Created(term, Owner)
  BY InstallStep DEF OpenDevice
<1>2. n \in 1..Len(node') /\ node'[n].kind # "ALIAS"
  <2>1. Create(term, Owner) /\ Owner \in Origins /\ term.kind = "DEVICE"
    BY DEF OpenDevice, Install, Owner, Origins
  <2>2. node'[n].kind = "DEVICE"
    BY <1>1, <2>1, CreateType
  <2>3. Len(node) \in Nat
    BY InstalledIs DEF IInv, World
  <2> QED BY <1>1, <2>2, <2>3
<1>3. ctx' = Append(cx, Entry(n, FALSE, {}))
  BY DEF OpenDevice, AfterLink, Block, Entry
<1>4. AllIn(children') \subseteq 1..Len(node')
  <2>1. AllIn(children') = AllIn(children) \cup {n} /\ Len(node) \in Nat
        /\ AllIn(children) \subseteq 1..Len(node)
    BY InstallStep, InstalledIs DEF OpenDevice, IInv, World
  <2> QED BY <1>1, <2>1
<1> HIDE DEF cx, n
<1>5. Calls(node', children', ctx') /\ ListsWithin(cx, ctx', Null)
  BY <1>1, <1>2, <1>3, <1>4, PushCalls
<1>6. Walks(node', children', ctx', walk')
  BY <1>1, <1>5, WalksCalls
<1>7. status' \in {"ok", "unresolved"}
  BY <1>1 DEF IInv
<1> QED BY <1>1, <1>5, <1>6, <1>7 DEF IInv

LEMMA DuplicateStep ==
  ASSUME IInv, NEW term \in Terms, Duplicate(term)
  PROVE  IInv' /\ AllIn(children') = AllIn(children) /\ Extends(node, node')
<1> DEFINE r == Created(term, "refused")
           n == Len(node) + 1
<1>0. /\ TreeOK(node, children) /\ ArrayOK(node, array, children)
      /\ FirstDevice(node, children) /\ Calls(node, children, ctx)
      /\ Walks(node, children, ctx, walk)
  BY DEF IInv, World
<1>1. "refused" \in Origins /\ Create(term, "refused")
  BY DEF Duplicate, Origins
<1>2. /\ r \in NodeRecords /\ r.origin = "refused" /\ r.parent \in 1..Len(node)
      /\ r.kind = "ALIAS" => r.target \in 1..Len(node) /\ node[r.target].kind # "ALIAS"
      /\ node' = Append(node, r) /\ array' = Append(array, n)
      /\ walk' = walk /\ status' = status
  BY <1>1, CreateType
<1> HIDE DEF r
<1>3. /\ Len(node) \in Nat /\ Len(node) >= 1 /\ AllIn(children) \subseteq 1..Len(node)
      /\ \A m \in AllIn(children) : m \in 2..Len(node)
      /\ n \notin 1..Len(node)
  BY <1>0, InstalledIs
<1>4. children' = Append(children, EmptyTable)
  BY DEF Duplicate
<1>5. /\ TreeOK(Append(node, r), children') /\ Changes(children, children', Null, Null)
      /\ AllIn(children') = AllIn(children)
  BY ONLY <1>0, <1>2, <1>4, DuplicateTree
<1>6. /\ Extends(node, node') /\ Len(node') = n /\ node'[n] = r
  <2>1. NodesOK(node)
    BY <1>0 DEF TreeOK
  <2> QED BY <1>2, <2>1, AppendNode
<1>7. ArrayOK(node', array', children')
  <2> HIDE DEF n
  <2> QED BY <1>0, <1>2, <1>3, <1>5, <1>6, AppendArray DEF n
<1>8. FirstDevice(node', children')
  BY <1>0, <1>5, <1>6, FirstDeviceStays
<1>9. Calls(node', children', ctx)
  BY <1>0, <1>3, <1>5, <1>6, CallsKept
<1>10. \/ ctx' = ctx
       \/ ctx' = <<>>
  BY DEF Duplicate, Fail
<1>11. Calls(node', children', ctx') /\ ListsWithin(ctx, ctx', Null)
  BY <1>9, <1>10, EmptyCalls, WithinItself, WithinEmpty
<1>12. Walks(node', children', ctx', walk)
  <2>1. children = [p \in 1..Len(node) |-> children[p]]
    BY <1>0 DEF TreeOK
  <2>2. \A f \in 1..Len(walk) : Null \notin walk[f].start
    <3>1. \A f \in 1..Len(walk) : walk[f] \in Frames(node)
      BY <1>0 DEF Walks
    <3> QED BY <3>1 DEF Frames, Null
  <2>3. Null \notin 1..Len(node)
    BY DEF Null
  <2> QED BY <1>0, <1>5, <1>6, <1>11, <2>1, <2>2, <2>3, WalksKept
<1>13. World(node', array', children') /\ status' \in {"ok", "unresolved"}
  BY <1>2, <1>5, <1>7, <1>8 DEF World, IInv
<1>14. IInv'
  BY <1>2, <1>11, <1>12, <1>13 DEF IInv
<1> QED BY <1>5, <1>6, <1>14

\* The steps that change only the contexts, and take or end no list that is not empty.
LEMMA CallsStep ==
  ASSUME IInv, UNCHANGED <<node, array, children, walk>>, status' \in {"ok", "unresolved"},
         Calls(node, children, ctx'), ListsWithin(ctx, ctx', Null)
  PROVE  IInv'
<1>1. Walks(node, children, ctx', walk)
  BY WalksCalls DEF IInv
<1> QED BY <1>1 DEF IInv

LEMMA FailStep ==
  ASSUME IInv, UNCHANGED <<node, array, children, walk>>, status' \in {"ok", "unresolved"},
         ctx' = <<>>
  PROVE  IInv'
BY EmptyCalls, WithinEmpty, CallsStep

LEMMA CallEntry == ASSUME NEW m PROVE Call(m) = Entry(m, TRUE, Installed)
<1> DEFINE b == Block(m)
           before == Installed
<1>1. b = [handle |-> m, method |-> FALSE, list |-> <<>>, ending |-> FALSE, before |-> {}]
  BY DEF Block
<1>2. Call(m) = [b EXCEPT !.method = TRUE, !.before = before]
  BY DEF Call
<1>3. Entry(m, TRUE, Installed) = [handle |-> m, method |-> TRUE, list |-> <<>>,
                                  ending |-> FALSE, before |-> before]
  BY DEF Entry
<1> HIDE DEF b, before
<1> QED BY ONLY <1>1, <1>2, <1>3

LEMMA PushStep ==
  ASSUME IInv, NEW h \in 1..Len(node), node[h].kind # "ALIAS",
         \/ ctx' = Append(ctx, Block(h))
         \/ ctx' = Append(ctx, Call(h)),
         UNCHANGED <<node, array, children, walk, status>>
  PROVE  IInv'
<1>0. TreeOK(node, children) /\ Calls(node, children, ctx) /\ status \in {"ok", "unresolved"}
  BY DEF IInv, World
<1>1. Installed = AllIn(children) /\ AllIn(children) \subseteq 1..Len(node)
  BY <1>0, InstalledIs
<1>2. CASE ctx' = Append(ctx, Block(h))
  <2>1. ctx' = Append(ctx, Entry(h, FALSE, {}))
    BY <1>2 DEF Block, Entry
  <2>2. Calls(node, children, ctx') /\ ListsWithin(ctx, ctx', Null)
    BY <1>0, <1>1, <2>1, PushCalls
  <2> QED BY <1>0, <2>2, CallsStep
<1>3. CASE ctx' = Append(ctx, Call(h))
  <2>1. ctx' = Append(ctx, Entry(h, TRUE, AllIn(children)))
    BY <1>1, <1>3, CallEntry
  <2>2. Calls(node, children, ctx') /\ ListsWithin(ctx, ctx', Null)
    BY <1>0, <1>1, <2>1, PushCalls
  <2> QED BY <1>0, <2>2, CallsStep
<1> QED BY <1>2, <1>3

\* The methods that a name resolves to are nodes.
LEMMA MethodsType ==
  ASSUME IInv, NEW m \in Methods
  PROVE  m \in 1..Len(node) /\ node[m].kind = "METHOD"
<1>0. TreeOK(node, children)
  BY DEF IInv, World
<1>1. PICK n \in Installed : m = Target(n) /\ node[m].kind = "METHOD"
  BY DEF Methods
<1>2. n \in 2..Len(node) /\ Len(node) \in Nat
  BY <1>0, <1>1, InstalledIs
<1>3. n \in 0..Len(node) /\ n # Null
  BY <1>2 DEF Null
<1>4. m \in 0..Len(node) /\ m # Null
  BY <1>0, <1>1, <1>3, TargetType
<1> QED BY <1>1, <1>2, <1>4 DEF Null

LEMMA OpenScopeStep ==
  ASSUME IInv, NEW term \in Terms, OpenScope(term)
  PROVE  IInv'
<1> DEFINE n == Resolve(Top.handle, term.path)
<1>0. TreeOK(node, children) /\ ctx # <<>> /\ status \in {"ok", "unresolved"}
  BY DEF IInv, World, OpenScope, Executing
<1>1. Top.handle \in 1..Len(node) /\ Nodes = 1..Len(node) /\ term.path \in Paths
  BY <1>0, TopType, InstalledIs, TermsAssumption
<1>2. n # Null => node[n].kind # "ALIAS"
  BY <1>0, <1>1, ResolveType
<1>3. CASE n \in Nodes /\ ctx' = Append(ctx, Block(n))
  <2>1. n \in 1..Len(node) /\ node[n].kind # "ALIAS"
    BY <1>1, <1>2, <1>3 DEF Null
  <2> HIDE DEF n
  <2> QED BY <1>3, <2>1, PushStep DEF OpenScope
<1>4. CASE Fail
  BY <1>0, <1>4, FailStep DEF OpenScope, Fail
<1> QED BY <1>3, <1>4 DEF OpenScope

(***************************************************************************)
(* The ends of blocks and methods.                                         *)
(***************************************************************************)
LEMMA PopStep ==
  ASSUME IInv, ctx # <<>>, Len(Top.list) = 0, PopContext,
         UNCHANGED <<node, array, children, walk, status>>
  PROVE  IInv'
<1>1. Calls(node, children, ctx) /\ Len(ctx[Len(ctx)].list) = 0 /\ status \in {"ok", "unresolved"}
  BY DEF IInv, Top
<1>2. ctx' = SubSeq(ctx, 1, Len(ctx) - 1)
  BY DEF PopContext
<1>3. Calls(node, children, ctx') /\ ListsWithin(ctx, ctx', Null)
  BY <1>1, <1>2, CallsPop
<1> QED BY <1>1, <1>3, CallsStep

LEMMA EndBlockStep ==
  ASSUME IInv, EndBlock
  PROVE  IInv'
<1>1. ctx # <<>> /\ ~Top.method
  BY DEF EndBlock, Executing
<1>2. Top.list \in Seq(1..Len(node)) /\ Len(ctx) \in 1..Len(ctx)
  BY <1>1, TopType
<1>3. Len(Top.list) = 0
  <2>1. \A i \in 1..Len(Top.list) : Top.method
    BY <1>2 DEF IInv, Calls, ListsOK, Top
  <2> QED BY <1>1, <1>2, <2>1
<1> QED BY <1>1, <1>3, PopStep DEF EndBlock

LEMMA EndMethodStep ==
  ASSUME IInv, EndMethod
  PROVE  IInv'
<1>1. ctx # <<>> /\ Len(Top.list) = 0
  BY DEF EndMethod, Ending
<1> QED BY <1>1, PopStep DEF EndMethod

LEMMA ReturnStep ==
  ASSUME IInv, Return
  PROVE  IInv'
<1>1. ctx # <<>> /\ ctx[Len(ctx)].method /\ Calls(node, children, ctx)
      /\ status \in {"ok", "unresolved"}
  BY DEF IInv, Return, Executing, Top
<1>2. ctx' = [ctx EXCEPT ![Len(ctx)] = [ctx[Len(ctx)] EXCEPT !.ending = TRUE]]
  BY DEF Return, WithTop, Top
<1>3. Calls(node, children, ctx') /\ ListsWithin(ctx, ctx', Null)
  BY <1>1, <1>2, CallsEnding
<1> QED BY <1>1, <1>3, CallsStep DEF Return

\* The node that is uninstalled is where lai_uninstall_nsnode() looks for it.
LEMMA UninstallStep ==
  ASSUME IInv, UninstallFirst
  PROVE  /\ IInv' /\ node' = node
         /\ Top.list[1] \in AllIn(children)
         /\ AllIn(children') = AllIn(children) \ {Top.list[1]}
<1> DEFINE n == Top.list[1]
           p == node[n].parent
           h == Hash[node[n].name]
           P == PlacesIn(node, children, n)
<1>0. /\ TreeOK(node, children) /\ ArrayOK(node, array, children)
      /\ FirstDevice(node, children) /\ Calls(node, children, ctx)
      /\ Walks(node, children, ctx, walk)
  BY DEF IInv, World
<1>1. ctx # <<>> /\ Top.list # <<>> /\ Len(ctx) \in 1..Len(ctx)
      /\ 1 \in 1..Len(Top.list)
  <2>1. ctx # <<>> /\ Top.list # <<>>
    BY DEF UninstallFirst, Ending
  <2> QED BY <2>1, TopType, EmptySeq, LenProperties
<1>2. n \in AllIn(children) /\ node[n].origin = "method"
  BY <1>0, <1>1 DEF Calls, ListsOK, Top
<1>3. \A f \in 1..Len(walk) : n \notin walk[f].start
  <2>1. \A f \in 1..Len(walk) : StartsKept(ctx, walk[f])
    BY <1>0 DEF Walks
  <2> QED BY <1>1, <2>1 DEF StartsKept, Top
<1>4. Places(n) = P
  BY DEF Places, PlacesIn
<1>5. P = {Least(P)}
  <2> DEFINE i == Least(P)
             ch2 == [children EXCEPT ![node[n].parent] =
                       ChainRemove(@, Hash[node[n].name], i)]
  <2>1. i = Least(PlacesIn(node, children, n))
        /\ ch2 = [children EXCEPT ![node[n].parent] =
                    ChainRemove(@, Hash[node[n].name], i)]
    OBVIOUS
  <2> HIDE DEF n, i, ch2
  <2>2. PlacesIn(node, children, n) = {i}
    BY ONLY <1>0, <1>2, <2>1, UninstallTree
  <2> QED BY <2>2 DEF i
<1>6. /\ children' = [children EXCEPT ![p] = ChainRemove(@, h, Least(P))]
      /\ status' = "ok"
  <2>1. Places(n) # {} /\ Places(n) = {Least(Places(n))}
    BY <1>4, <1>5
  <2> QED BY <1>4, <2>1 DEF UninstallFirst
<1>7. /\ array' = [i \in DOMAIN array |-> IF array[i] = n THEN Null ELSE array[i]]
      /\ ctx' = [ctx EXCEPT ![Len(ctx)] = Unlinked(ctx[Len(ctx)])]
      /\ UNCHANGED <<node, walk>>
  BY DEF UninstallFirst, WithTop, Unlinked, Top
<1> HIDE DEF n
<1>8. /\ TreeOK(node, children') /\ Changes(children, children', n, Null)
      /\ AllIn(children') = AllIn(children) \ {n}
  <2> DEFINE i == Least(P)
  <2>1. i = Least(PlacesIn(node, children, n))
        /\ children' = [children EXCEPT ![node[n].parent] =
                          ChainRemove(@, Hash[node[n].name], i)]
    BY <1>6
  <2> HIDE DEF i
  <2>2. TreeOK(node, children') /\ Changes(children, children', n, Null)
    BY ONLY <1>0, <1>2, <2>1, UninstallTree
  <2>3. AllIn(children') = AllIn(children) \ {n}
    <3>1. Without(AllIn(children'), AllIn(children), n)
      BY ONLY <1>0, <1>2, <2>1, UninstallTree
    <3> QED BY ONLY <3>1 DEF Without
  <2> QED BY <2>2, <2>3
<1>9. Len(node) \in Nat /\ \A m \in AllIn(children) : m \in 2..Len(node)
  BY <1>0, InstalledIs
<1>10. ArrayOK(node, array', children')
  BY ONLY <1>0, <1>2, <1>7, <1>8, <1>9, ForgetArray
<1>11. Extends(node, node)
  BY <1>9 DEF Extends
<1>12. FirstDevice(node, children')
  BY <1>0, <1>2, <1>8, <1>11, FirstDeviceStays
<1>13. Calls(node, children', ctx') /\ ListsWithin(ctx, ctx', Null)
  <2>1. ctx[Len(ctx)].list # <<>> /\ n = ctx[Len(ctx)].list[1]
    BY <1>1 DEF Top, n
  <2> QED BY ONLY <1>0, <1>1, <1>7, <1>8, <2>1, CallsUninstall
<1>14. Walks(node, children', ctx', walk)
  <2>1. children = [q \in 1..Len(node) |-> children[q]]
    BY <1>0 DEF TreeOK
  <2>2. Null \notin 1..Len(node)
    BY DEF Null
  <2> QED BY ONLY <1>0, <1>3, <1>8, <1>11, <1>13, <2>1, <2>2, WalksKept
<1>15. IInv'
  BY <1>6, <1>7, <1>8, <1>10, <1>12, <1>13, <1>14 DEF IInv, World
<1> QED BY <1>2, <1>7, <1>8, <1>15 DEF n

(***************************************************************************)
(* The steps of the loops over children.                                   *)
(***************************************************************************)
Phases == {"next", "sta", "judge", "ini", "down", "ask", "match"}

LEMMA WalkerType ==
  ASSUME IInv, walk # <<>>
  PROVE  /\ walk \in Seq(Frames(node)) /\ Len(walk) \in 1..Len(walk) /\ Len(walk) \in Nat
         /\ Walker \in Frames(node) /\ FrameOK(children, Walker)
         /\ Walker.phase # "next" => Walker.at \in 1..Len(node)
         /\ \A w \in 1..Len(walk) : FrameOK(children, walk[w]) /\ StartsKept(ctx, walk[w])
<1>1. walk \in Seq(Frames(node)) /\ Len(walk) \in 1..Len(walk) /\ Len(walk) \in Nat
  BY EmptySeq, LenProperties DEF IInv, Walks
<1>2. Walker \in Frames(node) /\ FrameOK(children, Walker)
  BY <1>1 DEF IInv, Walks, Walker
<1>3. Walker.phase # "next" => Walker.at \in 1..Len(node)
  <2>1. Len(node) \in Nat
    BY DEF IInv, World, TreeOK, NodesOK
  <2> QED BY <1>2, <2>1 DEF FrameOK, Frames, Null
<1> QED BY <1>1, <1>2, <1>3 DEF IInv, Walks

\* The innermost loop goes on with a frame that is as good.
LEMMA ContinueStep ==
  ASSUME IInv, walk # <<>>, NEW w \in Frames(node), FrameOK(children, w),
         w.start = Walker.start, Continue(w), UNCHANGED <<node, array, children, status>>,
         Calls(node, children, ctx'), ListsWithin(ctx, ctx', Null)
  PROVE  IInv'
<1>1. walk \in Seq(Frames(node)) /\ Len(walk) \in 1..Len(walk)
      /\ \A f \in 1..Len(walk) : FrameOK(children, walk[f]) /\ StartsKept(ctx, walk[f])
  BY WalkerType
<1>2. /\ walk' \in Seq(Frames(node)) /\ Len(walk') = Len(walk)
      /\ \A f \in 1..Len(walk) : walk'[f] = IF f = Len(walk) THEN w ELSE walk[f]
  <2>1. walk' = [walk EXCEPT ![Len(walk)] = w]
    BY DEF Continue
  <2> QED BY <1>1, <2>1, TopChanges
<1>3. StartsKept(ctx, w)
  BY <1>1 DEF StartsKept, Walker
<1>4. Walks(node, children, ctx, walk')
  BY <1>1, <1>2, <1>3 DEF Walks
<1>5. Walks(node, children, ctx', walk')
  BY <1>4, WalksCalls
<1> QED BY <1>5 DEF IInv

LEMMA PhaseStep ==
  ASSUME IInv, walk # <<>>, NEW phase \in Phases, phase # "next" => Walker.phase # "next",
         Continue([Walker EXCEPT !.phase = phase]),
         UNCHANGED <<node, array, children, status>>,
         Calls(node, children, ctx'), ListsWithin(ctx, ctx', Null)
  PROVE  IInv'
<1> DEFINE w == [Walker EXCEPT !.phase = phase]
<1>1. Walker \in Frames(node) /\ FrameOK(children, Walker)
  BY WalkerType
<1>2. /\ w \in Frames(node) /\ w.phase = phase /\ w.parent = Walker.parent
      /\ w.i = Walker.i /\ w.at = Walker.at /\ w.start = Walker.start /\ w.seen = Walker.seen
  BY <1>1 DEF Frames, Phases
<1>3. Continue(w)
  OBVIOUS
<1> HIDE DEF w
<1>4. FrameOK(children, w)
  BY <1>1, <1>2 DEF FrameOK
<1> QED BY <1>2, <1>3, <1>4, ContinueStep

\* What a loop evaluates is a method or runs no AML.
LEMMA EvaluateStep ==
  ASSUME IInv, ctx = <<>>, walk # <<>>, Walker.phase # "next", NEW name \in Names,
         Evaluate(name)
  PROVE  Calls(node, children, ctx') /\ ListsWithin(ctx, ctx', Null)
<1> DEFINE m == ChildTarget(Walker.at, name)
<1>0. TreeOK(node, children) /\ Calls(node, children, ctx)
  BY DEF IInv, World
<1>1. m \in 0..Len(node)
  <2>1. Walker.at \in 1..Len(node)
    BY WalkerType
  <2>2. Child(Walker.at, name) \in 0..Len(node)
    BY <1>0, <2>1, ChildType
  <2> QED BY <1>0, <2>2, TargetType DEF ChildTarget
<1>2. CASE m # Null /\ node[m].kind = "METHOD"
  <2>1. ctx' = <<Call(m)>>
    BY <1>2 DEF Evaluate
  <2>2. ctx' = Append(ctx, Entry(m, TRUE, AllIn(children)))
    <3>1. ctx' = <<Entry(m, TRUE, AllIn(children))>>
      BY <1>0, <2>1, CallEntry, InstalledIs
    <3> QED BY <3>1
  <2>3. m \in 1..Len(node) /\ node[m].kind # "ALIAS" /\ AllIn(children) \subseteq 1..Len(node)
    BY <1>0, <1>1, <1>2, InstalledIs DEF Null
  <2> HIDE DEF m
  <2> QED BY <1>0, <2>2, <2>3, PushCalls
<1>3. CASE ~(m # Null /\ node[m].kind = "METHOD")
  <2>1. ctx' = ctx
    BY <1>3 DEF Evaluate
  <2> QED BY <1>0, <2>1, WithinItself
<1> QED BY <1>2, <1>3

\* A loop that begins.
LEMMA LoopType ==
  ASSUME TreeOK(node, children), NEW kind \in {"init", "find"}, NEW p \in 1..Len(node)
  PROVE  Loop(kind, p) \in Frames(node) /\ FrameOK(children, Loop(kind, p))
<1> DEFINE w == Loop(kind, p)
<1>1. Elements(children[p]) \subseteq 1..Len(node)
  <2>1. \A k \in Used(children[p]) : children[p].elem[k] \in 2..Len(node)
    BY DEF TreeOK, ChildrenOK, SlotOK
  <2>2. \A k \in Used(children[p]) : children[p].elem[k] \in 1..Len(node)
    BY <2>1
  <2> QED BY <2>2 DEF Elements
<1>2. w = [kind |-> kind, parent |-> p, i |-> 0, at |-> Null, phase |-> "next",
           start |-> Elements(children[p]), seen |-> <<>>]
  BY DEF Loop
<1>3. w \in Frames(node)
  <2>1. Len(node) \in Nat /\ <<>> \in Seq(1..Len(node))
    BY DEF TreeOK, NodesOK
  <2> QED BY <1>1, <1>2, <2>1 DEF Frames, Null
<1>4. /\ w.phase = "next" /\ w.parent = p /\ w.i = 0 /\ w.start = Elements(children[p])
      /\ w.seen = <<>> /\ Len(w.seen) = 0
  BY <1>2
<1> HIDE DEF w
<1>5. FrameOK(children, w)
  <2>1. \A k \in Used(children[p]) : k >= 0
    BY DEF Used, Slots
  <2>2. \A n \in w.start : \E k \in Used(children[p]) : children[p].elem[k] = n
    BY <1>4 DEF Elements
  <2>3. \A k \in Used(children[p]) : ~(k < 0)
    BY <2>1 DEF Used, Slots
  <2>4. \A n : ~Has(w.seen, n)
    BY <1>4 DEF Has
  <2> QED BY <1>4, <2>2, <2>3, <2>4 DEF FrameOK
<1> QED BY <1>3, <1>5 DEF w

\* The frame of the innermost loop when the iterator comes to slot k.
Advanced(w, k, n, phase) ==
    [w EXCEPT !.i = k + 1, !.at = n, !.seen = Append(@, n), !.phase = phase]

LEMMA AdvanceType ==
  ASSUME NEW nd, NEW w \in Frames(nd), NEW k \in Nat, NEW n \in 1..Len(nd),
         NEW phase \in Phases
  PROVE  /\ Advanced(w, k, n, phase) \in Frames(nd)
         /\ Advanced(w, k, n, phase).parent = w.parent
         /\ Advanced(w, k, n, phase).start = w.start
         /\ Advanced(w, k, n, phase).i = k + 1 /\ Advanced(w, k, n, phase).at = n
         /\ Advanced(w, k, n, phase).seen = Append(w.seen, n)
<1>1. /\ w = [kind |-> w.kind, parent |-> w.parent, i |-> w.i, at |-> w.at,
              phase |-> w.phase, start |-> w.start, seen |-> w.seen]
      /\ w.kind \in {"init", "find"} /\ w.parent \in 1..Len(nd)
      /\ w.start \in SUBSET (1..Len(nd)) /\ w.seen \in Seq(1..Len(nd))
  BY DEF Frames
<1>2. Advanced(w, k, n, phase) =
        [kind |-> w.kind, parent |-> w.parent, i |-> k + 1, at |-> n,
         phase |-> phase, start |-> w.start, seen |-> Append(w.seen, n)]
  <2>1. PICK a, b, c, d, e, f, g :
           w = [kind |-> a, parent |-> b, i |-> c, at |-> d, phase |-> e, start |-> f,
                seen |-> g]
    BY <1>1
  <2> DEFINE next == k + 1
             seen == Append(w.seen, n)
  <2>2. Advanced(w, k, n, phase) =
          [w EXCEPT !.i = next, !.at = n, !.seen = seen, !.phase = phase]
    BY DEF Advanced
  <2> HIDE DEF next, seen
  <2>3. Advanced(w, k, n, phase) =
          [kind |-> w.kind, parent |-> w.parent, i |-> next, at |-> n,
           phase |-> phase, start |-> w.start, seen |-> seen]
    BY ONLY <2>1, <2>2
  <2> QED BY <2>3 DEF next, seen
<1>3. Append(w.seen, n) \in Seq(1..Len(nd))
  BY <1>1, AppendProperties
<1>4. k + 1 \in Nat /\ n \in 0..Len(nd)
  OBVIOUS
<1>5. /\ w.kind \in {"init", "find"} /\ w.parent \in 1..Len(nd)
      /\ w.start \in SUBSET (1..Len(nd))
  BY <1>1, SMTT(30)
<1> QED BY ONLY <1>2, <1>3, <1>4, <1>5, phase \in Phases DEF Frames, Phases

LEMMA AdvanceFrame ==
  ASSUME NEW nd, NEW ch, TreeOK(nd, ch), NEW w \in Frames(nd), FrameOK(ch, w),
         NEW k \in Used(ch[w.parent]), k >= w.i,
         \A j \in Used(ch[w.parent]) : j >= w.i => k <= j,
         NEW phase \in Phases
  PROVE  /\ Advanced(w, k, ch[w.parent].elem[k], phase) \in Frames(nd)
         /\ FrameOK(ch, Advanced(w, k, ch[w.parent].elem[k], phase))
         /\ Advanced(w, k, ch[w.parent].elem[k], phase).start = w.start
<1> DEFINE p == w.parent
           t == ch[p]
           n == t.elem[k]
           v == Advanced(w, k, n, phase)
<1>0. /\ p \in 1..Len(nd) /\ w.i \in Nat /\ w.seen \in Seq(1..Len(nd)) /\ Len(w.seen) \in Nat
      /\ \A j \in Used(t) : SlotOK(nd, p, t, j)
      /\ \A i, j \in Used(t) : nd[t.elem[i]].name = nd[t.elem[j]].name => i = j
  BY DEF Frames, TreeOK, ChildrenOK
<1>1. \A j \in Used(t) : j \in Nat
  <2>1. t.elem_capacity \in Nat
    BY <1>0 DEF TreeOK, ChildrenOK, WellFormed
  <2> QED BY <2>1 DEF Used, Slots
<1>2. n \in 1..Len(nd) /\ n # Null
  BY <1>0 DEF SlotOK, Used
<1> HIDE DEF t, n
<1>3. /\ v \in Frames(nd) /\ v.parent = p /\ v.start = w.start /\ v.i = k + 1 /\ v.at = n
      /\ v.seen = Append(w.seen, n)
  <2>1. k \in Nat
    BY <1>1 DEF t
  <2> QED BY <1>2, <2>1, AdvanceType
<1>4. /\ Len(v.seen) = Len(w.seen) + 1 /\ v.seen[Len(w.seen) + 1] = n
      /\ \A i \in 1..Len(w.seen) : v.seen[i] = w.seen[i] /\ i \in 1..Len(v.seen)
      /\ \A i \in 1..Len(v.seen) : i \in 1..Len(w.seen) \/ i = Len(w.seen) + 1
  <2>1. /\ Len(Append(w.seen, n)) = Len(w.seen) + 1
        /\ Append(w.seen, n)[Len(w.seen) + 1] = n
        /\ \A i \in 1..Len(w.seen) : Append(w.seen, n)[i] = w.seen[i]
    BY <1>0, <1>2, AppendProperties
  <2> QED BY <1>0, <1>3, <2>1
<1> HIDE DEF v
<1>5. \A m : Has(v.seen, m) <=> Has(w.seen, m) \/ m = n
  <2>1. ASSUME NEW m, Has(v.seen, m) PROVE Has(w.seen, m) \/ m = n
    BY <1>4, <2>1 DEF Has
  <2>2. ASSUME NEW m, Has(w.seen, m) PROVE Has(v.seen, m)
    BY <1>4, <2>2 DEF Has
  <2>3. Has(v.seen, n)
    <3>1. Len(w.seen) + 1 \in 1..Len(v.seen)
      BY <1>0, <1>4
    <3> QED BY <1>4, <3>1 DEF Has
  <2> QED BY <2>1, <2>2, <2>3
<1>6. ~Has(w.seen, n) /\ \A j \in Used(t) : j >= w.i => ~Has(w.seen, t.elem[j])
  BY DEF FrameOK, t, n
<1>7. ASSUME NEW m \in w.start
      PROVE  \E j \in Used(t) : t.elem[j] = m /\ (j < k + 1 => Has(v.seen, m))
  <2>1. PICK j \in Used(t) : t.elem[j] = m /\ (j < w.i => Has(w.seen, m))
    BY DEF FrameOK, t
  <2>2. CASE j < w.i
    BY <1>5, <2>1, <2>2
  <2>3. CASE j = k
    BY <1>5, <2>1, <2>3 DEF n
  <2>4. CASE ~(j < w.i) /\ j # k
    <3>1. k <= j /\ k \in Nat /\ j \in Nat
      BY <1>0, <1>1, <2>4 DEF t
    <3>2. ~(j < k + 1)
      BY <2>4, <3>1
    <3> QED BY <2>1, <3>2
  <2> QED BY <2>2, <2>3, <2>4
<1>8. ASSUME NEW j \in Used(t), j >= k + 1 PROVE ~Has(v.seen, t.elem[j])
  <2>1. j \in Nat /\ k \in Nat /\ j # k /\ j >= w.i
    <3>1. j \in Nat /\ k \in Nat
      BY <1>1 DEF t
    <3> QED BY <1>0, <1>8, <3>1
  <2>2. t.elem[j] # n
    BY <1>0, <2>1 DEF n, t
  <2> QED BY <1>5, <1>6, <2>1, <2>2
<1>9. ASSUME NEW i \in 1..Len(v.seen), NEW j \in 1..Len(v.seen), v.seen[i] = v.seen[j]
      PROVE  i = j
  <2>1. \A m \in 1..Len(w.seen) : w.seen[m] # n
    BY <1>6 DEF Has
  <2>2. \A a, b \in 1..Len(w.seen) : w.seen[a] = w.seen[b] => a = b
    BY DEF FrameOK
  <2>3. CASE i \in 1..Len(w.seen) /\ j \in 1..Len(w.seen)
    BY <1>4, <1>9, <2>2, <2>3
  <2>4. CASE i \notin 1..Len(w.seen)
    <3>1. v.seen[i] = n /\ i = Len(w.seen) + 1
      BY <1>4, <2>4
    <3>2. j \notin 1..Len(w.seen)
      BY <1>4, <1>9, <2>1, <3>1
    <3> QED BY <1>4, <3>1, <3>2
  <2>5. CASE j \notin 1..Len(w.seen)
    <3>1. v.seen[j] = n /\ j = Len(w.seen) + 1
      BY <1>4, <2>5
    <3>2. i \notin 1..Len(w.seen)
      BY <1>4, <1>9, <2>1, <3>1
    <3> QED BY <1>4, <3>1, <3>2
  <2> QED BY <2>3, <2>4, <2>5
<1>10. FrameOK(ch, v)
  BY <1>2, <1>3, <1>7, <1>8, <1>9 DEF FrameOK, t
<1> QED BY <1>3, <1>10 DEF v, n, t

LEMMA IterateStep ==
  ASSUME IInv, Iterate
  PROVE  IInv'
<1> DEFINE k == Least(SlotsAhead)
           n == children[Walker.parent].elem[k]
           phase == IF Walker.kind = "find" THEN "ask"
                    ELSE IF node[n].kind = "DEVICE" THEN "sta" ELSE "next"
<1>0. TreeOK(node, children) /\ Calls(node, children, ctx) /\ walk # <<>>
  BY DEF IInv, World, Iterate, Walking
<1>1. Walker \in Frames(node) /\ FrameOK(children, Walker)
  BY <1>0, WalkerType
<1>2. k \in SlotsAhead /\ \A j \in SlotsAhead : k <= j
  <2>1. children[Walker.parent].elem_capacity \in Nat
    BY <1>0, <1>1 DEF Frames, TreeOK, ChildrenOK, WellFormed
  <2>2. SlotsAhead \in SUBSET Nat
    BY <2>1 DEF SlotsAhead, Used, Slots
  <2>3. SlotsAhead # {}
    BY DEF Iterate
  <2> QED BY <2>2, <2>3, LeastNatural
<1>3. phase \in Phases
  BY DEF Phases
<1>4. Continue(Advanced(Walker, k, n, phase)) /\ UNCHANGED <<node, array, children, ctx, status>>
  BY DEF Iterate, Advanced
<1> HIDE DEF phase, k
<1>5. /\ k \in Used(children[Walker.parent]) /\ k >= Walker.i
      /\ \A j \in Used(children[Walker.parent]) : j >= Walker.i => k <= j
  BY <1>2 DEF SlotsAhead
<1>6. /\ Advanced(Walker, k, n, phase) \in Frames(node)
      /\ FrameOK(children, Advanced(Walker, k, n, phase))
      /\ Advanced(Walker, k, n, phase).start = Walker.start
  BY <1>0, <1>1, <1>3, <1>5, AdvanceFrame
<1>7. Calls(node, children, ctx') /\ ListsWithin(ctx, ctx', Null)
  BY <1>0, <1>4, WithinItself
<1> HIDE DEF n
<1> QED BY <1>0, <1>4, <1>6, <1>7, ContinueStep

\* The steps that change only the loops.
LEMMA WalksStep ==
  ASSUME IInv, UNCHANGED <<node, array, children, ctx, status>>,
         walk' \in Seq(Frames(node)),
         \A f \in 1..Len(walk') : FrameOK(children, walk'[f]) /\ StartsKept(ctx, walk'[f])
  PROVE  IInv'
<1>1. Walks(node, children, ctx, walk')
  BY DEF Walks
<1> QED BY <1>1 DEF IInv

LEMMA FinishWalkStep ==
  ASSUME IInv, FinishWalk
  PROVE  IInv'
<1> DEFINE n == Len(walk) - 1
<1>0. walk # <<>>
  BY DEF FinishWalk, Walking
<1>1. /\ walk \in Seq(Frames(node)) /\ Len(walk) \in Nat /\ Len(walk) >= 1
      /\ \A f \in 1..Len(walk) : FrameOK(children, walk[f]) /\ StartsKept(ctx, walk[f])
  BY <1>0, WalkerType
<1>2. /\ n \in Int /\ n >= 0
      /\ \A f \in 1..n : walk[f] \in Frames(node) /\ f \in 1..Len(walk)
  BY <1>1
<1>3. walk' = SubSeq(walk, 1, n)
  BY DEF FinishWalk
<1> HIDE DEF n
<1>4. /\ SubSeq(walk, 1, n) \in Seq(Frames(node))
      /\ Len(SubSeq(walk, 1, n)) = IF 1 <= n THEN n - 1 + 1 ELSE 0
      /\ \A f \in 1..n - 1 + 1 : SubSeq(walk, 1, n)[f] = walk[1 + f - 1]
  BY ONLY <1>2, SubSeqProperties
<1>5. Len(walk') = n /\ \A f \in 1..n : walk'[f] = walk[f]
  BY <1>2, <1>3, <1>4
<1> QED BY <1>1, <1>2, <1>3, <1>4, <1>5, WalksStep DEF FinishWalk

LEMMA StartWalkStep ==
  ASSUME IInv, NEW kind \in {"init", "find"}, StartWalk(kind, Child(Root, Predefined[1]))
  PROVE  IInv'
<1> DEFINE p == Child(Root, Predefined[1])
<1>0. TreeOK(node, children) /\ FirstDevice(node, children)
  BY DEF IInv, World
<1>1. Predefined[1] \in Names /\ Root \in 1..Len(node)
  <2>1. Predefined[1] \in Names
    BY NamesAssumption, EmptySeq, LenProperties
  <2> QED BY <1>0, <2>1, InstalledIs DEF Root
<1>2. p \in 1..Len(node)
  <2>1. PICK k \in Used(children[Root]) : node[children[Root].elem[k]].name = Predefined[1]
    BY <1>0 DEF FirstDevice
  <2>2. \E j \in Used(children[Root]) : p = children[Root].elem[j]
    BY <1>0, <1>1, <2>1, ChildFound
  <2>3. \A j \in Used(children[Root]) : children[Root].elem[j] \in 2..Len(node)
    BY <1>0, <1>1 DEF TreeOK, ChildrenOK, SlotOK
  <2> HIDE DEF p
  <2> QED BY <2>2, <2>3
<1> HIDE DEF p
<1>3. Loop(kind, p) \in Frames(node) /\ FrameOK(children, Loop(kind, p))
  BY <1>0, <1>2, LoopType
<1>4. walk' = <<Loop(kind, p)>> /\ ctx = <<>> /\ UNCHANGED <<node, array, children, ctx, status>>
  BY DEF StartWalk, p
<1>5. walk' \in Seq(Frames(node)) /\ Len(walk') = 1 /\ walk'[1] = Loop(kind, p)
  BY <1>3, <1>4
<1>6. StartsKept(ctx, Loop(kind, p))
  BY <1>4 DEF StartsKept
<1> QED BY <1>3, <1>4, <1>5, <1>6, WalksStep

LEMMA InitChildrenStep ==
  ASSUME IInv, InitChildren
  PROVE  IInv'
<1> DEFINE w == [Walker EXCEPT !.phase = "next"]
           mid == [walk EXCEPT ![Len(walk)] = w]
           v == Loop("init", Walker.at)
<1>0. TreeOK(node, children) /\ walk # <<>> /\ ctx = <<>> /\ Walker.phase = "down"
  BY DEF IInv, World, InitChildren, Walking
<1>1. /\ walk \in Seq(Frames(node)) /\ Len(walk) \in Nat
      /\ Walker \in Frames(node) /\ FrameOK(children, Walker) /\ Walker.at \in 1..Len(node)
      /\ \A f \in 1..Len(walk) : FrameOK(children, walk[f])
  BY <1>0, WalkerType
<1>2. walk' = Append(mid, v)
  BY DEF InitChildren, Walker
<1>3. /\ w \in Frames(node) /\ w.phase = "next" /\ w.parent = Walker.parent
      /\ w.i = Walker.i /\ w.at = Walker.at /\ w.start = Walker.start /\ w.seen = Walker.seen
  BY <1>1 DEF Frames
<1> HIDE DEF w
<1>4. FrameOK(children, w)
  BY <1>1, <1>3 DEF FrameOK
<1>5. /\ mid \in Seq(Frames(node)) /\ Len(mid) = Len(walk)
      /\ \A f \in 1..Len(walk) : mid[f] = IF f = Len(walk) THEN w ELSE walk[f]
  BY <1>0, <1>1, <1>3, TopChanges
<1> HIDE DEF mid
<1>6. v \in Frames(node) /\ FrameOK(children, v)
  BY <1>0, <1>1, LoopType
<1> HIDE DEF v
<1>7. /\ walk' \in Seq(Frames(node)) /\ Len(walk') = Len(walk) + 1
      /\ walk'[Len(walk) + 1] = v /\ \A f \in 1..Len(walk) : walk'[f] = mid[f]
  BY <1>2, <1>5, <1>6, AppendProperties
<1>8. ASSUME NEW f \in 1..Len(walk') PROVE FrameOK(children, walk'[f])
  <2>1. CASE f = Len(walk) + 1
    BY <1>6, <1>7, <2>1
  <2>2. CASE f \in 1..Len(walk)
    BY <1>1, <1>4, <1>5, <1>7, <2>2
  <2> QED BY <1>1, <1>7, <2>1, <2>2
<1>9. \A f \in 1..Len(walk') : StartsKept(ctx, walk'[f])
  BY <1>0 DEF StartsKept
<1> QED BY <1>7, <1>8, <1>9, WalksStep DEF InitChildren

\* The steps that evaluate, judge and compare.
LEMMA AskStep ==
  ASSUME IInv, AskStatus \/ Judge \/ Initialize \/ Ask \/ Match
  PROVE  IInv'
<1>0. walk # <<>> /\ ctx = <<>> /\ Walker.phase # "next" /\ Calls(node, children, ctx)
  BY DEF IInv, AskStatus, Judge, Initialize, Ask, Match, Walking
<1>1. CASE AskStatus
  <2>1. Calls(node, children, ctx') /\ ListsWithin(ctx, ctx', Null)
    BY <1>0, <1>1, NamesAssumption, EvaluateStep DEF AskStatus
  <2>2. PICK phase \in {"ini", "judge"} : Continue([Walker EXCEPT !.phase = phase])
    BY <1>1 DEF AskStatus
  <2>3. phase \in Phases
    BY DEF Phases
  <2> QED BY <1>0, <1>1, <2>1, <2>2, <2>3, PhaseStep DEF AskStatus
<1>2. CASE Judge
  <2>1. Calls(node, children, ctx') /\ ListsWithin(ctx, ctx', Null)
    BY <1>0, <1>2, WithinItself DEF Judge
  <2>2. PICK phase \in {"ini", "down", "next"} : Continue([Walker EXCEPT !.phase = phase])
    BY <1>2 DEF Judge
  <2>3. phase \in Phases
    BY DEF Phases
  <2> QED BY <1>0, <1>2, <2>1, <2>2, <2>3, PhaseStep DEF Judge
<1>3. CASE Initialize
  <2>1. Calls(node, children, ctx') /\ ListsWithin(ctx, ctx', Null)
    BY <1>0, <1>3, NamesAssumption, EvaluateStep DEF Initialize
  <2>2. "down" \in Phases /\ Continue([Walker EXCEPT !.phase = "down"])
    BY <1>3 DEF Phases, Initialize
  <2> QED BY <1>0, <1>3, <2>1, <2>2, PhaseStep DEF Initialize
<1>4. CASE Ask
  <2>1. PICK name \in Asked : Evaluate(name)
    BY <1>4 DEF Ask
  <2>2. name \in Names
    BY NamesAssumption
  <2>3. Calls(node, children, ctx') /\ ListsWithin(ctx, ctx', Null)
    BY <1>0, <2>1, <2>2, EvaluateStep
  <2>4. "match" \in Phases /\ Continue([Walker EXCEPT !.phase = "match"])
    BY <1>4 DEF Phases, Ask
  <2> QED BY <1>0, <1>4, <2>3, <2>4, PhaseStep DEF Ask
<1>5. CASE Match
  <2>1. CASE walk' = <<>>
    <3>1. walk' \in Seq(Frames(node)) /\ Len(walk') = 0
      BY <2>1
    <3> QED BY <1>5, <3>1, WalksStep DEF Match
  <2>2. CASE Continue([Walker EXCEPT !.phase = "next"])
    <3>1. Calls(node, children, ctx') /\ ListsWithin(ctx, ctx', Null)
      BY <1>0, <1>5, WithinItself DEF Match
    <3>2. "next" \in Phases
      BY DEF Phases
    <3> QED BY <1>0, <1>5, <2>2, <3>1, <3>2, PhaseStep DEF Match
  <2> QED BY <1>5, <2>1, <2>2 DEF Match
<1> QED BY <1>1, <1>2, <1>3, <1>4, <1>5

(***************************************************************************)
(* The namespace that lai_create_root() leaves.                            *)
(***************************************************************************)

\* A table with the first m predefined devices, the nodes 2 to m + 1.
HoldsFirst(t, m) ==
    /\ WellFormed(t)
    /\ \A k \in Used(t) : \E j \in 1..m :
         t.elem[k] = j + 1 /\ t.hash[k] = Hash[Predefined[j]]
    /\ \A j \in 1..m : \E k \in Used(t) : t.elem[k] = j + 1
    /\ \A k, l \in Used(t) : t.elem[k] = t.elem[l] => k = l

LEMMA PredefinedType ==
  /\ Len(Predefined) \in Nat /\ Len(Predefined) >= 1
  /\ DOMAIN Predefined = 1..Len(Predefined)
  /\ \A i \in 1..Len(Predefined) : Predefined[i] \in Names /\ Hash[Predefined[i]] \in Int
<1>1. Predefined \in Seq(Names) /\ Predefined # <<>>
  BY NamesAssumption
<1>2. /\ Len(Predefined) \in Nat /\ Len(Predefined) >= 1
      /\ DOMAIN Predefined = 1..Len(Predefined)
  BY <1>1, EmptySeq, LenProperties
<1>3. \A i \in 1..Len(Predefined) : Predefined[i] \in Names
  BY <1>1
<1> QED BY <1>2, <1>3, HashTypes

LEMMA HoldsNext ==
  ASSUME NEW m \in 1..Len(Predefined), NEW t, HoldsFirst(t, m - 1)
  PROVE  HoldsFirst(Insert(t, Hash[Predefined[m]], m + 1), m)
<1> DEFINE h == Hash[Predefined[m]]
           u == Insert(t, h, m + 1)
<1>1. WellFormed(t) /\ h \in Int /\ m + 1 \in Nat \ {0} /\ m \in Nat
  BY PredefinedType DEF HoldsFirst
<1> HIDE DEF h, u
<1>2. WellFormed(u) /\ \E k \in Nat : Adds(t, u, k, h, m + 1)
  BY <1>1, InsertAdds DEF u
<1>3. PICK n \in Nat : Adds(t, u, n, h, m + 1)
  BY <1>2
<1>4. /\ Used(u) = Used(t) \cup {n} /\ u.elem[n] = m + 1 /\ u.hash[n] = h /\ n \notin Used(t)
      /\ \A k \in Used(t) : u.elem[k] = t.elem[k] /\ u.hash[k] = t.hash[k]
  BY <1>3 DEF Adds
<1>5. ASSUME NEW k \in Used(u)
      PROVE  \E j \in 1..m : u.elem[k] = j + 1 /\ u.hash[k] = Hash[Predefined[j]]
  <2>1. CASE k = n
    <3>1. m \in 1..m
      BY <1>1
    <3> QED BY <1>4, <2>1, <3>1 DEF h
  <2>2. CASE k \in Used(t)
    <3>1. PICK j \in 1..m - 1 : t.elem[k] = j + 1 /\ t.hash[k] = Hash[Predefined[j]]
      BY <2>2 DEF HoldsFirst
    <3>2. j \in 1..m
      BY <1>1
    <3> QED BY <1>4, <2>2, <3>1, <3>2
  <2> QED BY <1>4, <2>1, <2>2
<1>6. ASSUME NEW j \in 1..m PROVE \E k \in Used(u) : u.elem[k] = j + 1
  <2>1. CASE j = m
    BY <1>4, <2>1
  <2>2. CASE j # m
    <3>1. j \in 1..m - 1
      BY <1>1, <2>2
    <3>2. PICK k \in Used(t) : t.elem[k] = j + 1
      BY <3>1 DEF HoldsFirst
    <3> QED BY <1>4, <3>2
  <2> QED BY <2>1, <2>2
<1>7. \A k \in Used(t) : t.elem[k] # m + 1
  <2> SUFFICES ASSUME NEW k \in Used(t) PROVE t.elem[k] # m + 1
    OBVIOUS
  <2>1. PICK j \in 1..m - 1 : t.elem[k] = j + 1
    BY DEF HoldsFirst
  <2> QED BY <1>1, <2>1
<1>8. \A k, l \in Used(u) : u.elem[k] = u.elem[l] => k = l
  BY <1>4, <1>7 DEF HoldsFirst
<1>9. HoldsFirst(u, m)
  BY <1>2, <1>5, <1>6, <1>8 DEF HoldsFirst
<1> QED BY <1>9 DEF u, h

\* The table of the root.
LEMMA FirstTable ==
  ASSUME Init
  PROVE  HoldsFirst(children[Root], Len(Predefined))
<1> DEFINE n == Len(Predefined)
           S == {t \in UNION {Shape(c, 2 * c) : c \in Nat} : WellFormed(t)}
           Installing(t, i) == Insert(t, Hash[Predefined[i]], i + 1)
           F == [p \in S \X (1..n) |-> Installing(p[1], p[2])]
<1>0. n \in Nat /\ n >= 1 /\ \A i \in 1..n : Hash[Predefined[i]] \in Int
  BY PredefinedType
<1>1. \A t : WellFormed(t) => t \in S
  BY DEF WellFormed
<1>2. EmptyTable \in S
  BY <1>1, EmptyWellFormed
<1>3. \A t \in S : \A i \in 1..n : Installing(t, i) \in S
  <2> SUFFICES ASSUME NEW t \in S, NEW i \in 1..n PROVE Installing(t, i) \in S
    OBVIOUS
  <2>1. WellFormed(t) /\ Hash[Predefined[i]] \in Int /\ i + 1 \in Nat \ {0}
    BY <1>0
  <2>2. WellFormed(Installing(t, i))
    BY <2>1, InsertAdds
  <2> HIDE DEF S, Installing
  <2> QED BY <1>1, <2>2
<1>4. PICK g \in [0..n -> S] : Iterates(g, EmptyTable, F, n)
  <2> HIDE DEF S, Installing, n
  <2>1. F \in Steps(S, n)
    BY <1>3 DEF Steps
  <2> HIDE DEF F
  <2> QED BY <1>0, <1>2, <2>1, RecursionExists
<1>5. g[0] = EmptyTable /\ \A i \in 1..n : g[i] = Installing(g[i - 1], i)
  <2> HIDE DEF S, Installing, n
  <2>1. g[0] = EmptyTable
    BY <1>4 DEF Iterates
  <2>2. ASSUME NEW i \in 1..n PROVE g[i] = Installing(g[i - 1], i)
    <3>1. i - 1 \in 0..n
      BY <1>0
    <3>2. <<g[i - 1], i>> \in S \X (1..n)
      BY <3>1
    <3>3. F[<<g[i - 1], i>>] = Installing(g[i - 1], i)
      BY <3>2
    <3> QED BY <1>4, <3>3 DEF Iterates
  <2> QED BY <2>1, <2>2
<1> DEFINE table[i \in 0..n] ==
             IF i = 0 THEN EmptyTable
             ELSE Insert(table[i - 1], Hash[Predefined[i]], i + 1)
<1>6. g = [i \in 0..n |-> IF i = 0 THEN EmptyTable
                          ELSE Insert(g[i - 1], Hash[Predefined[i]], i + 1)]
  <2> HIDE DEF S, n
  <2>1. ASSUME NEW i \in 0..n
        PROVE  g[i] = IF i = 0 THEN EmptyTable
                      ELSE Insert(g[i - 1], Hash[Predefined[i]], i + 1)
    <3>1. CASE i = 0
      BY <1>5, <3>1
    <3>2. CASE i # 0
      <4>1. i \in 1..n
        BY <1>0, <3>2
      <4> QED BY <1>5, <3>2, <4>1
    <3> QED BY <3>1, <3>2
  <2> QED BY <2>1
<1>7. table = [i \in 0..n |-> IF i = 0 THEN EmptyTable
                              ELSE Insert(table[i - 1], Hash[Predefined[i]], i + 1)]
  <2> HIDE DEF S, n
  <2> QED BY <1>6
<1>8. children[Root] = table[n]
  BY DEF Init, Root
<1> HIDE DEF table, S, F, n, Installing
<1>9. table[0] = EmptyTable
      /\ \A i \in 1..n : table[i] = Insert(table[i - 1], Hash[Predefined[i]], i + 1)
  <2>1. table[0] = EmptyTable
    BY <1>0, <1>7
  <2>2. ASSUME NEW i \in 1..n
        PROVE  table[i] = Insert(table[i - 1], Hash[Predefined[i]], i + 1)
    <3>1. i \in 0..n /\ i # 0
      OBVIOUS
    <3> QED BY <1>7, <3>1
  <2> QED BY <2>1, <2>2
<1> DEFINE T == {i \in 0..n : HoldsFirst(table[i], i)}
<1>10. 0 \in T
  <2>1. HoldsFirst(EmptyTable, 0)
    BY EmptyWellFormed DEF HoldsFirst
  <2> QED BY <1>0, <1>9, <2>1
<1>11. \A i \in 1..n : i - 1 \in T => i \in T
  <2> SUFFICES ASSUME NEW i \in 1..n, i - 1 \in T PROVE i \in T
    OBVIOUS
  <2>1. HoldsFirst(Insert(table[i - 1], Hash[Predefined[i]], i + 1), i)
    BY HoldsNext DEF n
  <2> QED BY <1>9, <2>1
<1>12. n \in T
  <2> HIDE DEF T
  <2>1. \A i \in 0..n : i \in T
    BY <1>0, <1>10, <1>11, IntervalInduction
  <2> QED BY <1>0, <2>1
<1> QED BY <1>8, <1>12 DEF n

LEMMA FirstNodes ==
  ASSUME Init
  PROVE  /\ NodesOK(node) /\ Len(node) = Len(Predefined) + 1
         /\ \A j \in 1..Len(Predefined) :
              /\ node[j + 1].name = Predefined[j] /\ node[j + 1].parent = Root
              /\ node[j + 1].origin = "block"
<1> DEFINE n == Len(Predefined)
           root == NewNode("\\", "ROOT", Null, Null, "block")
           Device(i) == NewNode(Predefined[i], "DEVICE", Root, Null, "block")
           devices == [i \in DOMAIN Predefined |-> Device(i)]
<1>0. /\ n \in Nat /\ n >= 1 /\ DOMAIN Predefined = 1..n
      /\ \A i \in 1..n : Predefined[i] \in Names
  BY PredefinedType
<1>1. root \in NodeRecords /\ root.kind = "ROOT" /\ root.parent = Null
  BY DEF NewNode, NodeRecords, Kinds, Pointers, Origins, Null
<1>2. \A i \in 1..n : /\ Device(i) \in NodeRecords /\ Device(i).kind = "DEVICE"
                      /\ Device(i).parent = Root /\ Device(i).name = Predefined[i]
                      /\ Device(i).origin = "block"
  BY <1>0 DEF NewNode, NodeRecords, Kinds, Pointers, Origins, Null, Root
<1>3. node = <<root>> \o devices
  BY DEF Init
<1> HIDE DEF root, Device
<1>4. devices \in Seq(NodeRecords) /\ Len(devices) = n /\ \A i \in 1..n : devices[i] = Device(i)
  BY <1>0, <1>2
<1> HIDE DEF devices, n
<1>5. <<root>> \in Seq(NodeRecords) /\ Len(<<root>>) = 1 /\ <<root>>[1] = root
  BY <1>1
<1>6. /\ node \in Seq(NodeRecords) /\ Len(node) = 1 + n
      /\ \A i \in 1..1 + n : node[i] = IF i <= 1 THEN <<root>>[i] ELSE devices[i - 1]
  BY <1>3, <1>4, <1>5, ConcatProperties
<1>7. node[1] = root /\ \A j \in 1..n : node[j + 1] = Device(j)
  <2>1. node[1] = root
    BY <1>0, <1>5, <1>6
  <2>2. ASSUME NEW j \in 1..n PROVE node[j + 1] = Device(j)
    <3>1. j + 1 \in 1..1 + n /\ ~(j + 1 <= 1) /\ (j + 1) - 1 = j
      BY <1>0
    <3> QED BY <1>4, <1>6, <3>1
  <2> QED BY <2>1, <2>2
<1>8. ASSUME NEW i \in 1..Len(node)
      PROVE  node[i].parent \in 0..Len(node) /\ node[i].kind # "ALIAS"
  <2>1. CASE i = 1
    BY <1>0, <1>1, <1>6, <1>7, <2>1 DEF Null
  <2>2. CASE i # 1
    <3>1. i - 1 \in 1..n /\ (i - 1) + 1 = i
      BY <1>0, <1>6, <2>2
    <3>2. node[i] = Device(i - 1)
      BY <1>7, <3>1
    <3>3. Device(i - 1).parent = Root /\ Device(i - 1).kind = "DEVICE"
      BY <1>2, <3>1
    <3>4. node[i].parent = Root /\ node[i].kind = "DEVICE"
      BY <3>2, <3>3
    <3> QED BY <1>0, <1>6, <3>4 DEF Root
  <2> QED BY <2>1, <2>2
<1>9. NodesOK(node)
  BY <1>0, <1>1, <1>6, <1>7, <1>8 DEF NodesOK, Root
<1> QED BY <1>0, <1>2, <1>6, <1>7, <1>9 DEF n

LEMMA InitIInv ==
  ASSUME Init
  PROVE  IInv
<1> DEFINE n == Len(Predefined)
           t == children[Root]
<1>0. /\ n \in Nat /\ n >= 1 /\ DOMAIN Predefined = 1..n
      /\ \A i \in 1..n : Predefined[i] \in Names
  BY PredefinedType
<1>1. /\ NodesOK(node) /\ Len(node) = n + 1
      /\ \A j \in 1..n : /\ node[j + 1].name = Predefined[j] /\ node[j + 1].parent = Root
                         /\ node[j + 1].origin = "block"
  BY FirstNodes
<1>2. HoldsFirst(t, n)
  BY FirstTable
<1>3. /\ children = [p \in 1..n + 1 |-> children[p]]
      /\ \A p \in 1..n + 1 : p # Root => children[p] = EmptyTable
  BY DEF Init
<1>4. array = [i \in 1..n |-> i + 1] /\ ctx = <<>> /\ walk = <<>> /\ status = "ok"
  BY <1>0 DEF Init
<1> HIDE DEF n, t
<1>5. ChildrenOK(node, Root, t)
  <2>1. ASSUME NEW k \in Used(t) PROVE SlotOK(node, Root, t, k)
    <3>1. PICK j \in 1..n : t.elem[k] = j + 1 /\ t.hash[k] = Hash[Predefined[j]]
      BY <1>2 DEF HoldsFirst
    <3>2. j + 1 \in 2..Len(node)
      BY <1>0, <1>1
    <3> QED BY <1>0, <1>1, <3>1, <3>2 DEF SlotOK
  <2>2. ASSUME NEW k \in Used(t), NEW l \in Used(t),
               node[t.elem[k]].name = node[t.elem[l]].name
        PROVE  k = l
    <3>1. PICK i \in 1..n : t.elem[k] = i + 1
      BY <1>2 DEF HoldsFirst
    <3>2. PICK j \in 1..n : t.elem[l] = j + 1
      BY <1>2 DEF HoldsFirst
    <3>3. Predefined[i] = Predefined[j]
      BY <1>1, <2>2, <3>1, <3>2
    <3>4. i = j
      BY <1>0, <3>3, NamesAssumption
    <3> QED BY <1>2, <3>1, <3>2, <3>4 DEF HoldsFirst
  <2> QED BY <1>2, <2>1, <2>2 DEF ChildrenOK, HoldsFirst
<1>6. TreeOK(node, children)
  <2>1. ASSUME NEW p \in 1..n + 1 PROVE ChildrenOK(node, p, children[p])
    <3>1. CASE p = Root
      BY <1>5, <3>1 DEF t
    <3>2. CASE p # Root
      BY <1>3, <3>2, EmptyChildren
    <3> QED BY <3>1, <3>2
  <2> QED BY <1>1, <1>3, <2>1 DEF TreeOK
<1>7. \A m : m \in AllIn(children) <=> \E j \in 1..n : m = j + 1
  <2>1. ASSUME NEW m \in AllIn(children) PROVE \E j \in 1..n : m = j + 1
    <3>1. PICK p \in DOMAIN children : \E k \in Used(children[p]) : children[p].elem[k] = m
      BY ONLY <2>1, AllInElements
    <3>2. p \in 1..n + 1
      BY <1>3
    <3>3. p = Root
      BY <1>3, <3>1, <3>2, EmptyWellFormed
    <3>4. PICK k \in Used(t) : t.elem[k] = m
      BY <3>1, <3>3 DEF t
    <3> QED BY <1>2, <3>4 DEF HoldsFirst
  <2>2. ASSUME NEW j \in 1..n PROVE j + 1 \in AllIn(children)
    <3>1. PICK k \in Used(t) : t.elem[k] = j + 1
      BY <1>2 DEF HoldsFirst
    <3>2. Root \in DOMAIN children
      BY <1>0, <1>3 DEF Root
    <3>3. \E l \in Used(children[Root]) : children[Root].elem[l] = j + 1
      BY <3>1 DEF t
    <3> QED BY ONLY <3>2, <3>3, AllInElements
  <2> QED BY <2>1, <2>2
<1>8. ArrayOK(node, array, children)
  <2>1. array \in Seq(Nat) /\ Len(array) = n /\ \A i \in 1..n : array[i] = i + 1
    BY <1>0, <1>4
  <2>2. \A i \in 1..n : i + 1 \in AllIn(children) /\ node[i + 1].origin # "refused"
    BY <1>1, <1>7
  <2>3. ASSUME NEW m \in AllIn(children) PROVE array[m - 1] = m
    <3>1. PICK j \in 1..n : m = j + 1
      BY <1>7
    <3>2. m - 1 = j
      BY <1>0, <3>1
    <3> QED BY <2>1, <3>1, <3>2
  <2>4. Len(array) = Len(node) - 1
    BY <1>0, <1>1, <2>1
  <2> HIDE DEF t
  <2> QED BY <2>1, <2>2, <2>3, <2>4 DEF ArrayOK
<1>9. FirstDevice(node, children)
  <2>1. 1 \in 1..n
    BY <1>0
  <2>2. PICK k \in Used(t) : t.elem[k] = 1 + 1
    BY <1>2, <2>1 DEF HoldsFirst
  <2>3. node[t.elem[k]].name = Predefined[1] /\ node[t.elem[k]].origin = "block"
    BY <1>1, <2>1, <2>2
  <2> QED BY <2>2, <2>3 DEF FirstDevice, t
<1>10. Calls(node, children, ctx)
  BY <1>4, EmptyCalls
<1>11. Walks(node, children, ctx, walk)
  <2>1. walk \in Seq(Frames(node)) /\ Len(walk) = 0
    BY <1>4
  <2> QED BY <2>1 DEF Walks
<1> QED BY <1>4, <1>6, <1>8, <1>9, <1>10, <1>11 DEF IInv, World

(***************************************************************************)
(* Every step.                                                             *)
(***************************************************************************)
LEMMA LoadStep ==
  ASSUME IInv, Load
  PROVE  IInv'
<1>1. Root \in 1..Len(node) /\ node[Root].kind # "ALIAS"
  BY InstalledIs DEF IInv, World, TreeOK, NodesOK, Root
<1>2. ctx' = Append(ctx, Block(Root))
  BY DEF Load
<1> QED BY <1>1, <1>2, PushStep DEF Load

LEMMA NextIInv ==
  ASSUME IInv, [Next]_vars
  PROVE  IInv'
<1>1. CASE UNCHANGED vars
  BY <1>1 DEF vars, IInv
<1>2. CASE RunAML
  <2>1. CASE Load
    BY <2>1, LoadStep
  <2>2. CASE \E m \in Methods : Invoke(m)
    <3>1. PICK m \in Methods : Invoke(m)
      BY <2>2
    <3>2. m \in 1..Len(node) /\ node[m].kind # "ALIAS"
      BY MethodsType
    <3> QED BY <3>1, <3>2, PushStep DEF Invoke
  <2>3. CASE Abort
    BY <2>3, FailStep DEF Abort, Fail, IInv
  <2>4. ASSUME NEW term \in Terms,
               \/ OpenDevice(term) \/ DefineName(term) \/ DefineLeaf(term)
               \/ DefineAlias(term) \/ Duplicate(term) \/ Nowhere(term) \/ OpenScope(term)
        PROVE  IInv'
    <3>1. CASE DefineName(term) \/ DefineLeaf(term) \/ DefineAlias(term)
      <4>1. Install(term) /\ ctx' = AfterLink(Len(node) + 1)
        BY <3>1 DEF DefineName, DefineLeaf, DefineAlias, AfterLink
      <4> QED BY <4>1, DefineStep
    <3>2. CASE Nowhere(term)
      <4>1. Calls(node, children, ctx') /\ ListsWithin(ctx, ctx', Null)
        BY <3>2, WithinItself DEF Nowhere, IInv
      <4> QED BY <3>2, <4>1, CallsStep DEF Nowhere
    <3> QED BY <2>4, <3>1, <3>2, OpenDeviceStep, DuplicateStep, OpenScopeStep
  <2> QED BY <1>2, <2>1, <2>2, <2>3, <2>4, EndBlockStep, ReturnStep, UninstallStep,
          EndMethodStep DEF RunAML
<1>3. CASE RunLoops
  <2>1. CASE \E kind \in {"init", "find"} : StartWalk(kind, Child(Root, Predefined[1]))
    BY <2>1, StartWalkStep
  <2> QED BY <1>3, <2>1, IterateStep, FinishWalkStep, AskStep, InitChildrenStep DEF RunLoops
<1> QED BY <1>1, <1>2, <1>3 DEF Next

LEMMA SpecIInv == Spec => []IInv
<1>1. Init => IInv
  BY InitIInv
<1>2. IInv /\ [Next]_vars => IInv'
  BY NextIInv
<1> QED BY <1>1, <1>2, PTL DEF Spec

(***************************************************************************)
(* The theorems.                                                           *)
(***************************************************************************)

\* The variables have their types: nodes, array, tables, contexts and loops refer
\* to nodes that exist.
THEOREM TypeIsOK == Spec => []TypeOK
<1>1. ASSUME IInv PROVE TypeOK
  <2>0. TreeOK(node, children)
    BY <1>1 DEF IInv, World
  <2>1. Nodes = 1..Len(node) /\ Len(node) \in Nat
    BY <2>0, InstalledIs
  <2>2. node \in Seq([name : Names \cup {"\\"}, kind : Kinds, parent : Pointers,
                     target : Pointers, origin : Origins])
    BY <2>0 DEF TreeOK, NodesOK, NodeRecords
  <2>3. array \in Seq(Pointers)
    BY <1>1 DEF IInv, World, ArrayOK, Pointers
  <2>4. DOMAIN children = Nodes
    <3>1. children = [p \in 1..Len(node) |-> children[p]]
      BY <2>0 DEF TreeOK
    <3> QED BY ONLY <2>1, <3>1
  <2>5. ctx \in Seq([handle : Nodes, method : BOOLEAN, list : Seq(Nodes),
                    ending : BOOLEAN, before : SUBSET Nodes])
    BY <1>1, <2>1 DEF IInv, Calls, Contexts
  <2>6. walk \in Seq([kind : {"init", "find"}, parent : Nodes, i : Nat, at : Pointers,
                     phase : {"next", "sta", "judge", "ini", "down", "ask", "match"},
                     start : SUBSET Nodes, seen : Seq(Nodes)])
    <3> DEFINE S == [kind : {"init", "find"}, parent : Nodes, i : Nat, at : Pointers,
                     phase : {"next", "sta", "judge", "ini", "down", "ask", "match"},
                     start : SUBSET Nodes, seen : Seq(Nodes)]
    <3>1. Frames(node) \subseteq S
      BY <2>1 DEF Frames, Pointers
    <3>2. walk \in Seq(Frames(node))
      BY <1>1 DEF IInv, Walks
    <3> HIDE DEF S
    <3>3. walk \in Seq(S)
      BY <3>1, <3>2, SeqMono
    <3> QED BY <3>3 DEF S
  <2>7. status \in {"ok", "unresolved", "missing", "twice"}
    BY <1>1 DEF IInv
  <2> QED BY <2>2, <2>3, <2>4, <2>5, <2>6, <2>7 DEF TypeOK
<1> QED BY <1>1, SpecIInv, PTL

\* Every children table is consistent after any growths, insertions and removals
\* of lai_hashtable_*(), whatever the names hash to.
THEOREM TablesAreConsistent == Spec => []TablesOK
<1>1. ASSUME IInv PROVE TablesOK
  <2>0. TreeOK(node, children) /\ Nodes = 1..Len(node)
    BY <1>1, InstalledIs DEF IInv, World
  <2>1. ASSUME NEW p \in Nodes PROVE TableOK(p)
    <3> DEFINE t == children[p]
    <3>1. WellFormed(t) /\ \A k \in Used(t) : SlotOK(node, p, t, k)
      BY <2>0 DEF TreeOK, ChildrenOK
    <3> HIDE DEF t
    <3>2. {b \in Buckets(t) : t.bucket[b] >= 0} = Full(t.bucket, t.bucket_capacity)
      BY DEF Buckets, Full
    <3>3. /\ {t.bucket[b] : b \in Full(t.bucket, t.bucket_capacity)} = Used(t)
          /\ \A b, c \in Full(t.bucket, t.bucket_capacity) : t.bucket[b] = t.bucket[c] => b = c
      <4> DEFINE F == Full(t.bucket, t.bucket_capacity)
      <4>1. Leads(t.bucket, t.bucket_capacity, Used(t)) /\ t.elem_capacity \in Nat
        BY <3>1 DEF WellFormed
      <4>2. \A k \in Used(t) : k >= 0
        BY <4>1 DEF Used, Slots
      <4>3. \A k \in Used(t) : \E b \in F : t.bucket[b] = k
        BY <4>1, <4>2 DEF Leads, Full
      <4>4. \A b \in F : t.bucket[b] \in Used(t)
        BY <4>1 DEF Leads
      <4>5. \A b, c \in F : t.bucket[b] = t.bucket[c] => b = c
        BY <4>1 DEF Leads
      <4> HIDE DEF F
      <4>6. {t.bucket[b] : b \in F} = Used(t)
        BY <4>3, <4>4
      <4> QED BY <4>5, <4>6 DEF F
    <3>4. \A k \in Used(t) : t.hash[k] = Hash[node[t.elem[k]].name]
      BY <3>1 DEF SlotOK
    <3>5. t.num_elems = Cardinality(Used(t)) /\ (t.elem_capacity > 0 => t.num_elems < t.elem_capacity)
      BY <3>1 DEF WellFormed
    <3> QED BY <3>2, <3>3, <3>4, <3>5 DEF TableOK, t
  <2> QED BY <2>1 DEF TablesOK
<1> QED BY <1>1, SpecIInv, PTL

\* lai_ns_get_child() finds a child exactly while the table of its parent has it.
THEOREM LookupsAreExact == Spec => []LookupsFind
<1>1. ASSUME IInv PROVE LookupsFind
  <2>0. TreeOK(node, children) /\ Nodes = 1..Len(node)
    BY <1>1, InstalledIs DEF IInv, World
  <2> SUFFICES ASSUME NEW p \in Nodes, NEW name \in Names
               PROVE  LET named == {n \in Elements(children[p]) : node[n].name = name}
                      IN  {Child(p, name)} = IF named = {} THEN {Null} ELSE named
    BY DEF LookupsFind
  <2> DEFINE t == children[p]
             named == {n \in Elements(t) : node[n].name = name}
  <2>1. \A n : n \in named <=> \E k \in Used(t) : t.elem[k] = n /\ node[n].name = name
    BY DEF Elements
  <2>2. \A j, k \in Used(t) : node[t.elem[j]].name = node[t.elem[k]].name => j = k
    BY <2>0 DEF TreeOK, ChildrenOK
  <2>3. \/ Child(p, name) = Null /\ \A k \in Used(t) : node[t.elem[k]].name # name
        \/ \E k \in Used(t) : Child(p, name) = t.elem[k] /\ node[t.elem[k]].name = name
    BY <2>0, ChildFound
  <2> HIDE DEF named, t
  <2>4. CASE Child(p, name) = Null /\ \A k \in Used(t) : node[t.elem[k]].name # name
    <3>1. named = {}
      BY <2>1, <2>4
    <3> QED BY <2>4, <3>1 DEF named, t
  <2>5. CASE \E k \in Used(t) : Child(p, name) = t.elem[k] /\ node[t.elem[k]].name = name
    <3>1. PICK k \in Used(t) : Child(p, name) = t.elem[k] /\ node[t.elem[k]].name = name
      BY <2>5
    <3>2. Child(p, name) \in named
      BY <2>1, <3>1
    <3>3. \A n \in named : n = Child(p, name)
      BY <2>1, <2>2, <3>1
    <3>4. named = {Child(p, name)} /\ named # {}
      BY <3>2, <3>3
    <3> QED BY <3>4 DEF named, t
  <2> QED BY <2>3, <2>4, <2>5
<1> QED BY <1>1, SpecIInv, PTL

\* lai_instance.ns_array and the children tables agree: lai_install_nsnode() and
\* lai_uninstall_nsnode() keep the two in step, duplicates included.
THEOREM ArrayAgrees == Spec => []ArrayCoversTables
<1>1. ASSUME IInv PROVE ArrayCoversTables
  <2>0. TreeOK(node, children) /\ ArrayOK(node, array, children)
    BY <1>1 DEF IInv, World
  <2>1. /\ Nodes = 1..Len(node) /\ Len(node) \in Nat /\ Installed = AllIn(children)
        /\ \A n \in AllIn(children) : n \in 2..Len(node)
    BY <2>0, InstalledIs
  <2>2. /\ DOMAIN array = 1..Len(array) /\ Len(array) = Len(node) - 1
        /\ \A i \in 1..Len(array) :
             /\ array[i] \in {Null, i + 1}
             /\ array[i] # Null => (i + 1 \in AllIn(children) <=> node[i + 1].origin # "refused")
        /\ \A n \in AllIn(children) : array[n - 1] = n
    BY <2>0, LenProperties DEF ArrayOK
  <2>3. \A n \in Installed : \E i \in DOMAIN array : array[i] = n
    <3> SUFFICES ASSUME NEW n \in AllIn(children) PROVE \E i \in 1..Len(array) : array[i] = n
      BY <2>1, <2>2
    <3>1. n - 1 \in 1..Len(array) /\ array[n - 1] = n
      BY <2>1, <2>2
    <3> QED BY <3>1
  <2>4. \A i \in DOMAIN array : array[i] # Null =>
           (array[i] \in Installed <=> node[array[i]].origin # "refused")
    BY <2>1, <2>2
  <2>5. \A i, j \in DOMAIN array : array[i] = array[j] /\ array[i] # Null => i = j
    <3> SUFFICES ASSUME NEW i \in 1..Len(array), NEW j \in 1..Len(array),
                        array[i] = array[j], array[i] # Null
                 PROVE  i = j
      BY <2>2
    <3>1. array[i] = i + 1 /\ array[j] = j + 1
      BY <2>2
    <3>2. i + 1 = j + 1
      BY <3>1
    <3> QED BY ONLY <3>2, i \in 1..Len(array), j \in 1..Len(array)
  <2>6. \A p \in Nodes : \A n \in Elements(children[p]) : node[n].parent = p
    BY <2>0, <2>1 DEF TreeOK, ChildrenOK, SlotOK, Elements
  <2> QED BY <2>3, <2>4, <2>5, <2>6 DEF ArrayCoversTables
<1> QED BY <1>1, SpecIInv, PTL

\* lai_uninstall_nsnode() finds every node that a method leaves behind, once: its
\* panics are not reached.
THEOREM UninstallAlwaysFinds == Spec => []UninstallFinds
<1>1. IInv => UninstallFinds
  BY DEF IInv, UninstallFinds
<1> QED BY <1>1, SpecIInv, PTL

\* No alias leads to an alias or is a scope: the LAI_ENSUREs of lai_do_resolve()
\* hold.
THEOREM AliasesStayFlat == Spec => []AliasesAreFlat
<1>1. ASSUME IInv PROVE AliasesAreFlat
  <2>0. TreeOK(node, children) /\ Calls(node, children, ctx)
    BY <1>1 DEF IInv, World
  <2>1. Nodes = 1..Len(node) /\ DOMAIN ctx = 1..Len(ctx)
    BY <2>0, InstalledIs, LenProperties DEF Calls
  <2>2. \A n \in Nodes : node[n].kind = "ALIAS" =>
          node[n].target \in Nodes /\ node[node[n].target].kind # "ALIAS"
    BY <2>0, <2>1 DEF TreeOK, NodesOK
  <2>3. \A i \in DOMAIN ctx : node[ctx[i].handle].kind # "ALIAS"
    BY <2>0, <2>1 DEF Calls
  <2> QED BY <2>2, <2>3 DEF AliasesAreFlat
<1> QED BY <1>1, SpecIInv, PTL

\* "Clean up all per-method namespace nodes.": lai_exec_process() takes away what
\* a method installed and nothing else, however its steps interleave with those of
\* the methods and blocks inside it.
THEOREM CallsRestore == Spec => CallRestoresNamespace
<1> DEFINE Restored ==
             Len(ctx') < Len(ctx) /\ Ending =>
               /\ Top.before \subseteq Installed'
               /\ \A n \in Installed' \ Top.before : node[n].origin = "block"
<1>1. ASSUME IInv, [Next]_vars PROVE [Restored]_vars
  <2> SUFFICES ASSUME Next, Len(ctx') < Len(ctx), Ending
               PROVE  /\ Top.before \subseteq Installed'
                      /\ \A n \in Installed' \ Top.before : node[n].origin = "block"
    BY <1>1
  <2>0. ctx # <<>> /\ Top.ending
    BY DEF Ending
  <2>1. UninstallFirst \/ EndMethod
    <3>1. ~Executing
      BY <2>0 DEF Executing
    <3>2. RunAML
      BY <2>0 DEF Next, RunLoops, StartWalk, Iterate, FinishWalk, AskStatus, Judge,
                  Initialize, InitChildren, Ask, Match, Walking
    <3>3. ~Load /\ \A m \in Methods : ~Invoke(m)
      BY <2>0 DEF Load, Invoke
    <3>4. \A term \in Terms : ~(\/ OpenDevice(term) \/ DefineName(term) \/ DefineLeaf(term)
                                \/ DefineAlias(term) \/ Duplicate(term) \/ Nowhere(term)
                                \/ OpenScope(term))
      BY <3>1 DEF OpenDevice, DefineName, DefineLeaf, DefineAlias, Duplicate, Nowhere,
                  OpenScope, Install, Create
    <3> QED BY <3>1, <3>2, <3>3, <3>4 DEF RunAML, Abort, EndBlock, Return
  <2>2. Len(ctx) \in 1..Len(ctx) /\ Len(ctx) \in Nat /\ Top.method
        /\ ctx \in Seq(Contexts(node)) /\ Top \in Contexts(node)
    BY <1>1, <2>0, TopType DEF IInv, Calls
  <2>3. ~UninstallFirst
    <3> SUFFICES ASSUME UninstallFirst PROVE FALSE
      OBVIOUS
    <3>1. \E e : ctx' = [ctx EXCEPT ![Len(ctx)] = e]
      BY DEF UninstallFirst, WithTop
    <3>2. Len(ctx') = Len(ctx)
      BY <2>2, <3>1
    <3> QED BY <2>2, <3>2
  <2>4. Top.list = <<>> /\ UNCHANGED <<node, children>>
    BY <2>1, <2>3 DEF EndMethod
  <2>5. SinceCall(node, children, ctx, Len(ctx))
    BY <1>1, <2>2 DEF IInv, Calls, Top
  <2>6. \A d \in Len(ctx)..Len(ctx) : Len(ctx[d].list) = 0
    BY <2>2, <2>4 DEF Top
  <2>7. Installed = AllIn(children) /\ Installed' = Installed
    <3>1. Installed = AllIn(children)
      BY <1>1, InstalledIs DEF IInv, World
    <3>2. Installed' = Installed
      BY <2>4 DEF Installed, Nodes
    <3> QED BY <3>1, <3>2
  <2> QED BY <2>5, <2>6, <2>7 DEF SinceCall, Top
<1>2. CallRestoresNamespace <=> [][Restored]_vars
  BY DEF CallRestoresNamespace
<1> HIDE DEF Restored
<1> QED BY <1>1, <1>2, SpecIInv, PTL DEF Spec

\* lai_ns_child_iterate() returns every child that was there when its loop began
\* once, although the methods that the loop evaluates change the table.
THEOREM ChildrenOnce == Spec => EveryChildOnce
<1> DEFINE Once ==
             Len(walk') < Len(walk) /\ Walker.phase = "next" =>
               /\ \A n \in Walker.start : \E i \in DOMAIN Walker.seen : Walker.seen[i] = n
               /\ \A i, j \in DOMAIN Walker.seen : Walker.seen[i] = Walker.seen[j] => i = j
<1>1. ASSUME IInv, [Next]_vars PROVE [Once]_vars
  <2> SUFFICES ASSUME Next, Len(walk') < Len(walk), Walker.phase = "next"
               PROVE  /\ \A n \in Walker.start :
                           \E i \in DOMAIN Walker.seen : Walker.seen[i] = n
                      /\ \A i, j \in DOMAIN Walker.seen :
                           Walker.seen[i] = Walker.seen[j] => i = j
    BY <1>1
  <2>0. walk # <<>>
    <3> SUFFICES ASSUME walk = <<>> PROVE FALSE
      OBVIOUS
    <3>1. Len(walk) = 0 /\ IInv'
      BY <1>1, NextIInv
    <3>2. Len(walk') \in Nat
      BY <3>1, LenProperties DEF IInv, Walks
    <3> QED BY <3>1, <3>2
  <2>1. /\ walk \in Seq(Frames(node)) /\ Len(walk) \in 1..Len(walk) /\ Len(walk) \in Nat
        /\ Walker \in Frames(node) /\ FrameOK(children, Walker)
    BY <1>1, <2>0, WalkerType
  <2>2. walk' # walk
    BY <2>1
  <2>3. ASSUME NEW w PROVE ~Continue(w)
    <3> SUFFICES ASSUME Continue(w) PROVE FALSE
      OBVIOUS
    <3>1. Len(walk') = Len(walk)
      BY <2>1 DEF Continue
    <3> QED BY <2>1, <3>1
  <2>4. RunLoops
    <3>1. ASSUME RunAML PROVE walk' = walk
      BY <3>1 DEF RunAML, Load, Invoke, Abort, OpenDevice, DefineName, DefineLeaf,
                  DefineAlias, Duplicate, Nowhere, OpenScope, Install, Create, EndBlock,
                  Return, UninstallFirst, EndMethod
    <3> QED BY <2>2, <3>1, SMTT(30) DEF Next
  <2>5. FinishWalk
    <3>1. ~Iterate /\ ~AskStatus /\ ~Judge /\ ~Initialize /\ ~Ask
      BY <2>3 DEF Iterate, AskStatus, Judge, Initialize, Ask
    <3>2. \A kind \in {"init", "find"} : ~StartWalk(kind, Child(Root, Predefined[1]))
      BY <2>0 DEF StartWalk
    <3>3. ~InitChildren /\ ~Match
      BY DEF InitChildren, Match, Walking
    <3> QED BY <2>4, <3>1, <3>2, <3>3 DEF RunLoops
  <2> DEFINE t == children[Walker.parent]
  <2>6. \A k \in Used(t) : k \in Nat /\ k < Walker.i
    <3>1. t.elem_capacity \in Nat
      BY <1>1, <2>1 DEF IInv, World, Frames, TreeOK, ChildrenOK, WellFormed
    <3>2. \A k \in Used(t) : k \in Nat
      BY <3>1 DEF Used, Slots
    <3>3. \A k \in Used(t) : ~(k >= Walker.i)
      BY <2>5 DEF FinishWalk, SlotsAhead
    <3>4. Walker.i \in Nat
      BY <2>1 DEF Frames
    <3> HIDE DEF t
    <3> QED BY <3>2, <3>3, <3>4
  <2>7. Walker.seen \in Seq(1..Len(node)) /\ DOMAIN Walker.seen = 1..Len(Walker.seen)
    <3>1. Walker.seen \in Seq(1..Len(node))
      BY <2>1 DEF Frames
    <3> QED BY <3>1, LenProperties
  <2>8. \A n \in Walker.start : Has(Walker.seen, n)
    BY <2>1, <2>6 DEF FrameOK
  <2> QED BY <2>1, <2>7, <2>8 DEF FrameOK, Has
<1>2. EveryChildOnce <=> [][Once]_vars
  BY DEF EveryChildOnce
<1> HIDE DEF Once
<1> QED BY <1>1, <1>2, SpecIInv, PTL DEF Spec

\* The edge of a node, and those of the nodes that are in the tables.
EdgeOf(nd, n) == [parent |-> nd[n].parent, name |-> nd[n].name, node |-> n]
EdgesIn(nd, ch) == {EdgeOf(nd, n) : n \in AllIn(ch)}

LEMMA EdgesAre ==
  ASSUME TreeOK(node, children)
  PROVE  Edges = EdgesIn(node, children)
BY InstalledIs DEF Edges, EdgesIn, EdgeOf

LEMMA EdgesNext ==
  ASSUME TreeOK(node', children')
  PROVE  Edges' = EdgesIn(node', children')
<1>1. DOMAIN children' = DOMAIN node'
  <2>1. children' = [p \in 1..Len(node') |-> children'[p]] /\ DOMAIN node' = 1..Len(node')
    BY LenProperties DEF TreeOK, NodesOK
  <2> QED BY <2>1
<1>2. Installed' = AllIn(children')
  BY <1>1 DEF Installed, Nodes, AllIn
<1> QED BY <1>2 DEF Edges, EdgesIn, EdgeOf

\* Siblings have different names.
LEMMA SiblingsDiffer ==
  ASSUME NEW nd, NEW ch, TreeOK(nd, ch),
         NEW edge \in EdgesIn(nd, ch), NEW other \in EdgesIn(nd, ch),
         edge.parent = other.parent, edge.name = other.name
  PROVE  edge = other
<1>1. PICK m \in AllIn(ch) : edge = EdgeOf(nd, m)
  BY DEF EdgesIn
<1>2. PICK n \in AllIn(ch) : other = EdgeOf(nd, n)
  BY DEF EdgesIn
<1>3. nd[m].parent = nd[n].parent /\ nd[m].name = nd[n].name
  BY <1>1, <1>2 DEF EdgeOf
<1> DEFINE t == ch[nd[n].parent]
<1>4. /\ nd[n].parent \in 1..Len(nd)
      /\ \E k \in Used(t) : t.elem[k] = n
  BY InstalledWhere
<1>5. \E k \in Used(t) : t.elem[k] = m
  BY <1>3, InstalledWhere
<1>6. \A j, k \in Used(t) : nd[t.elem[j]].name = nd[t.elem[k]].name => j = k
  BY <1>4, Zenon DEF TreeOK, ChildrenOK
<1> HIDE DEF t
<1>7. m = n
  BY <1>3, <1>4, <1>5, <1>6
<1> QED BY <1>1, <1>2, <1>7

\* What is new at the end of the nodes has no edge yet, and changes no other.
LEMMA EdgesExtend ==
  ASSUME NEW nd, NEW ch, NEW nd2, NEW ch2, TreeOK(nd, ch), Extends(nd, nd2)
  PROVE  /\ AllIn(ch2) = AllIn(ch) => EdgesIn(nd2, ch2) = EdgesIn(nd, ch)
         /\ AllIn(ch2) = AllIn(ch) \cup {Len(nd) + 1} =>
              /\ EdgesIn(nd2, ch2) = EdgesIn(nd, ch) \cup {EdgeOf(nd2, Len(nd) + 1)}
              /\ EdgeOf(nd2, Len(nd) + 1) \notin EdgesIn(nd, ch)
<1>1. \A n \in AllIn(ch) : n \in 1..Len(nd) /\ n # Len(nd) + 1
  <2>1. \A n \in AllIn(ch) : n \in 2..Len(nd) /\ Len(nd) \in Nat
    BY InstalledWhere, LenProperties DEF TreeOK, NodesOK
  <2> QED BY <2>1
<1>2. \A n \in AllIn(ch) : EdgeOf(nd2, n) = EdgeOf(nd, n)
  BY <1>1 DEF Extends, EdgeOf
<1>3. \A n \in AllIn(ch) : EdgeOf(nd2, Len(nd) + 1) # EdgeOf(nd, n)
  <2> SUFFICES ASSUME NEW n \in AllIn(ch), EdgeOf(nd2, Len(nd) + 1) = EdgeOf(nd, n)
               PROVE  FALSE
    OBVIOUS
  <2>1. EdgeOf(nd2, Len(nd) + 1).node = Len(nd) + 1 /\ EdgeOf(nd, n).node = n
    BY DEF EdgeOf
  <2> QED BY <1>1, <2>1
<1> DEFINE e == EdgeOf(nd2, Len(nd) + 1)
<1>4. e = EdgeOf(nd2, Len(nd) + 1)
  OBVIOUS
<1> HIDE DEF e
<1>5. ASSUME AllIn(ch2) = AllIn(ch) PROVE EdgesIn(nd2, ch2) = EdgesIn(nd, ch)
  BY <1>2, <1>5 DEF EdgesIn
<1>6. ASSUME AllIn(ch2) = AllIn(ch) \cup {Len(nd) + 1}
      PROVE  EdgesIn(nd2, ch2) = EdgesIn(nd, ch) \cup {e} /\ e \notin EdgesIn(nd, ch)
  BY <1>2, <1>3, <1>4, <1>6 DEF EdgesIn
<1> QED BY <1>4, <1>5, <1>6

\* Taking a node out of the tables takes its edge away, and no other.
LEMMA EdgesDrop ==
  ASSUME NEW nd, NEW ch, NEW ch2, NEW n \in AllIn(ch), AllIn(ch2) = AllIn(ch) \ {n}
  PROVE  /\ EdgeOf(nd, n) \in EdgesIn(nd, ch)
         /\ EdgesIn(nd, ch2) = EdgesIn(nd, ch) \ {EdgeOf(nd, n)}
<1>1. \A m : EdgeOf(nd, m).node = m
  BY DEF EdgeOf
<1> QED BY <1>1 DEF EdgesIn

LEMMA TreeStep ==
  ASSUME IInv, IInv', [Next]_vars
  PROVE  [Tree!TreeNext]_Edges
<1>0. TreeOK(node, children) /\ TreeOK(node', children')
  BY DEF IInv, World
<1>1. Edges = EdgesIn(node, children) /\ Edges' = EdgesIn(node', children')
  BY <1>0, EdgesAre, EdgesNext
<1>2. ASSUME node' = node, children' = children PROVE Edges' = Edges
  BY <1>1, <1>2
<1>3. ASSUME NEW term \in Terms, Install(term)
      PROVE  \E edge \in Edges' \ Edges : Tree!Add(edge)
  <2> DEFINE e == EdgeOf(node', Len(node) + 1)
  <2>1. Extends(node, node') /\ AllIn(children') = AllIn(children) \cup {Len(node) + 1}
    BY <1>3, InstallStep
  <2>2. Edges' = Edges \cup {e} /\ e \notin Edges
    BY <1>0, <1>1, <2>1, EdgesExtend
  <2> HIDE DEF e
  <2>3. \A other \in Edges : other.parent = e.parent => other.name # e.name
    <3> SUFFICES ASSUME NEW other \in Edges, other.parent = e.parent, other.name = e.name
                 PROVE  FALSE
      OBVIOUS
    <3>1. other \in EdgesIn(node', children') /\ e \in EdgesIn(node', children')
      BY <1>1, <2>2
    <3>2. other = e
      BY <1>0, <3>1, SiblingsDiffer
    <3> QED BY <2>2, <3>2
  <2> QED BY <2>2, <2>3 DEF Tree!Add
<1>4. ASSUME NEW term \in Terms, Duplicate(term) PROVE Edges' = Edges
  <2>1. Extends(node, node') /\ AllIn(children') = AllIn(children)
    BY <1>4, DuplicateStep
  <2> QED BY <1>0, <1>1, <2>1, EdgesExtend
<1>5. ASSUME UninstallFirst PROVE \E edge \in Edges : Tree!Remove(edge)
  <2> DEFINE n == Top.list[1]
  <2>1. node' = node /\ n \in AllIn(children) /\ AllIn(children') = AllIn(children) \ {n}
    BY <1>5, UninstallStep
  <2> HIDE DEF n
  <2>2. EdgeOf(node, n) \in Edges /\ Edges' = Edges \ {EdgeOf(node, n)}
    BY <1>1, <2>1, EdgesDrop
  <2> QED BY <2>2 DEF Tree!Remove
<1>6. CASE UNCHANGED vars
  BY <1>2, <1>6 DEF vars
<1>7. CASE RunAML
  <2>1. CASE Load \/ Abort \/ EndBlock \/ Return \/ EndMethod \/ \E m \in Methods : Invoke(m)
    BY <1>2, <2>1 DEF Load, Abort, EndBlock, Return, EndMethod, Invoke
  <2>2. ASSUME NEW term \in Terms,
               \/ OpenDevice(term) \/ DefineName(term) \/ DefineLeaf(term)
               \/ DefineAlias(term)
        PROVE  \E edge \in Edges' \ Edges : Tree!Add(edge)
    BY <1>3, <2>2 DEF OpenDevice, DefineName, DefineLeaf, DefineAlias
  <2>3. ASSUME NEW term \in Terms, Nowhere(term) \/ OpenScope(term) PROVE Edges' = Edges
    BY <1>2, <2>3 DEF Nowhere, OpenScope
  <2> QED BY <1>4, <1>5, <1>7, <2>1, <2>2, <2>3 DEF RunAML, Tree!TreeNext
<1>8. CASE RunLoops
  BY <1>2, <1>8 DEF RunLoops, StartWalk, Iterate, FinishWalk, AskStatus, Judge, Initialize,
                    InitChildren, Ask, Match
<1> QED BY <1>6, <1>7, <1>8 DEF Next

\* lai_install_nsnode() and lai_uninstall_nsnode() implement a tree of named nodes:
\* a step adds an edge whose name no sibling has, takes one away or changes
\* nothing, although the array and the hash tables are all that the code keeps.
THEOREM TreeRefinement == Spec => ImplementsTree
<1>1. IInv => Tree!TreeInit
  <2> SUFFICES ASSUME IInv, NEW edge \in Edges, NEW other \in Edges,
                      edge.parent = other.parent, edge.name = other.name
               PROVE  edge = other
    BY DEF Tree!TreeInit
  <2>1. TreeOK(node, children)
    BY DEF IInv, World
  <2> QED BY <2>1, EdgesAre, SiblingsDiffer
<1>2. Init => Tree!TreeInit
  BY <1>1, InitIInv
<1>3. IInv /\ IInv' /\ [Next]_vars => [Tree!TreeNext]_Edges
  BY TreeStep
<1> QED BY <1>2, <1>3, SpecIInv, PTL DEF Spec, ImplementsTree, Tree!TreeSpec
===============================================================================
