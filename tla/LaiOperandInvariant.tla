------------------------- MODULE LaiOperandInvariant -------------------------
(***************************************************************************)
(* The vocabulary of LaiOperandProofs: the inductive invariants of the     *)
(* reference counts (IInv) and of the spots of objects (Ownership), and    *)
(* what holds within the operators, between the steps of their loops.      *)
(***************************************************************************)
EXTENDS LaiOperand

(***************************************************************************)
(* The places of a table: a finite set of rows, each a finite set.         *)
(***************************************************************************)

Table(S) == UNION {{r} \X S[r] : r \in DOMAIN S}

(***************************************************************************)
(* The values in a sequence, or in any function, that hold an object.      *)
(***************************************************************************)

Users(vs, o) == {i \in DOMAIN vs : Holds(vs[i], o)}
One(v, o) == IF Holds(v, o) THEN 1 ELSE 0

(***************************************************************************)
(* The values in the rows of a table that hold an object.                  *)
(***************************************************************************)

FiniteRows(rows) == IsFiniteSet(DOMAIN rows) /\ \A r \in DOMAIN rows : IsFiniteSet(DOMAIN rows[r])

\* The other rows of a table.
Others(rows, r) == [x \in DOMAIN rows \ {r} |-> rows[x]]

(***************************************************************************)
(* Heaps of values in V, and heaps in which the count of every object is   *)
(* the number of elements that hold it and of the places outside of the    *)
(* heap that do, which are given by c.                                     *)
(***************************************************************************)

ValueSet(V) ==
    /\ None \in V /\ Integer \in V
    /\ \A o \in Objects : Whole(o) \in V
    /\ \A v \in V : Counts(v) => v.object \in Objects

Cell(V) == [kind : {"free", "bytes", "package"}, rc : Nat, size : Nat, elems : Seq(V)]

\* Only packages have elements; those beyond the size of a package are empty.
CellOK(cell) ==
    /\ cell.kind # "package" => cell.elems = <<>>
    /\ cell.kind = "package" =>
         /\ cell.size <= Len(cell.elems)
         /\ \A i \in DOMAIN cell.elems : i > cell.size => cell.elems[i] = None

HeapOf(V) == {h \in [Objects -> Cell(V)] : \A o \in Objects : CellOK(h[o])}

Rows(h) == [p \in Objects |-> h[p].elems]

Counted(h, V, c) ==
    /\ h \in HeapOf(V)
    /\ c \in [Objects -> Nat]
    /\ \A o \in Objects :
         /\ h[o].rc = UsesIn(Rows(h), o) + c[o]
         /\ h[o].kind = "free" <=> h[o].rc = 0

\* The places of c and those of the values vs.
Plus(c, vs) == [o \in Objects |-> c[o] + Uses(vs, o)]

\* What is allocated stays as it is, but for its count; or it may be freed.
Grows(h, h2) ==
    \A o \in Objects : h[o].kind # "free" =>
        h2[o].kind = h[o].kind /\ h2[o].size = h[o].size /\ h2[o].elems = h[o].elems
Shrinks(h, h2) ==
    \A o \in Objects : h2[o].kind # "free" =>
        h2[o].kind = h[o].kind /\ h2[o].size = h[o].size /\ h2[o].elems = h[o].elems

\* The elements of all objects, and the steps of a finalization.
Elems(h) == Cardinality(UNION {{o} \X DOMAIN h[o].elems : o \in Objects})

\* What lai_var_finalize() still has to do: the counts include the values left.
Finalizing(V, c) ==
    {s \in [heap : HeapOf(V), left : Seq(V)] : Counted(s.heap, V, Plus(c, s.left))}

\* The last use of an object is given up, and the object is freed.
LastUse(V, c, h, left, v, rest) ==
    /\ v \in V /\ Counts(v) /\ ~(h[v.object].rc > 1)
    /\ rest \in Seq(V) /\ left = <<v>> \o rest
    /\ Counted(h, V, Plus(c, left))
Freed(V, h, g, x) ==
    g \in HeapOf(V) /\ x \in Objects /\ g[x] = Free /\ \A o \in Objects \ {x} : g[o] = h[o]

\* The recursive function of Finalize goes from step to step.
Finalizes(h, vs, end, g) ==
    /\ Finalize(h, vs) = g[end].heap
    /\ g[0] = [heap |-> h, left |-> vs]
    /\ \A n \in 1..end : g[n] = FinalizeNext(g[n - 1])

(***************************************************************************)
(* Packages: elements are replaced, and packages are created.              *)
(***************************************************************************)

\* A heap in which element i of package o was replaced by v.
ElementSet(h, g, o, i, v) ==
    /\ \A p \in Objects \ {o} : g[p] = h[p]
    /\ g[o].kind = h[o].kind /\ g[o].rc = h[o].rc /\ g[o].size = h[o].size
    /\ DOMAIN g[o].elems = DOMAIN h[o].elems /\ Len(g[o].elems) = Len(h[o].elems)
    /\ g[o].elems[i] = v
    /\ \A j \in DOMAIN h[o].elems \ {i} : g[o].elems[j] = h[o].elems[j]

InPackage(h, o, i) == o \in Objects /\ h[o].kind = "package" /\ i \in 1..h[o].size

\* The same, but for objects that were freed.
ElementAssigned(h, k, o, i, v) ==
    /\ \A p \in Objects \ {o} : k[p].kind # "free" =>
          k[p].kind = h[p].kind /\ k[p].size = h[p].size /\ k[p].elems = h[p].elems
    /\ k[o].kind # "free" =>
         /\ k[o].kind = h[o].kind /\ k[o].size = h[o].size
         /\ DOMAIN k[o].elems = DOMAIN h[o].elems /\ k[o].elems[i] = v
         /\ \A j \in DOMAIN h[o].elems \ {i} : k[o].elems[j] = h[o].elems[j]

(***************************************************************************)
(* Clones.                                                                 *)
(***************************************************************************)

Live(h, v) == Counts(v) => h[v.object].kind # "free"

\* The elements that are left to be cloned into the elements at, none yet, of
\* packages that were free in the heap h0.
SlotSet(V) == [object : Objects, at : Nat, value : V]
SlotOK(h0, h, slot) ==
    /\ h0[slot.object].kind = "free" /\ InPackage(h, slot.object, slot.at)
    /\ h[slot.object].elems[slot.at] = None /\ Live(h, slot.value)
SlotsOK(V, h0, h, left) ==
    /\ left \in Seq(SlotSet(V))
    /\ \A i \in DOMAIN left : SlotOK(h0, h, left[i])
    /\ \A i, j \in DOMAIN left : i # j =>
          left[i].object # left[j].object \/ left[i].at # left[j].at

\* What lai_clone_package() has done of the clone of an object of the heap h0.
Cloning(V, c, h0) ==
    {s \in [heap : HeapOf(V), left : Seq(SlotSet(V))] :
       Counted(s.heap, V, c) /\ Grows(h0, s.heap) /\ SlotsOK(V, h0, s.heap, s.left)}

\* A slot is filled, and the other slots stay.
SlotFilled(h0, h, copied, g, slot, value) ==
    /\ Grows(h0, h) /\ Grows(h, copied) /\ SlotOK(h0, h, slot)
    /\ ElementSet(copied, g, slot.object, slot.at, value)

\* What lai_obj_clone() promises.
CloneOK(V, h, c, v, k) ==
    /\ Counted(k.heap, V, Plus(c, <<k.value>>)) /\ Grows(h, k.heap) /\ k.value \in V
    /\ IF v.type = "object"
       THEN Counts(k.value) /\ k.value.object \in Objects /\ h[k.value.object].kind = "free"
       ELSE k.value = v

(***************************************************************************)
(* Packages are overwritten.                                               *)
(***************************************************************************)

\* A package gets another array, and gone are the uses that this gives up.
ArrayOK(V, h, o, n, f, gone) ==
    /\ o \in Objects /\ h[o].kind = "package" /\ n \in Nat /\ f \in Seq(V) /\ gone \in Seq(V)
    /\ n <= Len(f) /\ \A i \in DOMAIN f : i > n => f[i] = None
    /\ \A p \in Objects : Uses(h[o].elems, p) = Uses(f, p) + Uses(gone, p)

WithArray(h, o, n, f) == [h EXCEPT ![o] = [h[o] EXCEPT !.size = n, !.elems = f]]

\* All but object o stay as they are or are freed; o is a package of size n.
Resized(h, k, o, n) ==
    /\ \A p \in Objects \ {o} : k[p].kind # "free" =>
          k[p].kind = h[p].kind /\ k[p].size = h[p].size /\ k[p].elems = h[p].elems
    /\ k[o].kind # "free" => k[o].kind = "package" /\ k[o].size = n

\* The elements of package o are, at their places, those of o or r, or nothing.
Drawn(h, k, o, r) ==
    \A i \in DOMAIN k[o].elems :
        LET e == k[o].elems[i]
        IN  \/ e = None
            \/ i \in DOMAIN h[o].elems /\ e = h[o].elems[i]
            \/ i \in DOMAIN h[r].elems /\ e = h[r].elems[i]

\* Package r overwrites package o: how far it has come after i elements.
Overwrites(V, c, h, o, r) ==
    /\ Counted(h, V, c) /\ o \in Objects /\ r \in Objects /\ o # r
    /\ h[o].kind = "package" /\ h[r].kind = "package" /\ c[o] > 0 /\ c[r] > 0
Overwritten(V, c, h, o, r, i) ==
    {s \in HeapOf(V) : /\ Counted(s, V, Plus(c, SubSeq(h[r].elems, 1, i)))
                       /\ Resized(h, s, o, h[r].size) /\ Drawn(h, s, o, r)}

(***************************************************************************)
(* Literals.                                                               *)
(***************************************************************************)

\* The elements that the first i initializers give.
BytesIn(kinds, i) == Cardinality({j \in 1..i : kinds[j] = "bytes"})
Built(V, c, h, kinds, i) ==
    {b \in [heap : HeapOf(V), elems : Seq(V)] :
       /\ Counted(b.heap, V, Plus(c, b.elems)) /\ Grows(h, b.heap)
       /\ Cardinality(Unused(b.heap)) + BytesIn(kinds, i) = Cardinality(Unused(h))}
BuildNext(b, kind) ==
    CASE kind = "bytes" -> [heap |-> Create(b.heap, "bytes", <<>>),
                            elems |-> Append(b.elems, Whole(Fresh(b.heap)))]
      [] kind = "integer" -> [heap |-> b.heap, elems |-> Append(b.elems, Integer)]
      [] OTHER -> [heap |-> b.heap, elems |-> Append(b.elems, None)]

(***************************************************************************)
(* The state.  The values of a state with d invocations refer to variables *)
(* of these, and the places outside of the heap are those of the Names,    *)
(* the invocations and the references that were lost.                      *)
(***************************************************************************)

Everywhere(d) == ({"local", "arg"} \X (1..d)) \cup ({"name"} \X Names)
Alive(d) == {None, Integer, Dangling}
            \cup {Whole(o) : o \in Objects}
            \cup {Element(o, i) : o \in Objects, i \in Positions}
            \cup {Reference(p) : p \in Everywhere(d)}

FrameOf(V) == [local : V, arg : V, fields : Seq(V), ops : Seq(V)]
FrameRows(fr) == [k \in DOMAIN fr |-> Kept(fr[k])]
Outside(nm, fr, ls) == [o \in Objects |-> Uses(nm, o) + UsesIn(FrameRows(fr), o) + ls[o]]

StateOf(V, nm, fr, ls) == nm \in [Names -> V] /\ fr \in Seq(FrameOf(V)) /\ ls \in [Objects -> Nat]
HeapOK == StateOf(Alive(Depth), name, frames, lost)
          /\ Counted(heap, Alive(Depth), Outside(name, frames, lost))

\* The pending operands of the invocation on top.
WithOps(fr, ops) ==
    [k \in DOMAIN fr |-> IF k = Len(fr) THEN [fr[k] EXCEPT !.ops = ops] ELSE fr[k]]

\* A variable gets another value.
At(nm, fr, p) ==
    CASE p[1] = "local" -> fr[p[2]].local
      [] p[1] = "arg" -> fr[p[2]].arg
      [] p[1] = "name" -> nm[p[2]]
      [] OTHER -> None
SetNames(nm, p, v) == [n \in Names |-> IF p = <<"name", n>> THEN v ELSE nm[n]]
SetFrame(f, k, p, v) == [f EXCEPT !.local = IF p = <<"local", k>> THEN v ELSE @,
                                  !.arg = IF p = <<"arg", k>> THEN v ELSE @]
SetFrames(fr, p, v) == [k \in DOMAIN fr |-> SetFrame(fr[k], k, p, v)]

(***************************************************************************)
(* Put, and what it leaves to be finalized.                                *)
(***************************************************************************)

\* The places outside of the heap without the pending operands on top.
Base == Outside(name, WithOps(frames, <<>>), lost)

\* Heap h has, but for gone, the counts of the state with these operands on top and
\* with forgot lost.
Ready(h, ops, gone, forgot) ==
    /\ {ops, gone, forgot} \subseteq Seq(Alive(Depth))
    /\ Counted(h, Alive(Depth), Plus(Plus(Plus(Base, ops), forgot), gone))

\* The state of HeapOK with at least one invocation.
Active == HeapOK /\ frames # <<>>

\* What the state counts besides Base.
Total(ops, gone, forgot) == Plus(Plus(Plus(Base, ops), forgot), gone)

\* Operands come or go, and references are lost.
Loses(vs) == lost' = [o \in Objects |-> lost[o] + Uses(vs, o)]

(***************************************************************************)
(* Stores.                                                                 *)
(***************************************************************************)

\* Heap h has the counts that leave with r stored, and r is in use.
Storing(h, r, ops, gone, forgot) ==
    /\ Ready(h, ops, gone, forgot) /\ r \in Alive(Depth)
    /\ Counts(r) => Total(ops, gone, forgot)[r.object] > 0

\* Only objects that a Name holds have other elements.
Bound(h, g) ==
    \A x \in Objects : g[x].kind # "free" =>
        g[x].elems = h[x].elems \/ \E n \in Names : name[n] = Whole(x)

\* Package o was overwritten by r, after which objects may have been freed.
Replaced(h, h2, o, r) ==
    \E k : /\ k \in HeapOf(Alive(Depth)) /\ Drawn(h, k, o, r) /\ Shrinks(k, h2)
           /\ o \in Objects /\ r \in Objects /\ \E n : Resized(h, k, o, n)

\* Objects that stay keep their elements, but for those that a Name holds.
Stable ==
    \A x \in Objects : heap[x].kind # "free" /\ heap'[x].kind # "free" =>
        heap'[x].elems = heap[x].elems \/ \E n \in Names : name[n] = Whole(x)

(***************************************************************************)
(* Operands.                                                               *)
(***************************************************************************)

\* The heap and the value that an evaluation gives, of a heap with counts c, and
\* the views that it forgot.
Evaluated(V, h, c, s) ==
    /\ s.lost \in Seq(V) /\ s.value \in V /\ Grows(h, s.heap)
    /\ Counted(s.heap, V, Plus(Plus(c, s.lost), <<s.value>>))

(***************************************************************************)
(* The inductive invariant.                                                *)
(***************************************************************************)

Wholes == {Whole(o) : o \in Objects}
FramesOK(fr) ==
    /\ Len(fr) <= MaxFrames
    /\ \A k \in 1..Len(fr) :
         /\ fr[k].fields \in Seq(Wholes)
         /\ Len(fr[k].ops) <= MaxOps /\ (k < Len(fr) => Len(fr[k].ops) < MaxOps)
LostOK == lost \in [Objects -> 0..MaxLost]
Statuses == {"ok", "types", "bounds", "opstack", "wild"}

IInv == HeapOK /\ FramesOK(frames) /\ LostOK /\ status \in Statuses /\ steps \in 0..MaxSteps

\* What a step does to the frames, to lost and to status.
Tame(ops) ==
    /\ frames' = frames \/ \E q : \E v \in Alive(Depth) : Put(q, v, ops)
    /\ lost' = lost \/ \E vs \in Seq(Alive(Depth)) : Lose(vs)
    /\ status' \in Statuses

\* What a step must establish, but for the count of operators.
Good == HeapOK' /\ FramesOK(frames') /\ LostOK' /\ status' \in Statuses

(***************************************************************************)
(* The operators.                                                          *)
(***************************************************************************)

\* Objects that stay keep their elements, but for those that a Name holds and for o.
StableBut(o) ==
    \A x \in Objects \ {o} : heap[x].kind # "free" /\ heap'[x].kind # "free" =>
        heap'[x].elems = heap[x].elems \/ \E n \in Names : name[n] = Whole(x)

(***************************************************************************)
(* Invocations end: the references to their variables dangle.              *)
(***************************************************************************)

Renames(V, W, old) ==
    /\ old \in [V -> W] /\ W \subseteq V
    /\ \A v \in V : old[v] = v \/ (old[v] = Dangling /\ v.type = "reference")
MapSeq(old, vs) == [i \in DOMAIN vs |-> old[vs[i]]]
Renamed(old, h) == [o \in Objects |-> [h[o] EXCEPT !.elems = MapSeq(old, h[o].elems)]]

\* Sequences that hold the same objects at the same places.
SameUses(vs, ws) ==
    DOMAIN vs = DOMAIN ws /\ \A i \in DOMAIN vs : \A o : Holds(vs[i], o) <=> Holds(ws[i], o)

\* The elements that stay are as they were, or dangle.
Withers(h, g) ==
    \A x \in Objects : g[x].kind # "free" =>
        /\ DOMAIN g[x].elems = DOMAIN h[x].elems
        /\ \A i \in DOMAIN h[x].elems : g[x].elems[i] \in {h[x].elems[i], Dangling}
Steadies(h, g) ==
    \A x \in Objects : h[x].kind # "free" /\ g[x].kind # "free" =>
        /\ DOMAIN g[x].elems = DOMAIN h[x].elems
        /\ \A i \in DOMAIN h[x].elems : g[x].elems[i] \in {h[x].elems[i], Dangling}

RenamedNames(old, nm) == [n \in Names |-> old[nm[n]]]
RenamedFrame(old, f) ==
    [f EXCEPT !.local = old[f.local], !.arg = old[f.arg], !.ops = MapSeq(old, f.ops)]
RenamedFrames(old, fr) == [k \in DOMAIN fr |-> RenamedFrame(old, fr[k])]

\* The invocations below the one on top.
Front == [k \in 1..Depth - 1 |-> frames[k]]

OldVariables == [v \in Alive(Depth) |-> Expired(v, Depth)]

\* What is known when an invocation is left: rs is what the results are renamed from.
Leaving(h, gone, rs, results, forgot) ==
    /\ Ready(h, <<>>, gone \o rs, forgot) /\ Grows(heap, h)
    /\ gone \in Seq(Alive(Depth)) /\ rs \in Seq(Alive(Depth)) /\ results \in Seq(Alive(Depth - 1))
    /\ SameUses(results, rs) /\ Len(results) <= 1
    /\ Depth = 1 => \A o : Uses(rs, o) = 0

(***************************************************************************)
(* An error: everything that the invocations hold is put into one sequence. *)
(***************************************************************************)

Upto(part, i) == [k \in 1..i |-> part[k]]

Joined(V, n, part) ==
    \E g \in [0..n -> Seq(V)] :
      /\ g[0] = <<>> /\ \A i \in 1..n : g[i] = g[i - 1] \o part[i]
      /\ \A i \in 0..n : \A o : Uses(g[i], o) = UsesIn(Upto(part, i), o)

\* The same, as predicates.
Parts(V, n, part) == n \in Nat /\ part \in [1..n -> Seq(V)]
Summed(n, part, o) ==
    /\ UsesIn(Upto(part, 0), o) = 0
    /\ \A i \in 1..n :
         /\ UsesIn(Upto(part, i - 1), o) \in Nat /\ Uses(part[i], o) \in Nat
         /\ UsesIn(Upto(part, i), o) = UsesIn(Upto(part, i - 1), o) + Uses(part[i], o)

\* The references to variables of any invocation dangle.
Surviving(v) == IF v.type = "reference" /\ v.place[1] # "name" THEN Dangling ELSE v
OldReferences == [v \in Alive(Depth) |-> Surviving(v)]

(***************************************************************************)
(* The specification.                                                      *)
(***************************************************************************)

\* What the elements of packages do in a step.
ElementsKept ==
    \/ Stable \/ Steadies(heap, heap')
    \/ \E term \in Terms, p \in Places, i \in Positions, o \in Objects :
         Value(p) = Whole(o) /\ StoreElement(term, p, i) /\ StableBut(o)

\* What a step may do to the elements of object o.
BoundTo(o) ==
    LET e == heap[o].elems f == heap'[o].elems
    IN  /\ heap[o].kind = "package" /\ heap'[o].kind = "package"
        /\ \/ DOMAIN e # DOMAIN f
           \/ \E i \in DOMAIN e : f[i] \notin {e[i], Dangling}
        => \/ \E n \in Names : name[n] = Whole(o)
           \/ \E term \in Terms, p \in Places, i \in Positions :
                Value(p) = Whole(o) /\ StoreElement(term, p, i)

(***************************************************************************)
(* Ownership.  Every object has a spot: the variable at the root of the    *)
(* package it is in, and the path of positions that leads to it from       *)
(* there.  An object keeps its spot for as long as it lives.  Several      *)
(* objects may be at one spot, such as the old and the new value of a      *)
(* variable, but no object is ever at two, which is what keeps variables   *)
(* apart.                                                                  *)
(***************************************************************************)

Spots == [root : {"local", "arg", "name", "null"} \X Nat, path : Seq(Nat)]
Root(p) == [root |-> p, path |-> <<>>]
Child(a, i) == [root |-> a.root, path |-> Append(a.path, i)]

\* An object is at the spot where it is stored.
Sits(at, v, a) == v.type = "object" => at[v.object] = a

Planted(h, at) ==
    /\ at \in [Objects -> Spots]
    /\ \A o \in Objects : \A i \in DOMAIN h[o].elems : Sits(at, h[o].elems[i], Child(at[o], i))

\* The spots of what was allocated stay.
Stays(h, at, at2) == \A o \in Objects : h[o].kind # "free" => at2[o] = at[o]

\* The arguments hold objects of others.
Roots(fr) == ({"local"} \X DOMAIN fr) \cup ({"name"} \X Names)
Rooted(at, nm, fr) == \A p \in Roots(fr) : Sits(at, At(nm, fr, p), Root(p))

Ownership == \E at : Planted(heap, at) /\ Rooted(at, name, frames)

Survives(h, g) == \A o \in Objects : h[o].kind # "free" => g[o].kind # "free"

\* The objects that lai_clone_package() makes are where they are stored.
Growing(V, c, h0, h1, at1) ==
    {s \in Cloning(V, c, h0) :
       Survives(h1, s.heap) /\ \E at : Planted(s.heap, at) /\ Stays(h1, at1, at)}

\* The spots of the initializers of a package that nobody holds yet.
Shelf == Root(Nowhere)
Shelved(at, elems) == \A i \in DOMAIN elems : Sits(at, elems[i], Child(Shelf, i))

ShelfBuilt(V, c, h, at0, kinds, i) ==
    {b \in Built(V, c, h, kinds, i) :
       \E at : Planted(b.heap, at) /\ Stays(h, at0, at) /\ Shelved(at, b.elems)}

(***************************************************************************)
(* Stores: r was created at the spot of the variable that it is stored to. *)
(***************************************************************************)

\* Where a store to p goes.
Target(p) == IF Through(p) /\ Value(p) # Dangling THEN Value(p).place ELSE p

(***************************************************************************)
(* What a variable contains is below its spot.                             *)
(***************************************************************************)

\* The objects at a spot and below it.
Below(at, a) ==
    {o \in Objects :
       /\ at[o].root = a.root /\ Len(a.path) <= Len(at[o].path)
       /\ \A j \in 1..Len(a.path) : at[o].path[j] = a.path[j]}
===============================================================================
