------------------------------ MODULE LaiHeap ------------------------------
(***************************************************************************)
(* The objects of AML that are shared through reference counts, and the    *)
(* functions of core/variable.c and core/object.c on them, as operators on *)
(* a heap.  A value is the contents of a struct lai_variable_t: integers   *)
(* are all alike, an index is an object with a position in it, and strings *)
(* and buffers are "bytes" whose contents are left out.                    *)
(***************************************************************************)
EXTENDS Integers, Sequences, FiniteSets

CONSTANT Objects         \* the addresses at which objects may live
ASSUME ObjectsAssumption == IsFiniteSet(Objects)

None == [type |-> "none"]
Integer == [type |-> "integer"]
Whole(o) == [type |-> "object", object |-> o]
Element(o, i) == [type |-> "index", object |-> o, at |-> i]
Reference(p) == [type |-> "reference", place |-> p]
Dangling == [type |-> "dangling"]     \* a reference whose variable is gone

Counts(v) == v.type \in {"object", "index"}

\* The elements of a package are those of its array, which may be longer than
\* its size; a string or buffer has one position and no elements.
Free == [kind |-> "free", rc |-> 0, size |-> 0, elems |-> <<>>]
Unused(h) == {o \in Objects : h[o].kind = "free"}
Fresh(h) == CHOOSE o \in Unused(h) : TRUE

Holds(v, o) == Counts(v) /\ v.object = o

\* The number of values in vs that are the object o or an index into it; the
\* number in the rows of a table of such sequences.
Uses(vs, o) == Cardinality({i \in DOMAIN vs : Holds(vs[i], o)})
UsesIn(rows, o) ==
    Cardinality(UNION {{r} \X {i \in DOMAIN rows[r] : Holds(rows[r][i], o)} : r \in DOMAIN rows})

\* lai_rc_ref() of the object of a value.
Ref(h, v) == IF Counts(v) THEN [h EXCEPT ![v.object].rc = @ + 1] ELSE h

\* lai_var_finalize() of the first of the values that are left: the last
\* reference to an object frees it, and then its elements are finalized.
FinalizeNext(s) ==
    LET v == Head(s.left)
    IN  IF s.left = <<>> THEN s
        ELSE IF ~Counts(v) THEN [s EXCEPT !.left = Tail(@)]
        ELSE IF s.heap[v.object].rc > 1
        THEN [heap |-> [s.heap EXCEPT ![v.object].rc = @ - 1], left |-> Tail(s.left)]
        ELSE [heap |-> [s.heap EXCEPT ![v.object] = Free],
              left |-> s.heap[v.object].elems \o Tail(s.left)]

\* lai_var_finalize() of values, one after the other: every step takes one of the
\* values or one of the elements there are.
Finalize(h, vs) ==
    LET end == Len(vs) + Cardinality(UNION {{o} \X DOMAIN h[o].elems : o \in Objects})
        after[n \in 0..end] ==
          IF n = 0 THEN [heap |-> h, left |-> vs] ELSE FinalizeNext(after[n - 1])
    IN  after[end].heap

\* Element i of package o holds v.
SetElement(h, o, i, v) ==
    [h EXCEPT ![o].elems = [j \in DOMAIN @ |-> IF j = i THEN v ELSE @[j]]]

\* lai_var_assign() to a variable that holds old, and to element i of package o.
Assign(h, old, new) == Finalize(Ref(h, new), <<old>>)
AssignElement(h, o, i, new) ==
    Finalize(SetElement(Ref(h, new), o, i, new), <<h[o].elems[i]>>)

Create(h, kind, elems) ==
    [h EXCEPT ![Fresh(h)] =
       [kind |-> kind, rc |-> 1, elems |-> elems,
        size |-> IF kind = "bytes" THEN 1 ELSE Len(elems)]]

\* The elements within the size.
ElementsOf(h, o) ==
    IF h[o].kind = "package" THEN SubSeq(h[o].elems, 1, h[o].size) ELSE <<>>

\* The copy of a value, and its elements that are left to be cloned.
Copy(h, v) ==
    IF v.type # "object" THEN [heap |-> Ref(h, v), value |-> v, left |-> <<>>]
    ELSE LET elems == ElementsOf(h, v.object)
         IN  [heap |-> Create(h, h[v.object].kind, [i \in DOMAIN elems |-> None]),
              value |-> Whole(Fresh(h)),
              left |-> [i \in DOMAIN elems |->
                          [object |-> Fresh(h), at |-> i, value |-> elems[i]]]]
Fits(h, v) == v.type = "object" => Unused(h) # {}

\* lai_clone_package() of the first element that is left: its copy is stored.
CloneSlot(s, slot, copy) ==
    [heap |-> SetElement(copy.heap, slot.object, slot.at, copy.value),
     left |-> copy.left \o Tail(s.left)]
CloneNext(s) ==
    LET slot == Head(s.left)
    IN  IF s.left = <<>> \/ ~Fits(s.heap, slot.value) THEN s
        ELSE CloneSlot(s, slot, Copy(s.heap, slot.value))
CloneSteps(s, end) ==
    LET after[n \in 0..end] == IF n = 0 THEN s ELSE CloneNext(after[n - 1])
    IN  after[end]

\* lai_obj_clone() into a variable that holds nothing, if the heap has room: there
\* are at most as many steps as the copies that fit have elements.
Cloned(s, value) == [heap |-> s.heap, value |-> value, fits |-> s.left = <<>>]
CloneRest(copy, end) ==
    Cloned(CloneSteps([heap |-> copy.heap, left |-> copy.left], end), copy.value)
Clone(h, v) ==
    IF Fits(h, v)
    THEN CloneRest(Copy(h, v), Cardinality(Unused(h))
                                 * Cardinality(UNION {DOMAIN h[o].elems : o \in Objects}))
    ELSE [heap |-> h, value |-> None, fits |-> FALSE]

\* lai_obj_resize_pkg(): a smaller package keeps its array.
Resize(h, o, n) ==
    LET e == h[o].elems
    IN  IF n <= h[o].size
        THEN Finalize([h EXCEPT ![o].size = n,
                         ![o].elems = [i \in DOMAIN e |-> IF i <= n THEN e[i] ELSE None]],
                      SubSeq(e, n + 1, Len(e)))
        ELSE [h EXCEPT ![o].size = n,
                ![o].elems = [i \in 1..n |-> IF i <= h[o].size THEN e[i] ELSE None]]
=============================================================================
