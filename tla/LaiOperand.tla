----------------------------- MODULE LaiOperand -----------------------------
(***************************************************************************)
(* Variables, operands and the operators that copy, index and dereference  *)
(* objects: core/exec-operand.c, the reductions of core/exec.c that use    *)
(* it, and calls, which move objects between invocations.                  *)
(*                                                                         *)
(* A step is an operator with the terms it takes its operands from; which  *)
(* one comes next is free.  LaiExec models the single operand.  Operands   *)
(* that are pending while another one is evaluated, as during a call, are  *)
(* in ops.  A view that an operator takes and drops before it is done      *)
(* changes nothing and is left out; one that it forgets to drop is lost.   *)
(* Left out as well is the second clone of Store and CopyObject, out,      *)
(* which nobody uses.                                                      *)
(***************************************************************************)
EXTENDS LaiHeap

CONSTANTS
    Names,        \* the Name nodes of the namespace, as numbers
    Contents,     \* the initializers of packages: sequences over Kinds
    MaxFrames,    \* bound: the depth of calls
    MaxOps,       \* bound: the number of pending operands of an invocation
    MaxLost,      \* bound: the number of references ever lost
    MaxSteps      \* bound: the number of operators, Return() and calls among them

Kinds == {"none", "integer", "bytes"}
ASSUME ContentsAssumption ==
    Names \subseteq Nat /\ IsFiniteSet(Names) /\ Contents \subseteq Seq(Kinds)
ASSUME BoundsAssumption ==
    {MaxFrames, MaxOps, MaxLost, MaxSteps} \subseteq Nat /\ MaxFrames > 0

VARIABLES
    heap,
    name,      \* the object of each Name node
    frames,    \* the invocations: a local, an argument, the buffers of the buffer
               \*   fields it created, the operands it has collected
    lost,      \* references that nobody will drop (history)
    status,    \* "ok"; why lai_panic() was called; "wild" after an access
               \*   to memory that was freed
    steps      \* the number of operators so far

vars == <<heap, name, frames, lost, status, steps>>

Depth == Len(frames)
Top == frames[Depth]
Last == Top.ops[Len(Top.ops)]
Rest == SubSeq(Top.ops, 1, Len(Top.ops) - 1)
Running == status = "ok" /\ frames # <<>>

\* The positions that Index() is asked for: those that some package has, and 1.
Positions == {1} \cup UNION {DOMAIN kinds : kinds \in Contents}

\* The variables that the running method can name; a method of the host's has no
\* arguments.
Places ==
    {<<"local", Depth>>} \cup ({"name"} \X Names)
    \cup IF Depth > 1 THEN {<<"arg", Depth>>} ELSE {}
Nowhere == <<"null", 0>>

Value(p) ==
    CASE p[1] = "local" -> frames[p[2]].local
      [] p[1] = "arg" -> frames[p[2]].arg
      [] p[1] = "name" -> name[p[2]]
      [] OTHER -> None

\* Variable p holds v, and the pending operands are ops.
Put(p, v, ops) ==
    /\ name' = [n \in Names |-> IF p = <<"name", n>> THEN v ELSE name[n]]
    /\ frames' = [k \in DOMAIN frames |->
         [frames[k] EXCEPT !.local = IF p = <<"local", k>> THEN v ELSE @,
                           !.arg = IF p = <<"arg", k>> THEN v ELSE @,
                           !.ops = IF k = Depth THEN ops ELSE @]]

Lose(vs) ==
    /\ Cardinality(UNION {{o} \X (1..lost[o]) : o \in Objects})
         + Cardinality({i \in DOMAIN vs : Counts(vs[i])}) <= MaxLost
    /\ lost' = [o \in Objects |-> lost[o] + Uses(vs, o)]

Panic(why) ==
    /\ status' = why
    /\ UNCHANGED <<heap, name, frames, lost>>

Frame(arg) == [local |-> None, arg |-> arg, fields |-> <<>>, ops |-> <<>>]

Init ==
    /\ heap = [o \in Objects |-> Free]
    /\ name = [n \in Names |-> Integer]
    /\ frames = <<>>
    /\ lost = [o \in Objects |-> 0]
    /\ status = "ok"
    /\ steps = 0
-------------------------------------------------------------------------------
\* Terms and the operands they give: the heap after the evaluation, the value,
\* the views that it forgot, and whether it failed.
Term(op, p, i) == [op |-> op, place |-> p, at |-> i]
Terms ==
    {Term("operand", Nowhere, 0), Term("bytes", Nowhere, 0)}
    \cup {[op |-> "package", kinds |-> kinds] : kinds \in Contents}
    \cup {Term(op, p, 0) : op \in {"variable", "reference", "dereference"}, p \in Places}
    \cup {Term(op, p, i) : op \in {"index", "element"}, p \in Places, i \in Positions}

Result(h, v, gone) == [heap |-> h, value |-> v, lost |-> gone, fault |-> "ok"]
Fault(why) == [Result(heap, None, <<>>) EXCEPT !.fault = why]

\* The heap and the elements that the initializers of a package give.
Initialized(h, kinds) ==
    LET built[i \in 0..Len(kinds)] ==
          IF i = 0 THEN [heap |-> h, elems |-> <<>>]
          ELSE LET b == built[i - 1]
               IN  CASE kinds[i] = "bytes" ->
                          [heap |-> Create(b.heap, "bytes", <<>>),
                           elems |-> Append(b.elems, Whole(Fresh(b.heap)))]
                     [] kinds[i] = "integer" ->
                          [heap |-> b.heap, elems |-> Append(b.elems, Integer)]
                     [] OTHER -> [heap |-> b.heap, elems |-> Append(b.elems, None)]
    IN  built[Len(kinds)]

\* Mutation: the object of the index is not counted.
IndexUncounted(v, i) ==
    IF v.type # "object" THEN Fault("types")
    ELSE IF i > heap[v.object].size THEN Fault("bounds")
    ELSE Result(heap, Element(v.object, i), <<>>)

\* Index() without a target, of a variable that holds v.
IndexOf(v, i) ==
    IF v.type # "object" THEN Fault("types")
    ELSE IF i > heap[v.object].size THEN Fault("bounds")
    ELSE Result(Ref(heap, Element(v.object, i)), Element(v.object, i), <<>>)

\* DeRefOf() of a reference gives a copy, of an index what it leads to.  The view
\* of the reference or index is never finalized.
Dereference(h, v) ==
    IF v.type = "reference"
    THEN LET c == Clone(h, Value(v.place))
         IN  IF c.fits THEN Result(c.heap, c.value, <<>>) ELSE Fault("room")
    ELSE IF v.type = "index" /\ h[v.object].kind = "bytes" THEN Result(Ref(h, v), Integer, <<v>>)
    ELSE IF v.type = "index" /\ v.at \in DOMAIN h[v.object].elems
    THEN LET e == h[v.object].elems[v.at] IN Result(Ref(Ref(h, v), e), e, <<v>>)
    ELSE Fault(IF v.type \in {"index", "dangling"} THEN "wild" ELSE "types")

Operand(term) ==
    CASE term.op = "operand" -> Result(heap, Last, <<>>)
      [] term.op = "bytes" -> Result(Create(heap, "bytes", <<>>), Whole(Fresh(heap)), <<>>)
      [] term.op = "package" ->
           LET b == Initialized(heap, term.kinds)
           IN  Result(Create(b.heap, "package", b.elems), Whole(Fresh(b.heap)), <<>>)
      [] term.op = "variable" -> Result(Ref(heap, Value(term.place)), Value(term.place), <<>>)
      [] term.op = "reference" -> Result(heap, Reference(term.place), <<>>)
      [] term.op = "dereference" -> Dereference(heap, Value(term.place))
      [] term.op = "index" -> IndexOf(Value(term.place), term.at)
      [] term.op = "element" ->
           LET ix == IndexOf(Value(term.place), term.at)
           IN  IF ix.fault # "ok" THEN ix ELSE Dereference(heap, ix.value)

\* The objects that a literal creates.
Creates(term) ==
    CASE term.op = "bytes" -> 1
      [] term.op = "package" ->
           1 + Cardinality({i \in DOMAIN term.kinds : term.kinds[i] = "bytes"})
      [] OTHER -> 0

\* The objects that the evaluation creates fit into the heap.
May(term) ==
    /\ Running
    /\ term.op = "operand" => Top.ops # <<>>
    /\ Creates(term) <= Cardinality(Unused(heap)) /\ Operand(term).fault # "room"

\* The operands that stay pending when a term was evaluated.
Pending(term) == IF term.op = "operand" THEN Rest ELSE Top.ops

\* The operand of an operator that is still to come.
Push(term) ==
    LET s == Operand(term)
    IN  /\ May(term) /\ Len(Pending(term)) < MaxOps
        /\ IF s.fault # "ok" THEN Panic(s.fault)
           ELSE /\ heap' = s.heap
                /\ Lose(s.lost)
                /\ Put(Nowhere, None, Append(Pending(term), s.value))
                /\ UNCHANGED status

\* The result of the last operator is not wanted.
Drop ==
    /\ Running /\ Top.ops # <<>>
    /\ heap' = Finalize(heap, <<Last>>)
    /\ Put(Nowhere, None, Rest)
    /\ UNCHANGED <<lost, status, steps>>
-------------------------------------------------------------------------------
\* Stores.  Variable q gets r in place of its old value; then gone is finalized.
Replace(h, q, r, ops, gone, forgot) ==
    /\ heap' = Finalize(IF q = Nowhere THEN h ELSE Assign(h, Value(q), r), gone)
    /\ Put(q, r, ops)
    /\ Lose(forgot)
    /\ UNCHANGED status

TypeOf(h, v) == IF v.type = "object" THEN h[v.object].kind ELSE v.type
Scalars == {"integer", "bytes"}

\* The elements of package r are assigned to those of package o, through a
\* variable that is never finalized.
Overwrite(h, o, r) ==
    LET n == h[r].size
        stored[i \in 0..n] ==
          IF i = 0 THEN Resize(h, o, n)
          ELSE LET new == stored[i - 1][r].elems[i]
               IN  AssignElement(Ref(stored[i - 1], new), o, i, new)
    IN  stored[n]

\* Mutation: a package in any variable is overwritten in place.
MutateAny(h, q, r, ops, gone, forgot) ==
    LET old == Value(q)
    IN  IF TypeOf(h, old) = "package" /\ TypeOf(h, r) = "package"
        THEN /\ heap' = Finalize(Overwrite(h, old.object, r.object), gone)
             /\ Put(Nowhere, None, ops)
             /\ Lose(forgot \o ElementsOf(h, r.object))
             /\ UNCHANGED status
        ELSE Replace(h, q, r, ops, gone, forgot)

\* lai_exec_mutate_ns(): what a Name holds decides how r is stored; the contents
\* of integers, strings and buffers are converted in place.
Mutate(h, q, r, ops, gone, forgot) ==
    LET old == TypeOf(h, Value(q)) new == TypeOf(h, r)
    IN  IF q[1] # "name" \/ old \notin Scalars \cup {"package"}
        THEN Replace(h, q, r, ops, gone, forgot)
        ELSE IF old \in Scalars /\ new \in Scalars
        THEN Replace(h, Nowhere, None, ops, gone, forgot)
        ELSE IF old = "package" /\ new = "package"
        THEN /\ heap' = Finalize(Overwrite(h, Value(q).object, r.object), gone)
             /\ Put(Nowhere, None, ops)
             /\ Lose(forgot \o ElementsOf(h, r.object))
             /\ UNCHANGED status
        ELSE Panic("types")

\* lai_operand_mutate() and lai_operand_emplace() of a variable.  A store to ArgX
\* that contains a reference goes to where the reference leads.
Through(p) == p[1] = "arg" /\ Value(p).type \in {"reference", "dangling"}

MutateOperand(h, p, r, ops, gone, forgot) ==
    IF Through(p) /\ Value(p) = Dangling THEN Panic("wild")
    ELSE IF Through(p) THEN Replace(h, Value(p).place, r, ops, gone, forgot)
    ELSE Mutate(h, p, r, ops, gone, forgot)

EmplaceOperand(h, p, r, ops, gone, forgot) ==
    IF Through(p) /\ Value(p) = Dangling THEN Panic("wild")
    ELSE Replace(h, IF Through(p) THEN Value(p).place ELSE p, r, ops, gone, forgot)

\* The result is a pending operand or, in a statement, finalized at once.
Results(term, r, want) == Pending(term) \o IF want THEN <<r>> ELSE <<>>
Gone(s, r, want) == <<s.value>> \o IF want THEN <<>> ELSE <<r>>
MayStore(term, want) == May(term) /\ (want => Len(Pending(term)) < MaxOps)

\* Mutation: what is stored is the source itself.
StoreView(term, p, want) ==
    LET s == Operand(term)
    IN  /\ MayStore(term, want)
        /\ IF s.fault # "ok" THEN Panic(s.fault)
           ELSE MutateOperand(Ref(s.heap, s.value), p, s.value, Results(term, s.value, want),
                              Gone(s, s.value, want), s.lost)

\* Store() to a variable: the operand s is copied to c.
StoreCopy(term, p, want, s, c) ==
    /\ MayStore(term, want)
    /\ IF s.fault # "ok" THEN Panic(s.fault)
       ELSE /\ c.fits
            /\ MutateOperand(c.heap, p, c.value, Results(term, c.value, want),
                             Gone(s, c.value, want), s.lost)
Store(term, p, want) ==
    LET s == Operand(term) IN StoreCopy(term, p, want, s, Clone(s.heap, s.value))

\* CopyObject() to a variable, as a statement.
EmplaceCopy(term, p, s, c) ==
    /\ May(term)
    /\ IF s.fault # "ok" THEN Panic(s.fault)
       ELSE /\ c.fits
            /\ EmplaceOperand(c.heap, p, c.value, Pending(term), <<s.value, c.value>>, s.lost)
CopyObject(term, p) ==
    LET s == Operand(term) IN EmplaceCopy(term, p, s, Clone(s.heap, s.value))

\* Store() and CopyObject() to Index(p, i), as a statement.  Contents of bytes are
\* left out.
StoreElementCopy(term, p, i, s, c) ==
    LET ix == IndexOf(Value(p), i)
        o == Value(p).object
    IN  /\ May(term)
        /\ IF s.fault # "ok" THEN Panic(s.fault)
           ELSE IF ix.fault # "ok" THEN Panic(ix.fault)
           ELSE /\ c.fits
                /\ heap' = Finalize(
                     IF heap[o].kind = "bytes" THEN c.heap
                     ELSE AssignElement(c.heap, o, i, c.value),
                     <<s.value, c.value>>)
                /\ Put(Nowhere, None, Pending(term))
                /\ Lose(s.lost)
                /\ UNCHANGED status
StoreElement(term, p, i) ==
    LET s == Operand(term) IN StoreElementCopy(term, p, i, s, Clone(s.heap, s.value))

\* Index() with a target, which takes the index as it is.
IndexTo(p, i, q) ==
    LET s == IndexOf(Value(p), i)
    IN  /\ Running
        /\ IF s.fault # "ok" THEN Panic(s.fault)
           ELSE MutateOperand(s.heap, q, s.value, Top.ops, <<s.value>>, <<>>)

\* SizeOf(): the view of the operand is never finalized.
SizeOf(p) ==
    /\ Running
    /\ IF Value(p).type # "object" THEN Panic("types")
       ELSE /\ heap' = Ref(heap, Value(p))
            /\ Lose(<<Value(p)>>)
            /\ UNCHANGED <<name, frames, status>>

\* A buffer field is created in a buffer that a variable holds.
CreateField(p) ==
    /\ Running
    /\ TypeOf(heap, Value(p)) = "bytes"
    /\ Top.fields = <<>>
    /\ heap' = Ref(heap, Value(p))
    /\ frames' = [frames EXCEPT ![Depth].fields = <<Value(p)>>]
    /\ UNCHANGED <<name, lost, status>>
-------------------------------------------------------------------------------
\* Calls.  The host passes no argument.
Eval ==
    /\ status = "ok" /\ frames = <<>>
    /\ frames' = <<Frame(None)>>
    /\ UNCHANGED <<heap, name, lost, status, steps>>

\* Mutation: the operand stays on the stack.
CallKeepsOperand(term) ==
    LET s == Operand(term)
    IN  /\ May(term) /\ Depth < MaxFrames /\ Len(Pending(term)) < MaxOps
        /\ heap' = Ref(s.heap, s.value) /\ s.fault = "ok"
        /\ frames' = Append([frames EXCEPT ![Depth].ops = Append(Pending(term), s.value)],
                            Frame(s.value))
        /\ Lose(s.lost)
        /\ UNCHANGED <<name, status>>

\* The operand becomes the argument, as it is.
Call(term) ==
    LET s == Operand(term)
    IN  /\ May(term) /\ Depth < MaxFrames /\ Len(Pending(term)) < MaxOps
        /\ IF s.fault # "ok" THEN Panic(s.fault)
           ELSE /\ heap' = s.heap
                /\ frames' = Append([frames EXCEPT ![Depth].ops = Pending(term)], Frame(s.value))
                /\ Lose(s.lost)
                /\ UNCHANGED <<name, status>>

\* The references to variables of invocation k are to freed memory.
Expired(v, k) ==
    IF v \in {Reference(<<"local", k>>), Reference(<<"arg", k>>)} THEN Dangling ELSE v

\* The variables, fields and operands of the invocation on top are finalized, and
\* the caller gets the result.
Leave(h, gone, results, forgot) ==
    LET after == Finalize(h, <<Top.local, Top.arg>> \o Top.fields \o gone)
        Old(v) == Expired(v, Depth)
    IN  /\ heap' = [o \in Objects |->
              [after[o] EXCEPT !.elems = [i \in DOMAIN @ |-> Old(@[i])]]]
        /\ name' = [n \in Names |-> Old(name[n])]
        /\ frames' = [k \in 1..Depth - 1 |->
              LET f == frames[k]
              IN  [f EXCEPT !.local = Old(@), !.arg = Old(@),
                            !.ops = [i \in DOMAIN @ |-> Old(@[i])]
                                    \o IF k = Depth - 1 THEN results ELSE <<>>]]
        /\ Lose(forgot)
        /\ UNCHANGED status

\* Return(): the caller or the host gets a copy.
ReturnCopy(term, s, c) ==
    /\ May(term) /\ Pending(term) = <<>>
    /\ IF s.fault # "ok" THEN Panic(s.fault)
       ELSE IF Depth = 1 THEN Leave(s.heap, <<s.value>>, <<>>, s.lost)
       ELSE c.fits /\ Leave(c.heap, <<s.value>>, <<Expired(c.value, Depth)>>, s.lost)
Return(term) ==
    LET s == Operand(term) IN ReturnCopy(term, s, Clone(s.heap, s.value))

\* The end of the method, with an implicit Return(0), which insists that no
\* operand is pending in any invocation.
EndMethod ==
    /\ Running /\ Top.ops = <<>>
    /\ IF \E k \in 1..Depth : frames[k].ops # <<>> THEN Panic("opstack")
       ELSE Leave(heap, <<>>, <<Integer>>, <<>>)
    /\ UNCHANGED steps

\* The variables and operands of all invocations, and the buffers of their fields.
Held ==
    LET held[k \in 0..Depth] ==
          IF k = 0 THEN <<>>
          ELSE held[k - 1] \o <<frames[k].local, frames[k].arg>> \o frames[k].ops
    IN  held[Depth]

Fields ==
    LET fields[k \in 0..Depth] == IF k = 0 THEN <<>> ELSE fields[k - 1] \o frames[k].fields
    IN  fields[Depth]

\* An error: everything is finalized but the buffer fields, which stay.
Fail ==
    LET Old(v) == IF v.type = "reference" /\ v.place[1] # "name" THEN Dangling ELSE v
        after == Finalize(heap, Held)
    IN  /\ Running
        /\ heap' = [o \in Objects |->
              [after[o] EXCEPT !.elems = [i \in DOMAIN @ |-> Old(@[i])]]]
        /\ name' = [n \in Names |-> Old(name[n])]
        /\ frames' = <<>>
        /\ Lose(Fields)
        /\ UNCHANGED <<status, steps>>

Operator ==
    \/ \E term \in Terms :
         \/ Push(term) \/ Call(term) \/ Return(term)
         \/ \E p \in Places, want \in BOOLEAN : Store(term, p, want)
         \/ \E p \in Places : CopyObject(term, p)
         \/ \E p \in Places, i \in Positions : StoreElement(term, p, i)
    \/ \E p \in Places :
         \/ SizeOf(p) \/ CreateField(p)
         \/ \E i \in Positions, q \in Places : IndexTo(p, i, q)

Next ==
    \/ Running /\ steps < MaxSteps /\ steps' = steps + 1 /\ Operator
    \/ Eval \/ Drop \/ EndMethod \/ Fail

Spec == Init /\ [][Next]_vars
-------------------------------------------------------------------------------
Values == {None, Integer, Dangling}
          \cup {Whole(o) : o \in Objects}
          \cup {Element(o, i) : o \in Objects, i \in Positions}
          \cup {Reference(p) : p \in ({"local", "arg"} \X (1..MaxFrames)) \cup ({"name"} \X Names)}

\* The variables have their types, and no operand is left behind.
TypeOK ==
    /\ \A o \in Objects :
         /\ heap[o].kind \in {"free", "bytes", "package"}
         /\ heap[o].rc \in Nat
         /\ heap[o].elems \in Seq(Values)
         /\ heap[o].kind = "package" => heap[o].size \in 0..Len(heap[o].elems)
    /\ name \in [Names -> Values]
    /\ Depth <= MaxFrames
    /\ frames \in Seq([local : Values, arg : Values, fields : Seq(Values), ops : Seq(Values)])
    /\ \A k \in 1..Depth : Len(frames[k].ops) <= MaxOps
    /\ lost \in [Objects -> 0..MaxLost]
    /\ status \in {"ok", "types", "bounds", "opstack", "wild"}
    /\ steps \in 0..MaxSteps

Kept(f) == <<f.local, f.arg>> \o f.fields \o f.ops

\* The count of an object is the number of variables, elements, operands and
\* buffer fields that use it and of references that were lost: nothing in use is
\* ever freed, and nothing else is kept, apart from cycles of packages, which keep
\* themselves.
RefCountsExact ==
    \A o \in Objects :
        /\ heap[o].rc = Uses(name, o) + UsesIn([k \in DOMAIN frames |-> Kept(frames[k])], o)
                        + UsesIn([p \in Objects |-> heap[p].elems], o) + lost[o]
        /\ heap[o].kind = "free" <=> heap[o].rc = 0

\* The objects that a value contains: as many generations as there are objects.
Contained(v) ==
    LET values(S) == UNION {{heap[o].elems[i] : i \in DOMAIN heap[o].elems} : o \in S}
        wholes(vs) == {o \in Objects : Whole(o) \in vs}
        in[n \in 0..Cardinality(Objects)] ==
          IF n = 0 THEN wholes({v}) ELSE in[n - 1] \cup wholes(values(in[n - 1]))
    IN  in[Cardinality(Objects)]

Owners == ({"local"} \X (1..Depth)) \cup ({"name"} \X Names)

\* "Store a copy to the target operand.": no two locals or Names ever contain the
\* same object, however it was passed, returned, indexed or stored in between; nor
\* do two elements of a package.
VariablesOwnTheirObjects ==
    /\ \A p, q \in Owners : p # q => Contained(Value(p)) \cap Contained(Value(q)) = {}
    /\ \A p \in Owners : \A o \in Contained(Value(p)) :
         LET elems == heap[o].elems
         IN  \A i, j \in DOMAIN elems : i # j => Contained(elems[i]) \cap Contained(elems[j]) = {}

\* "If a package in a LOCALx variable is replaced by another package, existing
\* indices still refer to the old package": the elements of a package change only
\* by a store to Index() or to the Name that holds it.
IndicesBindToObjects ==
    [][\A o \in Objects :
         LET e == heap[o].elems f == heap'[o].elems
         IN  /\ heap[o].kind = "package" /\ heap'[o].kind = "package"
             /\ \/ DOMAIN e # DOMAIN f
                \/ \E i \in DOMAIN e : f[i] \notin {e[i], Dangling}
             => \/ \E n \in Names : name[n] = Whole(o)
                \/ \E term \in Terms, p \in Places, i \in Positions :
                     Value(p) = Whole(o) /\ StoreElement(term, p, i)]_vars
=============================================================================
