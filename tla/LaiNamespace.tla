---------------------------- MODULE LaiNamespace ----------------------------
(***************************************************************************)
(* The ACPI namespace of core/ns.c and what changes it: the terms of AML   *)
(* that create named objects (core/exec.c), the end of a control method,   *)
(* and the loops over the children of a device in helpers/sci.c and        *)
(* helpers/pci.c, which evaluate methods between two steps.                *)
(*                                                                         *)
(* A node is a number, in the order of creation; nodes are never freed.    *)
(* The interpreter is seen through its context stack only: LaiExec models  *)
(* the rest.  Any term may come next, so that the model covers every table *)
(* and method made of Terms.  Device stands for all terms that open a      *)
(* scope of their own (Device, Processor, PowerResource, ThermalZone),     *)
(* Method for the leaves whose duplicate is an error (Method, Mutex,       *)
(* Event, and each named field of Field, IndexField and BankField), and    *)
(* Name for those whose error the interpreter ignores (Name, the buffer    *)
(* fields and OpRegion).                                                   *)
(***************************************************************************)
EXTENDS LaiHashtable, Sequences

CONSTANTS
    Names,       \* the names that nodes may have
    Hash,        \* lai_hash_string() of each name
    Predefined,  \* the names of the devices that lai_create_root() installs
    Terms,       \* the terms of AML: [kind, path, target]
    STA, INI,    \* the names of the methods that the loops evaluate: _STA and
    Asked,       \*   _INI of a device; those that a search asks for
    MaxNodes,    \* bound: the number of nodes ever created
    MaxCalls     \* bound: the depth of the context stack

Kinds == {"ROOT", "DEVICE", "METHOD", "NAME", "ALIAS"}

\* A path of struct lai_amlname: absolute or some levels up, then segments.
Paths == [absolute : BOOLEAN, height : Nat, segments : Seq(Names)]

ASSUME NamesAssumption ==
    /\ Hash \in [Names -> Int]
    /\ Predefined \in Seq(Names) /\ Predefined # <<>>
    /\ \A i, j \in DOMAIN Predefined : Predefined[i] = Predefined[j] => i = j
    /\ STA \in Names /\ INI \in Names /\ Asked \subseteq Names
ASSUME TermsAssumption ==
    \A term \in Terms :
        /\ term.kind \in {"DEVICE", "METHOD", "NAME", "ALIAS", "SCOPE"}
        /\ term.path \in Paths /\ term.target \in Paths
        /\ term.kind # "SCOPE" => term.path.segments # <<>>
ASSUME BoundsAssumption == MaxNodes \in Nat /\ MaxCalls \in Nat

VARIABLES
    node,      \* the nodes created so far: name, kind, parent, target of an alias,
               \*   and its origin (history)
    array,     \* instance->ns_array
    children,  \* the children table of every node
    ctx,       \* the context stack: its handle, is it that of a method?, the
               \*   per-method list, the nodes installed at the call (history)
    walk,      \* the loops over children that run, the innermost last
    status     \* "ok", or why lai_panic() was called

vars == <<node, array, children, ctx, walk, status>>

Root == 1
Nodes == DOMAIN node
Top == ctx[Len(ctx)]
Installed == UNION {Elements(children[n]) : n \in Nodes}
-------------------------------------------------------------------------------
\* Resolution of names.  lai_ns_get_child():
Matches(table, name) ==
    {i \in Chain(table, Hash[name]) :
        node[ChainGet(table, Hash[name], i)].name = name}

Child(parent, name) ==
    LET table == children[parent] found == Matches(table, name)
    IN  IF found = {} THEN Null ELSE ChainGet(table, Hash[name], Least(found))

Target(n) == IF n # Null /\ node[n].kind = "ALIAS" THEN node[n].target ELSE n

\* The node n levels above, or the root where there are not as many.
Above(from, n) ==
    LET above[i \in 0..n] ==
          IF i = 0 THEN from
          ELSE IF node[above[i - 1]].parent = Null THEN above[i - 1]
          ELSE node[above[i - 1]].parent
    IN  above[n]

Start(from, path) == IF path.absolute THEN Root ELSE Above(from, path.height)

\* The node that the first n segments of a path lead to.
Descend(from, segments, n) ==
    LET reached[i \in 0..n] ==
          IF i = 0 THEN from
          ELSE IF reached[i - 1] = Null THEN Null
          ELSE Child(reached[i - 1], segments[i])
    IN  reached[n]

\* lai_resolve_search(): the closest scope with a child of that name.
Search(from, name) ==
    LET found == {i \in 0..Len(node) : Child(Above(from, i), name) # Null}
    IN  IF found = {} THEN Null ELSE Target(Child(Above(from, Least(found)), name))

\* Mutation: the last segment is returned as it is.
ResolveToAlias(from, path) ==
    IF ~path.absolute /\ path.height = 0 /\ Len(path.segments) = 1
    THEN LET found == {i \in 0..Len(node) :
                         Child(Above(from, i), path.segments[1]) # Null}
         IN  IF found = {} THEN Null
             ELSE Child(Above(from, Least(found)), path.segments[1])
    ELSE Descend(Start(from, path), path.segments, Len(path.segments))

\* lai_do_resolve().
Resolve(from, path) ==
    IF ~path.absolute /\ path.height = 0 /\ Len(path.segments) = 1
    THEN Search(from, path.segments[1])
    ELSE Target(Descend(Start(from, path), path.segments, Len(path.segments)))

\* The parent that lai_do_resolve_new_node() finds; aliases on the way count.
NewParent(from, path) ==
    LET last == Len(path.segments) - 1
        reached[i \in 0..last] ==
          IF i = 0 THEN Start(from, path)
          ELSE IF reached[i - 1] = Null THEN Null
          ELSE Target(Child(reached[i - 1], path.segments[i]))
    IN  reached[last]

\* lai_resolve_path(), as the loops call it, with a single name.
ChildTarget(parent, name) == Target(Child(parent, name))
-------------------------------------------------------------------------------
Origins == {"method", "block", "refused"}

NewNode(name, kind, parent, target, origin) ==
    [name |-> name, kind |-> kind, parent |-> parent, target |-> target,
     origin |-> origin]

\* The entry that lai_exec_push_ctxstack() makes for a block of a table, and for
\* a call of method m, with an invocation whose list is empty.
Block(n) == [handle |-> n, method |-> FALSE, list |-> <<>>, ending |-> FALSE,
             before |-> {}]
Call(m) == [Block(m) EXCEPT !.method = TRUE, !.before = Installed]

\* lai_create_root(): the root is in no array, the predefined nodes are.
Init ==
    /\ node = <<NewNode("\\", "ROOT", Null, Null, "block")>>
              \o [i \in DOMAIN Predefined |->
                    NewNode(Predefined[i], "DEVICE", Root, Null, "block")]
    /\ array = [i \in DOMAIN Predefined |-> i + 1]
    /\ children =
         [n \in 1..Len(Predefined) + 1 |->
            IF n # Root THEN EmptyTable
            ELSE LET table[i \in 0..Len(Predefined)] ==
                       IF i = 0 THEN EmptyTable
                       ELSE Insert(table[i - 1], Hash[Predefined[i]], i + 1)
                 IN  table[Len(Predefined)]]
    /\ ctx = <<>> /\ walk = <<>> /\ status = "ok"

\* An error that lai_exec_process() returns ends the run: lai_finalize_state()
\* drops the contexts, and the per-method lists with them.
Fail == ctx' = <<>>

WithTop(entry) == [ctx EXCEPT ![Len(ctx)] = entry]
Ending == status = "ok" /\ ctx # <<>> /\ Top.ending
Executing == status = "ok" /\ ctx # <<>> /\ ~Top.ending

\* A table is loaded by lai_populate().
Load ==
    /\ status = "ok" /\ ctx = <<>> /\ walk = <<>>
    /\ ctx' = <<Block(Root)>>
    /\ UNCHANGED <<node, array, children, walk, status>>

\* The methods that a name may resolve to.
Methods == {n \in {Target(m) : m \in Installed} : node[n].kind = "METHOD"}

\* The host evaluates a method, or AML that runs invokes one.
Invoke(m) ==
    /\ status = "ok"
    /\ IF ctx = <<>> THEN walk = <<>> ELSE ~Top.ending
    /\ Len(ctx) < MaxCalls
    /\ ctx' = Append(ctx, Call(m))
    /\ UNCHANGED <<node, array, children, walk, status>>

\* Any term may return an error.
Abort ==
    /\ Executing
    /\ Fail
    /\ UNCHANGED <<node, array, children, walk, status>>

LastOf(path) == path.segments[Len(path.segments)]
ParentOf(term) == NewParent(Top.handle, term.path)
AliasOf(term) == IF term.kind = "ALIAS" THEN Resolve(Top.handle, term.target) ELSE Null

\* The node of a term, and its place behind the others in the array.
Create(term, origin) ==
    /\ Executing
    /\ Len(node) < MaxNodes
    /\ term.kind # "SCOPE"
    /\ term.kind = "ALIAS" => AliasOf(term) \in Nodes
    /\ ParentOf(term) \in Nodes
    /\ node' = Append(node, NewNode(LastOf(term.path), term.kind, ParentOf(term),
                                     AliasOf(term), origin))
    /\ array' = Append(array, Len(node) + 1)
    /\ UNCHANGED <<walk, status>>

\* The node goes on the list of the method that runs, if the context has one.
Linked(n) == IF Top.method THEN [Top EXCEPT !.list = Append(@, n)] ELSE Top

Owner == IF Top.method THEN "method" ELSE "block"

\* Mutation: no look for a child of that name.
InstallBlindly(term) ==
    /\ Create(term, Owner)
    /\ children' = Append([children EXCEPT ![ParentOf(term)] =
                              Insert(@, Hash[LastOf(term.path)], Len(node) + 1)],
                          EmptyTable)

\* lai_install_nsnode() finds no child of that name.
Install(term) ==
    /\ Create(term, Owner)
    /\ Child(ParentOf(term), LastOf(term.path)) = Null
    /\ children' = Append([children EXCEPT ![ParentOf(term)] =
                              Insert(@, Hash[LastOf(term.path)], Len(node) + 1)],
                          EmptyTable)

\* The node is a scope, and its block is next.
OpenDevice(term) ==
    /\ term.kind = "DEVICE"
    /\ Install(term)
    /\ Len(ctx) < MaxCalls
    /\ ctx' = Append(WithTop(Linked(Len(node) + 1)), Block(Len(node) + 1))

\* lai_exec_reduce_node(), when the operands are there.
DefineName(term) ==
    /\ term.kind = "NAME"
    /\ Install(term)
    /\ ctx' = WithTop(Linked(Len(node) + 1))

\* A method, mutex or event, or the next field of a list.
DefineLeaf(term) ==
    /\ term.kind = "METHOD"
    /\ Install(term)
    /\ ctx' = WithTop(Linked(Len(node) + 1))

DefineAlias(term) ==
    /\ term.kind = "ALIAS"
    /\ Install(term)
    /\ ctx' = WithTop(Linked(Len(node) + 1))

\* Mutation: the node is linked before its installation is known to succeed.
DuplicateLinked(term) ==
    /\ Create(term, "refused")
    /\ Child(ParentOf(term), LastOf(term.path)) # Null
    /\ children' = Append(children, EmptyTable)
    /\ IF term.kind = "NAME" THEN ctx' = WithTop(Linked(Len(node) + 1)) ELSE Fail

\* Mutation: the memory of the node is not cleared.
DuplicateNotCleared(term) ==
    /\ Create(term, "refused")
    /\ Child(ParentOf(term), LastOf(term.path)) # Null
    /\ UNCHANGED children
    /\ IF term.kind = "NAME" THEN UNCHANGED ctx ELSE Fail

\* lai_install_nsnode() finds a child of that name: the node stays in the array,
\* in no table.  Name goes on as if nothing had happened.
Duplicate(term) ==
    /\ Create(term, "refused")
    /\ Child(ParentOf(term), LastOf(term.path)) # Null
    /\ children' = Append(children, EmptyTable)
    /\ IF term.kind = "NAME" THEN UNCHANGED ctx ELSE Fail

\* The target of an Alias or the parent of the new name does not exist.
Nowhere(term) ==
    /\ Executing
    /\ term.kind # "SCOPE"
    /\ \/ term.kind = "ALIAS" /\ AliasOf(term) = Null
       \/ ParentOf(term) = Null
    /\ status' = "unresolved"
    /\ UNCHANGED <<node, array, children, ctx, walk>>

\* Scope opens a node that exists.
OpenScope(term) ==
    LET n == Resolve(Top.handle, term.path)
    IN  /\ Executing
        /\ term.kind = "SCOPE"
        /\ Len(ctx) < MaxCalls
        /\ \/ n \in Nodes /\ ctx' = Append(ctx, Block(n))
           \/ n = Null /\ Fail
        /\ UNCHANGED <<node, array, children, walk, status>>

PopContext == ctx' = SubSeq(ctx, 1, Len(ctx) - 1)

\* The end of a table, or of the block of a Scope or Device.
EndBlock ==
    /\ Executing
    /\ ~Top.method
    /\ PopContext
    /\ UNCHANGED <<node, array, children, walk, status>>

\* The loop of lai_uninstall_nsnode() over the children of the parent.
Places(n) ==
    LET table == children[node[n].parent] h == Hash[node[n].name]
    IN  {i \in Chain(table, h) : ChainGet(table, h, i) = n}

\* The pc of a control method is at its limit, or Return has its operand.
Return ==
    /\ Executing
    /\ Top.method
    /\ ctx' = WithTop([Top EXCEPT !.ending = TRUE])
    /\ UNCHANGED <<node, array, children, walk, status>>

\* Mutation: the array keeps the node.
UninstallFirstKeeps ==
    LET n == Top.list[1] p == node[n].parent h == Hash[node[n].name]
    IN  /\ Ending /\ Top.list # <<>>
        /\ Places(n) # {}
        /\ children' = [children EXCEPT ![p] = ChainRemove(@, h, Least(Places(n)))]
        /\ ctx' = WithTop([Top EXCEPT !.list = Tail(@)])
        /\ UNCHANGED <<node, array, walk, status>>

\* One round of the loop that uninstalls and unlinks the nodes of the list.
UninstallFirst ==
    LET n == Top.list[1] p == node[n].parent h == Hash[node[n].name]
    IN  /\ Ending /\ Top.list # <<>>
        /\ array' = [i \in DOMAIN array |-> IF array[i] = n THEN Null ELSE array[i]]
        /\ IF Places(n) = {} THEN status' = "missing" /\ UNCHANGED children
           ELSE /\ children' = [children EXCEPT
                                  ![p] = ChainRemove(@, h, Least(Places(n)))]
                /\ status' = IF Places(n) = {Least(Places(n))} THEN "ok" ELSE "twice"
        /\ ctx' = WithTop([Top EXCEPT !.list = Tail(@)])
        /\ UNCHANGED <<node, walk>>

\* Mutation: the list is not looked at.
EndMethodLeaves ==
    /\ Ending
    /\ PopContext
    /\ UNCHANGED <<node, array, children, walk, status>>

\* The list is empty: the call is over.
EndMethod ==
    /\ Ending /\ Top.list = <<>>
    /\ PopContext
    /\ UNCHANGED <<node, array, children, walk, status>>
-------------------------------------------------------------------------------
\* The loops over children.  One that runs: over whose children, the place i of
\* the iterator, the child it is at, what is done with it next, and, as history,
\* the children there were at the start and those that were seen.
Loop(kind, parent) ==
    [kind |-> kind, parent |-> parent, i |-> 0, at |-> Null, phase |-> "next",
     start |-> Elements(children[parent]), seen |-> <<>>]

Walker == walk[Len(walk)]
Continue(frame) == walk' = [walk EXCEPT ![Len(walk)] = frame]
Walking(phase) == status = "ok" /\ ctx = <<>> /\ walk # <<>> /\ Walker.phase = phase

\* lai_init_children() and lai_pci_find_bus(), both of the first of the predefined
\* devices; lai_pci_find_device() searches a bus as find_bus() searches that.
StartWalk(kind, parent) ==
    /\ status = "ok" /\ ctx = <<>> /\ walk = <<>>
    /\ walk' = <<Loop(kind, parent)>>
    /\ UNCHANGED <<node, array, children, ctx, status>>

\* The child that the iterator comes to next is in the first slot that is used.
SlotsAhead == {k \in Used(children[Walker.parent]) : k >= Walker.i}

\* lai_ns_child_iterate() returns a child.
Iterate ==
    LET k == Least(SlotsAhead) n == children[Walker.parent].elem[k]
    IN  /\ Walking("next")
        /\ SlotsAhead # {}
        /\ Continue([Walker EXCEPT
             !.i = k + 1, !.at = n, !.seen = Append(@, n),
             !.phase = IF Walker.kind = "find" THEN "ask"
                       ELSE IF node[n].kind = "DEVICE" THEN "sta" ELSE "next"])
        /\ UNCHANGED <<node, array, children, ctx, status>>

\* It returns NULL: the loop is over, and that of the caller goes on.
FinishWalk ==
    /\ Walking("next")
    /\ SlotsAhead = {}
    /\ walk' = SubSeq(walk, 1, Len(walk) - 1)
    /\ UNCHANGED <<node, array, children, ctx, status>>

\* lai_eval() of the child's own name, if there is one: only a method runs AML.
Evaluate(name) ==
    LET m == ChildTarget(Walker.at, name)
    IN  ctx' = IF m # Null /\ node[m].kind = "METHOD" THEN <<Call(m)>> ELSE <<>>

\* lai_evaluate_sta().
AskStatus ==
    /\ Walking("sta")
    /\ Evaluate(STA)
    /\ Continue([Walker EXCEPT
         !.phase = IF ChildTarget(Walker.at, STA) = Null THEN "ini" ELSE "judge"])
    /\ UNCHANGED <<node, array, children, status>>

\* _STA said that the device is present, is only functional, or is neither.
Judge ==
    /\ Walking("judge")
    /\ \E phase \in {"ini", "down", "next"} : Continue([Walker EXCEPT !.phase = phase])
    /\ UNCHANGED <<node, array, children, ctx, status>>

Initialize ==
    /\ Walking("ini")
    /\ Evaluate(INI)
    /\ Continue([Walker EXCEPT !.phase = "down"])
    /\ UNCHANGED <<node, array, children, status>>

\* lai_init_children() calls itself for the device.
InitChildren ==
    /\ Walking("down")
    /\ walk' = Append([walk EXCEPT ![Len(walk)].phase = "next"],
                       Loop("init", Walker.at))
    /\ UNCHANGED <<node, array, children, ctx, status>>

\* lai_check_device_pnp_id() and what the searches of PCI evaluate: any number of
\* the names they ask for.  Then the child is the one, or the search goes on.
Ask ==
    /\ Walking("ask")
    /\ \E name \in Asked : Evaluate(name)
    /\ Continue([Walker EXCEPT !.phase = "match"])
    /\ UNCHANGED <<node, array, children, status>>

Match ==
    /\ Walking("match")
    /\ \/ Continue([Walker EXCEPT !.phase = "next"])
       \/ walk' = <<>>
    /\ UNCHANGED <<node, array, children, ctx, status>>
-------------------------------------------------------------------------------
RunAML ==
    \/ Load
    \/ \E m \in Methods : Invoke(m)
    \/ Abort
    \/ \E term \in Terms :
         \/ OpenDevice(term) \/ DefineName(term) \/ DefineLeaf(term)
         \/ DefineAlias(term) \/ Duplicate(term) \/ Nowhere(term) \/ OpenScope(term)
    \/ EndBlock \/ Return \/ UninstallFirst \/ EndMethod

RunLoops ==
    \/ \E kind \in {"init", "find"} : StartWalk(kind, Child(Root, Predefined[1]))
    \/ Iterate \/ FinishWalk
    \/ AskStatus \/ Judge \/ Initialize \/ InitChildren
    \/ Ask \/ Match

Next == RunAML \/ RunLoops

Spec == Init /\ [][Next]_vars
-------------------------------------------------------------------------------
Pointers == Nat     \* a node or Null

\* The variables have their types.
TypeOK ==
    /\ node \in Seq([name : Names \cup {"\\"}, kind : Kinds, parent : Pointers,
                     target : Pointers, origin : Origins])
    /\ array \in Seq(Pointers)
    /\ DOMAIN children = Nodes
    /\ ctx \in Seq([handle : Nodes, method : BOOLEAN, list : Seq(Nodes),
                    ending : BOOLEAN, before : SUBSET Nodes])
    /\ walk \in Seq([kind : {"init", "find"}, parent : Nodes, i : Nat, at : Pointers,
                     phase : {"next", "sta", "judge", "ini", "down", "ask", "match"},
                     start : SUBSET Nodes, seen : Seq(Nodes)])
    /\ status \in {"ok", "unresolved", "missing", "twice"}

\* A children table is consistent after any sequence of growths, insertions and
\* removals: the buckets in use lead to the slots in use, one each, the hash in
\* the slot is that of the element's name, the count is right, and one slot is
\* free for the next element.
TableOK(p) ==
    LET t == children[p] full == {b \in Buckets(t) : t.bucket[b] >= 0}
    IN  /\ {t.bucket[b] : b \in full} = Used(t)
        /\ \A b, c \in full : t.bucket[b] = t.bucket[c] => b = c
        /\ \A k \in Used(t) : t.hash[k] = Hash[node[t.elem[k]].name]
        /\ t.num_elems = Cardinality(Used(t))
        /\ t.elem_capacity > 0 => t.num_elems < t.elem_capacity

TablesOK == \A p \in Nodes : TableOK(p)

\* The array and the tables agree, whatever was installed, refused as a
\* duplicate or uninstalled: every child of a table is in the array once, and an
\* entry that is in no table is a duplicate of a child that was there first.
ArrayCoversTables ==
    /\ \A n \in Installed : \E i \in DOMAIN array : array[i] = n
    /\ \A i \in DOMAIN array : array[i] # Null =>
         (array[i] \in Installed <=> node[array[i]].origin # "refused")
    /\ \A i, j \in DOMAIN array : array[i] = array[j] /\ array[i] # Null => i = j
    /\ \A p \in Nodes : \A n \in Elements(children[p]) : node[n].parent = p

\* lai_uninstall_nsnode() never panics: the nodes of the per-method lists are in
\* the tables of their parents, on one list, once.
UninstallFinds == status \notin {"missing", "twice"}

\* An alias never leads to an alias, and no alias is a scope, so the LAI_ENSUREs
\* of the resolution never fire.
AliasesAreFlat ==
    /\ \A n \in Nodes :
         node[n].kind = "ALIAS" =>
             node[n].target \in Nodes /\ node[node[n].target].kind # "ALIAS"
    /\ \A i \in DOMAIN ctx : node[ctx[i].handle].kind # "ALIAS"

\* A lookup finds a child exactly while its parent's table holds it, whatever
\* was inserted and removed before: no collision hides it, no leftover of a
\* removed child is found.
LookupsFind ==
    \A p \in Nodes : \A name \in Names :
        LET named == {n \in Elements(children[p]) : node[n].name = name}
        IN  {Child(p, name)} = IF named = {} THEN {Null} ELSE named

Edges == {[parent |-> node[n].parent, name |-> node[n].name, node |-> n] : n \in Installed}

Tree == INSTANCE LaiTree WITH tree <- Edges

\* The array and the hash tables implement the tree of named nodes.
ImplementsTree == Tree!TreeSpec

\* "Clean up all per-method namespace nodes.": when a call returns, what was there
\* at the call is there, and nothing else but nodes that were created in a block
\* of their own, such as that of a Device.
CallRestoresNamespace ==
    [][Len(ctx') < Len(ctx) /\ Ending =>
          /\ Top.before \subseteq Installed'
          /\ \A n \in Installed' \ Top.before : node[n].origin = "block"]_vars

\* A loop over children that has come to its end returned every child that was
\* there at its start exactly once, although the methods it evaluated installed
\* and uninstalled children meanwhile.
EveryChildOnce ==
    [][Len(walk') < Len(walk) /\ Walker.phase = "next" =>
          /\ \A n \in Walker.start : \E i \in DOMAIN Walker.seen : Walker.seen[i] = n
          /\ \A i, j \in DOMAIN Walker.seen : Walker.seen[i] = Walker.seen[j] => i = j]_vars
=============================================================================
