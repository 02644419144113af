------------------------------- MODULE LaiExec -------------------------------
(***************************************************************************)
(* The AML interpreter of core/exec.c as a stack machine: lai_eval_args()  *)
(* and lai_populate() start a run, lai_exec_run() calls lai_exec_process() *)
(* until the execution stack is empty, and each call of                    *)
(* lai_exec_process(), with the lai_exec_parse() in it, is one action.     *)
(*                                                                         *)
(* lai_state_t keeps four stacks: contexts, blocks (a program counter and  *)
(* its limit), stack items and operands, each in an array that reserve()   *)
(* doubles.  AML is a stream that the parser discovers: every opcode       *)
(* header is one unit of code, a nested block is a number of units behind  *)
(* its header, and any opcode that the grammar allows in the parse mode    *)
(* may come next, so that the model covers every method and table.         *)
(*                                                                         *)
(* Of an operand only the tag matters that its consumer LAI_ENSUREs.  Any  *)
(* call that may return an error may do so; the state is then finalized    *)
(* and initialized again.                                                  *)
(***************************************************************************)
EXTENDS Integers, SequencesExt

CONSTANTS
    SmallSizes,  \* the capacities after lai_init_state(), one per stack
    Kinds,       \* the kinds of stack items that the AML makes use of
    OpArgs,      \* argument modes of the operators, as sequences
    NodeArgs,    \* argument modes of the leaf nodes (Name, OpRegion, ...)
    ArgCounts,   \* numbers of arguments of the control methods
    CodeSizes,   \* bound: the lengths of methods and tables
    MaxStack     \* bound: the height of the execution stack

Arrays == {"ctx", "blk", "stack", "ops"}
Modes == {"exec", "object", "data", "reference", "unresolved", "byte"}
Tags == {"object", "target", "unresolved"}
ItemKinds == {"POPULATE", "METHOD", "LOOP", "COND", "BUFFER", "PACKAGE", "NODE",
              "OP", "INVOKE", "RETURN", "BANKFIELD", "VARPACKAGE"}

ASSUME SizesAssumption == SmallSizes \in [Arrays -> Nat \ {0}]
ASSUME KindsAssumption == Kinds \subseteq ItemKinds
ASSUME ArgsAssumption ==
    OpArgs \subseteq Seq(Modes) /\ NodeArgs \subseteq Seq(Modes) /\ ArgCounts \subseteq Nat
ASSUME OperandsAssumption ==
    \A args \in OpArgs \cup NodeArgs : \A i \in DOMAIN args : args[i] # "exec"
ASSUME BoundsAssumption == CodeSizes \subseteq Nat /\ MaxStack \in Nat

VARIABLES
    ctx,     \* the context stack: does the context belong to an invocation?
    blk,     \* the block stack
    stack,   \* the execution stack
    ops,     \* the operand stack: the tags of the operands
    cap,     \* the capacities of the four arrays
    status   \* what runs, or why lai_panic() was called

vars == <<ctx, blk, stack, ops, cap, status>>

Running == status \in {"eval", "populate"}

Top  == stack[Len(stack)]
Here == blk[Len(blk)]
AtEnd == Here.pc = Here.limit

\* state->opstack_ptr - item->opstack_frame.
K == Len(ops) - Top.frame

HasBlock(kind)   == kind \in {"POPULATE", "METHOD", "LOOP", "COND", "BUFFER",
                              "PACKAGE", "VARPACKAGE", "BANKFIELD"}
HasContext(kind) == kind \in {"POPULATE", "METHOD"}
IsPackage(item)  == item.kind \in {"PACKAGE", "VARPACKAGE"}

\* Items that hold a list of terms to execute, and items that collect the
\* operands args; a While and an If first collect their predicate.
Executes(item) ==
    \/ HasContext(item.kind)
    \/ item.kind \in {"LOOP", "COND"} /\ item.phase = 1
Collects(item) == ~Executes(item) /\ ~IsPackage(item)
-------------------------------------------------------------------------------
Init ==
    /\ ctx = <<>> /\ blk = <<>> /\ stack = <<>> /\ ops = <<>>
    /\ cap = SmallSizes
    /\ status = "idle"

\* lai_finalize_state() and lai_init_state().
Reset ==
    /\ ctx' = <<>> /\ blk' = <<>> /\ stack' = <<>> /\ ops' = <<>>
    /\ cap' = SmallSizes
    /\ status' = "idle"

\* lai_panic() and a failing LAI_ENSURE do not return.
Panic(why) == status' = why /\ UNCHANGED <<ctx, blk, stack, ops, cap>>

Height == [ctx |-> Len(ctx), blk |-> Len(blk), stack |-> Len(stack), ops |-> Len(ops)]
Full(array) == Height[array] = cap[array]

\* lai_exec_reserve_ctxstack() and its like: an array that is full is doubled.
Reserve(arrays) ==
    [a \in Arrays |-> IF a \in arrays /\ Full(a) THEN 2 * cap[a] ELSE cap[a]]

\* The stacks become c, b, s and o, in arrays that were reserved before; a push
\* LAI_ENSUREs that there is room.
Put(arrays, c, b, s, o) ==
    LET room == Reserve(arrays) IN
    IF Len(c) <= room["ctx"] /\ Len(b) <= room["blk"]
       /\ Len(s) <= room["stack"] /\ Len(o) <= room["ops"]
      THEN /\ ctx' = c /\ blk' = b /\ stack' = s /\ ops' = o
           /\ cap' = room
           /\ UNCHANGED status
      ELSE Panic("ensure")

Block(pc, limit) == [pc |-> pc, limit |-> limit]
NoBlock == Block(0, 0)

\* A new stack item.  alt is the body of a While or the Else of an If.  The last
\* two fields are history: the heights of ctx and blk below the item, as frame is
\* for METHOD and POPULATE items, which have no opstack_frame in the code.
Item(kind, frame, want, args, alt) ==
    [kind |-> kind, frame |-> frame, want |-> want, args |-> args, phase |-> 0,
     alt |-> alt, ctxs |-> Len(ctx), blks |-> Len(blk)]

\* lai_eval_args() of an AML method.
Call ==
    /\ status = "idle"
    /\ \E size \in CodeSizes : blk' = Append(blk, Block(0, size))
    /\ ctx' = Append(ctx, TRUE)
    /\ stack' = Append(stack, Item("METHOD", Len(ops), TRUE, <<>>, NoBlock))
    /\ status' = "eval"
    /\ cap' = Reserve({"ctx", "blk", "stack"})
    /\ UNCHANGED ops

\* lai_populate() of a table.
Populate ==
    /\ status = "idle"
    /\ \E size \in CodeSizes : blk' = Append(blk, Block(0, size))
    /\ ctx' = Append(ctx, FALSE)
    /\ stack' = Append(stack, Item("POPULATE", Len(ops), FALSE, <<>>, NoBlock))
    /\ status' = "populate"
    /\ cap' = Reserve({"ctx", "blk", "stack"})
    /\ UNCHANGED ops

\* lai_exec_run() finds an empty stack.  The caller takes the result of a method
\* and keeps the state; the callers of lai_populate() finalize it.
Finish ==
    /\ Running
    /\ stack = <<>>
    /\ IF ctx # <<>> \/ Len(ops) # (IF status = "eval" THEN 1 ELSE 0)
         THEN Panic("ensure")
         ELSE IF status = "eval"
           THEN status' = "idle" /\ ops' = <<>> /\ UNCHANGED <<ctx, blk, stack, cap>>
           ELSE Reset
-------------------------------------------------------------------------------
(* What lai_exec_process() asserts of the item on top. *)

\* The operands that an argument parsed in this mode may become.
TagsOf(mode) ==
    CASE mode = "reference"  -> {"object", "target"}
      [] mode = "unresolved" -> {"unresolved"}
      [] mode = "placed"     -> {"target"}
      [] OTHER               -> {"object"}

\* The LAI_ENSUREs on the context, the block, the number of operands above the
\* frame and their tags.
Ensured ==
    /\ ctx # <<>> /\ blk # <<>>
    /\ Here.pc <= Here.limit
    /\ Collects(Top) =>
         /\ K \in 0..Len(Top.args)
         /\ \A i \in 1..K : ops[Top.frame + i] \in TagsOf(Top.args[i])
    /\ IsPackage(Top) =>
         /\ IF Top.phase = 2 THEN K \in 1..2 ELSE K > Top.phase
         /\ \A i \in 1..K : ops[Top.frame + i] = "object"

\* lai_exec_process() with the item on top in a state that it accepts.
Processing == Running /\ stack # <<>> /\ Ensured

\* The operands once a package in phase 2 has stored the initializer on top.
Settled == IF IsPackage(Top) /\ Top.phase = 2 /\ K = 2 THEN Front(ops) ELSE ops

\* The item on top calls lai_exec_parse() in this mode.
Asks(mode) ==
    \/ Executes(Top) /\ ~AtEnd /\ mode = "exec"
    \/ Collects(Top) /\ K < Len(Top.args) /\ mode = Top.args[K + 1]
    \/ Top.kind = "PACKAGE" /\ Top.phase = 0 /\ mode = "byte"
    \/ Top.kind = "VARPACKAGE" /\ Top.phase = 0 /\ mode = "object"
    \/ IsPackage(Top) /\ Top.phase = 2 /\ ~AtEnd /\ mode = "data"

\* All operands are collected.
Complete == Collects(Top) /\ K = Len(Top.args)
-------------------------------------------------------------------------------
(* lai_exec_parse(): each action consumes one opcode. *)

Parses(mode) == Processing /\ Asks(mode) /\ ~AtEnd

\* lai_exec_commit_pc().
Commit(pc) == [blk EXCEPT ![Len(blk)].pc = pc]

\* The execution stack after the call.  A package in phase 0 goes on to phase 1,
\* through a pointer to the item that was taken before the call: it is stale when
\* the call has moved the array.
Advanced(arrays) ==
    IF IsPackage(Top) /\ Top.phase = 0 /\ ~("stack" \in arrays /\ Full("stack"))
      THEN [stack EXCEPT ![Len(stack)].phase = 1]
      ELSE stack

\* What a term that is complete in itself leaves on the operand stack: constants,
\* Arg, Local and Debug reserve one operand, names an operand and an item.
Leaves(mode) ==
    LET name == {"ops", "stack"} IN
    CASE mode = "reference"  -> {"target"} \X {{"ops"}, name}
      [] mode = "unresolved" -> {"unresolved"} \X {name}
      [] mode = "byte"       -> {"object"} \X {{"ops"}}
      [] OTHER               -> {"object"} \X {{"ops"}, name}

ParseOperand(mode) ==
    /\ mode # "exec"
    /\ Parses(mode)
    /\ \E leaf \in Leaves(mode) :
         Put(leaf[2], ctx, Commit(Here.pc + 1), Advanced(leaf[2]),
             Append(Settled, leaf[1]))

\* Statements without operands: Noop, Method, Alias, Field and the like, which
\* reserve nothing, a lone Zero, and a lone name.
ParseStatement ==
    /\ Parses("exec")
    /\ \E arrays \in {{}, {"ops"}, {"ops", "stack"}} :
         Put(arrays, ctx, Commit(Here.pc + 1), stack, ops)

\* The opcodes that push a stack item: where they may stand, the operands they
\* place on the operand stack themselves, and the arguments they collect.
Form(kind, modes, placed, args) ==
    [kind |-> kind, modes |-> modes, placed |-> placed, args |-> args]

AnyTerm == {"exec", "object", "data"}

\* While, If and Return.
ControlForms == {Form(kind, {"exec"}, <<>>, <<"object">>) : kind \in {"LOOP", "COND", "RETURN"}}

\* Scope, Device, Processor, PowerResource and ThermalZone.
ScopeForms == {Form("POPULATE", {"exec"}, <<>>, <<>>)}

\* Buffer, Package and VarPackage.
DataForms ==
    {Form("BUFFER", AnyTerm, <<>>, <<"object">>)}
    \cup {Form(kind, AnyTerm, <<"object">>, <<>>) : kind \in {"PACKAGE", "VARPACKAGE"}}

\* Name, OpRegion and the buffer fields; BankField.
NodeForms ==
    {Form("NODE", {"exec"}, <<>>, args) : args \in NodeArgs}
    \cup {Form("BANKFIELD", {"exec"}, <<"target", "target">>, <<"placed", "placed", "object">>)}

OpForms == {Form("OP", {"exec", "object", "reference"}, <<>>, args) : args \in OpArgs}

\* The name of a method.
CallForms ==
    {Form("INVOKE", {"exec", "object"}, <<"target">>,
          <<"placed">> \o [i \in 1..n |-> "object"]) : n \in ArgCounts}

AllForms ==
    ControlForms \cup ScopeForms \cup DataForms \cup NodeForms \cup OpForms \cup CallForms

Forms == {form \in AllForms : form.kind \in Kinds}

\* Mutation: the opcodes that open a block do not reserve one.
ReservedWithoutBlock(form) ==
    {"stack"}
    \cup (IF HasContext(form.kind) THEN {"ctx"} ELSE {})
    \cup (IF form.placed # <<>> THEN {"ops"} ELSE {})

\* The arrays that an opcode reserves; BankField reserves its two operands by
\* asking twice for one.
Reserved(form) ==
    {"stack"}
    \cup (IF HasBlock(form.kind) THEN {"blk"} ELSE {})
    \cup (IF HasContext(form.kind) THEN {"ctx"} ELSE {})
    \cup (IF form.placed # <<>> THEN {"ops"} ELSE {})

\* An opcode with an item of its own, and the block of code behind it if it has
\* one.  alt is what the item remembers of the code; the parser goes on at next.
Open(form, mode, limit, alt, next) ==
    LET item == Item(form.kind, Len(Settled), mode # "exec", form.args, alt)
        arrays == Reserved(form)
    IN
    Put(arrays,
        IF HasContext(form.kind) THEN Append(ctx, FALSE) ELSE ctx,
        IF HasBlock(form.kind)
          THEN Append(Commit(next), Block(Here.pc + 1, limit))
          ELSE Commit(next),
        Append(Advanced(arrays), item),
        Settled \o form.placed)

ParseItem(mode) ==
    /\ Parses(mode)
    /\ Len(stack) < MaxStack
    /\ \E form \in {f \in Forms : mode \in f.modes} :
       \E limit \in IF HasBlock(form.kind) THEN (Here.pc + 1)..Here.limit
                                          ELSE {Here.pc + 1} :
         Open(form, mode, limit,
              IF form.kind = "LOOP" THEN Block(Here.pc + 1, limit) ELSE NoBlock, limit)

\* Mutation: the parser goes on at the Else instead of behind it.
ParseIfOnly ==
    /\ Parses("exec")
    /\ "COND" \in Kinds
    /\ Len(stack) < MaxStack
    /\ \E limit \in (Here.pc + 1)..(Here.limit - 1) :
         \E next \in (limit + 1)..Here.limit :
           Open(Form("COND", {"exec"}, <<>>, <<"object">>), "exec", limit,
                Block(limit + 1, next), limit)

\* If with an Else behind it.
ParseIfElse ==
    /\ Parses("exec")
    /\ "COND" \in Kinds
    /\ Len(stack) < MaxStack
    /\ \E limit \in (Here.pc + 1)..(Here.limit - 1) :
         \E next \in (limit + 1)..Here.limit :
           Open(Form("COND", {"exec"}, <<>>, <<"object">>), "exec", limit,
                Block(limit + 1, next), next)

\* Item m is the While that a Break or Continue on top of the stack belongs to.
InnermostLoop(m) ==
    /\ stack[m].kind = "LOOP"
    /\ \A i \in (m + 1)..Len(stack) : stack[i].kind = "COND"

\* Mutation: Continue starts the body again without a look at the predicate.
ParseContinueUnchecked ==
    /\ Parses("exec")
    /\ \E m \in DOMAIN stack :
         /\ InnermostLoop(m)
         /\ LET left == SubSeq(blk, 1, Len(blk) - (Len(stack) - m)) IN
            Put({}, ctx, [left EXCEPT ![Len(left)].pc = stack[m].alt.pc],
                SubSeq(stack, 1, m), ops)

ParseContinue ==
    /\ Parses("exec")
    /\ \E m \in DOMAIN stack :
         /\ InnermostLoop(m)
         /\ LET left == SubSeq(blk, 1, Len(blk) - (Len(stack) - m)) IN
            Put({}, ctx, [left EXCEPT ![Len(left)].pc = left[Len(left)].limit],
                SubSeq(stack, 1, m), ops)

\* Mutation: Break does not pop the block of the While.
ParseBreakKeepsBlock ==
    /\ Parses("exec")
    /\ \E m \in DOMAIN stack :
         /\ InnermostLoop(m)
         /\ Put({}, ctx, SubSeq(blk, 1, Len(blk) - (Len(stack) - m)),
                SubSeq(stack, 1, m - 1), ops)

ParseBreak ==
    /\ Parses("exec")
    /\ \E m \in DOMAIN stack :
         /\ InnermostLoop(m)
         /\ Put({}, ctx, SubSeq(blk, 1, Len(blk) - (Len(stack) - m) - 1),
                SubSeq(stack, 1, m - 1), ops)
-------------------------------------------------------------------------------
(* lai_exec_process() of an item that has what it needs. *)

Result(want) == IF want THEN <<"object">> ELSE <<>>

\* The operand stack without the operands that the item on top has collected.
Below == SubSeq(ops, 1, Top.frame)

\* lai_exec_reduce_op(), and the creation of a buffer.
FinishOperator ==
    /\ Processing /\ Complete
    /\ Top.kind \in {"OP", "BUFFER"}
    /\ Put(IF Top.kind = "OP" THEN {"ops"} ELSE {},
           ctx, IF Top.kind = "BUFFER" THEN Front(blk) ELSE blk,
           Front(stack), Below \o Result(Top.want))

\* lai_exec_reduce_node(), and the installation of bank fields.
FinishNode ==
    /\ Processing /\ Complete
    /\ Top.kind \in {"NODE", "BANKFIELD"}
    /\ Put({}, ctx, IF Top.kind = "BANKFIELD" THEN Front(blk) ELSE blk, Front(stack), Below)

\* A method that the host overrides runs at once.
InvokeOverride ==
    /\ Processing /\ Complete
    /\ Top.kind = "INVOKE"
    /\ Put({"ctx", "blk"}, ctx, blk, Front(stack), Below \o Result(Top.want))

\* An AML method gets a context, a block and a METHOD item of its own.
InvokeMethod ==
    /\ Processing /\ Complete
    /\ Top.kind = "INVOKE"
    /\ \E size \in CodeSizes :
         Put({"ctx", "blk"}, Append(ctx, TRUE), Append(blk, Block(0, size)),
             Append(Front(stack), Item("METHOD", Top.frame, Top.want, <<>>, NoBlock)),
             Below)

\* Item m is the method that the Return on top of the stack belongs to.
ReturningMethod(m) ==
    /\ stack[m].kind = "METHOD"
    /\ \A i \in (m + 1)..(Len(stack) - 1) : stack[i].kind \in {"COND", "LOOP"}

\* Mutation: the result is pushed whether or not the caller wants it.
FinishReturnAlways ==
    /\ Processing /\ Complete
    /\ Top.kind = "RETURN"
    /\ \E m \in 1..(Len(stack) - 1) :
         /\ ReturningMethod(m)
         /\ Put({}, Front(ctx), SubSeq(blk, 1, Len(blk) - (Len(stack) - 1 - m) - 1),
                SubSeq(stack, 1, m - 1), ops)

\* Return leaves the loops and conditions it is nested in, and the method.
FinishReturn ==
    /\ Processing /\ Complete
    /\ Top.kind = "RETURN"
    /\ \E m \in 1..(Len(stack) - 1) :
         /\ ReturningMethod(m)
         /\ Put({}, Front(ctx), SubSeq(blk, 1, Len(blk) - (Len(stack) - 1 - m) - 1),
                SubSeq(stack, 1, m - 1), Front(ops) \o Result(stack[m].want))

\* The end of a method is an implicit Return(0).
MethodEnds ==
    /\ Processing
    /\ Top.kind = "METHOD" /\ AtEnd
    /\ IF ops # <<>>
         THEN Panic("pending")
         ELSE Put({"ops"}, Front(ctx), Front(blk), Front(stack), Result(Top.want))

\* The end of a table, a scope, or a branch of an If.
BlockEnds ==
    /\ Processing
    /\ Top.kind = "POPULATE" \/ (Top.kind = "COND" /\ Top.phase = 1)
    /\ AtEnd
    /\ Put({}, IF Top.kind = "POPULATE" THEN Front(ctx) ELSE ctx, Front(blk), Front(stack), ops)

\* Mutation: the state of the loop is counted up instead of reset.
LoopGoesOn ==
    /\ Processing
    /\ Top.kind = "LOOP" /\ Top.phase = 1 /\ AtEnd
    /\ Put({}, ctx, Commit(Top.alt.pc), [stack EXCEPT ![Len(stack)].phase = 2], ops)

\* The end of an iteration: back to the predicate.
LoopRepeats ==
    /\ Processing
    /\ Top.kind = "LOOP" /\ Top.phase = 1 /\ AtEnd
    /\ Put({}, ctx, Commit(Top.alt.pc), [stack EXCEPT ![Len(stack)].phase = 0], ops)

\* The predicate of a While or an If is true.
PredicateHolds ==
    /\ Processing /\ Complete
    /\ Top.kind \in {"LOOP", "COND"}
    /\ Put({}, ctx, blk, [stack EXCEPT ![Len(stack)].phase = 1], Front(ops))

\* It is false, and there is no Else.
PredicateFails ==
    /\ Processing /\ Complete
    /\ Top.kind = "LOOP" \/ (Top.kind = "COND" /\ Top.alt = NoBlock)
    /\ Put({}, ctx, Front(blk), Front(stack), Front(ops))

TakeElse ==
    /\ Processing /\ Complete
    /\ Top.kind = "COND" /\ Top.alt # NoBlock
    /\ Put({}, ctx, [blk EXCEPT ![Len(blk)] = Top.alt],
           [stack EXCEPT ![Len(stack)].phase = 1], Front(ops))

\* Phase 1 of a package: the size is on top, the package object below it.
CreatePackage ==
    /\ Processing
    /\ IsPackage(Top) /\ Top.phase = 1
    /\ Put({}, ctx, blk, [stack EXCEPT ![Len(stack)].phase = 2], Front(ops))

PackageEnds ==
    /\ Processing
    /\ IsPackage(Top) /\ Top.phase = 2 /\ AtEnd
    /\ Put({}, ctx, Front(blk), Front(stack), IF Top.want THEN Settled ELSE Front(Settled))
-------------------------------------------------------------------------------
\* The call may return an error: everywhere in the parser, when an operation is
\* reduced, and where memory is reserved.
MayFail ==
    \/ \E mode \in Modes : Asks(mode)
    \/ Complete /\ Top.kind \in {"OP", "INVOKE", "LOOP", "COND", "BANKFIELD"}
    \/ IsPackage(Top) /\ Top.phase = 1
    \/ Top.kind = "METHOD" /\ Full("ops")

Fail == Processing /\ MayFail /\ Reset

\* AML that is wrong: a term that runs out of its block, a Break, Continue or
\* Return without a While or method to leave, an operand of the wrong type, and
\* an initializer that does not fit its buffer or package.
Malformed ==
    \/ AtEnd /\ \E mode \in Modes : Asks(mode)
    \/ Parses("exec") /\ ~\E m \in DOMAIN stack : InnermostLoop(m)
    \/ /\ Complete /\ Top.kind = "RETURN"
       /\ ~\E m \in 1..(Len(stack) - 1) : ReturningMethod(m)
    \/ Complete /\ Top.kind \in {"OP", "NODE", "LOOP", "COND", "BANKFIELD", "BUFFER"}
    \/ IsPackage(Top) /\ Top.phase = 1
    \/ Settled # ops

\* lai_exec_process() calls lai_panic(), because an LAI_ENSURE fails or because
\* the AML is malformed.
Stop ==
    /\ Running /\ stack # <<>>
    /\ IF Ensured THEN Malformed /\ Panic("malformed") ELSE Panic("ensure")

Halted == status \in {"ensure", "pending", "malformed"} /\ UNCHANGED vars

Process ==
    \/ Finish
    \/ \E mode \in Modes : ParseOperand(mode)
    \/ ParseStatement
    \/ \E mode \in Modes : ParseItem(mode)
    \/ ParseIfElse \/ ParseContinue \/ ParseBreak
    \/ FinishOperator \/ FinishNode \/ InvokeOverride \/ InvokeMethod
    \/ FinishReturn \/ MethodEnds \/ BlockEnds \/ LoopRepeats
    \/ PredicateHolds \/ PredicateFails \/ TakeElse
    \/ CreatePackage \/ PackageEnds
    \/ Fail \/ Stop

Next == Call \/ Populate \/ Process \/ Halted

Spec == Init /\ [][Next]_vars

\* lai_exec_run() is a loop that nothing suspends.
FairSpec == Spec /\ WF_vars(Process)
-------------------------------------------------------------------------------
Blocks == [pc : Nat, limit : Nat]
ItemRecords == [kind : ItemKinds, frame : Nat, want : BOOLEAN,
                args : Seq(Modes \cup {"placed"}), phase : 0..2, alt : Blocks,
                ctxs : Nat, blks : Nat]
Items == {item \in ItemRecords : item.phase = 2 => IsPackage(item)}
Statuses == {"idle", "eval", "populate", "ensure", "pending", "malformed"}

\* The variables have their types, only packages have a third phase, and no stack
\* is higher than its array.
TypeOK ==
    /\ ctx \in Seq(BOOLEAN) /\ blk \in Seq(Blocks)
    /\ stack \in Seq(Items) /\ ops \in Seq(Tags)
    /\ cap \in [Arrays -> Nat \ {0}]
    /\ \A a \in Arrays : Height[a] <= cap[a]
    /\ status \in Statuses

\* The contexts and blocks that the items up to i own.
CtxsTo(i) == IF i = 0 THEN 0
             ELSE stack[i].ctxs + (IF HasContext(stack[i].kind) THEN 1 ELSE 0)
BlksTo(i) == IF i = 0 THEN 0
             ELSE stack[i].blks + (IF HasBlock(stack[i].kind) THEN 1 ELSE 0)

\* The stacks are unwound together, by Break, Continue and Return out of nested
\* items as well: every block and context belongs to exactly one item, in the same
\* order, and a context has an invocation iff a method owns it.
StacksAligned ==
    /\ Len(ctx) = CtxsTo(Len(stack)) /\ Len(blk) = BlksTo(Len(stack))
    /\ \A i \in DOMAIN stack :
         /\ stack[i].ctxs = CtxsTo(i - 1) /\ stack[i].blks = BlksTo(i - 1)
         /\ HasContext(stack[i].kind) =>
              ctx[CtxsTo(i)] = (stack[i].kind = "METHOD")

\* The pc of a block stands behind all code nested in it, the Else and the body of
\* a loop that starts again included: code is never executed twice or skipped over
\* when a nested block is left, and execution does not escape its range.
BlocksNest ==
    \A i \in DOMAIN stack :
        LET item == stack[i]  own == blk[BlksTo(i)]  parent == blk[item.blks] IN
        HasBlock(item.kind) =>
            /\ own.pc <= own.limit
            /\ item.kind # "METHOD" /\ item.blks > 0 =>
                 own.limit <= parent.pc /\ item.alt.limit <= parent.pc

\* No LAI_ENSURE of the interpreter fires: no stack is pushed without room, as
\* exec_impl.h says of a push ("Users are expected to call the reserve() function
\* before this one."), every item finds the number and the kinds of operands that it expects
\* above its frame, and a run ends with the stacks as it found them.
NoEnsureFires == status # "ensure"

\* A method that is left, by Return or at its end, out of any nesting of loops and
\* conditions, leaves all stacks as its caller had them, plus the result that the
\* caller wants.
CallsReturnBalanced ==
    [][\A m \in DOMAIN stack :
          stack[m].kind = "METHOD" /\ Len(stack') < m /\ Running' =>
              /\ stack' = SubSeq(stack, 1, m - 1)
              /\ ops' = SubSeq(ops, 1, stack[m].frame) \o Result(stack[m].want)
              /\ Len(ctx') = stack[m].ctxs /\ Len(blk') = stack[m].blks]_vars

LoopIterates == PredicateHolds /\ Top.kind = "LOOP"

\* lai_exec_run() comes to an end unless the AML loops itself: a run that goes on
\* for ever finds the predicate of a While true again and again.
EndlessOnlyByWhile == <>[]Running => []<><<LoopIterates>>_vars

\* exec.c says "ACPI does an implicit Return(0) at the end of a control method.":
\* a method may end without Return wherever it is called from.
ImplicitReturnWorks == status # "pending"

\* internal-exec.h says of the phases of a package "0: Parse size, 1: Create
\* Object, 2: Enumerate items": in phase 0 the size is not on the operand stack
\* yet, in phase 1 it is.
PackagePhases ==
    Running /\ stack # <<>> /\ IsPackage(Top) /\ Top.phase < 2 => K = Top.phase + 1
===============================================================================
