---------------------------- MODULE LaiExecProofs ----------------------------
(***************************************************************************)
(* The interpreter of LaiExec, for every AML, every size of the arrays and *)
(* every set of operators.                                                 *)
(***************************************************************************)
EXTENDS LaiExec, SequenceTheorems, TLAPS

(* Sequences: what is left of one after pops, and its last element. *)

LEMMA PrefixType ==
    ASSUME NEW S, NEW s \in Seq(S), NEW n \in Int, n <= Len(s)
    PROVE  /\ SubSeq(s, 1, n) \in Seq(S)
           /\ Len(SubSeq(s, 1, n)) = IF n >= 0 THEN n ELSE 0
           /\ \A i \in 1..n : SubSeq(s, 1, n)[i] = s[i]
<1>1. CASE n < 1
  BY <1>1, SubSeqEmpty, EmptySeq
<1>2. CASE n >= 1
  BY <1>2, SubSeqProperties
<1> QED BY <1>1, <1>2

LEMMA LastType ==
    ASSUME NEW S, NEW s \in Seq(S), s # <<>>
    PROVE  Len(s) \in Nat \ {0} /\ Len(s) \in 1..Len(s) /\ s[Len(s)] \in S
  BY EmptySeq, ElementOfSeq

LEMMA FrontType ==
    ASSUME NEW S, NEW s \in Seq(S), s # <<>>
    PROVE  /\ Front(s) \in Seq(S)
           /\ Len(Front(s)) = Len(s) - 1
           /\ \A i \in 1..(Len(s) - 1) : Front(s)[i] = s[i]
<1>1. Len(s) \in Nat \ {0}
  BY LastType
<1> DEFINE n == Len(s) - 1
<1>2. n \in Int /\ n <= Len(s) /\ n >= 0
  BY <1>1
<1> HIDE DEF n
<1>3. /\ SubSeq(s, 1, n) \in Seq(S)
      /\ Len(SubSeq(s, 1, n)) = n
      /\ \A i \in 1..n : SubSeq(s, 1, n)[i] = s[i]
  BY <1>2, PrefixType
<1> QED BY <1>3 DEF Front, n
-------------------------------------------------------------------------------
(* Type correctness. *)

LEMMA ArrayTypes ==
    ASSUME TypeOK
    PROVE  /\ Len(ctx) \in Nat /\ Len(blk) \in Nat /\ Len(stack) \in Nat /\ Len(ops) \in Nat
           /\ Height["ctx"] = Len(ctx) /\ Height["blk"] = Len(blk)
           /\ Height["stack"] = Len(stack) /\ Height["ops"] = Len(ops)
           /\ \A a \in Arrays : Height[a] \in Nat /\ cap[a] \in Nat \ {0}
<1>1. /\ Len(ctx) \in Nat /\ Len(blk) \in Nat /\ Len(stack) \in Nat /\ Len(ops) \in Nat
  BY LenProperties DEF TypeOK
<1> QED BY <1>1 DEF TypeOK, Height, Arrays

\* After reserve() an array has a capacity, and room for one element more.
LEMMA ReserveMakesRoom ==
    ASSUME TypeOK, NEW arrays
    PROVE  /\ Reserve(arrays) \in [Arrays -> Nat \ {0}]
           /\ \A a \in Arrays : Height[a] <= Reserve(arrays)[a]
           /\ \A a \in Arrays : a \in arrays => Height[a] + 1 <= Reserve(arrays)[a]
<1> USE ArrayTypes
<1>1. ASSUME NEW a \in Arrays
      PROVE  /\ Reserve(arrays)[a] \in Nat \ {0}
             /\ Height[a] <= Reserve(arrays)[a]
             /\ a \in arrays => Height[a] + 1 <= Reserve(arrays)[a]
  <2>1. Reserve(arrays)[a] = IF a \in arrays /\ Height[a] = cap[a] THEN 2 * cap[a] ELSE cap[a]
    BY DEF Reserve, Full
  <2>2. Height[a] <= cap[a]
    BY DEF TypeOK
  <2> QED BY <2>1, <2>2, SMTT(30)
<1>2. Reserve(arrays) = [a \in Arrays |-> Reserve(arrays)[a]]
  BY DEF Reserve
<1> QED BY <1>1, <1>2

LEMMA PutType ==
    ASSUME TypeOK, NEW arrays, NEW c \in Seq(BOOLEAN), NEW b \in Seq(Blocks),
           NEW s \in Seq(Items), NEW o \in Seq(Tags), Put(arrays, c, b, s, o)
    PROVE  TypeOK'
<1> DEFINE room == Reserve(arrays)
<1>1. CASE /\ ctx' = c /\ blk' = b /\ stack' = s /\ ops' = o /\ cap' = room
           /\ status' = status
           /\ Len(c) <= room["ctx"] /\ Len(b) <= room["blk"]
           /\ Len(s) <= room["stack"] /\ Len(o) <= room["ops"]
  <2>1. room \in [Arrays -> Nat \ {0}]
    BY ReserveMakesRoom
  <2>2. \A a \in Arrays : Height'[a] <= cap'[a]
    BY <1>1 DEF Height, Arrays
  <2> QED BY <1>1, <2>1, <2>2 DEF TypeOK
<1>2. CASE Panic("ensure")
  BY <1>2 DEF Panic, TypeOK, Height, Statuses
<1> QED BY <1>1, <1>2 DEF Put

\* The item and the block that lai_exec_process() looks at.
LEMMA ProcessingTypes ==
    ASSUME TypeOK, Processing
    PROVE  /\ stack # <<>> /\ blk # <<>> /\ ctx # <<>>
           /\ Len(stack) \in 1..Len(stack) /\ Len(blk) \in 1..Len(blk)
           /\ Len(ctx) \in Nat /\ Len(ops) \in Nat
           /\ Top \in Items /\ Here \in Blocks /\ K \in Int
  BY LastType, ArrayTypes, SMTT(60) DEF TypeOK, Processing, Ensured, Top, Here, K, Items, ItemRecords

LEMMA CommitType ==
    ASSUME TypeOK, Processing, NEW pc \in Nat
    PROVE  Commit(pc) \in Seq(Blocks)
<1>1. blk \in Seq(Blocks) /\ Len(blk) \in 1..Len(blk)
  BY ProcessingTypes DEF TypeOK
<1>2. [Here EXCEPT !.pc = pc] \in Blocks
  BY ProcessingTypes DEF Blocks
<1>3. Commit(pc) = [blk EXCEPT ![Len(blk)] = [Here EXCEPT !.pc = pc]]
  BY DEF Commit, Here
<1> QED BY <1>1, <1>2, <1>3, ExceptSeq

LEMMA PhaseType ==
    ASSUME TypeOK, Processing, NEW phase \in 0..2, phase = 2 => IsPackage(Top)
    PROVE  [stack EXCEPT ![Len(stack)].phase = phase] \in Seq(Items)
<1>1. stack \in Seq(Items) /\ Len(stack) \in 1..Len(stack)
  BY ProcessingTypes DEF TypeOK
<1>2. [Top EXCEPT !.phase = phase] \in Items
  BY ProcessingTypes DEF Items, ItemRecords, IsPackage
<1>3. [stack EXCEPT ![Len(stack)].phase = phase]
        = [stack EXCEPT ![Len(stack)] = [Top EXCEPT !.phase = phase]]
  BY DEF Top
<1> QED BY <1>1, <1>2, <1>3, ExceptSeq

LEMMA AdvancedType ==
    ASSUME TypeOK, Processing, NEW arrays
    PROVE  Advanced(arrays) \in Seq(Items)
  BY PhaseType DEF Advanced, TypeOK

LEMMA OperandTypes ==
    ASSUME TypeOK, Processing
    PROVE  /\ Settled \in Seq(Tags) /\ Len(Settled) \in Nat
           /\ Complete => Below \in Seq(Tags)
           /\ Front(ops) \in Seq(Tags) /\ Front(Settled) \in Seq(Tags)
           /\ \A want \in BOOLEAN : Result(want) \in Seq(Tags)
<1>0. \A s \in Seq(Tags) : Front(s) \in Seq(Tags)
  <2> TAKE s \in Seq(Tags)
  <2>1. Len(s) \in Nat
    BY LenProperties
  <2>2. Len(s) - 1 \in Int /\ Len(s) - 1 <= Len(s)
    BY <2>1
  <2> QED BY <2>2, PrefixType DEF Front
<1>1. Settled \in Seq(Tags)
  BY <1>0 DEF Settled, TypeOK
<1>2. Complete => Below \in Seq(Tags)
  <2> SUFFICES ASSUME Complete PROVE Below \in Seq(Tags)
    OBVIOUS
  <2>1. K >= 0
    BY LenProperties, ProcessingTypes DEF Complete, Items, ItemRecords
  <2>2. Top.frame \in Int /\ Top.frame <= Len(ops)
    BY <2>1, ProcessingTypes, SMTT(30) DEF K, Items, ItemRecords
  <2> QED BY <2>2, PrefixType DEF Below, TypeOK
<1>3. \A want \in BOOLEAN : Result(want) \in Seq(Tags)
  <2>1. <<>> \in Seq(Tags) /\ <<"object">> \in Seq(Tags)
    BY DEF Tags
  <2> QED BY <2>1 DEF Result
<1> QED BY <1>0, <1>1, <1>2, <1>3, LenProperties DEF TypeOK

LEMMA ItemType ==
    ASSUME TypeOK, NEW kind \in ItemKinds, NEW frame \in Nat, NEW want \in BOOLEAN,
           NEW args \in Seq(Modes \cup {"placed"}), NEW alt \in Blocks
    PROVE  Item(kind, frame, want, args, alt) \in Items
  BY ArrayTypes DEF Item, Items, ItemRecords

LEMMA InitType == Init => TypeOK
  BY SizesAssumption, EmptySeq DEF Init, TypeOK, Height, Arrays, Statuses

LEMMA ResetType == Reset => TypeOK'
  BY SizesAssumption, EmptySeq DEF Reset, TypeOK, Height, Arrays, Statuses

LEMMA StartType == ASSUME TypeOK, Call \/ Populate PROVE TypeOK'
<1> DEFINE arrays == {"ctx", "blk", "stack"}
<1>1. PICK size \in CodeSizes : blk' = Append(blk, Block(0, size))
  BY DEF Call, Populate
<1>2. blk' \in Seq(Blocks) /\ Len(blk') = Len(blk) + 1
  <2>1. Block(0, size) \in Blocks
    BY BoundsAssumption DEF Block, Blocks
  <2> QED BY <1>1, <2>1, AppendProperties DEF TypeOK
<1>3. ctx' \in Seq(BOOLEAN) /\ Len(ctx') = Len(ctx) + 1
  <2>1. PICK known \in BOOLEAN : ctx' = Append(ctx, known)
    BY DEF Call, Populate
  <2>2. ctx \in Seq(BOOLEAN)
    BY DEF TypeOK
  <2> QED BY <2>1, <2>2, AppendProperties
<1>4. stack' \in Seq(Items) /\ Len(stack') = Len(stack) + 1
  <2>1. NoBlock \in Blocks /\ <<>> \in Seq(Modes \cup {"placed"}) /\ Len(ops) \in Nat
    BY ArrayTypes DEF NoBlock, Block, Blocks
  <2>2. /\ Item("METHOD", Len(ops), TRUE, <<>>, NoBlock) \in Items
        /\ Item("POPULATE", Len(ops), FALSE, <<>>, NoBlock) \in Items
    BY <2>1, ItemType DEF ItemKinds
  <2>3. PICK item \in Items : stack' = Append(stack, item)
    BY <2>2 DEF Call, Populate
  <2>4. stack \in Seq(Items)
    BY DEF TypeOK
  <2> QED BY <2>3, <2>4, AppendProperties
<1>5. ops' = ops /\ cap' = Reserve(arrays) /\ status' \in Statuses
  BY DEF Call, Populate, Statuses
<1>6. cap' \in [Arrays -> Nat \ {0}]
  BY <1>5, ReserveMakesRoom
<1>7. \A a \in Arrays : Height'[a] <= cap'[a]
  <2>1. /\ Len(ctx) + 1 <= cap'["ctx"] /\ Len(blk) + 1 <= cap'["blk"]
        /\ Len(stack) + 1 <= cap'["stack"] /\ Len(ops) <= cap'["ops"]
    BY <1>5, ReserveMakesRoom, ArrayTypes DEF Arrays
  <2> QED BY <1>2, <1>3, <1>4, <1>5, <2>1 DEF Height, Arrays
<1> QED BY <1>2, <1>3, <1>4, <1>5, <1>6, <1>7 DEF TypeOK

LEMMA FinishType == ASSUME TypeOK, Finish PROVE TypeOK'
<1>1. CASE Panic("ensure")
  BY <1>1 DEF Panic, TypeOK, Height, Statuses
<1>2. CASE status' = "idle" /\ ops' = <<>> /\ UNCHANGED <<ctx, blk, stack, cap>>
  BY <1>2, ArrayTypes, EmptySeq DEF TypeOK, Height, Arrays, Statuses
<1>3. CASE Reset
  BY <1>3, ResetType
<1> QED BY <1>1, <1>2, <1>3 DEF Finish

LEMMA PanicType ==
    ASSUME TypeOK, NEW why \in Statuses, Panic(why) PROVE TypeOK'
  BY DEF Panic, TypeOK, Height

LEMMA ParseOperandType ==
    ASSUME TypeOK, NEW mode \in Modes, ParseOperand(mode) PROVE TypeOK'
<1>1. Processing
  BY DEF ParseOperand, Parses
<1>2. PICK leaf \in Leaves(mode) :
        Put(leaf[2], ctx, Commit(Here.pc + 1), Advanced(leaf[2]), Append(Settled, leaf[1]))
  BY DEF ParseOperand
<1>3. leaf[1] \in Tags
  BY DEF Leaves, Tags
<1>4. Append(Settled, leaf[1]) \in Seq(Tags)
  BY <1>1, <1>3, OperandTypes, AppendProperties
<1>5. Commit(Here.pc + 1) \in Seq(Blocks)
  BY <1>1, ProcessingTypes, CommitType DEF Blocks
<1> QED BY <1>1, <1>2, <1>4, <1>5, AdvancedType, PutType DEF TypeOK

LEMMA ParseStatementType == ASSUME TypeOK, ParseStatement PROVE TypeOK'
<1>1. Processing
  BY DEF ParseStatement, Parses
<1>2. Commit(Here.pc + 1) \in Seq(Blocks)
  BY <1>1, ProcessingTypes, CommitType DEF Blocks
<1> QED BY <1>1, <1>2, PutType DEF ParseStatement, TypeOK

FormType(form) ==
    form.kind \in ItemKinds /\ form.placed \in Seq(Tags)
      /\ form.args \in Seq(Modes \cup {"placed"})

LEMMA FormHasType ==
    ASSUME NEW kind \in ItemKinds, NEW modes, NEW placed \in Seq(Tags),
           NEW args \in Seq(Modes \cup {"placed"})
    PROVE  FormType(Form(kind, modes, placed, args))
  BY DEF Form, FormType

LEMMA FormTypes == \A form \in Forms : FormType(form)
<1>1. ASSUME NEW args \in NodeArgs \cup OpArgs PROVE args \in Seq(Modes \cup {"placed"})
  <2>1. args \in Seq(Modes)
    BY ArgsAssumption
  <2> QED BY <2>1, SeqMonotonic
<1>2. ASSUME NEW n \in ArgCounts
      PROVE  <<"placed">> \o [i \in 1..n |-> "object"] \in Seq(Modes \cup {"placed"})
  <2>1. n \in Nat
    BY ArgsAssumption
  <2>2. [i \in 1..n |-> "object"] \in Seq(Modes \cup {"placed"})
    BY <2>1 DEF Modes
  <2>3. <<"placed">> \in Seq(Modes \cup {"placed"})
    OBVIOUS
  <2> QED BY <2>2, <2>3, ConcatProperties
<1>3. <<>> \in Seq(Tags) /\ <<"object">> \in Seq(Tags) /\ <<"target">> \in Seq(Tags)
        /\ <<"target", "target">> \in Seq(Tags)
  BY DEF Tags
<1>4. /\ <<>> \in Seq(Modes \cup {"placed"}) /\ <<"object">> \in Seq(Modes \cup {"placed"})
      /\ <<"placed", "placed", "object">> \in Seq(Modes \cup {"placed"})
  BY DEF Modes
<1> SUFFICES ASSUME NEW form \in AllForms PROVE FormType(form)
  BY DEF Forms
<1>5. CASE form \in ControlForms \cup ScopeForms
  BY <1>3, <1>4, <1>5, FormHasType DEF ControlForms, ScopeForms, ItemKinds
<1>6. CASE form \in DataForms
  BY <1>3, <1>4, <1>6, FormHasType DEF DataForms, ItemKinds
<1>7. CASE form \in NodeForms
  BY <1>1, <1>3, <1>4, <1>7, FormHasType DEF NodeForms, ItemKinds
<1>8. CASE form \in OpForms
  BY <1>1, <1>3, <1>8, FormHasType DEF OpForms, ItemKinds
<1>9. CASE form \in CallForms
  BY <1>2, <1>3, <1>9, FormHasType DEF CallForms, ItemKinds
<1> QED BY <1>5, <1>6, <1>7, <1>8, <1>9 DEF AllForms

LEMMA OpenType ==
    ASSUME TypeOK, Processing, NEW form, FormType(form), NEW mode \in Modes,
           NEW limit \in Nat, NEW alt \in Blocks, NEW next \in Nat,
           Open(form, mode, limit, alt, next)
    PROVE  TypeOK'
<1> DEFINE item == Item(form.kind, Len(Settled), mode # "exec", form.args, alt)
           arrays == Reserved(form)
           c == IF HasContext(form.kind) THEN Append(ctx, FALSE) ELSE ctx
           b == IF HasBlock(form.kind)
                  THEN Append(Commit(next), Block(Here.pc + 1, limit))
                  ELSE Commit(next)
<1>1. item \in Items
  BY ItemType, OperandTypes DEF FormType
<1>2. Append(Advanced(arrays), item) \in Seq(Items)
  BY <1>1, AdvancedType, AppendProperties
<1>3. Settled \o form.placed \in Seq(Tags)
  BY OperandTypes, ConcatProperties DEF FormType
<1>4. b \in Seq(Blocks)
  <2>1. Block(Here.pc + 1, limit) \in Blocks
    BY ProcessingTypes DEF Block, Blocks
  <2>2. Commit(next) \in Seq(Blocks)
    BY CommitType
  <2> QED BY <2>1, <2>2, AppendProperties
<1>5. c \in Seq(BOOLEAN)
  BY AppendProperties DEF TypeOK
<1>6. Put(arrays, c, b, Append(Advanced(arrays), item), Settled \o form.placed)
  BY DEF Open
<1> QED BY <1>2, <1>3, <1>4, <1>5, <1>6, PutType

LEMMA ParseItemType ==
    ASSUME TypeOK, NEW mode \in Modes, ParseItem(mode) PROVE TypeOK'
<1>1. Processing
  BY DEF ParseItem, Parses
<1>2. Here.pc \in Nat /\ Here.limit \in Nat
  BY <1>1, ProcessingTypes DEF Blocks
<1>3. PICK form \in Forms :
      \E limit \in IF HasBlock(form.kind) THEN (Here.pc + 1)..Here.limit
                                          ELSE {Here.pc + 1} :
         Open(form, mode, limit,
              IF form.kind = "LOOP" THEN Block(Here.pc + 1, limit) ELSE NoBlock, limit)
  BY DEF ParseItem
<1>4. PICK limit \in Nat :
         Open(form, mode, limit,
              IF form.kind = "LOOP" THEN Block(Here.pc + 1, limit) ELSE NoBlock, limit)
  BY <1>2, <1>3
<1>5. (IF form.kind = "LOOP" THEN Block(Here.pc + 1, limit) ELSE NoBlock) \in Blocks
  BY <1>2 DEF Block, NoBlock, Blocks
<1> QED BY <1>1, <1>3, <1>4, <1>5, FormTypes, OpenType

LEMMA ParseIfElseType == ASSUME TypeOK, ParseIfElse PROVE TypeOK'
<1>1. Processing
  BY DEF ParseIfElse, Parses
<1>2. Here.pc \in Nat /\ Here.limit \in Nat
  BY <1>1, ProcessingTypes DEF Blocks
<1> DEFINE form == Form("COND", {"exec"}, <<>>, <<"object">>)
<1>3. PICK limit \in Nat, next \in Nat :
         Open(form, "exec", limit, Block(limit + 1, next), next)
  BY <1>2, SMTT(60) DEF ParseIfElse
<1>4. FormType(form)
  <2>1. <<>> \in Seq(Tags) /\ <<"object">> \in Seq(Modes \cup {"placed"})
    BY DEF Modes
  <2> QED BY <2>1, FormHasType DEF ItemKinds
<1>5. Block(limit + 1, next) \in Blocks
  BY DEF Block, Blocks
<1>6. "exec" \in Modes
  BY DEF Modes
<1> HIDE DEF form
<1> QED BY <1>1, <1>3, <1>4, <1>5, <1>6, OpenType

\* The stacks after the items above m are unwound, with n blocks.
LEMMA UnwoundTypes ==
    ASSUME TypeOK, NEW m \in Int, m <= Len(stack), NEW n \in Int, n <= Len(blk)
    PROVE  SubSeq(stack, 1, m) \in Seq(Items) /\ SubSeq(blk, 1, n) \in Seq(Blocks)
  BY PrefixType DEF TypeOK

LEMMA ParseContinueType == ASSUME TypeOK, ParseContinue PROVE TypeOK'
<1>1. PICK m \in DOMAIN stack :
        LET left == SubSeq(blk, 1, Len(blk) - (Len(stack) - m)) IN
          Put({}, ctx, [left EXCEPT ![Len(left)].pc = left[Len(left)].limit],
              SubSeq(stack, 1, m), ops)
  BY DEF ParseContinue
<1>2. m \in 1..Len(stack) /\ Len(stack) \in Nat /\ Len(blk) \in Nat
  BY <1>1, ArrayTypes, LenProperties DEF TypeOK
<1> DEFINE n == Len(blk) - (Len(stack) - m)
           left == SubSeq(blk, 1, n)
           last == Len(left)
           rest == [left EXCEPT ![last].pc = left[last].limit]
<1>3. n \in Int /\ n <= Len(blk)
  BY <1>2
<1>4. left \in Seq(Blocks) /\ SubSeq(stack, 1, m) \in Seq(Items)
  BY <1>2, <1>3, UnwoundTypes
<1>5. Put({}, ctx, rest, SubSeq(stack, 1, m), ops)
  BY <1>1
<1> HIDE DEF n
<1>6. rest \in Seq(Blocks)
  <2>1. CASE left = <<>>
    <3> HIDE DEF left, last
    <3>1. DOMAIN left = {}
      <4>1. DOMAIN left = 1..Len(left) /\ Len(left) = 0
        BY <1>4, <2>1, LenProperties, EmptySeq
      <4> QED BY <4>1
    <3>2. rest = [i \in DOMAIN left |->
                    IF i = last THEN [left[i] EXCEPT !.pc = left[last].limit] ELSE left[i]]
      OBVIOUS
    <3>3. rest = [i \in DOMAIN left |-> left[i]]
      BY <3>1, <3>2
    <3>4. left = [i \in DOMAIN left |-> left[i]]
      BY <1>4
    <3> QED BY <3>3, <3>4, <1>4
  <2>2. CASE left # <<>>
    <3>1. last \in 1..last /\ left[last] \in Blocks
      BY <1>4, <2>2, LastType
    <3>2. [left[last] EXCEPT !.pc = left[last].limit] \in Blocks
      BY <3>1 DEF Blocks
    <3> HIDE DEF left
    <3>3. rest = [left EXCEPT ![last] = [left[last] EXCEPT !.pc = left[last].limit]]
      OBVIOUS
    <3> QED BY <1>4, <3>1, <3>2, <3>3, ExceptSeq
  <2> QED BY <2>1, <2>2
<1> HIDE DEF rest
<1> QED BY <1>4, <1>5, <1>6, PutType DEF TypeOK

LEMMA ParseBreakType == ASSUME TypeOK, ParseBreak PROVE TypeOK'
<1>1. PICK m \in DOMAIN stack :
        Put({}, ctx, SubSeq(blk, 1, Len(blk) - (Len(stack) - m) - 1),
            SubSeq(stack, 1, m - 1), ops)
  BY DEF ParseBreak
<1>2. m \in 1..Len(stack) /\ Len(stack) \in Nat /\ Len(blk) \in Nat
  BY <1>1, ArrayTypes, LenProperties DEF TypeOK
<1> DEFINE i == m - 1
           n == Len(blk) - (Len(stack) - m) - 1
<1>3. i \in Int /\ i <= Len(stack) /\ n \in Int /\ n <= Len(blk)
  BY <1>2
<1>4. Put({}, ctx, SubSeq(blk, 1, n), SubSeq(stack, 1, i), ops)
  BY <1>1
<1> HIDE DEF i, n
<1> QED BY <1>3, <1>4, UnwoundTypes, PutType DEF TypeOK

\* Each stack without its last element, as an item that ends leaves it.
LEMMA PoppedTypes ==
    ASSUME TypeOK, Processing
    PROVE  /\ ctx \in Seq(BOOLEAN) /\ Front(ctx) \in Seq(BOOLEAN)
           /\ blk \in Seq(Blocks) /\ Front(blk) \in Seq(Blocks)
           /\ stack \in Seq(Items) /\ Front(stack) \in Seq(Items)
           /\ ops \in Seq(Tags)
  BY ProcessingTypes, FrontType DEF TypeOK

\* What is left below the item on top, with the result of the item.
LEMMA ResultType ==
    ASSUME TypeOK, Processing, Complete
    PROVE  Below \in Seq(Tags) /\ Below \o Result(Top.want) \in Seq(Tags)
<1>1. Top.want \in BOOLEAN
  BY ProcessingTypes DEF Items, ItemRecords
<1>2. Below \in Seq(Tags) /\ Result(Top.want) \in Seq(Tags)
  BY <1>1, OperandTypes
<1> QED BY <1>2, ConcatProperties

LEMMA FinishOperatorType == ASSUME TypeOK, FinishOperator PROVE TypeOK'
<1>1. Processing /\ Complete
  BY DEF FinishOperator
<1> DEFINE b == IF Top.kind = "BUFFER" THEN Front(blk) ELSE blk
           arrays == IF Top.kind = "OP" THEN {"ops"} ELSE {}
<1>2. b \in Seq(Blocks)
  BY <1>1, PoppedTypes
<1>3. Put(arrays, ctx, b, Front(stack), Below \o Result(Top.want))
  BY DEF FinishOperator
<1> HIDE DEF b, arrays
<1> QED BY <1>1, <1>2, <1>3, PoppedTypes, ResultType, PutType

LEMMA FinishNodeType == ASSUME TypeOK, FinishNode PROVE TypeOK'
<1>1. Processing /\ Complete
  BY DEF FinishNode
<1> DEFINE b == IF Top.kind = "BANKFIELD" THEN Front(blk) ELSE blk
<1>2. b \in Seq(Blocks)
  BY <1>1, PoppedTypes
<1>3. Put({}, ctx, b, Front(stack), Below)
  BY DEF FinishNode
<1> HIDE DEF b
<1> QED BY <1>1, <1>2, <1>3, PoppedTypes, ResultType, PutType

LEMMA InvokeOverrideType == ASSUME TypeOK, InvokeOverride PROVE TypeOK'
<1>1. Processing /\ Complete
  BY DEF InvokeOverride
<1>2. Put({"ctx", "blk"}, ctx, blk, Front(stack), Below \o Result(Top.want))
  BY DEF InvokeOverride
<1> QED BY <1>1, <1>2, PoppedTypes, ResultType, PutType

LEMMA InvokeMethodType == ASSUME TypeOK, InvokeMethod PROVE TypeOK'
<1>1. Processing /\ Complete
  BY DEF InvokeMethod
<1> DEFINE item == Item("METHOD", Top.frame, Top.want, <<>>, NoBlock)
<1>2. PICK size \in CodeSizes :
         Put({"ctx", "blk"}, Append(ctx, TRUE), Append(blk, Block(0, size)),
             Append(Front(stack), item), Below)
  BY DEF InvokeMethod
<1>3. item \in Items
  <2>1. NoBlock \in Blocks /\ <<>> \in Seq(Modes \cup {"placed"})
    BY DEF NoBlock, Block, Blocks
  <2>2. Top.frame \in Nat /\ Top.want \in BOOLEAN /\ "METHOD" \in ItemKinds
    BY <1>1, ProcessingTypes DEF Items, ItemRecords, ItemKinds
  <2> QED BY <2>1, <2>2, ItemType
<1>4. Block(0, size) \in Blocks
  BY BoundsAssumption DEF Block, Blocks
<1> HIDE DEF item
<1>5. Append(ctx, TRUE) \in Seq(BOOLEAN)
  BY <1>1, PoppedTypes, AppendProperties
<1>6. Append(blk, Block(0, size)) \in Seq(Blocks)
  BY <1>1, <1>4, PoppedTypes, AppendProperties
<1>7. Append(Front(stack), item) \in Seq(Items)
  BY <1>1, <1>3, PoppedTypes, AppendProperties
<1> QED BY <1>1, <1>2, <1>5, <1>6, <1>7, ResultType, PutType

LEMMA FinishReturnType == ASSUME TypeOK, FinishReturn PROVE TypeOK'
<1>1. Processing
  BY DEF FinishReturn
<1>2. PICK m \in 1..(Len(stack) - 1) :
         Put({}, Front(ctx), SubSeq(blk, 1, Len(blk) - (Len(stack) - 1 - m) - 1),
             SubSeq(stack, 1, m - 1), Front(ops) \o Result(stack[m].want))
  BY DEF FinishReturn
<1> DEFINE i == m - 1
           n == Len(blk) - (Len(stack) - 1 - m) - 1
           o == Front(ops) \o Result(stack[m].want)
<1>3. i \in Int /\ i <= Len(stack) /\ n \in Int /\ n <= Len(blk) /\ m \in 1..Len(stack)
  BY <1>1, ArrayTypes
<1>4. o \in Seq(Tags)
  <2>1. stack[m].want \in BOOLEAN
    BY <1>3, ElementOfSeq, SMTT(30) DEF TypeOK, Items, ItemRecords
  <2>2. Result(stack[m].want) \in Seq(Tags) /\ Front(ops) \in Seq(Tags)
    BY <1>1, <2>1, OperandTypes
  <2> QED BY <2>2, ConcatProperties
<1>5. Put({}, Front(ctx), SubSeq(blk, 1, n), SubSeq(stack, 1, i), o)
  BY <1>2
<1> HIDE DEF i, n, o
<1>6. SubSeq(stack, 1, i) \in Seq(Items) /\ SubSeq(blk, 1, n) \in Seq(Blocks)
  BY <1>3, UnwoundTypes
<1> QED BY <1>1, <1>4, <1>5, <1>6, PoppedTypes, PutType

LEMMA MethodEndsType == ASSUME TypeOK, MethodEnds PROVE TypeOK'
<1>1. Processing /\ Top.want \in BOOLEAN
  BY ProcessingTypes DEF MethodEnds, Items, ItemRecords
<1>2. CASE Panic("pending")
  BY <1>2, PanicType DEF Statuses
<1>3. CASE Put({"ops"}, Front(ctx), Front(blk), Front(stack), Result(Top.want))
  BY <1>1, <1>3, PoppedTypes, OperandTypes, PutType
<1> QED BY <1>2, <1>3 DEF MethodEnds

LEMMA BlockEndsType == ASSUME TypeOK, BlockEnds PROVE TypeOK'
<1>1. Processing
  BY DEF BlockEnds
<1> DEFINE c == IF Top.kind = "POPULATE" THEN Front(ctx) ELSE ctx
<1>2. c \in Seq(BOOLEAN)
  BY <1>1, PoppedTypes
<1>3. Put({}, c, Front(blk), Front(stack), ops)
  BY DEF BlockEnds
<1> HIDE DEF c
<1> QED BY <1>1, <1>2, <1>3, PoppedTypes, PutType

LEMMA LoopRepeatsType == ASSUME TypeOK, LoopRepeats PROVE TypeOK'
<1>1. Processing /\ Top.alt.pc \in Nat
  BY ProcessingTypes DEF LoopRepeats, Items, ItemRecords, Blocks
<1>2. [stack EXCEPT ![Len(stack)].phase = 0] \in Seq(Items)
  BY <1>1, PhaseType
<1>3. Commit(Top.alt.pc) \in Seq(Blocks)
  BY <1>1, CommitType
<1>4. Put({}, ctx, Commit(Top.alt.pc), [stack EXCEPT ![Len(stack)].phase = 0], ops)
  BY DEF LoopRepeats
<1> QED BY <1>1, <1>2, <1>3, <1>4, PoppedTypes, PutType

LEMMA PredicateHoldsType == ASSUME TypeOK, PredicateHolds PROVE TypeOK'
<1>1. Processing
  BY DEF PredicateHolds
<1>2. [stack EXCEPT ![Len(stack)].phase = 1] \in Seq(Items)
  BY <1>1, PhaseType
<1>3. Put({}, ctx, blk, [stack EXCEPT ![Len(stack)].phase = 1], Front(ops))
  BY DEF PredicateHolds
<1> QED BY <1>1, <1>2, <1>3, PoppedTypes, OperandTypes, PutType

LEMMA PredicateFailsType == ASSUME TypeOK, PredicateFails PROVE TypeOK'
<1>1. Processing
  BY DEF PredicateFails
<1>2. Put({}, ctx, Front(blk), Front(stack), Front(ops))
  BY DEF PredicateFails
<1> QED BY <1>1, <1>2, PoppedTypes, OperandTypes, PutType

LEMMA TakeElseType == ASSUME TypeOK, TakeElse PROVE TypeOK'
<1>1. Processing
  BY DEF TakeElse
<1>2. [stack EXCEPT ![Len(stack)].phase = 1] \in Seq(Items)
  BY <1>1, PhaseType
<1>3. [blk EXCEPT ![Len(blk)] = Top.alt] \in Seq(Blocks)
  <2>1. Top.alt \in Blocks /\ Len(blk) \in 1..Len(blk)
    BY <1>1, ProcessingTypes DEF Items, ItemRecords
  <2> QED BY <1>1, <2>1, PoppedTypes, ExceptSeq
<1>4. Put({}, ctx, [blk EXCEPT ![Len(blk)] = Top.alt],
          [stack EXCEPT ![Len(stack)].phase = 1], Front(ops))
  BY DEF TakeElse
<1> QED BY <1>1, <1>2, <1>3, <1>4, PoppedTypes, OperandTypes, PutType

LEMMA CreatePackageType == ASSUME TypeOK, CreatePackage PROVE TypeOK'
<1>1. Processing /\ IsPackage(Top)
  BY DEF CreatePackage
<1>2. [stack EXCEPT ![Len(stack)].phase = 2] \in Seq(Items)
  BY <1>1, PhaseType
<1>3. Put({}, ctx, blk, [stack EXCEPT ![Len(stack)].phase = 2], Front(ops))
  BY DEF CreatePackage
<1> QED BY <1>1, <1>2, <1>3, PoppedTypes, OperandTypes, PutType

LEMMA PackageEndsType == ASSUME TypeOK, PackageEnds PROVE TypeOK'
<1>1. Processing
  BY DEF PackageEnds
<1> DEFINE o == IF Top.want THEN Settled ELSE Front(Settled)
<1>2. o \in Seq(Tags)
  BY <1>1, OperandTypes
<1>3. Put({}, ctx, Front(blk), Front(stack), o)
  BY DEF PackageEnds
<1> HIDE DEF o
<1> QED BY <1>1, <1>2, <1>3, PoppedTypes, PutType

LEMMA StopType == ASSUME TypeOK, Stop PROVE TypeOK'
<1>1. Panic("malformed") \/ Panic("ensure")
  BY DEF Stop
<1> QED BY <1>1, PanicType DEF Statuses

LEMMA StepType == ASSUME TypeOK, [Next]_vars PROVE TypeOK'
<1>1. CASE Call \/ Populate
  BY <1>1, StartType
<1>2. CASE Finish
  BY <1>2, FinishType
<1>3. CASE \E mode \in Modes : ParseOperand(mode)
  BY <1>3, ParseOperandType
<1>4. CASE ParseStatement
  BY <1>4, ParseStatementType
<1>5. CASE \E mode \in Modes : ParseItem(mode)
  BY <1>5, ParseItemType
<1>6. CASE ParseIfElse \/ ParseContinue \/ ParseBreak
  BY <1>6, ParseIfElseType, ParseContinueType, ParseBreakType
<1>7. CASE FinishOperator \/ FinishNode
  BY <1>7, FinishOperatorType, FinishNodeType
<1>8. CASE InvokeOverride \/ InvokeMethod \/ FinishReturn \/ MethodEnds
  BY <1>8, InvokeOverrideType, InvokeMethodType, FinishReturnType, MethodEndsType
<1>9. CASE BlockEnds \/ LoopRepeats \/ TakeElse
  BY <1>9, BlockEndsType, LoopRepeatsType, TakeElseType
<1>10. CASE PredicateHolds \/ PredicateFails
  BY <1>10, PredicateHoldsType, PredicateFailsType
<1>11. CASE CreatePackage \/ PackageEnds
  BY <1>11, CreatePackageType, PackageEndsType
<1>12. CASE Fail \/ Stop
  BY <1>12, ResetType, StopType DEF Fail
<1>13. CASE Halted \/ UNCHANGED vars
  BY <1>13 DEF Halted, vars, TypeOK, Height
<1> QED
  BY <1>1, <1>2, <1>3, <1>4, <1>5, <1>6, <1>7, <1>8, <1>9, <1>10, <1>11, <1>12, <1>13
     DEF Next, Process

\* For every AML and every capacity: the variables keep their types, and no stack
\* ever grows beyond the array that lai_exec_reserve_*() has allocated for it.
THEOREM TypeCorrect == Spec => []TypeOK
<1>1. Init => TypeOK
  BY InitType
<1>2. TypeOK /\ [Next]_vars => TypeOK'
  BY StepType
<1> QED BY <1>1, <1>2, PTL DEF Spec

(***************************************************************************)
(* The stacks are unwound together, and blocks of code nest.               *)
(*                                                                         *)
(* Break, Continue and Return pop several items at once and find the       *)
(* number of blocks by counting items.  What makes the count right is      *)
(* Spans: between two items without a context in between there is none on  *)
(* the context stack, and between two items with nothing but items with    *)
(* blocks in between there are as many blocks as items.                    *)
(***************************************************************************)

\* The contexts and blocks that the items of s up to i own.
Ctxs(s, i) ==
    IF i = 0 THEN 0 ELSE s[i].ctxs + (IF HasContext(s[i].kind) THEN 1 ELSE 0)
Blks(s, i) ==
    IF i = 0 THEN 0 ELSE s[i].blks + (IF HasBlock(s[i].kind) THEN 1 ELSE 0)

Aligned(c, b, s) ==
    /\ Len(c) = Ctxs(s, Len(s)) /\ Len(b) = Blks(s, Len(s))
    /\ \A i \in 1..Len(s) :
         /\ s[i].ctxs = Ctxs(s, i - 1) /\ s[i].blks = Blks(s, i - 1)
         /\ HasContext(s[i].kind) => c[Ctxs(s, i)] = (s[i].kind = "METHOD")

Span(s, i, j) ==
    /\ Ctxs(s, i) <= Ctxs(s, j) /\ Blks(s, i) <= Blks(s, j)
    /\ (\A k \in (i + 1)..j : ~HasContext(s[k].kind)) => Ctxs(s, j) = Ctxs(s, i)
    /\ (\A k \in (i + 1)..j : HasBlock(s[k].kind)) => Blks(s, j) = Blks(s, i) + (j - i)

Spans(s) == \A i, j \in 0..Len(s) : i <= j => Span(s, i, j)

Woven(c, b, s) == Aligned(c, b, s) /\ Spans(s)

LEMMA CountTypes ==
    ASSUME NEW s \in Seq(Items), NEW i \in 0..Len(s)
    PROVE  Ctxs(s, i) \in Nat /\ Blks(s, i) \in Nat
<1>1. CASE i = 0
  BY <1>1 DEF Ctxs, Blks
<1>2. CASE i # 0
  <2>1. i \in 1..Len(s)
    BY <1>2, LenProperties
  <2>2. s[i].ctxs \in Nat /\ s[i].blks \in Nat
    BY <2>1, ElementOfSeq, SMTT(30) DEF Items, ItemRecords
  <2> QED BY <1>2, <2>2 DEF Ctxs, Blks
<1> QED BY <1>1, <1>2

\* The counts up to i only depend on the items up to i, and not on their phase.
LEMMA SameCounts ==
    ASSUME NEW s \in Seq(Items), NEW t \in Seq(Items), NEW n \in Nat,
           n <= Len(s), n <= Len(t),
           \A i \in 1..n : /\ t[i].kind = s[i].kind
                           /\ t[i].ctxs = s[i].ctxs /\ t[i].blks = s[i].blks
    PROVE  \A i \in 0..n : Ctxs(t, i) = Ctxs(s, i) /\ Blks(t, i) = Blks(s, i)
<1> TAKE i \in 0..n
<1>1. CASE i = 0
  BY <1>1 DEF Ctxs, Blks
<1>2. CASE i # 0
  <2>1. i \in 1..n
    BY <1>2
  <2>2. t[i].kind = s[i].kind /\ t[i].ctxs = s[i].ctxs /\ t[i].blks = s[i].blks
    BY <2>1
  <2> QED BY <1>2, <2>2 DEF Ctxs, Blks
<1> QED BY <1>1, <1>2

\* The items up to n keep their spans.
LEMMA SameSpans ==
    ASSUME NEW s \in Seq(Items), NEW t \in Seq(Items), NEW n \in Nat,
           n <= Len(s), n <= Len(t), Spans(s),
           \A i \in 1..n : /\ t[i].kind = s[i].kind
                           /\ t[i].ctxs = s[i].ctxs /\ t[i].blks = s[i].blks
    PROVE  \A i, j \in 0..n : i <= j => Span(t, i, j)
<1> TAKE i, j \in 0..n
<1> HAVE i <= j
<1>1. i \in 0..Len(s) /\ j \in 0..Len(s)
  BY LenProperties
<1>2. Span(s, i, j)
  BY <1>1 DEF Spans
<1>3. Ctxs(t, i) = Ctxs(s, i) /\ Blks(t, i) = Blks(s, i)
  BY SameCounts
<1>4. Ctxs(t, j) = Ctxs(s, j) /\ Blks(t, j) = Blks(s, j)
  BY SameCounts
<1>5. \A k \in (i + 1)..j : t[k].kind = s[k].kind
  BY <1>1
<1> QED BY <1>2, <1>3, <1>4, <1>5 DEF Span

\* Items keep their place while their phases, and the blocks' pcs, change.
LEMMA SameShapeWoven ==
    ASSUME NEW c, NEW b, NEW b2, NEW s \in Seq(Items), NEW t \in Seq(Items),
           Woven(c, b, s), Len(b2) = Len(b), Len(t) = Len(s),
           \A i \in 1..Len(s) : /\ t[i].kind = s[i].kind
                                /\ t[i].ctxs = s[i].ctxs /\ t[i].blks = s[i].blks
    PROVE  Woven(c, b2, t)
<1>1. Len(s) \in Nat
  BY LenProperties
<1>2. Spans(t)
  BY <1>1, SameSpans DEF Woven, Spans
<1>3. \A i \in 0..Len(s) : Ctxs(t, i) = Ctxs(s, i) /\ Blks(t, i) = Blks(s, i)
  BY <1>1, SameCounts, SMTT(30)
<1>4. Aligned(c, b2, t)
  <2>1. Len(c) = Ctxs(t, Len(t)) /\ Len(b2) = Blks(t, Len(t))
    BY <1>1, <1>3 DEF Woven, Aligned
  <2>2. ASSUME NEW i \in 1..Len(t)
        PROVE  /\ t[i].ctxs = Ctxs(t, i - 1) /\ t[i].blks = Blks(t, i - 1)
               /\ HasContext(t[i].kind) => c[Ctxs(t, i)] = (t[i].kind = "METHOD")
    <3>1. i \in 1..Len(s) /\ i \in 0..Len(s) /\ i - 1 \in 0..Len(s)
      BY <1>1
    <3>2. Ctxs(t, i - 1) = Ctxs(s, i - 1) /\ Blks(t, i - 1) = Blks(s, i - 1)
      BY <1>3, <3>1
    <3>3. Ctxs(t, i) = Ctxs(s, i)
      BY <1>3, <3>1
    <3>4. /\ t[i].kind = s[i].kind
          /\ t[i].ctxs = s[i].ctxs /\ t[i].blks = s[i].blks
      BY <3>1
    <3>5. /\ s[i].ctxs = Ctxs(s, i - 1) /\ s[i].blks = Blks(s, i - 1)
          /\ HasContext(s[i].kind) => c[Ctxs(s, i)] = (s[i].kind = "METHOD")
      BY <3>1 DEF Woven, Aligned
    <3> QED BY <3>2, <3>3, <3>4, <3>5
  <2> QED BY <2>1, <2>2 DEF Aligned
<1> QED BY <1>2, <1>4 DEF Woven

\* The items above m are gone, and with them their contexts and blocks.
LEMMA UnwindWoven ==
    ASSUME NEW c, NEW b, NEW c2, NEW b2, NEW s \in Seq(Items), NEW t \in Seq(Items),
           NEW m \in 0..Len(s), Woven(c, b, s),
           Len(t) = m, \A i \in 1..m : t[i] = s[i],
           Len(c2) = Ctxs(s, m), \A i \in 1..Ctxs(s, m) : c2[i] = c[i],
           Len(b2) = Blks(s, m)
    PROVE  Woven(c2, b2, t)
<1>1. Len(s) \in Nat /\ m \in Nat /\ m <= Len(s)
  BY LenProperties
<1>2. Spans(t)
  <2>1. Spans(s) /\ \A i \in 1..m : /\ t[i].kind = s[i].kind
                                   /\ t[i].ctxs = s[i].ctxs /\ t[i].blks = s[i].blks
    BY DEF Woven
  <2>2. m <= Len(s) /\ m <= Len(t) /\ m \in Nat
    BY <1>1
  <2>3. \A i, j \in 0..m : i <= j => Span(t, i, j)
    BY <2>1, <2>2, SameSpans
  <2> QED BY <2>3 DEF Spans
<1>3. \A i \in 0..m : Ctxs(t, i) = Ctxs(s, i) /\ Blks(t, i) = Blks(s, i)
  BY <1>1, SameCounts, SMTT(30)
<1>4. Aligned(c2, b2, t)
  <2>1. Len(c2) = Ctxs(t, Len(t)) /\ Len(b2) = Blks(t, Len(t))
    BY <1>1, <1>3
  <2>2. ASSUME NEW i \in 1..Len(t)
        PROVE  /\ t[i].ctxs = Ctxs(t, i - 1) /\ t[i].blks = Blks(t, i - 1)
               /\ HasContext(t[i].kind) => c2[Ctxs(t, i)] = (t[i].kind = "METHOD")
    <3>1. i \in 1..m /\ i \in 1..Len(s) /\ i \in 0..m /\ i - 1 \in 0..m /\ i \in 0..Len(s)
      BY <1>1
    <3>2. /\ Ctxs(t, i - 1) = Ctxs(s, i - 1) /\ Blks(t, i - 1) = Blks(s, i - 1)
          /\ Ctxs(t, i) = Ctxs(s, i)
      BY <1>3, <3>1
    <3>3. t[i] = s[i]
      BY <3>1
    <3>4. /\ s[i].ctxs = Ctxs(s, i - 1) /\ s[i].blks = Blks(s, i - 1)
          /\ HasContext(s[i].kind) => c[Ctxs(s, i)] = (s[i].kind = "METHOD")
      BY <3>1 DEF Woven, Aligned
    <3>5. HasContext(s[i].kind) => c2[Ctxs(s, i)] = c[Ctxs(s, i)]
      <4>1. Ctxs(s, i) <= Ctxs(s, m)
        BY <1>1, <3>1 DEF Woven, Spans, Span
      <4>2. Ctxs(s, i) \in Nat /\ Ctxs(s, m) \in Nat /\ Ctxs(s, i - 1) \in Nat
        BY <1>1, <3>1, CountTypes
      <4>3. HasContext(s[i].kind) => Ctxs(s, i) >= 1
        BY <3>1, <3>4, <4>2 DEF Ctxs
      <4> QED BY <4>1, <4>2, <4>3
    <3> QED BY <3>2, <3>3, <3>4, <3>5
  <2> QED BY <2>1, <2>2 DEF Aligned
<1> QED BY <1>2, <1>4 DEF Woven

\* An item is pushed with the contexts and blocks it owns.
LEMMA PushWoven ==
    ASSUME NEW c \in Seq(BOOLEAN), NEW b, NEW b2, NEW c2, NEW s \in Seq(Items),
           NEW item \in Items, Woven(c, b, s),
           item.ctxs = Len(c), item.blks = Len(b),
           c2 = IF HasContext(item.kind) THEN Append(c, item.kind = "METHOD") ELSE c,
           Len(b2) = Len(b) + (IF HasBlock(item.kind) THEN 1 ELSE 0)
    PROVE  Woven(c2, b2, Append(s, item))
<1> DEFINE t == Append(s, item)
           n == Len(s)
<1>1. /\ n \in Nat /\ t \in Seq(Items) /\ Len(t) = n + 1
      /\ t[n + 1] = item /\ \A i \in 1..n : t[i] = s[i]
  BY LenProperties, AppendProperties
<1> HIDE DEF t
<1>0. /\ n <= Len(s) /\ n <= Len(t) /\ Spans(s)
      /\ \A i \in 1..n : /\ t[i].kind = s[i].kind
                         /\ t[i].ctxs = s[i].ctxs /\ t[i].blks = s[i].blks
  BY <1>1 DEF Woven
<1>2. \A i \in 0..n : Ctxs(t, i) = Ctxs(s, i) /\ Blks(t, i) = Blks(s, i)
  BY <1>0, <1>1, SameCounts
<1>3. \A i, j \in 0..n : i <= j => Span(t, i, j)
  BY <1>0, <1>1, SameSpans
<1> HIDE DEF n
<1>4. Len(c) = Ctxs(s, n) /\ Len(b) = Blks(s, n)
  BY DEF Woven, Aligned, n
<1>5. /\ Ctxs(t, n + 1) = Ctxs(t, n) + (IF HasContext(item.kind) THEN 1 ELSE 0)
      /\ Blks(t, n + 1) = Blks(t, n) + (IF HasBlock(item.kind) THEN 1 ELSE 0)
  <2>1. n + 1 # 0 /\ n \in 0..n
    BY <1>1
  <2>2. Ctxs(t, n) = item.ctxs /\ Blks(t, n) = item.blks
    BY <1>2, <1>4, <2>1
  <2> QED BY <1>1, <2>1, <2>2 DEF Ctxs, Blks
<1>6. \A i \in 0..(n + 1) : Ctxs(t, i) \in Nat /\ Blks(t, i) \in Nat
  BY <1>1, CountTypes
<1>7. Spans(t)
  <2> SUFFICES ASSUME NEW i \in 0..(n + 1), NEW j \in 0..(n + 1), i <= j
               PROVE  Span(t, i, j)
    BY <1>1 DEF Spans
  <2>1. CASE j <= n
    BY <1>1, <1>3, <2>1
  <2>2. CASE j = n + 1 /\ i = n + 1
    BY <1>1, <1>6, <2>2, SMTT(30) DEF Span
  <2>3. CASE j = n + 1 /\ i <= n
    <3>1. i \in 0..n /\ n \in 0..n /\ n + 1 \in 0..(n + 1) /\ Span(t, i, n)
      BY <1>1, <1>3, <2>3
    <3>2. /\ Ctxs(t, i) \in Nat /\ Ctxs(t, n) \in Nat
          /\ Blks(t, i) \in Nat /\ Blks(t, n) \in Nat
      BY <1>1, <1>6, <3>1
    <3>3. n + 1 \in (i + 1)..(n + 1) /\ \A k \in (i + 1)..n : k \in (i + 1)..(n + 1)
      BY <1>1, <3>1
    <3>4. (\A k \in (i + 1)..(n + 1) : ~HasContext(t[k].kind)) =>
            Ctxs(t, n + 1) = Ctxs(t, i)
      BY <1>1, <1>5, <3>1, <3>2, <3>3, SMTT(30) DEF Span
    <3>5. (\A k \in (i + 1)..(n + 1) : HasBlock(t[k].kind)) =>
            Blks(t, n + 1) = Blks(t, i) + (n + 1 - i)
      BY <1>1, <1>5, <3>1, <3>2, <3>3, SMTT(60) DEF Span
    <3>6. Ctxs(t, i) <= Ctxs(t, n) /\ Blks(t, i) <= Blks(t, n)
      BY <3>1 DEF Span
    <3>7. Ctxs(t, i) <= Ctxs(t, n + 1) /\ Blks(t, i) <= Blks(t, n + 1)
      BY <1>5, <3>2, <3>6, SMTT(30)
    <3>8. Span(t, i, n + 1)
      BY <1>1, <3>1, <3>2, <3>4, <3>5, <3>7 DEF Span
    <3> QED BY <2>3, <3>8
  <2> QED BY <1>1, <2>1, <2>2, <2>3
<1>8. Aligned(c2, b2, t)
  <2>0. Len(c) \in Nat
    BY LenProperties
  <2>1. HasContext(item.kind) =>
          Len(c2) = Len(c) + 1 /\ c2[Len(c) + 1] = (item.kind = "METHOD")
    BY AppendProperties
  <2>2. \A i \in 1..Len(c) : c2[i] = c[i]
    BY AppendProperties
  <2>3. Len(c2) = Ctxs(t, n + 1) /\ Len(b2) = Blks(t, n + 1)
    BY <1>1, <1>2, <1>4, <1>5, <2>1
  <2>4. ASSUME NEW i \in 1..(n + 1)
        PROVE  /\ t[i].ctxs = Ctxs(t, i - 1) /\ t[i].blks = Blks(t, i - 1)
               /\ HasContext(t[i].kind) => c2[Ctxs(t, i)] = (t[i].kind = "METHOD")
    <3>1. CASE i = n + 1
      <4>1. n \in 0..n
        BY <1>1
      <4>2. Ctxs(t, n) = Len(c) /\ Blks(t, n) = Len(b)
        BY <1>2, <1>4, <4>1
      <4> QED BY <1>1, <1>5, <2>1, <3>1, <4>2
    <3>2. CASE i \in 1..n
      <4>1. i \in 0..n /\ i - 1 \in 0..n /\ n \in 0..n /\ i <= n
        BY <1>1, <3>2
      <4>2. /\ Ctxs(t, i - 1) = Ctxs(s, i - 1) /\ Blks(t, i - 1) = Blks(s, i - 1)
            /\ Ctxs(t, i) = Ctxs(s, i) /\ t[i] = s[i]
        BY <1>1, <1>2, <3>2, <4>1
      <4>3. /\ s[i].ctxs = Ctxs(s, i - 1) /\ s[i].blks = Blks(s, i - 1)
            /\ HasContext(s[i].kind) => c[Ctxs(s, i)] = (s[i].kind = "METHOD")
        BY <3>2 DEF Woven, Aligned, n
      <4>4. HasContext(s[i].kind) => Ctxs(s, i) \in 1..Len(c)
        <5>1. Ctxs(s, i) <= Ctxs(s, n)
          BY <4>1 DEF Woven, Spans, Span, n
        <5>2. Ctxs(s, i) \in Nat /\ Ctxs(s, n) \in Nat /\ Ctxs(s, i - 1) \in Nat
          BY <4>1, CountTypes DEF n
        <5>3. HasContext(s[i].kind) => Ctxs(s, i) >= 1
          BY <3>2, <4>3, <5>2 DEF Ctxs
        <5> QED BY <1>4, <5>1, <5>2, <5>3
      <4> QED BY <2>2, <4>2, <4>3, <4>4
    <3>3. i = n + 1 \/ i \in 1..n
      BY <1>1
    <3> QED BY <3>1, <3>2, <3>3
  <2> QED BY <1>1, <2>3, <2>4 DEF Aligned
<1> QED BY <1>7, <1>8 DEF Woven, t
-------------------------------------------------------------------------------
\* The inductive invariant.
IInv == TypeOK /\ Woven(ctx, blk, stack)

LEMMA EmptyWoven == Woven(<<>>, <<>>, <<>>)
<1>1. Len(<<>>) = 0
  OBVIOUS
<1>2. Aligned(<<>>, <<>>, <<>>)
  BY <1>1 DEF Aligned, Ctxs, Blks
<1>3. Spans(<<>>)
  BY <1>1 DEF Spans, Span, Ctxs, Blks
<1> QED BY <1>2, <1>3 DEF Woven

LEMMA PutWoven ==
    ASSUME IInv, NEW arrays, NEW c, NEW b, NEW s, NEW o,
           Put(arrays, c, b, s, o), Woven(c, b, s)
    PROVE  Woven(ctx', blk', stack')
<1>1. \/ ctx' = c /\ blk' = b /\ stack' = s
      \/ ctx' = ctx /\ blk' = blk /\ stack' = stack
  BY DEF Put, Panic
<1> QED BY <1>1 DEF IInv

\* Items and blocks that change in place.
LEMMA CommitLength ==
    ASSUME TypeOK, NEW pc PROVE Len(Commit(pc)) = Len(blk)
  BY DEF TypeOK, Commit

LEMMA PhaseWoven ==
    ASSUME IInv, Processing, NEW b, Len(b) = Len(blk), NEW phase \in 0..2,
           phase = 2 => IsPackage(Top)
    PROVE  Woven(ctx, b, [stack EXCEPT ![Len(stack)].phase = phase])
<1> DEFINE t == [stack EXCEPT ![Len(stack)].phase = phase]
<1>1. t \in Seq(Items)
  BY PhaseType DEF IInv
<1>2. stack \in Seq(Items) /\ Len(t) = Len(stack)
  BY DEF IInv, TypeOK
<1>3. \A i \in 1..Len(stack) : /\ t[i].kind = stack[i].kind
                               /\ t[i].ctxs = stack[i].ctxs /\ t[i].blks = stack[i].blks
  <2> TAKE i \in 1..Len(stack)
  <2>1. stack[i] \in Items
    BY <1>2, ElementOfSeq
  <2>2. t[i] = IF i = Len(stack) THEN [stack[i] EXCEPT !.phase = phase] ELSE stack[i]
    BY <1>2
  <2> QED BY <2>1, <2>2 DEF Items, ItemRecords
<1> HIDE DEF t
<1>4. Woven(ctx, b, t)
  BY <1>1, <1>2, <1>3, SameShapeWoven DEF IInv
<1> QED BY <1>4 DEF t

LEMMA SameStackWoven ==
    ASSUME IInv, NEW b, Len(b) = Len(blk) PROVE Woven(ctx, b, stack)
  BY SameShapeWoven DEF IInv, TypeOK

LEMMA AdvancedWoven ==
    ASSUME IInv, Processing, NEW arrays, NEW b, Len(b) = Len(blk)
    PROVE  Woven(ctx, b, Advanced(arrays))
<1>1. 1 \in 0..2 /\ 1 # 2
  OBVIOUS
<1>2. Woven(ctx, b, [stack EXCEPT ![Len(stack)].phase = 1])
  BY <1>1, PhaseWoven
<1>3. Woven(ctx, b, stack)
  BY SameStackWoven
<1> QED BY <1>2, <1>3 DEF Advanced

\* The item on top ends.
LEMMA TopOwns ==
    ASSUME IInv, Processing
    PROVE  /\ Len(stack) \in 1..Len(stack) /\ Top = stack[Len(stack)]
           /\ Len(ctx) = Ctxs(stack, Len(stack)) /\ Len(blk) = Blks(stack, Len(stack))
           /\ \A i \in 0..Len(stack) : Ctxs(stack, i) \in Nat /\ Blks(stack, i) \in Nat
           /\ \A i \in 1..Len(stack) :
                /\ Ctxs(stack, i) = Ctxs(stack, i - 1)
                                      + IF HasContext(stack[i].kind) THEN 1 ELSE 0
                /\ Blks(stack, i) = Blks(stack, i - 1)
                                      + IF HasBlock(stack[i].kind) THEN 1 ELSE 0
<1>1. Len(stack) \in 1..Len(stack) /\ Top = stack[Len(stack)]
  BY ProcessingTypes DEF IInv, Top
<1>2. Len(ctx) = Ctxs(stack, Len(stack)) /\ Len(blk) = Blks(stack, Len(stack))
  BY DEF IInv, Woven, Aligned
<1>3. \A i \in 0..Len(stack) : Ctxs(stack, i) \in Nat /\ Blks(stack, i) \in Nat
  BY CountTypes DEF IInv, TypeOK
<1>4. ASSUME NEW i \in 1..Len(stack)
      PROVE  /\ Ctxs(stack, i) = Ctxs(stack, i - 1)
                                   + IF HasContext(stack[i].kind) THEN 1 ELSE 0
             /\ Blks(stack, i) = Blks(stack, i - 1)
                                   + IF HasBlock(stack[i].kind) THEN 1 ELSE 0
  <2>1. stack[i].ctxs = Ctxs(stack, i - 1) /\ stack[i].blks = Blks(stack, i - 1)
    BY DEF IInv, Woven, Aligned
  <2>2. i # 0
    BY <1>1
  <2> QED BY <2>1, <2>2 DEF Ctxs, Blks
<1> QED BY <1>1, <1>2, <1>3, <1>4

LEMMA PopWoven ==
    ASSUME IInv, Processing, NEW c, NEW b,
           c = IF HasContext(Top.kind) THEN Front(ctx) ELSE ctx,
           b = IF HasBlock(Top.kind) THEN Front(blk) ELSE blk
    PROVE  Woven(c, b, Front(stack))
<1> DEFINE n == Len(stack)
           m == n - 1
<1>1. /\ n \in 1..n /\ m \in 0..n /\ n \in Nat /\ m \in Nat /\ Top = stack[n]
      /\ Len(ctx) = Ctxs(stack, n) /\ Len(blk) = Blks(stack, n)
      /\ Ctxs(stack, n) = Ctxs(stack, m) + IF HasContext(Top.kind) THEN 1 ELSE 0
      /\ Blks(stack, n) = Blks(stack, m) + IF HasBlock(Top.kind) THEN 1 ELSE 0
      /\ Ctxs(stack, m) \in Nat /\ Blks(stack, m) \in Nat
  BY TopOwns, SMTT(60)
<1>2. /\ Front(stack) \in Seq(Items) /\ Len(Front(stack)) = m
      /\ \A i \in 1..m : Front(stack)[i] = stack[i]
  BY ProcessingTypes, FrontType DEF IInv, TypeOK
<1>3. /\ Len(Front(ctx)) = Len(ctx) - 1 /\ Len(Front(blk)) = Len(blk) - 1
      /\ \A i \in 1..(Len(ctx) - 1) : Front(ctx)[i] = ctx[i]
  BY ProcessingTypes, FrontType DEF IInv, TypeOK
<1> HIDE DEF m, n
<1>4. Len(b) = Blks(stack, m)
  BY <1>1, <1>3
<1>5. Len(c) = Ctxs(stack, m) /\ \A i \in 1..Ctxs(stack, m) : c[i] = ctx[i]
  BY <1>1, <1>3
<1> QED BY <1>1, <1>2, <1>4, <1>5, UnwindWoven DEF IInv, TypeOK, n

\* The operations of LaiExec.
LEMMA StartWoven ==
    ASSUME IInv, Call \/ Populate PROVE Woven(ctx', blk', stack')
<1>1. PICK size \in CodeSizes : blk' = Append(blk, Block(0, size))
  BY DEF Call, Populate
<1>2. /\ ctx \in Seq(BOOLEAN) /\ blk \in Seq(Blocks) /\ stack \in Seq(Items)
      /\ Len(ops) \in Nat
  BY ArrayTypes DEF IInv, TypeOK
<1>3. Block(0, size) \in Blocks
  BY BoundsAssumption DEF Block, Blocks
<1>4. Len(blk') = Len(blk) + 1
  BY <1>1, <1>2, <1>3, AppendProperties
<1>5. <<>> \in Seq(Modes \cup {"placed"}) /\ NoBlock \in Blocks
  BY DEF NoBlock, Block, Blocks
<1>6. CASE Call
  <2> DEFINE item == Item("METHOD", Len(ops), TRUE, <<>>, NoBlock)
  <2>1. item \in Items
    BY <1>2, <1>5, ItemType DEF IInv, ItemKinds
  <2>2. item.kind = "METHOD" /\ item.ctxs = Len(ctx) /\ item.blks = Len(blk)
    BY DEF Item
  <2>3. ctx' = Append(ctx, TRUE) /\ stack' = Append(stack, item)
    BY <1>6 DEF Call
  <2> HIDE DEF item
  <2>4. (item.kind = "METHOD") = TRUE
    BY <2>2
  <2>5. HasContext(item.kind) /\ HasBlock(item.kind)
    BY <2>2 DEF HasContext, HasBlock
  <2> QED BY <1>2, <1>4, <2>1, <2>2, <2>3, <2>4, <2>5, PushWoven DEF IInv
<1>7. CASE Populate
  <2> DEFINE item == Item("POPULATE", Len(ops), FALSE, <<>>, NoBlock)
  <2>1. item \in Items
    BY <1>2, <1>5, ItemType DEF IInv, ItemKinds
  <2>2. item.kind = "POPULATE" /\ item.ctxs = Len(ctx) /\ item.blks = Len(blk)
    BY DEF Item
  <2>3. ctx' = Append(ctx, FALSE) /\ stack' = Append(stack, item)
    BY <1>7 DEF Populate
  <2> HIDE DEF item
  <2>4. (item.kind = "METHOD") = FALSE
    BY <2>2
  <2>5. HasContext(item.kind) /\ HasBlock(item.kind)
    BY <2>2 DEF HasContext, HasBlock
  <2> QED BY <1>2, <1>4, <2>1, <2>2, <2>3, <2>4, <2>5, PushWoven DEF IInv
<1> QED BY <1>6, <1>7

LEMMA ResetWoven == ASSUME Reset PROVE Woven(ctx', blk', stack')
  BY EmptyWoven DEF Reset

LEMMA FinishWoven == ASSUME IInv, Finish PROVE Woven(ctx', blk', stack')
<1>1. \/ ctx' = ctx /\ blk' = blk /\ stack' = stack
      \/ Reset
  BY DEF Finish, Panic
<1> QED BY <1>1, ResetWoven DEF IInv

LEMMA OpenWoven ==
    ASSUME IInv, Processing, NEW form, FormType(form), form.kind # "METHOD",
           NEW mode \in Modes, NEW limit \in Nat, NEW alt \in Blocks, NEW next \in Nat,
           Open(form, mode, limit, alt, next)
    PROVE  Woven(ctx', blk', stack')
<1> DEFINE item == Item(form.kind, Len(Settled), mode # "exec", form.args, alt)
           arrays == Reserved(form)
           c == IF HasContext(form.kind) THEN Append(ctx, FALSE) ELSE ctx
           b == IF HasBlock(form.kind)
                  THEN Append(Commit(next), Block(Here.pc + 1, limit))
                  ELSE Commit(next)
<1>1. item \in Items
  BY ItemType, OperandTypes DEF FormType, IInv
<1>2. item.kind = form.kind /\ item.ctxs = Len(ctx) /\ item.blks = Len(blk)
  BY DEF Item
<1>3. Len(Commit(next)) = Len(blk) /\ Commit(next) \in Seq(Blocks)
  BY CommitLength, CommitType DEF IInv
<1>4. Len(b) = Len(blk) + (IF HasBlock(form.kind) THEN 1 ELSE 0)
  <2>1. Block(Here.pc + 1, limit) \in Blocks
    BY ProcessingTypes DEF Block, Blocks, IInv
  <2>2. Len(Append(Commit(next), Block(Here.pc + 1, limit))) = Len(blk) + 1
    BY <1>3, <2>1, AppendProperties
  <2>3. Len(blk) \in Nat
    BY ArrayTypes DEF IInv
  <2> QED BY <1>3, <2>2, <2>3
<1>5. Woven(ctx, blk, Advanced(arrays)) /\ Advanced(arrays) \in Seq(Items)
  BY AdvancedWoven, AdvancedType DEF IInv
<1>6. Put(arrays, c, b, Append(Advanced(arrays), item), Settled \o form.placed)
  BY DEF Open
<1>7. (form.kind = "METHOD") = FALSE
  OBVIOUS
<1>8. ctx \in Seq(BOOLEAN)
  BY DEF IInv, TypeOK
<1>9. c = IF HasContext(item.kind) THEN Append(ctx, item.kind = "METHOD") ELSE ctx
  BY <1>2, <1>7
<1> HIDE DEF item, b, c, arrays
<1>10. Woven(c, b, Append(Advanced(arrays), item))
  BY <1>1, <1>2, <1>4, <1>5, <1>8, <1>9, PushWoven
<1> QED BY <1>6, <1>10, PutWoven

LEMMA FormsAreNoMethods == \A form \in Forms : form.kind # "METHOD"
<1> SUFFICES ASSUME NEW form \in AllForms PROVE form.kind # "METHOD"
  BY DEF Forms
<1>1. \A kind, modes, placed, args : Form(kind, modes, placed, args).kind = kind
  BY DEF Form
<1>2. CASE form \in ControlForms \cup ScopeForms
  BY <1>1, <1>2 DEF ControlForms, ScopeForms
<1>3. CASE form \in DataForms \cup NodeForms
  BY <1>1, <1>3 DEF DataForms, NodeForms
<1>4. CASE form \in OpForms
  <2>1. PICK args : form = Form("OP", {"exec", "object", "reference"}, <<>>, args)
    BY <1>4 DEF OpForms
  <2> QED BY <1>1, <2>1
<1>5. CASE form \in CallForms
  <2>1. PICK args : form = Form("INVOKE", {"exec", "object"}, <<"target">>, args)
    BY <1>5 DEF CallForms
  <2> QED BY <1>1, <2>1
<1> QED BY <1>2, <1>3, <1>4, <1>5 DEF AllForms

LEMMA ParseItemWoven ==
    ASSUME IInv, NEW mode \in Modes, ParseItem(mode) PROVE Woven(ctx', blk', stack')
<1>1. Processing
  BY DEF ParseItem, Parses
<1>2. Here.pc \in Nat /\ Here.limit \in Nat
  BY <1>1, ProcessingTypes DEF Blocks, IInv
<1>3. PICK form \in Forms :
      \E limit \in IF HasBlock(form.kind) THEN (Here.pc + 1)..Here.limit
                                          ELSE {Here.pc + 1} :
         Open(form, mode, limit,
              IF form.kind = "LOOP" THEN Block(Here.pc + 1, limit) ELSE NoBlock, limit)
  BY DEF ParseItem
<1>4. PICK limit \in Nat :
         Open(form, mode, limit,
              IF form.kind = "LOOP" THEN Block(Here.pc + 1, limit) ELSE NoBlock, limit)
  BY <1>2, <1>3
<1>5. (IF form.kind = "LOOP" THEN Block(Here.pc + 1, limit) ELSE NoBlock) \in Blocks
  BY <1>2 DEF Block, NoBlock, Blocks
<1> QED BY <1>1, <1>3, <1>4, <1>5, FormTypes, FormsAreNoMethods, OpenWoven

LEMMA ParseIfElseWoven == ASSUME IInv, ParseIfElse PROVE Woven(ctx', blk', stack')
<1>1. Processing
  BY DEF ParseIfElse, Parses
<1>2. Here.pc \in Nat /\ Here.limit \in Nat
  BY <1>1, ProcessingTypes DEF Blocks, IInv
<1> DEFINE form == Form("COND", {"exec"}, <<>>, <<"object">>)
<1>3. PICK limit \in Nat, next \in Nat :
         Open(form, "exec", limit, Block(limit + 1, next), next)
  BY <1>2, SMTT(60) DEF ParseIfElse
<1>4. FormType(form) /\ form.kind # "METHOD"
  <2>1. <<>> \in Seq(Tags) /\ <<"object">> \in Seq(Modes \cup {"placed"})
    BY DEF Modes
  <2>2. FormType(form)
    BY <2>1, FormHasType DEF ItemKinds
  <2> QED BY <2>2 DEF Form
<1>5. Block(limit + 1, next) \in Blocks
  BY DEF Block, Blocks
<1>6. "exec" \in Modes
  BY DEF Modes
<1> HIDE DEF form
<1> QED BY <1>1, <1>3, <1>4, <1>5, <1>6, OpenWoven

LEMMA ParseOperandWoven ==
    ASSUME IInv, NEW mode \in Modes, ParseOperand(mode) PROVE Woven(ctx', blk', stack')
<1>1. Processing
  BY DEF ParseOperand, Parses
<1>2. PICK leaf \in Leaves(mode) :
        Put(leaf[2], ctx, Commit(Here.pc + 1), Advanced(leaf[2]), Append(Settled, leaf[1]))
  BY DEF ParseOperand
<1>3. Woven(ctx, Commit(Here.pc + 1), Advanced(leaf[2]))
  BY <1>1, CommitLength, AdvancedWoven DEF IInv
<1> QED BY <1>2, <1>3, PutWoven

LEMMA ParseStatementWoven ==
    ASSUME IInv, ParseStatement PROVE Woven(ctx', blk', stack')
<1>1. PICK arrays \in {{}, {"ops"}, {"ops", "stack"}} :
        Put(arrays, ctx, Commit(Here.pc + 1), stack, ops)
  BY DEF ParseStatement
<1>2. Woven(ctx, Commit(Here.pc + 1), stack)
  BY CommitLength, SameStackWoven DEF IInv
<1> QED BY <1>1, <1>2, PutWoven

\* The items above the While in m are conditions: each has a block, none a context.
LEMMA LoopSpan ==
    ASSUME IInv, Processing, NEW m \in DOMAIN stack, InnermostLoop(m)
    PROVE  /\ m \in 1..Len(stack) /\ m - 1 \in 0..Len(stack)
           /\ Len(ctx) = Ctxs(stack, m) /\ Len(ctx) = Ctxs(stack, m - 1)
           /\ Len(blk) - (Len(stack) - m) = Blks(stack, m)
           /\ Len(blk) - (Len(stack) - m) - 1 = Blks(stack, m - 1)
           /\ Blks(stack, m) \in Nat \ {0} /\ Blks(stack, m - 1) \in Nat
<1> DEFINE n == Len(stack)
<1>1. m \in 1..n /\ n \in 1..n /\ m \in 0..n /\ m - 1 \in 0..n /\ n \in 0..n
  BY TopOwns, SMTT(60) DEF IInv, TypeOK
<1>2. Span(stack, m, n)
  BY <1>1 DEF IInv, Woven, Spans
<1>3. \A k \in (m + 1)..n : ~HasContext(stack[k].kind) /\ HasBlock(stack[k].kind)
  BY DEF InnermostLoop, HasContext, HasBlock
<1>4. Ctxs(stack, n) = Ctxs(stack, m) /\ Blks(stack, n) = Blks(stack, m) + (n - m)
  BY <1>2, <1>3 DEF Span
<1>5. ~HasContext(stack[m].kind) /\ HasBlock(stack[m].kind)
  BY DEF InnermostLoop, HasContext, HasBlock
<1>6. Ctxs(stack, m) = Ctxs(stack, m - 1) + 0 /\ Blks(stack, m) = Blks(stack, m - 1) + 1
  BY <1>1, <1>5, TopOwns
<1>7. /\ Len(ctx) = Ctxs(stack, n) /\ Len(blk) = Blks(stack, n)
      /\ Ctxs(stack, m - 1) \in Nat /\ Blks(stack, m - 1) \in Nat
      /\ Ctxs(stack, m) \in Nat /\ Blks(stack, m) \in Nat
  BY <1>1, TopOwns
<1>8. Len(ctx) = Ctxs(stack, m) /\ Len(ctx) = Ctxs(stack, m - 1)
  BY <1>4, <1>6, <1>7
<1> DEFINE below == Blks(stack, m - 1)
<1>9. below \in Nat /\ Blks(stack, m) = below + 1 /\ Len(blk) = below + 1 + (n - m)
  BY <1>4, <1>6, <1>7
<1> HIDE DEF below, n
<1>10. /\ Len(blk) - (n - m) = Blks(stack, m) /\ Len(blk) - (n - m) - 1 = below
       /\ Blks(stack, m) \in Nat \ {0}
  BY <1>1, <1>9, SMTT(30)
<1> QED BY <1>1, <1>8, <1>9, <1>10 DEF n, below

LEMMA ParseContinueWoven == ASSUME IInv, ParseContinue PROVE Woven(ctx', blk', stack')
<1>1. PICK m \in DOMAIN stack :
        /\ InnermostLoop(m)
        /\ LET left == SubSeq(blk, 1, Len(blk) - (Len(stack) - m)) IN
             Put({}, ctx, [left EXCEPT ![Len(left)].pc = left[Len(left)].limit],
                 SubSeq(stack, 1, m), ops)
  BY DEF ParseContinue
<1>2. Processing
  BY DEF ParseContinue, Parses
<1> DEFINE n == Len(blk) - (Len(stack) - m)
           left == SubSeq(blk, 1, n)
           rest == [left EXCEPT ![Len(left)].pc = left[Len(left)].limit]
           t == SubSeq(stack, 1, m)
<1>0. /\ m \in 1..Len(stack) /\ Len(stack) \in Nat /\ Len(blk) \in Nat
      /\ Len(ctx) = Ctxs(stack, m) /\ n = Blks(stack, m) /\ Blks(stack, m) \in Nat
  BY <1>1, <1>2, LoopSpan, ArrayTypes DEF IInv
<1>3. /\ m \in 0..Len(stack) /\ m \in Int /\ m <= Len(stack)
      /\ n <= Len(blk) /\ n \in Int
      /\ Len(ctx) = Ctxs(stack, m) /\ n = Blks(stack, m) /\ Blks(stack, m) \in Nat
  BY <1>0
<1>4. Put({}, ctx, rest, t, ops)
  BY <1>1
<1> HIDE DEF n
<1>5. left \in Seq(Blocks) /\ Len(left) = Blks(stack, m)
  BY <1>3, PrefixType DEF IInv, TypeOK
<1>6. t \in Seq(Items) /\ Len(t) = m /\ \A i \in 1..m : t[i] = stack[i]
  BY <1>3, PrefixType DEF IInv, TypeOK
<1> HIDE DEF left, t
<1>7. Len(rest) = Blks(stack, m)
  BY <1>5
<1> HIDE DEF rest
<1>8. Woven(ctx, rest, t)
  BY <1>3, <1>6, <1>7, UnwindWoven DEF IInv, TypeOK
<1> QED BY <1>4, <1>8, PutWoven

LEMMA ParseBreakWoven == ASSUME IInv, ParseBreak PROVE Woven(ctx', blk', stack')
<1>1. PICK m \in DOMAIN stack :
        /\ InnermostLoop(m)
        /\ Put({}, ctx, SubSeq(blk, 1, Len(blk) - (Len(stack) - m) - 1),
               SubSeq(stack, 1, m - 1), ops)
  BY DEF ParseBreak
<1>2. Processing
  BY DEF ParseBreak, Parses
<1> DEFINE n == Len(blk) - (Len(stack) - m) - 1
           i == m - 1
           b == SubSeq(blk, 1, n)
           t == SubSeq(stack, 1, i)
<1>3. /\ i \in 0..Len(stack)
      /\ Len(ctx) = Ctxs(stack, i) /\ n = Blks(stack, i) /\ Blks(stack, i) \in Nat
      /\ n <= Len(blk) /\ n \in Int /\ i \in Nat /\ i <= Len(stack)
  BY <1>1, <1>2, LoopSpan, ArrayTypes, SMTT(30) DEF IInv
<1>4. Put({}, ctx, b, t, ops)
  BY <1>1
<1> HIDE DEF n, i
<1>5. Len(b) = Blks(stack, i)
  BY <1>3, PrefixType DEF IInv, TypeOK
<1>6. t \in Seq(Items) /\ Len(t) = i /\ \A k \in 1..i : t[k] = stack[k]
  BY <1>3, PrefixType DEF IInv, TypeOK
<1> HIDE DEF b, t
<1>7. Woven(ctx, b, t)
  BY <1>3, <1>5, <1>6, UnwindWoven DEF IInv, TypeOK
<1> QED BY <1>4, <1>7, PutWoven

\* An item that ends and owns neither a context nor a block, or just a block.
LEMMA FinishOperatorWoven == ASSUME IInv, FinishOperator PROVE Woven(ctx', blk', stack')
<1>1. /\ Processing /\ Top.kind \in {"OP", "BUFFER"}
      /\ \E arrays : Put(arrays, ctx, IF Top.kind = "BUFFER" THEN Front(blk) ELSE blk,
                        Front(stack), Below \o Result(Top.want))
  BY DEF FinishOperator
<1>2. ~HasContext(Top.kind) /\ (HasBlock(Top.kind) <=> Top.kind = "BUFFER")
  BY <1>1 DEF HasContext, HasBlock
<1>3. Woven(ctx, IF Top.kind = "BUFFER" THEN Front(blk) ELSE blk, Front(stack))
  BY <1>1, <1>2, PopWoven
<1> QED BY <1>1, <1>3, PutWoven

LEMMA FinishNodeWoven == ASSUME IInv, FinishNode PROVE Woven(ctx', blk', stack')
<1>1. /\ Processing /\ Top.kind \in {"NODE", "BANKFIELD"}
      /\ Put({}, ctx, IF Top.kind = "BANKFIELD" THEN Front(blk) ELSE blk, Front(stack), Below)
  BY DEF FinishNode
<1>2. ~HasContext(Top.kind) /\ (HasBlock(Top.kind) <=> Top.kind = "BANKFIELD")
  BY <1>1 DEF HasContext, HasBlock
<1>3. Woven(ctx, IF Top.kind = "BANKFIELD" THEN Front(blk) ELSE blk, Front(stack))
  BY <1>1, <1>2, PopWoven
<1> QED BY <1>1, <1>3, PutWoven

LEMMA InvokeOverrideWoven == ASSUME IInv, InvokeOverride PROVE Woven(ctx', blk', stack')
<1>1. /\ Processing /\ Top.kind = "INVOKE"
      /\ \E arrays, o : Put(arrays, ctx, blk, Front(stack), o)
  BY DEF InvokeOverride
<1>2. ~HasContext(Top.kind) /\ ~HasBlock(Top.kind)
  BY <1>1 DEF HasContext, HasBlock
<1>3. Woven(ctx, blk, Front(stack))
  BY <1>1, <1>2, PopWoven
<1> QED BY <1>1, <1>3, PutWoven

LEMMA PredicateFailsWoven == ASSUME IInv, PredicateFails PROVE Woven(ctx', blk', stack')
<1>1. /\ Processing /\ Top.kind \in {"LOOP", "COND"}
      /\ Put({}, ctx, Front(blk), Front(stack), Front(ops))
  BY DEF PredicateFails
<1>2. ~HasContext(Top.kind) /\ HasBlock(Top.kind)
  BY <1>1 DEF HasContext, HasBlock
<1>3. Woven(ctx, Front(blk), Front(stack))
  BY <1>1, <1>2, PopWoven
<1> QED BY <1>1, <1>3, PutWoven

LEMMA PackageEndsWoven == ASSUME IInv, PackageEnds PROVE Woven(ctx', blk', stack')
<1>1. /\ Processing /\ IsPackage(Top)
      /\ \E o : Put({}, ctx, Front(blk), Front(stack), o)
  BY DEF PackageEnds
<1>2. ~HasContext(Top.kind) /\ HasBlock(Top.kind)
  BY <1>1 DEF IsPackage, HasContext, HasBlock
<1>3. Woven(ctx, Front(blk), Front(stack))
  BY <1>1, <1>2, PopWoven
<1> QED BY <1>1, <1>3, PutWoven

LEMMA BlockEndsWoven == ASSUME IInv, BlockEnds PROVE Woven(ctx', blk', stack')
<1>1. /\ Processing /\ Top.kind \in {"POPULATE", "COND"}
      /\ Put({}, IF Top.kind = "POPULATE" THEN Front(ctx) ELSE ctx, Front(blk),
             Front(stack), ops)
  BY DEF BlockEnds
<1>2. (HasContext(Top.kind) <=> Top.kind = "POPULATE") /\ HasBlock(Top.kind)
  BY <1>1 DEF HasContext, HasBlock
<1>3. Woven(IF Top.kind = "POPULATE" THEN Front(ctx) ELSE ctx, Front(blk), Front(stack))
  BY <1>1, <1>2, PopWoven
<1> QED BY <1>1, <1>3, PutWoven

LEMMA MethodEndsWoven == ASSUME IInv, MethodEnds PROVE Woven(ctx', blk', stack')
<1>1. /\ Processing /\ Top.kind = "METHOD"
      /\ \/ Panic("pending")
         \/ Put({"ops"}, Front(ctx), Front(blk), Front(stack), Result(Top.want))
  BY DEF MethodEnds
<1>2. HasContext(Top.kind) /\ HasBlock(Top.kind)
  BY <1>1 DEF HasContext, HasBlock
<1>3. Woven(Front(ctx), Front(blk), Front(stack))
  BY <1>1, <1>2, PopWoven
<1>4. CASE Panic("pending")
  BY <1>4 DEF Panic, IInv
<1> QED BY <1>1, <1>3, <1>4, PutWoven

\* An invocation becomes a method, which owns a context and a block.
LEMMA InvokeMethodWoven == ASSUME IInv, InvokeMethod PROVE Woven(ctx', blk', stack')
<1>1. Processing /\ Complete /\ Top.kind = "INVOKE"
  BY DEF InvokeMethod
<1> DEFINE item == Item("METHOD", Top.frame, Top.want, <<>>, NoBlock)
<1>2. PICK size \in CodeSizes :
        Put({"ctx", "blk"}, Append(ctx, TRUE), Append(blk, Block(0, size)),
            Append(Front(stack), item), Below)
  BY DEF InvokeMethod
<1>3. ~HasContext(Top.kind) /\ ~HasBlock(Top.kind)
  BY <1>1 DEF HasContext, HasBlock
<1>4. Woven(ctx, blk, Front(stack))
  BY <1>1, <1>3, PopWoven
<1>5. item \in Items
  <2>1. <<>> \in Seq(Modes \cup {"placed"}) /\ NoBlock \in Blocks
    BY DEF NoBlock, Block, Blocks
  <2>2. Top.frame \in Nat /\ Top.want \in BOOLEAN
    BY <1>1, ProcessingTypes DEF IInv, Items, ItemRecords
  <2> QED BY <2>1, <2>2, ItemType DEF IInv, ItemKinds
<1>6. item.kind = "METHOD" /\ item.ctxs = Len(ctx) /\ item.blks = Len(blk)
  BY DEF Item
<1> HIDE DEF item
<1>7. (item.kind = "METHOD") = TRUE /\ HasContext(item.kind) /\ HasBlock(item.kind)
  BY <1>6 DEF HasContext, HasBlock
<1>8. ctx \in Seq(BOOLEAN) /\ blk \in Seq(Blocks) /\ Front(stack) \in Seq(Items)
  BY <1>1, PoppedTypes DEF IInv
<1> DEFINE b == Append(blk, Block(0, size))
<1>9. Len(b) = Len(blk) + 1
  <2>1. Block(0, size) \in Blocks
    BY BoundsAssumption DEF Block, Blocks
  <2> QED BY <1>8, <2>1, AppendProperties
<1>10. Put({"ctx", "blk"}, Append(ctx, TRUE), b, Append(Front(stack), item), Below)
  BY <1>2
<1> HIDE DEF b
<1>11. Woven(Append(ctx, TRUE), b, Append(Front(stack), item))
  BY <1>4, <1>5, <1>6, <1>7, <1>8, <1>9, PushWoven
<1> QED BY <1>10, <1>11, PutWoven

\* The items between the method in m and the Return on top are loops and
\* conditions: each has a block, none a context.
LEMMA ReturnSpan ==
    ASSUME IInv, Processing, Top.kind = "RETURN", NEW m \in 1..(Len(stack) - 1),
           ReturningMethod(m)
    PROVE  /\ m - 1 \in 0..Len(stack)
           /\ Len(ctx) - 1 = Ctxs(stack, m - 1)
           /\ Len(blk) - (Len(stack) - 1 - m) - 1 = Blks(stack, m - 1)
           /\ Ctxs(stack, m - 1) \in Nat /\ Blks(stack, m - 1) \in Nat
<1> DEFINE n == Len(stack)
           l == n - 1
<1>1. /\ n \in 1..n /\ m \in 1..n /\ l \in Nat /\ l \in 0..n /\ m \in 0..n /\ m <= l
      /\ m - 1 \in 0..n /\ Top = stack[n]
  BY TopOwns, SMTT(30)
<1>2. Span(stack, m, l)
  BY <1>1 DEF IInv, Woven, Spans
<1>3. \A k \in (m + 1)..l : ~HasContext(stack[k].kind) /\ HasBlock(stack[k].kind)
  BY DEF ReturningMethod, HasContext, HasBlock
<1>4. Ctxs(stack, l) = Ctxs(stack, m) /\ Blks(stack, l) = Blks(stack, m) + (l - m)
  BY <1>2, <1>3 DEF Span
<1>5. /\ HasContext(stack[m].kind) /\ HasBlock(stack[m].kind)
      /\ ~HasContext(stack[n].kind) /\ ~HasBlock(stack[n].kind)
  BY <1>1 DEF ReturningMethod, HasContext, HasBlock
<1>6. /\ Ctxs(stack, m) = Ctxs(stack, m - 1) + 1 /\ Blks(stack, m) = Blks(stack, m - 1) + 1
      /\ Ctxs(stack, n) = Ctxs(stack, l) + 0 /\ Blks(stack, n) = Blks(stack, l) + 0
  BY <1>1, <1>5, TopOwns
<1>7. /\ Len(ctx) = Ctxs(stack, n) /\ Len(blk) = Blks(stack, n)
      /\ Ctxs(stack, m - 1) \in Nat /\ Blks(stack, m - 1) \in Nat
      /\ Ctxs(stack, l) \in Nat /\ Blks(stack, l) \in Nat
  BY <1>1, TopOwns
<1> DEFINE below == Blks(stack, m - 1)
<1>8. Len(ctx) - 1 = Ctxs(stack, m - 1)
  BY <1>4, <1>6, <1>7
<1>9. below \in Nat /\ Len(blk) = below + 1 + (l - m)
  BY <1>4, <1>6, <1>7
<1> HIDE DEF below, l
<1>10. Len(blk) - (l - m) - 1 = below
  BY <1>1, <1>9
<1> QED BY <1>1, <1>7, <1>8, <1>10 DEF below, l

LEMMA FinishReturnWoven == ASSUME IInv, FinishReturn PROVE Woven(ctx', blk', stack')
<1>1. Processing /\ Top.kind = "RETURN"
  BY DEF FinishReturn
<1>2. PICK m \in 1..(Len(stack) - 1) :
        /\ ReturningMethod(m)
        /\ Put({}, Front(ctx), SubSeq(blk, 1, Len(blk) - (Len(stack) - 1 - m) - 1),
               SubSeq(stack, 1, m - 1), Front(ops) \o Result(stack[m].want))
  BY DEF FinishReturn
<1> DEFINE n == Len(blk) - (Len(stack) - 1 - m) - 1
           i == m - 1
           b == SubSeq(blk, 1, n)
           t == SubSeq(stack, 1, i)
           o == Front(ops) \o Result(stack[m].want)
<1>3. /\ i \in 0..Len(stack) /\ Len(stack) \in Nat /\ Len(blk) \in Nat
      /\ Len(ctx) - 1 = Ctxs(stack, i) /\ n = Blks(stack, i) /\ Blks(stack, i) \in Nat
      /\ Len(stack) - 1 - m >= 0 /\ Len(stack) - 1 - m \in Int
  BY <1>1, <1>2, ReturnSpan, ArrayTypes DEF IInv
<1>4. n <= Len(blk) /\ n \in Int /\ i \in Nat /\ i <= Len(stack)
  BY <1>3
<1>5. Put({}, Front(ctx), b, t, o)
  BY <1>2
<1> HIDE DEF n, i, o
<1>6. Len(b) = Blks(stack, i)
  BY <1>3, <1>4, PrefixType DEF IInv, TypeOK
<1>7. t \in Seq(Items) /\ Len(t) = i /\ \A k \in 1..i : t[k] = stack[k]
  BY <1>3, <1>4, PrefixType DEF IInv, TypeOK
<1>8. Len(Front(ctx)) = Len(ctx) - 1 /\ \A k \in 1..(Len(ctx) - 1) : Front(ctx)[k] = ctx[k]
  BY <1>1, ProcessingTypes, FrontType DEF IInv, TypeOK
<1> HIDE DEF b, t
<1>9. Woven(Front(ctx), b, t)
  BY <1>3, <1>6, <1>7, <1>8, UnwindWoven DEF IInv, TypeOK
<1> QED BY <1>5, <1>9, PutWoven

\* The steps of an item that stays.
LEMMA PhaseStepWoven ==
    ASSUME IInv, LoopRepeats \/ PredicateHolds \/ TakeElse \/ CreatePackage
    PROVE  Woven(ctx', blk', stack')
<1>1. Processing /\ 0 \in 0..2 /\ 1 \in 0..2 /\ 2 \in 0..2 /\ 0 # 2 /\ 1 # 2
  BY DEF LoopRepeats, PredicateHolds, TakeElse, CreatePackage
<1>2. CASE LoopRepeats
  <2>1. Woven(ctx, Commit(Top.alt.pc), [stack EXCEPT ![Len(stack)].phase = 0])
    BY <1>1, CommitLength, PhaseWoven DEF IInv
  <2>2. Put({}, ctx, Commit(Top.alt.pc), [stack EXCEPT ![Len(stack)].phase = 0], ops)
    BY <1>2 DEF LoopRepeats
  <2> QED BY <2>1, <2>2, PutWoven
<1>3. CASE PredicateHolds
  <2>1. Woven(ctx, blk, [stack EXCEPT ![Len(stack)].phase = 1])
    BY <1>1, PhaseWoven
  <2>2. Put({}, ctx, blk, [stack EXCEPT ![Len(stack)].phase = 1], Front(ops))
    BY <1>3 DEF PredicateHolds
  <2> QED BY <2>1, <2>2, PutWoven
<1>4. CASE TakeElse
  <2>1. Len([blk EXCEPT ![Len(blk)] = Top.alt]) = Len(blk)
    BY DEF IInv, TypeOK
  <2>2. Woven(ctx, [blk EXCEPT ![Len(blk)] = Top.alt], [stack EXCEPT ![Len(stack)].phase = 1])
    BY <1>1, <2>1, PhaseWoven
  <2>3. Put({}, ctx, [blk EXCEPT ![Len(blk)] = Top.alt],
            [stack EXCEPT ![Len(stack)].phase = 1], Front(ops))
    BY <1>4 DEF TakeElse
  <2> QED BY <2>2, <2>3, PutWoven
<1>5. CASE CreatePackage
  <2>1. Woven(ctx, blk, [stack EXCEPT ![Len(stack)].phase = 2])
    BY <1>1, <1>5, PhaseWoven DEF CreatePackage
  <2>2. Put({}, ctx, blk, [stack EXCEPT ![Len(stack)].phase = 2], Front(ops))
    BY <1>5 DEF CreatePackage
  <2> QED BY <2>1, <2>2, PutWoven
<1> QED BY <1>2, <1>3, <1>4, <1>5

LEMMA StepInv == ASSUME IInv, [Next]_vars PROVE IInv'
<1>1. TypeOK'
  BY StepType DEF IInv
<1>2. Woven(ctx', blk', stack')
  <2>1. CASE Call \/ Populate
    BY <2>1, StartWoven
  <2>2. CASE Finish
    BY <2>2, FinishWoven
  <2>3. CASE \E mode \in Modes : ParseOperand(mode)
    BY <2>3, ParseOperandWoven
  <2>4. CASE ParseStatement
    BY <2>4, ParseStatementWoven
  <2>5. CASE \E mode \in Modes : ParseItem(mode)
    BY <2>5, ParseItemWoven
  <2>6. CASE ParseIfElse \/ ParseContinue \/ ParseBreak
    BY <2>6, ParseIfElseWoven, ParseContinueWoven, ParseBreakWoven
  <2>7. CASE FinishOperator \/ FinishNode
    BY <2>7, FinishOperatorWoven, FinishNodeWoven
  <2>8. CASE InvokeOverride \/ InvokeMethod \/ FinishReturn \/ MethodEnds
    BY <2>8, InvokeOverrideWoven, InvokeMethodWoven, FinishReturnWoven, MethodEndsWoven
  <2>9. CASE BlockEnds \/ PredicateFails \/ PackageEnds
    BY <2>9, BlockEndsWoven, PredicateFailsWoven, PackageEndsWoven
  <2>10. CASE LoopRepeats \/ PredicateHolds \/ TakeElse \/ CreatePackage
    BY <2>10, PhaseStepWoven
  <2>11. CASE Fail
    BY <2>11, ResetWoven DEF Fail
  <2>12. CASE Stop \/ Halted \/ UNCHANGED vars
    BY <2>12 DEF Stop, Panic, Halted, vars, IInv
  <2> QED
    BY <2>1, <2>2, <2>3, <2>4, <2>5, <2>6, <2>7, <2>8, <2>9, <2>10, <2>11, <2>12
       DEF Next, Process
<1> QED BY <1>1, <1>2 DEF IInv

\* For every AML and every capacity: whatever nesting a Break, a Continue or a
\* Return is in, every block and every context is popped with the item that pushed
\* it, so that the top of the block stack is always the code of the innermost item.
THEOREM Alignment == Spec => []StacksAligned
<1>1. Init => IInv
  BY InitType, EmptyWoven DEF Init, IInv
<1>2. IInv /\ [Next]_vars => IInv'
  BY StepInv
<1>3. IInv => StacksAligned
  <2> SUFFICES ASSUME IInv PROVE StacksAligned
    OBVIOUS
  <2>1. \A i : CtxsTo(i) = Ctxs(stack, i) /\ BlksTo(i) = Blks(stack, i)
    BY DEF CtxsTo, BlksTo, Ctxs, Blks
  <2>2. DOMAIN stack = 1..Len(stack)
    BY LenProperties DEF IInv, TypeOK
  <2> QED BY <2>1, <2>2 DEF IInv, Woven, Aligned, StacksAligned
<1> QED BY <1>1, <1>2, <1>3, PTL DEF Spec
-------------------------------------------------------------------------------
(* Blocks nest.  The body of a While and the Else of an If, to which the pc may  *)
(* be set later, have to lie behind the parent's pc as well.                     *)

NestAt(b, item) ==
    LET own == b[item.blks + 1]  parent == b[item.blks] IN
    HasBlock(item.kind) =>
        /\ item.alt.pc <= item.alt.limit
        /\ own.pc <= own.limit
        /\ item.kind = "LOOP" => own.limit = item.alt.limit
        /\ item.kind # "METHOD" /\ item.blks > 0 =>
             own.limit <= parent.pc /\ item.alt.limit <= parent.pc

Nest(b, s) == \A i \in 1..Len(s) : NestAt(b, s[i])

\* The block of an item is on the stack, its parent below it.
LEMMA BlockPlace ==
    ASSUME NEW c, NEW b, NEW s \in Seq(Items), Woven(c, b, s),
           NEW m \in 0..Len(s), NEW i \in 1..m, HasBlock(s[i].kind)
    PROVE  /\ s[i].blks \in Nat /\ s[i].blks + 1 = Blks(s, i)
           /\ s[i].blks + 1 \in 1..Blks(s, m) /\ Blks(s, m) \in Nat
<1>1. Len(s) \in Nat /\ i \in 1..Len(s) /\ i \in 0..Len(s) /\ i <= m /\ i # 0
  BY LenProperties
<1>2. Blks(s, i) = s[i].blks + 1
  BY <1>1 DEF Blks
<1>3. Blks(s, i) <= Blks(s, m)
  BY <1>1 DEF Woven, Spans, Span
<1>4. Blks(s, i) \in Nat /\ Blks(s, m) \in Nat
  BY <1>1, CountTypes
<1>5. s[i].blks \in Nat
  BY <1>1, ElementOfSeq, SMTT(60) DEF Items, ItemRecords
<1> QED BY <1>2, <1>3, <1>4, <1>5

\* The items above m are gone, and with them their blocks.
LEMMA UnwindNest ==
    ASSUME NEW c, NEW b, NEW b2, NEW s \in Seq(Items), NEW t \in Seq(Items),
           NEW m \in 0..Len(s), Woven(c, b, s), Nest(b, s),
           Len(t) = m, \A i \in 1..m : t[i] = s[i],
           \A k \in 1..Blks(s, m) : b2[k] = b[k]
    PROVE  Nest(b2, t)
<1> SUFFICES ASSUME NEW i \in 1..m, HasBlock(s[i].kind) PROVE NestAt(b2, s[i])
  <2>1. \A i \in 1..m : ~HasBlock(s[i].kind) => NestAt(b2, s[i])
    BY DEF NestAt
  <2> QED BY <2>1 DEF Nest
<1>1. NestAt(b, s[i])
  BY LenProperties DEF Nest
<1>2. s[i].blks \in Nat /\ s[i].blks + 1 \in 1..Blks(s, m) /\ Blks(s, m) \in Nat
  BY BlockPlace
<1>3. b2[s[i].blks + 1] = b[s[i].blks + 1]
  BY <1>2
<1>4. s[i].blks > 0 => b2[s[i].blks] = b[s[i].blks]
  BY <1>2, SMTT(30)
<1> QED BY <1>1, <1>3, <1>4 DEF NestAt

\* Only the pc of the innermost block changes, within its limit, and phases do.
LEMMA CommitNest ==
    ASSUME NEW c, NEW b, NEW b2, NEW s \in Seq(Items), NEW t \in Seq(Items),
           Woven(c, b, s), Nest(b, s), Len(t) = Len(s),
           \A i \in 1..Len(s) : /\ t[i].kind = s[i].kind /\ t[i].blks = s[i].blks
                                /\ t[i].alt = s[i].alt,
           \A k \in 1..(Len(b) - 1) : b2[k] = b[k],
           Len(b) # 0 => /\ b2[Len(b)].limit = b[Len(b)].limit
                         /\ b2[Len(b)].pc <= b2[Len(b)].limit
    PROVE  Nest(b2, t)
<1> SUFFICES ASSUME NEW i \in 1..Len(s), HasBlock(s[i].kind) PROVE NestAt(b2, t[i])
  <2>1. \A i \in 1..Len(s) : ~HasBlock(s[i].kind) => NestAt(b2, t[i])
    BY DEF NestAt
  <2> QED BY <2>1 DEF Nest
<1>1. NestAt(b, s[i])
  BY DEF Nest
<1>2. /\ s[i].blks \in Nat /\ s[i].blks + 1 \in 1..Len(b) /\ Len(b) \in Nat
  <2>1. Len(s) \in 0..Len(s) /\ Len(b) = Blks(s, Len(s))
    BY LenProperties DEF Woven, Aligned
  <2> QED BY <2>1, BlockPlace
<1>3. /\ b2[s[i].blks + 1].limit = b[s[i].blks + 1].limit
      /\ b2[s[i].blks + 1].pc <= b2[s[i].blks + 1].limit
  <2>1. CASE s[i].blks + 1 = Len(b)
    BY <1>2, <2>1
  <2>2. CASE s[i].blks + 1 # Len(b)
    <3>1. s[i].blks + 1 \in 1..(Len(b) - 1)
      BY <1>2, <2>2
    <3> QED BY <1>1, <3>1 DEF NestAt
  <2> QED BY <2>1, <2>2
<1>4. s[i].blks > 0 => b2[s[i].blks] = b[s[i].blks]
  BY <1>2
<1>5. t[i].kind = s[i].kind /\ t[i].blks = s[i].blks /\ t[i].alt = s[i].alt
  OBVIOUS
<1> QED BY <1>1, <1>3, <1>4, <1>5 DEF NestAt

\* An item is pushed, with its block if it has one.
LEMMA PushNest ==
    ASSUME NEW c, NEW b, NEW b2, NEW s \in Seq(Items), NEW item \in Items,
           Woven(c, b, s), Nest(b, s), \A k \in 1..Len(b) : b2[k] = b[k],
           NestAt(b2, item)
    PROVE  Nest(b2, Append(s, item))
<1>1. Len(s) \in Nat /\ Len(s) \in 0..Len(s) /\ Len(b) = Blks(s, Len(s))
  BY LenProperties DEF Woven, Aligned
<1>2. s = s /\ \A i \in 1..Len(s) : s[i] = s[i]
  OBVIOUS
<1>3. Nest(b2, s)
  BY <1>1, <1>2, UnwindNest
<1> QED BY <1>1, <1>3, AppendProperties DEF Nest

\* The inductive invariant of the nesting: between two runs there is no block that
\* a table or a method started by the host could be taken to nest in.
NInv == IInv /\ Nest(blk, stack) /\ (status = "idle" => stack = <<>>)

LEMMA PutNest ==
    ASSUME NInv, NEW arrays, NEW c, NEW b, NEW s, NEW o,
           Put(arrays, c, b, s, o), Nest(b, s)
    PROVE  Nest(blk', stack')
<1>1. \/ blk' = b /\ stack' = s
      \/ blk' = blk /\ stack' = stack
  BY DEF Put, Panic
<1> QED BY <1>1 DEF NInv

\* t is the execution stack up to the phases of its items.
Reshapes(t) ==
    /\ t \in Seq(Items) /\ Len(t) = Len(stack)
    /\ \A i \in 1..Len(stack) :
         t[i].kind = stack[i].kind /\ t[i].blks = stack[i].blks /\ t[i].alt = stack[i].alt

LEMMA StackShape == ASSUME TypeOK PROVE Reshapes(stack)
  BY DEF Reshapes, TypeOK

LEMMA PhaseShape ==
    ASSUME TypeOK, Processing, NEW phase \in 0..2, phase = 2 => IsPackage(Top)
    PROVE  Reshapes([stack EXCEPT ![Len(stack)].phase = phase])
<1> DEFINE t == [stack EXCEPT ![Len(stack)].phase = phase]
<1>1. t \in Seq(Items)
  BY PhaseType
<1>2. stack \in Seq(Items) /\ Len(t) = Len(stack)
  BY DEF TypeOK
<1>3. \A i \in 1..Len(stack) :
        t[i].kind = stack[i].kind /\ t[i].blks = stack[i].blks /\ t[i].alt = stack[i].alt
  <2> TAKE i \in 1..Len(stack)
  <2>1. stack[i] \in Items
    BY <1>2, ElementOfSeq
  <2>2. t[i] = IF i = Len(stack) THEN [stack[i] EXCEPT !.phase = phase] ELSE stack[i]
    BY <1>2
  <2> QED BY <2>1, <2>2 DEF Items, ItemRecords
<1> HIDE DEF t
<1>4. Reshapes(t)
  BY <1>1, <1>2, <1>3 DEF Reshapes
<1> QED BY <1>4 DEF t

LEMMA AdvancedShape == ASSUME TypeOK, Processing, NEW arrays PROVE Reshapes(Advanced(arrays))
<1>1. 1 \in 0..2 /\ 1 # 2
  OBVIOUS
<1>2. Reshapes([stack EXCEPT ![Len(stack)].phase = 1])
  BY <1>1, PhaseShape
<1> QED BY <1>2, StackShape DEF Advanced

LEMMA CommitShape ==
    ASSUME TypeOK, Processing, NEW pc \in Nat
    PROVE  /\ Commit(pc) \in Seq(Blocks) /\ Len(Commit(pc)) = Len(blk)
           /\ \A k \in 1..(Len(blk) - 1) : Commit(pc)[k] = blk[k]
           /\ Len(blk) \in 1..Len(blk) /\ Here = blk[Len(blk)]
           /\ Commit(pc)[Len(blk)] = Block(pc, Here.limit)
<1>1. blk \in Seq(Blocks) /\ Len(blk) \in 1..Len(blk) /\ Here \in Blocks
  BY ProcessingTypes DEF TypeOK
<1>2. Commit(pc) \in Seq(Blocks) /\ Len(Commit(pc)) = Len(blk)
  BY CommitType, CommitLength
<1>3. \A k \in 1..(Len(blk) - 1) : Commit(pc)[k] = blk[k]
  BY <1>1 DEF Commit
<1>4. Commit(pc)[Len(blk)] = [blk[Len(blk)] EXCEPT !.pc = pc]
  BY <1>1 DEF Commit
<1> QED BY <1>1, <1>2, <1>3, <1>4 DEF Here, Block, Blocks

\* The innermost block goes on at pc.
LEMMA GoOnNest ==
    ASSUME NInv, Processing, NEW pc \in Nat, pc <= Here.limit, NEW t, Reshapes(t)
    PROVE  Nest(Commit(pc), t)
<1>1. /\ \A k \in 1..(Len(blk) - 1) : Commit(pc)[k] = blk[k]
      /\ Commit(pc)[Len(blk)] = Block(pc, Here.limit) /\ Here = blk[Len(blk)]
  BY CommitShape DEF NInv, IInv
<1>2. /\ Commit(pc)[Len(blk)].limit = blk[Len(blk)].limit
      /\ Commit(pc)[Len(blk)].pc <= Commit(pc)[Len(blk)].limit
  BY <1>1 DEF Block
<1> QED BY <1>1, <1>2, CommitNest DEF NInv, IInv, TypeOK, Reshapes

\* The pc stays where it is.
LEMMA StayNest ==
    ASSUME NInv, Processing, NEW t, Reshapes(t) PROVE Nest(blk, t)
<1>1. blk[Len(blk)].pc <= blk[Len(blk)].limit
  BY DEF Processing, Ensured, Here
<1> QED BY <1>1, CommitNest DEF NInv, IInv, TypeOK, Reshapes

\* The item on top ends.
LEMMA PopNest ==
    ASSUME NInv, Processing, NEW b,
           b = blk \/ (b = Front(blk) /\ HasBlock(Top.kind))
    PROVE  Nest(b, Front(stack))
<1> DEFINE n == Len(stack)
           m == n - 1
<1>1. /\ n \in 1..n /\ m \in 0..n /\ m \in Nat /\ Top = stack[n]
      /\ Len(blk) = Blks(stack, n)
      /\ Blks(stack, n) = Blks(stack, m) + IF HasBlock(Top.kind) THEN 1 ELSE 0
      /\ Blks(stack, m) \in Nat
  BY TopOwns, SMTT(30) DEF NInv
<1>2. /\ Front(stack) \in Seq(Items) /\ Len(Front(stack)) = m
      /\ \A i \in 1..m : Front(stack)[i] = stack[i]
  BY ProcessingTypes, FrontType DEF NInv, IInv, TypeOK
<1>3. \A i \in 1..(Len(blk) - 1) : Front(blk)[i] = blk[i]
  BY ProcessingTypes, FrontType DEF NInv, IInv, TypeOK
<1> HIDE DEF m, n
<1>4. \A k \in 1..Blks(stack, m) : b[k] = blk[k]
  <2>1. CASE b = blk
    BY <2>1
  <2>2. CASE b = Front(blk) /\ HasBlock(Top.kind)
    <3>1. Len(blk) - 1 = Blks(stack, m)
      BY <1>1, <2>2
    <3> QED BY <1>3, <2>2, <3>1
  <2> QED BY <2>1, <2>2
<1> QED BY <1>1, <1>2, <1>4, UnwindNest DEF NInv, IInv, TypeOK, n

LEMMA HereTypes ==
    ASSUME NInv, Processing
    PROVE  /\ TypeOK /\ Here \in Blocks /\ Here.pc \in Nat /\ Here.limit \in Nat
           /\ Here.pc <= Here.limit
           /\ ~AtEnd => Here.pc + 1 <= Here.limit
           /\ Top \in Items
           /\ HasBlock(Top.kind) => Len(blk) = Top.blks + 1 /\ NestAt(blk, Top)
<1>1. TypeOK /\ Here \in Blocks /\ Top \in Items
  BY ProcessingTypes DEF NInv, IInv
<1>2. Here.pc \in Nat /\ Here.limit \in Nat /\ Here.pc <= Here.limit
  BY <1>1 DEF Blocks, Processing, Ensured
<1>3. ~AtEnd => Here.pc + 1 <= Here.limit
  BY <1>2 DEF AtEnd
<1>4. Len(stack) \in 1..Len(stack) /\ Top = stack[Len(stack)] /\ Len(blk) = Blks(stack, Len(stack))
  BY TopOwns DEF NInv
<1>5. HasBlock(Top.kind) => Len(blk) = Top.blks + 1
  BY <1>4 DEF Blks
<1>6. NestAt(blk, Top)
  BY <1>4 DEF NInv, Nest
<1> QED BY <1>1, <1>2, <1>3, <1>5, <1>6

LEMMA ParseNest ==
    ASSUME NInv, ParseStatement \/ \E mode \in Modes : ParseOperand(mode)
    PROVE  Nest(blk', stack')
<1>1. Processing /\ ~AtEnd
  BY DEF ParseStatement, ParseOperand, Parses
<1>2. Here.pc + 1 \in Nat /\ Here.pc + 1 <= Here.limit /\ TypeOK
  BY <1>1, HereTypes
<1>3. CASE ParseStatement
  <2>1. \E arrays : Put(arrays, ctx, Commit(Here.pc + 1), stack, ops)
    BY <1>3 DEF ParseStatement
  <2>2. Nest(Commit(Here.pc + 1), stack)
    BY <1>1, <1>2, StackShape, GoOnNest
  <2> QED BY <2>1, <2>2, PutNest
<1>4. CASE \E mode \in Modes : ParseOperand(mode)
  <2>1. PICK arrays, o : Put(arrays, ctx, Commit(Here.pc + 1), Advanced(arrays), o)
    BY <1>4 DEF ParseOperand
  <2>2. Reshapes(Advanced(arrays))
    BY <1>1, <1>2, AdvancedShape
  <2>3. Nest(Commit(Here.pc + 1), Advanced(arrays))
    BY <1>1, <1>2, <2>2, GoOnNest
  <2> QED BY <2>1, <2>3, PutNest
<1> QED BY <1>3, <1>4

LEMMA StartNest == ASSUME NInv, Call \/ Populate PROVE Nest(blk', stack')
<1>1. PICK size \in CodeSizes : blk' = Append(blk, Block(0, size))
  BY DEF Call, Populate
<1>2. /\ blk \in Seq(Blocks) /\ stack \in Seq(Items) /\ Len(ops) \in Nat /\ TypeOK
  BY ArrayTypes DEF NInv, IInv, TypeOK
<1>3. size \in Nat /\ Block(0, size) \in Blocks
  BY BoundsAssumption DEF Block, Blocks
<1>4. Len(blk) = 0
  <2>1. stack = <<>> /\ Len(stack) = 0
    BY DEF Call, Populate, NInv
  <2> QED BY <2>1 DEF NInv, IInv, Woven, Aligned, Blks
<1>5. blk'[1] = Block(0, size)
  BY <1>1, <1>2, <1>3, <1>4, AppendProperties
<1>6. <<>> \in Seq(Modes \cup {"placed"}) /\ NoBlock \in Blocks
  BY DEF NoBlock, Block, Blocks
<1>7. PICK kind \in {"METHOD", "POPULATE"}, want \in BOOLEAN :
        stack' = Append(stack, Item(kind, Len(ops), want, <<>>, NoBlock))
  BY DEF Call, Populate
<1> DEFINE item == Item(kind, Len(ops), want, <<>>, NoBlock)
<1>8. item \in Items
  BY <1>2, <1>6, ItemType DEF ItemKinds
<1>9. item.kind = kind /\ item.blks = 0 /\ item.alt = NoBlock
  BY <1>4 DEF Item
<1> HIDE DEF item
<1>10. NestAt(blk', item)
  BY <1>3, <1>5, <1>9 DEF NestAt, NoBlock, Block
<1>11. \A k \in 1..Len(blk) : blk'[k] = blk[k]
  BY <1>4
<1>12. Nest(blk', Append(stack, item))
  BY <1>2, <1>8, <1>10, <1>11, PushNest DEF NInv, IInv
<1> QED BY <1>7, <1>12 DEF item

LEMMA OpenNest ==
    ASSUME NInv, Processing, NEW form, FormType(form), form.kind # "METHOD",
           NEW mode \in Modes, NEW limit \in Nat, NEW alt \in Blocks, NEW next \in Nat,
           next <= Here.limit,
           HasBlock(form.kind) => /\ Here.pc + 1 <= limit /\ limit <= next
                                  /\ alt.pc <= alt.limit /\ alt.limit <= next,
           form.kind = "LOOP" => alt.limit = limit,
           Open(form, mode, limit, alt, next)
    PROVE  Nest(blk', stack')
<1> DEFINE item == Item(form.kind, Len(Settled), mode # "exec", form.args, alt)
           arrays == Reserved(form)
           c == IF HasContext(form.kind) THEN Append(ctx, FALSE) ELSE ctx
           b == IF HasBlock(form.kind)
                  THEN Append(Commit(next), Block(Here.pc + 1, limit))
                  ELSE Commit(next)
<1>1. item \in Items
  BY ItemType, OperandTypes DEF FormType, NInv, IInv
<1>2. item.kind = form.kind /\ item.blks = Len(blk) /\ item.alt = alt
  BY DEF Item
<1>3. /\ Len(Commit(next)) = Len(blk) /\ Commit(next) \in Seq(Blocks) /\ Len(blk) \in 1..Len(blk)
      /\ Commit(next)[Len(blk)] = Block(next, Here.limit)
  BY CommitShape DEF NInv, IInv
<1>4. Put(arrays, c, b, Append(Advanced(arrays), item), Settled \o form.placed)
  BY DEF Open
<1> HIDE DEF item, c, arrays
<1>5. Advanced(arrays) \in Seq(Items) /\ Reshapes(Advanced(arrays))
  BY AdvancedType, AdvancedShape DEF NInv, IInv
<1>6. Nest(Commit(next), Advanced(arrays)) /\ Woven(ctx, Commit(next), Advanced(arrays))
  BY <1>3, <1>5, GoOnNest, AdvancedWoven DEF NInv
<1>7. \A k \in 1..Len(Commit(next)) : b[k] = Commit(next)[k]
  BY <1>3, AppendProperties
<1>8. NestAt(b, item)
  <2> SUFFICES ASSUME HasBlock(form.kind) PROVE NestAt(b, item)
    BY <1>2 DEF NestAt
  <2>1. Here.pc \in Nat /\ Block(Here.pc + 1, limit) \in Blocks
    BY HereTypes DEF Block, Blocks
  <2>2. b[Len(blk) + 1] = Block(Here.pc + 1, limit)
    BY <1>3, <2>1, AppendProperties
  <2>3. b[Len(blk)] = Block(next, Here.limit)
    BY <1>3, <1>7
  <2> HIDE DEF b
  <2>4. /\ b[Len(blk) + 1].pc = Here.pc + 1 /\ b[Len(blk) + 1].limit = limit
        /\ b[Len(blk)].pc = next
    BY <2>2, <2>3 DEF Block
  <2> QED BY <1>2, <2>4 DEF NestAt
<1> HIDE DEF b
<1>9. Nest(b, Append(Advanced(arrays), item))
  BY <1>1, <1>5, <1>6, <1>7, <1>8, PushNest
<1> QED BY <1>4, <1>9, PutNest

LEMMA ParseItemNest ==
    ASSUME NInv, NEW mode \in Modes, ParseItem(mode) PROVE Nest(blk', stack')
<1>1. Processing /\ ~AtEnd
  BY DEF ParseItem, Parses
<1>2. Here.pc \in Nat /\ Here.limit \in Nat /\ Here.pc + 1 <= Here.limit
  BY <1>1, HereTypes
<1>3. PICK form \in Forms :
      \E limit \in IF HasBlock(form.kind) THEN (Here.pc + 1)..Here.limit
                                          ELSE {Here.pc + 1} :
         Open(form, mode, limit,
              IF form.kind = "LOOP" THEN Block(Here.pc + 1, limit) ELSE NoBlock, limit)
  BY DEF ParseItem
<1>4. PICK limit \in Nat :
         /\ Here.pc + 1 <= limit /\ limit <= Here.limit
         /\ Open(form, mode, limit,
                 IF form.kind = "LOOP" THEN Block(Here.pc + 1, limit) ELSE NoBlock, limit)
  BY <1>2, <1>3
<1> DEFINE alt == IF form.kind = "LOOP" THEN Block(Here.pc + 1, limit) ELSE NoBlock
<1>5. /\ alt \in Blocks /\ alt.pc <= alt.limit /\ alt.limit <= limit
      /\ form.kind = "LOOP" => alt.limit = limit
  BY <1>2, <1>4 DEF Block, NoBlock, Blocks
<1>6. Open(form, mode, limit, alt, limit)
  BY <1>4
<1> HIDE DEF alt
<1>7. FormType(form) /\ form.kind # "METHOD"
  BY <1>3, FormTypes, FormsAreNoMethods
<1> QED BY <1>1, <1>4, <1>5, <1>6, <1>7, OpenNest

LEMMA ParseIfElseNest == ASSUME NInv, ParseIfElse PROVE Nest(blk', stack')
<1>1. Processing
  BY DEF ParseIfElse, Parses
<1>2. Here.pc \in Nat /\ Here.limit \in Nat
  BY <1>1, HereTypes
<1> DEFINE form == Form("COND", {"exec"}, <<>>, <<"object">>)
<1>3. PICK limit \in Nat, next \in Nat :
         /\ Here.pc + 1 <= limit /\ limit + 1 <= next /\ next <= Here.limit
         /\ Open(form, "exec", limit, Block(limit + 1, next), next)
  BY <1>2 DEF ParseIfElse
<1>4. FormType(form) /\ form.kind = "COND"
  <2>1. <<>> \in Seq(Tags) /\ <<"object">> \in Seq(Modes \cup {"placed"})
    BY DEF Modes
  <2>2. FormType(form)
    BY <2>1, FormHasType DEF ItemKinds
  <2> QED BY <2>2 DEF Form
<1> DEFINE alt == Block(limit + 1, next)
<1>5. alt \in Blocks /\ alt.pc <= alt.limit /\ alt.limit <= next /\ limit <= next
  BY <1>3 DEF Block, Blocks
<1>6. "exec" \in Modes /\ form.kind # "METHOD" /\ form.kind # "LOOP"
  BY <1>4 DEF Modes
<1>7. Open(form, "exec", limit, alt, next)
  BY <1>3
<1> HIDE DEF form, alt
<1> QED BY <1>1, <1>3, <1>4, <1>5, <1>6, <1>7, OpenNest

LEMMA ParseContinueNest == ASSUME NInv, ParseContinue PROVE Nest(blk', stack')
<1>1. PICK m \in DOMAIN stack :
        /\ InnermostLoop(m)
        /\ LET left == SubSeq(blk, 1, Len(blk) - (Len(stack) - m)) IN
             Put({}, ctx, [left EXCEPT ![Len(left)].pc = left[Len(left)].limit],
                 SubSeq(stack, 1, m), ops)
  BY DEF ParseContinue
<1>2. Processing
  BY DEF ParseContinue, Parses
<1> DEFINE n == Len(blk) - (Len(stack) - m)
           left == SubSeq(blk, 1, n)
           last == Len(left)
           rest == [left EXCEPT ![last].pc = left[last].limit]
           t == SubSeq(stack, 1, m)
<1>0. /\ m \in 1..Len(stack) /\ Len(stack) \in Nat /\ Len(blk) \in Nat
      /\ Len(ctx) = Ctxs(stack, m) /\ n = Blks(stack, m) /\ Blks(stack, m) \in Nat \ {0}
  BY <1>1, <1>2, LoopSpan, ArrayTypes DEF NInv, IInv
<1>3. /\ m \in 0..Len(stack) /\ m \in Int /\ m <= Len(stack)
      /\ n <= Len(blk) /\ n \in Int /\ n = Blks(stack, m) /\ Blks(stack, m) \in Nat \ {0}
  BY <1>0
<1>4. Put({}, ctx, rest, t, ops)
  BY <1>1
<1> HIDE DEF n
<1>5. /\ left \in Seq(Blocks) /\ last = Blks(stack, m)
      /\ \A k \in 1..Blks(stack, m) : left[k] = blk[k]
  BY <1>3, PrefixType DEF NInv, IInv, TypeOK
<1>6. t \in Seq(Items) /\ Len(t) = m /\ \A i \in 1..m : t[i] = stack[i]
  BY <1>3, PrefixType DEF NInv, IInv, TypeOK
<1> HIDE DEF t, left
<1>7. Woven(ctx, left, t)
  BY <1>0, <1>3, <1>5, <1>6, UnwindWoven DEF NInv, IInv, TypeOK
<1>8. Nest(left, t)
  BY <1>3, <1>5, <1>6, UnwindNest DEF NInv, IInv, TypeOK
<1>9. last \in 1..last /\ left[last] \in Blocks
  BY <1>3, <1>5, ElementOfSeq
<1>10. /\ \A k \in 1..(last - 1) : rest[k] = left[k]
       /\ rest[last].limit = left[last].limit /\ rest[last].pc = left[last].limit
  BY <1>5, <1>9 DEF Blocks
<1>11. left[last].limit <= left[last].limit
  BY <1>9 DEF Blocks
<1> HIDE DEF rest
<1>12. \A i \in 1..Len(t) : t[i].kind = t[i].kind /\ t[i].blks = t[i].blks /\ t[i].alt = t[i].alt
  OBVIOUS
<1>13. Nest(rest, t)
  BY <1>6, <1>7, <1>8, <1>10, <1>11, <1>12, CommitNest
<1> QED BY <1>4, <1>13, PutNest

LEMMA ParseBreakNest == ASSUME NInv, ParseBreak PROVE Nest(blk', stack')
<1>1. PICK m \in DOMAIN stack :
        /\ InnermostLoop(m)
        /\ Put({}, ctx, SubSeq(blk, 1, Len(blk) - (Len(stack) - m) - 1),
               SubSeq(stack, 1, m - 1), ops)
  BY DEF ParseBreak
<1>2. Processing
  BY DEF ParseBreak, Parses
<1> DEFINE n == Len(blk) - (Len(stack) - m) - 1
           i == m - 1
           b == SubSeq(blk, 1, n)
           t == SubSeq(stack, 1, i)
<1>3. /\ i \in 0..Len(stack) /\ n = Blks(stack, i) /\ Blks(stack, i) \in Nat
      /\ n <= Len(blk) /\ n \in Int /\ i \in Nat /\ i <= Len(stack)
  BY <1>1, <1>2, LoopSpan, ArrayTypes, SMTT(30) DEF NInv, IInv
<1>4. Put({}, ctx, b, t, ops)
  BY <1>1
<1> HIDE DEF n, i
<1>5. \A k \in 1..Blks(stack, i) : b[k] = blk[k]
  BY <1>3, PrefixType DEF NInv, IInv, TypeOK
<1>6. t \in Seq(Items) /\ Len(t) = i /\ \A k \in 1..i : t[k] = stack[k]
  BY <1>3, PrefixType DEF NInv, IInv, TypeOK
<1> HIDE DEF b, t
<1>7. Nest(b, t)
  BY <1>3, <1>5, <1>6, UnwindNest DEF NInv, IInv, TypeOK
<1> QED BY <1>4, <1>7, PutNest

LEMMA FinishReturnNest == ASSUME NInv, FinishReturn PROVE Nest(blk', stack')
<1>1. Processing /\ Top.kind = "RETURN"
  BY DEF FinishReturn
<1>2. PICK m \in 1..(Len(stack) - 1) :
        /\ ReturningMethod(m)
        /\ Put({}, Front(ctx), SubSeq(blk, 1, Len(blk) - (Len(stack) - 1 - m) - 1),
               SubSeq(stack, 1, m - 1), Front(ops) \o Result(stack[m].want))
  BY DEF FinishReturn
<1> DEFINE n == Len(blk) - (Len(stack) - 1 - m) - 1
           i == m - 1
           b == SubSeq(blk, 1, n)
           t == SubSeq(stack, 1, i)
           o == Front(ops) \o Result(stack[m].want)
<1>3. /\ i \in 0..Len(stack) /\ Len(stack) \in Nat /\ Len(blk) \in Nat
      /\ n = Blks(stack, i) /\ Blks(stack, i) \in Nat
      /\ Len(stack) - 1 - m >= 0 /\ Len(stack) - 1 - m \in Int
  BY <1>1, <1>2, ReturnSpan, ArrayTypes DEF NInv, IInv
<1>4. n <= Len(blk) /\ n \in Int /\ i \in Nat /\ i <= Len(stack)
  BY <1>3
<1>5. Put({}, Front(ctx), b, t, o)
  BY <1>2
<1> HIDE DEF n, i, o
<1>6. \A k \in 1..Blks(stack, i) : b[k] = blk[k]
  BY <1>3, <1>4, PrefixType DEF NInv, IInv, TypeOK
<1>7. t \in Seq(Items) /\ Len(t) = i /\ \A k \in 1..i : t[k] = stack[k]
  BY <1>3, <1>4, PrefixType DEF NInv, IInv, TypeOK
<1> HIDE DEF b, t
<1>8. Nest(b, t)
  BY <1>3, <1>6, <1>7, UnwindNest DEF NInv, IInv, TypeOK
<1> QED BY <1>5, <1>8, PutNest

LEMMA InvokeMethodNest == ASSUME NInv, InvokeMethod PROVE Nest(blk', stack')
<1>1. Processing /\ Complete /\ Top.kind = "INVOKE"
  BY DEF InvokeMethod
<1> DEFINE item == Item("METHOD", Top.frame, Top.want, <<>>, NoBlock)
<1>2. PICK size \in CodeSizes :
        Put({"ctx", "blk"}, Append(ctx, TRUE), Append(blk, Block(0, size)),
            Append(Front(stack), item), Below)
  BY DEF InvokeMethod
<1>3. ~HasContext(Top.kind) /\ ~HasBlock(Top.kind)
  BY <1>1 DEF HasContext, HasBlock
<1>4. Woven(ctx, blk, Front(stack)) /\ Nest(blk, Front(stack))
  BY <1>1, <1>3, PopWoven, PopNest DEF NInv
<1>5. item \in Items
  <2>1. <<>> \in Seq(Modes \cup {"placed"}) /\ NoBlock \in Blocks
    BY DEF NoBlock, Block, Blocks
  <2>2. Top.frame \in Nat /\ Top.want \in BOOLEAN
    BY <1>1, HereTypes DEF Items, ItemRecords
  <2> QED BY <2>1, <2>2, ItemType DEF NInv, IInv, ItemKinds
<1>6. item.kind = "METHOD" /\ item.blks = Len(blk) /\ item.alt = NoBlock
  BY DEF Item
<1>7. ctx \in Seq(BOOLEAN) /\ blk \in Seq(Blocks) /\ Front(stack) \in Seq(Items)
  BY <1>1, PoppedTypes DEF NInv, IInv
<1> DEFINE b == Append(blk, Block(0, size))
<1>8. size \in Nat /\ Block(0, size) \in Blocks
  BY BoundsAssumption DEF Block, Blocks
<1>9. b[Len(blk) + 1] = Block(0, size) /\ \A k \in 1..Len(blk) : b[k] = blk[k]
  BY <1>7, <1>8, AppendProperties
<1>10. Put({"ctx", "blk"}, Append(ctx, TRUE), b, Append(Front(stack), item), Below)
  BY <1>2
<1> HIDE DEF b, item
<1>11. NestAt(b, item)
  BY <1>6, <1>8, <1>9 DEF NestAt, NoBlock, Block
<1>12. Nest(b, Append(Front(stack), item))
  BY <1>4, <1>5, <1>7, <1>9, <1>11, PushNest
<1> QED BY <1>10, <1>12, PutNest

\* Items that end without unwinding others.
LEMMA EndNest ==
    ASSUME NInv, FinishOperator \/ FinishNode \/ InvokeOverride \/ MethodEnds \/ BlockEnds
                 \/ PredicateFails \/ PackageEnds
    PROVE  Nest(blk', stack')
<1>1. Processing
  BY DEF FinishOperator, FinishNode, InvokeOverride, MethodEnds, BlockEnds, PredicateFails,
         PackageEnds
<1>2. CASE Panic("pending")
  BY <1>2 DEF Panic, NInv
<1>3. CASE \E arrays, c, o : Put(arrays, c, blk, Front(stack), o)
  BY <1>1, <1>3, PopNest, PutNest
<1>4. CASE HasBlock(Top.kind) /\ \E arrays, c, o : Put(arrays, c, Front(blk), Front(stack), o)
  BY <1>1, <1>4, PopNest, PutNest
<1>5. CASE FinishOperator
  <2>1. Top.kind = "BUFFER" => HasBlock(Top.kind)
    BY DEF HasBlock
  <2> QED BY <1>3, <1>4, <1>5, <2>1 DEF FinishOperator
<1>6. CASE FinishNode
  <2>1. Top.kind = "BANKFIELD" => HasBlock(Top.kind)
    BY DEF HasBlock
  <2> QED BY <1>3, <1>4, <1>6, <2>1 DEF FinishNode
<1>7. CASE InvokeOverride
  BY <1>3, <1>7 DEF InvokeOverride
<1>8. CASE MethodEnds
  BY <1>2, <1>4, <1>8 DEF MethodEnds, HasBlock
<1>9. CASE BlockEnds
  BY <1>4, <1>9 DEF BlockEnds, HasBlock
<1>10. CASE PredicateFails
  BY <1>4, <1>10 DEF PredicateFails, HasBlock
<1>11. CASE PackageEnds
  BY <1>4, <1>11 DEF PackageEnds, IsPackage, HasBlock
<1> QED BY <1>5, <1>6, <1>7, <1>8, <1>9, <1>10, <1>11

LEMMA StayStepNest ==
    ASSUME NInv, PredicateHolds \/ CreatePackage PROVE Nest(blk', stack')
<1>1. Processing /\ TypeOK
  BY DEF PredicateHolds, CreatePackage, NInv, IInv
<1>2. 1 \in 0..2 /\ 2 \in 0..2 /\ 1 # 2
  OBVIOUS
<1>3. CASE PredicateHolds
  <2>1. Reshapes([stack EXCEPT ![Len(stack)].phase = 1])
    BY <1>1, <1>2, PhaseShape
  <2>2. Nest(blk, [stack EXCEPT ![Len(stack)].phase = 1])
    BY <1>1, <2>1, StayNest
  <2>3. Put({}, ctx, blk, [stack EXCEPT ![Len(stack)].phase = 1], Front(ops))
    BY <1>3 DEF PredicateHolds
  <2> QED BY <2>2, <2>3, PutNest
<1>4. CASE CreatePackage
  <2>1. Reshapes([stack EXCEPT ![Len(stack)].phase = 2])
    BY <1>1, <1>2, <1>4, PhaseShape DEF CreatePackage
  <2>2. Nest(blk, [stack EXCEPT ![Len(stack)].phase = 2])
    BY <1>1, <2>1, StayNest
  <2>3. Put({}, ctx, blk, [stack EXCEPT ![Len(stack)].phase = 2], Front(ops))
    BY <1>4 DEF CreatePackage
  <2> QED BY <2>2, <2>3, PutNest
<1> QED BY <1>3, <1>4

LEMMA LoopRepeatsNest == ASSUME NInv, LoopRepeats PROVE Nest(blk', stack')
<1>1. Processing /\ TypeOK /\ Top.kind = "LOOP"
  BY DEF LoopRepeats, NInv, IInv
<1>2. Len(blk) = Top.blks + 1 /\ NestAt(blk, Top) /\ HasBlock(Top.kind) /\ Top.alt.pc \in Nat
  BY <1>1, HereTypes DEF HasBlock, Items, ItemRecords, Blocks
<1>3. Top.alt.pc <= Here.limit
  BY <1>1, <1>2 DEF NestAt, Here
<1>4. Reshapes([stack EXCEPT ![Len(stack)].phase = 0])
  BY <1>1, PhaseShape
<1>5. Nest(Commit(Top.alt.pc), [stack EXCEPT ![Len(stack)].phase = 0])
  BY <1>1, <1>2, <1>3, <1>4, GoOnNest
<1>6. Put({}, ctx, Commit(Top.alt.pc), [stack EXCEPT ![Len(stack)].phase = 0], ops)
  BY DEF LoopRepeats
<1> QED BY <1>5, <1>6, PutNest

\* The Else takes the place of the branch that is not taken.
LEMMA TakeElseNest == ASSUME NInv, TakeElse PROVE Nest(blk', stack')
<1>1. Processing /\ TypeOK /\ Top.kind = "COND"
  BY DEF TakeElse, NInv, IInv
<1> DEFINE n == Len(stack)
           b == [blk EXCEPT ![Len(blk)] = Top.alt]
           t == [stack EXCEPT ![n].phase = 1]
<1>2. /\ Len(blk) = Top.blks + 1 /\ NestAt(blk, Top) /\ HasBlock(Top.kind)
      /\ Top.alt \in Blocks /\ Top.blks \in Nat
  BY <1>1, HereTypes DEF HasBlock, Items, ItemRecords
<1>3. Reshapes(t)
  BY <1>1, PhaseShape
<1>4. /\ n \in 1..n /\ n - 1 \in 0..n /\ Top = stack[n] /\ Len(blk) = Blks(stack, n - 1) + 1
      /\ Blks(stack, n - 1) \in Nat
  <2>1. /\ n \in 1..n /\ n - 1 \in 0..n /\ Top = stack[n] /\ Len(blk) = Blks(stack, n)
    BY <1>1, TopOwns DEF NInv
  <2>2. Blks(stack, n) = Blks(stack, n - 1) + 1 /\ Blks(stack, n - 1) \in Nat
    BY <1>1, <1>2, <2>1, TopOwns DEF NInv
  <2> QED BY <2>1, <2>2
<1>5. b[Len(blk)] = Top.alt /\ \A k \in 1..(Len(blk) - 1) : b[k] = blk[k]
  <2>1. blk \in Seq(Blocks) /\ Len(blk) \in 1..Len(blk)
    BY <1>1, CommitShape DEF TypeOK
  <2> QED BY <2>1
<1>6. Put({}, ctx, b, t, Front(ops))
  BY DEF TakeElse
<1> HIDE DEF b, t
<1>7. ASSUME NEW i \in 1..n, HasBlock(stack[i].kind) PROVE NestAt(b, stack[i])
  <2>1. NestAt(blk, stack[i])
    BY DEF NInv, Nest
  <2>2. CASE i = n
    <3>1. b[Top.blks + 1] = Top.alt
      BY <1>2, <1>5
    <3>2. Top.blks > 0 => b[Top.blks] = blk[Top.blks]
      BY <1>2, <1>5
    <3> QED BY <1>1, <1>2, <1>4, <2>2, <3>1, <3>2 DEF NestAt
  <2>3. CASE i # n
    <3>1. i \in 1..(n - 1)
      BY <1>4, <2>3
    <3>2. stack[i].blks \in Nat /\ stack[i].blks + 1 \in 1..Blks(stack, n - 1)
      BY <1>4, <1>7, <3>1, BlockPlace DEF NInv, IInv, TypeOK
    <3>3. stack[i].blks + 1 \in 1..(Len(blk) - 1) /\ (stack[i].blks > 0 => stack[i].blks \in 1..(Len(blk) - 1))
      BY <1>4, <3>2, SMTT(30)
    <3>4. b[stack[i].blks + 1] = blk[stack[i].blks + 1]
      BY <1>5, <3>3
    <3>5. stack[i].blks > 0 => b[stack[i].blks] = blk[stack[i].blks]
      BY <1>5, <3>3
    <3> QED BY <2>1, <3>4, <3>5 DEF NestAt
  <2> QED BY <2>2, <2>3
<1>8. ASSUME NEW i \in 1..n PROVE NestAt(b, t[i])
  <2>1. t[i].kind = stack[i].kind /\ t[i].blks = stack[i].blks /\ t[i].alt = stack[i].alt
    BY <1>3 DEF Reshapes
  <2> QED BY <1>7, <2>1 DEF NestAt
<1>9. Nest(b, t)
  BY <1>3, <1>8 DEF Nest, Reshapes
<1> QED BY <1>6, <1>9, PutNest

\* Only a run that ends leaves the interpreter idle.
LEMMA IdleStep ==
    ASSUME NInv, [Next]_vars PROVE status' = "idle" => stack' = <<>>
<1>1. CASE Call \/ Populate
  BY <1>1 DEF Call, Populate
<1>2. CASE Finish
  BY <1>2 DEF Finish, Reset, Panic
<1>3. ASSUME Processing, NEW arrays, NEW c, NEW b, NEW s, NEW o, Put(arrays, c, b, s, o)
      PROVE  status' # "idle"
  <2>1. status \in {"eval", "populate"}
    BY <1>3 DEF Processing, Running
  <2>2. status' = status \/ status' = "ensure"
    BY <1>3 DEF Put, Panic
  <2> QED BY <2>1, <2>2
<1>4. CASE \E mode \in Modes : ParseOperand(mode)
  BY <1>3, <1>4 DEF ParseOperand, Parses
<1>5. CASE ParseStatement
  BY <1>3, <1>5 DEF ParseStatement, Parses
<1>6. CASE ParseIfElse \/ \E mode \in Modes : ParseItem(mode)
  BY <1>3, <1>6, ZenonT(30) DEF ParseIfElse, ParseItem, Parses, Open
<1>7. CASE ParseContinue \/ ParseBreak
  BY <1>3, <1>7 DEF ParseContinue, ParseBreak, Parses
<1>8. CASE FinishOperator \/ FinishNode \/ InvokeOverride
  BY <1>3, <1>8 DEF FinishOperator, FinishNode, InvokeOverride
<1>9. CASE InvokeMethod
  BY <1>3, <1>9 DEF InvokeMethod
<1>10. CASE FinishReturn
  BY <1>3, <1>10 DEF FinishReturn
<1>11. CASE MethodEnds
  <2>1. CASE Panic("pending")
    BY <2>1 DEF Panic
  <2> QED BY <1>3, <1>11, <2>1 DEF MethodEnds
<1>12. CASE BlockEnds \/ LoopRepeats \/ PredicateHolds
  BY <1>3, <1>12 DEF BlockEnds, LoopRepeats, PredicateHolds
<1>13. CASE PredicateFails \/ TakeElse \/ CreatePackage \/ PackageEnds
  BY <1>3, <1>13 DEF PredicateFails, TakeElse, CreatePackage, PackageEnds
<1>14. CASE Fail \/ Stop
  BY <1>14 DEF Fail, Reset, Stop, Panic
<1>15. CASE Halted \/ UNCHANGED vars
  BY <1>15 DEF Halted, vars, NInv
<1> QED
  BY <1>1, <1>2, <1>4, <1>5, <1>6, <1>7, <1>8, <1>9, <1>10, <1>11, <1>12, <1>13, <1>14,
     <1>15 DEF Next, Process

LEMMA StepNInv == ASSUME NInv, [Next]_vars PROVE NInv'
<1>1. IInv' /\ (status' = "idle" => stack' = <<>>)
  BY StepInv, IdleStep DEF NInv
<1>2. Nest(blk', stack')
  <2>1. CASE Call \/ Populate
    BY <2>1, StartNest
  <2>2. CASE Finish \/ Fail
    <3>1. CASE Reset
      <4>1. Len(<<>>) = 0
        OBVIOUS
      <4> QED BY <3>1, <4>1 DEF Reset, Nest
    <3>2. CASE blk' = blk /\ stack' = stack
      BY <3>2 DEF NInv
    <3> QED BY <2>2, <3>1, <3>2 DEF Finish, Panic, Fail
  <2>3. CASE ParseStatement \/ \E mode \in Modes : ParseOperand(mode)
    BY <2>3, ParseNest
  <2>4. CASE ParseIfElse \/ \E mode \in Modes : ParseItem(mode)
    BY <2>4, ParseItemNest, ParseIfElseNest
  <2>5. CASE ParseContinue \/ ParseBreak
    BY <2>5, ParseContinueNest, ParseBreakNest
  <2>6. CASE FinishOperator \/ FinishNode \/ InvokeOverride \/ MethodEnds \/ BlockEnds
             \/ PredicateFails \/ PackageEnds
    BY <2>6, EndNest
  <2>7. CASE InvokeMethod \/ FinishReturn
    BY <2>7, InvokeMethodNest, FinishReturnNest
  <2>8. CASE LoopRepeats \/ PredicateHolds \/ TakeElse \/ CreatePackage
    BY <2>8, LoopRepeatsNest, StayStepNest, TakeElseNest
  <2>9. CASE Stop \/ Halted \/ UNCHANGED vars
    BY <2>9 DEF Stop, Panic, Halted, vars, NInv
  <2> QED BY <2>1, <2>2, <2>3, <2>4, <2>5, <2>6, <2>7, <2>8, <2>9 DEF Next, Process
<1> QED BY <1>1, <1>2 DEF NInv

\* For every AML and every capacity: the pc of a block lies behind all the code that
\* is nested in it and may still be executed, so that no code is run twice or jumped
\* over when a nested block is left, and none is executed outside its block.
THEOREM Nesting == Spec => []BlocksNest
<1>1. Init => NInv
  <2> SUFFICES ASSUME Init PROVE NInv
    OBVIOUS
  <2>1. Len(<<>>) = 0 /\ stack = <<>>
    BY DEF Init
  <2> QED BY <2>1, InitType, EmptyWoven DEF Init, NInv, IInv, Nest
<1>2. NInv /\ [Next]_vars => NInv'
  BY StepNInv
<1>3. NInv => BlocksNest
  <2> SUFFICES ASSUME NInv, NEW i \in DOMAIN stack, HasBlock(stack[i].kind)
               PROVE  LET item == stack[i]  own == blk[BlksTo(i)]  parent == blk[item.blks] IN
                        /\ own.pc <= own.limit
                        /\ item.kind # "METHOD" /\ item.blks > 0 =>
                             own.limit <= parent.pc /\ item.alt.limit <= parent.pc
    BY DEF BlocksNest
  <2>1. i \in 1..Len(stack) /\ i # 0
    BY LenProperties DEF NInv, IInv, TypeOK
  <2>2. BlksTo(i) = stack[i].blks + 1
    BY <2>1 DEF BlksTo
  <2> QED BY <2>1, <2>2 DEF NInv, Nest, NestAt
<1> QED BY <1>1, <1>2, <1>3, PTL DEF Spec

-------------------------------------------------------------------------------
(***************************************************************************)
(* No LAI_ENSURE of the interpreter fires and calls are balanced, for      *)
(* every AML without VarPackage and BankField, every size of the arrays    *)
(* and every set of operators.                                             *)
(*                                                                         *)
(* The operand stack is cut into frames, one per item.  Between the frames *)
(* of two neighbours lie exactly the operands that the lower item has      *)
(* collected, and the upper item delivers what the lower one waits for:    *)
(* nothing if it executes statements, else an object where its next        *)
(* argument may be one.  Break, Continue and Return leave several items    *)
(* at once; that the operands below the lowest are those of the frame on   *)
(* top is what Rising carries along for every pair of items.               *)
(***************************************************************************)

\* Item has collected k operands, those of o above its frame.
Gathered(item, k, o) ==
    /\ k \in Nat /\ item.frame + k <= Len(o)
    /\ Executes(item) => k = 0
    /\ Collects(item) =>
         /\ k <= Len(item.args)
         /\ \A i \in 1..k : o[item.frame + i] \in TagsOf(item.args[i])
    /\ IsPackage(item) =>
         /\ IF item.phase = 2 THEN k \in 1..2 ELSE k = item.phase + 1
         /\ \A i \in 1..k : o[item.frame + i] = "object"

\* With k operands, item waits for one more, which may be an object.
Wants(item, k) ==
    /\ Collects(item) => k < Len(item.args) /\ "object" \in TagsOf(item.args[k + 1])
    /\ IsPackage(item) => item.phase = 2 /\ k = 1

\* Item waits for what upper, the item above it, delivers.
Awaiting(item, upper, o) ==
    LET k == upper.frame - item.frame IN
    /\ Gathered(item, k, o) /\ Wants(item, k)
    /\ upper.want <=> ~Executes(item)

\* What the parser makes of the opcodes but VarPackage and BankField.
Shaped(item) ==
    /\ item.kind \notin {"VARPACKAGE", "BANKFIELD"}
    /\ item.kind \in {"POPULATE", "LOOP", "COND", "RETURN", "NODE"} => ~item.want
    /\ item.kind \in {"LOOP", "COND", "BUFFER", "RETURN"} => Len(item.args) = 1
    /\ item.kind = "INVOKE" => Len(item.args) # 0
    /\ \A i \in 1..Len(item.args) : item.args[i] # "exec"

\* Frames follow each other, and those of items that execute are empty.
Rising(s, i, j) ==
    /\ s[i].frame <= s[j].frame
    /\ (\A l \in i..(j - 1) : Executes(s[l])) => s[i].frame = s[j].frame

\* The frames of the items s on the operand stack o, in a run of a method (eval)
\* or of a table.
Framed(s, o, eval) ==
    /\ \A i \in 1..Len(s) : Shaped(s[i])
    /\ \A i \in 1..(Len(s) - 1) : Awaiting(s[i], s[i + 1], o)
    /\ \A i, j \in 1..Len(s) : i <= j => Rising(s, i, j)
    /\ Len(s) # 0 =>
         /\ HasContext(s[1].kind) /\ s[1].frame = 0 /\ (s[1].want <=> eval)
         /\ Gathered(s[Len(s)], Len(o) - s[Len(s)].frame, o)
    /\ Len(s) = 0 => Len(o) = IF eval THEN 1 ELSE 0

\* Operand stacks that agree in the first n places.
Agree(o, p, n) == n <= Len(o) /\ n <= Len(p) /\ \A i \in 1..n : p[i] = o[i]

\* What has been collected depends on the operands up to there only.
LEMMA GatheredAgree ==
    ASSUME NEW item \in Items, NEW k \in Nat, NEW o \in Seq(Tags), NEW p \in Seq(Tags),
           NEW n \in Nat, Gathered(item, k, o), item.frame + k <= n, Agree(o, p, n)
    PROVE  Gathered(item, k, p)
<1>1. item.frame \in Nat
  BY DEF Items, ItemRecords
<1>2. Len(o) \in Nat /\ Len(p) \in Nat
  BY LenProperties
<1>3. \A i \in 1..k : item.frame + i \in 1..n /\ p[item.frame + i] = o[item.frame + i]
  BY <1>1, SMTT(30) DEF Agree
<1>4. item.frame + k <= Len(p)
  BY <1>1, <1>2 DEF Agree
<1> QED BY <1>3, <1>4 DEF Gathered

\* An item that gets what it waits for.
LEMMA GatherMore ==
    ASSUME NEW item \in Items, NEW k \in Nat, NEW o \in Seq(Tags), NEW p \in Seq(Tags),
           NEW want \in BOOLEAN, Gathered(item, k, o), Wants(item, k),
           want <=> ~Executes(item), Agree(o, p, item.frame + k),
           Len(p) = item.frame + k + (IF want THEN 1 ELSE 0),
           want => p[item.frame + k + 1] = "object"
    PROVE  Gathered(item, Len(p) - item.frame, p)
<1>1. item.frame \in Nat /\ item.frame + k \in Nat
  BY DEF Items, ItemRecords
<1>2. Gathered(item, k, p)
  BY <1>1, GatheredAgree
<1>3. CASE ~want
  <2>1. Len(p) - item.frame = k
    BY <1>1, <1>3
  <2> QED BY <1>2, <2>1
<1>4. CASE want
  <2>1. Len(p) - item.frame = k + 1 /\ item.frame + (k + 1) = item.frame + k + 1 /\ Len(p) = item.frame + (k + 1)
    BY <1>1, <1>4
  <2>2. ~Executes(item) /\ p[item.frame + (k + 1)] = "object"
    BY <1>4, <2>1
  <2>3. CASE Collects(item)
    <3>1. ~IsPackage(item) /\ k < Len(item.args) /\ "object" \in TagsOf(item.args[k + 1])
      BY <2>3 DEF Collects, Wants
    <3>2. Len(item.args) \in Nat
      BY LenProperties DEF Items, ItemRecords
    <3>3. \A i \in 1..(k + 1) : p[item.frame + i] \in TagsOf(item.args[i])
      <4> TAKE i \in 1..(k + 1)
      <4>1. CASE i \in 1..k
        BY <1>2, <2>3, <4>1 DEF Gathered
      <4>2. CASE i = k + 1
        BY <2>2, <3>1, <4>2
      <4> QED BY <4>1, <4>2
    <3>4. Gathered(item, k + 1, p)
      BY <1>1, <2>1, <2>2, <3>1, <3>2, <3>3, SMTT(30) DEF Gathered
    <3> QED BY <2>1, <3>4
  <2>4. CASE IsPackage(item)
    <3>1. ~Collects(item) /\ item.phase = 2 /\ k = 1
      BY <2>4 DEF Collects, Wants
    <3>2. \A i \in 1..(k + 1) : p[item.frame + i] = "object"
      <4> TAKE i \in 1..(k + 1)
      <4>1. CASE i \in 1..k
        BY <1>2, <2>4, <4>1 DEF Gathered
      <4>2. CASE i = k + 1
        BY <2>2, <4>2
      <4> QED BY <4>1, <4>2
    <3>3. Gathered(item, k + 1, p)
      BY <1>1, <2>1, <2>2, <3>1, <3>2 DEF Gathered
    <3> QED BY <2>1, <3>3
  <2> QED BY <2>2, <2>3, <2>4 DEF Collects
<1> QED BY <1>3, <1>4

\* Where the frames are.
LEMMA FramePlaces ==
    ASSUME NEW s \in Seq(Items), NEW o \in Seq(Tags), NEW eval \in BOOLEAN, Framed(s, o, eval)
    PROVE  /\ Len(s) \in Nat /\ Len(o) \in Nat
           /\ \A i \in 1..Len(s) : s[i] \in Items /\ s[i].frame \in Nat /\ s[i].frame <= Len(o)
           /\ \A i, j \in 1..Len(s) : i <= j => s[i].frame <= s[j].frame
<1>1. Len(s) \in Nat /\ Len(o) \in Nat
  BY LenProperties
<1>2. \A i \in 1..Len(s) : s[i] \in Items /\ s[i].frame \in Nat
  BY ElementOfSeq, SMTT(30) DEF Items, ItemRecords
<1>3. \A i, j \in 1..Len(s) : i <= j => s[i].frame <= s[j].frame
  BY DEF Framed, Rising
<1>4. ASSUME NEW i \in 1..Len(s) PROVE s[i].frame <= Len(o)
  <2>1. Len(s) \in 1..Len(s) /\ i <= Len(s)
    BY <1>1, <1>4
  <2>2. s[i].frame <= s[Len(s)].frame
    BY <1>3, <2>1
  <2>3. Len(o) - s[Len(s)].frame \in Nat
    BY <1>1, <2>1 DEF Framed, Gathered
  <2> QED BY <1>1, <1>2, <2>1, <2>2, <2>3
<1> QED BY <1>1, <1>2, <1>3, <1>4

\* The items under m, seen alone.
LEMMA NeighboursKept ==
    ASSUME NEW s \in Seq(Items), NEW o \in Seq(Tags), NEW eval \in BOOLEAN, Framed(s, o, eval),
           NEW m \in 1..Len(s), NEW p \in Seq(Tags), Agree(o, p, s[m].frame),
           NEW i \in 1..(m - 1), NEW upper, upper.frame = s[i + 1].frame, upper.want = s[i + 1].want
    PROVE  Awaiting(s[i], upper, p)
<1>1. /\ Len(s) \in Nat /\ i \in 1..Len(s) /\ i + 1 \in 1..Len(s) /\ i + 1 <= m
      /\ i \in 1..(Len(s) - 1) /\ m \in 1..Len(s)
  BY LenProperties
<1> DEFINE k == s[i + 1].frame - s[i].frame
<1>2. Awaiting(s[i], s[i + 1], o)
  BY <1>1 DEF Framed
<1>3. s[i] \in Items /\ s[i].frame \in Nat /\ s[i + 1].frame \in Nat
  BY <1>1, FramePlaces
<1>4. s[i].frame + k <= s[m].frame /\ s[m].frame \in Nat
  BY <1>1, <1>3, FramePlaces, SMTT(30)
<1>5. Gathered(s[i], k, o) /\ k \in Nat
  BY <1>2 DEF Awaiting, Gathered
<1>6. Gathered(s[i], k, p)
  <2> HIDE DEF k
  <2> QED BY <1>3, <1>4, <1>5, GatheredAgree, SMTT(30)
<1> QED BY <1>2, <1>6 DEF Awaiting

LEMMA RisingKept ==
    ASSUME NEW s \in Seq(Items), NEW t \in Seq(Items), NEW m \in 0..Len(s), Len(t) = m,
           \A i, j \in 1..Len(s) : i <= j => Rising(s, i, j),
           \A i \in 1..(m - 1) : t[i] = s[i],
           m # 0 => t[m].frame = s[m].frame
    PROVE  \A i, j \in 1..m : i <= j => Rising(t, i, j)
<1> TAKE i, j \in 1..m
<1> HAVE i <= j
<1>1. Len(s) \in Nat /\ i \in 1..Len(s) /\ j \in 1..Len(s) /\ m # 0
  BY LenProperties
<1>2. Rising(s, i, j)
  BY <1>1
<1>3. t[i].frame = s[i].frame /\ t[j].frame = s[j].frame
  <2>1. ASSUME NEW l \in 1..m PROVE t[l].frame = s[l].frame
    <3>1. l \in 1..(m - 1) \/ l = m
      BY <1>1
    <3> QED BY <1>1, <3>1
  <2> QED BY <2>1
<1>4. \A l \in i..(j - 1) : t[l] = s[l]
  BY <1>1
<1> QED BY <1>2, <1>3, <1>4 DEF Rising

\* The item on top of what is left changes in place and gets other operands.
LEMMA ChangeFramed ==
    ASSUME NEW s \in Seq(Items), NEW o \in Seq(Tags), NEW eval \in BOOLEAN, Framed(s, o, eval),
           NEW m \in 1..Len(s), NEW t \in Seq(Items), NEW p \in Seq(Tags),
           Len(t) = m, \A i \in 1..(m - 1) : t[i] = s[i],
           t[m].frame = s[m].frame, t[m].want = s[m].want, Shaped(t[m]),
           HasContext(s[m].kind) => HasContext(t[m].kind),
           Agree(o, p, s[m].frame), Gathered(t[m], Len(p) - s[m].frame, p)
    PROVE  Framed(t, p, eval)
<1>1. Len(s) \in Nat /\ m \in Nat /\ m # 0 /\ 1 \in 1..Len(s) /\ m \in 0..Len(s)
  BY LenProperties
<1>2. \A i \in 1..m : Shaped(t[i])
  <2> TAKE i \in 1..m
  <2>1. CASE i = m
    BY <2>1
  <2>2. CASE i \in 1..(m - 1)
    BY <1>1, <2>2 DEF Framed
  <2> QED BY <1>1, <2>1, <2>2
<1>3. \A i \in 1..(m - 1) : Awaiting(t[i], t[i + 1], p)
  <2> TAKE i \in 1..(m - 1)
  <2>1. t[i + 1].frame = s[i + 1].frame /\ t[i + 1].want = s[i + 1].want
    <3>1. CASE i + 1 = m
      BY <3>1
    <3>2. CASE i + 1 \in 1..(m - 1)
      BY <3>2
    <3> QED BY <1>1, <3>1, <3>2
  <2> QED BY <2>1, NeighboursKept
<1>4. \A i, j \in 1..m : i <= j => Rising(t, i, j)
  BY <1>1, RisingKept DEF Framed
<1>5. HasContext(t[1].kind) /\ t[1].frame = 0 /\ (t[1].want <=> eval)
  <2>1. HasContext(s[1].kind) /\ s[1].frame = 0 /\ (s[1].want <=> eval)
    BY <1>1 DEF Framed
  <2>2. CASE m = 1
    BY <2>1, <2>2
  <2>3. CASE 1 \in 1..(m - 1)
    BY <2>1, <2>3
  <2> QED BY <1>1, <2>2, <2>3
<1> QED BY <1>1, <1>2, <1>3, <1>4, <1>5 DEF Framed

\* Item m ends, with the items above it, and delivers its result.
LEMMA DeliverFramed ==
    ASSUME NEW s \in Seq(Items), NEW o \in Seq(Tags), NEW eval \in BOOLEAN, Framed(s, o, eval),
           NEW m \in 1..Len(s), NEW t \in Seq(Items), NEW p \in Seq(Tags),
           Len(t) = m - 1, \A i \in 1..(m - 1) : t[i] = s[i],
           Len(p) = s[m].frame + Len(Result(s[m].want)),
           \A i \in 1..s[m].frame : p[i] = o[i],
           s[m].want => p[s[m].frame + 1] = "object"
    PROVE  Framed(t, p, eval)
<1>1. /\ Len(s) \in Nat /\ m \in Nat /\ m # 0 /\ 1 \in 1..Len(s) /\ Len(p) \in Nat /\ Len(o) \in Nat
      /\ s[m].frame \in Nat /\ s[m].frame <= Len(o) /\ s[m] \in Items
  BY LenProperties, FramePlaces
<1>2. Len(Result(s[m].want)) = IF s[m].want THEN 1 ELSE 0
  BY DEF Result
<1>3. Agree(o, p, s[m].frame)
  BY <1>1, <1>2 DEF Agree
<1>4. CASE m = 1
  <2>1. s[m].frame = 0 /\ (s[m].want <=> eval)
    BY <1>1, <1>4 DEF Framed
  <2>2. Len(t) = 0 /\ Len(p) = IF eval THEN 1 ELSE 0
    BY <1>2, <1>4, <2>1
  <2> QED BY <2>2 DEF Framed
<1>5. CASE m # 1
  <2> DEFINE n == m - 1
             k == s[m].frame - s[n].frame
  <2>1. n \in 1..Len(s) /\ n \in 1..(m - 1) /\ n + 1 = m /\ n \in 1..(Len(s) - 1)
    BY <1>1, <1>5, SMTT(30)
  <2>2. Awaiting(s[n], s[n + 1], o)
    BY <2>1 DEF Framed
  <2>3. /\ Gathered(s[n], k, o) /\ Wants(s[n], k) /\ (s[m].want <=> ~Executes(s[n]))
        /\ s[n] \in Items /\ s[n].frame \in Nat /\ k \in Nat
    BY <2>1, <2>2, FramePlaces, ZenonT(30) DEF Awaiting, Gathered
  <2>4. s[n].frame + k = s[m].frame
    BY <1>1, <2>3, SMTT(30)
  <2>5. Gathered(s[n], Len(p) - s[n].frame, p)
    <3>1. s[m].want \in BOOLEAN
      BY <1>1 DEF Items, ItemRecords
    <3> HIDE DEF k, n
    <3> QED BY <1>2, <1>3, <2>3, <2>4, <3>1, GatherMore
  <2>6. Shaped(s[n])
    BY <2>1 DEF Framed
  <2>7. Agree(o, p, s[n].frame)
    <3>1. s[n].frame <= s[m].frame
      BY <1>1, <2>3, <2>4, SMTT(30)
    <3>2. s[n].frame \in Nat
      BY <2>3
    <3> HIDE DEF n
    <3> QED BY <1>1, <1>3, <3>1, <3>2, SMTT(60) DEF Agree
  <2>8. Len(t) = n /\ \A i \in 1..(n - 1) : t[i] = s[i]
    BY <1>1
  <2>9. t[n] = s[n]
    BY <2>1
  <2> HIDE DEF n
  <2> QED BY <2>1, <2>5, <2>6, <2>7, <2>8, <2>9, ChangeFramed, ZenonT(30)
<1> QED BY <1>4, <1>5

\* An item is opened on an item that waits for it.
LEMMA PushFramed ==
    ASSUME NEW s \in Seq(Items), NEW o \in Seq(Tags), NEW eval \in BOOLEAN, Framed(s, o, eval),
           Len(s) # 0, Wants(s[Len(s)], Len(o) - s[Len(s)].frame),
           NEW item \in Items, Shaped(item), item.frame = Len(o),
           item.want <=> ~Executes(s[Len(s)]),
           NEW p \in Seq(Tags), Agree(o, p, Len(o)), Gathered(item, Len(p) - Len(o), p)
    PROVE  Framed(Append(s, item), p, eval)
<1> DEFINE t == Append(s, item)
           n == Len(s)
<1>1. /\ n \in Nat /\ t \in Seq(Items) /\ Len(t) = n + 1
      /\ t[n + 1] = item /\ \A i \in 1..n : t[i] = s[i]
  BY LenProperties, AppendProperties
<1>2. n \in 1..n /\ 1 \in 1..n /\ Len(o) \in Nat /\ Len(p) \in Nat
  BY <1>1, LenProperties
<1>3. \A i \in 1..n : s[i] \in Items /\ s[i].frame \in Nat /\ s[i].frame <= Len(o)
  BY FramePlaces
<1> HIDE DEF t
<1>4. \A i \in 1..Len(t) : Shaped(t[i])
  <2>1. \A i \in 1..n : Shaped(s[i])
    BY DEF Framed
  <2> QED BY <1>1, <2>1, SMTT(60)
<1>5. \A i \in 1..n : Awaiting(t[i], t[i + 1], p)
  <2> TAKE i \in 1..n
  <2>1. CASE i = n
    <3> DEFINE k == Len(o) - s[n].frame
    <3>1. Gathered(s[n], k, o) /\ k \in Nat
      BY DEF Framed, Gathered
    <3>2. s[n].frame + k = Len(o)
      BY <1>2, <1>3, SMTT(30)
    <3>3. Gathered(s[n], k, p)
      <4> HIDE DEF k
      <4> QED BY <1>2, <1>3, <3>1, <3>2, GatheredAgree
    <3> QED BY <1>1, <1>2, <2>1, <3>3 DEF Awaiting
  <2>2. CASE i \in 1..(n - 1)
    <3>1. t[i] = s[i] /\ t[i + 1] = s[i + 1]
      BY <1>1, <2>2, SMTT(60)
    <3>2. Agree(o, p, s[n].frame)
      BY <1>2, <1>3 DEF Agree
    <3> QED BY <1>2, <2>2, <3>1, <3>2, NeighboursKept
  <2> QED BY <1>1, <2>1, <2>2
<1>6. \A i, j \in 1..(n + 1) : i <= j => Rising(t, i, j)
  <2> TAKE i, j \in 1..(n + 1)
  <2> HAVE i <= j
  <2>1. CASE j \in 1..n
    <3>1. i \in 1..n /\ j \in 1..n /\ \A l \in i..(j - 1) : l \in 1..n
      BY <1>1, <2>1
    <3>2. Rising(s, i, j)
      BY <3>1 DEF Framed
    <3>3. t[i] = s[i] /\ t[j] = s[j]
      BY <1>1, <3>1
    <3>4. \A l \in i..(j - 1) : t[l] = s[l]
      BY <1>1, <3>1
    <3> QED BY <3>2, <3>3, <3>4 DEF Rising
  <2>2. CASE i = n + 1
    <3>1. j = n + 1
      BY <1>1, <2>2
    <3> QED BY <1>1, <1>2, <2>2, <3>1 DEF Rising
  <2>3. CASE i \in 1..n /\ j = n + 1
    <3>1. t[i] = s[i] /\ t[j].frame = Len(o)
      BY <1>1, <2>3
    <3>2. s[i].frame <= Len(o)
      BY <1>3, <2>3
    <3>3. ASSUME \A l \in i..(j - 1) : Executes(t[l]) PROVE s[i].frame = Len(o)
      <4>1. Rising(s, i, n) /\ \A l \in i..(n - 1) : Executes(s[l])
        <5>1. \A l \in i..(n - 1) : l \in i..(j - 1) /\ t[l] = s[l]
          BY <1>1, <2>3
        <5> QED BY <1>2, <2>3, <3>3, <5>1 DEF Framed
      <4>2. Executes(s[n])
        <5>1. n \in i..(j - 1) /\ t[n] = s[n]
          BY <1>1, <1>2, <2>3
        <5> QED BY <3>3, <5>1
      <4>3. Len(o) - s[n].frame = 0
        BY <4>2 DEF Framed, Gathered
      <4> QED BY <1>2, <1>3, <4>1, <4>3 DEF Rising
    <3> QED BY <3>1, <3>2, <3>3 DEF Rising
  <2> QED BY <1>1, <2>1, <2>2, <2>3
<1>7. HasContext(t[1].kind) /\ t[1].frame = 0 /\ (t[1].want <=> eval)
  BY <1>1, <1>2 DEF Framed
<1> QED BY <1>1, <1>4, <1>5, <1>6, <1>7, SMTT(30) DEF Framed, t

\* The item that starts a run.
LEMMA StartFramed ==
    ASSUME NEW item \in Items, NEW eval \in BOOLEAN, HasContext(item.kind), Shaped(item),
           item.frame = 0, item.want <=> eval
    PROVE  Framed(Append(<<>>, item), <<>>, eval)
<1> DEFINE t == Append(<<>>, item)
<1>1. Len(t) = 1 /\ t[1] = item
  OBVIOUS
<1>2. Gathered(item, 0, <<>>)
  BY DEF Gathered, Executes, Collects, IsPackage, HasContext
<1>3. \A i, j \in 1..1 : Rising(t, i, j)
  <2>1. \A i, j \in 1..1 : i = 1 /\ j = 1
    OBVIOUS
  <2>2. Rising(t, 1, 1)
    BY <1>1 DEF Rising
  <2> QED BY <2>1, <2>2
<1>4. Len(<<>>) - 0 = 0
  OBVIOUS
<1> HIDE DEF t
<1> QED BY <1>1, <1>2, <1>3, <1>4 DEF Framed, t
-------------------------------------------------------------------------------
\* No pc is behind the end of its block.
Live(b) == \A k \in 1..Len(b) : b[k].pc <= b[k].limit

Sound ==
    /\ Live(blk) /\ status # "ensure"
    /\ status = "idle" => ops = <<>>
    /\ Running => Framed(stack, ops, status = "eval")

\* The inductive invariant.
FInv == NInv /\ Sound

LEMMA LivePrefix ==
    ASSUME NEW b \in Seq(Blocks), Live(b), NEW n \in Int, n <= Len(b)
    PROVE  Live(SubSeq(b, 1, n)) /\ Len(SubSeq(b, 1, n)) <= Len(b)
<1>1. Len(b) \in Nat
  BY LenProperties
<1>2. /\ Len(SubSeq(b, 1, n)) = IF n >= 0 THEN n ELSE 0
      /\ \A i \in 1..n : SubSeq(b, 1, n)[i] = b[i]
  BY PrefixType
<1> QED BY <1>1, <1>2 DEF Live

LEMMA LiveAppend ==
    ASSUME NEW b \in Seq(Blocks), Live(b), NEW pc \in Nat, NEW limit \in Nat, pc <= limit
    PROVE  /\ Live(Append(b, Block(pc, limit))) /\ Len(Append(b, Block(pc, limit))) = Len(b) + 1
           /\ Append(b, Block(pc, limit)) \in Seq(Blocks)
<1>1. Block(pc, limit) \in Blocks /\ Len(b) \in Nat
  BY LenProperties DEF Block, Blocks
<1> DEFINE c == Append(b, Block(pc, limit))
<1>2. /\ c \in Seq(Blocks) /\ Len(c) = Len(b) + 1 /\ c[Len(b) + 1] = Block(pc, limit)
      /\ \A i \in 1..Len(b) : c[i] = b[i]
  BY <1>1, AppendProperties
<1> HIDE DEF c
<1>3. Live(c)
  BY <1>1, <1>2 DEF Live, Block
<1> QED BY <1>2, <1>3 DEF c

LEMMA LiveCommit ==
    ASSUME TypeOK, Processing, Live(blk), NEW pc \in Nat, pc <= Here.limit
    PROVE  Live(Commit(pc)) /\ Len(Commit(pc)) = Len(blk)
<1>1. /\ Commit(pc) \in Seq(Blocks) /\ Len(Commit(pc)) = Len(blk)
      /\ \A k \in 1..(Len(blk) - 1) : Commit(pc)[k] = blk[k]
      /\ Commit(pc)[Len(blk)] = Block(pc, Here.limit) /\ Len(blk) \in 1..Len(blk)
  BY CommitShape
<1> QED BY <1>1 DEF Live, Block

\* A push finds room in an array that was reserved.
Room(arrays, c, b, s, o) ==
    /\ Len(c) <= Len(ctx) + (IF "ctx" \in arrays THEN 1 ELSE 0)
    /\ Len(b) <= Len(blk) + (IF "blk" \in arrays THEN 1 ELSE 0)
    /\ Len(s) <= Len(stack) + (IF "stack" \in arrays THEN 1 ELSE 0)
    /\ Len(o) <= Len(ops) + (IF "ops" \in arrays THEN 1 ELSE 0)

LEMMA PutSucceeds ==
    ASSUME TypeOK, NEW arrays, NEW c \in Seq(BOOLEAN), NEW b \in Seq(Blocks),
           NEW s \in Seq(Items), NEW o \in Seq(Tags), Put(arrays, c, b, s, o), Room(arrays, c, b, s, o)
    PROVE  ctx' = c /\ blk' = b /\ stack' = s /\ ops' = o /\ status' = status
<1> DEFINE room == Reserve(arrays)
<1>1. /\ Len(c) \in Nat /\ Len(b) \in Nat /\ Len(s) \in Nat /\ Len(o) \in Nat
      /\ Len(ctx) \in Nat /\ Len(blk) \in Nat /\ Len(stack) \in Nat /\ Len(ops) \in Nat
  BY LenProperties, ArrayTypes
<1>2. /\ room["ctx"] \in Nat /\ room["blk"] \in Nat /\ room["stack"] \in Nat /\ room["ops"] \in Nat
      /\ Len(ctx) <= room["ctx"] /\ ("ctx" \in arrays => Len(ctx) + 1 <= room["ctx"])
      /\ Len(blk) <= room["blk"] /\ ("blk" \in arrays => Len(blk) + 1 <= room["blk"])
      /\ Len(stack) <= room["stack"] /\ ("stack" \in arrays => Len(stack) + 1 <= room["stack"])
      /\ Len(ops) <= room["ops"] /\ ("ops" \in arrays => Len(ops) + 1 <= room["ops"])
  BY ArrayTypes, ReserveMakesRoom DEF Arrays
<1> HIDE DEF room
<1>3. Len(c) <= room["ctx"]
  BY <1>1, <1>2, SMTT(30) DEF Room
<1>4. Len(b) <= room["blk"]
  BY <1>1, <1>2, SMTT(30) DEF Room
<1>5. Len(s) <= room["stack"]
  BY <1>1, <1>2, SMTT(30) DEF Room
<1>6. Len(o) <= room["ops"]
  BY <1>1, <1>2 DEF Room
<1> QED BY <1>3, <1>4, <1>5, <1>6 DEF Put, room

LEMMA PutSound ==
    ASSUME FInv, Processing, NEW arrays, NEW c \in Seq(BOOLEAN), NEW b \in Seq(Blocks),
           NEW s \in Seq(Items), NEW o \in Seq(Tags), Put(arrays, c, b, s, o), Room(arrays, c, b, s, o),
           Live(b), Framed(s, o, status = "eval")
    PROVE  Sound'
<1>1. ctx' = c /\ blk' = b /\ stack' = s /\ ops' = o /\ status' = status
  BY PutSucceeds DEF FInv, NInv, IInv
<1>2. status # "idle" /\ status # "ensure"
  BY DEF Processing, Running
<1>3. Live(blk')
  BY <1>1
<1>4. Framed(stack', ops', status' = "eval")
  BY <1>1
<1> QED BY <1>1, <1>2, <1>3, <1>4 DEF Sound

\* The item on top and its operands.
LEMMA TopFacts ==
    ASSUME FInv, Processing
    PROVE  /\ TypeOK /\ ctx \in Seq(BOOLEAN) /\ blk \in Seq(Blocks) /\ stack \in Seq(Items)
           /\ ops \in Seq(Tags) /\ Len(ctx) \in Nat /\ Len(blk) \in Nat /\ Len(ops) \in Nat
           /\ Len(stack) \in Nat /\ Len(stack) \in 1..Len(stack) /\ Top = stack[Len(stack)]
           /\ Top \in Items /\ Top.frame \in Nat /\ Top.want \in BOOLEAN /\ Len(Top.args) \in Nat
           /\ K \in Nat /\ Top.frame + K = Len(ops)
           /\ Gathered(Top, K, ops) /\ Shaped(Top) /\ (status = "eval") \in BOOLEAN
           /\ Framed(stack, ops, status = "eval") /\ Live(blk)
<1>1. /\ TypeOK /\ ctx \in Seq(BOOLEAN) /\ blk \in Seq(Blocks) /\ stack \in Seq(Items) /\ ops \in Seq(Tags)
      /\ Live(blk) /\ Framed(stack, ops, status = "eval")
  BY DEF FInv, Sound, NInv, IInv, TypeOK, Processing
<1>2. /\ Len(ctx) \in Nat /\ Len(blk) \in Nat /\ Len(ops) \in Nat /\ Len(stack) \in Nat
      /\ Len(stack) \in 1..Len(stack) /\ Top = stack[Len(stack)] /\ Top \in Items
  BY <1>1, ProcessingTypes, ArrayTypes DEF Top
<1>3. Top.frame \in Nat /\ Top.want \in BOOLEAN /\ Len(Top.args) \in Nat
  BY <1>2, LenProperties DEF Items, ItemRecords
<1>4. Gathered(Top, K, ops) /\ Shaped(Top)
  BY <1>1, <1>2 DEF Framed, K
<1>5. K \in Nat /\ Top.frame + K = Len(ops)
  BY <1>2, <1>3, <1>4 DEF Gathered, K
<1> QED BY <1>1, <1>2, <1>3, <1>4, <1>5

\* Operands p are those of o up to the frame of item, and the result of item.
Delivers(p, o, item) ==
    /\ Len(p) = item.frame + Len(Result(item.want))
    /\ \A i \in 1..item.frame : p[i] = o[i]
    /\ item.want => p[item.frame + 1] = "object"

LEMMA EndSound ==
    ASSUME FInv, Processing, NEW m \in 1..Len(stack), NEW arrays, NEW c \in Seq(BOOLEAN),
           NEW b \in Seq(Blocks), NEW t \in Seq(Items), NEW p \in Seq(Tags), Put(arrays, c, b, t, p),
           Len(c) <= Len(ctx), Len(b) <= Len(blk), Live(b),
           Len(t) = m - 1, \A i \in 1..(m - 1) : t[i] = stack[i],
           Delivers(p, ops, stack[m]), Len(p) <= Len(ops) + (IF "ops" \in arrays THEN 1 ELSE 0)
    PROVE  Sound'
<1>1. Framed(t, p, status = "eval")
  BY TopFacts, DeliverFramed, ZenonT(30) DEF Delivers
<1>2. Len(t) <= Len(stack) /\ Len(t) \in Nat /\ Len(c) \in Nat /\ Len(b) \in Nat
  BY LenProperties, TopFacts
<1>3. Room(arrays, c, b, t, p)
  BY <1>2, TopFacts, SMTT(60) DEF Room
<1> QED BY <1>1, <1>3, PutSound

\* The operands below the item on top, with a result.
LEMMA BelowDelivers ==
    ASSUME FInv, Processing
    PROVE  /\ Below \o Result(Top.want) \in Seq(Tags)
           /\ Delivers(Below \o Result(Top.want), ops, Top)
           /\ Below \in Seq(Tags) /\ Len(Below) = Top.frame /\ \A i \in 1..Top.frame : Below[i] = ops[i]
           /\ Len(Below \o Result(Top.want)) <= Top.frame + 1
<1> DEFINE r == Result(Top.want)
<1>1. Below \in Seq(Tags) /\ Len(Below) = Top.frame /\ \A i \in 1..Top.frame : Below[i] = ops[i]
  <2>1. Top.frame \in Int /\ Top.frame <= Len(ops) /\ Top.frame >= 0
    BY TopFacts
  <2> QED BY <2>1, TopFacts, PrefixType, SMTT(30) DEF Below
<1>2. r \in Seq(Tags) /\ Len(r) \in Nat /\ Len(r) <= 1 /\ (Top.want => Len(r) = 1 /\ r[1] = "object")
  <2>1. CASE Top.want
    <3>1. r = <<"object">>
      BY <2>1 DEF Result
    <3> QED BY <3>1 DEF Tags
  <2>2. CASE ~Top.want
    <3>1. r = <<>>
      BY <2>2 DEF Result
    <3> QED BY <2>2, <3>1
  <2> QED BY <2>1, <2>2
<1>0. r = Result(Top.want)
  OBVIOUS
<1> HIDE DEF r
<1>3. /\ Below \o r \in Seq(Tags) /\ Len(Below \o r) = Top.frame + Len(r)
      /\ \A i \in 1..Top.frame : (Below \o r)[i] = Below[i]
      /\ Top.want => (Below \o r)[Top.frame + 1] = r[1]
  <2>1. /\ Below \o r \in Seq(Tags) /\ Len(Below \o r) = Len(Below) + Len(r)
        /\ \A i \in 1..(Len(Below) + Len(r)) :
             (Below \o r)[i] = IF i <= Len(Below) THEN Below[i] ELSE r[i - Len(Below)]
    BY <1>1, <1>2, ConcatProperties
  <2>2. Top.frame \in Nat /\ Len(r) \in Nat
    BY <1>2, TopFacts
  <2>3. \A i \in 1..Top.frame : (Below \o r)[i] = Below[i]
    BY <1>1, <2>1, <2>2
  <2>4. ASSUME Top.want PROVE (Below \o r)[Top.frame + 1] = r[1]
    <3>1. Len(r) = 1 /\ (Top.frame + 1) - Top.frame = 1
      BY <1>2, <2>2, <2>4
    <3> QED BY <1>1, <2>1, <2>2, <3>1
  <2> QED BY <1>1, <2>1, <2>3, <2>4
<1>4. Delivers(Below \o r, ops, Top)
  <2>1. Len(Below \o r) = Top.frame + Len(Result(Top.want))
    BY <1>0, <1>3
  <2>2. \A i \in 1..Top.frame : (Below \o r)[i] = ops[i]
    BY <1>1, <1>3
  <2>3. Top.want => (Below \o r)[Top.frame + 1] = "object"
    BY <1>2, <1>3
  <2> QED BY <2>1, <2>2, <2>3 DEF Delivers
<1>5. Len(Below \o r) <= Top.frame + 1
  <2> DEFINE q == Below \o r
  <2>1. Len(q) = Top.frame + Len(r) /\ Top.frame \in Nat
    BY <1>3, TopFacts
  <2> HIDE DEF q
  <2>2. Len(q) <= Top.frame + 1
    BY <1>2, <2>1
  <2> QED BY <2>2 DEF q
<1> QED BY <1>0, <1>1, <1>3, <1>4, <1>5

LEMMA Popped ==
    ASSUME FInv, Processing
    PROVE  /\ Front(stack) \in Seq(Items) /\ Len(Front(stack)) = Len(stack) - 1
           /\ \A i \in 1..(Len(stack) - 1) : Front(stack)[i] = stack[i]
           /\ Front(ctx) \in Seq(BOOLEAN) /\ Len(Front(ctx)) <= Len(ctx)
           /\ Front(blk) \in Seq(Blocks) /\ Len(Front(blk)) <= Len(blk) /\ Live(Front(blk))
<1>1. /\ stack \in Seq(Items) /\ stack # <<>> /\ ctx \in Seq(BOOLEAN) /\ ctx # <<>>
      /\ blk \in Seq(Blocks) /\ blk # <<>> /\ Len(ctx) \in Nat /\ Len(blk) \in Nat /\ Live(blk)
  BY TopFacts, ProcessingTypes
<1>2. /\ Front(stack) \in Seq(Items) /\ Len(Front(stack)) = Len(stack) - 1
      /\ \A i \in 1..(Len(stack) - 1) : Front(stack)[i] = stack[i]
  BY <1>1, FrontType
<1>3. Front(ctx) \in Seq(BOOLEAN) /\ Len(Front(ctx)) = Len(ctx) - 1
  BY <1>1, FrontType
<1>4. /\ Front(blk) \in Seq(Blocks) /\ Len(Front(blk)) = Len(blk) - 1
      /\ \A i \in 1..(Len(blk) - 1) : Front(blk)[i] = blk[i]
  BY <1>1, FrontType
<1> QED BY <1>1, <1>2, <1>3, <1>4 DEF Live

\* The item on top ends.
LEMMA TopEndSound ==
    ASSUME FInv, Processing, NEW arrays, NEW c \in {ctx, Front(ctx)}, NEW b \in {blk, Front(blk)},
           NEW p \in Seq(Tags), Put(arrays, c, b, Front(stack), p), Delivers(p, ops, Top),
           Len(p) <= Len(ops) + (IF "ops" \in arrays THEN 1 ELSE 0)
    PROVE  Sound'
<1>1. /\ c \in Seq(BOOLEAN) /\ Len(c) <= Len(ctx) /\ b \in Seq(Blocks) /\ Len(b) <= Len(blk)
      /\ Live(b)
  BY TopFacts, Popped, SMTT(30)
<1>2. Len(stack) \in 1..Len(stack) /\ Top = stack[Len(stack)]
  BY TopFacts
<1> QED BY <1>1, <1>2, Popped, EndSound

\* The operands without the one on top.
LEMMA FrontOps ==
    ASSUME FInv, Processing, K # 0
    PROVE  /\ Front(ops) \in Seq(Tags) /\ Len(Front(ops)) = Len(ops) - 1
           /\ \A i \in 1..(Len(ops) - 1) : Front(ops)[i] = ops[i]
           /\ Top.frame <= Len(ops) - 1 /\ Len(ops) - 1 \in Nat
<1>1. Len(ops) \in Nat \ {0} /\ ops \in Seq(Tags) /\ Top.frame <= Len(ops) - 1
  BY TopFacts
<1>2. ops # <<>>
  BY <1>1
<1> QED BY <1>1, <1>2, FrontType

\* The operands that the item on top found are all that it leaves.
LEMMA NoneDelivers ==
    ASSUME FInv, Processing, ~Top.want, NEW p \in Seq(Tags), Len(p) = Top.frame,
           \A i \in 1..Top.frame : p[i] = ops[i]
    PROVE  Delivers(p, ops, Top)
<1>1. Len(Result(Top.want)) = 0
  BY DEF Result
<1> QED BY <1>1, TopFacts DEF Delivers

LEMMA FinishOperatorSound == ASSUME FInv, FinishOperator PROVE Sound'
<1>1. Processing /\ Complete /\ Top.kind \in {"OP", "BUFFER"}
  BY DEF FinishOperator
<1> DEFINE p == Below \o Result(Top.want)
           arrays == IF Top.kind = "OP" THEN {"ops"} ELSE {}
           b == IF Top.kind = "BUFFER" THEN Front(blk) ELSE blk
<1>2. Put(arrays, ctx, b, Front(stack), p)
  BY DEF FinishOperator
<1>3. p \in Seq(Tags) /\ Delivers(p, ops, Top) /\ Len(p) <= Top.frame + 1 /\ Len(p) \in Nat
  BY <1>1, BelowDelivers, LenProperties
<1>4. b \in {blk, Front(blk)}
  OBVIOUS
<1>5. Top.kind = "BUFFER" => K = 1
  BY <1>1, TopFacts DEF Shaped, Complete
<1>6. Top.kind = "OP" => "ops" \in arrays
  OBVIOUS
<1> HIDE DEF p, b, arrays
<1>7. Len(p) <= Len(ops) + (IF "ops" \in arrays THEN 1 ELSE 0)
  BY <1>1, <1>3, <1>5, <1>6, TopFacts, SMTT(30)
<1> QED BY <1>1, <1>2, <1>3, <1>4, <1>7, TopEndSound

LEMMA FinishNodeSound == ASSUME FInv, FinishNode PROVE Sound'
<1>1. Processing /\ Complete /\ Top.kind = "NODE" /\ ~Top.want
  BY TopFacts DEF FinishNode, Shaped
<1>2. Put({}, ctx, blk, Front(stack), Below)
  BY <1>1 DEF FinishNode
<1>3. Below \in Seq(Tags) /\ Len(Below) = Top.frame /\ \A i \in 1..Top.frame : Below[i] = ops[i]
  BY <1>1, BelowDelivers
<1>4. Delivers(Below, ops, Top)
  BY <1>1, <1>3, NoneDelivers
<1>5. Len(Below) <= Len(ops) + (IF "ops" \in {} THEN 1 ELSE 0)
  BY <1>1, <1>3, TopFacts
<1> QED BY <1>1, <1>2, <1>3, <1>4, <1>5, TopEndSound

LEMMA InvokeOverrideSound == ASSUME FInv, InvokeOverride PROVE Sound'
<1>1. Processing /\ Complete /\ Top.kind = "INVOKE"
  BY DEF InvokeOverride
<1> DEFINE p == Below \o Result(Top.want)
<1>2. Put({"ctx", "blk"}, ctx, blk, Front(stack), p)
  BY DEF InvokeOverride
<1>3. p \in Seq(Tags) /\ Delivers(p, ops, Top) /\ Len(p) <= Top.frame + 1 /\ Len(p) \in Nat
  BY <1>1, BelowDelivers, LenProperties
<1>4. K # 0
  BY <1>1, TopFacts DEF Shaped, Complete
<1> HIDE DEF p
<1>5. Len(p) <= Len(ops) + (IF "ops" \in {"ctx", "blk"} THEN 1 ELSE 0)
  BY <1>1, <1>3, <1>4, TopFacts, SMTT(30)
<1> QED BY <1>1, <1>2, <1>3, <1>5, TopEndSound

\* lai_panic() leaves everything as it is.
LEMMA PanicSound ==
    ASSUME FInv, Running, NEW why \in {"pending", "malformed"}, Panic(why) PROVE Sound'
  BY DEF FInv, Sound, Panic, Running

LEMMA MethodEndsSound == ASSUME FInv, MethodEnds PROVE Sound'
<1>1. Processing /\ Top.kind = "METHOD"
  BY DEF MethodEnds
<1>2. CASE Panic("pending")
  BY <1>1, <1>2, PanicSound DEF Processing
<1>3. CASE ops = <<>> /\ Put({"ops"}, Front(ctx), Front(blk), Front(stack), Result(Top.want))
  <2>1. Len(ops) = 0
    BY <1>3
  <2>2. Top.frame = 0
    BY <1>1, <2>1, TopFacts
  <2> DEFINE p == Result(Top.want)
  <2>3. p \in Seq(Tags) /\ Len(p) \in Nat /\ Len(p) <= 1 /\ (Top.want => p[1] = "object")
    <3>1. CASE Top.want
      <4>1. p = <<"object">>
        BY <3>1 DEF Result
      <4> QED BY <4>1 DEF Tags
    <3>2. CASE ~Top.want
      <4>1. p = <<>>
        BY <3>2 DEF Result
      <4> QED BY <3>2, <4>1
    <3> QED BY <3>1, <3>2
  <2>4. Put({"ops"}, Front(ctx), Front(blk), Front(stack), p) /\ p = Result(Top.want)
    BY <1>3
  <2> HIDE DEF p
  <2>5. Delivers(p, ops, Top)
    BY <2>2, <2>3, <2>4 DEF Delivers
  <2>6. Len(p) <= Len(ops) + (IF "ops" \in {"ops"} THEN 1 ELSE 0)
    BY <2>1, <2>3
  <2> QED BY <1>1, <2>3, <2>4, <2>5, <2>6, TopEndSound
<1> QED BY <1>2, <1>3 DEF MethodEnds

LEMMA BlockEndsSound == ASSUME FInv, BlockEnds PROVE Sound'
<1>1. Processing /\ Executes(Top)
  BY DEF BlockEnds, Executes, HasContext
<1>2. ~Top.want
  BY <1>1, TopFacts DEF BlockEnds, Shaped
<1>3. K = 0 /\ Len(ops) = Top.frame /\ ops \in Seq(Tags)
  BY <1>1, TopFacts DEF Gathered
<1>4. Delivers(ops, ops, Top)
  BY <1>1, <1>2, <1>3, NoneDelivers
<1> DEFINE c == IF Top.kind = "POPULATE" THEN Front(ctx) ELSE ctx
<1>5. Put({}, c, Front(blk), Front(stack), ops) /\ c \in {ctx, Front(ctx)}
  BY DEF BlockEnds
<1>6. Len(ops) <= Len(ops) + (IF "ops" \in {} THEN 1 ELSE 0)
  BY <1>1, TopFacts
<1> HIDE DEF c
<1> QED BY <1>1, <1>3, <1>4, <1>5, <1>6, TopEndSound

LEMMA PredicateFailsSound == ASSUME FInv, PredicateFails PROVE Sound'
<1>1. Processing /\ Complete /\ Top.kind \in {"LOOP", "COND"}
  BY DEF PredicateFails
<1>2. ~Top.want /\ K = 1
  BY <1>1, TopFacts DEF Shaped, Complete
<1> DEFINE p == Front(ops)
<1>3. p \in Seq(Tags) /\ Len(p) = Top.frame /\ Len(p) <= Len(ops) /\ \A i \in 1..Top.frame : p[i] = ops[i]
  BY <1>1, <1>2, FrontOps, TopFacts
<1>4. Put({}, ctx, Front(blk), Front(stack), p)
  BY DEF PredicateFails
<1> HIDE DEF p
<1>5. Delivers(p, ops, Top)
  BY <1>1, <1>2, <1>3, NoneDelivers
<1>6. Len(p) <= Len(ops) + (IF "ops" \in {} THEN 1 ELSE 0)
  BY <1>1, <1>3, TopFacts
<1> QED BY <1>1, <1>3, <1>4, <1>5, <1>6, TopEndSound

\* A package in phase 2 has stored the initializer that was on top.
LEMMA SettledFacts ==
    ASSUME FInv, Processing
    PROVE  /\ Settled \in Seq(Tags) /\ Len(Settled) \in Nat /\ Len(Settled) <= Len(ops)
           /\ Agree(ops, Settled, Len(Settled)) /\ Top.frame <= Len(Settled)
           /\ IsPackage(Top) /\ Top.phase = 2 =>
                Len(Settled) = Top.frame + 1 /\ Settled[Top.frame + 1] = "object"
           /\ ~(IsPackage(Top) /\ Top.phase = 2) => Settled = ops
           /\ Gathered(Top, Len(Settled) - Top.frame, Settled)
           /\ Framed(stack, Settled, status = "eval")
<1>1. CASE ~(IsPackage(Top) /\ Top.phase = 2)
  <2>1. Settled = ops
    BY <1>1 DEF Settled
  <2>2. Len(ops) - Top.frame = K
    BY TopFacts
  <2> QED BY <1>1, <2>1, <2>2, TopFacts, SMTT(30) DEF Agree
<1>2. CASE IsPackage(Top) /\ Top.phase = 2
  <2>1. K \in 1..2 /\ \A i \in 1..K : ops[Top.frame + i] = "object"
    BY <1>2, TopFacts DEF Gathered
  <2> DEFINE p == Settled
  <2>2. /\ p \in Seq(Tags) /\ Len(p) = Top.frame + 1 /\ Len(p) <= Len(ops)
        /\ \A i \in 1..(Top.frame + 1) : p[i] = ops[i]
    <3>1. CASE K = 2
      <4>1. Len(ops) - 1 = Top.frame + 1 /\ p = Front(ops)
        BY <1>2, <3>1, TopFacts, SMTT(30) DEF Settled
      <4> QED BY <3>1, <4>1, FrontOps, TopFacts, SMTT(30)
    <3>2. CASE K = 1
      <4>1. p = ops
        BY <3>2 DEF Settled
      <4> QED BY <3>2, <4>1, TopFacts
    <3> QED BY <2>1, <3>1, <3>2
  <2>3. p[Top.frame + 1] = "object"
    <3>1. 1 \in 1..K /\ Top.frame + 1 \in 1..(Top.frame + 1)
      BY <2>1, TopFacts
    <3> QED BY <2>1, <2>2, <3>1
  <2>4. Agree(ops, p, Len(p)) /\ Agree(ops, p, Top.frame) /\ Len(p) \in Nat /\ Top.frame <= Len(p)
    BY <2>2, TopFacts, SMTT(30) DEF Agree
  <2>5. Len(p) - Top.frame = 1
    BY <2>2, TopFacts, SMTT(30)
  <2>0. p = Settled
    OBVIOUS
  <2> HIDE DEF p
  <2>6. Gathered(Top, 1, p)
    <3>1. ~Executes(Top) /\ ~Collects(Top)
      BY <1>2 DEF Executes, Collects, IsPackage, HasContext
    <3> QED BY <1>2, <2>2, <2>3, <2>4, <3>1, TopFacts DEF Gathered
  <2>7. Framed(stack, p, status = "eval")
    BY <2>2, <2>4, <2>5, <2>6, TopFacts, ChangeFramed, ZenonT(30)
  <2> QED BY <1>2, <2>0, <2>2, <2>3, <2>4, <2>5, <2>6, <2>7
<1> QED BY <1>1, <1>2

LEMMA PackageEndsSound == ASSUME FInv, PackageEnds PROVE Sound'
<1>1. Processing /\ IsPackage(Top) /\ Top.phase = 2
  BY DEF PackageEnds
<1> DEFINE q == Settled
           p == IF Top.want THEN q ELSE Front(q)
<1>2. Put({}, ctx, Front(blk), Front(stack), p)
  BY DEF PackageEnds
<1>3. /\ q \in Seq(Tags) /\ Len(q) = Top.frame + 1 /\ q[Top.frame + 1] = "object"
      /\ Len(q) <= Len(ops) /\ \A i \in 1..Top.frame : q[i] = ops[i]
  BY <1>1, SettledFacts, TopFacts, SMTT(30) DEF Agree
<1> HIDE DEF q
<1>4. p \in Seq(Tags) /\ Delivers(p, ops, Top) /\ Len(p) <= Len(ops)
  <2>1. CASE Top.want
    <3>1. Len(Result(Top.want)) = 1
      BY <2>1 DEF Result
    <3> QED BY <1>3, <2>1, <3>1 DEF Delivers
  <2>2. CASE ~Top.want
    <3>1. Top.frame \in Nat /\ Len(q) # 0
      BY <1>1, <1>3, TopFacts
    <3>2. q # <<>> /\ p = Front(q)
      BY <2>2, <3>1
    <3> HIDE DEF p
    <3>3. p \in Seq(Tags) /\ Len(p) = Len(q) - 1 /\ \A i \in 1..(Len(q) - 1) : p[i] = q[i]
      BY <1>3, <3>2, FrontType
    <3>4. Len(p) = Top.frame /\ (\A i \in 1..Top.frame : p[i] = ops[i]) /\ Len(p) <= Len(ops)
      BY <1>1, <1>3, <3>1, <3>3, TopFacts, SMTT(60)
    <3> QED BY <1>1, <2>2, <3>3, <3>4, NoneDelivers
  <2> QED BY <2>1, <2>2
<1> HIDE DEF p
<1>5. Len(p) <= Len(ops) + (IF "ops" \in {} THEN 1 ELSE 0)
  BY <1>1, <1>4, LenProperties, TopFacts
<1> QED BY <1>1, <1>2, <1>4, <1>5, TopEndSound
-------------------------------------------------------------------------------
\* The item on top stays, with other operands.
LEMMA TopStaysSound ==
    ASSUME FInv, Processing, NEW arrays, NEW b \in Seq(Blocks), Len(b) = Len(blk), Live(b),
           NEW t \in Seq(Items), Len(t) = Len(stack), \A i \in 1..(Len(stack) - 1) : t[i] = stack[i],
           NEW item, item = t[Len(stack)], item.kind = Top.kind, item.frame = Top.frame,
           item.want = Top.want, item.args = Top.args,
           NEW p \in Seq(Tags), Agree(ops, p, Top.frame), Gathered(item, Len(p) - Top.frame, p),
           Len(p) <= Len(ops) + (IF "ops" \in arrays THEN 1 ELSE 0),
           Put(arrays, ctx, b, t, p)
    PROVE  Sound'
<1>1. Shaped(item) /\ (HasContext(Top.kind) => HasContext(item.kind))
  BY TopFacts DEF Shaped
<1>2. Len(stack) \in 1..Len(stack) /\ Top = stack[Len(stack)]
  BY TopFacts
<1>3. Framed(t, p, status = "eval")
  BY <1>1, <1>2, TopFacts, ChangeFramed
<1>4. Len(p) \in Nat /\ Room(arrays, ctx, b, t, p)
  BY TopFacts, LenProperties, SMTT(30) DEF Room
<1> QED BY <1>3, <1>4, TopFacts, PutSound

Phased(phase) == [stack EXCEPT ![Len(stack)].phase = phase]

LEMMA PhaseChange ==
    ASSUME FInv, Processing, NEW phase \in 0..2, phase = 2 => IsPackage(Top),
           NEW t, t = Phased(phase)
    PROVE  /\ t \in Seq(Items) /\ Len(t) = Len(stack) /\ \A i \in 1..(Len(stack) - 1) : t[i] = stack[i]
           /\ t[Len(stack)].kind = Top.kind /\ t[Len(stack)].frame = Top.frame
           /\ t[Len(stack)].want = Top.want /\ t[Len(stack)].args = Top.args
           /\ t[Len(stack)].phase = phase
<1>1. t \in Seq(Items)
  BY TopFacts, PhaseType DEF Phased
<1>2. /\ stack \in Seq(Items) /\ Len(stack) \in 1..Len(stack) /\ Top = stack[Len(stack)] /\ Top \in Items
      /\ Len(stack) \in Nat
  BY TopFacts
<1>3. t[Len(stack)] = [Top EXCEPT !.phase = phase]
  BY <1>2 DEF Phased
<1>4. Len(t) = Len(stack) /\ \A i \in 1..(Len(stack) - 1) : t[i] = stack[i]
  BY <1>2 DEF Phased
<1> QED BY <1>1, <1>2, <1>3, <1>4 DEF Items, ItemRecords

LEMMA LoopRepeatsSound == ASSUME FInv, LoopRepeats PROVE Sound'
<1>1. Processing /\ Top.kind = "LOOP" /\ Top.phase = 1 /\ Executes(Top) /\ FInv /\ NInv
  BY DEF LoopRepeats, Executes, FInv
<1>2. Len(blk) = Top.blks + 1 /\ NestAt(blk, Top) /\ HasBlock(Top.kind) /\ Top.alt.pc \in Nat
  BY <1>1, HereTypes DEF HasBlock, Items, ItemRecords, Blocks
<1>3. Top.alt.pc <= Here.limit
  BY <1>1, <1>2 DEF NestAt, Here
<1> DEFINE b == Commit(Top.alt.pc)
           t == [stack EXCEPT ![Len(stack)].phase = 0]
<1>4. b \in Seq(Blocks) /\ Len(b) = Len(blk) /\ Live(b)
  BY <1>1, <1>2, <1>3, TopFacts, LiveCommit, CommitShape
<1>5. K = 0 /\ Len(ops) - Top.frame = 0 /\ Agree(ops, ops, Top.frame)
  BY <1>1, TopFacts DEF Gathered, Agree
<1>6. Put({}, ctx, b, t, ops)
  BY DEF LoopRepeats
<1>7. 0 \in 0..2 /\ 0 # 2 /\ t = Phased(0)
  BY DEF Phased
<1> HIDE DEF b, t
<1>8. /\ t \in Seq(Items) /\ Len(t) = Len(stack) /\ \A i \in 1..(Len(stack) - 1) : t[i] = stack[i]
      /\ t[Len(stack)].kind = Top.kind /\ t[Len(stack)].frame = Top.frame
      /\ t[Len(stack)].want = Top.want /\ t[Len(stack)].args = Top.args
      /\ t[Len(stack)].phase = 0
  BY <1>1, <1>7, PhaseChange
<1>9. Gathered(t[Len(stack)], 0, ops)
  BY <1>1, <1>5, <1>8, TopFacts DEF Gathered, Executes, Collects, IsPackage, HasContext
<1>10. Len(ops) <= Len(ops) + (IF "ops" \in {} THEN 1 ELSE 0)
  BY <1>1, TopFacts
<1> QED BY <1>1, <1>4, <1>5, <1>6, <1>8, <1>9, <1>10, TopFacts, TopStaysSound

\* The predicate of a While or an If is taken from the operand stack.
LEMMA PredicateTaken ==
    ASSUME FInv, Processing, Complete, Top.kind \in {"LOOP", "COND"},
           NEW b \in Seq(Blocks), Len(b) = Len(blk), Live(b),
           Put({}, ctx, b, [stack EXCEPT ![Len(stack)].phase = 1], Front(ops))
    PROVE  Sound'
<1> DEFINE t == [stack EXCEPT ![Len(stack)].phase = 1]
           p == Front(ops)
<1>1. K = 1
  BY TopFacts DEF Shaped, Complete
<1>2. p \in Seq(Tags) /\ Len(p) = Top.frame /\ Len(p) <= Len(ops) /\ \A i \in 1..Top.frame : p[i] = ops[i]
  BY <1>1, FrontOps, TopFacts
<1>3. Put({}, ctx, b, t, p) /\ 1 \in 0..2 /\ 1 # 2 /\ t = Phased(1)
  BY DEF Phased
<1> HIDE DEF p, t
<1>4. /\ t \in Seq(Items) /\ Len(t) = Len(stack) /\ \A i \in 1..(Len(stack) - 1) : t[i] = stack[i]
      /\ t[Len(stack)].kind = Top.kind /\ t[Len(stack)].frame = Top.frame
      /\ t[Len(stack)].want = Top.want /\ t[Len(stack)].args = Top.args
      /\ t[Len(stack)].phase = 1
  BY <1>3, PhaseChange
<1>5. Len(p) - Top.frame = 0 /\ Agree(ops, p, Top.frame)
  BY <1>2, TopFacts DEF Agree
<1>6. Gathered(t[Len(stack)], 0, p)
  BY <1>2, <1>4, TopFacts, SMTT(30) DEF Gathered, Executes, Collects, IsPackage, HasContext
<1>7. Len(p) <= Len(ops) + (IF "ops" \in {} THEN 1 ELSE 0)
  BY <1>2, TopFacts
<1> QED BY <1>2, <1>3, <1>4, <1>5, <1>6, <1>7, TopStaysSound

LEMMA PredicateHoldsSound == ASSUME FInv, PredicateHolds PROVE Sound'
<1>1. Processing /\ Complete /\ Top.kind \in {"LOOP", "COND"}
  BY DEF PredicateHolds
<1>2. Put({}, ctx, blk, [stack EXCEPT ![Len(stack)].phase = 1], Front(ops))
  BY DEF PredicateHolds
<1> QED BY <1>1, <1>2, TopFacts, PredicateTaken

LEMMA TakeElseSound == ASSUME FInv, TakeElse PROVE Sound'
<1>1. Processing /\ Complete /\ Top.kind = "COND" /\ NInv
  BY DEF TakeElse, FInv
<1> DEFINE b == [blk EXCEPT ![Len(blk)] = Top.alt]
<1>2. Put({}, ctx, b, [stack EXCEPT ![Len(stack)].phase = 1], Front(ops))
  BY DEF TakeElse
<1>3. NestAt(blk, Top) /\ HasBlock(Top.kind) /\ Top.alt \in Blocks
  BY <1>1, HereTypes DEF HasBlock, Items, ItemRecords
<1>4. blk \in Seq(Blocks) /\ Len(blk) \in 1..Len(blk) /\ Live(blk)
  BY <1>1, TopFacts, ProcessingTypes
<1>5. /\ b \in Seq(Blocks) /\ Len(b) = Len(blk) /\ b[Len(blk)] = Top.alt
      /\ \A k \in 1..Len(blk) : k # Len(blk) => b[k] = blk[k]
  BY <1>3, <1>4
<1>6. Top.alt.pc <= Top.alt.limit
  BY <1>3 DEF NestAt
<1> HIDE DEF b
<1>7. Live(b)
  BY <1>4, <1>5, <1>6 DEF Live
<1> QED BY <1>1, <1>2, <1>5, <1>7, PredicateTaken

LEMMA CreatePackageSound == ASSUME FInv, CreatePackage PROVE Sound'
<1>1. Processing /\ IsPackage(Top) /\ Top.phase = 1
  BY DEF CreatePackage
<1> DEFINE t == [stack EXCEPT ![Len(stack)].phase = 2]
           p == Front(ops)
<1>2. K = 2 /\ \A i \in 1..K : ops[Top.frame + i] = "object"
  BY <1>1, TopFacts DEF Gathered
<1>3. /\ p \in Seq(Tags) /\ Len(p) = Top.frame + 1 /\ Len(p) <= Len(ops)
      /\ \A i \in 1..(Top.frame + 1) : p[i] = ops[i]
  <2>1. Len(ops) - 1 = Top.frame + 1 /\ Len(ops) - 1 <= Len(ops)
    BY <1>1, <1>2, TopFacts
  <2>2. K # 0
    BY <1>2
  <2> QED BY <1>1, <2>1, <2>2, FrontOps
<1>4. Put({}, ctx, blk, t, p) /\ 2 \in 0..2 /\ t = Phased(2)
  BY DEF CreatePackage, Phased
<1> HIDE DEF p, t
<1>5. /\ t \in Seq(Items) /\ Len(t) = Len(stack) /\ \A i \in 1..(Len(stack) - 1) : t[i] = stack[i]
      /\ t[Len(stack)].kind = Top.kind /\ t[Len(stack)].frame = Top.frame
      /\ t[Len(stack)].want = Top.want /\ t[Len(stack)].args = Top.args
      /\ t[Len(stack)].phase = 2
  BY <1>1, <1>4, PhaseChange
<1>6. Len(p) - Top.frame = 1 /\ Agree(ops, p, Top.frame)
  BY <1>1, <1>3, TopFacts, SMTT(30) DEF Agree
<1>7. p[Top.frame + 1] = "object"
  <2>1. 1 \in 1..K /\ Top.frame + 1 \in 1..(Top.frame + 1)
    BY <1>1, <1>2, TopFacts
  <2> QED BY <1>2, <1>3, <2>1
<1>8. Gathered(t[Len(stack)], 1, p)
  <2>1. IsPackage(t[Len(stack)]) /\ ~Executes(t[Len(stack)]) /\ ~Collects(t[Len(stack)])
    BY <1>1, <1>5 DEF IsPackage, Executes, Collects, HasContext
  <2> QED BY <1>1, <1>3, <1>5, <1>7, <2>1, TopFacts DEF Gathered
<1>9. Len(p) <= Len(ops) + (IF "ops" \in {} THEN 1 ELSE 0)
  BY <1>1, <1>3, TopFacts
<1> QED BY <1>1, <1>3, <1>4, <1>5, <1>6, <1>8, <1>9, TopFacts, TopStaysSound

\* The block on top after an opcode.
LEMMA StepCommit ==
    ASSUME FInv, Processing, ~AtEnd
    PROVE  /\ Here.pc \in Nat /\ Here.pc + 1 <= Here.limit /\ Here.limit \in Nat
           /\ Commit(Here.pc + 1) \in Seq(Blocks) /\ Len(Commit(Here.pc + 1)) = Len(blk)
           /\ Live(Commit(Here.pc + 1))
<1>1. Here.pc \in Nat /\ Here.pc + 1 <= Here.limit /\ Here.limit \in Nat /\ Here.pc + 1 \in Nat
  BY HereTypes DEF FInv
<1> QED BY <1>1, TopFacts, LiveCommit, CommitShape

LEMMA ParseStatementSound == ASSUME FInv, ParseStatement PROVE Sound'
<1>1. Processing /\ ~AtEnd
  BY DEF ParseStatement, Parses
<1>2. PICK arrays \in {{}, {"ops"}, {"ops", "stack"}} :
         Put(arrays, ctx, Commit(Here.pc + 1), stack, ops)
  BY DEF ParseStatement
<1> DEFINE b == Commit(Here.pc + 1)
<1>3. b \in Seq(Blocks) /\ Len(b) = Len(blk) /\ Live(b) /\ Put(arrays, ctx, b, stack, ops)
  BY <1>1, <1>2, StepCommit
<1> HIDE DEF b
<1>4. Room(arrays, ctx, b, stack, ops)
  BY <1>1, <1>3, TopFacts DEF Room
<1> QED BY <1>1, <1>3, <1>4, TopFacts, PutSound

LEMMA LeafFacts ==
    ASSUME NEW mode \in Modes, NEW leaf \in Leaves(mode)
    PROVE  /\ leaf[1] \in TagsOf(mode) /\ leaf[1] \in Tags /\ "ops" \in leaf[2]
           /\ mode = "byte" => leaf[2] = {"ops"}
           /\ mode \in {"byte", "data"} => leaf[1] = "object"
<1>1. mode # "placed"
  BY DEF Modes
<1>2. CASE mode = "reference"
  BY <1>2 DEF Leaves, TagsOf, Tags
<1>3. CASE mode = "unresolved"
  BY <1>3 DEF Leaves, TagsOf, Tags
<1>4. CASE mode = "byte"
  BY <1>4 DEF Leaves, TagsOf, Tags
<1>5. CASE mode \notin {"reference", "unresolved", "byte"}
  BY <1>1, <1>5 DEF Leaves, TagsOf, Tags
<1> QED BY <1>2, <1>3, <1>4, <1>5

\* Whom the parser works for.
LEMMA Asker ==
    ASSUME FInv, Processing, NEW mode \in Modes, Asks(mode)
    PROVE  /\ mode = "exec" <=> Executes(Top)
           /\ \/ Executes(Top)
              \/ Collects(Top) /\ K < Len(Top.args) /\ mode = Top.args[K + 1]
              \/ IsPackage(Top) /\ Top.phase = 0 /\ mode = "byte"
              \/ IsPackage(Top) /\ Top.phase = 2 /\ mode = "data"
<1>1. Shaped(Top) /\ K \in Nat /\ Len(Top.args) \in Nat
  BY TopFacts
<1>2. CASE Executes(Top)
  <2>1. ~Collects(Top) /\ ~IsPackage(Top)
    BY <1>2 DEF Collects, Executes, IsPackage, HasContext
  <2> QED BY <1>1, <1>2, <2>1 DEF Asks, IsPackage
<1>3. CASE Collects(Top)
  <2>1. ~Executes(Top) /\ ~IsPackage(Top)
    BY <1>3 DEF Collects
  <2>2. K < Len(Top.args) /\ mode = Top.args[K + 1]
    BY <2>1 DEF Asks, IsPackage
  <2>3. mode # "exec"
    BY <1>1, <2>2 DEF Shaped
  <2> QED BY <1>3, <2>1, <2>2, <2>3
<1>4. CASE IsPackage(Top)
  <2>1. ~Executes(Top) /\ ~Collects(Top) /\ Top.kind # "VARPACKAGE"
    BY <1>1, <1>4 DEF Collects, Executes, IsPackage, HasContext, Shaped
  <2> QED BY <1>4, <2>1 DEF Asks
<1> QED BY <1>2, <1>3, <1>4 DEF Collects

LEMMA ParseOperandSound == ASSUME FInv, NEW mode \in Modes, ParseOperand(mode) PROVE Sound'
<1>1. Processing /\ ~AtEnd /\ Asks(mode) /\ mode # "exec"
  BY DEF ParseOperand, Parses
<1>2. PICK leaf \in Leaves(mode) :
         Put(leaf[2], ctx, Commit(Here.pc + 1), Advanced(leaf[2]), Append(Settled, leaf[1]))
  BY DEF ParseOperand
<1> DEFINE b == Commit(Here.pc + 1)
           p == Append(Settled, leaf[1])
           n == Len(stack)
<1>3. b \in Seq(Blocks) /\ Len(b) = Len(blk) /\ Live(b)
  BY <1>1, StepCommit
<1>4. /\ leaf[1] \in TagsOf(mode) /\ leaf[1] \in Tags /\ "ops" \in leaf[2]
      /\ mode = "byte" => leaf[2] = {"ops"}
      /\ mode \in {"byte", "data"} => leaf[1] = "object"
  BY LeafFacts
<1>5. /\ Settled \in Seq(Tags) /\ Len(Settled) \in Nat /\ Len(Settled) <= Len(ops)
      /\ Top.frame <= Len(Settled) /\ Agree(ops, Settled, Len(Settled))
  BY <1>1, SettledFacts
<1>6. /\ p \in Seq(Tags) /\ Len(p) = Len(Settled) + 1 /\ p[Len(Settled) + 1] = leaf[1]
      /\ \A i \in 1..Len(Settled) : p[i] = ops[i]
  BY <1>4, <1>5, AppendProperties DEF Agree
<1>7. Put(leaf[2], ctx, b, Advanced(leaf[2]), p)
  BY <1>2
<1> HIDE DEF b, p
<1>8. Agree(ops, p, Top.frame) /\ Len(p) <= Len(ops) + (IF "ops" \in leaf[2] THEN 1 ELSE 0)
  BY <1>1, <1>4, <1>5, <1>6, TopFacts, SMTT(30) DEF Agree
<1>9. CASE Collects(Top) /\ K < Len(Top.args) /\ mode = Top.args[K + 1]
  <2>1. ~Executes(Top) /\ ~IsPackage(Top)
    BY <1>9 DEF Collects
  <2>2. Settled = ops /\ Advanced(leaf[2]) = stack
    BY <1>1, <2>1, SettledFacts DEF Advanced
  <2>3. Len(p) - Top.frame = K + 1 /\ Len(p) = Top.frame + (K + 1) /\ Len(p) \in Nat
    BY <1>1, <1>6, <2>2, TopFacts, SMTT(30)
  <2>4. \A i \in 1..(K + 1) : p[Top.frame + i] \in TagsOf(Top.args[i])
    <3> TAKE i \in 1..(K + 1)
    <3>1. CASE i = K + 1
      <4>0. K \in Nat /\ Top.frame \in Nat /\ Top.frame + K = Len(ops)
        BY <1>1, TopFacts
      <4>1. Top.frame + i = Len(Settled) + 1
        BY <2>2, <3>1, <4>0
      <4>2. p[Top.frame + i] = leaf[1]
        BY <1>6, <4>1
      <4>3. Top.args[i] = mode
        BY <1>9, <3>1
      <4> QED BY <1>4, <4>2, <4>3
    <3>2. CASE i \in 1..K
      <4>1. Top.frame + i \in 1..Len(Settled)
        BY <1>1, <2>2, <3>2, TopFacts, SMTT(30)
      <4>2. p[Top.frame + i] = ops[Top.frame + i]
        BY <1>6, <4>1
      <4>3. ops[Top.frame + i] \in TagsOf(Top.args[i])
        BY <1>1, <1>9, <3>2, TopFacts DEF Gathered
      <4> QED BY <4>2, <4>3
    <3> QED BY <1>1, <3>1, <3>2, TopFacts, SMTT(30)
  <2>5. Gathered(Top, K + 1, p)
    BY <1>1, <1>9, <2>1, <2>3, <2>4, TopFacts, SMTT(30) DEF Gathered
  <2> QED BY <1>1, <1>3, <1>6, <1>7, <1>8, <2>2, <2>3, <2>5, TopFacts, TopStaysSound
<1>10. CASE IsPackage(Top) /\ Top.phase = 0 /\ mode = "byte"
  <2>1. Settled = ops /\ K = 1 /\ ops[Top.frame + 1] = "object"
    BY <1>1, <1>10, TopFacts, SettledFacts, SMTT(30) DEF Gathered
  <2> DEFINE t == Advanced(leaf[2])
  <2>2. t = Phased(1)
    BY <1>4, <1>10 DEF Advanced, Phased
  <2>3. Put(leaf[2], ctx, b, t, p) /\ 1 \in 0..2 /\ 1 # 2
    BY <1>7
  <2> HIDE DEF t
  <2>4. /\ t \in Seq(Items) /\ Len(t) = n /\ \A i \in 1..(n - 1) : t[i] = stack[i]
        /\ t[n].kind = Top.kind /\ t[n].frame = Top.frame
        /\ t[n].want = Top.want /\ t[n].args = Top.args /\ t[n].phase = 1
    BY <1>1, <2>2, <2>3, PhaseChange
  <2>5. Len(p) - Top.frame = 2 /\ Len(p) = Top.frame + 2
    BY <1>1, <1>6, <2>1, TopFacts
  <2>6. p[Top.frame + 1] = "object" /\ p[Top.frame + 2] = "object"
    <3>1. Len(Settled) + 1 = Top.frame + 2 /\ Top.frame + 1 \in 1..Len(Settled)
      BY <1>1, <2>1, TopFacts
    <3> QED BY <1>4, <1>6, <1>10, <2>1, <3>1
  <2>7. Gathered(t[n], 2, p)
    <3>1. IsPackage(t[n]) /\ ~Executes(t[n]) /\ ~Collects(t[n])
      BY <1>10, <2>4 DEF IsPackage, Executes, Collects, HasContext
    <3>2. \A i \in 1..2 : p[Top.frame + i] = "object"
      <4>1. \A i \in 1..2 : i = 1 \/ i = 2
        OBVIOUS
      <4> QED BY <2>6, <4>1
    <3> QED BY <2>4, <2>5, <3>1, <3>2 DEF Gathered
  <2> QED BY <1>1, <1>3, <1>6, <1>8, <2>3, <2>4, <2>5, <2>7, TopStaysSound
<1>11. CASE IsPackage(Top) /\ Top.phase = 2 /\ mode = "data"
  <2>1. Len(Settled) = Top.frame + 1 /\ Settled[Top.frame + 1] = "object" /\ Advanced(leaf[2]) = stack
    BY <1>1, <1>11, SettledFacts DEF Advanced
  <2>2. Len(p) - Top.frame = 2 /\ Len(p) = Top.frame + 2
    BY <1>1, <1>6, <2>1, TopFacts, SMTT(30)
  <2>3. p[Top.frame + 1] = "object" /\ p[Top.frame + 2] = "object"
    <3>1. Len(Settled) + 1 = Top.frame + 2 /\ Top.frame + 1 \in 1..Len(Settled)
      BY <1>1, <2>1, TopFacts, SMTT(30)
    <3>2. p[Top.frame + 1] = Settled[Top.frame + 1]
      BY <1>5, <1>6, <3>1 DEF Agree
    <3> QED BY <1>4, <1>6, <1>11, <2>1, <3>1, <3>2
  <2>4. Gathered(Top, 2, p)
    <3>1. ~Executes(Top) /\ ~Collects(Top)
      BY <1>11 DEF IsPackage, Executes, Collects, HasContext
    <3>2. \A i \in 1..2 : p[Top.frame + i] = "object"
      <4>1. \A i \in 1..2 : i = 1 \/ i = 2
        OBVIOUS
      <4> QED BY <2>3, <4>1
    <3> QED BY <1>11, <2>2, <3>1, <3>2 DEF Gathered
  <2> QED BY <1>1, <1>3, <1>6, <1>7, <1>8, <2>1, <2>2, <2>4, TopFacts, TopStaysSound
<1> QED BY <1>1, <1>9, <1>10, <1>11, Asker
-------------------------------------------------------------------------------
\* What a form says of the item that it makes.
Fits(form) ==
    /\ FormType(form)
    /\ form.kind \notin {"VARPACKAGE", "BANKFIELD", "METHOD"}
    /\ form.modes \subseteq {"exec", "object", "data", "reference"}
    /\ form.kind \in {"POPULATE", "LOOP", "COND", "RETURN", "NODE"} => form.modes = {"exec"}
    /\ form.kind \in {"LOOP", "COND", "BUFFER", "RETURN"} => Len(form.args) = 1
    /\ \A i \in 1..Len(form.args) : form.args[i] # "exec"
    /\ form.kind = "PACKAGE" => form.placed = <<"object">>
    /\ form.kind = "INVOKE" =>
         form.placed = <<"target">> /\ Len(form.args) # 0 /\ form.args[1] = "placed"
    /\ form.kind \notin {"PACKAGE", "INVOKE"} => form.placed = <<>>

LEMMA FormsFit ==
    ASSUME Kinds \cap {"VARPACKAGE", "BANKFIELD"} = {}
    PROVE  \A form \in Forms : Fits(form)
<1> TAKE form \in Forms
<1>1. form \in AllForms /\ form.kind \in Kinds /\ FormType(form) /\ form.kind # "METHOD"
  BY FormTypes, FormsAreNoMethods DEF Forms
<1>2. form.kind \notin {"VARPACKAGE", "BANKFIELD"}
  BY <1>1
<1>3. /\ Len(<<"object">>) = 1 /\ <<"object">>[1] # "exec" /\ Len(<<>>) = 0
      /\ \A i \in 1..1 : i = 1
  OBVIOUS
<1>4. CASE form \in ControlForms
  BY <1>1, <1>2, <1>3, <1>4 DEF ControlForms, Form, Fits
<1>5. CASE form \in ScopeForms
  BY <1>1, <1>2, <1>3, <1>5 DEF ScopeForms, Form, Fits
<1>6. CASE form \in DataForms
  BY <1>1, <1>2, <1>3, <1>6 DEF DataForms, Form, Fits, AnyTerm
<1>7. CASE form \in NodeForms
  <2>1. PICK args \in NodeArgs : form = Form("NODE", {"exec"}, <<>>, args)
    BY <1>2, <1>7 DEF NodeForms, Form
  <2>2. \A i \in 1..Len(args) : args[i] # "exec"
    BY OperandsAssumption, ArgsAssumption, LenProperties
  <2> QED BY <1>1, <1>2, <2>1, <2>2 DEF Form, Fits
<1>8. CASE form \in OpForms
  <2>1. PICK args \in OpArgs : form = Form("OP", {"exec", "object", "reference"}, <<>>, args)
    BY <1>8 DEF OpForms
  <2>2. \A i \in 1..Len(args) : args[i] # "exec"
    BY OperandsAssumption, ArgsAssumption, LenProperties
  <2> QED BY <1>1, <1>2, <2>1, <2>2 DEF Form, Fits
<1>9. CASE form \in CallForms
  <2>1. PICK n \in ArgCounts :
           form = Form("INVOKE", {"exec", "object"}, <<"target">>,
                       <<"placed">> \o [i \in 1..n |-> "object"])
    BY <1>9 DEF CallForms
  <2> DEFINE rest == [i \in 1..n |-> "object"]
             all == <<"placed">> \o rest
  <2>2. n \in Nat /\ rest \in Seq({"object", "placed"}) /\ Len(rest) = n
    BY ArgsAssumption
  <2>3. <<"placed">> \in Seq({"object", "placed"}) /\ Len(<<"placed">>) = 1
    OBVIOUS
  <2>4. form.args = all /\ form.kind = "INVOKE" /\ form.placed = <<"target">> /\ form.modes = {"exec", "object"}
    BY <2>1 DEF Form
  <2> HIDE DEF rest
  <2>5. all \in Seq({"object", "placed"}) /\ Len(all) = 1 + n /\ all[1] = "placed"
    BY <2>2, <2>3, ConcatProperties
  <2> HIDE DEF all
  <2>6. \A i \in 1..Len(all) : all[i] # "exec"
    BY <2>5, ElementOfSeq
  <2> QED BY <1>1, <1>2, <2>2, <2>4, <2>5, <2>6 DEF Fits
<1> QED BY <1>1, <1>4, <1>5, <1>6, <1>7, <1>8, <1>9 DEF AllForms

\* The operands that an item finds above its frame when it is made.
LEMMA PlacedGathered ==
    ASSUME NEW form, Fits(form), NEW item \in Items, item.kind = form.kind, item.args = form.args,
           item.phase = 0, NEW o \in Seq(Tags), item.frame = Len(o)
    PROVE  /\ o \o form.placed \in Seq(Tags) /\ Agree(o, o \o form.placed, Len(o))
           /\ Gathered(item, Len(o \o form.placed) - Len(o), o \o form.placed)
           /\ Len(o \o form.placed) <= Len(o) + (IF form.placed # <<>> THEN 1 ELSE 0)
<1> DEFINE q == form.placed
           p == o \o q
<1>1. q \in Seq(Tags) /\ Len(q) \in Nat /\ Len(o) \in Nat /\ Len(item.args) \in Nat
  BY LenProperties DEF Fits, FormType, Items, ItemRecords
<1>2. /\ p \in Seq(Tags) /\ Len(p) = Len(o) + Len(q)
      /\ \A i \in 1..(Len(o) + Len(q)) : p[i] = IF i <= Len(o) THEN o[i] ELSE q[i - Len(o)]
  BY <1>1, ConcatProperties
<1>3. \/ form.kind = "PACKAGE" /\ q = <<"object">>
      \/ form.kind = "INVOKE" /\ q = <<"target">>
      \/ form.kind \notin {"PACKAGE", "INVOKE"} /\ q = <<>>
  BY DEF Fits
<1>4. q # <<>> => Len(q) = 1
  BY <1>3
<1>5. q = <<>> => Len(q) = 0
  OBVIOUS
<1>6. q = <<"object">> => q[1] = "object"
  OBVIOUS
<1>7. q = <<"target">> => q[1] = "target"
  OBVIOUS
<1>0. q = form.placed
  OBVIOUS
<1> HIDE DEF q, p
<1>8. Len(p) - Len(o) = Len(q) /\ Len(p) <= Len(o) + (IF q # <<>> THEN 1 ELSE 0) /\ Agree(o, p, Len(o))
  BY <1>1, <1>2, <1>4, <1>5 DEF Agree
<1>9. Len(q) = 1 => p[item.frame + 1] = q[1]
  <2> SUFFICES ASSUME Len(q) = 1 PROVE p[Len(o) + 1] = q[1]
    OBVIOUS
  <2>1. Len(o) + 1 \in 1..(Len(o) + Len(q)) /\ ~(Len(o) + 1 <= Len(o)) /\ (Len(o) + 1) - Len(o) = 1
    BY <1>1
  <2> QED BY <1>2, <2>1
<1>10. item.frame \in Nat /\ item.frame + Len(q) <= Len(p)
  BY <1>1, <1>2
<1>11. Gathered(item, Len(q), p)
  <2>1. CASE form.kind = "PACKAGE"
    <3>1. ~Executes(item) /\ ~Collects(item)
      BY <2>1 DEF Executes, Collects, HasContext, IsPackage
    <3>2. Len(q) = 1 /\ q[1] = "object" /\ \A i \in 1..1 : i = 1
      BY <1>3, <1>4, <1>6, <2>1
    <3> QED BY <1>9, <1>10, <3>1, <3>2 DEF Gathered
  <2>2. CASE form.kind = "INVOKE"
    <3>1. ~Executes(item) /\ ~IsPackage(item)
      BY <2>2 DEF Executes, HasContext, IsPackage
    <3>2. Len(q) = 1 /\ q[1] = "target" /\ \A i \in 1..1 : i = 1
      BY <1>3, <1>4, <1>7, <2>2
    <3>3. Len(item.args) # 0 /\ item.args[1] = "placed" /\ "target" \in TagsOf("placed")
      BY <2>2 DEF Fits, TagsOf
    <3> QED BY <1>1, <1>9, <1>10, <3>1, <3>2, <3>3 DEF Gathered
  <2>3. CASE form.kind \notin {"PACKAGE", "INVOKE"}
    <3>1. Len(q) = 0 /\ ~IsPackage(item)
      BY <1>3, <1>5, <2>3 DEF Fits, IsPackage
    <3> QED BY <1>1, <1>10, <3>1 DEF Gathered
  <2> QED BY <2>1, <2>2, <2>3
<1>12. p = o \o form.placed
  BY <1>0 DEF p
<1> QED BY <1>0, <1>2, <1>8, <1>11, <1>12

LEMMA OpenSound ==
    ASSUME FInv, Processing, ~AtEnd, NEW mode \in Modes, Asks(mode),
           NEW form, Fits(form), mode \in form.modes,
           NEW limit \in Nat, NEW alt \in Blocks, NEW next \in Nat, next <= Here.limit,
           HasBlock(form.kind) => Here.pc + 1 <= limit,
           Open(form, mode, limit, alt, next)
    PROVE  Sound'
<1> DEFINE item == Item(form.kind, Len(Settled), mode # "exec", form.args, alt)
           arrays == Reserved(form)
           c == IF HasContext(form.kind) THEN Append(ctx, FALSE) ELSE ctx
           b == IF HasBlock(form.kind) THEN Append(Commit(next), Block(Here.pc + 1, limit))
                                       ELSE Commit(next)
           t == Append(stack, item)
           p == Settled \o form.placed
<1>1. /\ Settled \in Seq(Tags) /\ Len(Settled) \in Nat /\ Len(Settled) <= Len(ops)
      /\ Framed(stack, Settled, status = "eval")
      /\ IsPackage(Top) /\ Top.phase = 2 => Len(Settled) = Top.frame + 1
      /\ ~(IsPackage(Top) /\ Top.phase = 2) => Settled = ops
  BY SettledFacts
<1>2. item \in Items
  BY <1>1, TopFacts, ItemType DEF Fits, FormType
<1>3. /\ item.kind = form.kind /\ item.args = form.args /\ item.frame = Len(Settled)
      /\ item.phase = 0 /\ (item.want <=> mode # "exec")
  BY DEF Item
<1>4. mode \in {"exec", "object", "data", "reference"} /\ (mode = "exec" <=> Executes(Top))
  BY Asker DEF Fits
<1>5. Advanced(arrays) = stack
  <2>1. ~(IsPackage(Top) /\ Top.phase = 0)
    <3>1. IsPackage(Top) => ~Executes(Top) /\ ~Collects(Top)
      BY DEF IsPackage, Executes, Collects, HasContext
    <3> QED BY <1>4, <3>1, Asker
  <2> QED BY <2>1 DEF Advanced
<1>6. Put(arrays, c, b, t, p)
  BY <1>5 DEF Open
<1>7. Shaped(item)
  BY <1>3 DEF Fits, Shaped
<1>8. Wants(Top, Len(Settled) - Top.frame)
  <2>1. CASE Executes(Top)
    BY <2>1 DEF Wants, Collects, IsPackage, Executes, HasContext
  <2>2. CASE Collects(Top)
    <3>1. ~Executes(Top) /\ ~IsPackage(Top) /\ Settled = ops
      BY <1>1, <2>2 DEF Collects
    <3>2. K < Len(Top.args) /\ mode = Top.args[K + 1] /\ Len(Settled) - Top.frame = K
      BY <3>1, Asker, TopFacts, SMTT(30)
    <3>3. "object" \in TagsOf(mode)
      BY <1>4 DEF TagsOf
    <3> QED BY <3>1, <3>2, <3>3 DEF Wants
  <2>3. CASE IsPackage(Top)
    <3>1. ~Executes(Top) /\ ~Collects(Top) /\ Top.phase = 2
      <4>1. ~Executes(Top) /\ ~Collects(Top)
        BY <2>3 DEF IsPackage, Executes, Collects, HasContext
      <4> QED BY <1>4, <4>1, Asker
    <3>2. Len(Settled) - Top.frame = 1
      BY <1>1, <2>3, <3>1, TopFacts, SMTT(30)
    <3> QED BY <3>1, <3>2 DEF Wants
  <2> QED BY <2>1, <2>2, <2>3 DEF Collects
<1>9. /\ p \in Seq(Tags) /\ Agree(Settled, p, Len(Settled))
      /\ Gathered(item, Len(p) - Len(Settled), p)
      /\ Len(p) <= Len(Settled) + (IF form.placed # <<>> THEN 1 ELSE 0)
  <2> HIDE DEF item
  <2> QED BY <1>1, <1>2, <1>3, PlacedGathered
<1>10. c \in Seq(BOOLEAN) /\ Len(c) <= Len(ctx) + (IF "ctx" \in arrays THEN 1 ELSE 0)
  <2>1. ctx \in Seq(BOOLEAN) /\ Len(ctx) \in Nat
    BY TopFacts
  <2>2. HasContext(form.kind) => "ctx" \in arrays
    BY DEF Reserved
  <2>3. Append(ctx, FALSE) \in Seq(BOOLEAN) /\ Len(Append(ctx, FALSE)) = Len(ctx) + 1
    BY <2>1, AppendProperties
  <2>4. CASE HasContext(form.kind)
    <3>1. c = Append(ctx, FALSE)
      BY <2>4
    <3> HIDE DEF arrays, c
    <3> QED BY <2>1, <2>2, <2>3, <2>4, <3>1
  <2>5. CASE ~HasContext(form.kind)
    <3>1. c = ctx
      BY <2>5
    <3> HIDE DEF arrays, c
    <3> QED BY <2>1, <3>1
  <2> QED BY <2>4, <2>5
<1>11. b \in Seq(Blocks) /\ Live(b) /\ Len(b) <= Len(blk) + (IF "blk" \in arrays THEN 1 ELSE 0)
  <2>1. Commit(next) \in Seq(Blocks) /\ Live(Commit(next)) /\ Len(Commit(next)) = Len(blk) /\ Len(blk) \in Nat
    BY TopFacts, LiveCommit, CommitShape
  <2>2. HasBlock(form.kind) => "blk" \in arrays
    BY DEF Reserved
  <2>3. CASE ~HasBlock(form.kind)
    <3> HIDE DEF arrays
    <3> QED BY <2>1, <2>3
  <2>4. CASE HasBlock(form.kind)
    <3> DEFINE d == Commit(next)
    <3>1. Here.pc + 1 \in Nat /\ Here.pc + 1 <= limit
      BY <2>4, StepCommit
    <3>2. d \in Seq(Blocks) /\ Live(d) /\ Len(d) = Len(blk)
      BY <2>1
    <3>3. b = Append(d, Block(Here.pc + 1, limit))
      BY <2>4
    <3> HIDE DEF d, b, arrays
    <3>4. Live(b) /\ Len(b) = Len(d) + 1 /\ b \in Seq(Blocks)
      BY <3>1, <3>2, <3>3, LiveAppend
    <3> QED BY <2>1, <2>2, <2>4, <3>2, <3>4
  <2> QED BY <2>3, <2>4
<1>12. t \in Seq(Items) /\ Len(t) = Len(stack) + 1 /\ "stack" \in arrays
  BY <1>2, TopFacts, AppendProperties DEF Reserved
<1>13. Len(p) <= Len(ops) + (IF "ops" \in arrays THEN 1 ELSE 0)
  <2>1. form.placed # <<>> => "ops" \in arrays
    BY DEF Reserved
  <2>2. Len(p) \in Nat /\ Len(ops) \in Nat
    BY <1>9, TopFacts, LenProperties
  <2> HIDE DEF p, arrays
  <2> QED BY <1>1, <1>9, <2>1, <2>2
<1>0. t = Append(stack, item)
  OBVIOUS
<1> HIDE DEF item, p, c, b, arrays, t
<1>14. Framed(t, p, status = "eval")
  <2>1. Len(stack) # 0 /\ stack \in Seq(Items) /\ Top = stack[Len(stack)] /\ (status = "eval") \in BOOLEAN
    BY TopFacts
  <2>2. Wants(stack[Len(stack)], Len(Settled) - stack[Len(stack)].frame)
    BY <1>8, <2>1
  <2>3. item.want <=> ~Executes(stack[Len(stack)])
    BY <1>3, <1>4, <2>1
  <2> QED BY <1>0, <1>1, <1>2, <1>3, <1>7, <1>9, <2>1, <2>2, <2>3, PushFramed
<1>15. Room(arrays, c, b, t, p)
  <2>1. Len(t) <= Len(stack) + (IF "stack" \in arrays THEN 1 ELSE 0)
    BY <1>12, TopFacts
  <2> QED BY <1>10, <1>11, <1>13, <2>1 DEF Room
<1> QED BY <1>6, <1>9, <1>10, <1>11, <1>12, <1>14, <1>15, PutSound

LEMMA ParseItemSound ==
    ASSUME Kinds \cap {"VARPACKAGE", "BANKFIELD"} = {}, FInv, NEW mode \in Modes, ParseItem(mode)
    PROVE  Sound'
<1>1. Processing /\ ~AtEnd /\ Asks(mode)
  BY DEF ParseItem, Parses
<1>2. Here.pc \in Nat /\ Here.pc + 1 <= Here.limit /\ Here.limit \in Nat
  BY <1>1, StepCommit
<1>3. PICK form \in Forms :
      /\ mode \in form.modes
      /\ \E limit \in IF HasBlock(form.kind) THEN (Here.pc + 1)..Here.limit
                                             ELSE {Here.pc + 1} :
           Open(form, mode, limit,
                IF form.kind = "LOOP" THEN Block(Here.pc + 1, limit) ELSE NoBlock, limit)
  BY DEF ParseItem
<1>4. PICK limit \in Nat :
         /\ Here.pc + 1 <= limit /\ limit <= Here.limit
         /\ Open(form, mode, limit,
                 IF form.kind = "LOOP" THEN Block(Here.pc + 1, limit) ELSE NoBlock, limit)
  BY <1>2, <1>3
<1>5. (IF form.kind = "LOOP" THEN Block(Here.pc + 1, limit) ELSE NoBlock) \in Blocks
  BY <1>2 DEF Block, NoBlock, Blocks
<1>6. Fits(form)
  BY FormsFit
<1> QED BY <1>1, <1>3, <1>4, <1>5, <1>6, OpenSound

LEMMA ParseIfElseSound ==
    ASSUME Kinds \cap {"VARPACKAGE", "BANKFIELD"} = {}, FInv, ParseIfElse PROVE Sound'
<1>1. Processing /\ ~AtEnd /\ Asks("exec") /\ "exec" \in Modes
  BY DEF ParseIfElse, Parses, Modes
<1>2. Here.pc \in Nat /\ Here.pc + 1 <= Here.limit /\ Here.limit \in Nat
  BY <1>1, StepCommit
<1> DEFINE form == Form("COND", {"exec"}, <<>>, <<"object">>)
<1>3. PICK limit \in (Here.pc + 1)..(Here.limit - 1) :
        \E next \in (limit + 1)..Here.limit :
           Open(form, "exec", limit, Block(limit + 1, next), next)
  BY DEF ParseIfElse
<1>4. PICK next \in (limit + 1)..Here.limit :
         Open(form, "exec", limit, Block(limit + 1, next), next)
  BY <1>3
<1>5. /\ limit \in Nat /\ next \in Nat /\ next <= Here.limit /\ Here.pc + 1 <= limit
      /\ Block(limit + 1, next) \in Blocks
  BY <1>2 DEF Block, Blocks
<1>6. Fits(form) /\ "exec" \in form.modes
  <2>1. form \in Forms
    BY DEF ParseIfElse, Forms, AllForms, ControlForms, Form
  <2> QED BY <2>1, FormsFit DEF Form
<1> HIDE DEF form
<1> QED BY <1>1, <1>4, <1>5, <1>6, OpenSound
-------------------------------------------------------------------------------
\* Several items above m that deliver nothing: m executes them as statements.
LEMMA SilentAbove ==
    ASSUME FInv, Processing, NEW m \in 1..Len(stack), \A i \in (m + 1)..Len(stack) : ~stack[i].want
    PROVE  stack[m].frame = Top.frame /\ (m # Len(stack) => Executes(stack[m]))
<1>1. /\ Len(stack) \in Nat /\ Top = stack[Len(stack)] /\ Framed(stack, ops, status = "eval")
  BY TopFacts
<1>2. ASSUME NEW l \in m..(Len(stack) - 1) PROVE Executes(stack[l])
  <2>1. l \in 1..(Len(stack) - 1) /\ l + 1 \in (m + 1)..Len(stack)
    BY <1>1
  <2>2. Awaiting(stack[l], stack[l + 1], ops) /\ ~stack[l + 1].want
    BY <1>1, <2>1 DEF Framed
  <2> QED BY <2>2 DEF Awaiting
<1>3. m <= Len(stack) /\ Len(stack) \in 1..Len(stack)
  BY <1>1
<1>4. Rising(stack, m, Len(stack))
  BY <1>1, <1>3 DEF Framed
<1>5. m # Len(stack) => m \in m..(Len(stack) - 1)
  BY <1>1
<1> QED BY <1>1, <1>2, <1>4, <1>5 DEF Rising

\* The While that a Break or Continue leaves, with the operands as it found them.
LEMMA LoopFrames ==
    ASSUME FInv, Parses("exec"), NEW m \in DOMAIN stack, InnermostLoop(m)
    PROVE  /\ m \in 1..Len(stack) /\ stack[m].frame = Len(ops) /\ ~stack[m].want
           /\ Executes(stack[m])
<1>1. Processing /\ Asks("exec") /\ "exec" \in Modes
  BY DEF Parses, Modes
<1>2. Executes(Top)
  BY <1>1, Asker
<1>3. m \in 1..Len(stack) /\ Len(stack) \in Nat /\ Top = stack[Len(stack)]
  BY <1>1, TopFacts
<1>4. \A i \in m..Len(stack) : stack[i].kind \in {"LOOP", "COND"}
  BY <1>3 DEF InnermostLoop
<1>5. \A i \in m..Len(stack) : ~stack[i].want
  <2> TAKE i \in m..Len(stack)
  <2>1. i \in 1..Len(stack)
    BY <1>3
  <2> QED BY <1>1, <1>4, <2>1, TopFacts DEF Framed, Shaped
<1>6. m \in m..Len(stack) /\ \A i \in (m + 1)..Len(stack) : i \in m..Len(stack)
  BY <1>3
<1>7. stack[m].frame = Top.frame /\ (m # Len(stack) => Executes(stack[m]))
  BY <1>1, <1>3, <1>5, <1>6, SilentAbove
<1>8. Len(ops) = Top.frame
  BY <1>1, <1>2, TopFacts DEF Gathered
<1> QED BY <1>2, <1>3, <1>5, <1>6, <1>7, <1>8

LEMMA ParseBreakSound == ASSUME FInv, ParseBreak PROVE Sound'
<1>1. PICK m \in DOMAIN stack :
        /\ InnermostLoop(m)
        /\ Put({}, ctx, SubSeq(blk, 1, Len(blk) - (Len(stack) - m) - 1),
               SubSeq(stack, 1, m - 1), ops)
  BY DEF ParseBreak
<1>2. Processing /\ Parses("exec") /\ IInv
  BY DEF ParseBreak, Parses, FInv, NInv
<1>3. m \in 1..Len(stack) /\ stack[m].frame = Len(ops) /\ ~stack[m].want
  BY <1>1, <1>2, LoopFrames
<1> DEFINE n == Len(blk) - (Len(stack) - m) - 1
           b == SubSeq(blk, 1, n)
           t == SubSeq(stack, 1, m - 1)
<1>4. n \in Int /\ n <= Len(blk) /\ m - 1 \in Nat /\ m - 1 <= Len(stack)
  BY <1>2, <1>3, TopFacts, SMTT(30)
<1>5. Put({}, ctx, b, t, ops)
  BY <1>1
<1> HIDE DEF n
<1>6. b \in Seq(Blocks) /\ Live(b) /\ Len(b) <= Len(blk)
  BY <1>2, <1>4, TopFacts, LivePrefix, PrefixType
<1>7. t \in Seq(Items) /\ Len(t) = m - 1 /\ \A i \in 1..(m - 1) : t[i] = stack[i]
  BY <1>2, <1>4, TopFacts, PrefixType, SMTT(30)
<1> HIDE DEF b, t
<1>8. Delivers(ops, ops, stack[m])
  <2>1. Len(Result(stack[m].want)) = 0
    BY <1>3 DEF Result
  <2> QED BY <1>2, <1>3, <2>1, TopFacts, SMTT(30) DEF Delivers
<1>9. Len(ops) <= Len(ops) + (IF "ops" \in {} THEN 1 ELSE 0) /\ Len(ctx) <= Len(ctx)
  BY <1>2, TopFacts
<1> QED BY <1>2, <1>3, <1>5, <1>6, <1>7, <1>8, <1>9, TopFacts, EndSound

LEMMA ParseContinueSound == ASSUME FInv, ParseContinue PROVE Sound'
<1>0. Processing /\ Parses("exec") /\ IInv
  BY DEF ParseContinue, Parses, FInv, NInv
<1> DEFINE Left(m) == SubSeq(blk, 1, Len(blk) - (Len(stack) - m))
<1>1. PICK m \in DOMAIN stack :
        /\ InnermostLoop(m)
        /\ Put({}, ctx, [Left(m) EXCEPT ![Len(Left(m))].pc = Left(m)[Len(Left(m))].limit],
               SubSeq(stack, 1, m), ops)
  BY DEF ParseContinue
<1> DEFINE n == Len(blk) - (Len(stack) - m)
           left == SubSeq(blk, 1, n)
           last == Len(left)
           rest == [left EXCEPT ![last].pc = left[last].limit]
           t == SubSeq(stack, 1, m)
<1>2. m \in 1..Len(stack) /\ stack[m].frame = Len(ops) /\ ~stack[m].want /\ Executes(stack[m])
  BY <1>0, <1>1, LoopFrames
<1>3. n \in Nat \ {0} /\ n \in Int /\ n <= Len(blk) /\ m \in Int /\ m <= Len(stack) /\ m >= 0
  <2>1. n \in Nat \ {0}
    BY <1>0, <1>1, LoopSpan
  <2> QED BY <1>0, <1>2, <2>1, TopFacts, SMTT(30)
<1>4. Put({}, ctx, rest, t, ops)
  BY <1>1
<1> HIDE DEF n
<1>5. left \in Seq(Blocks) /\ last = n /\ Live(left) /\ Len(left) <= Len(blk)
  BY <1>0, <1>3, TopFacts, LivePrefix, PrefixType
<1>6. t \in Seq(Items) /\ Len(t) = m /\ \A i \in 1..m : t[i] = stack[i]
  BY <1>0, <1>3, TopFacts, PrefixType
<1> HIDE DEF t, left
<1>7. last \in 1..last /\ left[last] \in Blocks
  BY <1>3, <1>5, ElementOfSeq
<1>8. rest \in Seq(Blocks) /\ Len(rest) = last /\ \A k \in 1..last : k # last => rest[k] = left[k]
  BY <1>5, <1>7 DEF Blocks
<1>9. rest[last].pc = left[last].limit /\ rest[last].limit = left[last].limit /\ left[last].limit \in Nat
  BY <1>5, <1>7 DEF Blocks
<1> HIDE DEF rest
<1>10. Live(rest)
  BY <1>5, <1>8, <1>9 DEF Live
<1>11. Framed(t, ops, status = "eval")
  <2>1. Len(ops) - stack[m].frame = 0 /\ Agree(ops, ops, stack[m].frame)
    BY <1>0, <1>2, TopFacts DEF Agree
  <2>2. t[m] = stack[m] /\ \A i \in 1..(m - 1) : t[i] = stack[i]
    BY <1>2, <1>6
  <2>3. Gathered(stack[m], 0, ops)
    <3>1. ~Collects(stack[m]) /\ ~IsPackage(stack[m])
      BY <1>2 DEF Collects, Executes, IsPackage, HasContext
    <3> QED BY <1>0, <1>2, <3>1, TopFacts DEF Gathered
  <2>4. Shaped(stack[m])
    BY <1>0, <1>2, TopFacts DEF Framed
  <2> QED BY <1>0, <1>2, <1>6, <2>1, <2>2, <2>3, <2>4, TopFacts, ChangeFramed, ZenonT(30)
<1>12. Room({}, ctx, rest, t, ops)
  BY <1>0, <1>3, <1>5, <1>6, <1>8, TopFacts DEF Room
<1> QED BY <1>0, <1>4, <1>6, <1>8, <1>10, <1>11, <1>12, TopFacts, PutSound

\* The METHOD item takes the place of the INVOKE item.
LEMMA InvokeMethodSound == ASSUME FInv, InvokeMethod PROVE Sound'
<1>1. Processing /\ Complete /\ Top.kind = "INVOKE"
  BY DEF InvokeMethod
<1> DEFINE item == Item("METHOD", Top.frame, Top.want, <<>>, NoBlock)
           n == Len(stack)
           s == Front(stack)
           t == Append(s, item)
<1>2. PICK size \in CodeSizes :
        Put({"ctx", "blk"}, Append(ctx, TRUE), Append(blk, Block(0, size)), t, Below)
  BY DEF InvokeMethod
<1> DEFINE c == Append(ctx, TRUE)
           b == Append(blk, Block(0, size))
<1>3. item \in Items
  <2>1. <<>> \in Seq(Modes \cup {"placed"}) /\ NoBlock \in Blocks
    BY DEF NoBlock, Block, Blocks
  <2> QED BY <1>1, <2>1, TopFacts, ItemType DEF ItemKinds
<1>4. /\ item.kind = "METHOD" /\ item.frame = Top.frame /\ item.want = Top.want /\ item.args = <<>>
      /\ Len(item.args) = 0
  BY DEF Item
<1>5. /\ Below \in Seq(Tags) /\ Len(Below) = Top.frame /\ \A i \in 1..Top.frame : Below[i] = ops[i]
  BY <1>1, BelowDelivers
<1>6. s \in Seq(Items) /\ Len(s) = n - 1 /\ \A i \in 1..(n - 1) : s[i] = stack[i]
  BY <1>1, Popped
<1>7. size \in Nat /\ 0 <= size
  BY BoundsAssumption
<1>8. b \in Seq(Blocks) /\ Live(b) /\ Len(b) = Len(blk) + 1
  BY <1>1, <1>7, TopFacts, LiveAppend
<1>9. c \in Seq(BOOLEAN) /\ Len(c) = Len(ctx) + 1
  BY <1>1, TopFacts, AppendProperties
<1>10. Put({"ctx", "blk"}, c, b, t, Below)
  BY <1>2
<1>0. t = Append(s, item)
  OBVIOUS
<1> HIDE DEF item, s, t, b, c
<1>11. t \in Seq(Items) /\ Len(t) = n /\ t[n] = item /\ \A i \in 1..(n - 1) : t[i] = stack[i]
  <2>1. /\ t \in Seq(Items) /\ Len(t) = Len(s) + 1 /\ t[Len(s) + 1] = item
        /\ \A i \in 1..Len(s) : t[i] = s[i]
    BY <1>0, <1>3, <1>6, AppendProperties
  <2>2. (n - 1) + 1 = n
    BY <1>1, TopFacts
  <2> QED BY <1>6, <2>1, <2>2
<1>12. Framed(t, Below, status = "eval")
  <2>1. Len(Below) - Top.frame = 0 /\ Agree(ops, Below, Top.frame)
    BY <1>1, <1>5, TopFacts, SMTT(30) DEF Agree
  <2>2. Gathered(item, 0, Below)
    BY <1>1, <1>4, <1>5, TopFacts DEF Gathered, Executes, Collects, IsPackage, HasContext
  <2>3. Shaped(item)
    BY <1>4 DEF Shaped
  <2>4. HasContext(Top.kind) => HasContext(item.kind)
    BY <1>4 DEF HasContext
  <2>5. /\ stack \in Seq(Items) /\ ops \in Seq(Tags) /\ (status = "eval") \in BOOLEAN
        /\ Framed(stack, ops, status = "eval") /\ n \in 1..Len(stack) /\ Top = stack[n]
    BY <1>1, TopFacts
  <2>6. /\ t[n].frame = stack[n].frame /\ t[n].want = stack[n].want /\ Shaped(t[n])
        /\ HasContext(stack[n].kind) => HasContext(t[n].kind)
    BY <1>4, <1>11, <2>3, <2>4, <2>5
  <2>7. Agree(ops, Below, stack[n].frame) /\ Gathered(t[n], Len(Below) - stack[n].frame, Below)
    BY <1>11, <2>1, <2>2, <2>5
  <2> HIDE DEF n
  <2> QED BY <1>5, <1>11, <2>5, <2>6, <2>7, ChangeFramed
<1>13. Room({"ctx", "blk"}, c, b, t, Below)
  BY <1>1, <1>5, <1>8, <1>9, <1>11, TopFacts, SMTT(30) DEF Room
<1> QED BY <1>1, <1>5, <1>8, <1>9, <1>10, <1>11, <1>12, <1>13, PutSound

\* The method that a Return leaves, below its loops and conditions.
LEMMA ReturnFrames ==
    ASSUME FInv, Processing, Complete, Top.kind = "RETURN", NEW m \in 1..(Len(stack) - 1),
           ReturningMethod(m)
    PROVE  m \in 1..Len(stack) /\ stack[m].frame = Len(ops) - 1 /\ K = 1
<1>1. Len(stack) \in Nat /\ Top = stack[Len(stack)] /\ m \in 1..Len(stack)
  BY TopFacts
<1>2. \A i \in (m + 1)..Len(stack) : stack[i].kind \in {"COND", "LOOP", "RETURN"}
  BY <1>1 DEF ReturningMethod
<1>3. \A i \in (m + 1)..Len(stack) : ~stack[i].want
  <2> TAKE i \in (m + 1)..Len(stack)
  <2>1. i \in 1..Len(stack)
    BY <1>1
  <2> QED BY <1>2, <2>1, TopFacts DEF Framed, Shaped
<1>4. stack[m].frame = Top.frame
  BY <1>1, <1>3, SilentAbove
<1>5. K = 1
  BY TopFacts DEF Shaped, Complete
<1> QED BY <1>1, <1>4, <1>5, TopFacts, SMTT(30)

LEMMA ReturnDelivers ==
    ASSUME FInv, Processing, Complete, Top.kind = "RETURN", NEW m \in 1..(Len(stack) - 1),
           ReturningMethod(m), NEW p, p = Front(ops) \o Result(stack[m].want)
    PROVE  p \in Seq(Tags) /\ Delivers(p, ops, stack[m]) /\ Len(p) <= Len(ops)
<1> DEFINE r == Result(stack[m].want)
           q == Front(ops)
<1>1. m \in 1..Len(stack) /\ stack[m].frame = Len(ops) - 1 /\ K # 0
  BY ReturnFrames
<1>2. q \in Seq(Tags) /\ Len(q) = Len(ops) - 1 /\ Len(q) \in Nat /\ \A i \in 1..(Len(ops) - 1) : q[i] = ops[i]
  BY <1>1, FrontOps
<1>3. r \in Seq(Tags) /\ Len(r) \in Nat /\ Len(r) <= 1 /\ (stack[m].want => Len(r) = 1 /\ r[1] = "object")
  <2>1. CASE stack[m].want
    <3>1. r = <<"object">>
      BY <2>1 DEF Result
    <3> QED BY <3>1 DEF Tags
  <2>2. CASE ~stack[m].want
    <3>1. r = <<>>
      BY <2>2 DEF Result
    <3> QED BY <2>2, <3>1
  <2> QED BY <2>1, <2>2
<1>4. p = q \o r /\ r = Result(stack[m].want)
  OBVIOUS
<1> HIDE DEF q, r
<1>5. /\ p \in Seq(Tags) /\ Len(p) = Len(q) + Len(r)
      /\ \A i \in 1..(Len(q) + Len(r)) : p[i] = IF i <= Len(q) THEN q[i] ELSE r[i - Len(q)]
  BY <1>2, <1>3, <1>4, ConcatProperties, SMTT(30)
<1>6. Len(p) = stack[m].frame + Len(Result(stack[m].want))
  BY <1>1, <1>2, <1>4, <1>5
<1>7. \A i \in 1..stack[m].frame : p[i] = ops[i]
  <2> TAKE i \in 1..stack[m].frame
  <2>1. i \in 1..(Len(q) + Len(r)) /\ i <= Len(q)
    BY <1>1, <1>2, <1>3
  <2> QED BY <1>1, <1>2, <1>5, <2>1
<1>8. ASSUME stack[m].want PROVE p[stack[m].frame + 1] = "object"
  <2>1. /\ stack[m].frame + 1 = Len(q) + 1 /\ Len(q) + 1 \in 1..(Len(q) + Len(r))
        /\ ~(Len(q) + 1 <= Len(q)) /\ (Len(q) + 1) - Len(q) = 1
    <3>1. Len(r) = 1 /\ Len(q) \in Nat
      BY <1>2, <1>3, <1>8
    <3>2. Len(q) + 1 \in 1..(Len(q) + Len(r)) /\ ~(Len(q) + 1 <= Len(q)) /\ (Len(q) + 1) - Len(q) = 1
      BY <3>1
    <3>3. stack[m].frame + 1 = Len(q) + 1
      BY <1>1, <1>2
    <3> QED BY <3>2, <3>3
  <2>2. p[Len(q) + 1] = r[1]
    BY <1>5, <2>1
  <2> QED BY <1>3, <1>8, <2>1, <2>2
<1>9. Len(p) <= Len(ops)
  BY <1>2, <1>3, <1>5, TopFacts
<1> QED BY <1>5, <1>6, <1>7, <1>8, <1>9 DEF Delivers

LEMMA FinishReturnSound == ASSUME FInv, FinishReturn PROVE Sound'
<1>1. Processing /\ Complete /\ Top.kind = "RETURN"
  BY DEF FinishReturn
<1>2. PICK m \in 1..(Len(stack) - 1) :
        /\ ReturningMethod(m)
        /\ Put({}, Front(ctx), SubSeq(blk, 1, Len(blk) - (Len(stack) - 1 - m) - 1),
               SubSeq(stack, 1, m - 1), Front(ops) \o Result(stack[m].want))
  BY DEF FinishReturn
<1> DEFINE n == Len(blk) - (Len(stack) - 1 - m) - 1
           b == SubSeq(blk, 1, n)
           t == SubSeq(stack, 1, m - 1)
           p == Front(ops) \o Result(stack[m].want)
<1>3. Put({}, Front(ctx), b, t, p)
  BY <1>2
<1>4. n \in Int /\ n <= Len(blk) /\ m - 1 \in Nat /\ m - 1 <= Len(stack) /\ m \in 1..Len(stack)
  BY <1>1, TopFacts
<1>5. p \in Seq(Tags) /\ Delivers(p, ops, stack[m]) /\ Len(p) <= Len(ops)
  BY <1>1, <1>2, ReturnDelivers
<1> HIDE DEF n, p
<1>6. b \in Seq(Blocks) /\ Live(b) /\ Len(b) <= Len(blk)
  BY <1>1, <1>4, TopFacts, LivePrefix, PrefixType
<1>7. t \in Seq(Items) /\ Len(t) = m - 1 /\ \A i \in 1..(m - 1) : t[i] = stack[i]
  BY <1>1, <1>4, TopFacts, PrefixType, SMTT(30)
<1> HIDE DEF b, t
<1>8. Len(p) <= Len(ops) + (IF "ops" \in {} THEN 1 ELSE 0)
  BY <1>1, <1>5, LenProperties, TopFacts
<1> QED BY <1>1, <1>3, <1>4, <1>5, <1>6, <1>7, <1>8, Popped, EndSound
-------------------------------------------------------------------------------
\* What lai_exec_process() asserts of the item on top holds in every run.
LEMMA AlwaysEnsured == ASSUME FInv, Running, stack # <<>> PROVE Ensured
<1> DEFINE n == Len(stack)
<1>1. /\ stack \in Seq(Items) /\ ctx \in Seq(BOOLEAN) /\ blk \in Seq(Blocks) /\ Live(blk)
      /\ Framed(stack, ops, status = "eval") /\ Woven(ctx, blk, stack)
  BY DEF FInv, Sound, NInv, IInv, TypeOK
<1>2. /\ n \in Nat /\ n # 0 /\ 1 \in 1..n /\ n \in 1..n /\ 1 \in 0..n /\ n \in 0..n /\ 1 <= n
      /\ Len(ctx) \in Nat /\ Len(blk) \in Nat
  BY <1>1, EmptySeq, LenProperties
<1>3. HasContext(stack[1].kind) /\ HasBlock(stack[1].kind)
  BY <1>1, <1>2 DEF Framed, HasContext, HasBlock
<1>4. stack[1].ctxs \in Nat /\ stack[1].blks \in Nat
  BY <1>1, <1>2, ElementOfSeq DEF Items, ItemRecords
<1>5. Ctxs(stack, 1) = stack[1].ctxs + 1 /\ Blks(stack, 1) = stack[1].blks + 1
  BY <1>3 DEF Ctxs, Blks
<1>6. Ctxs(stack, 1) <= Len(ctx) /\ Blks(stack, 1) <= Len(blk)
  BY <1>1, <1>2 DEF Woven, Aligned, Spans, Span
<1>7. Len(ctx) # 0 /\ Len(blk) # 0
  BY <1>2, <1>4, <1>5, <1>6
<1>8. ctx # <<>> /\ blk # <<>>
  BY <1>7
<1>9. Here.pc <= Here.limit
  <2>1. Len(blk) \in 1..Len(blk)
    BY <1>2, <1>7
  <2> QED BY <1>1, <2>1 DEF Live, Here
<1>10. Gathered(Top, K, ops)
  BY <1>1, <1>2 DEF Framed, Top, K
<1>11. Len(Top.args) \in Nat /\ Top.phase \in 0..2
  BY <1>1, <1>2, ElementOfSeq, LenProperties, SMTT(30) DEF Top, Items, ItemRecords
<1>12. Collects(Top) =>
         /\ K \in 0..Len(Top.args)
         /\ \A i \in 1..K : ops[Top.frame + i] \in TagsOf(Top.args[i])
  BY <1>10, <1>11 DEF Gathered
<1>13. IsPackage(Top) =>
         /\ IF Top.phase = 2 THEN K \in 1..2 ELSE K > Top.phase
         /\ \A i \in 1..K : ops[Top.frame + i] = "object"
  BY <1>10, <1>11 DEF Gathered
<1> QED BY <1>8, <1>9, <1>12, <1>13 DEF Ensured

LEMMA StopSound == ASSUME FInv, Stop PROVE Sound'
<1>1. Running /\ Ensured
  BY AlwaysEnsured DEF Stop
<1>2. Panic("malformed")
  BY <1>1 DEF Stop
<1> QED BY <1>1, <1>2, PanicSound

LEMMA EmptyLive == Live(<<>>)
<1>1. Len(<<>>) = 0
  OBVIOUS
<1> QED BY <1>1 DEF Live

LEMMA ResetSound == ASSUME Reset PROVE Sound'
<1>1. Live(blk')
  BY EmptyLive DEF Reset
<1> QED BY <1>1 DEF Reset, Sound, Running

\* lai_exec_run() finds the stacks as lai_eval_args() or lai_populate() left them.
LEMMA FinishSound == ASSUME FInv, Finish PROVE Sound'
<1>1. Running /\ stack = <<>> /\ Len(<<>>) = 0
  BY DEF Finish
<1>2. Live(blk) /\ Framed(stack, ops, status = "eval") /\ ctx \in Seq(BOOLEAN) /\ Woven(ctx, blk, stack)
  BY <1>1 DEF FInv, Sound, NInv, IInv, TypeOK
<1>3. Len(ops) = IF status = "eval" THEN 1 ELSE 0
  BY <1>1, <1>2 DEF Framed
<1>4. ctx = <<>>
  <2>1. Len(ctx) = 0
    BY <1>1, <1>2 DEF Woven, Aligned, Ctxs
  <2> QED BY <1>2, <2>1, EmptySeq
<1>5. CASE Reset
  BY <1>5, ResetSound
<1>6. CASE status' = "idle" /\ ops' = <<>> /\ blk' = blk
  BY <1>2, <1>6 DEF Sound, Running
<1> QED BY <1>3, <1>4, <1>5, <1>6 DEF Finish

\* A run starts on empty stacks.
LEMMA StartSound == ASSUME FInv, Call \/ Populate PROVE Sound'
<1>1. /\ TypeOK /\ stack = <<>> /\ ops = <<>> /\ blk \in Seq(Blocks) /\ Live(blk) /\ Len(ops) = 0
      /\ ops' = ops
  <2>1. status = "idle" /\ ops' = ops
    BY DEF Call, Populate
  <2>2. ops = <<>> /\ stack = <<>>
    BY <2>1 DEF FInv, Sound, NInv
  <2> QED BY <2>1, <2>2 DEF FInv, Sound, NInv, IInv, TypeOK
<1>2. Live(blk')
  <2>1. PICK size \in CodeSizes : blk' = Append(blk, Block(0, size))
    BY DEF Call, Populate
  <2>2. size \in Nat /\ 0 <= size
    BY BoundsAssumption
  <2> QED BY <1>1, <2>1, <2>2, LiveAppend
<1>3. <<>> \in Seq(Modes \cup {"placed"}) /\ NoBlock \in Blocks
  BY DEF NoBlock, Block, Blocks
<1>4. CASE Call
  <2> DEFINE item == Item("METHOD", 0, TRUE, <<>>, NoBlock)
  <2>1. stack' = Append(<<>>, item) /\ status' = "eval"
    BY <1>1, <1>4 DEF Call
  <2>2. item \in Items
    BY <1>1, <1>3, ItemType DEF ItemKinds
  <2>3. item.kind = "METHOD" /\ item.frame = 0 /\ item.want = TRUE /\ Len(item.args) = 0
    BY DEF Item
  <2> HIDE DEF item
  <2>4. Shaped(item) /\ HasContext(item.kind)
    BY <2>3 DEF Shaped, HasContext
  <2>5. (item.want <=> TRUE) /\ TRUE \in BOOLEAN
    BY <2>3
  <2>6. Framed(Append(<<>>, item), <<>>, TRUE)
    BY <2>2, <2>3, <2>4, <2>5, StartFramed
  <2> QED BY <1>1, <1>2, <2>1, <2>6 DEF Sound
<1>5. CASE Populate
  <2> DEFINE item == Item("POPULATE", 0, FALSE, <<>>, NoBlock)
  <2>1. stack' = Append(<<>>, item) /\ status' = "populate"
    BY <1>1, <1>5 DEF Populate
  <2>2. item \in Items
    BY <1>1, <1>3, ItemType DEF ItemKinds
  <2>3. item.kind = "POPULATE" /\ item.frame = 0 /\ item.want = FALSE /\ Len(item.args) = 0
    BY DEF Item
  <2> HIDE DEF item
  <2>4. Shaped(item) /\ HasContext(item.kind)
    BY <2>3 DEF Shaped, HasContext
  <2>5. (item.want <=> FALSE) /\ FALSE \in BOOLEAN
    BY <2>3
  <2>6. Framed(Append(<<>>, item), <<>>, FALSE)
    BY <2>2, <2>3, <2>4, <2>5, StartFramed
  <2> QED BY <1>1, <1>2, <2>1, <2>6 DEF Sound
<1> QED BY <1>4, <1>5

LEMMA StepFInv ==
    ASSUME Kinds \cap {"VARPACKAGE", "BANKFIELD"} = {}, FInv, [Next]_vars PROVE FInv'
<1>1. NInv'
  BY StepNInv DEF FInv
<1> SUFFICES Sound'
  BY <1>1 DEF FInv
<1>2. CASE Call \/ Populate
  BY <1>2, StartSound
<1>3. CASE Finish
  BY <1>3, FinishSound
<1>4. CASE ParseStatement \/ \E mode \in Modes : ParseOperand(mode)
  BY <1>4, ParseStatementSound, ParseOperandSound
<1>5. CASE ParseIfElse \/ \E mode \in Modes : ParseItem(mode)
  BY <1>5, ParseIfElseSound, ParseItemSound
<1>6. CASE ParseContinue \/ ParseBreak
  BY <1>6, ParseContinueSound, ParseBreakSound
<1>7. CASE FinishOperator \/ FinishNode
  BY <1>7, FinishOperatorSound, FinishNodeSound
<1>8. CASE InvokeOverride \/ InvokeMethod
  BY <1>8, InvokeOverrideSound, InvokeMethodSound
<1>9. CASE FinishReturn \/ MethodEnds
  BY <1>9, FinishReturnSound, MethodEndsSound
<1>10. CASE BlockEnds \/ LoopRepeats
  BY <1>10, BlockEndsSound, LoopRepeatsSound
<1>11. CASE PredicateHolds \/ PredicateFails \/ TakeElse
  BY <1>11, PredicateHoldsSound, PredicateFailsSound, TakeElseSound
<1>12. CASE CreatePackage \/ PackageEnds
  BY <1>12, CreatePackageSound, PackageEndsSound
<1>13. CASE Fail
  BY <1>13, ResetSound DEF Fail
<1>14. CASE Stop
  BY <1>14, StopSound
<1>15. CASE Halted \/ UNCHANGED vars
  BY <1>15 DEF Halted, vars, FInv, Sound, Running
<1> QED
  BY <1>2, <1>3, <1>4, <1>5, <1>6, <1>7, <1>8, <1>9, <1>10, <1>11, <1>12, <1>13, <1>14, <1>15
     DEF Next, Process

LEMMA InitFInv == Init => FInv
<1> SUFFICES ASSUME Init PROVE FInv
  OBVIOUS
<1>1. Len(<<>>) = 0 /\ stack = <<>>
  BY DEF Init
<1>2. NInv
  BY <1>1, InitType, EmptyWoven DEF Init, NInv, IInv, Nest
<1>3. Sound
  BY EmptyLive DEF Init, Sound, Running
<1> QED BY <1>2, <1>3 DEF FInv

\* For every AML without VarPackage and BankField, every capacity and every set of
\* operators: lai_exec_process() never fails an LAI_ENSURE.  No push on any of the
\* four arrays is made without room, each item finds as many operands above its
\* frame as it asserts, of the kinds it asserts, and lai_exec_run() ends with an
\* empty context stack and nothing but the result on the operand stack.
THEOREM EnsuresHold ==
    ASSUME Kinds \cap {"VARPACKAGE", "BANKFIELD"} = {} PROVE Spec => []NoEnsureFires
<1>1. Init => FInv
  BY InitFInv
<1>2. FInv /\ [Next]_vars => FInv'
  BY StepFInv
<1>3. FInv => NoEnsureFires
  BY DEF FInv, Sound, NoEnsureFires
<1> QED BY <1>1, <1>2, <1>3, PTL DEF Spec
-------------------------------------------------------------------------------
\* A step that goes on has done what it meant to.
LEMMA PutTakes ==
    ASSUME NEW arrays, NEW c, NEW b, NEW s, NEW o, Put(arrays, c, b, s, o), Running'
    PROVE  ctx' = c /\ blk' = b /\ stack' = s /\ ops' = o
  BY DEF Put, Panic, Running

\* A step that makes the execution stack lower leaves a method at its end or by
\* Return only.
LEMMA OnlyReturnsLeave ==
    ASSUME FInv, Next, Running', NEW m \in 1..Len(stack), stack[m].kind = "METHOD", Len(stack') < m
    PROVE  MethodEnds \/ FinishReturn
<1>1. stack \in Seq(Items) /\ Len(stack) \in Nat /\ m \in Nat /\ m <= Len(stack) /\ DOMAIN stack = 1..Len(stack)
  BY LenProperties DEF FInv, NInv, IInv, TypeOK
<1>2. Len(stack') # Len(stack) /\ stack # <<>> /\ TypeOK
  BY <1>1 DEF FInv, NInv, IInv
<1>3. stack' # stack
  BY <1>2
<1>4. ASSUME Processing, NEW t, Reshapes(t) PROVE stack' # t
  BY <1>2, <1>4 DEF Reshapes
<1>5. ASSUME Processing, Top.kind # "METHOD" PROVE stack' # Front(stack)
  <2>1. Len(Front(stack)) = Len(stack) - 1 /\ Top = stack[Len(stack)]
    BY <1>5, Popped, TopFacts
  <2> QED BY <1>1, <1>5, <2>1
<1>6. ~(Call \/ Populate \/ Finish)
  BY <1>2 DEF Call, Populate, Finish, FInv, NInv
<1>7. ~ParseStatement
  BY <1>3, PutTakes DEF ParseStatement
<1>8. ASSUME NEW mode \in Modes PROVE ~ParseOperand(mode)
  <2> SUFFICES ASSUME ParseOperand(mode) PROVE FALSE
    OBVIOUS
  <2>1. Processing
    BY DEF ParseOperand, Parses
  <2>2. PICK leaf \in Leaves(mode) : stack' = Advanced(leaf[2])
    BY PutTakes DEF ParseOperand
  <2> QED BY <1>2, <1>4, <2>1, <2>2, AdvancedShape
<1>9. ASSUME Processing, NEW form, NEW mode, NEW limit, NEW alt, NEW next
      PROVE  ~Open(form, mode, limit, alt, next)
  <2> SUFFICES ASSUME Open(form, mode, limit, alt, next) PROVE FALSE
    OBVIOUS
  <2> DEFINE t == Advanced(Reserved(form))
             item == Item(form.kind, Len(Settled), mode # "exec", form.args, alt)
  <2>1. stack' = Append(t, item)
    BY PutTakes DEF Open
  <2>2. t \in Seq(Items) /\ Len(t) = Len(stack)
    BY <1>2, <1>9, AdvancedShape, AdvancedType DEF Reshapes
  <2> HIDE DEF t, item
  <2>3. Len(Append(t, item)) = Len(t) + 1
    BY <2>2
  <2> QED BY <1>1, <2>1, <2>2, <2>3
<1>10. ~(ParseIfElse \/ \E mode \in Modes : ParseItem(mode))
  BY <1>9 DEF ParseIfElse, ParseItem, Parses
<1>11. ASSUME Processing, NEW k \in DOMAIN stack, InnermostLoop(k) PROVE m < k
  <2>1. \A i \in k..Len(stack) : stack[i].kind # "METHOD"
    BY <1>1, <1>11 DEF InnermostLoop
  <2> QED BY <1>1, <1>11, <2>1
<1>12. ~ParseContinue
  <2> SUFFICES ASSUME ParseContinue PROVE FALSE
    OBVIOUS
  <2>1. Processing
    BY DEF ParseContinue, Parses
  <2> DEFINE Left(k) == SubSeq(blk, 1, Len(blk) - (Len(stack) - k))
             Rest(k) == [Left(k) EXCEPT ![Len(Left(k))].pc = Left(k)[Len(Left(k))].limit]
  <2>0. PICK k \in DOMAIN stack :
           InnermostLoop(k) /\ Put({}, ctx, Rest(k), SubSeq(stack, 1, k), ops)
    BY DEF ParseContinue
  <2> HIDE DEF Rest
  <2>2. InnermostLoop(k) /\ stack' = SubSeq(stack, 1, k)
    BY <2>0, PutTakes
  <2>3. m < k /\ k \in Int /\ k >= 0 /\ k <= Len(stack)
    BY <1>1, <1>11, <2>1, <2>2
  <2>4. Len(stack') = k
    BY <1>1, <2>2, <2>3, PrefixType
  <2> QED BY <1>1, <2>3, <2>4
<1>13. ~ParseBreak
  <2> SUFFICES ASSUME ParseBreak PROVE FALSE
    OBVIOUS
  <2>1. Processing
    BY DEF ParseBreak, Parses
  <2>0. PICK k \in DOMAIN stack :
           /\ InnermostLoop(k)
           /\ Put({}, ctx, SubSeq(blk, 1, Len(blk) - (Len(stack) - k) - 1),
                  SubSeq(stack, 1, k - 1), ops)
    BY DEF ParseBreak
  <2>2. InnermostLoop(k) /\ stack' = SubSeq(stack, 1, k - 1)
    BY <2>0, PutTakes
  <2>3. m < k /\ k - 1 \in Int /\ k - 1 >= 0 /\ k - 1 <= Len(stack) /\ k \in Int
    BY <1>1, <1>11, <2>1, <2>2
  <2>4. Len(stack') = k - 1
    BY <1>1, <2>2, <2>3, PrefixType
  <2> QED BY <1>1, <2>3, <2>4
<1>14. ~(FinishOperator \/ FinishNode \/ InvokeOverride)
  BY <1>5, PutTakes DEF FinishOperator, FinishNode, InvokeOverride
<1>15. ~InvokeMethod
  <2> SUFFICES ASSUME InvokeMethod PROVE FALSE
    OBVIOUS
  <2> DEFINE item == Item("METHOD", Top.frame, Top.want, <<>>, NoBlock)
  <2>1. stack' = Append(Front(stack), item)
    BY PutTakes DEF InvokeMethod
  <2>2. Front(stack) \in Seq(Items) /\ Len(Front(stack)) = Len(stack) - 1
    BY Popped DEF InvokeMethod
  <2> HIDE DEF item
  <2>3. Len(Append(Front(stack), item)) = Len(Front(stack)) + 1
    BY <2>2
  <2> QED BY <1>1, <1>2, <2>1, <2>2, <2>3
<1>16. ~(BlockEnds \/ PredicateFails \/ PackageEnds)
  BY <1>5, PutTakes DEF BlockEnds, PredicateFails, PackageEnds, IsPackage
<1>17. ASSUME NEW phase \in 0..2, Processing, phase = 2 => IsPackage(Top)
       PROVE  stack' # [stack EXCEPT ![Len(stack)].phase = phase]
  BY <1>2, <1>4, <1>17, PhaseShape
<1>18. ~(LoopRepeats \/ PredicateHolds \/ TakeElse \/ CreatePackage)
  <2>1. 0 \in 0..2 /\ 1 \in 0..2 /\ 2 \in 0..2 /\ 0 # 2 /\ 1 # 2
    OBVIOUS
  <2> QED BY <1>17, <2>1, PutTakes DEF LoopRepeats, PredicateHolds, TakeElse, CreatePackage
<1>19. ~(Fail \/ Stop \/ Halted)
  BY <1>3 DEF Fail, Reset, Stop, Panic, Halted, vars, Running
<1> QED BY <1>6, <1>7, <1>8, <1>10, <1>12, <1>13, <1>14, <1>15, <1>16, <1>18, <1>19
        DEF Next, Process

\* What an item that is popped leaves behind.
Balanced(m) ==
    /\ stack' = SubSeq(stack, 1, m - 1)
    /\ ops' = SubSeq(ops, 1, stack[m].frame) \o Result(stack[m].want)
    /\ Len(ctx') = stack[m].ctxs /\ Len(blk') = stack[m].blks

LEMMA MethodEndsBalanced ==
    ASSUME FInv, MethodEnds, Running', NEW m \in 1..Len(stack), Len(stack') < m
    PROVE  Balanced(m)
<1>1. Processing /\ Top.kind = "METHOD" /\ HasContext(Top.kind) /\ HasBlock(Top.kind)
  BY DEF MethodEnds, HasContext, HasBlock
<1>2. ops = <<>> /\ Put({"ops"}, Front(ctx), Front(blk), Front(stack), Result(Top.want))
  BY DEF MethodEnds, Panic, Running
<1>3. ctx' = Front(ctx) /\ blk' = Front(blk) /\ stack' = Front(stack) /\ ops' = Result(Top.want)
  BY <1>2, PutTakes
<1>4. m = Len(stack)
  BY <1>1, <1>3, Popped, TopFacts, SMTT(30)
<1>5. Top = stack[m] /\ stack' = SubSeq(stack, 1, m - 1)
  BY <1>3, <1>4 DEF Top, Front
<1>6. ops' = SubSeq(ops, 1, stack[m].frame) \o Result(stack[m].want)
  <2>1. Top.frame = 0
    <3>1. Len(ops) = 0
      BY <1>2
    <3> QED BY <1>1, <3>1, TopFacts
  <2>2. SubSeq(<<>>, 1, 0) = <<>>
    OBVIOUS
  <2>3. Result(Top.want) \in Seq(Tags)
    BY <1>1, TopFacts, OperandTypes
  <2>4. <<>> \o Result(Top.want) = Result(Top.want)
    <3> DEFINE r == Result(Top.want)
    <3> HIDE DEF r
    <3>1. ASSUME r \in Seq(Tags) PROVE <<>> \o r = r
      BY <3>1
    <3> QED BY <2>3, <3>1 DEF r
  <2> QED BY <1>2, <1>3, <1>5, <2>1, <2>2, <2>4
<1>7. /\ Len(ctx) = Top.ctxs + 1 /\ Len(blk) = Top.blks + 1 /\ Top.ctxs \in Nat /\ Top.blks \in Nat
  <2>1. Len(ctx) = Ctxs(stack, m) /\ Len(blk) = Blks(stack, m) /\ m # 0
    BY <1>1, <1>4, TopOwns DEF FInv, NInv
  <2>2. Top.ctxs \in Nat /\ Top.blks \in Nat
    BY <1>1, TopFacts DEF Items, ItemRecords
  <2> QED BY <1>1, <1>5, <2>1, <2>2 DEF Ctxs, Blks
<1>8. Len(Front(ctx)) = Len(ctx) - 1 /\ Len(Front(blk)) = Len(blk) - 1
  BY <1>1, TopFacts, ProcessingTypes, FrontType
<1>9. Len(ctx') = stack[m].ctxs /\ Len(blk') = stack[m].blks
  <2>1. Len(ctx') = Len(ctx) - 1 /\ Len(blk') = Len(blk) - 1
    BY <1>3, <1>8
  <2>2. Len(ctx) - 1 = Top.ctxs /\ Len(blk) - 1 = Top.blks
    BY <1>7, SMTT(30)
  <2> QED BY <1>5, <2>1, <2>2
<1> QED BY <1>5, <1>6, <1>9 DEF Balanced

LEMMA FinishReturnBalanced ==
    ASSUME FInv, FinishReturn, Running', NEW m \in 1..Len(stack), stack[m].kind = "METHOD",
           Len(stack') < m
    PROVE  Balanced(m)
<1>1. Processing /\ Complete /\ Top.kind = "RETURN" /\ IInv
  BY DEF FinishReturn, FInv, NInv
<1>2. PICK k \in 1..(Len(stack) - 1) :
        /\ ReturningMethod(k)
        /\ ctx' = Front(ctx) /\ blk' = SubSeq(blk, 1, Len(blk) - (Len(stack) - 1 - k) - 1)
        /\ stack' = SubSeq(stack, 1, k - 1) /\ ops' = Front(ops) \o Result(stack[k].want)
  BY PutTakes DEF FinishReturn
<1>3. stack \in Seq(Items) /\ Len(stack) \in Nat /\ Top = stack[Len(stack)] /\ blk \in Seq(Blocks) /\ Len(blk) \in Nat
  BY <1>1, TopFacts
<1>4. k = m
  <2>1. Len(stack') = k - 1
    BY <1>2, <1>3, PrefixType
  <2>2. ASSUME NEW i \in (k + 1)..Len(stack) PROVE stack[i].kind # "METHOD"
    <3>1. CASE i = Len(stack)
      BY <1>1, <1>3, <3>1
    <3>2. CASE i \in (k + 1)..(Len(stack) - 1)
      BY <1>2, <3>2 DEF ReturningMethod
    <3> QED BY <1>3, <2>2, <3>1, <3>2
  <2> QED BY <1>3, <2>1, <2>2
<1>5. ops' = SubSeq(ops, 1, stack[m].frame) \o Result(stack[m].want)
  <2>1. stack[m].frame = Len(ops) - 1
    BY <1>1, <1>2, <1>4, ReturnFrames
  <2> QED BY <1>2, <1>4, <2>1 DEF Front
<1>6. /\ Len(ctx) - 1 = Ctxs(stack, m - 1)
      /\ Len(blk) - (Len(stack) - 1 - m) - 1 = Blks(stack, m - 1)
      /\ Ctxs(stack, m - 1) \in Nat /\ Blks(stack, m - 1) \in Nat
  BY <1>1, <1>2, <1>4, ReturnSpan
<1>7. stack[m].ctxs = Ctxs(stack, m - 1) /\ stack[m].blks = Blks(stack, m - 1)
  BY <1>1 DEF IInv, Woven, Aligned
<1>8. Len(ctx') = stack[m].ctxs
  <2>1. Len(Front(ctx)) = Len(ctx) - 1
    BY <1>1, TopFacts, ProcessingTypes, FrontType
  <2> QED BY <1>2, <1>6, <1>7, <2>1
<1>9. Len(blk') = stack[m].blks
  <2> DEFINE n == Blks(stack, m - 1)
  <2>1. blk' = SubSeq(blk, 1, n) /\ n \in Nat
    BY <1>2, <1>4, <1>6
  <2>2. n <= Len(blk)
    BY <1>2, <1>3, <1>4, <1>6
  <2>3. n = Blks(stack, m - 1)
    OBVIOUS
  <2> HIDE DEF n
  <2>4. Len(SubSeq(blk, 1, n)) = n
    BY <1>3, <2>1, <2>2, PrefixType
  <2> QED BY <1>7, <2>1, <2>3, <2>4
<1> QED BY <1>2, <1>4, <1>5, <1>8, <1>9 DEF Balanced

\* For every AML without VarPackage and BankField, every capacity and every set of
\* operators: a method that is left, by Return out of any nesting of loops and
\* conditions or at its end, leaves the four stacks as its caller had them, with the
\* result that the caller wants on top of the operands and nothing else.
THEOREM CallsBalanced ==
    ASSUME Kinds \cap {"VARPACKAGE", "BANKFIELD"} = {} PROVE Spec => CallsReturnBalanced
<1>1. Init => FInv
  BY InitFInv
<1>2. FInv /\ [Next]_vars => FInv'
  BY StepFInv
<1>3. FInv /\ [Next]_vars =>
        [\A m \in DOMAIN stack :
            stack[m].kind = "METHOD" /\ Len(stack') < m /\ Running' =>
                /\ stack' = SubSeq(stack, 1, m - 1)
                /\ ops' = SubSeq(ops, 1, stack[m].frame) \o Result(stack[m].want)
                /\ Len(ctx') = stack[m].ctxs /\ Len(blk') = stack[m].blks]_vars
  <2> SUFFICES ASSUME FInv, Next, NEW m \in DOMAIN stack, stack[m].kind = "METHOD",
                      Len(stack') < m, Running'
               PROVE  Balanced(m)
    BY DEF Balanced
  <2>1. m \in 1..Len(stack)
    BY LenProperties DEF FInv, NInv, IInv, TypeOK
  <2>2. MethodEnds \/ FinishReturn
    BY <2>1, OnlyReturnsLeave
  <2> QED BY <2>1, <2>2, MethodEndsBalanced, FinishReturnBalanced
<1> QED BY <1>1, <1>2, <1>3, PTL DEF Spec, CallsReturnBalanced
===============================================================================
