----------------------------- MODULE LaiEcProofs -----------------------------
(***************************************************************************)
(* The embedded controller driver, for every size of the controller's      *)
(* memory, every set of events, every width of access and every number of  *)
(* calls: what AML stores it reads back, events arrive once, burst mode is *)
(* never refused, and the input buffer is overwritten only by              *)
(* enable_burst().                                                         *)
(***************************************************************************)
EXTENDS LaiEc, TLAPS

\* What the driver calls are, and which of them reach which place.
OpOK ==
    /\ DOMAIN op.source \subseteq Bytes
    /\ pc \in {"enable", "enabled"} => left = DOMAIN op.source
    /\ pc \in {"enable", "enabled"} => op.kind \in {"read", "write", "query"}
    /\ pc \in {"command", "offset"} => op.kind \in {"read", "write"}
    /\ pc = "value" => op.kind = "write"
    /\ pc = "data" => op.kind = "read"
    /\ pc \in {"query", "asked", "fetch"} => op.kind = "query"
    /\ pc \in {"disable", "disabled"} => op.kind # "none"
    /\ pc \in {"offset", "value", "data"} => at \in DOMAIN op.source

\* What the controller may still be doing between two commands: it leaves burst
\* mode, or a value is on its way to the memory.
Rested ==
    /\ ~obf
    /\ \/ ibf = "clear" /\ phase \in {"idle", "leave"}
       \/ ibf = "command" /\ inbyte = "BURST_DISABLE" /\ phase = "idle"
       \/ ibf = "data" /\ phase = "value"

Free == ibf = "clear" /\ phase = "idle"
Waiting(command) == ibf = "command" /\ inbyte = command /\ ~obf
\* The controller is about to answer with b, or has done so.
Answering(b) ==
    /\ ibf = "clear"
    /\ \/ phase = "answer" /\ ~obf /\ arg = b
       \/ phase = "idle" /\ obf /\ latch = b
Leaving ==
    \/ ibf = "command" /\ inbyte = "BURST_DISABLE" /\ phase = "idle"
    \/ ibf = "clear" /\ phase \in {"idle", "leave"}

\* Where the controller is while the driver is at a place.
Handshake ==
    /\ pc \in {"idle", "astray", "enable", "command"} => Rested
    /\ pc = "enabled" =>
         \/ Waiting("BURST_ENABLE") /\ phase \in {"idle", "leave", "value"}
         \/ Answering(Ack)
    /\ pc = "query" => Free /\ ~obf
    /\ pc = "asked" =>
         \/ Waiting("QUERY") /\ phase = "idle"
         \/ \E b \in Bytes : Answering(b)
    /\ pc = "offset" =>
         \/ Waiting(IF op.kind = "read" THEN "READ" ELSE "WRITE") /\ phase \in {"idle", "leave"}
         \/ ibf = "clear" /\ ~obf /\ phase = IF op.kind = "read" THEN "read" ELSE "write"
    /\ pc = "data" =>
         \/ ibf = "data" /\ inbyte = Offset(at) /\ phase = "read" /\ ~obf
         \/ Answering(ram[Offset(at)])
    /\ pc = "value" =>
         /\ ~obf
         /\ \/ ibf = "data" /\ inbyte = Offset(at) /\ phase = "write"
            \/ ibf = "clear" /\ phase = "value" /\ arg = Offset(at)
    /\ pc = "disable" =>
         \/ Free /\ (obf <=> op.kind = "query")
         \/ op.kind = "write" /\ ibf = "data" /\ phase = "value" /\ ~obf
    /\ pc = "disabled" => Leaving /\ (obf <=> op.kind = "query")
    /\ pc = "fetch" => Leaving /\ obf
    /\ pc # "panicked"

\* A BURST_DISABLE that nobody waits for any more changes nothing.
DisableIdle == ibf = "command" /\ inbyte = "BURST_DISABLE" /\ burst => pc = "disabled"

\* The memory is as it should be, but for the value on its way.
Memory ==
    ideal = IF ibf = "data" /\ phase = "value" THEN [ram EXCEPT ![arg] = inbyte] ELSE ram

\* The handshake tells what the byte in a buffer means, and is needed for all else.
IInv ==
    TypeOK /\ OpOK /\ Handshake /\ DisableIdle /\ Memory
    /\ ReadsReturnWhatWasStored /\ QueriesExact

\* An offset is one of the controller's memory, however far the access goes.
LEMMA OffsetType == ASSUME op.base \in Bytes, NEW i \in Bytes PROVE Offset(i) \in Bytes
  BY BytesAssumption DEF Offset, Bytes

\* The calls that the host makes.
LEMMA OperationsType ==
    ASSUME NEW o \in Operations
    PROVE  /\ o.kind \in {"read", "write", "query"} /\ o.region \in BOOLEAN
           /\ o.base \in Bytes /\ DOMAIN o.source \subseteq Bytes
           /\ \A i \in DOMAIN o.source : o.source[i] \in Bytes
           /\ o.kind = "query" => ~o.region
<1>1. {0} \subseteq Bytes /\ Values \subseteq Bytes
  BY BytesAssumption DEF Bytes
<1>2. ASSUME NEW values, values \subseteq Bytes, o.source \in Accesses(values)
      PROVE  DOMAIN o.source \subseteq Bytes /\ \A i \in DOMAIN o.source : o.source[i] \in Bytes
  <2>1. PICK w \in Widths : o.source \in [0..w - 1 -> values]
    BY <1>2 DEF Accesses
  <2>2. 0..w - 1 \subseteq Bytes
    BY BytesAssumption DEF Bytes
  <2> QED BY <1>2, <2>1, <2>2
<1>3. CASE o \in Reads
  BY <1>1, <1>2, <1>3 DEF Reads
<1>4. CASE o \in Writes
  BY <1>1, <1>2, <1>4 DEF Writes
<1>5. CASE o \in Queries
  BY <1>1, <1>5 DEF Queries
<1> QED BY <1>3, <1>4, <1>5 DEF Operations

LEMMA InitInv == Init => IInv
<1> SUFFICES ASSUME Init PROVE IInv
  OBVIOUS
<1>1. 0 \in Bytes /\ \A b \in {0} : b \in Bytes
  BY BytesAssumption DEF Bytes
<1>2. op.kind = "none" /\ op.region = FALSE /\ op.base = 0 /\ op.source = [i \in {0} |-> 0]
  BY DEF Init
<1>3. TypeOK
  <2>1. op.kind \in {"none", "read", "write", "query"} /\ op.region \in BOOLEAN
        /\ op.base \in Bytes /\ \A i \in DOMAIN op.source : op.source[i] \in Bytes
    BY <1>1, <1>2
  <2>2. got \in [Bytes -> Bytes] /\ ram \in [Bytes -> Bytes]
    BY <1>1 DEF Init
  <2>3. calls \in 0..MaxCalls
    BY BytesAssumption DEF Init
  <2> QED BY <1>1, <2>1, <2>2, <2>3 DEF Init, TypeOK
<1>4. OpOK
  BY <1>1, <1>2 DEF Init, OpOK
<1>5. Handshake
  BY DEF Init, Handshake, Rested
<1>6. DisableIdle /\ Memory
  BY DEF Init, DisableIdle, Memory
<1>7. ReadsReturnWhatWasStored /\ QueriesExact
  BY <1>2 DEF Init, ReadsReturnWhatWasStored, QueriesExact, InTransit
<1> QED BY <1>3, <1>4, <1>5, <1>6, <1>7 DEF IInv

LEMMA InitPortsInv == ASSUME IInv, NEW found \in SUBSET {"cmd", "data"}, InitPorts(found) PROVE IInv'
<1> USE DEF IInv, InitPorts, Quiet, QuietPorts, historyVars
<1>1. TypeOK'
  BY DEF TypeOK
<1>2. OpOK'
  BY DEF OpOK
<1>3. Handshake'
  BY DEF Handshake, Rested
<1>4. DisableIdle'
  BY DEF DisableIdle
<1>5. Memory'
  BY DEF Memory
<1>6. ReadsReturnWhatWasStored'
  BY DEF ReadsReturnWhatWasStored, Offset
<1>7. QueriesExact'
  BY DEF QueriesExact, InTransit
<1> QED BY <1>1, <1>2, <1>3, <1>4, <1>5, <1>6, <1>7

LEMMA CallInv == ASSUME IInv, NEW o \in Operations, Call(o) PROVE IInv'
<1> USE DEF IInv, Call, Quiet, QuietPorts, historyVars
<1>1. TypeOK'
  <2>1. calls' \in 0..MaxCalls
    BY BytesAssumption DEF TypeOK
  <2>2. CASE Ready
    <3>1. [i \in Bytes |-> 0] \in [Bytes -> Bytes]
      BY BytesAssumption DEF Bytes
    <3> QED BY <2>1, <2>2, <3>1, OperationsType DEF TypeOK
  <2>3. CASE ~Ready
    BY <2>1, <2>3 DEF TypeOK
  <2> QED BY <2>2, <2>3
<1>2. OpOK'
  BY OperationsType DEF OpOK
<1>3. Handshake'
  BY DEF Handshake, Rested
<1>4. DisableIdle'
  BY DEF DisableIdle
<1>5. Memory'
  BY DEF Memory
<1>6. ReadsReturnWhatWasStored'
  BY DEF ReadsReturnWhatWasStored, Offset
<1>7. QueriesExact'
  BY DEF QueriesExact, InTransit
<1> QED BY <1>1, <1>2, <1>3, <1>4, <1>5, <1>6, <1>7

LEMMA EnableBurstInv == ASSUME IInv, EnableBurst PROVE IInv'
<1> USE DEF IInv, EnableBurst, Out, Quiet
<1>1. TypeOK'
  BY DEF TypeOK, Commands
<1>2. OpOK'
  BY DEF OpOK
<1>3. Handshake'
  BY DEF Handshake, Rested, Waiting
<1>4. DisableIdle'
  BY DEF DisableIdle
<1>5. Memory'
  BY DEF Memory
<1>6. ReadsReturnWhatWasStored'
  BY DEF ReadsReturnWhatWasStored, OpOK
<1>7. QueriesExact'
  BY DEF QueriesExact, InTransit
<1> QED BY <1>1, <1>2, <1>3, <1>4, <1>5, <1>6, <1>7

LEMMA BurstGrantedInv == ASSUME IInv, BurstGranted PROVE IInv'
<1> USE DEF IInv, BurstGranted, historyVars
<1>1. TypeOK'
  BY OperationsType, OffsetType, ZenonT(30) DEF TypeOK
<1>2. OpOK'
  BY DEF OpOK
<1>3. Handshake'
  BY DEF Handshake, Rested, Free, Waiting, Answering
<1>4. DisableIdle'
  BY DEF DisableIdle
<1>5. Memory'
  BY DEF Memory
<1>6. ReadsReturnWhatWasStored'
  BY DEF ReadsReturnWhatWasStored, Offset
<1>7. QueriesExact'
  BY DEF QueriesExact, InTransit
<1> QED BY <1>1, <1>2, <1>3, <1>4, <1>5, <1>6, <1>7

LEMMA QueryInv == ASSUME IInv, Query PROVE IInv'
<1> USE DEF IInv, Query, Out, Quiet, historyVars
<1>1. TypeOK'
  BY DEF TypeOK, Commands
<1>2. OpOK'
  BY DEF OpOK
<1>3. Handshake'
  BY DEF Handshake, Free, Waiting
<1>4. DisableIdle'
  BY DEF DisableIdle
<1>5. Memory'
  BY DEF Memory, Handshake, Free
<1>6. ReadsReturnWhatWasStored'
  BY DEF ReadsReturnWhatWasStored, Offset
<1>7. QueriesExact'
  BY DEF QueriesExact, InTransit, Handshake, Free
<1> QED BY <1>1, <1>2, <1>3, <1>4, <1>5, <1>6, <1>7

LEMMA AnsweredInv == ASSUME IInv, Answered PROVE IInv'
<1> USE DEF IInv, Answered, Quiet, QuietPorts, historyVars
<1>1. TypeOK'
  BY DEF TypeOK
<1>2. OpOK'
  BY DEF OpOK
<1>3. Handshake'
  BY DEF Handshake, Free, Waiting, Answering, OpOK
<1>4. DisableIdle'
  BY DEF DisableIdle
<1>5. Memory'
  BY DEF Memory
<1>6. ReadsReturnWhatWasStored'
  BY DEF ReadsReturnWhatWasStored, Offset
<1>7. QueriesExact'
  BY DEF QueriesExact, InTransit
<1> QED BY <1>1, <1>2, <1>3, <1>4, <1>5, <1>6, <1>7

LEMMA CommandInv == ASSUME IInv, NEW i \in left, Command(i) PROVE IInv'
<1> USE DEF IInv, Command, Out, Quiet, historyVars
<1>1. TypeOK'
  BY DEF TypeOK, Commands, OpOK
<1>2. OpOK'
  BY DEF OpOK, TypeOK
<1>3. Handshake'
  BY DEF Handshake, Rested, Waiting
<1>4. DisableIdle'
  BY DEF DisableIdle
<1>5. Memory'
  BY DEF Memory
<1>6. ReadsReturnWhatWasStored'
  BY DEF ReadsReturnWhatWasStored, Offset
<1>7. QueriesExact'
  BY DEF QueriesExact, InTransit
<1> QED BY <1>1, <1>2, <1>3, <1>4, <1>5, <1>6, <1>7

LEMMA SendOffsetInv == ASSUME IInv, SendOffset PROVE IInv'
<1> USE DEF IInv, SendOffset, Out, Quiet, historyVars
<1>1. TypeOK'
  BY OffsetType DEF TypeOK
<1>2. OpOK'
  BY DEF OpOK
<1>3. Handshake'
  BY DEF Handshake, Waiting, Offset
<1>4. DisableIdle'
  BY DEF DisableIdle
<1>5. Memory'
  BY DEF Memory, Handshake
<1>6. ReadsReturnWhatWasStored'
  BY DEF ReadsReturnWhatWasStored, Offset
<1>7. QueriesExact'
  BY DEF QueriesExact, InTransit
<1> QED BY <1>1, <1>2, <1>3, <1>4, <1>5, <1>6, <1>7

LEMMA SendValueInv == ASSUME IInv, SendValue PROVE IInv'
<1> USE DEF IInv, SendValue, Out, Quiet, Rest
<1>1. TypeOK'
  BY ZenonT(30) DEF TypeOK, OpOK
<1>2. OpOK'
  BY DEF OpOK
<1>3. Handshake'
  BY DEF Handshake, Rested, OpOK
<1>4. DisableIdle'
  BY DEF DisableIdle
<1>5. Memory'
  BY DEF Memory, Handshake
<1>6. ReadsReturnWhatWasStored'
  BY DEF ReadsReturnWhatWasStored, OpOK
<1>7. QueriesExact'
  BY DEF QueriesExact, InTransit, OpOK
<1> QED BY <1>1, <1>2, <1>3, <1>4, <1>5, <1>6, <1>7

LEMMA TakeDataInv == ASSUME IInv, TakeData PROVE IInv'
<1> USE DEF IInv, TakeData, historyVars, Rest
<1>1. TypeOK'
  BY ZenonT(30) DEF TypeOK
<1>2. OpOK'
  BY DEF OpOK
<1>3. Handshake'
  BY DEF Handshake, Rested, Free, Answering, OpOK
<1>4. DisableIdle'
  BY DEF DisableIdle
<1>5. Memory'
  BY DEF Memory
<1>6. ReadsReturnWhatWasStored'
  BY DEF ReadsReturnWhatWasStored, Memory, Handshake, Answering, TypeOK, Offset
<1>7. QueriesExact'
  BY DEF QueriesExact, InTransit, OpOK
<1> QED BY <1>1, <1>2, <1>3, <1>4, <1>5, <1>6, <1>7

LEMMA DisableBurstInv == ASSUME IInv, DisableBurst PROVE IInv'
<1> USE DEF IInv, DisableBurst, Out, Quiet, historyVars
<1>1. TypeOK'
  BY DEF TypeOK, Commands
<1>2. OpOK'
  BY DEF OpOK
<1>3. Handshake'
  BY DEF Handshake, Free, Leaving
<1>4. DisableIdle'
  BY DEF DisableIdle
<1>5. Memory'
  BY DEF Memory
<1>6. ReadsReturnWhatWasStored'
  BY DEF ReadsReturnWhatWasStored, Offset
<1>7. QueriesExact'
  BY DEF QueriesExact, InTransit
<1> QED BY <1>1, <1>2, <1>3, <1>4, <1>5, <1>6, <1>7

LEMMA BurstLeftInv == ASSUME IInv, BurstLeft PROVE IInv'
<1> USE DEF IInv, BurstLeft, Quiet, QuietPorts, historyVars
<1>1. TypeOK'
  BY DEF TypeOK
<1>2. OpOK'
  BY DEF OpOK
<1>3. Handshake'
  BY DEF Handshake, Rested, Leaving
<1>4. DisableIdle'
  BY DEF DisableIdle
<1>5. Memory'
  BY DEF Memory
<1>6. ReadsReturnWhatWasStored'
  BY DEF ReadsReturnWhatWasStored, Offset
<1>7. QueriesExact'
  BY DEF QueriesExact, InTransit
<1> QED BY <1>1, <1>2, <1>3, <1>4, <1>5, <1>6, <1>7

LEMMA FetchAnswerInv == ASSUME IInv, FetchAnswer PROVE IInv'
<1> USE DEF IInv, FetchAnswer
<1>1. TypeOK'
  <2>1. answered' \subseteq Events
    BY DEF TypeOK, OpOK, QueriesExact, InTransit, Handshake, Leaving
  <2> QED BY <2>1, ZenonT(30) DEF TypeOK
<1>2. OpOK'
  BY DEF OpOK
<1>3. Handshake'
  BY DEF Handshake, Rested, Leaving
<1>4. DisableIdle'
  BY DEF DisableIdle
<1>5. Memory'
  BY DEF Memory
<1>6. ReadsReturnWhatWasStored'
  BY DEF ReadsReturnWhatWasStored, Offset
<1>7. QueriesExact'
  BY DEF QueriesExact, InTransit, Handshake, Leaving, OpOK
<1> QED BY <1>1, <1>2, <1>3, <1>4, <1>5, <1>6, <1>7

\* The controller takes a command or goes on with one.
LEMMA ControllerKeepsTypes ==
    ASSUME TypeOK, UNCHANGED driverVars, UNCHANGED historyVars, UNCHANGED <<inbyte, obf, latch, ram>>,
           ibf' \in {"clear", ibf}, burst' \in BOOLEAN, arg' \in Bytes, pending' \subseteq pending,
           phase' \in {"idle", "read", "write", "value", "answer", "leave"}
    PROVE  TypeOK'
<1>1. /\ ports' = ports /\ pc' = pc /\ op' = op /\ left' = left /\ at' = at /\ got' = got
      /\ calls' = calls /\ ideal' = ideal /\ raised' = raised /\ answered' = answered
      /\ inbyte' = inbyte /\ obf' = obf /\ latch' = latch /\ ram' = ram
  BY DEF driverVars, historyVars
<1>2. pending' \subseteq raised
  BY DEF TypeOK
<1>3. ibf' \in {"clear", "command", "data"} /\ (ibf' # "clear" => ibf' = ibf)
  BY DEF TypeOK
<1> QED BY <1>1, <1>2, <1>3 DEF TypeOK

LEMMA TakeCommandInv == ASSUME IInv, TakeCommand PROVE IInv'
<1>0. TypeOK'
  <2>1. /\ TypeOK /\ UNCHANGED driverVars /\ UNCHANGED historyVars
        /\ UNCHANGED <<inbyte, obf, latch, ram>> /\ ibf' \in {"clear", ibf}
    BY DEF IInv, TakeCommand
  <2>2. burst' \in BOOLEAN /\ arg' \in Bytes /\ pending' \subseteq pending
    BY <2>1, BytesAssumption DEF TakeCommand, TypeOK
  <2>3. phase' \in {"idle", "read", "write", "value", "answer", "leave"}
    BY DEF TakeCommand
  <2> QED BY <2>1, <2>2, <2>3, ControllerKeepsTypes
<1> USE DEF IInv, TakeCommand, driverVars, historyVars
<1>1. TypeOK'
  BY <1>0
<1>2. OpOK'
  BY DEF OpOK
<1>3. Handshake'
  <2>1. CASE pc = "asked"
    <3>1. arg' \in Bytes /\ phase' = "answer"
      BY <2>1, <1>1 DEF Handshake, Waiting, Answering, TypeOK
    <3>2. Answering(arg)'
      BY <2>1, <3>1 DEF Handshake, Waiting, Answering
    <3> QED BY <2>1, <3>1, <3>2 DEF Handshake
  <2>2. CASE pc # "asked"
    BY <2>2 DEF Handshake, Rested, Free, Waiting, Answering, Leaving
  <2> QED BY <2>1, <2>2
<1>4. DisableIdle'
  BY DEF DisableIdle
<1>5. Memory'
  BY DEF Memory
<1>6. ReadsReturnWhatWasStored'
  BY DEF ReadsReturnWhatWasStored, Offset
<1>7. QueriesExact'
  <2>1. CASE inbyte = "QUERY"
    <3>1. pc = "asked" /\ op.kind = "query" /\ phase = "idle" /\ ~obf
      BY <2>1 DEF Handshake, Rested, Free, Waiting, Answering, Leaving, OpOK, TypeOK
    <3>2. InTransit = {}
      BY <3>1 DEF InTransit
    <3>3. InTransit' = {arg'} \ {NoEvent}
      BY <2>1, <3>1 DEF InTransit
    <3>4. CASE pending = {} /\ arg' = NoEvent /\ UNCHANGED pending
      BY <3>2, <3>3, <3>4 DEF QueriesExact
    <3>5. ASSUME NEW e \in pending, arg' = e, pending' = pending \ {e} PROVE QueriesExact'
      <4>1. InTransit' = {e} /\ e \in raised /\ e \notin answered
        BY <3>2, <3>3, <3>5, BytesAssumption DEF TypeOK, QueriesExact
      <4> QED BY <3>2, <3>5, <4>1 DEF QueriesExact
    <3> QED BY <2>1, <3>4, <3>5
  <2>2. CASE inbyte # "QUERY"
    BY <2>2 DEF QueriesExact, InTransit, Handshake, Free, Waiting, Answering, Leaving
  <2> QED BY <2>1, <2>2
<1> QED BY <1>1, <1>2, <1>3, <1>4, <1>5, <1>6, <1>7

LEMMA TakeByteInv == ASSUME IInv, TakeByte PROVE IInv'
<1> USE DEF IInv, TakeByte, driverVars, historyVars
<1>1. TypeOK'
  BY DEF TypeOK
<1>2. OpOK'
  BY DEF OpOK
<1>3. Handshake'
  BY DEF Handshake, Rested, Free, Waiting, Answering, Leaving, Offset
<1>4. DisableIdle'
  BY DEF DisableIdle
<1>5. Memory'
  BY DEF Memory
<1>6. ReadsReturnWhatWasStored'
  BY DEF ReadsReturnWhatWasStored, Offset
<1>7. QueriesExact'
  BY DEF QueriesExact, InTransit, Handshake, Free, Answering, Leaving
<1> QED BY <1>1, <1>2, <1>3, <1>4, <1>5, <1>6, <1>7

LEMMA AnswerInv == ASSUME IInv, Answer PROVE IInv'
<1> USE DEF IInv, Answer, driverVars, historyVars
<1>1. TypeOK'
  BY DEF TypeOK
<1>2. OpOK'
  BY DEF OpOK
<1>3. Handshake'
  BY DEF Handshake, Rested, Free, Answering, Leaving, Offset
<1>4. DisableIdle'
  BY DEF DisableIdle
<1>5. Memory'
  BY DEF Memory
<1>6. ReadsReturnWhatWasStored'
  BY DEF ReadsReturnWhatWasStored, Offset
<1>7. QueriesExact'
  BY DEF QueriesExact, InTransit
<1> QED BY <1>1, <1>2, <1>3, <1>4, <1>5, <1>6, <1>7

LEMMA LeaveBurstInv == ASSUME IInv, LeaveBurst PROVE IInv'
<1>0. TypeOK'
  <2>1. /\ TypeOK /\ UNCHANGED driverVars /\ UNCHANGED historyVars
        /\ UNCHANGED <<inbyte, obf, latch, ram>> /\ ibf' \in {"clear", ibf}
    BY DEF IInv, LeaveBurst
  <2>2. burst' \in BOOLEAN /\ arg' \in Bytes /\ pending' \subseteq pending
    BY <2>1 DEF LeaveBurst, TypeOK
  <2>3. phase' \in {"idle", "read", "write", "value", "answer", "leave"}
    BY DEF LeaveBurst
  <2> QED BY <2>1, <2>2, <2>3, ControllerKeepsTypes
<1> USE DEF IInv, LeaveBurst, driverVars, historyVars
<1>1. TypeOK'
  BY <1>0
<1>2. OpOK'
  BY DEF OpOK
<1>3. Handshake'
  BY DEF Handshake, Rested, Free, Waiting, Answering, Leaving
<1>4. DisableIdle'
  BY DEF DisableIdle
<1>5. Memory'
  BY DEF Memory
<1>6. ReadsReturnWhatWasStored'
  BY DEF ReadsReturnWhatWasStored, Offset
<1>7. QueriesExact'
  BY DEF QueriesExact, InTransit
<1> QED BY <1>1, <1>2, <1>3, <1>4, <1>5, <1>6, <1>7

LEMMA DropBurstInv == ASSUME IInv, DropBurst PROVE IInv'
<1> USE DEF IInv, DropBurst, driverVars, historyVars
<1>1. TypeOK'
  <2>1. burst' \in BOOLEAN
    OBVIOUS
  <2> QED BY <2>1 DEF TypeOK
<1>2. OpOK'
  BY DEF OpOK
<1>3. Handshake'
  BY DEF Handshake, Rested, Free, Waiting, Answering, Leaving, Offset
<1>4. DisableIdle'
  BY DEF DisableIdle
<1>5. Memory'
  BY DEF Memory
<1>6. ReadsReturnWhatWasStored'
  BY DEF ReadsReturnWhatWasStored, Offset
<1>7. QueriesExact'
  BY DEF QueriesExact, InTransit
<1> QED BY <1>1, <1>2, <1>3, <1>4, <1>5, <1>6, <1>7

LEMMA RaiseInv == ASSUME IInv, NEW e \in Events, Raise(e) PROVE IInv'
<1> USE DEF IInv, Raise, driverVars
<1>1. TypeOK'
  BY DEF TypeOK
<1>2. OpOK'
  BY DEF OpOK
<1>3. Handshake'
  BY DEF Handshake, Rested, Free, Waiting, Answering, Leaving, Offset
<1>4. DisableIdle'
  BY DEF DisableIdle
<1>5. Memory'
  BY DEF Memory
<1>6. ReadsReturnWhatWasStored'
  BY DEF ReadsReturnWhatWasStored, Offset
<1>7. QueriesExact'
  BY DEF QueriesExact, InTransit
<1> QED BY <1>1, <1>2, <1>3, <1>4, <1>5, <1>6, <1>7

\* A step changes nothing, or is one of the steps above.
LEMMA StepInv == IInv /\ [Next]_vars => IInv'
<1> SUFFICES ASSUME IInv, [Next]_vars PROVE IInv'
  OBVIOUS
<1>1. CASE UNCHANGED vars
  BY <1>1 DEF IInv, vars, TypeOK, OpOK, Handshake, DisableIdle, Memory, Rested, Free, Waiting,
              Answering, Leaving, Offset, ReadsReturnWhatWasStored, QueriesExact, InTransit
<1>2. CASE EarlyInit \/ LateInit
  BY <1>2, InitPortsInv DEF EarlyInit, LateInit
<1>3. ASSUME NEW o \in Operations, Call(o) PROVE IInv'
  BY <1>3, CallInv
<1>4. CASE Step
  BY <1>4, EnableBurstInv, BurstGrantedInv, QueryInv, AnsweredInv, CommandInv, SendOffsetInv,
     SendValueInv, TakeDataInv, DisableBurstInv, BurstLeftInv, FetchAnswerInv DEF Step
<1>5. CASE Controller \/ DropBurst
  BY <1>5, TakeCommandInv, TakeByteInv, AnswerInv, LeaveBurstInv, DropBurstInv DEF Controller
<1>6. ASSUME NEW e \in Events, Raise(e) PROVE IInv'
  BY <1>6, RaiseInv
<1> QED BY <1>1, <1>2, <1>3, <1>4, <1>5, <1>6 DEF Next

\* Every reachable state satisfies the inductive invariant.
LEMMA Invariance == Spec => []IInv
  BY InitInv, StepInv, PTL DEF Spec

\* Offsets wrap within the memory of the controller, ports get commands and bytes,
\* and only bytes come back.
THEOREM TypeCorrect == Spec => []TypeOK
<1>1. IInv => TypeOK
  BY DEF IInv
<1> QED BY <1>1, Invariance, PTL

\* readb() to readq() return what writeb() to writeq() and lai_write_ec() stored, in
\* whatever order the compiler reads the bytes and at every point of the access.
THEOREM ReadsCorrect == Spec => []ReadsReturnWhatWasStored
<1>1. IInv => ReadsReturnWhatWasStored
  BY DEF IInv
<1> QED BY <1>1, Invariance, PTL

\* lai_query_ec() returns every event that the controller hands out, once.
THEOREM QueriesCorrect == Spec => []QueriesExact
<1>1. IInv => QueriesExact
  BY DEF IInv
<1> QED BY <1>1, Invariance, PTL

\* The panic of enable_burst() is out of reach.
THEOREM NeverRefused == Spec => []BurstNeverRefused
<1>1. IInv => BurstNeverRefused
  BY DEF IInv, Handshake, BurstNeverRefused
<1> QED BY <1>1, Invariance, PTL

\* The input buffer is overwritten only by enable_burst(), and only a BURST_DISABLE
\* without effect or the value of a lai_write_ec() is.
THEOREM OverwritesOnly == Spec => OnlyBurstEnableOverwrites
<1> DEFINE Kept ==
        UNCHANGED <<ibf, inbyte>> \/ ibf = "clear" \/ ibf' = "clear"
        \/ /\ inbyte' = "BURST_ENABLE"
           /\ \/ ibf = "command" /\ inbyte = "BURST_DISABLE" /\ ~burst
              \/ ibf = "data" /\ phase = "value" /\ pc = "enable"
<1>1. IInv /\ [Next]_vars => [Kept]_vars
  <2> SUFFICES ASSUME IInv, Next PROVE Kept
    BY DEF vars
  <2>1. CASE EarlyInit \/ LateInit
    BY <2>1 DEF EarlyInit, LateInit, InitPorts, QuietPorts
  <2>2. ASSUME NEW o \in Operations, Call(o) PROVE Kept
    BY <2>2 DEF Call, QuietPorts
  <2>3. CASE EnableBurst
    BY <2>3 DEF IInv, TypeOK, Handshake, Rested, DisableIdle, EnableBurst, Out
  <2>4. CASE Query
    BY <2>4 DEF IInv, Handshake, Free, Query
  <2>5. CASE BurstGranted \/ Answered \/ TakeData \/ BurstLeft \/ FetchAnswer
    BY <2>5 DEF BurstGranted, Answered, TakeData, BurstLeft, FetchAnswer, QuietPorts
  <2>6. CASE (\E i \in left : Command(i)) \/ SendOffset \/ SendValue \/ DisableBurst
    BY <2>6 DEF Command, SendOffset, SendValue, DisableBurst
  <2>7. CASE Controller \/ DropBurst
    BY <2>7 DEF Controller, TakeCommand, TakeByte, Answer, LeaveBurst, DropBurst
  <2>8. ASSUME NEW e \in Events, Raise(e) PROVE Kept
    BY <2>8 DEF Raise
  <2> QED BY <2>1, <2>2, <2>3, <2>4, <2>5, <2>6, <2>7, <2>8 DEF Next, Step
<1> QED BY <1>1, Invariance, PTL DEF Spec, OnlyBurstEnableOverwrites
=============================================================================
