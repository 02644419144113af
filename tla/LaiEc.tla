-------------------------------- MODULE LaiEc --------------------------------
(***************************************************************************)
(* The embedded controller driver, drivers/ec.c, and the controller that   *)
(* it talks to through two ports.  Each direction has a buffer of one      *)
(* byte: what is written to a port stays in the input buffer (IBF) until   *)
(* the controller takes it, what the controller answers in the output      *)
(* buffer (OBF) until the data port is read.                               *)
(*                                                                         *)
(* Every access of a port is a step, except that a poll is one step with   *)
(* the access that it waits for: while the driver polls for IBF to clear   *)
(* or for OBF to be set, nobody else can undo that.  The host makes one    *)
(* call at a time, since the driver has no lock.                           *)
(***************************************************************************)
EXTENDS Integers, FiniteSets

CONSTANTS
    ByteCount,    \* the values of a byte, and the bytes of the controller's memory
    Ack,          \* 0x90, the answer to BURST_ENABLE
    NoEvent,      \* 0, the answer to QUERY when there is no event
    Events,       \* the query numbers of the controller
    Widths,       \* the bytes of readb, readw, readd and readq
    Values,       \* the bytes that the host writes
    MaxCalls      \* bound: the number of calls of the driver

Bytes == 0..ByteCount - 1

ASSUME BytesAssumption ==
    /\ ByteCount \in Nat \ {0}
    /\ Ack \in Bytes /\ NoEvent \in Bytes \ Events /\ Events \subseteq Bytes
    /\ Widths \subseteq 1..ByteCount /\ Values \subseteq Bytes
    /\ MaxCalls \in Nat

Commands == {"READ", "WRITE", "BURST_ENABLE", "BURST_DISABLE", "QUERY"}

VARIABLES
    ports,        \* struct lai_ec_driver: the ports that are known
    pc, op,       \* where the driver is in which call
    left, at,     \* the bytes of the access that it has not begun, and the current one
    got,          \* the bytes that it read
    calls,        \* the number of calls so far
    ibf, inbyte,  \* the controller: input buffer, with what kind of byte,
    obf, latch,   \*   output buffer,
    burst,        \*   BURST bit of the status,
    phase, arg,   \*   the command in progress, and its byte,
    ram, pending, \*   memory and events not asked for yet
    ideal,        \* what ram should be (history)
    raised,       \* the events so far, and
    answered      \*   those that lai_query_ec() returned (history)

driverVars == <<ports, pc, op, left, at, got, calls>>
historyVars == <<ideal, raised, answered>>
vars == <<ports, pc, op, left, at, got, calls, ibf, inbyte, obf, latch, burst,
          phase, arg, ram, pending, ideal, raised, answered>>

\* A call: lai_read_ec(), lai_write_ec() and lai_query_ec() themselves, or the
\* handlers of an operation region, which access several bytes in burst mode.
Accesses(values) == UNION {[0..w - 1 -> values] : w \in Widths}
Reads == [kind : {"read"}, region : BOOLEAN, base : Bytes, source : Accesses({0})]
Writes == [kind : {"write"}, region : BOOLEAN, base : Bytes, source : Accesses(Values)]
Queries == [kind : {"query"}, region : {FALSE}, base : {0}, source : [{0} -> {0}]]

\* lai_read_ec() and lai_write_ec() access one byte.
Operations == {o \in Reads \cup Writes \cup Queries : o.region \/ DOMAIN o.source = {0}}

Ready == ports = {"cmd", "data"}

\* lai_read_ec(uint8_t offset, ...): the offset of a byte wraps.
\* Mutation: it does not.
PlainOffset(i) == op.base + i

Offset(i) == (op.base + i) % ByteCount
-------------------------------------------------------------------------------
Init ==
    /\ ports = {}
    /\ pc = "idle" /\ op = [kind |-> "none", region |-> FALSE, base |-> 0, source |-> [i \in {0} |-> 0]]
    /\ left = {} /\ at = 0 /\ got = [i \in Bytes |-> 0] /\ calls = 0
    /\ ibf = "clear" /\ inbyte = 0 /\ obf = FALSE /\ latch = 0 /\ burst = FALSE
    /\ phase = "idle" /\ arg = 0
    /\ ram = [b \in Bytes |-> 0] /\ pending = {}
    /\ ideal = ram /\ raised = {} /\ answered = {}

\* A write to one of the ports.
Out(kind, byte) == ibf' = kind /\ inbyte' = byte
\* The rest of the controller, and all of it.
Quiet == UNCHANGED <<obf, latch, burst, phase, arg, ram, pending>>
QuietPorts == UNCHANGED <<ibf, inbyte>> /\ Quiet

\* lai_early_init_ec(): from the ECDT, command port first.  lai_init_ec(): from
\* _CRS, data port first.  Either may give up after the first one.
InitPorts(found) ==
    /\ pc = "idle" /\ ports # {"cmd", "data"}
    /\ ports' = ports \cup found
    /\ UNCHANGED <<pc, op, left, at, got, calls>> /\ QuietPorts /\ UNCHANGED historyVars
EarlyInit == InitPorts({"cmd"}) \/ InitPorts({"cmd", "data"})
LateInit == InitPorts({"data"}) \/ InitPorts({"data", "cmd"})

\* The host calls the driver.  Without ports, lai_read_ec(), lai_write_ec() and
\* lai_query_ec() return at once; the handlers of the region do not look.
Call(o) ==
    /\ pc = "idle" /\ calls < MaxCalls
    /\ calls' = calls + 1
    /\ IF Ready
       THEN /\ pc' = IF o.region \/ o.kind = "query" THEN "enable" ELSE "command"
            /\ op' = o /\ left' = DOMAIN o.source /\ got' = [i \in Bytes |-> 0]
       ELSE /\ pc' = IF o.region THEN "astray" ELSE "idle"
            /\ UNCHANGED <<op, left, got>>
    /\ UNCHANGED <<ports, at>> /\ QuietPorts /\ UNCHANGED historyVars

\* enable_burst(): the command is written whatever the input buffer holds.
EnableBurst ==
    /\ pc = "enable"
    /\ Out("command", "BURST_ENABLE")
    /\ pc' = "enabled"
    /\ ideal' = IF ibf = "data" THEN ram ELSE ideal
    /\ UNCHANGED <<ports, op, left, at, got, calls, raised, answered>> /\ Quiet

\* Mutation: "According to the spec ACPI_EC_STATUS_BURST should get set".
BurstGrantedAndSet ==
    /\ pc = "enabled" /\ obf /\ burst
    /\ obf' = FALSE
    /\ pc' = IF latch # Ack THEN "panicked" ELSE IF op.kind = "query" THEN "query" ELSE "command"
    /\ UNCHANGED <<ports, op, left, at, got, calls, ibf, inbyte, latch, burst, phase, arg,
                   ram, pending>> /\ UNCHANGED historyVars

BurstGranted ==
    /\ pc = "enabled" /\ obf
    /\ obf' = FALSE
    /\ pc' = IF latch # Ack THEN "panicked" ELSE IF op.kind = "query" THEN "query" ELSE "command"
    /\ UNCHANGED <<ports, op, left, at, got, calls, ibf, inbyte, latch, burst, phase, arg,
                   ram, pending>> /\ UNCHANGED historyVars

\* lai_query_ec()
Query ==
    /\ pc = "query"
    /\ Out("command", "QUERY")
    /\ pc' = "asked"
    /\ UNCHANGED <<ports, op, left, at, got, calls>> /\ Quiet /\ UNCHANGED historyVars

\* Mutation: the answer is not waited for.
Hasty ==
    /\ pc = "asked"
    /\ pc' = "disable"
    /\ UNCHANGED <<ports, op, left, at, got, calls>> /\ QuietPorts /\ UNCHANGED historyVars

\* The answer is there, and stays in the output buffer.
Answered ==
    /\ pc = "asked" /\ obf
    /\ pc' = "disable"
    /\ UNCHANGED <<ports, op, left, at, got, calls>> /\ QuietPorts /\ UNCHANGED historyVars

\* The next byte: a write goes through them in order, while the order in which C
\* evaluates the operands of | is unspecified.
NextByte(i) == i \in left /\ (op.kind = "write" => \A j \in left : i <= j)
Rest == IF left # {} THEN "command" ELSE IF op.region THEN "disable" ELSE "idle"

\* lai_read_ec() and lai_write_ec(): the command, the offset, and the value.
Command(i) ==
    /\ pc = "command" /\ NextByte(i) /\ ibf = "clear"
    /\ Out("command", IF op.kind = "read" THEN "READ" ELSE "WRITE")
    /\ pc' = "offset" /\ at' = i /\ left' = left \ {i}
    /\ UNCHANGED <<ports, op, got, calls>> /\ Quiet /\ UNCHANGED historyVars

SendOffset ==
    /\ pc = "offset" /\ ibf = "clear"
    /\ Out("data", Offset(at))
    /\ pc' = IF op.kind = "read" THEN "data" ELSE "value"
    /\ UNCHANGED <<ports, op, left, at, got, calls>> /\ Quiet /\ UNCHANGED historyVars

\* Mutation: the value of a later byte is shifted too little.
SendSameValue ==
    /\ pc = "value" /\ ibf = "clear"
    /\ Out("data", op.source[0])
    /\ pc' = Rest
    /\ ideal' = [ideal EXCEPT ![Offset(at)] = op.source[at]]
    /\ UNCHANGED <<ports, op, left, at, got, calls, raised, answered>> /\ Quiet

SendValue ==
    /\ pc = "value" /\ ibf = "clear"
    /\ Out("data", op.source[at])
    /\ pc' = Rest
    /\ ideal' = [ideal EXCEPT ![Offset(at)] = op.source[at]]
    /\ UNCHANGED <<ports, op, left, at, got, calls, raised, answered>> /\ Quiet

TakeData ==
    /\ pc = "data" /\ obf
    /\ obf' = FALSE
    /\ got' = [got EXCEPT ![at] = latch]
    /\ pc' = Rest
    /\ UNCHANGED <<ports, op, left, at, calls, ibf, inbyte, latch, burst, phase, arg,
                   ram, pending>> /\ UNCHANGED historyVars

\* Mutation: the input buffer is not polled.
DisableBurstAtOnce ==
    /\ pc = "disable"
    /\ Out("command", "BURST_DISABLE")
    /\ pc' = "disabled"
    /\ UNCHANGED <<ports, op, left, at, got, calls>> /\ Quiet /\ UNCHANGED historyVars

\* disable_burst(): with the poll of the BURST bit, which may be clear all the time.
DisableBurst ==
    /\ pc = "disable" /\ ibf = "clear"
    /\ Out("command", "BURST_DISABLE")
    /\ pc' = "disabled"
    /\ UNCHANGED <<ports, op, left, at, got, calls>> /\ Quiet /\ UNCHANGED historyVars

BurstLeft ==
    /\ pc = "disabled" /\ ~burst
    /\ pc' = IF op.kind = "query" THEN "fetch" ELSE "idle"
    /\ UNCHANGED <<ports, op, left, at, got, calls>> /\ QuietPorts /\ UNCHANGED historyVars

\* Mutation: the answer stays in the output buffer.
LeaveAnswer ==
    /\ pc = "fetch"
    /\ pc' = "idle"
    /\ answered' = answered \cup ({latch} \ {NoEvent})
    /\ UNCHANGED <<ports, op, left, at, got, calls, ideal, raised>> /\ QuietPorts

\* The data port is read without another poll.
FetchAnswer ==
    /\ pc = "fetch"
    /\ obf' = FALSE
    /\ pc' = "idle"
    /\ answered' = answered \cup ({latch} \ {NoEvent})
    /\ UNCHANGED <<ports, op, left, at, got, calls, ibf, inbyte, latch, burst, phase, arg,
                   ram, pending, ideal, raised>>

Step ==
    \/ EnableBurst \/ BurstGranted \/ Query \/ Answered
    \/ \E i \in left : Command(i)
    \/ SendOffset \/ SendValue \/ TakeData
    \/ DisableBurst \/ BurstLeft \/ FetchAnswer
-------------------------------------------------------------------------------
\* The controller.  It takes a byte when it is done with the one before it.
TakeCommand ==
    /\ ibf = "command" /\ phase \notin {"answer", "leave"}
    /\ ibf' = "clear"
    /\ \/ inbyte = "READ" /\ phase' = "read" /\ UNCHANGED <<arg, burst, pending>>
       \/ inbyte = "WRITE" /\ phase' = "write" /\ UNCHANGED <<arg, burst, pending>>
       \/ inbyte = "BURST_ENABLE" /\ phase' = "answer" /\ arg' = Ack
            /\ burst' \in {burst, TRUE} /\ UNCHANGED pending
       \/ inbyte = "BURST_DISABLE" /\ phase' = "leave" /\ UNCHANGED <<arg, burst, pending>>
       \/ inbyte = "QUERY" /\ phase' = "answer" /\ UNCHANGED burst
            /\ \/ pending = {} /\ arg' = NoEvent /\ UNCHANGED pending
               \/ \E e \in pending : arg' = e /\ pending' = pending \ {e}
    /\ UNCHANGED <<inbyte, obf, latch, ram>> /\ UNCHANGED driverVars /\ UNCHANGED historyVars

TakeByte ==
    /\ ibf = "data" /\ phase \notin {"answer", "leave"}
    /\ ibf' = "clear"
    /\ \/ phase = "idle" /\ UNCHANGED <<phase, arg, ram>>
       \/ phase = "read" /\ phase' = "answer" /\ arg' = ram[inbyte] /\ UNCHANGED ram
       \/ phase = "write" /\ phase' = "value" /\ arg' = inbyte /\ UNCHANGED ram
       \/ phase = "value" /\ phase' = "idle" /\ ram' = [ram EXCEPT ![arg] = inbyte] /\ UNCHANGED arg
    /\ UNCHANGED <<inbyte, obf, latch, burst, pending>>
    /\ UNCHANGED driverVars /\ UNCHANGED historyVars

Answer ==
    /\ phase = "answer" /\ ~obf
    /\ obf' = TRUE /\ latch' = arg /\ phase' = "idle"
    /\ UNCHANGED <<ibf, inbyte, burst, arg, ram, pending>>
    /\ UNCHANGED driverVars /\ UNCHANGED historyVars

LeaveBurst ==
    /\ phase = "leave"
    /\ burst' = FALSE /\ phase' = "idle"
    /\ UNCHANGED <<ibf, inbyte, obf, latch, arg, ram, pending>>
    /\ UNCHANGED driverVars /\ UNCHANGED historyVars

\* "the EC will automatically drop out of Burst mode if it has been idle for too
\* long - or has remained in burst mode for too long"
DropBurst ==
    /\ burst /\ burst' = FALSE
    /\ UNCHANGED <<ibf, inbyte, obf, latch, phase, arg, ram, pending>>
    /\ UNCHANGED driverVars /\ UNCHANGED historyVars

Raise(e) ==
    /\ e \notin raised
    /\ raised' = raised \cup {e} /\ pending' = pending \cup {e}
    /\ UNCHANGED <<ibf, inbyte, obf, latch, burst, phase, arg, ram, ideal, answered>>
    /\ UNCHANGED driverVars

Controller == TakeCommand \/ TakeByte \/ Answer \/ LeaveBurst
-------------------------------------------------------------------------------
Next ==
    \/ EarlyInit \/ LateInit
    \/ \E o \in Operations : Call(o)
    \/ Step
    \/ Controller \/ DropBurst
    \/ \E e \in Events : Raise(e)

Spec == Init /\ [][Next]_vars

\* The driver runs on, and the controller works.
FairSpec == Spec /\ WF_vars(Step) /\ WF_vars(Controller)
-------------------------------------------------------------------------------
TypeOK ==
    /\ ports \subseteq {"cmd", "data"}
    /\ pc \in {"idle", "astray", "panicked", "enable", "enabled", "query", "asked", "command",
               "offset", "value", "data", "disable", "disabled", "fetch"}
    /\ op.kind \in {"none", "read", "write", "query"} /\ op.region \in BOOLEAN
    /\ op.base \in Bytes /\ \A i \in DOMAIN op.source : op.source[i] \in Bytes
    /\ left \subseteq DOMAIN op.source /\ at \in Bytes
    /\ got \in [Bytes -> Bytes] /\ calls \in 0..MaxCalls
    /\ ibf \in {"clear", "command", "data"}
    /\ ibf = "command" => inbyte \in Commands
    /\ ibf = "data" => inbyte \in Bytes
    /\ obf \in BOOLEAN /\ latch \in Bytes /\ burst \in BOOLEAN
    /\ phase \in {"idle", "read", "write", "value", "answer", "leave"} /\ arg \in Bytes
    /\ ram \in [Bytes -> Bytes] /\ ideal \in [Bytes -> Bytes]
    /\ pending \subseteq raised /\ raised \subseteq Events /\ answered \subseteq Events

\* Every byte that a read has collected so far, in whatever order, is what the last
\* write left there: none comes from another byte, from an answer to something else
\* or from before the answer.
ReadsReturnWhatWasStored ==
    op.kind = "read" /\ pc # "panicked" =>
        \A i \in DOMAIN op.source \ left :
            (pc \in {"offset", "data"} /\ i = at) \/ got[i] = ideal[Offset(i)]

\* The driver never writes to a port while the controller has not taken the last
\* byte, except that enable_burst() may overwrite the BURST_DISABLE of the call
\* before it, where the BURST bit was not set, or the value of a lai_write_ec() that
\* no disable_burst() followed: what AML writes through a region is never lost.
OnlyBurstEnableOverwrites ==
    [][UNCHANGED <<ibf, inbyte>> \/ ibf = "clear" \/ ibf' = "clear"
       \/ /\ inbyte' = "BURST_ENABLE"
          /\ \/ ibf = "command" /\ inbyte = "BURST_DISABLE" /\ ~burst
             \/ ibf = "data" /\ phase = "value" /\ pc = "enable"]_vars

\* The event that the controller has handed out and lai_query_ec() not returned.
InTransit ==
    IF op.kind = "query" /\ pc \in {"asked", "disable", "disabled", "fetch"}
    THEN (IF phase = "answer" THEN {arg} ELSE IF obf THEN {latch} ELSE {}) \ {NoEvent}
    ELSE {}

\* lai_query_ec() returns each event once, although it leaves burst mode between the
\* answer and the read of it: none is lost, repeated or made up.
QueriesExact ==
    /\ raised \ pending = answered \cup InTransit
    /\ answered \cap InTransit = {}

\* "Enabling EC Burst Mode Failed": the byte that enable_burst() reads is never the
\* answer to an earlier command, whatever the previous call left unfinished.
BurstNeverRefused == pc # "panicked"

\* Every call returns: none of the polls waits for something that the controller
\* does not do, even if it never shows the BURST bit.
CallsReturn == pc # "idle" ~> pc \in {"idle", "astray"}
=============================================================================
