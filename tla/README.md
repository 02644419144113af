# A verification project for LAI

LAI (the *Lightweight AML Interpreter*) lets an operating system execute the
ACPI bytecode (AML) that firmware supplies.  It is a C library: the host loads
the tables, LAI builds a namespace from them, and the host then evaluates
methods, drives the few ACPI devices LAI knows, and asks for sleep or reset.

This directory holds TLA+ modules that model LAI from its source, TLC
configurations that check them on small instances, and proofs that TLAPS checks
for every value of the constants.  `PROJECT.json` maps every definition to the
lines it models and lists runs, mutants, findings, hazards and theorems.

    tlc -workers 4 -config MCLaiExec.cfg MCLaiExec.tla      # a run
    tlapm LaiExecProofs.tla                                 # the proofs of a component

Contents: 1 the system; 2 the models; 3 runs; 4 proofs; 5 disagreements between
the code and its comments; 6 what is left out; 7 the plan.

---------------------------------------------------------------------------

## 1. The system

### Components

| component | source | state | operations | interacts with |
|---|---|---|---|---|
| Mutex | `core/exec_impl.h` 88-140, Acquire/Release in `core/exec.c` | one word `sync->val` per Mutex node: LOCKED, CONTENDED | `lai_mutex_lock`, `lai_mutex_unlock` | host: `laihost_sync_wait`, `laihost_sync_wake` |
| Event | `core/exec_impl.h` 142-230 | one word per Event node: a count of signals or the flag WAITERS | `lai_event_wait`, `_signal`, `_reset` | the same host calls |
| Interpreter | `core/exec.c`, `core/exec_impl.h`, `lai/internal-exec.h` | `lai_state_t`: context, block, execution and operand stack, each a growing array | `lai_eval_args`, `lai_populate`, `lai_exec_run`, `lai_exec_process`, `lai_exec_parse` | all other parts of core |
| AML operators | `core/exec.c`, `lai_exec_reduce_op` | none of its own (operands) | arithmetic, logic, conversion, reference operators | operand access, objects, Mutex, Event |
| Namespace | `core/ns.c`, `core/ns_impl.h` | tree of nodes, `ns_array`, a table of children per node, a list of nodes per running method | create, install, uninstall, resolve, iterate | hash table, list, interpreter |
| Hash table, list | `core/util-hash.h`, `core/util-list.h` | element slots, hashes, buckets; links | insert, grow, chain walk, remove | namespace |
| Objects | `core/object.c`, `core/variable.c` | strings, buffers, packages with a reference count | create, assign, move, clone, finalize | interpreter, operand access |
| Operand access | `core/exec-operand.c` | locals, arguments, references; buffer fields | load, store, mutate, read and write of a buffer field | objects, fields |
| Fields | `core/opregion.c` | registers behind a region, index/data pairs, banks | read and write of a bit slice | host I/O, operator Store |
| Evaluation helpers, `_OSI` | `core/eval.c`, `core/os_methods.c` | none | EISA ids, answers of the interpreter to AML | interpreter |
| Embedded controller | `drivers/ec.c` | none but the controller's status and data port | read, write, query, burst mode | host ports, region overrides |
| PM timer | `drivers/timer.c` | the timer block; the event enable register | start, stop, busy wait | SCI helper |
| SCI, sleep, reset | `helpers/sci.c`, `helpers/pm.c` | ACPI mode, event registers | enable, disable, initialise children, sleep, reset | interpreter, host I/O |
| Resources, PCI routing | `helpers/resource.c`, `helpers/pci.c` | an iterator over a resource buffer | next resource, next IRQ, route pin | interpreter |
| RSDP | `helpers/pc-bios.c` | none | scan with checksum | host memory |
| Utilities | `core/libc.c`, `core/vsnprintf.c`, `core/error.c` | none | memory, formatting, names of errors | everything |
| Host | `lai/host.h` | external | memory, ports, PCI, sync, panic | called by LAI |

Several threads may execute methods at once, each with its own `lai_state_t`.
LAI takes no lock of its own: what the threads share is the namespace (which the
host has to protect) and the words of Mutex and Event nodes, which are the only
places where the code is written for concurrent access.  A single interpreter is
a sequential machine, whose difficulty is of another kind: four hand-maintained
stacks that are unwound together, arrays that move while pointers into them are
held, and errors that may come back from every call.

### Which behaviours are hard, and what makes each part correct

- **Mutex.**  Exchange loops racing with each other, a deadline that passes
  while the holder releases, a wake between the load and the sleep.  Correct:
  one holder at a time; the word is locked exactly while there is a holder; no
  sleeper is forgotten; a contender gets the Mutex in the end.
- **Event.**  A count and a flag in one word.  Correct: no signal is lost or
  invented; Signal and Reset return; a Wait that was signalled returns.
- **Interpreter.**  `Break`, `Continue` and `Return` unwind any nesting by
  counting; blocks nest inside a shared program counter; pushes need a reserve
  when, and only when, the array is exactly full; errors throw everything away.
  Correct: the stacks stay aligned, code is neither skipped nor run twice, no
  assertion fires, calls are balanced, only a `While` runs for ever.
- **Namespace.**  A node that fails to be installed, nodes of a method that must
  disappear with it, iteration while nodes come and go.  Correct: array, tables
  and per-method lists agree; what a call creates is gone when it ends, by
  whatever way it ends.
- **Hash table.**  Growth, reuse of slots, probing with wrap-around.  Correct:
  it is a bag of elements by hash; an iteration visits what stays.
- **Objects.**  Sharing through counts.  Correct: a count is the number of
  references; an object in use is never freed.
- **Fields.**  Slices that cross accesses, and widths equal to the access; reads
  before writes and registers before data, while other threads run and no lock is
  taken.  Correct: what is written is read back, and no neighbouring bit changes;
  operations that race spoil nothing but the bits they race for.
- **Embedded controller.**  A handshake with a device.  Correct: no byte is lost
  or read early; burst mode is left; a query is answered with its own code.
- **PM timer, SCI.**  Counter wrap; read-clear against enable registers.
- **Resources, PCI.**  Cursor arithmetic in small integer types.

The hazards these come from are listed line by line under `hazards` in
`PROJECT.json`; a hazard without a property says why none covers it.

---------------------------------------------------------------------------

## 2. The models

### LaiLock, LaiMutex: a Mutex

`LaiLock` is what a Mutex promises: `holder` is one thread or nobody; `Take`
needs a free lock, `Drop` the holder.

`LaiMutex` models `lai_mutex_lock()` and `lai_mutex_unlock()` with one action per
access to the word or call of the host, so that every interleaving is covered.

| model | code |
|---|---|
| `val` | `sync->val` |
| `v[t]` | the local copy of the word, which a failed compare-and-swap reloads |
| `pc[t]` | the place in the function; `critical` is between the two calls |
| `EnterLock` | the first load |
| `TryLock`, `TryContend` | the two compare-and-swaps of the loop |
| `HostWait`, `HostTimeout` | `laihost_sync_wait()` and its two results |
| `Unlock`, `HostWake` | the exchange for 0, and `laihost_sync_wake()` |

`contenders`, `patient` and `wakesAll` are chosen once, in `Init`, so that one
run covers all numbers of contenders, finite and infinite deadlines, and hosts
that wake one or all sleepers.

The host is *external*.  It is taken to be a futex, which is how the code calls
it: `laihost_sync_wait(sync, value, deadline)` gets a value to compare with the
word.  Both functions trust that Release comes from the holder: the code does
not check, and the model lets nobody else release.

### LaiCountingEvent, LaiEvent: an Event

`LaiCountingEvent` is a counter with increment, decrement and clear.  `LaiEvent`
models the three functions in the same style.  `Enter` loads the word; the
`Wait...`, `Signal...` and `Reset...` actions are the outcomes of the loop bodies;
`ExchangeFails` is a failed compare-and-swap, after which the loop goes round.
The constant `COUNT` stands for `LAI_EVENT_COUNT` (2^31 - 1) and `WAITERS` is the
bit above it, so that a small count shows the boundary.  The value that
`lai_event_wait()` passes to the host is the mutex's constant 3 in the code, and
so it is in the model.  `signalled`, `taken` and `dropped` are history.

### LaiExec: the interpreter

A step of the model is one call of `lai_exec_process()`, with the
`lai_exec_parse()` that it makes.

| model | code |
|---|---|
| `ctx` | `ctxstack_base[0..ctxstack_ptr]`; of a context: does it have an invocation |
| `blk` | `blkstack_base`; `pc` and `limit` as in `struct lai_blkitem` |
| `stack` | `stack_base`, items of `lai_stackitem_t` |
| `ops` | `opstack_base`; of an operand only the tag that a consumer asserts |
| `cap` | the capacities; `SmallSizes` are those of `lai_init_state()` (8 and 16 in the code) |
| `status` | what was started, or the reason for a panic |

`Call`/`Populate` are `lai_eval_args()`/`lai_populate()`, `Finish` is the return of
`lai_exec_run()` to them, `Fail` an error result anywhere with the finalize and
init that follow, `Stop` a panic.  The `Parse...` actions are the opcodes, grouped
by what they do to the stacks: operands, statements, everything that pushes an
item (`Forms`: one record per opcode family), `If` with `Else`, `Continue`,
`Break`.  The rest are the branches of `lai_exec_process()`: operators and nodes
that are complete, calls, the ends of blocks, loops, conditions and packages.

*AML is discovered, not given.*  Whatever opcode the grammar allows in the current
mode may come next, a nested block is any number of units long, and the same
address may hold other code when it is reached again.  The instances therefore
contain every program of their size and not a chosen few.  (That an address may
change its contents adds behaviours and removes none.)

*Reservations.*  The code splits a push into a `reserve` that doubles a full
array and a push that asserts that there is room.  `Put` keeps this: each action
names the arrays that the code reserves there, and a push into an array that is
full and was not reserved is the panic the code would run into.

*Stale pointers.*  `lai_exec_process()` takes a pointer to the item on top and, for
packages, writes through it after `lai_exec_parse()`.  `Advanced` models this: if
the array moved, the write is lost.

*Assertions.*  `Ensured` collects the `LAI_ENSURE`s that the code evaluates for the
item on top, including those on the tags of operands, which the code evaluates
when they are consumed and the model already while they are collected.

The items' fields `ctxs` and `blks`, and `frame` of `METHOD` and `POPULATE`
items, are history: the code keeps no such field, and no action reads them.

### LaiHashtable, LaiTree, LaiNamespace: the namespace

`LaiHashtable` has the functions of `util-hash.h` as operators on a table: the slots
of the elements, the buckets that lead to them, growth, insertion into the first
free slot, the walk along a chain, removal.  `LaiTree` is what the namespace
promises: a set of edges with different names under each parent, changed by one
edge at a time.  `LaiNamespace` puts tables of that kind under the nodes and models
everything that reads or changes them.

| model | code |
|---|---|
| `node` | the `lai_nsnode_t` in order of creation; the code never frees one |
| `array` | `instance->ns_array`, with the holes that uninstalling leaves |
| `children[n]` | the `children` table of node n |
| `ctx` | the context stack: handle, invocation or none, `per_method_list` |
| `walk` | the loops over children that are active, innermost last |
| `Resolve`, `Search`, `NewParent` | `lai_do_resolve`, `lai_resolve_search`, `lai_do_resolve_new_node` |
| `Load`, `Invoke`, `Abort` | a table or method is started, from another method as well; an error |
| `OpenDevice`, `DefineName`, `DefineLeaf`, `DefineAlias`, `OpenScope` | the terms that create nodes or open a scope |
| `Duplicate`, `Nowhere` | `lai_install_nsnode` refuses; the path leads nowhere |
| `EndMethod`, `UninstallFirst`, `Return` | the end of a method, which uninstalls the nodes of its list one by one |
| `StartWalk`, `Iterate`, `FinishWalk` | `lai_ns_child_iterate` as its callers use it |
| `AskStatus`, `Judge`, `Initialize`, `InitChildren` | `lai_init_children()` of `helpers/sci.c` |
| `Ask`, `Match` | the loops of `helpers/pci.c` and `core/ns.c` that evaluate a method per child |

Between two steps of a loop a method runs, and may install and uninstall children
of the very device that is iterated: this is why loops and AML are one module.
Methods can be invoked when they are installed, in any order, as often as the
bounds allow: the interpreter is seen through its contexts only, since `LaiExec`
has the rest.

An error finalizes the contexts and leaves the nodes of the methods that ran
installed for good.  The code does so, and the property about calls says it of calls
that end, not of those that are aborted.

### LaiHeap, LaiOperand: objects and operands

`LaiHeap` has the shared objects of `variable.c` and `object.c`: `Ref`, `Finalize` (which
frees the elements of a package with it), `Assign`, `Clone`, `Resize`.  Where the code
recurs into the elements of a package, the model has the values that are left in a
sequence and takes one of them at a time, in the order of the code (`FinalizeNext`,
`CloneNext`), as many times as there are elements to take: a recursive function of a
natural, which can be proved about.
`LaiOperand` models the operand functions of `exec-operand.c` and the operators of
`lai_exec_reduce_op()` that copy, index or dereference.

| model | code |
|---|---|
| `heap[o]` | a reference-counted string, buffer or package at address o |
| `name[n]` | the object of a Name node |
| `frames` | the invocations: a local, an argument, buffers of buffer fields, operands collected so far |
| `Operand(term)` | `lai_exec_get_objectref`, `lai_operand_load` and what the term evaluates to |
| `Mutate`, `MutateOperand` | `lai_obj_mutate`, `lai_operand_mutate` with its walk through references |
| `EmplaceOperand` | `lai_operand_emplace` |
| `Store`, `CopyObject`, `StoreElement`, `StoreView` | the operators, with results wanted or not |
| `IndexTo`, `SizeOf`, `CreateField` | Index with a target, SizeOf, the buffer field operators |
| `Call`, `Return`, `EndMethod`, `Fail` | arguments that move into a callee, the result that moves back, an error |
| `lost` | references that nobody will drop: the leaks the code has (history) |
| `status = "wild"` | an access to memory that was freed or that lies outside an array |

A step is a whole operator with its operands; `LaiExec` has the order in which they
come.  Views that an operator takes and drops within itself change nothing and
are left out; one that it forgets is entered into `lost`.  Contents of strings and
buffers, and conversions between them, are left out: `Mutate` keeps what kind of
object results and whether it is the same one.

### LaiField: fields

`LaiField` models `opregion.c`: `lai_read_field` and `lai_write_field` for fields, index
fields and bank fields with their loops over accesses, and the buffer fields of
`exec-operand.c`.  A value is the set of its bits that are 1.

| model | code |
|---|---|
| `mem` | the registers behind the host's accessors (external); `Selector` says what an index or bank register selects |
| `calls[t]` | the calls of a thread: the outer one, and the one that accesses the index, bank or data register inside it |
| `Start`, `Return` | the call and the result of the four public functions |
| `Fetch`, `Fill`, `Store` | a read; the read of a read-modify-write or the update rule; the write |
| `SelectBank`, `SelectToRead`, `SelectToWrite` | the writes to the bank or index register |
| `FetchData`, `Fetched`, `StoreData` | the accesses of the data register |
| `UseBuffer` | a buffer field: `lai_read_buffer` and `lai_write_buffer`, whose loads and stores of bytes are `Fetch` and `Store` |
| `ideal` | what the registers should hold when whole operations are atomic (history) |
| `raced` | the bits that operations wrote while others were in their way (history) |

Every access of the host, and every access of a byte of a buffer, is a step, and any
thread may start any operation at any time: `opregion.c` takes no lock and ignores the
Lock rule of fields.  AML that needs more has to acquire a Mutex.  Operations that it
does not keep apart race: two read-modify-writes of one byte undo each other, and the
data register is accessed behind the index of another thread.  All this happens in the
model.  What the properties say of it is how far it reaches.  An operation that starts
while another one writes what it accesses, or accesses what it writes (`Clashing`), or
whose bits were raced for before, adds the bits that it and those others write to
`raced`, where they stay.  No action reads `raced`.  A thread is `Calm` while none of the bits
that its operation accesses is in `raced`; the properties are about calm threads and
about fields without raced bits, whatever races elsewhere.

### LaiEc: the embedded controller

`LaiEc` composes `drivers/ec.c` with the controller behind its two ports.  The driver's
actions are its port accesses; the controller's (`TakeCommand`, `TakeByte`, `Answer`,
`LeaveBurst`, `DropBurst`, `Raise`) are *external* and do what the driver and the ACPI
handshake expect of a controller.

| model | code |
|---|---|
| `ports` | which of `cmd_port` and `data_port` are known (`lai_early_init_ec`, `lai_init_ec`) |
| `op`, `left`, `at`, `got` | the call, bytes not begun, the current byte, bytes read |
| `EnableBurst`, `BurstGranted`, `DisableBurst`, `BurstLeft` | `enable_burst()`, `disable_burst()` |
| `Command`, `SendOffset`, `SendValue`, `TakeData` | `lai_read_ec()`, `lai_write_ec()` |
| `Query`, `Answered`, `FetchAnswer` | `lai_query_ec()` |
| `ibf`, `inbyte`, `obf`, `latch`, `burst` | the controller: buffers and status bits |

A poll is one step with the access that it waits for: while the driver polls for IBF
to clear or OBF to be set, nobody else can undo it.  The driver has no lock, so the
host makes one call at a time.  C leaves the order open in which the handlers of the
region read the bytes of a wider access, and so does `NextByte`; the writes are
statements and keep their order.  Offsets are `uint8_t` and wrap.  A region that is
used before the ports are known accesses port 0 (`astray`); the model stops there.

---------------------------------------------------------------------------

## 3. Runs

| run | checks | shows |
|---|---|---|
| `mutex` | `TypeOK`, `MutualExclusion`, `WordIsHonest`, `NoForgottenSleeper`, `ImplementsLock`, `TwoContendersAcquire` | the futex mutex is a lock, with deadlines, on both kinds of host |
| `mutex_starvation` | `EveryContenderAcquires`: **violated** | see section 5 |
| `event` | `TypeOK`, `SignalsConserved`, `ImplementsCounter`, `SignalAndResetReturn` | the word counts, up to and over its limit |
| `event_waiter` | `SignalledWaitReturns`: **violated** | see section 5 |
| `exec` | `TypeOK`, `StacksAligned`, `BlocksNest`, `NoEnsureFires`, `CallsReturnBalanced`, `EndlessOnlyByWhile` | all opcodes but VarPackage and BankField |
| `exec_implicit_return` | `ImplicitReturnWorks`: **violated** | see section 5 |
| `exec_var_package` | `PackagePhases`: **violated** | see section 5 |
| `exec_bank_field` | `NoEnsureFires`: **violated** | see section 5 |
| `namespace` | `TypeOK`, `TablesOK`, `LookupsFind`, `ArrayCoversTables`, `UninstallFinds`, `AliasesAreFlat`, `ImplementsTree`, `CallRestoresNamespace`, `EveryChildOnce` | tables, array and per-method lists agree; calls clean up; loops see every child that stays once |
| `objects` | `TypeOK`, `RefCountsExact`, `VariablesOwnTheirObjects`, `IndicesBindToObjects` | counts are numbers of references, apart from the leaks listed in section 5 |
| `fields` | `TypeOK`, `ReadsReturnWhatWasStored`, `NeighboursKept`, `RegistersSelect`, `OperationsEnd` | slices of all four kinds, by two threads that may race |
| `embedded_controller` | `TypeOK`, `ReadsReturnWhatWasStored`, `QueriesExact`, `BurstNeverRefused`, `OnlyBurstEnableOverwrites`, `CallsReturn` | the driver's handshake with a controller that may drop burst mode at any time |

### Bounds

- `mutex`: three threads, any subset of them contending, two Acquires each.  A
  third thread is what it takes to lock the word between an exchange and a wake;
  the second round meets words that an earlier round left behind.
- `event`: three threads, 2 Waits, 4 Signals, 1 Reset, a count that is full at 3.
  Four signals overflow the count, and 3 is the value on which a waiter can sleep.
- `exec`: methods and tables of 0 or 5 opcodes, a stack of 4 items, arrays of 3
  entries.  Four items hold `METHOD > LOOP > COND > Break` and `Return`, or three
  nested calls with an operator between them; five opcodes are enough for an
  `If` with `Else` and code behind it.  With room for three, every one of the four
  arrays has to double.  One operator (an object and a target operand), one node
  (a name and an object) and methods of one argument stand for the operators,
  nodes and methods, which only differ in the sequence of modes.
- The three small `exec` runs only have calls and the opcode in question.
- `namespace`: a predefined device and four names, three of which have the same hash
  and the fourth of which lands among them, in tables that begin with four buckets: chains
  collide, wrap around and grow.  Six nodes ever created, three nested contexts.
  `INI` stands for every name that the loops evaluate (`_STA`, `_INI`, `_ADR`, ...).  The
  terms let a method install a node beside its device, inside itself, and in a device
  that it opens.
- `objects`: three addresses, a Name, a local and an argument, two nested invocations
  with two pending operands each, packages of one element or none, one lost reference,
  four operators in a row; four are what it takes to create an object, share it, index
  it, and overwrite what it was shared with.  (The same properties were found to hold
  for five operators with one pending operand.)  `SYMMETRY` permutes the addresses: the
  code never compares them, and free ones are alike, so that it does not matter which
  one `CHOOSE` takes.
- `fields`: two threads, bytes of 2 bits and integers of 8, accesses of 2, 4 and 8, and fifteen fields: inside
  an access, across two, as wide as the integer (one in place and one across two
  quad-words), of all update rules, AnyAcc, index and bank fields that share their
  registers, two buffer fields that share a byte.  Two operations are enough: the
  invariants compare the registers with `ideal` after every one, whatever was there
  before, and two is what can run at once and race.  The two values that are written
  give every bit of a field a 0 and a 1.  Races do occur: if `Calm` is replaced by TRUE, or
  the bits in `raced` are not excepted, TLC finds `ReadsReturnWhatWasStored`,
  `NeighboursKept` and `RegistersSelect` violated.
- `embedded_controller`: four bytes of memory, accesses of one and two, two events, and
  three calls, so that what one call leaves behind in the controller meets the next,
  and what that leaves the one after it.  `Ack` is one of the bytes that can be read.

The last four runs have CHECK_DEADLOCK off: their bounds (nodes, operators,
operations, calls) stop them, and so does a panic.

`MaxStack` bounds the recursion of methods; beyond it `ParseItem` is disabled and
everything else remains possible.  The code has no bound but memory.

### Fairness

- Mutex and Event: `WF` for the steps of each thread.  The host schedules each
  thread again and again, a critical section ends, and a thread calls only the
  number of times the bounds give it.  A deadline is *not* fair: it may never
  pass.  No strong fairness is assumed for an exchange: a thread that loses
  against the others for ever is a behaviour the code has.
- Fields: `WF` for the steps of each thread inside an operation.  A thread that
  evaluates a field does not stop in the middle of it.
- Embedded controller: `WF(Step)`, since polling is a loop that nothing suspends, and
  `WF(Controller)`: the controller goes on taking bytes and answering, as the
  polling loops, which have no timeout, require.  No fairness for `DropBurst` and
  `Raise`: it may keep burst mode, and there may be no events.
- Interpreter: `WF(Process)`, one process as a whole: `lai_exec_run()` is a `while`
  loop that nothing suspends.  Which opcode comes next is not subject to fairness.

### Deadlock

`exec` is checked for deadlock: in every reachable state some branch of
`lai_exec_process()` applies or the run has halted (`Halted`).  The mutex and event
configurations turn the check off, since on a host that wakes one sleeper of
several a thread may sleep for good, as may a waiter that is not signalled.

### Mutants

Next to an action stands, marked *Mutation*, the way a plausible bug would change
it (a plain store for an exchange, a block that is not popped, a reserve that is
missing).  Each checked property has one, and TLC finds the property violated
when the mutant takes the action's place.  They are used nowhere else.

---------------------------------------------------------------------------

## 4. Proofs

All proofs are in `LaiMutexProofs`, `LaiEventProofs`, `LaiExecProofs`, `LaiEcProofs`,
`LaiHashtableProofs`, `LaiNamespaceProofs`, `LaiFieldProofs` and `LaiOperandProofs`,
which extend the component's module and TLAPS, directly or through each other.

**Mutex** - for every set of threads, any number of calls, every choice of
contenders, deadlines and host, assuming only `RoundsAssumption`, `NobodyAssumption`
and `ThreadsAssumption` (threads are finitely many).  The inductive invariant is

    IInv == TypeOK /\ WordIsHonest /\ MutualExclusion

Mutual exclusion alone is not inductive: a successful exchange from 0 puts a
second thread into the critical section unless an unlocked word is known to mean
that nobody is there, which is `WordIsHonest`; and that a local copy `v` compares
equal to 0 or LOCKED only means anything because words take the three values of
`TypeOK`.  One lemma per action; actions that neither touch the word nor the
critical section share `QuietStep`.  The theorems are `TypeCorrect`, `Exclusion`,
`Honesty` and `Refinement`; in the last, the exchange from 0 is `Take`, the one to 0
is `Drop`, and every other step stutters.

`SleepersRemembered` proves `NoForgottenSleeper` on top of these.  A host that wakes one
sleeper of several may leave another one asleep with a plain word, which is why the
property is about hosts that wake all, or two contenders.  In the second case the
argument counts: a thread that still sleeps, the one that was woken and the one that
woke it would be three.  That needs `OnlyContenders` (a thread that is not idle is a
contender), and with it `WakeInv` is inductive.

**Event** - for every set of threads and every `COUNT`, hence for 2^31 - 1, assuming
`CountAssumption` and `CallsAssumption`.  `IInv == TypeOK /\ SignalsConserved`: that a
failed or late exchange neither loses nor invents a signal needs that the word
never mixes count and flag, and that the word exchanged is the one that was
looked at.  Theorems: `TypeCorrect`, `Conservation`, `Refinement`.

**Interpreter** - for every AML, all sizes of methods, all initial capacities and
any `MaxStack`, assuming the assumptions of `LaiExec`.  Five theorems, each on top of
the ones before; the first three are about all opcodes, VarPackage and BankField
included:

- `TypeCorrect`: the state is well typed and no stack outgrows its
  array.  `TypeOK` is inductive as it stands.  There is one lemma per action, over
  lemmas on prefixes of sequences, on `Reserve` (a reserved array has room for one
  more), on `Put`, and on the items that `Forms` can open.
- `Alignment`: `StacksAligned`.  By itself it is not
  inductive in a way the prover can use: `Break`, `Continue` and `Return` pop a
  *number* of blocks, computed by counting items, and that the number is right is
  an induction over the items in between.  `Spans` carries the result of that
  induction along as a fact about every pair of items: with no context in between
  the two counts of contexts are equal, with nothing but items with blocks in
  between the counts of blocks differ by the number of items.  The invariant is

      IInv == TypeOK /\ Woven(ctx, blk, stack)      Woven == Aligned /\ Spans

  stated over arbitrary sequences, so that its three lemmas (`PushWoven`,
  `UnwindWoven`, `SameShapeWoven`) serve every action.
- `Nesting`: `BlocksNest`.  The invariant adds to `IInv` that
  the code which the pc may be *set* to later nests as well (the body of a `While`
  ends where its block ends; an `Else` begins before it ends), and that nothing is
  on the stack while the interpreter is idle (else a method called by the host
  would seem to nest in a block).  That only the innermost block's pc ever moves
  follows from `Woven`.
- `EnsuresHold`: `NoEnsureFires`, assuming that `Kinds` has
  neither VarPackage nor BankField, with which it is false (section 5), and, by
  `OperandsAssumption`, that operators and nodes take no statement for an operand.
  The invariant is

      FInv == NInv /\ Sound      Sound == Live(blk) /\ Framed(stack, ops, ...) /\ ...

  where `NInv` is that of `Nesting` and `Framed` cuts the operand stack into frames.
  Between the frames of two neighbouring items lie exactly the operands that the
  lower one has collected, each with a tag that its argument mode may yield
  (`Gathered`), and the upper one delivers what the lower one waits for (`Wants`):
  an object where the next argument may be one, nothing if the lower one executes
  statements.  So an item that ends turns its neighbour into a `Gathered` top.
  `Break`, `Continue` and `Return` end several items at once; `Rising` carries along,
  for every pair, that the frames between items that execute are empty.  Four lemmas
  about sequences (`ChangeFramed`, `DeliverFramed`, `PushFramed`, `StartFramed`) serve
  every action.  That pushes find room is `PutSucceeds`: no action makes a stack
  higher by more than what it has reserved.  A package in phase 0 counts its phase up
  through a pointer that is never stale, since the byte it asks for pushes no item.
- `CallsBalanced`: `CallsReturnBalanced`, under the same
  assumptions and from the same invariant.  Only the end of a method and a Return
  make the stack lower than a METHOD item (`OnlyReturnsLeave`), and what they leave
  follows from `Aligned` and from the operand being the only one above the frame of
  the method.

**Embedded controller** - for a memory of any size, any accesses, values and events and
any number of calls, assuming `BytesAssumption`.  The five theorems `TypeCorrect`,
`ReadsCorrect`, `QueriesCorrect`, `NeverRefused` and `OverwritesOnly` have one inductive
invariant in common,

    IInv == TypeOK /\ OpOK /\ Handshake /\ DisableIdle /\ Memory
            /\ ReadsReturnWhatWasStored /\ QueriesExact

whose heart is `Handshake`: for every place in the driver it says which commands,
bytes and answers can be on their way, and in which state the controller is when it
has dealt with them.  None of the properties is inductive without it: that a byte read
is the answer to *this* command means that no answer to an older one is in the output
buffer.  `Memory` relates the controller's memory to `ideal` while a write is under
way.  One lemma per action, one step per part of the invariant.

**Hash table** - for tables of any size and any hashes.  `LaiHashtableProofs` is about
the operators of `LaiHashtable`, with `WellFormed` for a table that they may be given
and return: two buckets per slot, the buckets in use lead to the slots in use, one each,
the count is right and a slot is free.  `InsertAdds` and `RemoveDrops` say what an
insertion (growing and rehashing included) and a removal do to the slots,
`ChainExact` that a walk from a hash meets exactly the slots with that hash: probing
is a bijection of the buckets (`ProbeInjective`, `ProbeReaches`), and an insertion that
finds a free bucket fills no other.  That there is one is a matter of counting
(`FreeBucketExists`).  Rehashing is a recursive function; the induction is made with a
*set* of naturals (`IntervalInduction`, from the well-foundedness of `<`), since an
operator cannot be passed to a theorem, and that the function exists is
`RecursionExists`.

**Namespace** - for all names and hashes, every set of terms, and any bound on nodes and
calls, assuming `NamesAssumption` (the predefined names differ, and there is one:
`lai_create_root()` installs them), `TermsAssumption` (a term that creates a node has a
name, which `lai_do_resolve_new_node()` asserts) and `BoundsAssumption`.  The inductive
invariant is

    IInv == World(node, array, children) /\ Calls(node, children, ctx)
            /\ Walks(node, children, ctx, walk) /\ status \in {"ok", "unresolved"}

stated over arbitrary nodes, tables, contexts and loops, so that a step which changes
one of them cites what it keeps of the others:

- `World`: tables are well formed and hold children of their node with different names
  under their hashes; the array has node i + 1 at place i until it is uninstalled; the
  targets of aliases are no aliases; the first predefined device stays.
- `Calls`: a node on a per-method list is in its table, was created by a method, and is on
  no other list; since each call nothing was taken away that was there, and what is new
  is on the list of that call or of one inside it, or was created in a block
  (`SinceCall`).
- `Walks`: the children that were there when a loop began are in the slots where they
  were, seen if the iterator has passed them, and on no per-method list.

None of the properties is inductive without the others.  That uninstalling finds a node,
once, needs that it is in its table (`Calls`) and that tables are well formed; that it
leaves the children of a running loop alone needs `Walks`, which holds because a loop
only begins outside all methods.  `LookupsAreExact` is the lemma on which creation rests:
a name that is not found has no sibling of that name, so that the names of siblings
differ.  The theorems are the nine properties of the run `namespace`: `TypeIsOK`,
`TablesAreConsistent`, `LookupsAreExact`, `ArrayAgrees`, `UninstallAlwaysFinds`,
`AliasesStayFlat`, the action properties `CallsRestore` and `ChildrenOnce`, and
`TreeRefinement`, in which an installation is `Add`, a round of the loop that uninstalls is
`Remove`, and every other step, a refused duplicate included, stutters.

**Fields** - for all layouts of fields, any widths of bytes, accesses and integers, every
set of threads and any number of operations.  `WidthsAssumption` says that an access
is a number of bytes and no wider than the integer.  `FieldsAssumption` says which
nodes have registers, and that registers are plain fields that preserve what is around
them.  `DeviceAssumption` is about the hardware that the AML describes: registers are
not behind registers, what an access reaches is behind its own register or behind
none, and a register is narrower than `uint64_t` (the mask is undefined otherwise,
section 5).  `IndexAssumption` says that an access of an index field fills its data
register, and that the index register has room for the offsets of the field, so that
different accesses reach different registers.  The inductive invariant of
the first part of `LaiFieldProofs` is

    FieldInv == Types /\ Apart /\ Contained
                /\ \A t : StackOK(calls[t]) /\ (Calm(t) => Selects(mem, calls[t]))

- `StackOK`: at most a register is accessed within an operation, and what its call does is
  what the caller waits for (`Inner`); a call is at the first bit of the field or of
  an access, and its byte offset, which the code only ever counts up, is that of the
  bit (`CallOK`).
- `Selects`: while a register is written it holds the bits of the source that were written
  so far; afterwards it holds the whole, until the last access that needs it.
- `Apart`: no operation writes what that of another, calm thread accesses.
- `Contained`: an operation that is not calm writes only bits in `raced`.

That `Apart` and `Contained` hold when an operation begins is `BeginKeeps`, and comes down
to which bits `Race` adds: those of everyone who stops being calm.

`RegistersDoSelect` (the property `RegistersSelect`) needs all of it.  A register may take
several accesses, each a read-modify-write, so that what it holds at the end is an
induction over its accesses (`StoreRegister`), which needs the position of each.  That
no other thread, and no access behind the register, disturbs it is `AdvanceKeeps`: a
step changes only bits that belong to the accesses of its own operation, and the bits
behind a register are not those of a register.  The arithmetic is in the lemmas
`UnitSame` and `UnitNext`: the bits of an access have one byte offset, and the next access
begins where the last one ends.  `TypeIsOK` follows from the same invariant.

The second part of `LaiFieldProofs` adds what the memory holds, with

    MemoryInv == Agrees /\ \A t : Calm(t) => Faithful(mem, calls[t])

- `Agrees`: a bit that no write is changing, and that is neither `Vague` nor in `raced`, is
  as in `ideal`.
- `Faithful`: the operation of a thread has read what is there, and the accesses of a
  write that are over left in every bit what the write is to leave there (`OuterOK`): the
  source inside the field, and around it ones, zeroes or what was there.  While a data
  register is accessed, what is read or written so far is the content of the cell that
  the index register selects (`InnerOK`).

Neither conjunct is inductive without the other.  `Agrees` has to hold again when an
operation ends, which is when `ideal` changes, and by then all its accesses must have
been right; that they were needs the value that a read-modify-write fetched to be what
is in memory still, when it stores it.  This is where the interleaving matters: the
value lies in a local variable while other threads run, and no step of another operation
changes a bit of the access of a calm thread: a calm one, because they are `Apart` and
its registers do select (`Selects`); one that races, because it changes only bits in
`raced`, wherever the index that it finds points to (`WildMemory`).  The arithmetic is
that of the bits of an access (`UnitBitFacts`), and that two bits of a field never share
a cell (`IndexAssumption`).  The theorems are `NeighboursAreKept` (the property
`NeighboursKept`: a field keeps its bits even in the middle of a write to a byte they
share) and `ReadsAreExact` (`ReadsReturnWhatWasStored`).  With `RegistersDoSelect` they
are about threads and fields that do not race, whatever races elsewhere: that what races
can do is spoil what it races for, and no more.

**Objects** - for any number of objects, Names, nested invocations, pending operands and
operators in a row, and packages of any size, assuming `ObjectsAssumption`,
`ContentsAssumption` (there are finitely many Names) and `BoundsAssumption`.  What the
lemmas of `LaiOperandProofs` speak of is defined in `LaiOperandInvariant`.  The inductive
invariant is

    IInv == HeapOK /\ FramesOK(frames) /\ LostOK /\ status \in Statuses
            /\ steps \in 0..MaxSteps

- `HeapOK` has the counts: the count of an object is the number of places in the elements
  of all packages that hold it (`UsesIn`), plus the number of places outside the heap,
  in Names, invocations and `lost` (`Outside`); it is free if that is 0.  It also has the
  values: an index leads to an object of the heap, and a reference to a Name or to
  an invocation that is alive (`Alive`), never to one that has ended.
- `FramesOK`: a buffer field holds a whole object, no invocation has more operands than it
  may, and a caller has room for the result that it waits for.

`RefCountsExact` is not inductive without the rest.  When an invocation ends, `Expired`
changes references into dangling ones everywhere; that no count changes by it needs the
places to hold the same objects before and after (`StateRenamed`).  That the elements of
a package can be finalized needs every element to be a value whose object is alive.

A count is the cardinality of a set of places, so that the first part of
`LaiOperandProofs` is about sets of places: what replacing, adding, dropping and joining
rows and sequences does to it.  The second follows the heap operators.  `Counted(h, V, c)`
says that the counts of heap h are right if c is what is outside of it, and there is one
lemma for each operator on how c changes: `FinalizeKeeps` takes what is finalized from c,
`CloneKeeps` adds one for the copy and leaves the copied elements counted inside, and so
for `RefKeeps`, `AssignElementKeeps`, `ResizeKeeps` and `OverwriteKeeps`.  Finalizing ends
because each step takes one of finitely many values; the inductions over steps are in
`RecursionType`.  The third part has one lemma per action: each
shows that the operands it takes, the variables it writes and the views it forgets
balance (`Ready`).  Theorems: `InvariantHolds`; `TypesHold`; `CountsExact` (the property
`RefCountsExact`); and `IndicesStayBound` (`IndicesBindToObjects`), for which every action
is shown to leave the elements of packages alone (`Stable`), to change no more than
references that dangle (`Steadies`), or to be a store to the element or to the Name.

`VariablesOwnTheirObjects` needs an invariant of its own, beside `IInv`:

    Ownership == \E at : Planted(heap, at) /\ Rooted(at, name, frames)

There is a map `at` that gives every object a spot: the variable at the root and the path
of positions that leads from there to the object.  `Planted` says that the elements of a
package at a spot are at the children of that spot, and `Rooted` that what a local or a
Name contains is at that variable.  The property itself follows elements to any depth, so
that a proof about a step would be an induction over the heap; a spot relates a package to
its own elements only, and the depth is gone through once, at the end (`ContainedBelow`).
`Ownership` is kept because every store creates what it stores: `CopyPlanted` and
`ClonePlanted` build the copy at the spot of the place that it is stored to, and leave the
spots of all other living objects as they were (`Stays`).  A literal on the operand stack,
or a copy that a method returns, is put on the `Shelf`, the spot of no variable.  An
operator that only drops references loses objects and moves none (`PlantedShrinks`), and
the end of an invocation takes its locals with it (`WithersPlanted`).  What a place
contains is then below its spot (`ContainedBelow`), and no path is below two variables or
below two positions of one package.  Arguments are left out, as in the property: they hold
the objects of the caller.  TLC cannot evaluate `Ownership`, which asks for a map into the
infinitely many spots; the run checks what follows from it.  Theorems:
`ObjectsKeepTheirSpots` and `VariablesStayApart` (the property
`VariablesOwnTheirObjects`).

Only model-checked: the liveness properties, which are beyond the prover.

---------------------------------------------------------------------------

## 5. Disagreements between the code and its comments

Each is a run whose only property TLC finds violated; `PROJECT.json` has the
quotations under `findings`.

1. **`mutex_starvation`** (`exec_impl.h:130`).  `lai_mutex_lock()` does not reload
   `v` after `laihost_sync_wait()`.  A thread whose exchange failed against 3 keeps
   `v = 3`; after the unlock the host returns at once, and the thread calls it
   again and again while the Mutex is free.  It takes a third contender to write
   the word that makes `v` stale for good; for two, `TwoContendersAcquire` holds.
2. **`event_waiter`** (`exec_impl.h:172`).  `lai_event_wait()` passes the mutex's
   value to the host and does not reload `v` either.  A thread that announced
   itself, went round and lost an exchange against `WAITERS` never looks for the
   signal.
3. **`exec_implicit_return`** (`exec.c:1421`).  A method without `Return` panics when
   its caller has operands pending, as in `Add(One, FOO())`.
4. **`exec_var_package`** (`exec.c:1496`).  The size expression of a `VarPackage` can
   move the execution stack under the pointer through which its phase is counted
   up.  (A `Package` has its size in one byte, which pushes no item: it is safe,
   as the run `exec` shows.)
5. **`exec_bank_field`** (`exec.c:2997`).  `lai_exec_reserve_opstack_n(state, 2)` makes
   room for one.

The passing run `exec` leaves out the opcodes of 4 and 5 so that the remaining
ones are checked to the end; the implicit return of 3 stops with a status of its
own there, which `NoEnsureFires` does not count.

---------------------------------------------------------------------------

Nothing in the repository promises otherwise of the following, so that they are no
findings; the models contain them, and the properties are stated around them, each
exception by a name of its own:

- *Objects.*  Left behind in `lost`: the object that DeRefOf takes out of an index, the
  one that SizeOf looks at, the package that a node is mutated through, and the buffers
  of buffer fields when an error ends the method.  `wild`: a reference (RefOf) to a
  local or argument that outlives its invocation, and an index whose package was made
  smaller in place, which is not compared with the size again.  A package that is
  stored into itself is a cycle that nobody frees.  CondRefOf stores a handle, which
  the operators that take references do not know.
- *Fields.* `Shiftless`: a buffer field that starts inside a byte is written with a
  shift and read without (`exec-operand.c:441`).  `Wide`: an access of 64 bits all of
  which belong to the field computes its mask as `1 << 64`, which C leaves undefined.
  A quad-word field that ends at or crosses a 64-bit boundary without covering a
  quad-word has masks that are defined, and the properties do cover it.  Races: no
  lock is taken, so that operations the AML does not keep apart lose updates and
  access slots that another thread selected; the properties say that nothing outside
  `raced` suffers.  `crashed`: an index field with AnyAcc looks for the region it does
  not have.  The registers of an index or bank field bypass bank selection when they
  are bank fields themselves; the assumptions exclude it.  An index field whose access
  is not as wide as its data register is written and read in pieces that do not fit,
  and the code compares neither the widths nor the offset with the size of the index
  register: `IndexAssumption` excludes both.  `Vague` is what the properties say
  nothing of: index and bank registers, in which operations leave whatever they
  selected last, and fields that are `Wide`.
- *Namespace.*  A refused duplicate stays in `ns_array` for ever (origin `refused`), as do
  the nodes of a method that an error ends.  `Name` ignores the refusal.
- *Embedded controller.*  `enable_burst()` does not wait for the input buffer to clear: a
  value that `lai_write_ec()` left there on its return may be overwritten and is lost
  (`ec.c:117`).  `OnlyBurstEnableOverwrites` says that this, and a BURST_DISABLE without
  effect, is all that is ever overwritten.

---------------------------------------------------------------------------

## 6. What is left out

Of what is modelled:

- Of the *values* of operands, `LaiExec` has that a predicate may be true or false;
  `LaiOperand` which objects they share.  Arithmetic, comparison and the conversions
  between integers, strings and buffers are left out.
- The namespace, the objects and the interpreter are modules of their own and not one
  product: they meet in the context stack, the ways in which a method is left, and
  the order of operands, which each of them lets be arbitrary where another one has it
  precisely.
- Fields wider than 64 bits and sources shorter than their field (a buffer in place of
  an integer); the Lock rule, which the code ignores, and so does the model; that
  `lai_write_buffer()` clears the bits of a byte before it sets them, which only an
  operation that races for these bits can see; AccessField, which overwrites the flags
  for the update rule along with the access type (`exec.c:2881`).
- That an operator which creates a buffer field is given a buffer, which the code
  assumes.  Name objects of a method's nodes are not finalized when the nodes are
  uninstalled; nodes are never freed either.
- Names and immediates: how long an encoding is.  Every header counts as one unit
  of code.  A nested block that is longer than its parent (AML that is wrong in a
  way the parser does not look for) is excluded.
- Locals and arguments outside a method, and the use of a statement where an
  operand is required, are AML errors that the model does not enumerate.  Other
  wrong AML (a block that ends too early, a `Break` without `While`, operands of the
  wrong type) ends in the panic `malformed`.
- Recursion to the limit of memory; a failing allocation is one of the causes of
  `Fail`.
- Tracing and warnings.

Parts not modelled yet, and why, are in the `components` list of `PROJECT.json`.
RSDP detection, formatting and the libc functions are not going to be: they have
no state and no control worth a model.

---------------------------------------------------------------------------

## 7. The plan

Done: `LaiLock`, `LaiMutex`; `LaiCountingEvent`, `LaiEvent`; `LaiExec`; `LaiHashtable`,
`LaiTree`, `LaiNamespace`; `LaiHeap`, `LaiOperand`; `LaiField`; `LaiEc`; and the proofs of
section 4.  Left, in order of importance:

1. `LaiEvents`: PM timer and SCI registers, whose read-clear and enable bits race with
   the events themselves; then sleep and reset of `helpers/pm.c`.
2. `LaiResource` and `LaiPci` as pure functions, compared with a reference definition
   over all small resource buffers and routing tables.
3. The conversions of `lai_mutate` and of the arithmetic operators as functions.
