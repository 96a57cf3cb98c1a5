# Verification of the ARM simulator

A TLA+ development kept beside the sources of `simulateur_ARM_S5`: a simulator
of a 32-bit ARM core that a `gdb` drives through the remote serial protocol
while other processes raise interrupts on a second socket. File names below are
relative to `src/`.

The models are translated from the code as it is. Where the code and its own
comments disagree, the model follows the code; the disagreements that a run
shows are listed under *Findings*, others under *What the runs show that may
surprise*.

## 1. The system

### Components

| component | sources | state | operations |
|---|---|---|---|
| Register file | `registers.c` | the pc, r0-r7, r8-r12 (2 banks), r13-r14 (6 banks), cpsr, 5 spsr, `current_mode` | read and write a register, the cpsr or a spsr for a mode; which modes have a spsr, are privileged |
| Core | `arm_core.c`, `arm.h` | the register file, the memory, `cycle_count` | `arm_create`, the accessors that choose the mode, `arm_fetch`, load and store |
| Exceptions | `arm_exception.c` | (the core's) | `arm_exception` and the entry of each exception |
| Instructions | `arm_instruction.c`, `arm_data_processing*.c`, `arm_branch_other.c`, `arm_load_store.c`, `load_store_*.c` | (the core's) | condition test, dispatch, one handler per class; `arm_step` |
| Memory | `memory.c` | an array of bytes | byte, half and word accesses in two byte orders |
| Breakpoints | `gdb_protocol.c:52-120` | a sorted array and its number of cells in use | find by bisection, insert by shifting up, remove by shifting down |
| Debugger commands | `gdb_protocol.c` | `target_exception`, `stop_simulation`, the packet buffer | `s c g G p P m X q H Z z ? k` |
| Transport | `scanner.l`, `gdb_protocol.c:440-520` | the error buffer, the last packet, whether the connection is writable | scan a packet, `+`, `-`, a stray byte, the end of file; acknowledge, retransmit |
| Generated scanner | `scanner.c` | a buffer, the bytes of the token under way, a pending end of file | match, back up, refill, move and grow the buffer |
| Threads | `arm_simulator.c` | one mutex, three threads | `gdb_listener`, `irq_listener`, `main` |
| Interrupt sender | `send_irq.c` | none | sends one byte, the exception number |
| Tracing | `trace.c`, `trace_location.h` | flags, traced modes, a stack of places, the last address | push and pop a place around an access; trace a memory or register access |
| Debug switch | `debug.c` | a sorted table of file names | add a name, is a name on |
| Names, bit helpers | `arm_constants.c`, `util.c` | none | name tables; rotations and shifts |
| Socket wrappers | `csapp.c` | none | vendored: a write resumed until it is whole, calls that end the process when they fail |

### How they interact

`main` creates memory, registers and core, starts `gdb_listener` and
`irq_listener`, joins the first and then destroys the core. The gdb thread
runs the scanner, which calls `gdb_packet_analysis` for each packet; a good
packet is acknowledged, and then its handler runs *with the mutex held*: it
steps the core, reads or writes its registers and memory, or changes the
breakpoints, and sends its answer before the mutex is released. The irq thread
reads a byte and calls `arm_exception` with the same mutex held. `arm_step`
calls `arm_execute_instruction`, whose result, if it is not 0, is given to
`arm_exception`.

### What is hard here

* Banked registers and a cached mode: a register number means another cell
  after every cpsr write, and `current_mode` must follow the cpsr.
* Exception entry is four writes, one of which changes what the others mean.
* Two threads share the core; `g`, `G` and an instruction are many accesses.
* The mutex is held for a whole `cont`.
* Teardown: `main` waits for one thread of two.
* The transport acknowledges before it executes and answers after, over a line
  that may spoil a packet, with a user who may type control-C.
* The breakpoint table is shifted by hand and bisected after every instruction.
* 8-, 16- and 32-bit arithmetic: `(uint8_t) -1` as a mode and as a result,
  address bounds that wrap or do not.
* The shifter is ten functions behind a cascade of tests; the carry it and the
  operations compute feeds the conditions of later instructions.
* A transfer may fail after it has moved its base, and a multiple one half way.
* The connection cuts packets anywhere: the generated scanner refills, moves and
  grows its buffer within a token, and takes a NUL for its end marker.
* A write to a socket may be short or interrupted.
* `X` writes byte by byte up to the end of the memory and unescapes as it goes.
* Tracing pushes a place by a macro around each access; reads nest in the
  arguments of writes, and C leaves the order of the operands of a macro to the compiler.

### What makes each component correct

* Register file: a write is seen by exactly the modes that share the register.
* Exceptions, core, instructions: mode and cpsr agree, interrupts and aborts
  are masked, and an interrupt between two instructions keeps the cpsr it
  interrupts and disturbs no mode but that one and the one it enters.
* Arithmetic: the operand, the result and the flags are the architecture's, so
  that a compare decides its conditions and a carry chains additions.
* Transfers: an address is reached in full or not at all, and what a push has
  stored the matching pop finds.
* Memory: all sizes and both orders agree on where a byte lies; an access
  outside the memory fails; the debugger sees the bytes that the program sees.
* Breakpoints: the table is a set; `cont` stops at exactly its members.
* Commands and threads: each command and each interrupt is atomic, and answered
  or served unless the program runs for ever. That no thread uses the core
  after its end would belong here, but is not true of this code.
* Transport: a command is executed once, and its answer arrives if its handler
  returns; the tokens found do not depend on how the connection cuts the bytes.
* Tracing and debug: an access is traced with the place that made it, as long as
  the compiler calls before it pops; exactly the files named are debugged.

`PROJECT.json` lists the hazards of the code line by line with the properties
that cover each.

## 2. The modules

    Registers <- ArmException <- ArmInstruction <- ArmStep <- ArmCore
        ^                                 ^           ^  ^
    RegisterFile ..> RegisterView         |           |  GdbReplies <- Simulator
                                   ArmArithmetic      |                   :
                                          ^           |                   v
                                          ArmTransfer              AtomicSimulator
                                            |     ^
                                            |   Machine
                                            v
                                       MemoryAccess <- Memory <- DebuggerAccess

    Breakpoints ..> BreakpointSet         ArmNames <- Instrumentation
    GdbProtocol ..> RemoteCalls                ^
    Connection  ->  Scanner ..> Lexer      MCSimulator

An arrow points at what is extended (`ArmTransfer` instantiates `MemoryAccess`
with the core's memory); `..>` is a refinement: the abstract specification is a
PROPERTY of a run of the detailed one.

| module | models | correspondence |
|---|---|---|
| `Registers` | `registers.c`, the accessors of `arm_core.c` | operators on a record with the fields of `struct registers_data`, named after the C functions |
| `RegisterFile` | the register file under any sequence of its callers' writes | one action per writing function |
| `RegisterView` | abstract: what each mode may expect | a function from mode and number to a word |
| `ArmException` | `arm_exception.c` | one operator per entry, each with its writes in the order of the code |
| `ArmInstruction` | conditions and each class of instruction | an instruction is a record of what the decoder dispatches on; an operator gives the set of outcomes `[reg, result]` |
| `ArmStep` | creation of the core, fetch, `arm_step` | operators |
| `ArmCore` | the core alone | `Step` fetches and executes, `FetchAbort` is a step whose fetch fails, `Raise` an exception from the socket |
| `ArmArithmetic` | the shifter, the operations and their flags (`arm_data_processing*.c`, `util.c`) | operators named after the C functions, on words of `WordBits` bits |
| `ArmTransfer` | addresses and transfers (`arm_load_store.c`, `load_store_*.c`) | operators on registers and bytes that give the outcomes of a load or store |
| `Machine` | core and memory together | `Fetch`, `FetchAbort` and `Execute`, with the program's own words |
| `MemoryAccess` | the accesses of `memory.c` as functions of the bytes | one operator per test of bounds, per read and per write |
| `Memory` | `memory.c` under any sequence of accesses | `Read` and `Write` of a size, an address and a byte order |
| `DebuggerAccess` | `m X p P` beside the program's accesses | one action for `X`, one for `P`; the answers of `m` and `p`, which change nothing, are operators |
| `Breakpoints` | the table | one action per turn of each loop, one per branch after a bisection |
| `BreakpointSet` | abstract: a bounded set, one answer per question | |
| `GdbReplies` | what handlers compute of the core | operators shared by the next two |
| `Simulator` | the three threads and the mutex | one action per statement that another thread could see between: lock, unlock, fetch, execute, one register of `g` or `G` |
| `AtomicSimulator` | abstract: instructions, interrupts and commands at one instant | what an instruction, an exception and an answer are is given to it as operators |
| `GdbProtocol` | the transport and a gdb, packet by packet | tokens on two lines; one action per rule of `scanner.l`, one for the handler that runs inside the rule for a packet |
| `RemoteCalls` | abstract: numbered calls, each executed once and answered if its execution ends | |
| `Scanner` | `scanner.c` | the compressed tables as they are; the match loop and the reconstruction of its state as recursive functions; one action per case of the end-of-buffer rule |
| `Lexer` | abstract: the rules of `scanner.l` | the longest match of five patterns, the first of equals |
| `Connection` | `gdb_scanner` and `Rio_writen` on a connection of bytes | one action per rule, one per outcome of a write, one for the shutdown by `k` |
| `Instrumentation` | `debug.c`, `trace.c`, the options that set them up | one action per option, per access begun and ended |
| `ArmNames` | `arm_constants.c`, `send_irq.c` | the tables and their searches |
| `MC*` | instances for TLC | values of the constants |
| `*Proofs` | theorems | see section 5 |

### Abstractions

* A status register is its five mode bits and the set of its other bits.
* An instruction is a record of the fields the decoder extracts, under the
  names the code gives them; its bit pattern is left out.
* In `ArmCore` the words data processing computes and memory returns are any of
  `Values`, so that what is proved of it holds whatever they are. `Machine` has
  the words themselves, and its run shows that every instruction ends in one of
  the outcomes that `ArmCore` allows it (`ImplementsClass`).
* `Machine` keeps the arithmetic of the code on words of `WordBits` bits made of
  four bytes of `ByteBase` values each; a rotation by 0, which shifts by the
  whole width, is what the processor makes of it (the width is masked).
* A load multiple that fails uses a word the code never set: it is any of
  `Unread`.
* A byte on the line is its class in `yy_ec`, the table by which the generated
  scanner itself takes bytes together.
* In `Connection` a packet is answered, refused for its sum, or is `k`, as the
  class of its second byte allows: sums and the other commands are not told
  apart. A write after `k` ends the process, by its signal or by `unix_error`.
* `ArmInstruction` keeps what a class of instructions does to registers, mode
  and result, including what is surprising: the comparison of the *value* of
  rd with the pc, `teq` writing rd, an `msr` that clears the cpsr and then
  returns `DATA_ABORT`, write-back before an access that fails, the number of
  the base register used as an address in the increment-after form, a
  condition that fails returning `INTERRUPT`.
* The mode `(uint8_t) -1` of a cpsr that names no mode, and the result
  `(uint8_t) -1` of a failed access, are the value 255 in both roles.
* `registers_create` leaves everything but `current_mode` as `malloc` returned
  it. The program is built with the address sanitizer, whose `malloc` fills
  with 0xbe: the mode bits of such a status register are 30, which names no
  mode. This is `UninitPsr`, and the assumption of `ArmCore` about it.
* The address sanitizer also makes a use after free and an access outside an
  array the end of the process, which is how `Simulator` and `Memory` model
  them.
* `gdb` itself, the lines and the debugger's user are external: they are
  modelled from what the code expects of them.

## 3. The runs

| run | question | bounds, and why they are enough |
|---|---|---|
| `register_view` | Does a write reach exactly the modes that share the register? (`ViewSpec`) Does the cached mode follow the cpsr? (`FileTypeOK`) | one register of each kind of bank, two words, status words of five modes (the two that share r13 and r14, the one with its own r8, two with a spsr only) and one that names none; writes as `gdb`, `arm_core` and exceptions make them. Which bank is chosen depends on nothing else |
| `core` | Is the core, and what it saves, always masked and privileged, does an interrupt spoil a third mode? (`CoreInv`, `InterruptFrame`) | three instructions of 22 and one exception of 7 between them, 5-bit words so that every vector is an address, and a memory of 28 bytes so that one vector lies outside. All are proved for all sizes |
| `instructions` | Are operand, result and flags right, does a transfer reach its bytes, does every instruction stay in its class? (`ShifterIsArchitectural`, `CompareDecides`, `SumsChain`, `TransferAgrees`, `PushPop`, `ImplementsClass`) | one instruction of each kind, size and addressing mode, from every combination of nine words at the edges of the arithmetic and of a memory of 20 bytes, in two registers, and of shift amounts below, at and above the width; words of 8 bits. What an instruction does depends on nothing before it; `SumsChain` and `PushPop` apply a second one. All are proved for every word, program and memory |
| `breakpoints` | Is the table a set? (`SetSpec`, `TableOrdered`) | four cells and six addresses: the table fills and overflows, and cells are inserted and removed at every place. Proved for every size, but for the answer that must come |
| `simulator` | Are commands and interrupts atomic under all interleavings? Does each thread get the mutex? (`AtomicSpec`, `MutualExclusion`, `InterruptServed`, `CommandAnswered`) | a program of two instructions whose second starts it over, so that `cont` may never return, may meet an exception or a breakpoint, or may die of the access; all of `s c g G ? Z z`; the bytes `send_irq` can send, and a failing read of them. Registers r14 and pc are the two that an interrupt touches. All but the two liveness properties are proved for every program, exception and command |
| `protocol` | Is a command executed once, and answered? And with control-C typed meanwhile? Does gdb wait for ever for anything but a handler? (`CallsSpec`, `EndsInOrder`, `StrayRepeatsOne`, `GdbGoesOn`) | five commands, the last of them `k`; three damaged packets in either direction, so that a packet and its repetition can both be spoiled; four stray bytes for an error buffer of three, which overflows. Execution in order, once, and the matching answer are proved for any numbers of each |
| `memory` | Do sizes and orders agree, and does the debugger see the bytes that the program sees? (`PartsOfAWrite`, `DebuggerSeesWords`, `WrittenAsSent`) | five bytes of four values in six addresses: accesses inside, across the end and outside; contents with no byte, the escape and other escaped bytes; registers 0, 10 and 25. All are proved for every memory, base of a byte and content |
| `instrumentation` | Is a file debugged exactly if it was named, does the stack hold the places of the accesses under way, and does each line show its own? (`DebugSwitch`, `StackIsNesting`, `PlacesShown`) | a table of three names out of four, which fills, overflows and is filled in every order; reads in the arguments of register and memory writes, as the source has them, at two successive addresses. All are proved for every table, place and address |
| `bytes` | Does the generated scanner find the tokens of the rules, however the bytes arrive, and wait for none it does not need? Is what is said written? (`LexerSpec`, `WaitsWithinPacket`, `SaidIsDelivered`) | all inputs of four bytes of the eight classes, those of five that could concern a packet, pairs of packets, a `k` and what follows it; an error buffer of three that overflows, a buffer of two bytes that grows twice, reads of one to three. All are proved for every input, answer and size of the two buffers and of the reads |

Three further runs expect a violation: see *Findings*. Each has the module and
the constants of the run beside it, but for the property it checks.

Deadlock checking is off where the system or a bound really ends a behaviour:
`ArmCore`, with its violation run, and `Machine` (bounds on instructions and exceptions), `Simulator`
(the process exits or dies), `GdbProtocol` and `Connection` (the connection
ends), `DebuggerAccess`, its violation run and that of `Memory` (the process dies),
`Instrumentation` (it dies of a full table or of the options). `Breakpoints` and
`RegisterFile` never stop, and are checked for it.

The bounds, by name: `MaxCycles` instructions fetched and `MaxRaised` exceptions
(`ArmCore`), `MaxSteps` instructions (`Machine`), `MaxOptions` options on the
command line (`Instrumentation`), `MaxCommands` commands, `MaxDamage` packets
damaged and `MaxStray` stray bytes (`GdbProtocol`).

### Fairness

* `Breakpoints`: weak fairness of `Run`, the statements of the handler that is
  running. A new question need never come.
* `Simulator`: weak fairness of `Gdb`, `Irq` and `Main`, each a thread that the
  scheduler runs again if it can go on. There is none on `GdbAccept`,
  `Receive`, `Disconnect`, `IrqAccept`, `IrqRead` and `IrqDisconnect`: the
  debugger and the senders need do nothing. A pthread mutex promises no order,
  so fairness is weak and each liveness property excuses a peer that takes the
  mutex for ever.
* `GdbProtocol`: weak fairness of `Scanning` and of `Gdb`: what has arrived is
  read, outside the handlers. None on `Handle`, for a handler need not return
  (`cont` of a program that loops, during which nothing reads the connection, not
  even the control-C), and none on `Ask`, `Interrupt` and `Damage`. `GdbGoesOn`
  and `CallsSpec` therefore say what happens unless a handler runs for ever, and
  `RemoteCalls` has no fairness on `Execute`.

`gdb_packet_analysis` holds the mutex for a whole `cont`, so a program that
loops keeps every interrupt out, and every command. `InterruptServed` and
`CommandAnswered` except it by name (`RunsForEver`). The exception is needed: the
program of the run loops, and without it both are violated.

### What the runs show that may surprise

* The core never leaves masked, privileged modes: entry masks what it enters, and
  saves what was masked (`CoreInv`). With the saved status in the spsr of the
  mode interrupted (see *Findings*), the one instruction that returns from an
  exception restores another cpsr than the comments promise. The claim is about
  programs and interrupts: a debugger may write any cpsr with `G`, which is why
  `Simulator` does not claim it.
* With damaged packets alone no command is executed twice. With
  stray bytes it is not: the error they leave is reported by a `-` in front of
  the next reply, gdb takes it for a refusal and sends again a command that has
  been executed. What remains true is `StrayRepeatsOne`.
* A data abort goes on at 0x10 (`arm_exception.c:127`), where `arm_exception.h:36`
  says 0x0C; the link of a prefetch abort is 4 more than its comment says.
* Carry after a subtraction is a borrow: CC, not CS, means "not below", and
  `sbc` after `subs` subtracts the wrong way (`CompareDecides` states the
  condition as the code has it).
* Rotation by a register is a left shift (`ShifterIsArchitectural` excepts it),
  and no half-word transfer with a register offset is ever recognised.
* An instruction that sets the flags and whose *result* equals what the pc reads
  restores the cpsr, whatever its destination (`SumsChain` excepts it).
* Post-indexed transfers are made at the moved base, where the architecture makes
  them at the base itself: `TransferAgrees` names the address the code uses, which
  is the architecture's for the offset and pre-indexed forms only. Nothing in the
  repository says which it should be.
* A multiple transfer that increments after (P = 0, U = 1) with W adds to the
  *number* of its base register and writes the old base to another register
  (`arm_load_store.c:224` and `:249`), where the comment of `:260` says that "le
  registre Rn sera mis a jour"; and as its end address is computed from that number
  too, a load of the pc dies of `assert(end_adr==address-4)` (`:294`). `PushPop`
  holds for the three other directions and excludes this one.
* Every `swi` is taken for an interrupt request (`arm_instruction.c:172`), so the
  software interrupt that `arm_exception.c:42` and `arm_constants.h:45` call the
  end of the simulation does not end it; an instruction of the `media` class does.
* The link is written before the mode is switched too: the interrupted mode loses
  its r14, and the "R14_irq" of `arm_exception.c:131` is not written.
* A NUL on the line is recognised one byte late; the second extension of the
  buffer in `yy_get_next_buffer` is never reached (`ScannerTypeOK`).
* One debugged file more than the table holds is found by the address sanitizer,
  and the position of insertion, not the size, is what the code checks.
* In the macros of reads and of memory writes the call and the popping of the place
  are the operands of a sum, whose order C leaves open (`trace_location.h:30`). The
  usage text promises for each traced access "the file and line" "at which the
  access has been performed" (`arm_simulator.c:128`); that is so because `gcc`
  calls first, as the objects committed with the sources do in every macro. The
  run takes this order (`PopsFirst = FALSE`); with the other, a line could show the
  place of the access around it, or none. That two macros in one expression
  (`arm_data_processing.c:37`) are evaluated one after the other is what `gcc`
  does, too.
* A failing read on an interrupt connection ends the whole process.
* `main` frees the core when the debugger is gone, under an irq thread that may
  still use it: the process then ends in `use_after_free`, which the run reaches.

## 4. Findings

| run | property | what the code does |
|---|---|---|
| `entry_status` | `SavedInEnteredMode` | the cpsr is saved before the mode is switched: in the spsr of the interrupted mode, where the comments name that of the mode entered |
| `register_numbers` | `SameRegister` | `p` reads a register number as decimal, `P` as hexadecimal |
| `half_wrap` | `EveryAccessReturns` | the bound of `memory_write_half` wraps at the last address, and the write goes outside the array |

The quotations are in `PROJECT.json`.

## 5. The proofs

The theorems hold for every value of the constants that satisfies the named
assumptions, each evaluated by TLC in the runs: any width of word, base of a
byte, size of memory, set of registers containing r14 and pc, set of
instructions, table, number of commands, of steps and of faults. They are
`RegistersAssumption`, `RegisterFileAssumption`, `ExceptionAssumption`,
`InstructionAssumption`, `StepAssumption`, `CoreAssumption`,
`ProgramAssumption` and `SimulatorAssumption`, `BreakpointsAssumption`,
`MemoryAssumption`, `WrittenAssumption` and `DebuggerAssumption`,
`ProtocolAssumption`, `InstrumentationAssumption`, `ScannerAssumption` (a byte
is its class, and a buffer holds two) and `ConnectionAssumption` (an answer is
not empty, and the error buffer holds two), and of the core with its words `ArithmeticAssumption` (the largest word is the last of `WordBits` bits),
`TransferAssumption` (four bytes make a word) and `MachineAssumption` (a program
may start in any register file whose cached mode is that of its cpsr).

| module | theorem | what it establishes |
|---|---|---|
| `ArmCoreProofs` | `FileTypeCorrect` | `FileSpec => []FileTypeOK`: shape, and the cached mode follows the cpsr |
| | `FileImplementsView` | the register file implements `RegisterView` |
| | `CoreTypeCorrect` | `Spec => []TypeOK` |
| | `CoreAlwaysSound` | `Spec => []CoreInv` |
| | `InterruptsAreFramed` | `Spec => InterruptFrame` |
| `MachineProofs` | `ProgramTypeCorrect` | `Spec => []TypeOK` |
| | `InstructionsKeepToTheirClass` | `Spec => []ImplementsClass`: the instructions with their words refine the classes of `ArmInstruction` |
| | `ComparesDecide` | `Spec => []CompareDecides` |
| | `CarryReachesHighWord` | `Spec => []SumsChain` |
| | `ShifterFollowsArchitecture` | `Spec => []ShifterIsArchitectural` |
| | `SingleTransfersAgree` | `Spec => TransferAgrees` |
| | `PushedIsPopped` | `Spec => []PushPop` |
| `DebuggerAccessProofs` | `AccessTypeCorrect` | `DebuggerSpec => []DebuggerTypeOK` |
| | `WritesReadByParts` | `DebuggerSpec => PartsOfAWrite` |
| | `BinaryWrittenAsSent` | `DebuggerSpec => WrittenAsSent` |
| | `DebuggerReadsAsCore` | `DebuggerSpec => []DebuggerSeesWords` |
| `TablesProofs` | `BreakpointsTypeCorrect` | `Spec => []TypeOK` |
| | `BreakpointsOrdered` | `Spec => []TableOrdered` |
| | `BreakpointsImplementSet` | `Spec => SetSafety`: the table implements the safety part of `BreakpointSet` |
| | `ReportsTypeCorrect` | `ReportSpec => []ReportTypeOK` |
| | `NamedFilesAreDebugged` | `ReportSpec => []DebugSwitch` |
| | `StackFollowsNesting` | `ReportSpec => []StackIsNesting` |
| | `LinesShowPlaces` | `ReportSpec => PlacesShown` |
| `SimulatorProofs` | `ThreadsExclude` | `Spec => []MutualExclusion` |
| | `SimulatorTypeCorrect` | `Spec => []TypeOK` |
| | `SimulatorIsAtomic` | the threads implement `AtomicSimulator` |
| `GdbProtocolProofs` | `ProtocolTypeCorrect` | `Spec => []TypeOK` |
| | `StrayBytesRepeatOne` | `Spec => []StrayRepeatsOne` |
| | `ServerEndsInOrder` | `Spec => []EndsInOrder`: as long as no byte strays, nothing is written to the connection `k` has shut |
| | `TransportImplementsCalls` | `Spec => CallsSafety`: the transport implements the safety part of `RemoteCalls` |
| `ScannerProofs` | `ScannerTypeCorrect` | `Spec => []ScannerTypeOK` |
| | `WaitsOnlyWithinPackets` | `Spec => []WaitsWithinPacket` |
| | `ScannerFollowsRules` | `Spec => LexerSpec`: the generated scanner implements the rules of `scanner.l` |
| | `SaidIsAlwaysDelivered` | `Spec => []SaidIsDelivered` |

`ArmStepProofs` holds the lemmas that the modules about the core rest on: what a
read of a register returns and what each write changes, one per operator of
`Registers`, and, with no assumption about modes, that each outcome of each
class of instruction and each exception is a well-formed register file.

**The register file.** Its type is inductive alone, and with it that the cached
mode is that of the cpsr. For the refinement,
`WriteIsSeen` shows by cases on the kind of register that a read after a write
gives the value written exactly in the modes the view says, and one step per
action carries it to the view.

**The core.** `TypeOK` and `CoreInv` are inductive only together, and `CoreInv`
only with its part `SavedMasked`: a data processing instruction on the pc with S
copies a spsr into the cpsr, so `Masked(cpsr)` needs every spsr to be masked. In
turn exception entry saves the cpsr, so `SavedMasked` needs `Masked(cpsr)`, and
`ModeTracksCpsr` which says whose spsr it is. The lemmas go up the code: a
register write, a cpsr write and a save keep `Good` (type and soundness);
exception entry, and then each class of instruction, yield outcomes that are good
(`Kept`); `StepGood` composes fetch, instruction and exception as `arm_step`
does; `CoreStep` has one case per action of `Next`. `CoreAssumption` is used
once, in `CreateGood`: what `malloc` leaves in a saved status register must not
name a mode. `InterruptsAreFramed` follows the entry write by write (the link,
the save, the switch of the mode, the pc): each is seen only by the modes that
share its cell (`EnterFramed`), and `ModeTracksCpsr` is what makes the cells of
the link and of the save those of the mode interrupted.

**The core with its words.** The arithmetic of `util.c` is divisions and
remainders by `exp2`, a recursive function of its own: that `exp2[a + b]` is the
product of `exp2[a]` and `exp2[b]`, and that `WordBits` bits and four bytes are
the same words, are shown by induction on the predicates they are
(`NatInduction` takes an operator; a set of naturals closed under successor
does without it). The loops over a register list are recursive functions, which
exist by the same induction (`ReadsOf`, `StoresOf`).

`ProgramTypeCorrect` and `InstructionsKeepToTheirClass` have one lemma per
handler: its outcome is one of its class, and hence a register file. This is
what joins the two models: whatever is proved of `ArmCore`, where the words are
arbitrary, is true of a program with its own. `ComparesDecide` and
`CarryReachesHighWord` compare words that are equal modulo the width
(`SameWord`); the second needs `Tracks`, that the bank in use is that of the
mode the cpsr names, which is inductive with the type. `ShifterFollowsArchitecture`
goes through the tests of `carry` one at a time; a rotation is a sum of two
shifted parts that do not overlap. `SingleTransfersAgree` writes the address as
the code computes it, the base moved by the offset in every form, and the value digit by digit, so that what is stored is
read back, for each size and order. `PushedIsPopped` shows that the slots of a
store multiple are apart (`SlotsApart`: a memory word is longer than the list),
that storing into one leaves the earlier ones (`StoresStay`, the invariant of
the loop), and that the load multiple in the opposite direction ends at the
same slots in the same order (`EndIsSlot`, `LoadAllRestores`).

**Memory and debugger.** A value is the sum of its bytes times powers of the
base; `WritesReadByParts` is the uniqueness of these digits, for each pair of
sizes and for both orders. The loop of `X` is a recursive function on the bytes
left: the invariant of the loop says which cells have been written and with
which bytes, and induction on the count carries it to the end of the content or
of the memory.

**The breakpoints.** `TypeOK` is not inductive, and neither is `TableOrdered`
without it. The invariant says at each control point what the loop there has
established: the cells outside the window of the bisection do not hold the
address (`WindowIsRight`), the gap that a shift moves is the only cell out of
order (`GapIsRight`), and a table found to have room still has it when the
insertion starts (`RoomIsRight`). For the refinement, `ContentsCounted` gives
the set the cardinality `breakpoints_number` by the bijection the sorted table
is, which is why the test of the table's number of cells is the test of the
set's size; then each answer is a step of the set and each turn of a loop is
none.

**The debug switch and the traces.** The bisection of `debug.c` is a recursive
function on the two bounds; that it exists is shown by counting the width
between them (`BisectionExists`), and that it finds a name exactly if a cell
below the count holds it, by the same count (`BisectionFinds`). An insertion
puts the name at the one place that keeps the order (`InsertionPlace`,
`InsertedKeepsOrder`). The invariant `Switch` adds what `DebugSwitch` needs of
the past: a name asked for is missing only if the table is full and all its
names are smaller.
For the traces `NestedIn` gives the shapes there are: no access, one, or a read
in the arguments of a write that has not called; with the stack that goes with
each, which has a place per access that has not popped. `PlacePrinted` reads off
what its top is when a line is written: if the compiler calls first
(`~PopsFirst`), the place of the access has not been popped yet. The type, the
switch and the stack are proved for either order.

**The threads.** `MutualExclusion` is inductive as it is, an invariant about
control points only: the mutex agrees with the place of each thread.
`SimulatorIsAtomic` adds what each handler has done so far (`Handled`): the
command is the one of the handler, the instruction fetched is the one at the pc
the fetch started from, the registers already read are those of the present
register file, and the byte of the irq thread is one a sender sent. An
instruction is shown at its end, so the refinement mapping undoes the advance of
the pc meanwhile (`FetchUndone`); `G` is shown at its first write, so the mapping
shows what it will have written in the end, and `WriteAbsorbed` says that
writing one of the registers left does not change that. `RaiseStep` is where the
mutex matters: an exception finds no handler half way.

The proof needs no assumption about the modes, and none that the registers are
all sixteen: only that the commands are commands of the protocol and the bytes
are bytes (`SimulatorAssumption`).

**The transport.** The type needs that a gdb which waits has asked (`Typed`).
`StrayRepeatsOne` counts executions that nobody has made yet: `Accounted` bounds
what has been executed and what the tokens on the lines may still cause to be
executed by the commands asked and the bytes strayed. It is inductive only with
`Counts` (what the error buffer and the refusals may each still ask for) and
with `Ordered`: the packets under way carry, in their order, the last
command executed or later ones. Without stray bytes the two ends move in
step: `Lockstep` says that the state is in one of seven stages, from a command
being sent to its answer taken, in each of which both lines hold at most what
the stage says. `ServerEndsInOrder` reads off the last of them, and
`TransportImplementsCalls` maps the stages to calls: a packet executed is one
`Execute`, an answer taken one `Answer`, whatever was damaged, refused and sent
again being none. Once a byte has strayed, as the code then
does execute a command twice, the calls are out of step (`OutOfStep`) and promise
nothing.

**The scanner.** First the tables: `Automaton` decompresses them once, entry by
entry, into the automaton `Row`, and nothing after it looks at them again. The
loops of the match, of the backing up and of the growth of the buffer are
recursive functions; that they exist is shown by counting (`LoopExists`), and
what they keep by the same count. `Reached(b, p, j, s)` says which cells of the
buffer lead from the beginning of a token to a state the match may go on from;
there are six such states, and `MatchHalts` shows that the match stops with an
action that `Means` something: a token of a rule, with the text it is of, or the
end of the buffer after a beginning. `PreviousState` shows that running over the
cells again finds the state the match had left.

The type of the buffer is not inductive, for where a token ends depends on what
has been found for it. The invariant `ScannerInv` joins the layout of the buffer
(`BufferInv`: the two end characters behind the bytes, and no pending end with
bytes still to come) to what has been found (`ActionInv`: the action `Follows`
from the cells and from whether any byte is left behind them). A NUL in the
input and the end of the buffer are the same cell value: they are told apart by
the position only, which is why `NulJams` and `ReachedShift` go cell by cell.
`ScannerTypeCorrect` and `WaitsOnlyWithinPackets` read the invariant off, the
second by the one way each live state has of being completed (`EndCompletes`).

For the refinement the input of `Lexer` is the bytes held with those unread. A
refill, which moves the token to the start of a buffer it may have grown, leaves
it as it is (`RefilledIs`, `ContinueScanStep`); a rule takes away from it just
the text of the token (`RuleStep`), which is the longest match of the rules
because a `$` that is no packet has a byte that refutes it, within the buffer or
because nothing follows (`RefutedIsNone`, `UnfinishedIsNone`).

**The writes.** `FlattenSeq` is a recursive function of the messages' positions;
`FlattenJoins` gives the concatenations it makes one by one, and `FlattenHead`
that the first message comes first. Then a write that cuts the first message
moves a part of it from what remains to what has been written (`WriteKeeps`); a
rule says something new only when nothing remains (`SaysKeeps`), be it an answer,
the bare acknowledgement of `k` or the `-` of a full error buffer; and after `k`
what remains is never written, for no write succeeds.

### Only model-checked

* Liveness under fairness, which the prover used cannot express: the answer of
  `SetSpec`, the execution and the answer of `CallsSpec`, `GdbGoesOn`,
  `InterruptServed` and `CommandAnswered`.

`EndsInOrder` and `CallsSpec` promise nothing once a byte has strayed, since the
code then does execute a command twice: of those behaviours there are
`StrayRepeatsOne`, `GdbGoesOn` and the type.

## 6. What is not modelled

* The bit patterns of the decoder: an instruction is a record of its fields.
* Core and memory are joined in `Machine` for instructions; threads and
  debugger are checked on `ArmStep`, whose words are arbitrary. `m X p P` read
  or write with the mutex held and add no interleaving to those of `g` and `G`,
  so they are checked beside the program's accesses and not among the threads.
* The text of `q` and `H`, of the other answers and of log lines; a command's
  numbers are numbers but where their base matters (`p`, `P`).
* The dump of `trace_arm_state`; `trace_enable` and `trace_disable`, which
  nothing calls.
* The creation of sockets and servers, reduced to the connections they yield;
  the irq listener shuts its connections down and does not close them, a
  descriptor each, which no state of the program depends on.
* Functions nothing calls: most of the wrappers of `csapp.c`, the buffer stack,
  `yyinput` and the accessors of `scanner.c`, `rotate_right_by_register` and
  some others of the data processing files.
* `brouillon.c` is a draft that is not built; the tests are programs.

## 7. Plan

1. *Done*: register file, exceptions, instruction classes, core; breakpoints;
   threads; transport; memory; their first proofs.
2. *Done*: arithmetic, addressing modes and transfers, joined to the memory;
   the debugger's memory and register commands; tracing, debug switch, names;
   the generated scanner and the connection byte by byte.
3. *Done*: proofs about memory and the debugger's accesses; about the transport
   and the safety part of its refinement; about the interrupt frame, the
   arithmetic and the transfers of the core.
4. *Done*: proofs about the debug switch and the traces.
5. *Done*: `Scanner` with recursive functions in the place of RECURSIVE
   operators; proofs about the scanner, its refinement of `Lexer` and the writes
   of `Connection`.
