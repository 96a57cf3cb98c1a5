----------------------------- MODULE Simulator -----------------------------
(***************************************************************************)
(* The three threads of arm_simulator.c around one core: gdb_listener and  *)
(* the handlers of gdb_protocol.c, a register or half an instruction at a  *)
(* time, irq_listener, and main, which destroys the core once the debugger *)
(* is gone. They share one mutex. It is shown to implement                 *)
(* AtomicSimulator; the breakpoint table is the set of BreakpointSet.      *)
(***************************************************************************)
EXTENDS GdbReplies

CONSTANTS
  IrqBytes,  \* the bytes irq senders send
  Commands   \* the commands the debugger sends

Command ==
  [op : {"s", "c", "g", "?"}]
    \cup [op : {"G"}, values : [RegNums -> Word], cpsr : Psr]
    \cup [op : {"Z", "z"}, address : Word]

ASSUME SimulatorAssumption ==
  /\ IrqBytes \subseteq 0..255
  /\ Commands \subseteq Command

VARIABLES
  reg,               \* the registers, on the heap
  target_exception,  \* of gdb_protocol_data
  breakpoints,       \* of gdb_protocol_data, as a set
  lock,              \* the mutex: "free" or the thread that holds it
  gdb_at,            \* where the gdb thread is
  request,           \* the command it handles
  left,              \* the registers g or G still has to visit
  seen,              \* the buffer of g
  fetch,             \* the local of arm_execute_instruction
  answer,            \* the last packet sent to the debugger
  irq_at,            \* where the irq thread is
  irq,               \* the byte it has read
  main_at,           \* where main is
  process            \* "running", or how it ended

core == <<reg, target_exception, breakpoints>>
locals == <<request, left, seen, fetch>>
gdb == <<gdb_at, locals, answer>>
irqs == <<irq_at, irq>>
others == <<irqs, main_at, process>>
vars == <<core, lock, gdb, others>>

Running == process = "running"
NotFetched == [op |-> "none"]
Unseen == [n \in RegNums |-> 0]

Init ==
  /\ reg = arm_create(registers_create)
  /\ target_exception = 0
  /\ breakpoints = {}
  /\ lock = "free"
  /\ gdb_at = "accept" /\ request \in Commands
  /\ left = {} /\ seen = Unseen /\ fetch = NotFetched
  /\ answer = Text("none")
  /\ irq_at = "accept" /\ irq = 0
  /\ main_at = "join"
  /\ process = "running"

-----------------------------------------------------------------------------
(* The gdb thread: one connection, one command at a time. *)

GdbAccept ==
  /\ Running /\ gdb_at = "accept"
  /\ gdb_at' = "read"
  /\ UNCHANGED <<core, lock, locals, answer, others>>

\* A packet of good checksum, acknowledged before the lock is asked for.
Receive(command) ==
  /\ Running /\ gdb_at = "read"
  /\ gdb_at' = "lock"
  /\ request' = command
  /\ UNCHANGED <<core, lock, left, seen, fetch, answer, others>>

\* The scanner meets the end of the connection.
Disconnect ==
  /\ Running /\ gdb_at = "read"
  /\ gdb_at' = "ended"
  /\ UNCHANGED <<core, lock, locals, answer, others>>

handler(op) ==
  CASE op \in {"s", "c"} -> "fetch"
    [] op = "g" -> "read_registers"
    [] op = "G" -> "write_registers"
    [] OTHER -> "handle"

GdbLock ==
  /\ Running /\ gdb_at = "lock" /\ lock = "free"
  /\ lock' = "gdb"
  /\ gdb_at' = handler(request.op)
  /\ left' = IF request.op \in {"g", "G"} THEN RegNums ELSE {}
  /\ UNCHANGED <<core, request, seen, fetch, answer, others>>

\* gdb_send_data, then the return to gdb_packet_analysis.
Send(text) ==
  /\ answer' = text
  /\ gdb_at' = "unlock"

left_locked == lock  \* mutant: an early return that forgets the mutex
unlocked == "free"

GdbUnlock ==
  /\ Running /\ gdb_at = "unlock"
  /\ lock' = unlocked
  /\ gdb_at' = "read"
  /\ UNCHANGED <<core, locals, answer, others>>

Fetch ==
  /\ Running /\ gdb_at = "fetch"
  /\ fetch' = IF fetched(reg) THEN Program[reg.pc] ELSE NotFetched
  /\ reg' = arm_fetch(reg)
  /\ gdb_at' = "execute"
  /\ UNCHANGED <<target_exception, breakpoints, lock, request, left, seen,
                 answer, others>>

Execute ==
  /\ Running /\ gdb_at = "execute"
  /\ \E o \in IF fetch = NotFetched THEN {fetch_fails(reg)}
              ELSE after_fetch(reg, minus(reg.pc, 4), fetch) :
       \/ /\ o.result = Aborted
          /\ process' = "assertion_failed"
          /\ UNCHANGED <<core, gdb>>
       \/ /\ o.result # Aborted
          /\ reg' = o.reg
          /\ target_exception' = o.result
          /\ gdb_at' = "stepped"
          /\ fetch' = NotFetched
          /\ UNCHANGED <<breakpoints, request, left, seen, answer, process>>
  /\ UNCHANGED <<lock, irqs, main_at>>

\* step answers at once, cont when it has a reason to stop.
stops ==
  request.op = "s" \/ reg.pc \in breakpoints \/ target_exception # 0

Stepped ==
  /\ Running /\ gdb_at = "stepped"
  /\ \/ stops /\ Send(Text(stop_reason(target_exception)))
     \/ ~stops /\ gdb_at' = "fetch" /\ UNCHANGED answer
  /\ UNCHANGED <<core, lock, locals, others>>

\* The next register of the loops of g and G.
first == CHOOSE n \in left : \A m \in left : n <= m

read_register_usr(n) == registers_read(reg, n, USR)  \* mutant: the wrong bank
read_register(n) == registers_read(reg, n, registers_get_mode(reg))

ReadRegister ==
  /\ Running /\ gdb_at = "read_registers"
  /\ \/ /\ left # {}
        /\ seen' = [seen EXCEPT ![first] = read_register(first)]
        /\ left' = left \ {first}
        /\ UNCHANGED <<gdb_at, answer>>
     \/ /\ left = {}
        /\ Send([text |-> "registers", values |-> seen, cpsr |-> reg.cpsr])
        /\ seen' = Unseen
        /\ UNCHANGED left
  /\ UNCHANGED <<core, lock, request, fetch, others>>

WriteRegister ==
  /\ Running /\ gdb_at = "write_registers"
  /\ \/ /\ left # {}
        /\ reg' = registers_write(reg, first, registers_get_mode(reg),
                                  request.values[first])
        /\ left' = left \ {first}
        /\ UNCHANGED <<gdb_at, answer>>
     \/ /\ left = {}
        /\ reg' = registers_write_cpsr(reg, request.cpsr)
        /\ Send(Text("OK"))
        /\ UNCHANGED left
  /\ UNCHANGED <<target_exception, breakpoints, lock, request, seen, fetch,
                 others>>

Handle ==
  /\ Running /\ gdb_at = "handle"
  /\ \/ /\ request.op = "Z"
        /\ breakpoints' = breakpoints \cup {request.address}
        /\ Send(Text("OK"))
     \/ /\ request.op = "z"
        /\ breakpoints' = breakpoints \ {request.address}
        /\ Send(Text(IF request.address \in breakpoints THEN "OK" ELSE "E05"))
     \/ /\ request.op = "?"
        /\ Send(Text(stop_reason(target_exception)))
        /\ UNCHANGED breakpoints
  /\ UNCHANGED <<reg, target_exception, lock, locals, others>>

Gdb ==
  \/ GdbLock \/ GdbUnlock
  \/ Fetch \/ Execute \/ Stepped
  \/ ReadRegister \/ WriteRegister \/ Handle

-----------------------------------------------------------------------------
(* The irq thread: one connection after the other, a byte at a time. *)

IrqAccept ==
  /\ Running /\ irq_at = "accept"
  /\ irq_at' = "read"
  /\ UNCHANGED <<core, lock, gdb, irq, main_at, process>>

IrqRead(byte) ==
  /\ Running /\ irq_at = "read"
  /\ irq_at' = "lock"
  /\ irq' = byte
  /\ UNCHANGED <<core, lock, gdb, main_at, process>>

IrqDisconnect ==
  /\ Running /\ irq_at = "read"
  /\ irq_at' = "accept"
  /\ UNCHANGED <<core, lock, gdb, irq, main_at, process>>

irq_takes_any_lock == TRUE  \* mutant: no mutex around arm_exception
irq_takes_lock == lock = "free"
IrqLock ==
  /\ Running /\ irq_at = "lock" /\ irq_takes_lock
  /\ lock' = "irq"
  /\ irq_at' = "raise"
  /\ UNCHANGED <<core, gdb, irq, main_at, process>>

Destroyed == main_at \notin {"join", "arm_destroy"}

\* Once the core is destroyed the access is caught by the address sanitizer
\* the program is built with.
Raise ==
  /\ Running /\ irq_at = "raise"
  /\ \/ /\ Destroyed
        /\ process' = "use_after_free"
        /\ UNCHANGED <<reg, irq_at>>
     \/ /\ ~Destroyed
        /\ \E swi \in SwiWords : reg' = arm_exception(reg, irq, swi).reg
        /\ irq_at' = "unlock"
        /\ UNCHANGED process
  /\ UNCHANGED <<target_exception, breakpoints, lock, gdb, irq, main_at>>

IrqUnlock ==
  /\ Running /\ irq_at = "unlock"
  /\ lock' = unlocked
  /\ irq_at' = "read"
  /\ irq' = 0
  /\ UNCHANGED <<core, gdb, main_at, process>>

Irq == IrqLock \/ Raise \/ IrqUnlock

-----------------------------------------------------------------------------
(* main, which waits for the gdb thread only. *)

after(place) ==
  CASE place = "join" -> "arm_destroy"
    [] place = "arm_destroy" -> "registers_destroy"
    [] place = "registers_destroy" -> "memory_destroy"
    [] OTHER -> "return"

Main ==
  /\ Running /\ main_at # "return"
  /\ main_at = "join" => gdb_at = "ended"
  /\ main_at' = after(main_at)
  /\ UNCHANGED <<core, lock, gdb, irqs, process>>

Exit ==
  /\ Running /\ main_at = "return"
  /\ process' = "exited"
  /\ UNCHANGED <<core, lock, gdb, irqs, main_at>>

\* A system call that fails in a wrapper of csapp.c ends the process: an accept,
\* a read of either connection, the write of an acknowledgement.
UnixError ==
  /\ Running
  /\ irq_at \in {"accept", "read"} \/ gdb_at \in {"accept", "read", "lock"}
  /\ process' = "unix_error"
  /\ UNCHANGED <<core, lock, gdb, irqs, main_at>>

Next ==
  \/ GdbAccept \/ (\E command \in Commands : Receive(command)) \/ Disconnect
  \/ Gdb
  \/ IrqAccept \/ (\E byte \in IrqBytes : IrqRead(byte)) \/ IrqDisconnect
  \/ Irq
  \/ Main \/ Exit \/ UnixError

\* Each thread that can go on does; the debugger and the senders need not.
Spec ==
  /\ Init /\ [][Next]_vars
  /\ WF_vars(Gdb) /\ WF_vars(Irq) /\ WF_vars(Main \/ Exit)

-----------------------------------------------------------------------------
GdbHolds == {"fetch", "execute", "stepped", "read_registers",
             "write_registers", "handle", "unlock"}

TypeOK ==
  /\ reg \in registers_data
  /\ target_exception \in 0..255
  /\ lock \in {"free", "gdb", "irq"}
  /\ gdb_at \in {"accept", "read", "lock", "ended"} \cup GdbHolds
  /\ request \in Commands
  /\ left \subseteq RegNums
  /\ seen \in [RegNums -> Word]
  /\ fetch \in Instrs \cup {NotFetched}
  /\ irq_at \in {"accept", "read", "lock", "raise", "unlock"}
  /\ irq \in 0..255
  /\ main_at \in {"join", "arm_destroy", "registers_destroy", "memory_destroy",
                  "return"}
  /\ process \in {"running", "exited", "assertion_failed", "use_after_free",
                  "unix_error"}

\* The mutex is held exactly by the thread that is between its lock and its
\* unlock, so the two never are in the core together, and no handler returns
\* with the mutex held.
MutualExclusion ==
  /\ lock = "gdb" <=> gdb_at \in GdbHolds
  /\ lock = "irq" <=> irq_at \in {"raise", "unlock"}

Committed == gdb_at = "write_registers" /\ left # RegNums

\* The process does not survive the outcomes that abort it.
survived(r) == {o \in outcomes(r) : o.result # Aborted}
interrupted(r, e) == {arm_exception(r, e, swi).reg : swi \in SwiWords}
loaded(r, command) == with_registers(r, RegNums, command.values, command.cpsr)
reason(exception) == Text(stop_reason(exception))

\* An instruction happens as it ends, a G as it begins.
back == [reg EXCEPT !.pc = minus(@, 4)]
shown_reg ==
  CASE gdb_at = "execute" -> back
    [] Committed -> with_registers(reg, left, request.values, request.cpsr)
    [] OTHER -> reg
shown_phase ==
  CASE gdb_at \in {"accept", "read", "ended"} -> "idle"
    [] \/ gdb_at = "unlock"
       \/ gdb_at = "stepped" /\ stops
       \/ Committed -> "done"
    [] OTHER -> "asked"
shown_answer ==
  CASE gdb_at = "stepped" /\ stops -> reason(target_exception)
    [] Committed -> Text("OK")
    [] OTHER -> answer

Atomic == INSTANCE AtomicSimulator WITH
  Created <- arm_create(registers_create),
  Outcomes <- survived, Interrupted <- interrupted,
  Registers <- general_registers, Loaded <- loaded, Reason <- reason,
  reg <- shown_reg, phase <- shown_phase, answer <- shown_answer

\* No interrupt shows in the middle of an instruction, and what g reads and G
\* writes register by register is the register file of one instant: whatever
\* the threads interleave, the debugger and the senders see AtomicSimulator.
AtomicSpec == Atomic!Spec

\* cont keeps the mutex as long as the program meets neither an exception nor
\* a breakpoint.
RunsForEver == <>[](gdb_at \in {"fetch", "execute", "stepped"})

\* An interrupt whose byte has been read is raised, unless the debugger sends
\* commands for ever, cont runs a program that never stops, or the process
\* ends: the irq thread waits for nothing else, since no handler returns with
\* the mutex held.
InterruptServed ==
  \/ []<>(gdb_at = "read") /\ []<>(gdb_at = "lock")
  \/ RunsForEver
  \/ (Running /\ irq_at = "lock") ~> (~Running \/ irq_at # "lock")

\* A command that has been acknowledged is answered, unless the senders send
\* bytes for ever, the program it continues never stops, or the process ends:
\* no handler waits for ever for the mutex and none returns without an answer.
CommandAnswered ==
  \/ []<>(irq_at = "read") /\ []<>(irq_at = "lock")
  \/ RunsForEver
  \/ (Running /\ gdb_at = "lock") ~> (~Running \/ gdb_at = "read")
=============================================================================
