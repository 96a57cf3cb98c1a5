-------------------------- MODULE AtomicSimulator --------------------------
(***************************************************************************)
(* What the debugger and the interrupt sender may believe of the shared    *)
(* core: an instruction, an interrupt, a reading of all the registers and  *)
(* a writing of all of them each happen at one instant, between the        *)
(* question of the debugger and the answer to it.                          *)
(***************************************************************************)
CONSTANTS
  IrqBytes,           \* the exceptions the sender raises
  Commands,           \* the questions of the debugger
  Created,            \* the registers of a core just created
  Outcomes(_),        \* what an instruction may do to given registers
  Interrupted(_, _),  \* what an exception may do to them
  Registers(_),       \* the answer that shows them
  Loaded(_, _),       \* the registers a question writes over given ones
  Reason(_),          \* the answer that tells how an instruction ended
  Text(_)             \* an answer of one word

VARIABLES
  reg,               \* the registers
  target_exception,  \* how the last instruction ended
  breakpoints,       \* where cont stops
  phase,             \* of the question: "idle", "asked" or "done"
  request,           \* the question
  answer             \* the last answer

vars == <<reg, target_exception, breakpoints, phase, request, answer>>

Init ==
  /\ reg = Created
  /\ target_exception = 0
  /\ breakpoints = {}
  /\ phase = "idle"
  /\ request \in Commands
  /\ answer = Text("none")

Ask(command) ==
  /\ phase = "idle"
  /\ phase' = "asked"
  /\ request' = command
  /\ UNCHANGED <<reg, target_exception, breakpoints, answer>>

Answer(a) ==
  /\ phase' = "done"
  /\ answer' = a

Interrupt(e) ==
  /\ reg' \in Interrupted(reg, e)
  /\ UNCHANGED <<target_exception, breakpoints, phase, request, answer>>

Step ==
  /\ phase = "asked" /\ request.op \in {"s", "c"}
  /\ \E o \in Outcomes(reg) :
       /\ reg' = o.reg
       /\ target_exception' = o.result
       /\ IF \/ request.op = "s"
             \/ o.reg.pc \in breakpoints
             \/ o.result # 0
          THEN Answer(Reason(o.result))
          ELSE UNCHANGED <<phase, answer>>
  /\ UNCHANGED <<breakpoints, request>>

ReadRegisters ==
  /\ phase = "asked" /\ request.op = "g"
  /\ Answer(Registers(reg))
  /\ UNCHANGED <<reg, target_exception, breakpoints, request>>

WriteRegisters ==
  /\ phase = "asked" /\ request.op = "G"
  /\ reg' = Loaded(reg, request)
  /\ Answer(Text("OK"))
  /\ UNCHANGED <<target_exception, breakpoints, request>>

SetBreakpoint ==
  /\ phase = "asked" /\ request.op = "Z"
  /\ breakpoints' = breakpoints \cup {request.address}
  /\ Answer(Text("OK"))
  /\ UNCHANGED <<reg, target_exception, request>>

RemoveBreakpoint ==
  /\ phase = "asked" /\ request.op = "z"
  /\ breakpoints' = breakpoints \ {request.address}
  /\ Answer(Text(IF request.address \in breakpoints THEN "OK" ELSE "E05"))
  /\ UNCHANGED <<reg, target_exception, request>>

TellReason ==
  /\ phase = "asked" /\ request.op = "?"
  /\ Answer(Reason(target_exception))
  /\ UNCHANGED <<reg, target_exception, breakpoints, request>>

Finish ==
  /\ phase = "done"
  /\ phase' = "idle"
  /\ UNCHANGED <<reg, target_exception, breakpoints, request, answer>>

Next ==
  \/ \E command \in Commands : Ask(command)
  \/ \E e \in IrqBytes : Interrupt(e)
  \/ Step \/ ReadRegisters \/ WriteRegisters
  \/ SetBreakpoint \/ RemoveBreakpoint \/ TellReason
  \/ Finish

Spec == Init /\ [][Next]_vars
=============================================================================
