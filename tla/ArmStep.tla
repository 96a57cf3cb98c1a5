------------------------------ MODULE ArmStep ------------------------------
(***************************************************************************)
(* The life of the core (arm_core.c, arm_instruction.c): how it is created *)
(* and what one arm_step does to the register file.                        *)
(***************************************************************************)
EXTENDS ArmInstruction

CONSTANT MemSize  \* the capacity of the memory, in bytes

ASSUME StepAssumption == MemSize \in Word

\* The reset exception, then the stack pointer at the end of the memory.
arm_create(r) == arm_write_register(arm_exception(r, RESET, "other").reg, 13, MemSize)

\* The word a SOFTWARE_INTERRUPT looks at is the one two bytes below when the
\* pc has its bit 1 set: then it may hold anything.
reread(pc, ins) ==
  IF ins.op = "media" /\ (pc \div 2) % 2 = 0 THEN {ins.low24} ELSE SwiWords

\* The pc advances even when the fetch fails.
arm_fetch(r) == [r EXCEPT !.pc = plus(@, 4)]
fetched(r) == r.pc + 3 < MemSize

\* A non-zero result of an instruction is entered as an exception; r is the
\* register file the fetch from pc left.
after_fetch(r, pc, ins) ==
  UNION {IF o.result \in {0, Aborted} THEN {o}
         ELSE {arm_exception(o.reg, o.result, swi) : swi \in reread(pc, ins)} :
           o \in arm_execute_instruction(r, ins)}

arm_step(r, ins) == after_fetch(arm_fetch(r), r.pc, ins)

fetch_fails(r) == arm_exception(r, PREFETCH_ABORT, "other")
=============================================================================
