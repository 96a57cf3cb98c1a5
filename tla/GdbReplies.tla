---------------------------- MODULE GdbReplies ----------------------------
(***************************************************************************)
(* What the handlers of gdb_protocol.c compute from the core: the outcomes *)
(* of a single_step over a given program, and the answers to the debugger. *)
(***************************************************************************)
EXTENDS ArmStep

CONSTANT Program  \* the instruction at each address

ASSUME ProgramAssumption == Program \in [Word -> Instrs]

outcomes(r) ==
  IF fetched(r) THEN arm_step(r, Program[r.pc]) ELSE {fetch_fails(arm_fetch(r))}

stop_reason(exception) ==
  CASE exception = UNDEFINED_INSTRUCTION -> "S04"
    [] exception = PREFETCH_ABORT -> "S0A"
    [] exception = DATA_ABORT -> "S0B"
    [] exception = END_SIMULATION -> "X05"
    [] OTHER -> "S05"

\* An answer is a word of the protocol, or all the registers and the cpsr.
Text(word) ==
  [text |-> word, values |-> [n \in RegNums |-> 0], cpsr |-> UninitPsr]

general_registers(r) ==
  [text |-> "registers",
   values |-> [n \in RegNums |-> registers_read(r, n, registers_get_mode(r))],
   cpsr |-> r.cpsr]

\* The values of the registers left, in the banks of the mode before the cpsr
\* is written.
with_registers(r, left, values, cpsr) ==
  LET loaded == load_all(r, left, values)
  IN  registers_write_cpsr(
        IF 15 \in left THEN [loaded EXCEPT !.pc = values[15]] ELSE loaded, cpsr)
=============================================================================
