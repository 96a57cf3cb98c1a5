---------------------------- MODULE ArmException ----------------------------
(***************************************************************************)
(* Exception entry (arm_exception.c): what arm_exception does to the       *)
(* registers, for every exception number the instruction decoder returns   *)
(* or a byte of the interrupt socket carries.                              *)
(***************************************************************************)
EXTENDS Registers

RESET == 1
DATA_ABORT == 2
FAST_INTERRUPT == 3
INTERRUPT == 4
PREFETCH_ABORT == 6
UNDEFINED_INSTRUCTION == 7
SOFTWARE_INTERRUPT == 8
END_SIMULATION == 9
AccessFailed == 255  \* (uint8_t) -1, the result of a failed memory access

ASSUME ExceptionAssumption ==
  /\ {"I", "A"} \subseteq PsrBits  \* the masks set on every entry are modelled
  /\ UINT32_MAX >= 28               \* every vector is a word

\* The low 24 bits of the word a SOFTWARE_INTERRUPT re-reads, as far as the
\* switch of arm_exception tells them apart.
SwiWords == {"end", "putchar", "other"}

Outcome(r, result) == [reg |-> r, result |-> result]

set_exception_cpsr_enabling(r, mode, bit6) ==  \* mutant: bit 7 cleared
  LET saved == arm_write_spsr(r, r.cpsr)
      masks == IF bit6 THEN {"F", "A"} ELSE {"A"}
  IN  registers_write_cpsr(saved,
        [M |-> mode,
         bits |-> (r.cpsr.bits \ {"T", "E", "I"}) \cup (masks \cap PsrBits)])

set_exception_cpsr_reread(r, mode, bit6) ==  \* mutant: saves the new cpsr
  LET masks == IF bit6 THEN {"F", "I", "A"} ELSE {"I", "A"}
      entered == registers_write_cpsr(r,
        [M |-> mode,
         bits |-> (r.cpsr.bits \ {"T", "E"}) \cup (masks \cap PsrBits)])
  IN  arm_write_spsr(entered, entered.cpsr)

\* bit6 is TRUE when the entry also masks fast interrupts.
set_exception_cpsr(r, mode, bit6) ==
  LET saved == arm_write_spsr(r, r.cpsr)
      masks == IF bit6 THEN {"F", "I", "A"} ELSE {"I", "A"}
  IN  registers_write_cpsr(saved,
        [M |-> mode,
         bits |-> (r.cpsr.bits \ {"T", "E"}) \cup (masks \cap PsrBits)])

\* The five entries with a link: r14 is written before the mode changes.
enter(r, link, mode, bit6, vector) ==
  arm_write_register(
    set_exception_cpsr(arm_write_register(r, 14, link), mode, bit6), 15, vector)

data_abort(r) ==
  enter(r, plus(minus(arm_read_register(r, 15), 4), 8), ABT, FALSE, 16)

unterrupt(r) ==
  enter(r, plus(minus(arm_read_register(r, 15), 4), 4), IRQ, FALSE, 24)

undefined_unstruction(r) == enter(r, arm_read_register(r, 15), UND, FALSE, 4)

fetch_abort(r) ==
  enter(r, plus(minus(arm_read_register(r, 15), 4), 4), ABT, FALSE, 12)

fast_interrupt_request(r) ==
  enter(r, plus(arm_read_register(r, 15), 4), FIQ, TRUE, 28)

\* 0x1d3: supervisor mode, fast interrupts, interrupts and aborts masked.
reset(r) ==
  arm_write_register(
    registers_write_cpsr(r,
      [M |-> SVC, bits |-> {"F", "I", "A"} \cap PsrBits]), 15, 0)

\* swi is the re-read word of a SOFTWARE_INTERRUPT.
arm_exception(r, exception, swi) ==
  CASE exception = SOFTWARE_INTERRUPT /\ swi = "end" ->
         Outcome(r, END_SIMULATION)
    [] exception = SOFTWARE_INTERRUPT /\ swi = "putchar" -> Outcome(r, 0)
    [] exception = RESET -> Outcome(reset(r), exception)
    [] exception = DATA_ABORT -> Outcome(data_abort(r), exception)
    [] exception = INTERRUPT -> Outcome(unterrupt(r), exception)
    [] exception = UNDEFINED_INSTRUCTION ->
         Outcome(undefined_unstruction(r), exception)
    [] exception = PREFETCH_ABORT -> Outcome(fetch_abort(r), exception)
    [] exception = FAST_INTERRUPT ->
         Outcome(fast_interrupt_request(r), exception)
    [] OTHER -> Outcome(r, exception)
=============================================================================
