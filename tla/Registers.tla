------------------------------ MODULE Registers ------------------------------
(***************************************************************************)
(* The register file of the simulator (registers.c) and the accessors of   *)
(* the core that choose the mode for it (arm_core.c), as operators over a  *)
(* record r with the fields of struct registers_data.                      *)
(*                                                                         *)
(* A word is 0..UINT32_MAX with wrap-around arithmetic.  A program status  *)
(* register is the record of its five mode bits M and of the set of the    *)
(* other bits that are 1, so that set_bit and clr_bit are \cup and \ .     *)
(***************************************************************************)
EXTENDS Naturals

CONSTANTS
  UINT32_MAX,  \* the largest word: 2^32 - 1 in the program
  RegNums,     \* the general registers modelled
  PsrBits,     \* the names of the status bits modelled besides M
  UninitWord,  \* what malloc leaves in a word nobody wrote
  UninitPsr    \* what malloc leaves in a status register nobody wrote

USR == 16
FIQ == 17
IRQ == 18
SVC == 19
ABT == 23
UND == 27
SYS == 31
Modes == {USR, FIQ, IRQ, SVC, ABT, UND, SYS}
NoMode == 255  \* (uint8_t) -1, what mode_update returns for any other M

Word == 0..UINT32_MAX
Psr == [M : 0..31, bits : SUBSET PsrBits]

ASSUME RegistersAssumption ==
  /\ UINT32_MAX \in Nat
  /\ RegNums \subseteq 0..15 /\ {14, 15} \subseteq RegNums
  /\ UninitWord \in Word
  /\ UninitPsr \in Psr

LowRegs == RegNums \cap 0..7
MidRegs == RegNums \cap 8..12
HighRegs == RegNums \cap {13, 14}

registers_data ==
  [pc           : Word,
   tab_r0_r7    : [LowRegs -> Word],
   tab_r8_r12   : [MidRegs -> [0..1 -> Word]],
   tab_r13_r14  : [HighRegs -> [0..5 -> Word]],
   cpsr         : Psr,
   spsr         : [0..4 -> Psr],
   current_mode : Modes \cup {NoMode}]

\* malloc, then only current_mode is assigned.
registers_create ==
  [pc           |-> UninitWord,
   tab_r0_r7    |-> [n \in LowRegs |-> UninitWord],
   tab_r8_r12   |-> [n \in MidRegs |-> [b \in 0..1 |-> UninitWord]],
   tab_r13_r14  |-> [n \in HighRegs |-> [b \in 0..5 |-> UninitWord]],
   cpsr         |-> UninitPsr,
   spsr         |-> [i \in 0..4 |-> UninitPsr],
   current_mode |-> SVC]

registers_get_mode(r) == r.current_mode

registers_mode_has_spsr(mode) == mode \in {SVC, FIQ, ABT, UND, IRQ}

registers_current_mode_has_spsr(r) ==
  registers_mode_has_spsr(registers_get_mode(r))

\* Everything but USR and SYS is privileged, the invalid mode 255 included.
registers_in_a_privileged_mode(r) == r.current_mode \notin {USR, SYS}

\* The column of tab_r8_r12 and of tab_r13_r14 a mode selects.
r8_r12_bank(mode) == IF mode = FIQ THEN 1 ELSE 0
r13_r14_bank_sys(mode) ==  \* mutant: SYS with a bank of its own
  CASE mode = USR -> 0 [] mode = FIQ -> 1 [] mode = IRQ -> 2
    [] mode = SVC -> 3 [] mode = UND -> 4 [] OTHER -> 5
r13_r14_bank(mode) ==
  CASE mode \in {USR, SYS} -> 0
    [] mode = FIQ -> 1
    [] mode = IRQ -> 2
    [] mode = SVC -> 3
    [] mode = UND -> 4
    [] OTHER -> 5
spsr_index(mode) ==
  CASE mode = FIQ -> 0
    [] mode = IRQ -> 1
    [] mode = SVC -> 2
    [] mode = ABT -> 3
    [] OTHER -> 4

registers_read(r, n, mode) ==
  CASE n = 15 -> r.pc
    [] n \in LowRegs -> r.tab_r0_r7[n]
    [] n \in MidRegs -> r.tab_r8_r12[n][r8_r12_bank(mode)]
    [] n \in HighRegs /\ mode \in Modes -> r.tab_r13_r14[n][r13_r14_bank(mode)]
    [] OTHER -> UINT32_MAX

\* A write to r13 or r14 in the invalid mode, or to no register, is dropped.
registers_write(r, n, mode, value) ==
  CASE n = 15 -> [r EXCEPT !.pc = value]
    [] n \in LowRegs -> [r EXCEPT !.tab_r0_r7[n] = value]
    [] n \in MidRegs -> [r EXCEPT !.tab_r8_r12[n][r8_r12_bank(mode)] = value]
    [] n \in HighRegs /\ mode \in Modes ->
         [r EXCEPT !.tab_r13_r14[n][r13_r14_bank(mode)] = value]
    [] OTHER -> r

registers_read_spsr(r, mode) ==
  IF registers_mode_has_spsr(mode)
  THEN r.spsr[spsr_index(mode)]
  ELSE [M |-> 31, bits |-> PsrBits]  \* UINT32_MAX

mode_update(psr) == IF psr.M \in Modes THEN psr.M ELSE NoMode

registers_write_cpsr_only(r, psr) ==  \* mutant: the cached mode is not updated
  [r EXCEPT !.cpsr = psr]
registers_write_cpsr(r, psr) ==
  [r EXCEPT !.cpsr = psr, !.current_mode = mode_update(psr)]

registers_write_spsr(r, mode, psr) ==
  IF registers_mode_has_spsr(mode)
  THEN [r EXCEPT !.spsr[spsr_index(mode)] = psr]
  ELSE r

-----------------------------------------------------------------------------
(* The accessors of arm_core.c. *)

plus_unbounded(a, b) == a + b  \* mutant: a sum that does not wrap around
plus(a, b) == (a + b) % (UINT32_MAX + 1)
minus(a, b) == (a + (UINT32_MAX + 1) - b) % (UINT32_MAX + 1)

\* & 0xFFFFFFFD
clear_bit_1(a) == IF (a \div 2) % 2 = 1 THEN a - 2 ELSE a

\* The fetch has already advanced the pc by 4, a read adds 4 more.
arm_read_register(r, n) ==
  LET value == registers_read(r, n, registers_get_mode(r))
  IN  IF n = 15 THEN clear_bit_1(plus(value, 4)) ELSE value

arm_write_register(r, n, value) ==
  registers_write(r, n, registers_get_mode(r), value)

arm_write_usr_register(r, n, value) == registers_write(r, n, USR, value)

arm_read_spsr(r) == registers_read_spsr(r, registers_get_mode(r))

arm_write_spsr(r, psr) == registers_write_spsr(r, registers_get_mode(r), psr)
=============================================================================
