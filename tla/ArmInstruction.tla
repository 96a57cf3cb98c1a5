--------------------------- MODULE ArmInstruction ---------------------------
(***************************************************************************)
(* Instructions (arm_instruction.c, arm_data_processing.c, arm_load_store.c *)
(* and arm_branch_other.c) as functions from a register file to the set of *)
(* outcomes [reg, result] the code can produce.  An instruction is the     *)
(* record of what the decoder dispatches on and of the registers it names; *)
(* the words that data processing computes and memory returns are any of   *)
(* Values, the flags it computes any that agree with that word.            *)
(***************************************************************************)
EXTENDS ArmException, FiniteSets

CONSTANTS
  Values,  \* the words data processing computes and memory holds
  Instrs   \* the instructions memory may hold

Conds == {"EQ", "NE", "CS", "CC", "MI", "PL", "VS", "VC", "HI", "LS",
          "GE", "LT", "GT", "LE", "AL", "UNCONDITIONAL"}
Flags == {"N", "Z", "C", "V"} \cap PsrBits
Reg == RegNums

Instr ==
  [op : {"alu", "adc"}, cond : Conds, rd : Reg, S : BOOLEAN]
    \cup [op : {"test"}, cond : Conds]
    \cup [op : {"teq"}, cond : Conds, rd : Reg]
    \cup [op : {"msr"}, cond : Conds, R : 0..1, field : BOOLEAN, operand : Psr]
    \cup [op : {"mrs"}, cond : Conds, R : 0..1, rd : Reg]
    \cup [op : {"b"}, cond : Conds, link : BOOLEAN, offset : Word]
    \cup [op : {"bx"}, cond : Conds, link : BOOLEAN, rm : Reg]
    \cup [op : {"ldr"}, cond : Conds, rd : Reg, rn : Reg, wb : BOOLEAN]
    \cup [op : {"str"}, cond : Conds, rn : Reg, wb : BOOLEAN]
    \cup [op : {"ldm", "stm"}, cond : Conds, P : 0..1, U : 0..1, W : BOOLEAN,
          rn : Reg, list : SUBSET Reg]
    \cup [op : {"media"}, cond : Conds, bit24 : BOOLEAN, low24 : SwiWords]
    \cup [op : {"swi"}, cond : Conds, low24 : SwiWords]
    \cup [op : {"undefined"}, cond : Conds]

ASSUME InstructionAssumption ==
  /\ Values \subseteq Word
  /\ Instrs \subseteq Instr

\* LS asks for C clear and Z set, the code 15 always passes.
ConditionPassed(bits, cond) ==
  LET n == "N" \in bits
      z == "Z" \in bits
      c == "C" \in bits
      v == "V" \in bits
  IN  CASE cond = "EQ" -> z          [] cond = "NE" -> ~z
        [] cond = "CS" -> c          [] cond = "CC" -> ~c
        [] cond = "MI" -> n          [] cond = "PL" -> ~n
        [] cond = "VS" -> v          [] cond = "VC" -> ~v
        [] cond = "HI" -> c /\ ~z    [] cond = "LS" -> ~c /\ z
        [] cond = "GE" -> n = v      [] cond = "LT" -> n # v
        [] cond = "GT" -> ~z /\ n = v
        [] cond = "LE" -> z \/ n # v
        [] OTHER -> TRUE

-----------------------------------------------------------------------------
(* Data processing. *)

\* The flags that can go with the result v: N and Z are read off it.
flags_of(v) ==
  {f \in SUBSET Flags : /\ "Z" \in f <=> v = 0 /\ "Z" \in Flags
                        /\ "N" \in f <=> v > UINT32_MAX \div 2 /\ "N" \in Flags}

set_flags(r, f) ==
  registers_write_cpsr(r, [r.cpsr EXCEPT !.bits = (@ \ Flags) \cup f])

\* Every operation that writes rd.  With S it compares the word in rd with
\* the pc, not rd with 15, to tell a return from an exception.
alu(r, rd, S, v) ==
  LET w == arm_write_register(r, rd, v)
      to_pc == arm_read_register(w, rd) = arm_read_register(w, 15)
  IN  IF ~S
      THEN {Outcome(w, 0)}
      ELSE IF ~to_pc
      THEN {Outcome(set_flags(w, f), 0) : f \in flags_of(v)}
      ELSE IF registers_current_mode_has_spsr(w)
      THEN {Outcome(registers_write_cpsr(w, arm_read_spsr(w)), 0)}
      ELSE {Outcome(w, UNDEFINED_INSTRUCTION)}

\* The carry is added by a second addition into the same register.
adc(r, rd, S, v, w) ==
  UNION {IF first.result = 0 THEN alu(first.reg, rd, S, w) ELSE {first} :
           first \in alu(r, rd, S, v)}

\* tst, cmp and cmn.
test(r, v) == {Outcome(set_flags(r, f), 0) : f \in flags_of(v)}

\* teq calls eor, which writes rd, and takes the status it returns as result.
teq(r, rd, v) ==
  UNION {test(o.reg, o.result) : o \in alu(r, rd, TRUE, v)}

\* The masks are combined with !mask: a cpsr is cleared but for its bit 0, or
\* completely, and a successful write returns DATA_ABORT.
arm_data_processing_immediate_msr(r, ins) ==
  LET low(psr) == [M |-> psr.M % 2, bits |-> {}]
      cpsr == IF ins.field THEN [M |-> 0, bits |-> {}] ELSE low(r.cpsr)
      spsr == IF ins.field
              THEN [M |-> ins.operand.M % 16, bits |-> ins.operand.bits \cap {"T"}]
              ELSE low(arm_read_spsr(r))
  IN  CASE /\ ins.R = 0
           /\ registers_in_a_privileged_mode(r) /\ "T" \in ins.operand.bits ->
             {Outcome(r, UNDEFINED_INSTRUCTION)}
        [] ins.R = 1 /\ ~registers_current_mode_has_spsr(r) ->
             {Outcome(r, UNDEFINED_INSTRUCTION)}
        [] ins.R = 1 /\ registers_current_mode_has_spsr(r) ->
             {Outcome(arm_write_spsr(r, spsr), DATA_ABORT)}
        [] OTHER -> {Outcome(registers_write_cpsr(r, cpsr), DATA_ABORT)}

-----------------------------------------------------------------------------
(* Branches and status register reads. *)

b(r, link, offset) ==
  LET l == IF link
           THEN arm_write_register(r, 14, minus(arm_read_register(r, 15), 4))
           ELSE r
  IN  {Outcome(arm_write_register(l, 15, plus(arm_read_register(l, 15), offset)), 0)}

clear_bit_0(a) == a - (a % 2)

bx(r, link, rm) ==
  LET target == clear_bit_0(arm_read_register(r, rm))
      l == IF link
           THEN arm_write_register(r, 14, minus(arm_read_register(r, 15), 4))
           ELSE r
  IN  {Outcome(arm_write_register(l, 15, target), 0)}

\* The image of a status register in a word is any of Values.
arm_miscellaneous(r, R, rd, v) ==
  IF R = 1 /\ ~registers_current_mode_has_spsr(r)
  THEN {Outcome(r, UNDEFINED_INSTRUCTION)}
  ELSE {Outcome(arm_write_register(r, rd, v), 0)}

arm_coprocessor_others_swi(r, bit24) ==
  {Outcome(r, IF bit24 THEN SOFTWARE_INTERRUPT ELSE UNDEFINED_INSTRUCTION)}

-----------------------------------------------------------------------------
(* Loads and stores. *)

\* The base is written back before the access, which may then fail.
write_back(r, rn, wb, address) ==
  IF wb THEN arm_write_register(r, rn, address) ELSE r

ldr(r, ins, address, v) ==
  LET w == write_back(r, ins.rn, ins.wb, address)
  IN  {Outcome(w, AccessFailed), Outcome(arm_write_register(w, ins.rd, v), 0)}

Aborted == 256  \* not a result: the process is gone

\* A half word stored at the last address is written outside the array.
str(r, ins, address) ==
  LET w == write_back(r, ins.rn, ins.wb, address)
  IN  {Outcome(w, result) : result \in {AccessFailed, 0, Aborted}}

\* The increment-after form with write-back adds to the number of the base
\* register instead of to its value.
start_end_adresse(r, ins) ==
  LET val == arm_read_register(r, ins.rn)
      size == (4 * Cardinality(ins.list)) % (UINT32_MAX + 1)
  IN  CASE ~ins.W -> arm_write_register(r, ins.rn, val)
        [] ins.W /\ ins.P = 0 /\ ins.U = 1 ->
             arm_write_register(r, ins.rn + 4 * Cardinality(ins.list), val)
        [] ins.W /\ ins.P = 1 /\ ins.U = 1 ->
             arm_write_register(r, ins.rn, plus(val, size))
        [] OTHER -> arm_write_register(r, ins.rn, minus(val, size))

\* The registers of the list one after the other, all in the current mode.
load_all(r, list, f) ==
  LET mode == registers_get_mode(r)
      high == IF mode \in Modes THEN list ELSE {}
  IN  [r EXCEPT
        !.pc = IF 15 \in list THEN clear_bit_0(f[15]) ELSE @,
        !.tab_r0_r7 = [n \in LowRegs |-> IF n \in list THEN f[n] ELSE @[n]],
        !.tab_r8_r12 = [n \in MidRegs |-> [k \in 0..1 |->
           IF n \in list /\ k = r8_r12_bank(mode) THEN f[n] ELSE @[n][k]]],
        !.tab_r13_r14 = [n \in HighRegs |-> [k \in 0..5 |->
           IF n \in high /\ k = r13_r14_bank(mode) THEN f[n] ELSE @[n][k]]]]

\* A store never touches the registers again, failed accesses are ignored.
stm(r, ins) == {Outcome(start_end_adresse(r, ins), 0)}

\* The assertion on the end address that the process dies of.
assertion_fails(r, ins) ==
  /\ 15 \in ins.list
  /\ ins.P = 0 /\ ins.U = 1
  /\ arm_read_register(r, ins.rn) # ins.rn

ldm(r, ins, f) ==
  LET loaded == load_all(start_end_adresse(r, ins), ins.list, f)
  IN  {Outcome(loaded, IF assertion_fails(r, ins) THEN Aborted ELSE 0)}

-----------------------------------------------------------------------------
\* The dispatch on the instruction category, after a successful fetch.  The
\* SWI encoding and a condition that fails both return INTERRUPT.
arm_execute_instruction(r, ins) ==
  CASE ~ConditionPassed(r.cpsr.bits, ins.cond) -> {Outcome(r, INTERRUPT)}
    [] OTHER ->
  CASE ins.op = "alu" -> UNION {alu(r, ins.rd, ins.S, v) : v \in Values}
    [] ins.op = "adc" ->
         UNION {adc(r, ins.rd, ins.S, v[1], v[2]) : v \in Values \X Values}
    [] ins.op = "test" -> UNION {test(r, v) : v \in Values}
    [] ins.op = "teq" -> UNION {teq(r, ins.rd, v) : v \in Values}
    [] ins.op = "msr" -> arm_data_processing_immediate_msr(r, ins)
    [] ins.op = "mrs" ->
         UNION {arm_miscellaneous(r, ins.R, ins.rd, v) : v \in Values}
    [] ins.op = "b" -> b(r, ins.link, ins.offset)
    [] ins.op = "bx" -> bx(r, ins.link, ins.rm)
    [] ins.op = "ldr" ->
         UNION {ldr(r, ins, v[1], v[2]) : v \in Values \X Values}
    [] ins.op = "str" -> UNION {str(r, ins, v) : v \in Values}
    [] ins.op = "ldm" -> UNION {ldm(r, ins, f) : f \in [ins.list -> Values]}
    [] ins.op = "stm" -> stm(r, ins)
    [] ins.op = "media" -> arm_coprocessor_others_swi(r, ins.bit24)
    [] ins.op = "swi" -> {Outcome(r, INTERRUPT)}
    [] OTHER -> {Outcome(r, UNDEFINED_INSTRUCTION)}
=============================================================================
