---------------------------- MODULE ArmArithmetic ----------------------------
(***************************************************************************)
(* What data processing computes (arm_data_processing.c and                *)
(* arm_data_processing_functions.c, util.c): the shifter operand with its  *)
(* carry, the sixteen operations and the flags they set, on words of       *)
(* WordBits bits.  ArmInstruction leaves these values open; here they are  *)
(* the ones of the code.                                                   *)
(***************************************************************************)
EXTENDS ArmInstruction

CONSTANTS
  WordBits,  \* 32 in the program
  RsBase     \* the number of values of the bits of Rs a shift looks at: 256

\* The powers of two: << n multiplies by exp2[n] and >> n divides by it.
exp2[n \in 0..RsBase] == IF n = 0 THEN 1 ELSE 2 * exp2[n - 1]

ASSUME ArithmeticAssumption ==
  /\ WordBits \in Nat /\ UINT32_MAX = exp2[WordBits] - 1
  /\ RsBase \in Nat /\ WordBits < RsBase

TopBit == WordBits - 1
get_bit(v, i) == (v \div exp2[i]) % 2
negative(v) == get_bit(v, TopBit) = 1
C_flag(r) == IF "C" \in r.cpsr.bits THEN 1 ELSE 0

bits_of(v) == {i \in 0..TopBit : get_bit(v, i) = 1}
word_of(bits) ==
  LET sum[n \in 0..WordBits] ==
        IF n = 0 THEN 0 ELSE sum[n - 1] + (IF n - 1 \in bits THEN exp2[n - 1] ELSE 0)
  IN  sum[WordBits]
complement(v) == UINT32_MAX - v

logical_shift_left(v, n) == (v * exp2[n]) % exp2[WordBits]
logical_shift_right(v, n) == v \div exp2[n]
asr(v, n) ==
  v \div exp2[n] + (IF negative(v) THEN exp2[WordBits] - exp2[WordBits - n] ELSE 0)
ror(v, n) == v \div exp2[n] + (v % exp2[n]) * exp2[WordBits - n]

-----------------------------------------------------------------------------
(* The shifter operand: n is the amount, v the register shifted.           *)

Shifted(operand, c) == [operand |-> operand, c |-> c]

sign_fill(v) == Shifted(IF negative(v) THEN UINT32_MAX ELSE 0, get_bit(v, TopBit))

Arithmetic_shift_right_by_immediate(n, v) ==
  IF n = 0 THEN sign_fill(v) ELSE Shifted(asr(v, n), get_bit(v, n - 1))

Arithmetic_shift_right_by_register(r, n, v) ==
  CASE n % RsBase = 0 -> Shifted(v, C_flag(r))
    [] n % RsBase \in 1..TopBit ->
         Shifted(asr(v, n % RsBase), get_bit(v, (n % RsBase) - 1))
    [] OTHER -> sign_fill(v)

rotate_right_with_extend(r, v) ==
  Shifted(C_flag(r) * exp2[TopBit] + logical_shift_right(v, 1), get_bit(v, 0))

Rotate_right_by_immediate(r, n, v) ==
  IF n = 0
  THEN rotate_right_with_extend(r, v)
  ELSE Shifted(ror(v, n), get_bit(v, n - 1))

immedate(r, imm, rotate) ==
  LET operand == ror(imm, 2 * rotate)
  IN  Shifted(operand, IF rotate = 0 THEN C_flag(r) ELSE get_bit(operand, TopBit))

logical_shift_left_by_immediate(r, n, v) ==
  IF n = 0
  THEN Shifted(v, C_flag(r))
  ELSE Shifted(logical_shift_left(v, n), get_bit(v, WordBits - n))

logical_shift_left_low(r, v, n) ==  \* mutant: Rs[7:0] = 32 taken for more
  CASE n % RsBase = 0 -> Shifted(v, C_flag(r))
    [] n % RsBase \in 1..TopBit ->
         Shifted(logical_shift_left(v, n % RsBase), get_bit(v, WordBits - (n % RsBase)))
    [] OTHER -> Shifted(0, 0)

logical_shift_left_by_register(r, v, n) ==
  CASE n % RsBase = 0 -> Shifted(v, C_flag(r))
    [] n % RsBase \in 1..TopBit ->
         Shifted(logical_shift_left(v, n % RsBase), get_bit(v, WordBits - (n % RsBase)))
    [] n % RsBase = WordBits -> Shifted(0, get_bit(v, 0))
    [] OTHER -> Shifted(0, 0)

logical_shift_right_by_immediate(n, v) ==
  IF n = 0
  THEN Shifted(0, get_bit(v, TopBit))
  ELSE Shifted(logical_shift_right(v, n), get_bit(v, n - 1))

logical_shift_right_by_register(r, n, v) ==
  CASE n % RsBase = 0 -> Shifted(v, C_flag(r))
    [] n % RsBase \in 1..TopBit ->
         Shifted(logical_shift_right(v, n % RsBase), get_bit(v, (n % RsBase) - 1))
    [] n % RsBase = WordBits -> Shifted(0, get_bit(v, TopBit))
    [] OTHER -> Shifted(0, 0)

\* The shifter fields of an instruction: an immediate, or the register rm with
\* a kind of shift and an amount, from the instruction or from the register rs.
Shifters ==
  [by : {"immediate"}, imm : Word, rotate : 0..(WordBits \div 2) - 1]
    \cup [by : {"amount"}, kind : 0..3, rm : Reg, amount : 0..TopBit]
    \cup [by : {"register"}, kind : 0..3, rm : Reg, rs : Reg]

\* A sequence of tests on overlapping bit fields, the last that succeeds wins.
\* None is for a rotation by a register: the test for any bit of 7..4 takes it
\* as a left shift, and also a left shift by an odd amount.
carry(r, sh) ==
  IF sh.by = "immediate"
  THEN immedate(r, sh.imm, sh.rotate)
  ELSE LET v == arm_read_register(r, sh.rm)
           n == IF sh.by = "amount" THEN sh.amount ELSE arm_read_register(r, sh.rs)
           is(by, kind) == sh.by = by /\ sh.kind = kind
       IN  CASE is("amount", 3) -> Rotate_right_by_immediate(r, n, v)
             [] is("register", 2) -> Arithmetic_shift_right_by_register(r, n, v)
             [] is("amount", 2) -> Arithmetic_shift_right_by_immediate(n, v)
             [] is("register", 1) -> logical_shift_right_by_register(r, n, v)
             [] is("amount", 1) -> logical_shift_right_by_immediate(n, v)
             [] is("amount", 0) /\ n % 2 = 0 -> logical_shift_left_by_immediate(r, n, v)
             [] OTHER -> logical_shift_left_by_register(r, v, n)

-----------------------------------------------------------------------------
(* The operations, by their names in the code.                             *)

Compares == {"tst", "teq", "cmp", "cmn"}
Carrying == {"adc", "sbc", "rsc"}
Codes == {"and", "eor", "sub", "rsb", "add", "orr", "mov", "bic", "mvn"}
           \cup Carrying \cup Compares

\* c is the carry of the shifter, in the place of the carry flag.
computed(code, op1, op2, c) ==
  CASE code \in {"and", "tst"} -> word_of(bits_of(op1) \cap bits_of(op2))
    [] code \in {"eor", "teq"} ->
         word_of((bits_of(op1) \cup bits_of(op2)) \ (bits_of(op1) \cap bits_of(op2)))
    [] code \in {"sub", "cmp"} -> minus(op1, op2)
    [] code = "rsb" -> minus(op2, op1)
    [] code \in {"add", "adc", "cmn"} -> plus(op1, op2)
    [] code = "sbc" -> minus(minus(op1, op2), 1 - c)
    [] code = "rsc" -> minus(minus(op2, op1), 1 - c)
    [] code = "orr" -> word_of(bits_of(op1) \cup bits_of(op2))
    [] code = "mov" -> op2
    [] code = "bic" -> word_of(bits_of(op1) \ bits_of(op2))
    [] code = "mvn" -> complement(op2)

sets_carry_arm(code, op1, op2, v, c) ==  \* mutant: the flag is "no borrow"
  CASE code \in {"sub", "sbc", "rsc", "cmp"} -> v <= op1
    [] code = "rsb" -> ~(negative(op2) /\ ~negative(v))
    [] code \in {"add", "adc", "cmn"} -> v < op1
    [] code = "bic" -> get_bit(v, WordBits - 4) = 1
    [] OTHER -> c = 1

sets_carry_equal(code, op1, op2, v, c) ==  \* mutant: <= for <
  CASE code \in {"sub", "sbc", "rsc", "cmp"} -> v > op1
    [] code = "rsb" -> ~(negative(op2) /\ ~negative(v))
    [] code \in {"add", "adc", "cmn"} -> v <= op1
    [] code = "bic" -> get_bit(v, WordBits - 4) = 1
    [] OTHER -> c = 1

\* A subtraction sets the carry when it borrows, bic copies a bit of its result.
sets_carry(code, op1, op2, v, c) ==
  CASE code \in {"sub", "sbc", "rsc", "cmp"} -> v > op1
    [] code = "rsb" -> ~(negative(op2) /\ ~negative(v))
    [] code \in {"add", "adc", "cmn"} -> v < op1
    [] code = "bic" -> get_bit(v, WordBits - 4) = 1
    [] OTHER -> c = 1

sets_overflow(r, code, op1, op2, v) ==
  CASE code \in {"sub", "sbc", "rsc", "cmp"} -> negative(op1) /\ ~negative(v)
    [] code = "rsb" -> negative(op2) /\ ~negative(v)
    [] code \in {"add", "adc", "cmn"} -> ~negative(op1) /\ negative(v)
    [] OTHER -> "V" \in r.cpsr.bits

nzc_shifftercarry_update(r, v, c, overflow) ==
  set_flags(r, {f \in Flags : \/ f = "N" /\ negative(v)
                              \/ f = "Z" /\ v = 0
                              \/ f = "C" /\ c
                              \/ f = "V" /\ overflow})

flagged(r, code, op1, op2, v, c) ==
  nzc_shifftercarry_update(r, v, sets_carry(code, op1, op2, v, c),
                           sets_overflow(r, code, op1, op2, v))

set_cond_by_number(w, rd, code, op1, op2, v, c) ==  \* mutant: tests rd = 15
  IF rd # 15
  THEN Outcome(flagged(w, code, op1, op2, v, c), 0)
  ELSE IF registers_current_mode_has_spsr(w)
  THEN Outcome(registers_write_cpsr(w, arm_read_spsr(w)), 0)
  ELSE Outcome(w, UNDEFINED_INSTRUCTION)

\* What set_cond does once rd has been written: it restores the cpsr or sets the
\* flags.
set_cond(w, rd, code, op1, op2, v, c) ==
  IF arm_read_register(w, rd) # arm_read_register(w, 15)
  THEN Outcome(flagged(w, code, op1, op2, v, c), 0)
  ELSE IF registers_current_mode_has_spsr(w)
  THEN Outcome(registers_write_cpsr(w, arm_read_spsr(w)), 0)
  ELSE Outcome(w, UNDEFINED_INSTRUCTION)

operate(r, code, rd, S, op1, op2, c) ==
  LET v == computed(code, op1, op2, c)
      w == arm_write_register(r, rd, v)
  IN  IF S THEN set_cond(w, rd, code, op1, op2, v, c) ELSE Outcome(w, 0)

\* The second of the two additions that adc makes.
add_carry(first, rd, S, c) ==
  IF first.result = 0
  THEN operate(first.reg, "add", rd, S, arm_read_register(first.reg, rd), c, c)
  ELSE first

compare(r, code, op1, op2, v, c) ==
  Outcome(flagged(r, code, op1, op2, v, c), 0)

\* The flags of teq are those of the status eor returns, not of its result.
teq_flags(eor, c) ==
  Outcome(nzc_shifftercarry_update(eor.reg, eor.result, c = 1,
                                   "V" \in eor.reg.cpsr.bits), 0)

operation(r, ins, op1, op2, c) ==
  CASE ins.code \in {"tst", "cmp", "cmn"} ->
         compare(r, ins.code, op1, op2, computed(ins.code, op1, op2, c), c)
    [] ins.code = "teq" -> teq_flags(operate(r, "eor", ins.rd, TRUE, op1, op2, c), c)
    [] ins.code = "adc" ->
         add_carry(operate(r, "adc", ins.rd, ins.S, op1, op2, c), ins.rd, ins.S, c)
    [] OTHER -> operate(r, ins.code, ins.rd, ins.S, op1, op2, c)

arm_data_processing_shift(r, ins) ==
  LET sh == carry(r, ins.sh)
  IN  operation(r, ins, arm_read_register(r, ins.rn), sh.operand, sh.c)

-----------------------------------------------------------------------------
(* What the ARM architecture defines, to compare with.                     *)

signed(v) == IF negative(v) THEN v - exp2[WordBits] ELSE v

\* One formula for each kind of shift: n bits of the value extended by zeros or
\* by its sign, and the last bit shifted out.
Shift(kind, v, n, C) ==
  CASE n = 0 -> Shifted(v, C)
    [] n > 0 /\ kind = 0 -> Shifted((v * exp2[n]) % exp2[WordBits],
                                    ((v * exp2[n]) \div exp2[WordBits]) % 2)
    [] n > 0 /\ kind = 1 -> Shifted(v \div exp2[n], (v \div exp2[n - 1]) % 2)
    [] n > 0 /\ kind = 2 -> Shifted((signed(v) \div exp2[n]) % exp2[WordBits],
                                    (signed(v) \div exp2[n - 1]) % 2)
    [] n > 0 /\ kind = 3 ->
         LET turned == word_of({(i + WordBits - (n % WordBits)) % WordBits : i \in bits_of(v)})
         IN  Shifted(turned, get_bit(turned, TopBit))

\* An amount of 0 in the instruction means WordBits, and RRX for a rotation.
ShiftByAmount(kind, v, n, C) ==
  IF n = 0 /\ kind = 3
  THEN Shifted((v + C * exp2[WordBits]) \div 2, v % 2)
  ELSE Shift(kind, v, IF n = 0 /\ kind \in {1, 2} THEN WordBits ELSE n, C)
=============================================================================
