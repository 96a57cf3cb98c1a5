------------------------------- MODULE Machine -------------------------------
(***************************************************************************)
(* The core and its memory together: one instruction after the other, each *)
(* with the words it computes and the bytes it transfers.  ArmCore has the *)
(* same steps with these words left open.  The debugger (its G and X       *)
(* commands) has loaded the registers and the memory it starts from.       *)
(***************************************************************************)
EXTENDS ArmTransfer

CONSTANTS
  Program,   \* the instructions of the program, in any order
  InitRegs,  \* the register files it starts from
  InitMem,   \* the bytes it starts from
  MaxSteps   \* bound: instructions executed

\* What the decoder extracts of the instructions that compute and transfer.
Instructions ==
  [op : {"dp"}, cond : Conds, code : Codes, S : BOOLEAN, rd : Reg, rn : Reg,
   sh : Shifters]
    \cup [op : {"single"}, cond : Conds, L : 0..1, P : 0..1, U : 0..1, W : BOOLEAN,
          size : Sizes, rd : Reg, rn : Reg, off : Offsets]
    \cup [op : {"ldm", "stm"}, cond : Conds, P : 0..1, U : 0..1, W : BOOLEAN,
          rn : Reg, list : SUBSET Reg]

ASSUME MachineAssumption ==
  /\ Program \subseteq Instructions
  /\ InitRegs \subseteq {r \in registers_data : r.current_mode = mode_update(r.cpsr)}
  /\ {"N", "Z", "C", "V"} \subseteq PsrBits
  /\ InitMem \in [0..MemSize - 1 -> Byte]
  /\ MaxSteps \in Nat

VARIABLES
  reg,     \* the register file
  mem,     \* the bytes of the memory
  ins,     \* the instruction fetched and not yet executed, or None
  result,  \* what the last arm_step returned
  steps    \* instructions fetched

vars == <<reg, mem, ins, result, steps>>

None == [op |-> "none"]

Init ==
  /\ reg \in InitRegs
  /\ mem = InitMem
  /\ ins = None
  /\ result = 0
  /\ steps = 0

Ready == ins = None /\ steps < MaxSteps /\ result # Aborted

Fetch ==
  /\ Ready /\ fetched(reg)
  /\ reg' = arm_fetch(reg)
  /\ ins' \in Program
  /\ steps' = steps + 1
  /\ UNCHANGED <<mem, result>>

FetchAbort ==
  /\ Ready /\ ~fetched(reg)
  /\ LET o == fetch_fails(arm_fetch(reg)) IN reg' = o.reg /\ result' = o.result
  /\ steps' = steps + 1
  /\ UNCHANGED <<mem, ins>>

beside(o, m) == Transferred(o.reg, m, o.result)

\* The dispatch of arm_execute_instruction on the instructions of Program.
execute(r, m, i) ==
  CASE ~ConditionPassed(r.cpsr.bits, i.cond) -> {Transferred(r, m, INTERRUPT)}
    [] OTHER ->
  CASE i.op = "dp" -> {beside(arm_data_processing_shift(r, i), m)}
    [] i.op = "single" -> {arm_load_store(r, m, i)}
    [] i.op \in {"ldm", "stm"} -> arm_load_store_multiple(r, m, i)

\* The end of arm_step: a result that is not 0 enters an exception.
Execute ==
  /\ ins # None
  /\ \E o \in execute(reg, mem, ins) :
       LET entered == IF o.result \in {0, Aborted}
                      THEN Outcome(o.reg, o.result)
                      ELSE arm_exception(o.reg, o.result, "other")
       IN  /\ reg' = entered.reg
           /\ result' = entered.result
           /\ mem' = o.mem
  /\ ins' = None
  /\ UNCHANGED steps

Next == Fetch \/ FetchAbort \/ Execute

Spec == Init /\ [][Next]_vars

-----------------------------------------------------------------------------
TypeOK ==
  /\ reg \in registers_data
  /\ mem \in [0..MemSize - 1 -> Byte]
  /\ ins \in Program \cup {None}
  /\ result \in 0..256
  /\ steps \in 0..MaxSteps

\* In the invalid mode a write to r13 or r14 is dropped.
InMode == reg.current_mode \in Modes

Runs(op) == ins.op = op /\ ConditionPassed(reg.cpsr.bits, ins.cond)

\* The operand and the carry that the tests of carry() select among its ten
\* shift functions are those of the architecture for the encoding, whatever the
\* amount, 0 and amounts of a word and more included; but a rotation by a
\* register is a left shift.
ShifterIsArchitectural ==
  Runs("dp") /\ ins.sh.by # "immediate" =>
    LET sh == ins.sh
        v == arm_read_register(reg, sh.rm)
        C == C_flag(reg)
    IN  carry(reg, sh) =
          IF sh.by = "amount"
          THEN ShiftByAmount(sh.kind, v, sh.amount, C)
          ELSE Shift(IF sh.kind = 3 THEN 0 ELSE sh.kind, v,
                     arm_read_register(reg, sh.rs) % RsBase, C)

\* The outcomes ArmInstruction gives the class of the instruction, for the words
\* that it computes or that the memory holds.
OutcomesOfClass(r, m, i) ==
  LET op1 == arm_read_register(r, i.rn)
      sh == carry(r, i.sh)
      v == computed(i.code, op1, sh.operand, sh.c)
      sums == {plus(arm_read_register(o.reg, i.rd), sh.c) : o \in alu(r, i.rd, i.S, v)}
      a == calculate_address(r, i.rn, offset_of(r, i.off), i.U)
      moves == [rn |-> i.rn, rd |-> i.rd, wb |-> i.P = 0 \/ i.W]
      word(unread) == word_read(r, m, i, unread)
  IN  CASE i.op = "dp" /\ i.code \in {"tst", "cmp", "cmn"} -> test(r, v)
        [] i.op = "dp" /\ i.code = "teq" -> teq(r, i.rd, v)
        [] i.op = "dp" /\ i.code = "adc" -> UNION {adc(r, i.rd, i.S, v, sum) : sum \in sums}
        [] i.op = "dp" /\ i.code \notin Compares \cup {"adc"} -> alu(r, i.rd, i.S, v)
        [] i.op = "single" /\ i.P = 0 /\ i.W -> {Outcome(r, UNDEFINED_INSTRUCTION)}
        [] i.op = "single" /\ ~(i.P = 0 /\ i.W) /\ i.L = 1 ->
             ldr(r, moves, a, IF read_fits(i.size, a)
                              THEN value_of(m, i.size, a, ENDIANESS) ELSE 0)
        [] i.op = "single" /\ ~(i.P = 0 /\ i.W) /\ i.L = 0 -> str(r, moves, a)
        [] i.op = "ldm" -> UNION {ldm(r, i, word(unread)) : unread \in Unread}
        [] i.op = "stm" -> stm(r, i)

\* Every instruction, with the words it computes, ends in one of the outcomes
\* ArmInstruction allows its class: what is shown of ArmCore, whose words are
\* arbitrary, holds of the program's own words.
ImplementsClass ==
  ins # None /\ ConditionPassed(reg.cpsr.bits, ins.cond) =>
    \A o \in execute(reg, mem, ins) :
      Outcome(o.reg, o.result) \in OutcomesOfClass(reg, mem, ins)

DecidedBy(bits, a, w) ==
  /\ ConditionPassed(bits, "EQ") <=> a = w
  /\ ConditionPassed(bits, "CC") <=> a >= w
  /\ ConditionPassed(bits, "HI") <=> a < w
  /\ ~negative(a) /\ signed(a) - signed(w) < exp2[TopBit] =>
       (ConditionPassed(bits, "GE") <=> signed(a) >= signed(w))

\* After a compare of a with b, EQ means that they are equal, CC that a is not
\* below b as unsigned words (CS that it is: the carry is a borrow), and GE that
\* it is not below as signed words if a is positive and the difference a word.
CompareDecides ==
  Runs("dp") /\ ins.code = "cmp" =>
    DecidedBy(arm_data_processing_shift(reg, ins).reg.cpsr.bits,
              arm_read_register(reg, ins.rn), carry(reg, ins.sh).operand)

Chained(low, rd, wide) ==
  LET sum == arm_read_register(low, rd)
      unshifted == [by |-> "amount", kind |-> 0, rm |-> rd, amount |-> 0]
      high == arm_data_processing_shift(low,
                [code |-> "adc", S |-> FALSE, rd |-> 14, rn |-> rd, sh |-> unshifted])
  IN  wide % exp2[WordBits] # arm_read_register(low, 15) =>
        arm_read_register(high.reg, 14) =
          (2 * sum + wide \div exp2[WordBits]) % exp2[WordBits]

\* An addition that sets the flags followed by adc adds numbers of two words:
\* the carry of the low words reaches the high ones.  An addition whose sum
\* happens to be what the pc reads returns from an exception instead.
SumsChain ==
  Runs("dp") /\ InMode /\ ins.code = "add" /\ ins.S /\ ins.rd # 15 =>
    Chained(arm_data_processing_shift(reg, ins).reg, ins.rd,
            arm_read_register(reg, ins.rn) + carry(reg, ins.sh).operand)

\* The base moved by the offset of the architecture.  It is the architecture's
\* address of the offset and pre-indexed forms; the code also uses it for the
\* post-indexed ones, which the architecture makes at the base itself.
TransferAddress ==
  LET off == ins.off
      n == IF off.by = "immediate"
           THEN off.imm
           ELSE ShiftByAmount(off.kind, arm_read_register(reg, off.rm), off.amount,
                              C_flag(reg)).operand
      base == arm_read_register(reg, ins.rn)
  IN  IF ins.U = 1 THEN plus(base, n) ELSE minus(base, n)

\* A single transfer is made at the moved base, in full or not at all: either the
\* register and the bytes there agree after it, in size and order, and no other
\* byte has changed, or it was refused, no byte and no register but the base has
\* changed and the bytes are not all in the memory.
TransferAgrees ==
  [][Runs("single") /\ InMode /\ ~(ins.P = 0 /\ ins.W) /\ result' # Aborted =>
       LET a == TransferAddress
           bytes == a..a + ins.size - 1
           rd == arm_read_register(reg', ins.rd)
       IN  IF result' = 0
           THEN /\ bytes \subseteq DOMAIN mem
                /\ \A at \in DOMAIN mem \ bytes : mem'[at] = mem[at]
                /\ ins.rd # 15 =>
                     value_of(mem', ins.size, a, ENDIANESS) =
                       IF ins.L = 1 THEN rd ELSE rd % power[ins.size]
           ELSE /\ ~(bytes \subseteq DOMAIN mem)
                /\ mem' = mem
                /\ \A n \in RegNums \ {ins.rn} :
                     arm_read_register(reg', n) = arm_read_register(reg, n)]_vars

\* What a store multiple that moves its base has pushed, the load multiple of
\* the opposite direction and order finds, wherever the base points and in
\* whichever order the registers are named, if all the words are in the memory.
PushPop ==
  ins.op = "stm" /\ InMode /\ ins.W /\ ~(ins.P = 0 /\ ins.U = 1)
  /\ ins.rn # 15 /\ {ins.rn, 15} \cap ins.list = {} =>
    LET pushed == store_multiple(reg, mem, ins)
        back == [ins EXCEPT !.P = 1 - @, !.U = 1 - @, !.W = FALSE]
        base == arm_read_register(reg, ins.rn)
        zeroed == load_all(pushed.reg, ins.list, [n \in ins.list |-> 0])
        inside == \A i \in ins.list : write_fits(4, slot(reg, ins, i))
    IN  inside => \A unread \in Unread :
          load_multiple(zeroed, pushed.mem, back, unread).reg = pushed.reg
=============================================================================
