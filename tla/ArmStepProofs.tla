--------------------------- MODULE ArmStepProofs ---------------------------
(***************************************************************************)
(* Lemmas about the operators of Registers (words stay words, a write      *)
(* keeps the shape of the register file and what it is not about, no two   *)
(* saving modes share a saved status register), and about those of         *)
(* ArmInstruction, ArmException and ArmStep: whatever its mode and its     *)
(* status registers, the register file stays well formed under every       *)
(* instruction and every exception.                                        *)
(***************************************************************************)
EXTENDS ArmStep, FiniteSetTheorems, TLAPS

\* Sums and differences of words wrap around to words (arm_core.c:92).
LEMMA WrapAround ==
  ASSUME NEW a \in Nat, NEW c \in Word
  PROVE  plus(a, c) \in Word /\ minus(a, c) \in Word
<1> DEFINE m == UINT32_MAX + 1
<1>1. m \in Nat /\ m > 0 BY RegistersAssumption
<1>2. \A x \in Nat : x % m \in 0..(m - 1)
  <2> HIDE DEF m
  <2> QED BY <1>1
<1>3. (a + c) \in Nat /\ (a + m - c) \in Nat
  BY RegistersAssumption DEF Word
<1>4. (a + c) % m \in Word /\ (a + m - c) % m \in Word
  BY <1>2, <1>3, RegistersAssumption DEF Word
<1> QED BY <1>4 DEF plus, minus

\* A register read returns a word, whatever its number and its mode
\* (registers.c:68, arm_core.c:84).
LEMMA ReadIsWord ==
  ASSUME NEW r \in registers_data, NEW n, NEW mode
  PROVE  registers_read(r, n, mode) \in Word
<1>1. UINT32_MAX \in Word BY RegistersAssumption DEF Word
<1>2. r8_r12_bank(mode) \in 0..1 BY DEF r8_r12_bank
<1>3. r13_r14_bank(mode) \in 0..5 BY DEF r13_r14_bank
<1>4. /\ r.pc \in Word
      /\ r.tab_r0_r7 \in [LowRegs -> Word]
      /\ r.tab_r8_r12 \in [MidRegs -> [0..1 -> Word]]
      /\ r.tab_r13_r14 \in [HighRegs -> [0..5 -> Word]]
  BY DEF registers_data
<1>5. n \in MidRegs => r.tab_r8_r12[n][r8_r12_bank(mode)] \in Word
  BY <1>2, <1>4
<1>6. n \in HighRegs => r.tab_r13_r14[n][r13_r14_bank(mode)] \in Word
  BY <1>3, <1>4
<1> QED BY <1>1, <1>4, <1>5, <1>6 DEF registers_read

\* A register read by the core is a word, the pc 8 ahead included.
LEMMA CoreReadIsWord ==
  ASSUME NEW r \in registers_data, NEW n
  PROVE  arm_read_register(r, n) \in Word
<1> DEFINE value == registers_read(r, n, registers_get_mode(r))
<1>1. value \in Word BY ReadIsWord
<1>2. value \in Nat /\ 4 \in Nat BY <1>1, RegistersAssumption DEF Word
<1>3. ASSUME NEW x \in Word PROVE clear_bit_1(x) \in Word
  BY <1>3, RegistersAssumption DEF clear_bit_1, Word
<1>4. \A x \in Nat : x % (UINT32_MAX + 1) \in Word
  BY RegistersAssumption DEF Word
<1>5. plus(value, 4) \in Word BY <1>2, <1>4 DEF plus
<1> QED BY <1>1, <1>3, <1>5 DEF arm_read_register

\* A register write keeps the shape of the register file and touches no
\* status register (registers.c:132).
LEMMA WriteKeepsType ==
  ASSUME NEW r \in registers_data, NEW n, NEW mode, NEW v \in Word
  PROVE  /\ registers_write(r, n, mode, v) \in registers_data
         /\ registers_write(r, n, mode, v).cpsr = r.cpsr
         /\ registers_write(r, n, mode, v).spsr = r.spsr
         /\ registers_write(r, n, mode, v).current_mode = r.current_mode
<1>1. CASE n = 15
  BY <1>1 DEF registers_write, registers_data
<1>2. CASE n # 15 /\ n \in LowRegs
  BY <1>2 DEF registers_write, registers_data, LowRegs, MidRegs
<1>3. CASE n # 15 /\ n \notin LowRegs /\ n \in MidRegs
  BY <1>3 DEF registers_write, registers_data, r8_r12_bank
<1>4. CASE /\ n # 15 /\ n \notin LowRegs /\ n \notin MidRegs
           /\ n \in HighRegs /\ mode \in Modes
  <2>1. r13_r14_bank(mode) \in 0..5 BY DEF r13_r14_bank
  <2>2. registers_write(r, n, mode, v)
          = [r EXCEPT !.tab_r13_r14[n][r13_r14_bank(mode)] = v]
    BY <1>4 DEF registers_write
  <2> DEFINE bank == r13_r14_bank(mode)
             row == [r.tab_r13_r14[n] EXCEPT ![bank] = v]
             tab == [r.tab_r13_r14 EXCEPT ![n] = row]
  <2>3. r.tab_r13_r14 \in [HighRegs -> [0..5 -> Word]] BY DEF registers_data
  <2>4. row \in [0..5 -> Word] BY <1>4, <2>1, <2>3
  <2>5. tab \in [HighRegs -> [0..5 -> Word]] BY <1>4, <2>3, <2>4
  <2>6. registers_write(r, n, mode, v) = [r EXCEPT !.tab_r13_r14 = tab]
    BY <2>2
  <2> HIDE DEF tab, row, bank
  <2> QED BY <2>5, <2>6 DEF registers_data
<1>5. CASE /\ n # 15 /\ n \notin LowRegs /\ n \notin MidRegs
           /\ ~(n \in HighRegs /\ mode \in Modes)
  BY <1>5 DEF registers_write, registers_data
<1> QED BY <1>1, <1>2, <1>3, <1>4, <1>5

\* Every register number is of one of the four kinds of storage.
LEMMA RegisterKinds ==
  \A x \in RegNums : x \in LowRegs \cup MidRegs \cup HighRegs \/ x = 15
<1>1. \A x \in 0..15 : x \in 0..7 \/ x \in 8..12 \/ x \in {13, 14} \/ x = 15
  OBVIOUS
<1>2. RegNums \subseteq 0..15 BY RegistersAssumption
<1> QED BY <1>1, <1>2 DEF LowRegs, MidRegs, HighRegs

\* The modes mode and m have register n in the same place.
SamePlace(n, mode, m) ==
  \/ n = 15 \/ n \in LowRegs
  \/ n \in MidRegs /\ r8_r12_bank(mode) = r8_r12_bank(m)
  \/ n \in HighRegs /\ mode \in Modes /\ m \in Modes
       /\ r13_r14_bank(mode) = r13_r14_bank(m)

\* A write is read back in the modes that have the register in the same place,
\* and nowhere else: neither under another number nor in another mode.
LEMMA WriteIsRead ==
  ASSUME NEW r \in registers_data, NEW n \in RegNums, NEW v \in Word,
         NEW mode, NEW m, NEW k \in RegNums
  PROVE  registers_read(registers_write(r, n, mode, v), k, m) =
           IF k = n /\ SamePlace(n, mode, m) THEN v ELSE registers_read(r, k, m)
<1> DEFINE w == registers_write(r, n, mode, v)
<1>1. CASE n = 15
  <2>1. w = [r EXCEPT !.pc = v] BY <1>1 DEF registers_write, LowRegs, MidRegs, HighRegs
  <2> HIDE DEF w
  <2> QED BY <1>1, <2>1
          DEF SamePlace, registers_read, registers_data, LowRegs, MidRegs, HighRegs, w
<1>2. CASE n \in LowRegs
  <2>1. w = [r EXCEPT !.tab_r0_r7[n] = v]
    BY <1>2 DEF registers_write, LowRegs, MidRegs, HighRegs
  <2> HIDE DEF w
  <2> QED BY <1>2, <2>1
          DEF SamePlace, registers_read, registers_data, LowRegs, MidRegs, HighRegs, w
<1>3. CASE n \in MidRegs
  <2>1. w = [r EXCEPT !.tab_r8_r12[n][r8_r12_bank(mode)] = v]
    BY <1>3 DEF registers_write, LowRegs, MidRegs, HighRegs
  <2>2. r8_r12_bank(mode) \in 0..1 /\ r8_r12_bank(m) \in 0..1 BY DEF r8_r12_bank
  <2>3. r.tab_r8_r12 \in [MidRegs -> [0..1 -> Word]] BY DEF registers_data
  <2>4. \A a \in MidRegs, j \in 0..1 :
          w.tab_r8_r12[a][j] =
            IF a = n /\ j = r8_r12_bank(mode) THEN v ELSE r.tab_r8_r12[a][j]
    BY <1>3, <2>1, <2>2, <2>3 DEF registers_data
  <2>5. w.pc = r.pc /\ w.tab_r0_r7 = r.tab_r0_r7 /\ w.tab_r13_r14 = r.tab_r13_r14
    BY <2>1 DEF registers_data
  <2> HIDE DEF w
  <2> QED BY RegisterKinds, <1>3, <2>2, <2>4, <2>5
          DEF SamePlace, registers_read, LowRegs, MidRegs, HighRegs, w
<1>4. CASE n \in HighRegs /\ mode \in Modes
  <2>1. w = [r EXCEPT !.tab_r13_r14[n][r13_r14_bank(mode)] = v]
    BY <1>4 DEF registers_write, LowRegs, MidRegs, HighRegs
  <2>2. r13_r14_bank(mode) \in 0..5 /\ r13_r14_bank(m) \in 0..5
    BY DEF r13_r14_bank
  <2>3. r.tab_r13_r14 \in [HighRegs -> [0..5 -> Word]] BY DEF registers_data
  <2>4. \A a \in HighRegs, j \in 0..5 :
          w.tab_r13_r14[a][j] =
            IF a = n /\ j = r13_r14_bank(mode) THEN v ELSE r.tab_r13_r14[a][j]
    BY <1>4, <2>1, <2>2, <2>3 DEF registers_data
  <2>5. w.pc = r.pc /\ w.tab_r0_r7 = r.tab_r0_r7 /\ w.tab_r8_r12 = r.tab_r8_r12
    BY <2>1 DEF registers_data
  <2> HIDE DEF w
  <2> QED BY RegisterKinds, <1>4, <2>2, <2>4, <2>5
          DEF SamePlace, registers_read, LowRegs, MidRegs, HighRegs, w
<1>5. CASE n \in HighRegs /\ mode \notin Modes
  <2>1. w = r BY <1>5 DEF registers_write, LowRegs, MidRegs, HighRegs
  <2> QED BY <1>5, <2>1 DEF SamePlace, LowRegs, MidRegs, HighRegs
<1> QED BY RegisterKinds, <1>1, <1>2, <1>3, <1>4, <1>5

\* The cached mode is one of the modes or the invalid one (registers.c:173).
LEMMA WriteCpsrKeepsType ==
  ASSUME NEW r \in registers_data, NEW psr \in Psr
  PROVE  /\ registers_write_cpsr(r, psr) \in registers_data
         /\ registers_write_cpsr(r, psr).cpsr = psr
         /\ registers_write_cpsr(r, psr).spsr = r.spsr
         /\ registers_write_cpsr(r, psr).current_mode = mode_update(psr)
BY DEF registers_write_cpsr, registers_data, mode_update, Psr

\* Each mode with a saved status register has its own: a write in one mode is
\* what that mode reads and no other mode's (registers.c:109 and 197).
LEMMA WriteSpsrSaves ==
  ASSUME NEW r \in registers_data, NEW psr \in Psr, NEW mode
  PROVE  LET w == registers_write_spsr(r, mode, psr)
         IN  /\ w \in registers_data
             /\ w.cpsr = r.cpsr /\ w.current_mode = r.current_mode
             /\ \A m : registers_read_spsr(w, m) =
                  IF m = mode /\ registers_mode_has_spsr(mode)
                  THEN psr ELSE registers_read_spsr(r, m)
<1> DEFINE w == registers_write_spsr(r, mode, psr)
<1>1. CASE registers_mode_has_spsr(mode)
  <2>1. \A m : spsr_index(m) \in 0..4 BY DEF spsr_index
  <2>2. \A m : registers_mode_has_spsr(m) /\ m # mode
                 => spsr_index(m) # spsr_index(mode)
    BY <1>1 DEF spsr_index, registers_mode_has_spsr, FIQ, IRQ, SVC, ABT, UND
  <2>3. w = [r EXCEPT !.spsr[spsr_index(mode)] = psr]
    BY <1>1 DEF registers_write_spsr
  <2>4. /\ w \in registers_data
        /\ w.cpsr = r.cpsr /\ w.current_mode = r.current_mode
        /\ w.spsr = [r.spsr EXCEPT ![spsr_index(mode)] = psr]
    BY <2>1, <2>3 DEF registers_data
  <2>5. r.spsr \in [0..4 -> Psr] BY DEF registers_data
  <2> HIDE DEF w
  <2>6. \A m : registers_read_spsr(w, m) =
                 IF m = mode THEN psr ELSE registers_read_spsr(r, m)
    BY <1>1, <2>1, <2>2, <2>4, <2>5 DEF registers_read_spsr
  <2> QED BY <1>1, <2>4, <2>6 DEF w
<1>2. CASE ~registers_mode_has_spsr(mode)
  BY <1>2 DEF registers_write_spsr
<1> QED BY <1>1, <1>2

\* A saved status register holds a status word, in every mode.
LEMMA ReadSpsrIsPsr ==
  ASSUME NEW r \in registers_data, NEW mode
  PROVE  registers_read_spsr(r, mode) \in Psr
BY DEF registers_data, registers_read_spsr, spsr_index, Psr

-----------------------------------------------------------------------------
(* Exceptions. *)

\* What every exception and every instruction yields.
Typed(o) == o.reg \in registers_data /\ o.result \in 0..256

\* The words the fetch, links and write-backs compute.
LEMMA SumsAreWords ==
  /\ 0 \in Word /\ 4 \in Word /\ 8 \in Word
  /\ {12, 16, 24, 28} \subseteq Word
  /\ \A a, c \in Word : plus(a, c) \in Word /\ minus(a, c) \in Word
<1>1. UINT32_MAX \in Nat /\ UINT32_MAX >= 28
  BY RegistersAssumption, ExceptionAssumption
<1>2. \A a, c \in Word : plus(a, c) \in Word /\ minus(a, c) \in Word
  BY <1>1, WrapAround DEF Word
<1>3. /\ 0 \in Word /\ 4 \in Word /\ 8 \in Word
      /\ {12, 16, 24, 28} \subseteq Word
  BY <1>1 DEF Word
<1> QED BY <1>2, <1>3

\* A register write leaves a well-formed register file.
LEMMA WriteTyped ==
  ASSUME NEW r \in registers_data, NEW n, NEW v \in Word
  PROVE  arm_write_register(r, n, v) \in registers_data
BY WriteKeepsType DEF arm_write_register

\* So does a write of the saved status register of the mode.
LEMMA SaveTyped ==
  ASSUME NEW r \in registers_data, NEW psr \in Psr
  PROVE  arm_write_spsr(r, psr) \in registers_data
BY WriteSpsrSaves DEF arm_write_spsr

\* So do the four writes of the entry of an exception.
LEMMA EnterTyped ==
  ASSUME NEW r \in registers_data, NEW link \in Word, NEW mode \in Modes,
         NEW bit6, NEW vector \in Word
  PROVE  enter(r, link, mode, bit6, vector) \in registers_data
<1> DEFINE l == arm_write_register(r, 14, link)
           saved == arm_write_spsr(l, l.cpsr)
           masks == IF bit6 THEN {"F", "I", "A"} ELSE {"I", "A"}
           psr == [M |-> mode,
                   bits |-> (l.cpsr.bits \ {"T", "E"}) \cup (masks \cap PsrBits)]
           e == registers_write_cpsr(saved, psr)
<1>1. l \in registers_data BY WriteTyped
<1> HIDE DEF l
<1>2. l.cpsr \in Psr BY <1>1 DEF registers_data
<1>3. saved \in registers_data BY <1>1, <1>2, SaveTyped
<1>4. psr \in Psr
  BY <1>2 DEF Psr, Modes, USR, FIQ, IRQ, SVC, ABT, UND, SYS
<1> HIDE DEF saved, psr
<1>5. e \in registers_data BY <1>3, <1>4, WriteCpsrKeepsType
<1>6. enter(r, link, mode, bit6, vector) = arm_write_register(e, 15, vector)
  BY DEF enter, set_exception_cpsr, e, saved, psr, l
<1> QED BY <1>5, <1>6, WriteTyped

\* So does a reset.
LEMMA ResetTyped ==
  ASSUME NEW r \in registers_data
  PROVE  reset(r) \in registers_data
<1> DEFINE psr == [M |-> SVC, bits |-> {"F", "I", "A"} \cap PsrBits]
           w == registers_write_cpsr(r, psr)
<1>1. psr \in Psr BY DEF Psr, SVC
<1> HIDE DEF psr
<1>2. w \in registers_data BY <1>1, WriteCpsrKeepsType
<1>3. reset(r) = arm_write_register(w, 15, 0) BY DEF reset, w, psr
<1> QED BY <1>2, <1>3, SumsAreWords, WriteTyped

\* So does every exception, and its result fits in a byte.
LEMMA ExceptionTyped ==
  ASSUME NEW r \in registers_data, NEW e \in 0..255, NEW swi
  PROVE  Typed(arm_exception(r, e, swi))
<1> DEFINE o == arm_exception(r, e, swi)
           pc == arm_read_register(r, 15)
<1>1. pc \in Word BY CoreReadIsWord
<1> HIDE DEF pc
<1>2. \A v \in {plus(minus(pc, 4), 8), plus(minus(pc, 4), 4), pc, plus(pc, 4)} :
        v \in Word
  BY <1>1, SumsAreWords
<1>3. \A link \in Word, vector \in Word, mode \in Modes, bit6 \in BOOLEAN :
        enter(r, link, mode, bit6, vector) \in registers_data
  BY EnterTyped
<1>4. ABT \in Modes /\ IRQ \in Modes /\ UND \in Modes /\ FIQ \in Modes
  BY DEF Modes
<1>5. 4 \in Word /\ 12 \in Word /\ 16 \in Word /\ 24 \in Word /\ 28 \in Word
  BY SumsAreWords
<1>6. /\ data_abort(r) \in registers_data /\ unterrupt(r) \in registers_data
      /\ undefined_unstruction(r) \in registers_data
      /\ fetch_abort(r) \in registers_data
      /\ fast_interrupt_request(r) \in registers_data
  <2>1. /\ plus(minus(pc, 4), 8) \in Word /\ plus(minus(pc, 4), 4) \in Word
        /\ plus(pc, 4) \in Word
    BY <1>2
  <2>2. data_abort(r) \in registers_data
    BY <1>3, <1>4, <1>5, <2>1, Zenon DEF data_abort, pc
  <2>3. unterrupt(r) \in registers_data
    BY <1>3, <1>4, <1>5, <2>1, Zenon DEF unterrupt, pc
  <2>4. undefined_unstruction(r) \in registers_data
    BY <1>1, <1>3, <1>4, <1>5, Zenon DEF undefined_unstruction, pc
  <2>5. fetch_abort(r) \in registers_data
    BY <1>3, <1>4, <1>5, <2>1, Zenon DEF fetch_abort, pc
  <2>6. fast_interrupt_request(r) \in registers_data
    BY <1>3, <1>4, <1>5, <2>1, Zenon DEF fast_interrupt_request, pc
  <2> QED BY <2>2, <2>3, <2>4, <2>5, <2>6
<1>7. /\ o.result \in 0..255
      /\ o.reg \in {r, reset(r), data_abort(r), unterrupt(r),
                    undefined_unstruction(r), fetch_abort(r),
                    fast_interrupt_request(r)}
  BY DEF o, arm_exception, Outcome, RESET, DATA_ABORT, FAST_INTERRUPT, INTERRUPT,
         PREFETCH_ABORT, UNDEFINED_INSTRUCTION, SOFTWARE_INTERRUPT,
         END_SIMULATION
<1> HIDE DEF o
<1>8. o.reg \in registers_data BY <1>6, <1>7, ResetTyped
<1>9. Typed(o) BY <1>7, <1>8 DEF Typed
<1> QED BY <1>9 DEF o

-----------------------------------------------------------------------------
(* Instructions. *)

\* Setting the flags leaves a well-formed register file.
LEMMA SetFlagsTyped ==
  ASSUME NEW r \in registers_data, NEW f \in SUBSET Flags
  PROVE  set_flags(r, f) \in registers_data
<1>1. r.cpsr \in Psr BY DEF registers_data
<1>2. [r.cpsr EXCEPT !.bits = (@ \ Flags) \cup f] \in Psr
  BY <1>1 DEF Psr, Flags
<1> QED BY <1>2, WriteCpsrKeepsType DEF set_flags

\* Each class of instruction yields well-formed outcomes: the operations that
\* write rd,
LEMMA AluTyped ==
  ASSUME NEW r \in registers_data, NEW rd, NEW S, NEW v \in Word,
         NEW o \in alu(r, rd, S, v)
  PROVE  Typed(o)
<1> DEFINE w == arm_write_register(r, rd, v)
<1>1. w \in registers_data BY WriteTyped
<1> HIDE DEF w
<1>2. \/ o = Outcome(w, 0)
      \/ \E f \in flags_of(v) : o = Outcome(set_flags(w, f), 0)
      \/ o = Outcome(registers_write_cpsr(w, arm_read_spsr(w)), 0)
      \/ o = Outcome(w, UNDEFINED_INSTRUCTION)
  BY Zenon DEF alu, w
<1>3. arm_read_spsr(w) \in Psr BY <1>1, ReadSpsrIsPsr DEF arm_read_spsr
<1>4. registers_write_cpsr(w, arm_read_spsr(w)) \in registers_data
  BY <1>1, <1>3, WriteCpsrKeepsType
<1>5. \A f \in flags_of(v) : set_flags(w, f) \in registers_data
  BY <1>1, SetFlagsTyped DEF flags_of
<1> QED BY <1>1, <1>2, <1>4, <1>5 DEF Typed, Outcome, UNDEFINED_INSTRUCTION

\* adc, with its two additions,
LEMMA AdcTyped ==
  ASSUME NEW r \in registers_data, NEW rd, NEW S, NEW v \in Word, NEW w \in Word,
         NEW o \in adc(r, rd, S, v, w)
  PROVE  Typed(o)
<1>1. PICK first \in alu(r, rd, S, v) :
        o \in IF first.result = 0 THEN alu(first.reg, rd, S, w) ELSE {first}
  BY DEF adc
<1>2. Typed(first) BY AluTyped
<1>3. first.reg \in registers_data BY <1>2 DEF Typed
<1>4. CASE first.result = 0
  <2>1. o \in alu(first.reg, rd, S, w) BY <1>1, <1>4
  <2> QED BY <1>3, <2>1, AluTyped
<1>5. CASE first.result # 0 BY <1>1, <1>2, <1>5
<1> QED BY <1>4, <1>5

\* the tests,
LEMMA TestTyped ==
  ASSUME NEW r \in registers_data, NEW v, NEW o \in test(r, v)
  PROVE  Typed(o)
<1>1. PICK f \in SUBSET Flags : o = Outcome(set_flags(r, f), 0)
  BY DEF test, flags_of
<1> QED BY <1>1, SetFlagsTyped DEF Typed, Outcome

\* teq, which writes rd as well,
LEMMA TeqTyped ==
  ASSUME NEW r \in registers_data, NEW rd, NEW v \in Word, NEW o \in teq(r, rd, v)
  PROVE  Typed(o)
<1>1. PICK p \in alu(r, rd, TRUE, v) : o \in test(p.reg, p.result) BY DEF teq
<1>2. p.reg \in registers_data BY AluTyped DEF Typed
<1> QED BY <1>1, <1>2, TestTyped

\* the writes of a status register,
LEMMA MsrTyped ==
  ASSUME NEW r \in registers_data, NEW ins, ins.operand \in Psr,
         NEW o \in arm_data_processing_immediate_msr(r, ins)
  PROVE  Typed(o)
<1> DEFINE low(psr) == [M |-> psr.M % 2, bits |-> {}]
           cpsr == IF ins.field THEN [M |-> 0, bits |-> {}] ELSE low(r.cpsr)
           spsr == IF ins.field
                   THEN [M |-> ins.operand.M % 16,
                         bits |-> ins.operand.bits \cap {"T"}]
                   ELSE low(arm_read_spsr(r))
<1>1. r.cpsr \in Psr /\ arm_read_spsr(r) \in Psr
  BY ReadSpsrIsPsr DEF registers_data, arm_read_spsr
<1>2. \A m \in 0..31 : m % 2 \in 0..31 /\ m % 16 \in 0..31 OBVIOUS
<1>3. cpsr \in Psr /\ spsr \in Psr BY <1>1, <1>2 DEF Psr
<1>4. \/ o = Outcome(r, UNDEFINED_INSTRUCTION)
      \/ o = Outcome(arm_write_spsr(r, spsr), DATA_ABORT)
      \/ o = Outcome(registers_write_cpsr(r, cpsr), DATA_ABORT)
  BY DEF arm_data_processing_immediate_msr
<1> HIDE DEF cpsr, spsr
<1>5. /\ arm_write_spsr(r, spsr) \in registers_data
      /\ registers_write_cpsr(r, cpsr) \in registers_data
  BY <1>3, SaveTyped, WriteCpsrKeepsType
<1> QED BY <1>4, <1>5 DEF Typed, Outcome, UNDEFINED_INSTRUCTION, DATA_ABORT

\* the branches,
LEMMA BranchTyped ==
  ASSUME NEW r \in registers_data, NEW link, NEW offset \in Word, NEW rm,
         NEW o \in b(r, link, offset) \cup bx(r, link, rm)
  PROVE  Typed(o)
<1> DEFINE l == IF link
                THEN arm_write_register(r, 14, minus(arm_read_register(r, 15), 4))
                ELSE r
<1>1. l \in registers_data BY CoreReadIsWord, SumsAreWords, WriteTyped
<1> HIDE DEF l
<1>2. plus(arm_read_register(l, 15), offset) \in Word
  BY <1>1, CoreReadIsWord, SumsAreWords
<1>3. clear_bit_0(arm_read_register(r, rm)) \in Word
  BY CoreReadIsWord, RegistersAssumption DEF clear_bit_0, Word
<1>4. \E v \in Word : o = Outcome(arm_write_register(l, 15, v), 0)
  BY <1>2, <1>3 DEF b, bx, l
<1> QED BY <1>1, <1>4, WriteTyped DEF Typed, Outcome

\* the reads of a status register,
LEMMA MiscellaneousTyped ==
  ASSUME NEW r \in registers_data, NEW R, NEW rd, NEW v \in Word,
         NEW o \in arm_miscellaneous(r, R, rd, v)
  PROVE  Typed(o)
BY WriteTyped DEF arm_miscellaneous, Typed, Outcome, UNDEFINED_INSTRUCTION

\* the single transfers,
LEMMA LoadStoreTyped ==
  ASSUME NEW r \in registers_data, NEW ins, NEW a \in Word, NEW v \in Word,
         NEW o \in ldr(r, ins, a, v) \cup str(r, ins, a)
  PROVE  Typed(o)
<1> DEFINE w == write_back(r, ins.rn, ins.wb, a)
<1>1. w \in registers_data BY WriteTyped DEF write_back
<1> HIDE DEF w
<1>2. \/ \E result \in {AccessFailed, 0, Aborted} : o = Outcome(w, result)
      \/ o = Outcome(arm_write_register(w, ins.rd, v), 0)
  BY DEF ldr, str, w
<1> QED BY <1>1, <1>2, WriteTyped DEF Typed, Outcome, AccessFailed, Aborted

\* the moved base of a multiple transfer,
LEMMA BaseTyped ==
  ASSUME NEW r \in registers_data, NEW ins, ins.list \subseteq Reg
  PROVE  start_end_adresse(r, ins) \in registers_data
<1> DEFINE val == arm_read_register(r, ins.rn)
           size == (4 * Cardinality(ins.list)) % (UINT32_MAX + 1)
<1>1. Cardinality(ins.list) \in Nat
  <2> DEFINE list == ins.list
  <2>0. list \subseteq 0..15 BY RegistersAssumption DEF Reg
  <2> HIDE DEF list
  <2>1. list \in SUBSET Nat /\ \A n \in list : n <= 15 BY <2>0
  <2>2. IsFiniteSet(list) BY <2>1, FS_BoundedSetOfNaturals
  <2> QED BY <2>2, FS_CardinalityType DEF list
<1>2. size \in Word
  <2> DEFINE m == UINT32_MAX + 1
  <2>1. \A x \in Nat : x % m \in 0..(m - 1) BY RegistersAssumption
  <2>2. m - 1 = UINT32_MAX BY RegistersAssumption
  <2> QED BY <1>1, <2>1, <2>2 DEF Word
<1> HIDE DEF size
<1>3. val \in Word BY CoreReadIsWord
<1> HIDE DEF val
<1>4. plus(val, size) \in Word /\ minus(val, size) \in Word
  BY <1>2, <1>3, SumsAreWords
<1>5. \E n : \/ start_end_adresse(r, ins) = arm_write_register(r, n, val)
             \/ start_end_adresse(r, ins) = arm_write_register(r, n, plus(val, size))
             \/ start_end_adresse(r, ins) = arm_write_register(r, n, minus(val, size))
  BY DEF start_end_adresse, val, size
<1> QED BY <1>3, <1>4, <1>5, WriteTyped

\* the registers that it loads, in an unchanged mode,
LEMMA LoadAllTyped ==
  ASSUME NEW r \in registers_data, NEW list \in SUBSET Reg,
         NEW f, \A n \in list : f[n] \in Word
  PROVE  /\ load_all(r, list, f) \in registers_data
         /\ load_all(r, list, f).current_mode = r.current_mode
<1> DEFINE w == load_all(r, list, f)
           mode == registers_get_mode(r)
           high == IF mode \in Modes THEN list ELSE {}
           pc == IF 15 \in list THEN clear_bit_0(f[15]) ELSE r.pc
           lo == [n \in LowRegs |-> IF n \in list THEN f[n] ELSE r.tab_r0_r7[n]]
           mid == [n \in MidRegs |-> [k \in 0..1 |->
                     IF n \in list /\ k = r8_r12_bank(mode)
                     THEN f[n] ELSE r.tab_r8_r12[n][k]]]
           hi == [n \in HighRegs |-> [k \in 0..5 |->
                    IF n \in high /\ k = r13_r14_bank(mode)
                    THEN f[n] ELSE r.tab_r13_r14[n][k]]]
<1>1. /\ r.pc \in Word
      /\ r.tab_r0_r7 \in [LowRegs -> Word]
      /\ r.tab_r8_r12 \in [MidRegs -> [0..1 -> Word]]
      /\ r.tab_r13_r14 \in [HighRegs -> [0..5 -> Word]]
  BY DEF registers_data
<1>2. \A x \in Word : clear_bit_0(x) \in Word
  BY RegistersAssumption DEF clear_bit_0, Word
<1>3. pc \in Word BY <1>1, <1>2
<1>4. lo \in [LowRegs -> Word] BY <1>1
<1>5. mid \in [MidRegs -> [0..1 -> Word]]
  <2>1. \A n \in MidRegs, k \in 0..1 :
          (IF n \in list /\ k = r8_r12_bank(mode) THEN f[n]
           ELSE r.tab_r8_r12[n][k]) \in Word
    BY <1>1
  <2> QED BY <2>1
<1>6. hi \in [HighRegs -> [0..5 -> Word]]
  <2>1. \A n \in HighRegs, k \in 0..5 :
          (IF n \in high /\ k = r13_r14_bank(mode) THEN f[n]
           ELSE r.tab_r13_r14[n][k]) \in Word
    BY <1>1
  <2> QED BY <2>1
<1>7. w = [r EXCEPT !.pc = pc, !.tab_r0_r7 = lo, !.tab_r8_r12 = mid,
                    !.tab_r13_r14 = hi]
  BY DEF load_all
<1> HIDE DEF pc, lo, mid, hi, w
<1>8. w \in registers_data /\ w.current_mode = r.current_mode
  BY <1>3, <1>4, <1>5, <1>6, <1>7 DEF registers_data
<1> QED BY <1>8 DEF w

\* and the multiple transfers.
LEMMA MultipleTyped ==
  ASSUME NEW r \in registers_data, NEW ins, ins.list \in SUBSET Reg,
         NEW f, \A n \in ins.list : f[n] \in Word,
         NEW o \in ldm(r, ins, f) \cup stm(r, ins)
  PROVE  Typed(o)
<1> DEFINE w == start_end_adresse(r, ins)
<1>1. w \in registers_data BY BaseTyped
<1> HIDE DEF w
<1>2. load_all(w, ins.list, f) \in registers_data BY <1>1, LoadAllTyped
<1>3. \E x \in {0, Aborted} :
        o = Outcome(w, 0) \/ o = Outcome(load_all(w, ins.list, f), x)
  BY DEF ldm, stm, w
<1> QED BY <1>1, <1>2, <1>3 DEF Typed, Outcome, Aborted

\* Whatever the instruction (arm_instruction.c:98).
LEMMA ExecuteTyped ==
  ASSUME NEW r \in registers_data, NEW ins \in Instr,
         NEW o \in arm_execute_instruction(r, ins)
  PROVE  Typed(o)
<1>1. Values \subseteq Word BY InstructionAssumption
<1>2. \A x \in {INTERRUPT, UNDEFINED_INSTRUCTION, SOFTWARE_INTERRUPT} :
        Typed(Outcome(r, x))
  BY DEF Typed, Outcome, INTERRUPT, UNDEFINED_INSTRUCTION, SOFTWARE_INTERRUPT
<1>3. CASE o \in {Outcome(r, INTERRUPT), Outcome(r, UNDEFINED_INSTRUCTION)}
  BY <1>2, <1>3
<1>4. CASE \E v \in Values : o \in alu(r, ins.rd, ins.S, v)
  BY <1>1, <1>4, AluTyped
<1>5. CASE \E v \in Values \X Values : o \in adc(r, ins.rd, ins.S, v[1], v[2])
  BY <1>1, <1>5, AdcTyped
<1>6. CASE \E v \in Values : o \in test(r, v) BY <1>6, TestTyped
<1>7. CASE \E v \in Values : o \in teq(r, ins.rd, v) BY <1>1, <1>7, TeqTyped
<1>8. CASE ins.op = "msr" /\ o \in arm_data_processing_immediate_msr(r, ins)
  BY <1>8, MsrTyped DEF Instr
<1>9. CASE \E v \in Values : o \in arm_miscellaneous(r, ins.R, ins.rd, v)
  BY <1>1, <1>9, MiscellaneousTyped
<1>10. CASE ins.op = "b" /\ o \in b(r, ins.link, ins.offset)
  BY <1>10, BranchTyped DEF Instr
<1>11. CASE ins.op = "bx" /\ o \in bx(r, ins.link, ins.rm)
  BY <1>11, SumsAreWords, BranchTyped
<1>12. CASE \E v \in Values \X Values : o \in ldr(r, ins, v[1], v[2])
  BY <1>1, <1>12, LoadStoreTyped
<1>13. CASE \E v \in Values : o \in str(r, ins, v) BY <1>1, <1>13, LoadStoreTyped
<1>14. CASE /\ ins.op = "ldm"
            /\ \E f \in [ins.list -> Values] : o \in ldm(r, ins, f)
  <2>1. ins.list \in SUBSET Reg BY <1>14 DEF Instr
  <2>2. PICK f \in [ins.list -> Values] : o \in ldm(r, ins, f) BY <1>14
  <2>3. f \in [ins.list -> Word] BY <1>1, <2>2
  <2> QED BY <2>1, <2>2, <2>3, MultipleTyped
<1>15. CASE ins.op = "stm" /\ o \in stm(r, ins)
  <2>1. ins.list \in SUBSET Reg BY <1>15 DEF Instr
  <2>2. [n \in ins.list |-> 0] \in [ins.list -> Word] BY SumsAreWords
  <2> QED BY <1>15, <2>1, <2>2, MultipleTyped
<1>16. CASE o \in arm_coprocessor_others_swi(r, ins.bit24)
  BY <1>2, <1>16 DEF arm_coprocessor_others_swi
<1> QED
  BY <1>3, <1>4, <1>5, <1>6, <1>7, <1>8, <1>9, <1>10, <1>11, <1>12, <1>13,
     <1>14, <1>15, <1>16 DEF arm_execute_instruction

-----------------------------------------------------------------------------
(* The step. *)

\* The instruction and its exception, after the fetch (arm_instruction.c:184).
LEMMA AfterFetchTyped ==
  ASSUME NEW r \in registers_data, NEW pc, NEW ins \in Instr,
         NEW o \in after_fetch(r, pc, ins)
  PROVE  Typed(o)
<1>1. PICK p \in arm_execute_instruction(r, ins) :
        o \in IF p.result \in {0, Aborted} THEN {p}
              ELSE {arm_exception(p.reg, p.result, swi) : swi \in reread(pc, ins)}
  BY DEF after_fetch
<1>2. Typed(p) BY ExecuteTyped
<1>3. CASE p.result \in {0, Aborted} BY <1>1, <1>2, <1>3
<1>4. CASE p.result \notin {0, Aborted}
  <2>1. PICK swi : o = arm_exception(p.reg, p.result, swi) BY <1>1, <1>4
  <2>2. p.reg \in registers_data /\ p.result \in 0..255
    BY <1>2, <1>4 DEF Typed, Aborted
  <2> QED BY <2>1, <2>2, ExceptionTyped
<1> QED BY <1>3, <1>4

\* A fetch that fails enters an exception.
LEMMA FetchFailsTyped ==
  ASSUME NEW r \in registers_data
  PROVE  Typed(fetch_fails(r))
BY ExceptionTyped DEF fetch_fails, PREFETCH_ABORT

\* What arm_create leaves is a well-formed register file.
LEMMA CreateTyped == arm_create(registers_create) \in registers_data
<1>1. registers_create \in registers_data
  BY RegistersAssumption DEF registers_create, registers_data, Modes
<1>2. arm_exception(registers_create, RESET, "other").reg \in registers_data
  <2>1. RESET \in 0..255 BY DEF RESET
  <2>2. Typed(arm_exception(registers_create, RESET, "other"))
    BY <1>1, <2>1, ExceptionTyped
  <2> QED BY <2>2 DEF Typed
<1> QED BY <1>2, WriteTyped, StepAssumption DEF arm_create

\* The debugger, between the two halves of a step, sees the pc the fetch
\* started from: the advance can be undone.
LEMMA FetchUndone ==
  ASSUME NEW r \in registers_data
  PROVE  /\ arm_fetch(r) \in registers_data
         /\ [arm_fetch(r) EXCEPT !.pc = minus(@, 4)] = r
         /\ [r EXCEPT !.pc = minus(@, 4)] \in registers_data
         /\ arm_fetch([r EXCEPT !.pc = minus(@, 4)]) = r
<1>1. r.pc \in Word BY DEF registers_data
<1>2. plus(r.pc, 4) \in Word /\ minus(r.pc, 4) \in Word BY <1>1, SumsAreWords
<1>3. UINT32_MAX \in Nat /\ UINT32_MAX >= 28
  BY RegistersAssumption, ExceptionAssumption
<1>4. \A m \in Nat : \A a \in 0..m :
        m >= 28 => /\ (((a + 4) % (m + 1)) + (m + 1) - 4) % (m + 1) = a
                   /\ (((a + (m + 1) - 4) % (m + 1)) + 4) % (m + 1) = a
  <2> SUFFICES ASSUME NEW m \in Nat, NEW a \in 0..m, m >= 28
               PROVE  /\ (((a + 4) % (m + 1)) + (m + 1) - 4) % (m + 1) = a
                      /\ (((a + (m + 1) - 4) % (m + 1)) + 4) % (m + 1) = a
    OBVIOUS
  <2> DEFINE k == m + 1
  <2>1. k \in Nat /\ k > 28 /\ a \in Nat /\ a < k OBVIOUS
  <2> HIDE DEF k
  <2>2. \A x \in Nat : x < k => x % k = x BY <2>1
  <2>3. \A x \in Nat : k <= x /\ x < 2 * k => x % k = x - k
    <3> SUFFICES ASSUME NEW x \in Nat, k <= x, x < 2 * k PROVE x % k = x - k
      OBVIOUS
    <3>1. x = k * 1 + (x - k) /\ 0 <= x - k /\ x - k < k BY <2>1
    <3> QED BY <2>1, <3>1
  <2>4. (((a + 4) % k) + k - 4) % k = a
    <3>1. CASE a + 4 < k BY <2>1, <2>2, <2>3, <3>1
    <3>2. CASE a + 4 >= k BY <2>1, <2>2, <2>3, <3>2
    <3> QED BY <2>1, <3>1, <3>2
  <2>5. (((a + k - 4) % k) + 4) % k = a
    <3>1. CASE a < 4 BY <2>1, <2>2, <2>3, <3>1
    <3>2. CASE a >= 4 BY <2>1, <2>2, <2>3, <3>2
    <3> QED BY <2>1, <3>1, <3>2
  <2> QED BY <2>4, <2>5 DEF k
<1>5. minus(plus(r.pc, 4), 4) = r.pc /\ plus(minus(r.pc, 4), 4) = r.pc
  BY <1>1, <1>3, <1>4 DEF plus, minus, Word
<1> QED BY <1>2, <1>5 DEF arm_fetch, registers_data
=============================================================================
