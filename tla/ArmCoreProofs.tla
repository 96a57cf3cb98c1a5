---------------------------- MODULE ArmCoreProofs ----------------------------
(***************************************************************************)
(* For every memory content, word size and sequence of interrupts: the     *)
(* core keeps its registers well formed, stays privileged with interrupts  *)
(* masked, and an interrupt disturbs no mode but the interrupted one and   *)
(* the one it enters.                                                      *)
(***************************************************************************)
EXTENDS ArmCore, RegisterFile, ArmStepProofs

\* A register file the core can have between two of its operations.
Good(r) == r \in registers_data /\ Sound(r)

\* What every instruction leaves: a good file, and a result of the decoder.
Kept(o) == Good(o.reg) /\ o.result \in 0..256

-----------------------------------------------------------------------------
(* The accessors. *)

\* Writing a general register, in whichever mode, keeps a good file good.
LEMMA WriteGood ==
  ASSUME NEW r, Good(r), NEW n, NEW v \in Word
  PROVE  /\ Good(arm_write_register(r, n, v))
         /\ arm_write_register(r, n, v).cpsr = r.cpsr
         /\ arm_write_register(r, n, v).current_mode = r.current_mode
<1> DEFINE w == arm_write_register(r, n, v)
<1>1. /\ w \in registers_data
      /\ w.cpsr = r.cpsr /\ w.spsr = r.spsr
      /\ w.current_mode = r.current_mode
  BY WriteKeepsType DEF Good, arm_write_register
<1> HIDE DEF w
<1>2. Sound(w)
  BY <1>1 DEF Good, Sound, ModeTracksCpsr, SavedMasked, registers_read_spsr
<1> QED BY <1>1, <1>2 DEF Good, w

\* Writing a masked status word to the cpsr keeps a good file good.
LEMMA WriteCpsrGood ==
  ASSUME NEW r, Good(r), NEW psr \in Psr, Masked(psr)
  PROVE  /\ Good(registers_write_cpsr(r, psr))
         /\ registers_write_cpsr(r, psr).current_mode = mode_update(psr)
<1> DEFINE w == registers_write_cpsr(r, psr)
<1>1. /\ w \in registers_data
      /\ w.cpsr = psr /\ w.spsr = r.spsr
      /\ w.current_mode = mode_update(psr)
  BY WriteCpsrKeepsType DEF Good
<1> HIDE DEF w
<1>2. Sound(w)
  BY <1>1 DEF Good, Sound, ModeTracksCpsr, SavedMasked, registers_read_spsr
<1> QED BY <1>1, <1>2 DEF Good, w

\* Saving a masked status word of the current mode, or of none.
LEMMA SaveGood ==
  ASSUME NEW r, Good(r), NEW psr \in Psr, Masked(psr)
  PROVE  /\ Good(arm_write_spsr(r, psr))
         /\ arm_write_spsr(r, psr).cpsr = r.cpsr
         /\ arm_write_spsr(r, psr).current_mode = r.current_mode
<1> DEFINE w == arm_write_spsr(r, psr)
           mode == r.current_mode
<1>1. /\ w \in registers_data
      /\ w.cpsr = r.cpsr /\ w.current_mode = r.current_mode
      /\ \A m : registers_read_spsr(w, m) =
           IF m = mode /\ registers_mode_has_spsr(mode)
           THEN psr ELSE registers_read_spsr(r, m)
  BY WriteSpsrSaves DEF Good, arm_write_spsr, registers_get_mode
<1> HIDE DEF w
<1>2. SavedMasked(w)
  BY <1>1 DEF Good, Sound, SavedMasked
<1>3. ModeTracksCpsr(w) /\ Masked(w.cpsr)
  BY <1>1 DEF Good, Sound, ModeTracksCpsr
<1> QED BY <1>1, <1>2, <1>3 DEF Good, Sound, w

-----------------------------------------------------------------------------
(* Exceptions. *)

\* The common part of the five entries (arm_exception.c:99): the old cpsr is
\* saved masked and the new one is masked, in the mode of the exception.
LEMMA EnterGood ==
  ASSUME NEW r, Good(r), NEW link \in Word, NEW vector \in Word,
         NEW mode \in {FIQ, IRQ, SVC, ABT, UND}, NEW bit6 \in BOOLEAN
  PROVE  Good(enter(r, link, mode, bit6, vector))
<1> DEFINE l == arm_write_register(r, 14, link)
           saved == arm_write_spsr(l, l.cpsr)
           masks == IF bit6 THEN {"F", "I", "A"} ELSE {"I", "A"}
           psr == [M |-> mode,
                   bits |-> (l.cpsr.bits \ {"T", "E"}) \cup (masks \cap PsrBits)]
           e == registers_write_cpsr(saved, psr)
<1>1. Good(l) BY WriteGood
<1> HIDE DEF l
<1>2. l.cpsr \in Psr /\ Masked(l.cpsr)
  BY <1>1 DEF Good, Sound, registers_data
<1>3. Good(saved) BY <1>1, <1>2, SaveGood
<1>4. psr \in Psr
  BY <1>2 DEF Psr, FIQ, IRQ, SVC, ABT, UND
<1>5. Masked(psr)
  <2>1. {"I", "A"} \subseteq psr.bits BY ExceptionAssumption
  <2>2. {"T", "E"} \cap psr.bits = {} OBVIOUS
  <2>3. psr.M \notin {USR, SYS} BY DEF USR, SYS, FIQ, IRQ, SVC, ABT, UND
  <2> QED BY <2>1, <2>2, <2>3 DEF Masked
<1>6. mode_update(psr) = mode BY DEF mode_update, Modes
<1> HIDE DEF saved, psr
<1>7. Good(e)
  BY <1>3, <1>4, <1>5, <1>6, WriteCpsrGood
<1>8. enter(r, link, mode, bit6, vector) = arm_write_register(e, 15, vector)
  BY DEF enter, set_exception_cpsr, e, saved, psr, l
<1> QED BY <1>7, <1>8, WriteGood

\* Every exception number leaves a good file good (arm_exception.c:38).
LEMMA ExceptionGood ==
  ASSUME NEW r, Good(r), NEW e \in 0..255, NEW swi
  PROVE  LET o == arm_exception(r, e, swi)
         IN  Good(o.reg) /\ o.result \in 0..255
<1> DEFINE o == arm_exception(r, e, swi)
<1>1. arm_read_register(r, 15) \in Word BY CoreReadIsWord DEF Good
<1>2. \A a \in Word : minus(a, 4) \in Word /\ plus(a, 4) \in Word
                      /\ plus(a, 8) \in Word
  <2> TAKE a \in Word
  <2>1. a \in Nat /\ 4 \in Word /\ 16 \in Word
    BY RegistersAssumption, ExceptionAssumption DEF Word
  <2>2. 8 \in Word BY ExceptionAssumption, RegistersAssumption DEF Word
  <2> QED BY <2>1, <2>2, WrapAround
<1> DEFINE masks == {"F", "I", "A"} \cap PsrBits
           psr == [M |-> SVC, bits |-> masks]
           w == registers_write_cpsr(r, psr)
<1>3. Good(reset(r))
  <2>1. psr \in Psr BY DEF Psr, SVC
  <2>2. Masked(psr)
    BY ExceptionAssumption DEF Masked, SVC, USR, SYS
  <2>4. Good(w)
    <3> HIDE DEF psr
    <3> QED BY <2>1, <2>2, WriteCpsrGood
  <2>5. 0 \in Word BY RegistersAssumption DEF Word
  <2>6. reset(r) = arm_write_register(w, 15, 0) BY DEF reset
  <2> HIDE DEF w
  <2> QED BY <2>4, <2>5, <2>6, WriteGood
<1> HIDE DEF w, psr, masks, o
<1>vectors. {4, 12, 16, 24, 28} \subseteq Word
  BY RegistersAssumption, ExceptionAssumption DEF Word
<1>entry. \A link \in Word, vector \in Word, mode \in {FIQ, IRQ, SVC, ABT, UND},
        bit6 \in BOOLEAN : Good(enter(r, link, mode, bit6, vector))
  BY EnterGood
<1> DEFINE pc == arm_read_register(r, 15)
<1>links. /\ plus(minus(pc, 4), 8) \in Word /\ plus(minus(pc, 4), 4) \in Word
      /\ plus(pc, 4) \in Word
  <2> HIDE DEF pc
  <2> QED BY <1>1, <1>2 DEF pc
<1>4. Good(data_abort(r))
  BY <1>vectors, <1>entry, <1>links, Zenon DEF data_abort
<1>5. Good(unterrupt(r))
  BY <1>vectors, <1>entry, <1>links, Zenon DEF unterrupt
<1>6. Good(undefined_unstruction(r))
  BY <1>vectors, <1>entry, <1>1, Zenon DEF undefined_unstruction
<1>7. Good(fetch_abort(r))
  BY <1>vectors, <1>entry, <1>links, Zenon DEF fetch_abort
<1>8. Good(fast_interrupt_request(r))
  BY <1>vectors, <1>entry, <1>links, Zenon DEF fast_interrupt_request
<1>9. \/ o.reg = r /\ o.result \in 0..255
      \/ o.reg = reset(r) /\ o.result = RESET
      \/ o.reg = data_abort(r) /\ o.result = DATA_ABORT
      \/ o.reg = unterrupt(r) /\ o.result = INTERRUPT
      \/ o.reg = undefined_unstruction(r) /\ o.result = UNDEFINED_INSTRUCTION
      \/ o.reg = fetch_abort(r) /\ o.result = PREFETCH_ABORT
      \/ o.reg = fast_interrupt_request(r) /\ o.result = FAST_INTERRUPT
  BY DEF o, arm_exception, Outcome, RESET, DATA_ABORT, FAST_INTERRUPT, INTERRUPT,
         PREFETCH_ABORT, UNDEFINED_INSTRUCTION, SOFTWARE_INTERRUPT,
         END_SIMULATION
<1>10. {RESET, DATA_ABORT, FAST_INTERRUPT, INTERRUPT, PREFETCH_ABORT,
        UNDEFINED_INSTRUCTION} \subseteq 0..255
  BY DEF RESET, DATA_ABORT, FAST_INTERRUPT, INTERRUPT, PREFETCH_ABORT,
         UNDEFINED_INSTRUCTION
<1>11. Good(o.reg) /\ o.result \in 0..255
  BY <1>3, <1>4, <1>5, <1>6, <1>7, <1>8, <1>9, <1>10
<1> QED BY <1>11 DEF o

-----------------------------------------------------------------------------
(* Instructions. *)

\* The flags of a result only move N, Z, C and V.
LEMMA SetFlagsGood ==
  ASSUME NEW r, Good(r), NEW f \in SUBSET Flags
  PROVE  /\ Good(set_flags(r, f))
         /\ set_flags(r, f).current_mode = r.current_mode
<1> DEFINE psr == [r.cpsr EXCEPT !.bits = (@ \ Flags) \cup f]
<1>1. r.cpsr \in Psr /\ Masked(r.cpsr) /\ r.current_mode = mode_update(r.cpsr)
  BY DEF Good, Sound, ModeTracksCpsr, registers_data
<1>2. psr \in Psr /\ psr.M = r.cpsr.M BY <1>1 DEF Psr, Flags
<1>3. Masked(psr)
  <2>1. \A x \in {"I", "A", "T", "E"} : x \in psr.bits <=> x \in r.cpsr.bits
    BY <1>1 DEF Psr, Flags
  <2> HIDE DEF psr
  <2>2. SUFFICES ASSUME psr.M \in Modes
                 PROVE  /\ psr.M \notin {USR, SYS}
                        /\ {"I", "A"} \subseteq psr.bits
                        /\ {"T", "E"} \cap psr.bits = {}
    BY DEF Masked
  <2>3. /\ r.cpsr.M \notin {USR, SYS}
        /\ {"I", "A"} \subseteq r.cpsr.bits
        /\ {"T", "E"} \cap r.cpsr.bits = {}
    BY <1>1, <1>2, <2>2 DEF Masked
  <2> QED BY <1>2, <2>1, <2>3
<1>4. mode_update(psr) = r.current_mode BY <1>1, <1>2 DEF mode_update
<1> HIDE DEF psr
<1> QED BY <1>2, <1>3, <1>4, WriteCpsrGood DEF set_flags, psr

\* Taking the saved status register of the current mode back into the cpsr
\* (arm_data_processing.c:39) brings back a masked one.
LEMMA RestoreKept ==
  ASSUME NEW r, Good(r), registers_current_mode_has_spsr(r)
  PROVE  Kept(Outcome(registers_write_cpsr(r, arm_read_spsr(r)), 0))
<1> DEFINE psr == arm_read_spsr(r)
<1>1. psr \in Psr BY ReadSpsrIsPsr DEF Good, arm_read_spsr
<1>2. Masked(psr)
  BY DEF Good, Sound, SavedMasked, arm_read_spsr, registers_get_mode,
         registers_current_mode_has_spsr, registers_mode_has_spsr
<1> HIDE DEF psr
<1>3. Good(registers_write_cpsr(r, psr)) BY <1>1, <1>2, WriteCpsrGood
<1> QED BY <1>3 DEF Kept, Outcome, psr

\* A data processing operation that writes rd (arm_data_processing.c:108).
LEMMA AluKept ==
  ASSUME NEW r, Good(r), NEW rd, NEW S, NEW v \in Word,
         NEW o \in alu(r, rd, S, v)
  PROVE  Kept(o)
<1> DEFINE w == arm_write_register(r, rd, v)
<1>1. Good(w) /\ w.current_mode = r.current_mode BY WriteGood
<1> HIDE DEF w
<1>2. \/ o = Outcome(w, 0)
      \/ \E f \in flags_of(v) : o = Outcome(set_flags(w, f), 0)
      \/ /\ registers_current_mode_has_spsr(w)
         /\ o = Outcome(registers_write_cpsr(w, arm_read_spsr(w)), 0)
      \/ o = Outcome(w, UNDEFINED_INSTRUCTION)
  BY Zenon DEF alu, w
<1>3. CASE o = Outcome(w, 0) \/ o = Outcome(w, UNDEFINED_INSTRUCTION)
  BY <1>1, <1>3 DEF Kept, Outcome, UNDEFINED_INSTRUCTION
<1>4. CASE \E f \in flags_of(v) : o = Outcome(set_flags(w, f), 0)
  <2>1. PICK f \in SUBSET Flags : o = Outcome(set_flags(w, f), 0)
    BY <1>4 DEF flags_of
  <2> QED BY <1>1, <2>1, SetFlagsGood DEF Kept, Outcome
<1>5. CASE /\ registers_current_mode_has_spsr(w)
           /\ o = Outcome(registers_write_cpsr(w, arm_read_spsr(w)), 0)
  BY <1>1, <1>5, RestoreKept DEF Kept
<1> QED BY <1>2, <1>3, <1>4, <1>5

\* adc, whose carry is added by a second addition, keeps the core sound.
LEMMA AdcKept ==
  ASSUME NEW r, Good(r), NEW rd, NEW S, NEW v \in Word, NEW w \in Word,
         NEW o \in adc(r, rd, S, v, w)
  PROVE  Kept(o)
<1>1. PICK first \in alu(r, rd, S, v) :
        o \in IF first.result = 0 THEN alu(first.reg, rd, S, w) ELSE {first}
  BY DEF adc
<1>2. Kept(first) BY AluKept
<1>3. CASE first.result = 0
  <2>1. o \in alu(first.reg, rd, S, w) BY <1>1, <1>3
  <2>2. Kept(o) BY <1>2, <2>1, AluKept DEF Kept
  <2> QED BY <2>2
<1>4. CASE first.result # 0 BY <1>1, <1>2, <1>4
<1> QED BY <1>3, <1>4

\* A test changes flags only.
LEMMA TestKept ==
  ASSUME NEW r, Good(r), NEW v, NEW o \in test(r, v)
  PROVE  Kept(o)
<1>1. PICK f \in SUBSET Flags : o = Outcome(set_flags(r, f), 0)
  BY DEF test, flags_of
<1> QED BY <1>1, SetFlagsGood DEF Kept, Outcome

\* teq writes rd like an operation and then sets the flags of a test.
LEMMA TeqKept ==
  ASSUME NEW r, Good(r), NEW rd, NEW v \in Word, NEW o \in teq(r, rd, v)
  PROVE  Kept(o)
<1>1. PICK p \in alu(r, rd, TRUE, v) : o \in test(p.reg, p.result) BY DEF teq
<1>2. Kept(p) BY AluKept
<1>3. Kept(o) BY <1>1, <1>2, TestKept DEF Kept
<1> QED BY <1>3

\* MSR can only write a status word that names no mode, in the cpsr as in a
\* saved status register (arm_data_processing.c:324).
LEMMA MsrKept ==
  ASSUME NEW r, Good(r), NEW ins, ins.operand \in Psr,
         NEW o \in arm_data_processing_immediate_msr(r, ins)
  PROVE  Kept(o)
<1> DEFINE low(psr) == [M |-> psr.M % 2, bits |-> {}]
           cpsr == IF ins.field THEN [M |-> 0, bits |-> {}] ELSE low(r.cpsr)
           spsr == IF ins.field
                   THEN [M |-> ins.operand.M % 16,
                         bits |-> ins.operand.bits \cap {"T"}]
                   ELSE low(arm_read_spsr(r))
<1>1. r.cpsr \in Psr /\ arm_read_spsr(r) \in Psr
  BY ReadSpsrIsPsr DEF Good, registers_data, arm_read_spsr
<1>2. \A m \in 0..31 : m % 2 \in 0..1 /\ m % 16 \in 0..15 OBVIOUS
<1>3. cpsr \in Psr /\ cpsr.M \in 0..15 BY <1>1, <1>2 DEF Psr
<1>4. spsr \in Psr /\ spsr.M \in 0..15 BY <1>1, <1>2 DEF Psr
<1>5. \A m \in 0..15 : m \notin Modes
  BY DEF Modes, USR, FIQ, IRQ, SVC, ABT, UND, SYS
<1>6. \/ o = Outcome(r, UNDEFINED_INSTRUCTION)
      \/ o = Outcome(arm_write_spsr(r, spsr), DATA_ABORT)
      \/ o = Outcome(registers_write_cpsr(r, cpsr), DATA_ABORT)
  BY DEF arm_data_processing_immediate_msr
<1> HIDE DEF cpsr, spsr
<1>7. CASE o = Outcome(r, UNDEFINED_INSTRUCTION)
  BY <1>7 DEF Kept, Outcome, UNDEFINED_INSTRUCTION
<1>8. CASE o = Outcome(arm_write_spsr(r, spsr), DATA_ABORT)
  <2>1. Masked(spsr) BY <1>4, <1>5 DEF Masked
  <2> QED BY <1>4, <1>5, <1>8, <2>1, SaveGood DEF Kept, Outcome, DATA_ABORT
<1>9. CASE o = Outcome(registers_write_cpsr(r, cpsr), DATA_ABORT)
  <2>1. Masked(cpsr) BY <1>3, <1>5 DEF Masked
  <2> QED BY <1>3, <1>9, <2>1, WriteCpsrGood DEF Kept, Outcome, DATA_ABORT
<1> QED BY <1>6, <1>7, <1>8, <1>9

\* Every operation that only writes general registers keeps a file good.
LEMMA WriteKept ==
  ASSUME NEW r, Good(r), NEW n, NEW v \in Word, NEW x \in 0..256
  PROVE  Kept(Outcome(arm_write_register(r, n, v), x))
BY WriteGood DEF Kept, Outcome

\* The addresses branches, links and write-backs compute are words.
LEMMA AddressIsWord ==
  ASSUME NEW r, Good(r), NEW n
  PROVE  /\ arm_read_register(r, n) \in Word
         /\ clear_bit_0(arm_read_register(r, n)) \in Word
         /\ \A a \in Word : /\ plus(arm_read_register(r, n), a) \in Word
                            /\ minus(arm_read_register(r, n), a) \in Word
         /\ minus(arm_read_register(r, n), 4) \in Word
<1>1. arm_read_register(r, n) \in Word BY CoreReadIsWord DEF Good
<1> DEFINE w == arm_read_register(r, n)
<1> HIDE DEF w
<1>2. w \in Word /\ w \in Nat BY <1>1, RegistersAssumption DEF w, Word
<1>3. clear_bit_0(w) \in Word
  BY <1>2, RegistersAssumption DEF clear_bit_0, Word
<1>4. 4 \in Word BY RegistersAssumption, ExceptionAssumption DEF Word
<1> QED BY <1>2, <1>3, <1>4, WrapAround DEF w

\* A branch writes the pc, and the link register if it links.
LEMMA BranchKept ==
  ASSUME NEW r, Good(r), NEW link, NEW offset \in Word, NEW rm,
         NEW o \in b(r, link, offset) \cup bx(r, link, rm)
  PROVE  Kept(o)
<1> DEFINE l == IF link
                THEN arm_write_register(r, 14, minus(arm_read_register(r, 15), 4))
                ELSE r
<1>1. Good(l) /\ l.current_mode = r.current_mode BY AddressIsWord, WriteGood
<1> HIDE DEF l
<1>2. \E v \in Word : o = Outcome(arm_write_register(l, 15, v), 0)
  BY <1>1, AddressIsWord DEF b, bx, l
<1>3. Kept(o) BY <1>1, <1>2, WriteKept
<1> QED BY <1>1, <1>3 DEF Kept

\* Reading a status register into rd keeps the core sound.
LEMMA MiscellaneousKept ==
  ASSUME NEW r, Good(r), NEW R, NEW rd, NEW v \in Word,
         NEW o \in arm_miscellaneous(r, R, rd, v)
  PROVE  Kept(o)
<1>1. \/ o = Outcome(r, UNDEFINED_INSTRUCTION)
      \/ o = Outcome(arm_write_register(r, rd, v), 0)
  BY DEF arm_miscellaneous
<1>2. Kept(Outcome(r, UNDEFINED_INSTRUCTION))
  BY DEF Kept, Outcome, UNDEFINED_INSTRUCTION
<1> QED BY <1>1, <1>2, WriteKept

\* A load or store moves its base and writes a register at most.
LEMMA LoadStoreKept ==
  ASSUME NEW r, Good(r), NEW ins, NEW a \in Word, NEW v \in Word,
         NEW o \in ldr(r, ins, a, v) \cup str(r, ins, a)
  PROVE  Kept(o)
<1> DEFINE w == write_back(r, ins.rn, ins.wb, a)
<1>1. Good(w) /\ w.current_mode = r.current_mode BY WriteGood DEF write_back
<1> HIDE DEF w
<1>2. \/ \E code \in {AccessFailed, 0, Aborted} : o = Outcome(w, code)
      \/ o = Outcome(arm_write_register(w, ins.rd, v), 0)
  BY DEF ldr, str, w
<1>3. \A code \in {AccessFailed, 0, Aborted} : Kept(Outcome(w, code))
  BY <1>1 DEF Kept, Outcome, AccessFailed, Aborted
<1>4. Kept(o) BY <1>1, <1>2, <1>3, WriteKept
<1> QED BY <1>1, <1>4 DEF Kept

\* The write-back of a multiple transfer writes one word to one register
\* number, which may be beyond the last register (arm_load_store.c:249).
LEMMA BaseGood ==
  ASSUME NEW r, Good(r), NEW ins, ins.list \subseteq Reg
  PROVE  /\ Good(start_end_adresse(r, ins))
         /\ start_end_adresse(r, ins).current_mode = r.current_mode
<1> DEFINE val == arm_read_register(r, ins.rn)
           size == (4 * Cardinality(ins.list)) % (UINT32_MAX + 1)
<1>1. Cardinality(ins.list) \in Nat
  <2> DEFINE list == ins.list
  <2>0. list \subseteq 0..15 BY RegistersAssumption DEF Reg
  <2> HIDE DEF list
  <2>1. list \in SUBSET Nat /\ \A n \in list : n <= 15 BY <2>0
  <2>2. IsFiniteSet(list) BY <2>1, FS_BoundedSetOfNaturals
  <2> QED BY <2>2, FS_CardinalityType DEF list
<1>2. size \in Word
  <2> DEFINE m == UINT32_MAX + 1
  <2>1. \A x \in Nat : x % m \in 0..(m - 1) BY RegistersAssumption
  <2>2. m - 1 = UINT32_MAX BY RegistersAssumption
  <2> QED BY <1>1, <2>1, <2>2 DEF Word
<1> HIDE DEF size
<1>3. val \in Word /\ plus(val, size) \in Word /\ minus(val, size) \in Word
  BY <1>2, AddressIsWord
<1> HIDE DEF val
<1>4. \E n : \E v \in Word :
        start_end_adresse(r, ins) = arm_write_register(r, n, v)
  <2>1. \E n : \/ start_end_adresse(r, ins) = arm_write_register(r, n, val)
               \/ start_end_adresse(r, ins)
                     = arm_write_register(r, n, plus(val, size))
               \/ start_end_adresse(r, ins)
                     = arm_write_register(r, n, minus(val, size))
    BY DEF start_end_adresse, val, size
  <2> QED BY <1>3, <2>1
<1> QED BY <1>4, WriteGood

\* The registers of a list may be loaded with any words.
LEMMA LoadAllGood ==
  ASSUME NEW r, Good(r), NEW list \in SUBSET Reg, NEW f \in [list -> Word]
  PROVE  /\ Good(load_all(r, list, f))
         /\ load_all(r, list, f).current_mode = r.current_mode
<1> DEFINE w == load_all(r, list, f)
<1>1. /\ r.pc \in Word
      /\ r.tab_r0_r7 \in [LowRegs -> Word]
      /\ r.tab_r8_r12 \in [MidRegs -> [0..1 -> Word]]
      /\ r.tab_r13_r14 \in [HighRegs -> [0..5 -> Word]]
  BY DEF Good, registers_data
<1>2. \A x \in Word : clear_bit_0(x) \in Word
  BY RegistersAssumption DEF clear_bit_0, Word
<1> DEFINE mode == registers_get_mode(r)
           high == IF mode \in Modes THEN list ELSE {}
           pc == IF 15 \in list THEN clear_bit_0(f[15]) ELSE r.pc
           lo == [n \in LowRegs |-> IF n \in list THEN f[n] ELSE r.tab_r0_r7[n]]
           mid == [n \in MidRegs |-> [k \in 0..1 |->
                     IF n \in list /\ k = r8_r12_bank(mode)
                     THEN f[n] ELSE r.tab_r8_r12[n][k]]]
           hi == [n \in HighRegs |-> [k \in 0..5 |->
                    IF n \in high /\ k = r13_r14_bank(mode)
                    THEN f[n] ELSE r.tab_r13_r14[n][k]]]
<1>3. pc \in Word BY <1>1, <1>2
<1>4. lo \in [LowRegs -> Word] BY <1>1
<1>5. mid \in [MidRegs -> [0..1 -> Word]]
  <2>1. \A n \in MidRegs, k \in 0..1 :
          (IF n \in list /\ k = r8_r12_bank(mode) THEN f[n]
           ELSE r.tab_r8_r12[n][k]) \in Word
    BY <1>1
  <2> QED BY <2>1
<1>6. hi \in [HighRegs -> [0..5 -> Word]]
  <2>1. \A n \in HighRegs, k \in 0..5 :
          (IF n \in high /\ k = r13_r14_bank(mode) THEN f[n]
           ELSE r.tab_r13_r14[n][k]) \in Word
    BY <1>1
  <2> QED BY <2>1
<1>7. w = [r EXCEPT !.pc = pc, !.tab_r0_r7 = lo, !.tab_r8_r12 = mid,
                    !.tab_r13_r14 = hi]
  BY DEF load_all
<1> HIDE DEF pc, lo, mid, hi, w
<1>8. /\ w \in registers_data
      /\ w.cpsr = r.cpsr /\ w.spsr = r.spsr
      /\ w.current_mode = r.current_mode
  BY <1>3, <1>4, <1>5, <1>6, <1>7 DEF Good, registers_data
<1>9. Sound(w)
  BY <1>8 DEF Good, Sound, ModeTracksCpsr, SavedMasked, registers_read_spsr
<1> QED BY <1>8, <1>9 DEF Good, w

\* A multiple transfer moves its base and loads registers at most.
LEMMA MultipleKept ==
  ASSUME NEW r, Good(r), NEW ins, ins.list \in SUBSET Reg,
         NEW f \in [ins.list -> Word], NEW o \in ldm(r, ins, f) \cup stm(r, ins)
  PROVE  Kept(o)
<1> DEFINE w == start_end_adresse(r, ins)
<1>1. Good(w) /\ w.current_mode = r.current_mode BY BaseGood
<1> HIDE DEF w
<1>2. /\ Good(load_all(w, ins.list, f))
      /\ load_all(w, ins.list, f).current_mode = w.current_mode
  BY <1>1, LoadAllGood
<1>3. \E x \in {0, Aborted} :
        o = Outcome(w, 0) \/ o = Outcome(load_all(w, ins.list, f), x)
  BY DEF ldm, stm, w
<1> QED BY <1>1, <1>2, <1>3 DEF Kept, Outcome, Aborted

\* Whatever the instruction: the dispatch keeps a good file good
\* (arm_instruction.c:98).
LEMMA ExecuteKept ==
  ASSUME NEW r, Good(r), NEW ins \in Instr,
         NEW o \in arm_execute_instruction(r, ins)
  PROVE  Kept(o)
<1>1. Values \subseteq Word BY InstructionAssumption
<1>2. \A x \in {INTERRUPT, UNDEFINED_INSTRUCTION, SOFTWARE_INTERRUPT} :
        Kept(Outcome(r, x))
  BY DEF Kept, Outcome, INTERRUPT, UNDEFINED_INSTRUCTION, SOFTWARE_INTERRUPT
<1>3. CASE o \in {Outcome(r, INTERRUPT), Outcome(r, UNDEFINED_INSTRUCTION)}
  BY <1>2, <1>3
<1>4. CASE \E v \in Values : o \in alu(r, ins.rd, ins.S, v)
  BY <1>1, <1>4, AluKept
<1>5. CASE \E v \in Values \X Values : o \in adc(r, ins.rd, ins.S, v[1], v[2])
  BY <1>1, <1>5, AdcKept
<1>6. CASE \E v \in Values : o \in test(r, v) BY <1>6, TestKept
<1>7. CASE \E v \in Values : o \in teq(r, ins.rd, v) BY <1>1, <1>7, TeqKept
<1>8. CASE ins.op = "msr" /\ o \in arm_data_processing_immediate_msr(r, ins)
  BY <1>8, MsrKept DEF Instr
<1>9. CASE \E v \in Values : o \in arm_miscellaneous(r, ins.R, ins.rd, v)
  BY <1>1, <1>9, MiscellaneousKept
<1>10. CASE ins.op = "b" /\ o \in b(r, ins.link, ins.offset)
  BY <1>10, BranchKept DEF Instr
<1>11. CASE ins.op = "bx" /\ o \in bx(r, ins.link, ins.rm)
  <2>1. 0 \in Word BY RegistersAssumption DEF Word
  <2> QED BY <1>11, <2>1, BranchKept
<1>12. CASE \E v \in Values \X Values : o \in ldr(r, ins, v[1], v[2])
  BY <1>1, <1>12, LoadStoreKept
<1>13. CASE \E v \in Values : o \in str(r, ins, v) BY <1>1, <1>13, LoadStoreKept
<1>14. CASE /\ ins.op = "ldm"
            /\ \E f \in [ins.list -> Values] : o \in ldm(r, ins, f)
  <2>1. ins.list \in SUBSET Reg BY <1>14 DEF Instr
  <2>2. PICK f \in [ins.list -> Values] : o \in ldm(r, ins, f) BY <1>14
  <2>3. f \in [ins.list -> Word] BY <1>1, <2>2
  <2> QED BY <2>1, <2>2, <2>3, MultipleKept
<1>15. CASE ins.op = "stm" /\ o \in stm(r, ins)
  <2>1. ins.list \in SUBSET Reg BY <1>15 DEF Instr
  <2>2. 0 \in Word BY RegistersAssumption DEF Word
  <2>3. [n \in ins.list |-> 0] \in [ins.list -> Word] BY <2>2
  <2> QED BY <1>15, <2>1, <2>3, MultipleKept
<1>16. CASE o \in arm_coprocessor_others_swi(r, ins.bit24)
  BY <1>2, <1>16 DEF arm_coprocessor_others_swi
<1> QED
  BY <1>3, <1>4, <1>5, <1>6, <1>7, <1>8, <1>9, <1>10, <1>11, <1>12, <1>13,
     <1>14, <1>15, <1>16 DEF arm_execute_instruction

-----------------------------------------------------------------------------
(* The processor. *)

\* The fetch only moves the pc (arm_core.c:177).
LEMMA FetchGood ==
  ASSUME NEW r, Good(r)
  PROVE  Good(arm_fetch(r))
<1>1. r.pc \in Word BY DEF Good, registers_data
<1>2. r.pc \in Nat /\ 4 \in Word
  BY <1>1, RegistersAssumption, ExceptionAssumption DEF Word
<1>3. plus(r.pc, 4) \in Word BY <1>2, WrapAround
<1>4. arm_fetch(r) = arm_write_register(r, 15, plus(r.pc, 4))
  BY DEF arm_fetch, arm_write_register, registers_write, LowRegs, MidRegs,
         HighRegs
<1> QED BY <1>3, <1>4, WriteGood

\* One arm_step, with the exception it may end with, keeps a good file good
\* (arm_instruction.c:184).
LEMMA StepGood ==
  ASSUME NEW r, Good(r), NEW ins \in Instr, NEW o \in arm_step(r, ins)
  PROVE  Good(o.reg) /\ o.result \in 0..256
<1> DEFINE q == arm_fetch(r)
<1>1. Good(q) BY FetchGood
<1> HIDE DEF q
<1>2. PICK p \in arm_execute_instruction(q, ins) :
        o \in IF p.result \in {0, Aborted} THEN {p}
              ELSE {arm_exception(p.reg, p.result, swi) :
                      swi \in reread(r.pc, ins)}
  BY DEF arm_step, after_fetch, q
<1>3. Kept(p) BY <1>1, ExecuteKept
<1>4. CASE p.result \in {0, Aborted}
  <2>1. o = p BY <1>2, <1>4
  <2> QED BY <1>1, <1>3, <2>1 DEF Kept
<1>5. CASE p.result \notin {0, Aborted}
  <2>1. PICK swi : o = arm_exception(p.reg, p.result, swi) BY <1>2, <1>5
  <2>2. p.result \in 0..255 BY <1>3, <1>5 DEF Kept, Aborted
  <2>3. Good(p.reg) BY <1>3 DEF Kept
  <2>4. Good(o.reg) /\ o.result \in 0..255
    BY <2>1, <2>2, <2>3, ExceptionGood
  <2> QED BY <1>1, <1>3, <2>4 DEF Kept
<1> QED BY <1>4, <1>5

\* The core as arm_create leaves it: in supervisor mode, its saved status
\* registers still holding what malloc left (arm_core.c:50).
LEMMA CreateGood == Good(arm_create(registers_create))
<1> DEFINE c == registers_create
           psr == [M |-> SVC, bits |-> {"F", "I", "A"} \cap PsrBits]
           w == registers_write_cpsr(c, psr)
<1>1. c \in registers_data
  BY RegistersAssumption DEF registers_create, registers_data, Modes
<1>2. psr \in Psr /\ Masked(psr) /\ mode_update(psr) = SVC
  BY ExceptionAssumption DEF Psr, Masked, mode_update, Modes, SVC, USR, SYS
<1> HIDE DEF psr
<1>3. /\ w \in registers_data
      /\ w.cpsr = psr /\ w.spsr = c.spsr /\ w.current_mode = SVC
  BY <1>1, <1>2, WriteCpsrKeepsType
<1>4. \A m \in {FIQ, IRQ, SVC, ABT, UND} : registers_read_spsr(w, m) = UninitPsr
  BY <1>3 DEF registers_create, registers_read_spsr, registers_mode_has_spsr,
              spsr_index
<1> HIDE DEF w, c
<1>5. Good(w)
  <2>1. SavedMasked(w)
    BY <1>4, CoreAssumption DEF SavedMasked, Masked
  <2> QED BY <1>2, <1>3, <2>1 DEF Good, Sound, ModeTracksCpsr
<1>6. 0 \in Word /\ MemSize \in Word
  BY RegistersAssumption, StepAssumption DEF Word
<1>7. arm_exception(c, RESET, "other").reg = arm_write_register(w, 15, 0)
  BY DEF arm_exception, reset, Outcome, RESET, DATA_ABORT, FAST_INTERRUPT,
         INTERRUPT, PREFETCH_ABORT, UNDEFINED_INSTRUCTION, SOFTWARE_INTERRUPT,
         w, psr
<1> DEFINE z == arm_write_register(w, 15, 0)
<1>8. Good(z) BY <1>5, <1>6, WriteGood
<1>9. arm_create(c) = arm_write_register(z, 13, MemSize)
  BY <1>7 DEF arm_create
<1> HIDE DEF z
<1> QED BY <1>6, <1>8, <1>9, WriteGood DEF c

\* Every step of the core, whoever takes it, leaves a good file.
LEMMA CoreStep ==
  ASSUME TypeOK, CoreInv, Next
  PROVE  TypeOK' /\ CoreInv'
<1>1. Good(reg) BY DEF TypeOK, CoreInv, Good
<1>2. CASE \E ins \in Instrs : Step(ins)
  <2>1. PICK ins \in Instrs : Step(ins) BY <1>2
  <2>2. ins \in Instr BY InstructionAssumption
  <2>3. PICK o \in arm_step(reg, ins) : Take(o) BY <2>1 DEF Step
  <2>4. Good(o.reg) /\ o.result \in 0..256
    BY <1>1, <2>2, StepGood
  <2>5. cycle_count' \in 0..MaxCycles /\ raised' \in 0..MaxRaised
    BY <2>1, CoreAssumption DEF Step, TypeOK
  <2> QED BY <2>3, <2>4, <2>5 DEF Take, Good, TypeOK, CoreInv
<1>3. CASE FetchAbort
  <2> DEFINE q == arm_fetch(reg)
             o == arm_exception(q, PREFETCH_ABORT, "other")
  <2>1. Good(q) BY <1>1, FetchGood
  <2> HIDE DEF q
  <2>2. PREFETCH_ABORT \in 0..255 BY DEF PREFETCH_ABORT
  <2>3. Good(o.reg) /\ o.result \in 0..255
    BY <2>1, <2>2, ExceptionGood
  <2> HIDE DEF o
  <2>4. Take(o) BY <1>3 DEF FetchAbort, fetch_fails, o, q
  <2>5. cycle_count' \in 0..MaxCycles /\ raised' \in 0..MaxRaised
    BY <1>3, CoreAssumption DEF FetchAbort, TypeOK
  <2> QED BY <2>1, <2>3, <2>4, <2>5 DEF Take, Good, TypeOK, CoreInv
<1>4. CASE \E e \in IrqBytes : Raise(e)
  <2>1. PICK e \in IrqBytes, swi \in SwiWords :
          Raise(e) /\ Take(arm_exception(reg, e, swi))
    BY <1>4 DEF Raise
  <2> DEFINE o == arm_exception(reg, e, swi)
  <2>2. e \in 0..255 BY CoreAssumption
  <2>3. Good(o.reg) /\ o.result \in 0..255
    BY <1>1, <2>2, ExceptionGood
  <2>4. cycle_count' \in 0..MaxCycles /\ raised' \in 0..MaxRaised
    BY <2>1, CoreAssumption DEF Raise, TypeOK
  <2>5. reg' = o.reg /\ result' = o.result BY <2>1 DEF Take
  <2> HIDE DEF o
  <2> QED BY <2>3, <2>4, <2>5 DEF Good, TypeOK, CoreInv
<1> QED BY <1>2, <1>3, <1>4 DEF Next

\* What arm_create leaves is sound.
LEMMA InitGood == Init => TypeOK /\ CoreInv
<1> SUFFICES ASSUME Init PROVE TypeOK /\ CoreInv OBVIOUS
<1>1. Good(reg) BY CreateGood DEF Init
<1>2. result = 0 /\ cycle_count = 0 /\ raised = 0 BY DEF Init
<1> QED BY <1>1, <1>2, CoreAssumption DEF Good, TypeOK, CoreInv

\* The inductive invariant: the well-formed file and its soundness together.
LEMMA CoreInductive == Spec => [](TypeOK /\ CoreInv)
<1>1. TypeOK /\ CoreInv /\ [Next]_vars => (TypeOK /\ CoreInv)'
  <2> SUFFICES ASSUME TypeOK, CoreInv, [Next]_vars PROVE TypeOK' /\ CoreInv'
    OBVIOUS
  <2>1. CASE Next BY <2>1, CoreStep
  <2>2. CASE UNCHANGED vars BY <2>2 DEF vars, TypeOK, CoreInv
  <2> QED BY <2>1, <2>2
<1> QED BY InitGood, <1>1, PTL DEF Spec

\* The core's variables keep their types: no instruction computes a register
\* that is not a word or a mode that is neither one of the seven nor 255.
THEOREM CoreTypeCorrect == Spec => []TypeOK
BY CoreInductive, PTL

\* The core always runs in a privileged mode with interrupts and aborts
\* masked, or in no mode, and so will it after any return from an exception.
THEOREM CoreAlwaysSound == Spec => []CoreInv
BY CoreInductive, PTL

-----------------------------------------------------------------------------
(* What an interrupt disturbs. *)

\* A write to r14 or to the pc is seen there only, and a write to r14 only in
\* the modes that share its bank (registers.c:132).
LEMMA WriteIsLocal ==
  ASSUME NEW r \in registers_data, NEW n \in {14, 15}, NEW mode, NEW v \in Word
  PROVE  LET w == registers_write(r, n, mode, v)
         IN  \A k \in RegNums, m \in Modes :
               /\ registers_read(w, k, m) # registers_read(r, k, m) =>
                    k = n /\ (n = 14 => r13_r14_bank(m) = r13_r14_bank(mode))
               /\ registers_read_spsr(w, m) = registers_read_spsr(r, m)
<1> DEFINE w == registers_write(r, n, mode, v)
<1>1. \A m : registers_read_spsr(w, m) = registers_read_spsr(r, m)
  BY WriteKeepsType DEF registers_read_spsr
<1>2. n \in RegNums BY RegistersAssumption
<1>3. \A k \in RegNums, m \in Modes :
        registers_read(w, k, m) =
          IF k = n /\ SamePlace(n, mode, m) THEN v ELSE registers_read(r, k, m)
  BY <1>2, WriteIsRead
<1>4. \A m : n = 14 /\ SamePlace(n, mode, m) => r13_r14_bank(m) = r13_r14_bank(mode)
  BY DEF SamePlace, LowRegs, MidRegs, HighRegs
<1> HIDE DEF w
<1> QED BY <1>1, <1>3, <1>4 DEF w

\* The common part of the five entries (arm_exception.c:99), for the exception
\* that enters the mode.
LEMMA EnterFramed ==
  ASSUME NEW r, Good(r), NEW link \in Word, NEW vector \in Word,
         NEW mode \in {FIQ, IRQ, SVC, ABT, UND}, NEW bit6 \in BOOLEAN,
         NEW exception
  PROVE  Frame(r, enter(r, link, mode, bit6, vector), exception)
<1> DEFINE l == arm_write_register(r, 14, link)
           saved == arm_write_spsr(l, l.cpsr)
           masks == IF bit6 THEN {"F", "I", "A"} ELSE {"I", "A"}
           psr == [M |-> mode,
                   bits |-> (l.cpsr.bits \ {"T", "E"}) \cup (masks \cap PsrBits)]
           e == registers_write_cpsr(saved, psr)
           w == arm_write_register(e, 15, vector)
<1>1. /\ l \in registers_data /\ l.cpsr = r.cpsr /\ l.current_mode = r.current_mode
      /\ \A k \in RegNums, m \in Modes :
           /\ registers_read(l, k, m) # registers_read(r, k, m) =>
                k = 14 /\ r13_r14_bank(m) = r13_r14_bank(r.current_mode)
           /\ registers_read_spsr(l, m) = registers_read_spsr(r, m)
  BY WriteKeepsType, WriteIsLocal
     DEF Good, arm_write_register, registers_get_mode
<1> HIDE DEF l
<1>2. l.cpsr \in Psr BY <1>1 DEF registers_data
<1>3. /\ saved \in registers_data
      /\ \A m : registers_read_spsr(saved, m) =
           IF m = l.current_mode /\ registers_mode_has_spsr(l.current_mode)
           THEN l.cpsr ELSE registers_read_spsr(l, m)
  BY <1>1, <1>2, WriteSpsrSaves DEF arm_write_spsr, registers_get_mode
<1>4. \A k, m : registers_read(saved, k, m) = registers_read(l, k, m)
  <2>1. \/ saved = l
        \/ saved = [l EXCEPT !.spsr[spsr_index(l.current_mode)] = l.cpsr]
    BY DEF arm_write_spsr, registers_write_spsr, registers_get_mode
  <2>2. /\ saved.pc = l.pc /\ saved.tab_r0_r7 = l.tab_r0_r7
        /\ saved.tab_r8_r12 = l.tab_r8_r12 /\ saved.tab_r13_r14 = l.tab_r13_r14
    BY <1>1, <2>1 DEF registers_data
  <2> HIDE DEF saved
  <2> QED BY <2>2 DEF registers_read
<1> HIDE DEF saved
<1>5. psr \in Psr BY <1>2 DEF Psr, FIQ, IRQ, SVC, ABT, UND
<1> HIDE DEF psr
<1>6. e \in registers_data /\ e.spsr = saved.spsr
  BY <1>3, <1>5, WriteCpsrKeepsType
<1>7. /\ e.pc = saved.pc /\ e.tab_r0_r7 = saved.tab_r0_r7
      /\ e.tab_r8_r12 = saved.tab_r8_r12 /\ e.tab_r13_r14 = saved.tab_r13_r14
  BY <1>3 DEF registers_write_cpsr, registers_data
<1> HIDE DEF e
<1>8. \A k, m : /\ registers_read(e, k, m) = registers_read(saved, k, m)
                /\ registers_read_spsr(e, m) = registers_read_spsr(saved, m)
  BY <1>6, <1>7 DEF registers_read, registers_read_spsr
<1>9. \A k \in RegNums, m \in Modes :
        /\ registers_read(w, k, m) # registers_read(e, k, m) => k = 15
        /\ registers_read_spsr(w, m) = registers_read_spsr(e, m)
  BY <1>6, WriteIsLocal DEF arm_write_register
<1> HIDE DEF w
<1>10. r.current_mode \in Modes => registers_mode_has_spsr(r.current_mode)
  BY DEF Good, Sound, ModeTracksCpsr, Masked, mode_update, registers_mode_has_spsr,
         NoMode, Modes, USR, FIQ, IRQ, SVC, ABT, UND, SYS
<1>11. \A m \in Modes : registers_read_spsr(w, m) = registers_read_spsr(saved, m)
  BY <1>8, <1>9, RegistersAssumption
<1>12. ASSUME NEW n \in RegNums, NEW m \in Modes,
              registers_read(w, n, m) # registers_read(r, n, m)
       PROVE  \/ n = 15
              \/ n = 14 /\ r13_r14_bank(m) = r13_r14_bank(r.current_mode)
  <2>1. n # 15 => registers_read(w, n, m) = registers_read(l, n, m)
    BY <1>4, <1>8, <1>9
  <2>2. registers_read(l, n, m) # registers_read(r, n, m) =>
          n = 14 /\ r13_r14_bank(m) = r13_r14_bank(r.current_mode)
    BY <1>1
  <2>3. registers_read(w, n, m) # registers_read(r, n, m) BY <1>12
  <2>4. CASE n # 15
    <3>1. registers_read(l, n, m) # registers_read(r, n, m) BY <2>1, <2>3, <2>4
    <3> QED BY <2>2, <3>1
  <2> QED BY <2>4
<1>13. ASSUME NEW m \in Modes, registers_read_spsr(w, m) # registers_read_spsr(r, m)
       PROVE  m = r.current_mode /\ registers_read_spsr(w, m) = r.cpsr
  <2>1. registers_read_spsr(l, m) = registers_read_spsr(r, m)
    BY <1>1, RegistersAssumption
  <2> QED BY <1>1, <1>3, <1>11, <1>13, <2>1
<1>14. r.current_mode \in Modes => registers_read_spsr(w, r.current_mode) = r.cpsr
  BY <1>1, <1>3, <1>10, <1>11
<1>15. Frame(r, w, exception) BY <1>12, <1>13, <1>14 DEF Frame
<1> QED BY <1>15 DEF w, e, saved, psr, l, enter, set_exception_cpsr

\* The reset writes the cpsr and the pc only (arm_exception.c:86).
LEMMA ResetFramed ==
  ASSUME NEW r, Good(r)
  PROVE  Frame(r, reset(r), RESET)
<1> DEFINE psr == [M |-> SVC, bits |-> {"F", "I", "A"} \cap PsrBits]
           e == registers_write_cpsr(r, psr)
           w == arm_write_register(e, 15, 0)
<1>1. psr \in Psr /\ 0 \in Word BY RegistersAssumption DEF Psr, SVC, Word
<1> HIDE DEF psr
<1>2. e \in registers_data /\ e.spsr = r.spsr
  BY <1>1, WriteCpsrKeepsType DEF Good
<1>3. /\ e.pc = r.pc /\ e.tab_r0_r7 = r.tab_r0_r7
      /\ e.tab_r8_r12 = r.tab_r8_r12 /\ e.tab_r13_r14 = r.tab_r13_r14
  BY DEF Good, registers_write_cpsr, registers_data
<1> HIDE DEF e
<1>4. \A k, m : /\ registers_read(e, k, m) = registers_read(r, k, m)
                /\ registers_read_spsr(e, m) = registers_read_spsr(r, m)
  BY <1>2, <1>3 DEF registers_read, registers_read_spsr
<1>5. \A k \in RegNums, m \in Modes :
        /\ registers_read(w, k, m) # registers_read(e, k, m) => k = 15
        /\ registers_read_spsr(w, m) = registers_read_spsr(e, m)
  BY <1>1, <1>2, WriteIsLocal DEF arm_write_register
<1> HIDE DEF w
<1>6. Frame(r, w, RESET) BY <1>4, <1>5, RegistersAssumption DEF Frame
<1> QED BY <1>6 DEF w, e, psr, reset

\* Whatever number the interrupt socket carries (arm_exception.c:38).
LEMMA ExceptionFramed ==
  ASSUME NEW r, Good(r), NEW e \in 0..255, NEW swi
  PROVE  Frame(r, arm_exception(r, e, swi).reg, e)
<1> DEFINE o == arm_exception(r, e, swi)
           pc == arm_read_register(r, 15)
<1>1. pc \in Word BY CoreReadIsWord DEF Good
<1>2. \A a \in Word : minus(a, 4) \in Word /\ plus(a, 4) \in Word
                      /\ plus(a, 8) \in Word
  <2> TAKE a \in Word
  <2>1. a \in Nat /\ 4 \in Word /\ 8 \in Word
    BY RegistersAssumption, ExceptionAssumption DEF Word
  <2> QED BY <2>1, WrapAround
<1> HIDE DEF o, pc
<1>3. /\ plus(minus(pc, 4), 8) \in Word /\ plus(minus(pc, 4), 4) \in Word
      /\ plus(pc, 4) \in Word
  BY <1>1, <1>2
<1>4. {4, 12, 16, 24, 28} \subseteq Word
  BY RegistersAssumption, ExceptionAssumption DEF Word
<1>5. \A link \in Word, vector \in Word, mode \in {FIQ, IRQ, SVC, ABT, UND},
        bit6 \in BOOLEAN : Frame(r, enter(r, link, mode, bit6, vector), e)
  BY EnterFramed
<1>6. Frame(r, data_abort(r), e) BY <1>3, <1>4, <1>5, Zenon DEF data_abort, pc
<1>7. Frame(r, unterrupt(r), e) BY <1>3, <1>4, <1>5, Zenon DEF unterrupt, pc
<1>8. Frame(r, undefined_unstruction(r), e)
  BY <1>1, <1>4, <1>5, Zenon DEF undefined_unstruction, pc
<1>9. Frame(r, fetch_abort(r), e) BY <1>3, <1>4, <1>5, Zenon DEF fetch_abort, pc
<1>10. Frame(r, fast_interrupt_request(r), e)
  BY <1>3, <1>4, <1>5, Zenon DEF fast_interrupt_request, pc
<1>11. EntryMode(e) = NoMode => Frame(r, r, e) BY DEF Frame
<1>12. \/ o.reg \in {data_abort(r), unterrupt(r), undefined_unstruction(r),
                     fetch_abort(r), fast_interrupt_request(r)}
       \/ o.reg = reset(r) /\ e = RESET
       \/ o.reg = r /\ EntryMode(e) = NoMode
  BY DEF o, arm_exception, EntryMode, Outcome, RESET, DATA_ABORT, FAST_INTERRUPT,
         INTERRUPT, PREFETCH_ABORT, UNDEFINED_INSTRUCTION, SOFTWARE_INTERRUPT
<1>13. Frame(r, o.reg, e)
  BY <1>6, <1>7, <1>8, <1>9, <1>10, <1>11, <1>12, ResetFramed
<1> QED BY <1>13 DEF o

\* Between two instructions of any program, an exception the interrupt socket
\* raises keeps the cpsr it interrupts in the saved status register of the
\* interrupted or of the entered mode, and no mode loses another register to
\* it than the pc and the link.
THEOREM InterruptsAreFramed == Spec => InterruptFrame
<1>1. ASSUME TypeOK, CoreInv, NEW e \in IrqBytes, Raise(e) PROVE Frame(reg, reg', e)
  <2>1. PICK swi : Take(arm_exception(reg, e, swi)) BY <1>1 DEF Raise
  <2>2. Good(reg) BY <1>1 DEF TypeOK, CoreInv, Good
  <2>3. e \in 0..255 BY CoreAssumption
  <2> QED BY <2>1, <2>2, <2>3, ExceptionFramed DEF Take
<1>2. TypeOK /\ CoreInv /\ [Next]_vars =>
        [\A e \in IrqBytes : Raise(e) => Frame(reg, reg', e)]_vars
  BY <1>1
<1> QED BY CoreInductive, <1>2, PTL DEF Spec, InterruptFrame

-----------------------------------------------------------------------------
(* The register file under every sequence of its callers' writes.          *)

\* Two modes read register n in the same place exactly when they share it.
LEMMA WriteIsSeen ==
  ASSUME NEW r \in registers_data, NEW n \in RegNums, NEW v \in Word,
         NEW mode \in AllModes, NEW m \in AllModes, NEW k \in RegNums
  PROVE  registers_read(registers_write(r, n, mode, v), k, m) =
           IF k = n /\ View!Shares(n, mode, m) THEN v ELSE registers_read(r, k, m)
<1>1. SamePlace(n, mode, m) <=> View!Shares(n, mode, m)
  <2>1. CASE n \in LowRegs \/ n = 15
    BY <2>1 DEF SamePlace, View!Shares, LowRegs
  <2>2. CASE n \in MidRegs
    BY <2>2 DEF SamePlace, View!Shares, LowRegs, MidRegs, HighRegs, r8_r12_bank
  <2>3. CASE n \in HighRegs
    BY <2>3 DEF SamePlace, View!Shares, LowRegs, MidRegs, HighRegs, r13_r14_bank,
                AllModes, Modes, NoMode, USR, FIQ, IRQ, SVC, ABT, UND, SYS
  <2> QED BY RegisterKinds, <2>1, <2>2, <2>3
<1> QED BY <1>1, WriteIsRead

\* A read of the file in a mode that is not one of the seven gives, for r13
\* and r14, the value that stands for none.
LEMMA InitialView ==
  FileInit => View!Init
<1> SUFFICES ASSUME FileInit PROVE View!Init OBVIOUS
<1>1. file = registers_create BY DEF FileInit
<1>2. \A n \in RegNums, m \in AllModes :
        registers_read(file, n, m) =
          IF m = NoMode /\ n \in {13, 14} THEN UINT32_MAX ELSE UninitWord
  <2> TAKE n \in RegNums, m \in AllModes
  <2>1. r8_r12_bank(m) \in 0..1 /\ r13_r14_bank(m) \in 0..5
    BY DEF r8_r12_bank, r13_r14_bank
  <2>2. n \in LowRegs \cup MidRegs \cup HighRegs \/ n = 15 BY RegisterKinds
  <2>3. m \in Modes <=> m # NoMode
    BY DEF AllModes, Modes, NoMode, USR, FIQ, IRQ, SVC, ABT, UND, SYS
  <2> QED BY <1>1, <2>1, <2>2, <2>3
          DEF registers_create, registers_read, LowRegs, MidRegs, HighRegs
<1>3. \A m \in AllModes :
        registers_read_spsr(file, m) =
          IF m \in SpsrModes THEN UninitPsr ELSE [M |-> 31, bits |-> PsrBits]
  BY <1>1 DEF registers_create, registers_read_spsr, registers_mode_has_spsr,
              spsr_index, SpsrModes
<1>4. UninitWord \in Word /\ UninitPsr \in WrittenPsrs \cup SavedPsrs \cup {UninitPsr}
  BY RegistersAssumption
<1>5. file.cpsr = UninitPsr BY <1>1 DEF registers_create
<1> QED BY <1>2, <1>3, <1>4, <1>5 DEF View!Init

\* A register write is a write of the view, or changes nothing when there is
\* no register of that number.
LEMMA WriteView ==
  ASSUME FileTypeOK, NEW n \in WrittenNums, NEW v \in Word, NEW mode \in AllModes,
         file' = registers_write(file, n, mode, v)
  PROVE  [View!Next]_(View!vars)
<1>1. CASE n \in RegNums
  <2>1. \A m \in AllModes, k \in RegNums :
          registers_read(file', k, m) =
            IF k = n /\ View!Shares(n, mode, m) THEN v ELSE registers_read(file, k, m)
    BY <1>1, WriteIsSeen DEF FileTypeOK
  <2>2. file'.cpsr = file.cpsr /\ file'.spsr = file.spsr
    BY WriteKeepsType DEF FileTypeOK
  <2>3. \A m : registers_read_spsr(file', m) = registers_read_spsr(file, m)
    BY <2>2 DEF registers_read_spsr
  <2>4. View!Write(n, mode, v) BY <2>1, <2>2, <2>3 DEF View!Write
  <2> QED BY <1>1, <2>4 DEF View!Next
<1>2. CASE n \notin RegNums
  <2>1. n \notin 0..15 BY <1>2, RegisterFileAssumption
  <2>2. file' = file
    BY <2>1, RegistersAssumption DEF registers_write, LowRegs, MidRegs, HighRegs
  <2> QED BY <2>2 DEF View!vars
<1> QED BY <1>1, <1>2

\* The register file keeps its shape under every write.
LEMMA FileStep ==
  ASSUME FileTypeOK, FileNext
  PROVE  FileTypeOK' /\ [View!Next]_(View!vars)
<1>1. registers_get_mode(file) \in AllModes /\ USR \in AllModes
  BY DEF FileTypeOK, registers_data, registers_get_mode, AllModes, Modes
<1>2. ASSUME NEW n \in WrittenNums, NEW v \in Word,
             WriteRegister(n, v) \/ WriteUsrRegister(n, v)
      PROVE  FileTypeOK' /\ [View!Next]_(View!vars)
  <2>1. PICK mode \in AllModes : file' = registers_write(file, n, mode, v)
    BY <1>1, <1>2 DEF WriteRegister, WriteUsrRegister, arm_write_register,
                      arm_write_usr_register
  <2>2. FileTypeOK' BY <2>1, WriteKeepsType DEF FileTypeOK, CachedModeFollows
  <2> QED BY <2>1, <2>2, WriteView
<1>3. ASSUME NEW psr \in WrittenPsrs, WriteCpsr(psr)
      PROVE  FileTypeOK' /\ [View!Next]_(View!vars)
  <2>1. psr \in Psr BY RegisterFileAssumption
  <2>2. FileTypeOK'
    BY <1>3, <2>1, WriteCpsrKeepsType DEF WriteCpsr, FileTypeOK, CachedModeFollows
  <2>3. file'.cpsr = psr BY <1>3, <2>1, WriteCpsrKeepsType DEF WriteCpsr, FileTypeOK
  <2>4. \A m : /\ registers_read_spsr(file', m) = registers_read_spsr(file, m)
               /\ \A n : registers_read(file', n, m) = registers_read(file, n, m)
    BY <1>3 DEF WriteCpsr, registers_write_cpsr, FileTypeOK, registers_data,
                registers_read, registers_read_spsr
  <2>5. View!Switch(psr) BY <2>3, <2>4 DEF View!Switch
  <2> QED BY <2>2, <2>5 DEF View!Next
<1>4. ASSUME NEW psr \in SavedPsrs, WriteSpsr(psr)
      PROVE  FileTypeOK' /\ [View!Next]_(View!vars)
  <2> DEFINE mode == registers_get_mode(file)
  <2>1. psr \in Psr BY RegisterFileAssumption
  <2>2. /\ file' \in registers_data
        /\ file'.cpsr = file.cpsr /\ file'.current_mode = file.current_mode
        /\ \A m : registers_read_spsr(file', m) =
             IF m = mode /\ registers_mode_has_spsr(mode)
             THEN psr ELSE registers_read_spsr(file, m)
    BY <1>4, <2>1, WriteSpsrSaves DEF WriteSpsr, arm_write_spsr, FileTypeOK
  <2>3. \A m, n : registers_read(file', n, m) = registers_read(file, n, m)
    BY <1>4 DEF WriteSpsr, arm_write_spsr, registers_write_spsr, FileTypeOK,
                registers_data, registers_read
  <2>4. CASE mode \in SpsrModes
    <3>1. View!Save(mode, psr)
      BY <2>2, <2>3, <2>4 DEF View!Save, SpsrModes, registers_mode_has_spsr
    <3> QED BY <2>2, <2>4, <3>1 DEF View!Next, FileTypeOK, CachedModeFollows
  <2>5. CASE mode \notin SpsrModes
    <3>1. ~registers_mode_has_spsr(mode)
      BY <2>5 DEF SpsrModes, registers_mode_has_spsr
    <3>2. UNCHANGED View!vars BY <2>2, <2>3, <3>1 DEF View!vars
    <3> QED BY <2>2, <3>2 DEF FileTypeOK, CachedModeFollows
  <2> QED BY <2>4, <2>5
<1> QED BY <1>2, <1>3, <1>4 DEF FileNext

\* The arrays of the register file keep their bounds and their words, and the
\* cached mode that of the cpsr.
THEOREM FileTypeCorrect == FileSpec => []FileTypeOK
<1>1. FileInit => FileTypeOK
  BY RegistersAssumption
     DEF FileInit, FileTypeOK, CachedModeFollows, registers_create, registers_data, Modes
<1>2. FileTypeOK /\ [FileNext]_file => FileTypeOK' BY FileStep DEF FileTypeOK, CachedModeFollows
<1> QED BY <1>1, <1>2, PTL DEF FileSpec

\* The banked register file implements the view of each mode.
THEOREM FileImplementsView == FileSpec => ViewSpec
<1>1. FileTypeOK /\ [FileNext]_file => [View!Next]_(View!vars)
  <2> SUFFICES ASSUME FileTypeOK, [FileNext]_file PROVE [View!Next]_(View!vars) OBVIOUS
  <2>1. CASE FileNext BY <2>1, FileStep
  <2>2. CASE UNCHANGED file BY <2>2 DEF View!vars
  <2> QED BY <2>1, <2>2
<1> QED BY InitialView, FileTypeCorrect, <1>1, PTL DEF FileSpec, ViewSpec, View!Spec
=============================================================================
