-------------------------- MODULE SimulatorProofs --------------------------
(***************************************************************************)
(* Whatever the program, the commands and the interrupts: the mutex keeps  *)
(* the two threads apart, and the threads do what AtomicSimulator does.    *)
(***************************************************************************)
EXTENDS Simulator, ArmStepProofs, WellFoundedInduction

\* The mutex is free and no thread is past its place at the start.
LEMMA InitSafe == Init => MutualExclusion
BY DEF Init, MutualExclusion, GdbHolds

\* Steps that move neither the mutex nor a thread in or out of it.
LEMMA StaysSafe ==
  ASSUME MutualExclusion, UNCHANGED <<lock, irq_at>>,
         gdb_at' \in GdbHolds <=> gdb_at \in GdbHolds
  PROVE  MutualExclusion'
BY DEF MutualExclusion

\* The gdb thread keeps the mutex and the places of the threads agreeing,
LEMMA GdbStepSafe ==
  ASSUME MutualExclusion,
         \/ GdbAccept \/ Disconnect \/ Gdb
         \/ \E command \in Commands : Receive(command)
  PROVE  MutualExclusion'
<1> USE DEF others, irqs, core, gdb, locals
<1>1. CASE GdbAccept \/ \E command \in Commands : Receive(command)
  BY <1>1, StaysSafe DEF GdbAccept, Receive, GdbHolds
<1>2. CASE Disconnect
  BY <1>2, StaysSafe DEF Disconnect, GdbHolds
<1>3. CASE GdbLock
  <2>1. handler(request.op) \in GdbHolds BY DEF handler, GdbHolds
  <2> QED BY <1>3, <2>1 DEF GdbLock, MutualExclusion, GdbHolds
<1>4. CASE GdbUnlock
  BY <1>4 DEF GdbUnlock, unlocked, MutualExclusion, GdbHolds
<1>5. CASE Fetch BY <1>5, StaysSafe DEF Fetch, GdbHolds
<1>6. CASE Execute
  <2>1. /\ gdb_at = "execute" /\ UNCHANGED <<lock, irq_at>>
        /\ gdb_at' \in {"execute", "stepped"}
    BY <1>6 DEF Execute
  <2> QED BY <2>1, StaysSafe DEF GdbHolds
<1>7. CASE Stepped BY <1>7, StaysSafe DEF Stepped, Send, GdbHolds
<1>8. CASE ReadRegister BY <1>8, StaysSafe DEF ReadRegister, Send, GdbHolds
<1>9. CASE WriteRegister BY <1>9, StaysSafe DEF WriteRegister, Send, GdbHolds
<1>10. CASE Handle BY <1>10, StaysSafe DEF Handle, Send, GdbHolds
<1> QED
  BY <1>1, <1>2, <1>3, <1>4, <1>5, <1>6, <1>7, <1>8, <1>9, <1>10 DEF Gdb

\* so does the irq thread,
LEMMA IrqStepSafe ==
  ASSUME MutualExclusion,
         \/ IrqAccept \/ IrqDisconnect \/ Irq
         \/ \E byte \in IrqBytes : IrqRead(byte)
  PROVE  MutualExclusion'
<1> USE DEF others, irqs, core, gdb, locals, MutualExclusion
<1>1. CASE IrqAccept BY <1>1 DEF IrqAccept
<1>2. CASE IrqDisconnect BY <1>2 DEF IrqDisconnect
<1>3. CASE \E byte \in IrqBytes : IrqRead(byte) BY <1>3 DEF IrqRead
<1>4. CASE IrqLock BY <1>4 DEF IrqLock, irq_takes_lock
<1>5. CASE Raise
  <2>1. /\ irq_at = "raise" /\ irq_at' \in {"raise", "unlock"}
        /\ UNCHANGED <<lock, gdb_at>>
    BY <1>5 DEF Raise
  <2> QED BY <2>1
<1>6. CASE IrqUnlock BY <1>6 DEF IrqUnlock, unlocked
<1> QED BY <1>1, <1>2, <1>3, <1>4, <1>5, <1>6 DEF Irq

\* and so do main and the end of the process.
LEMMA MainStepSafe ==
  ASSUME MutualExclusion, Main \/ Exit \/ UnixError
  PROVE  MutualExclusion'
<1> USE DEF others, irqs, core, gdb, locals, MutualExclusion
<1>1. CASE Main BY <1>1 DEF Main
<1>2. CASE Exit BY <1>2 DEF Exit
<1>3. CASE UnixError BY <1>3 DEF UnixError
<1> QED BY <1>1, <1>2, <1>3

\* Every step does.
LEMMA StepSafe ==
  ASSUME MutualExclusion, [Next]_vars
  PROVE  MutualExclusion'
<1>1. CASE UNCHANGED vars
  BY <1>1 DEF vars, gdb, others, irqs, MutualExclusion
<1> QED BY <1>1, GdbStepSafe, IrqStepSafe, MainStepSafe DEF Next

\* The mutex is held exactly by the thread that is between its lock and its
\* unlock, whichever the handlers, the program and the exceptions raised.
THEOREM ThreadsExclude == Spec => []MutualExclusion
BY InitSafe, StepSafe, PTL DEF Spec

-----------------------------------------------------------------------------
(* What each handler knows between its steps. *)

\* What each handler has done so far.
Handled ==
  /\ gdb_at \in {"fetch", "execute", "stepped"} => request.op \in {"s", "c"}
  /\ gdb_at = "read_registers" => request.op = "g"
  /\ gdb_at = "write_registers" => request.op = "G"
  /\ gdb_at = "execute" =>
       fetch = IF fetched(back) THEN Program[back.pc] ELSE NotFetched
  /\ gdb_at = "read_registers" =>
       \A n \in RegNums \ left : seen[n] = read_register(n)
  /\ irq_at \in {"lock", "raise"} => irq \in IrqBytes

Refined == [Atomic!Next]_(Atomic!vars)

-----------------------------------------------------------------------------
(* The loops of g and G. *)

\* The next register is one of the registers left (gdb_protocol.c:238).
LEMMA FirstIsLeft ==
  ASSUME left \subseteq RegNums, left # {}
  PROVE  first \in left
<1> DEFINE R == OpToRel(<, Nat)
<1>1. left \subseteq Nat BY RegistersAssumption
<1>2. IsWellFoundedOn(R, Nat) BY NatLessThanWellFounded
<1>3. \A a \in Nat : \A c \in Nat : a < c => <<a, c>> \in R
  <2> SUFFICES ASSUME NEW a \in Nat, NEW c \in Nat, a < c
               PROVE  <<a, c>> \in {ss \in Nat \X Nat : ss[1] < ss[2]}
    BY DEF OpToRel
  <2> DEFINE pair == <<a, c>>
  <2>1. pair \in Nat \X Nat /\ pair[1] < pair[2] OBVIOUS
  <2> HIDE DEF pair
  <2>2. pair \in {ss \in Nat \X Nat : ss[1] < ss[2]} BY <2>1
  <2> QED BY <2>2 DEF pair
<1> HIDE DEF R
<1>4. PICK n \in left : \A m \in left : ~(<<m, n>> \in R) BY <1>1, <1>2, WFMin
<1>5. ASSUME NEW m \in left PROVE n <= m
  <2>1. m \in Nat /\ n \in Nat BY <1>1
  <2>2. m < n => <<m, n>> \in R BY <1>3, <2>1
  <2>3. ~(m < n) BY <1>4, <2>2
  <2> QED BY <2>1, <2>3
<1> QED BY <1>5 DEF first

\* The fields of the register file, once the registers left are written.
pc_part(r, rest, v) == IF 15 \in rest THEN v[15] ELSE r.pc
low_part(r, rest, v) ==
  [n \in LowRegs |-> IF n \in rest THEN v[n] ELSE r.tab_r0_r7[n]]
mid_part(r, rest, v) ==
  [n \in MidRegs |-> [k \in 0..1 |->
     IF n \in rest /\ k = r8_r12_bank(r.current_mode)
     THEN v[n] ELSE r.tab_r8_r12[n][k]]]
high_part(r, rest, v) ==
  [n \in HighRegs |-> [k \in 0..5 |->
     IF n \in rest /\ r.current_mode \in Modes /\ k = r13_r14_bank(r.current_mode)
     THEN v[n] ELSE r.tab_r13_r14[n][k]]]

\* The register file under a G whose rest is still to be written, field by
\* field.
LEMMA WithRegisters ==
  ASSUME NEW r \in registers_data, NEW rest, NEW v, NEW c
  PROVE  with_registers(r, rest, v, c) =
           [pc |-> pc_part(r, rest, v), tab_r0_r7 |-> low_part(r, rest, v),
            tab_r8_r12 |-> mid_part(r, rest, v),
            tab_r13_r14 |-> high_part(r, rest, v),
            cpsr |-> c, spsr |-> r.spsr, current_mode |-> mode_update(c)]
<1> DEFINE mode == r.current_mode
           hi == [n \in HighRegs |-> [k \in 0..5 |->
                    IF /\ n \in (IF mode \in Modes THEN rest ELSE {})
                       /\ k = r13_r14_bank(mode)
                    THEN v[n] ELSE r.tab_r13_r14[n][k]]]
           pc1 == IF 15 \in rest THEN clear_bit_0(v[15]) ELSE r.pc
           w == load_all(r, rest, v)
<1>1. w = [r EXCEPT !.pc = pc1, !.tab_r0_r7 = low_part(r, rest, v),
                    !.tab_r8_r12 = mid_part(r, rest, v), !.tab_r13_r14 = hi]
  BY DEF load_all, registers_get_mode, low_part, mid_part
<1>2. hi = high_part(r, rest, v) BY DEF high_part
<1> HIDE DEF hi, w, pc1
<1>3. with_registers(r, rest, v, c) =
          registers_write_cpsr(IF 15 \in rest THEN [w EXCEPT !.pc = v[15]] ELSE w, c)
  BY DEF with_registers, w
<1> QED BY <1>1, <1>2, <1>3
          DEF registers_write_cpsr, registers_data, pc1, pc_part

\* A register write changes one place of one field (registers.c:132).
LEMMA WriteFields ==
  ASSUME NEW r \in registers_data, NEW n \in RegNums, NEW mode, NEW x \in Word
  PROVE  LET w == registers_write(r, n, mode, x)
         IN  /\ w.pc = IF n = 15 THEN x ELSE r.pc
             /\ \A k \in LowRegs :
                  w.tab_r0_r7[k] = IF k = n THEN x ELSE r.tab_r0_r7[k]
             /\ \A k \in MidRegs, i \in 0..1 :
                  w.tab_r8_r12[k][i] = IF k = n /\ i = r8_r12_bank(mode)
                                       THEN x ELSE r.tab_r8_r12[k][i]
             /\ \A k \in HighRegs, i \in 0..5 :
                  w.tab_r13_r14[k][i] =
                    IF k = n /\ mode \in Modes /\ i = r13_r14_bank(mode)
                    THEN x ELSE r.tab_r13_r14[k][i]
<1> DEFINE w == registers_write(r, n, mode, x)
<1>1. /\ r.tab_r0_r7 \in [LowRegs -> Word]
      /\ r.tab_r8_r12 \in [MidRegs -> [0..1 -> Word]]
      /\ r.tab_r13_r14 \in [HighRegs -> [0..5 -> Word]]
  BY DEF registers_data
<1>2. r8_r12_bank(mode) \in 0..1 /\ r13_r14_bank(mode) \in 0..5
  BY DEF r8_r12_bank, r13_r14_bank
<1>3. CASE n = 15
  <2>1. w = [r EXCEPT !.pc = x]
    BY <1>3 DEF registers_write, LowRegs, MidRegs, HighRegs
  <2>2. /\ w.pc = x /\ w.tab_r0_r7 = r.tab_r0_r7
        /\ w.tab_r8_r12 = r.tab_r8_r12 /\ w.tab_r13_r14 = r.tab_r13_r14
    BY <2>1 DEF registers_data
  <2> HIDE DEF w
  <2> QED BY <1>3, <2>2 DEF LowRegs, MidRegs, HighRegs, w
<1>4. CASE n \in LowRegs
  <2>1. w = [r EXCEPT !.tab_r0_r7[n] = x]
    BY <1>4 DEF registers_write, LowRegs, MidRegs, HighRegs
  <2>2. /\ w.tab_r0_r7 = [r.tab_r0_r7 EXCEPT ![n] = x] /\ w.pc = r.pc
        /\ w.tab_r8_r12 = r.tab_r8_r12 /\ w.tab_r13_r14 = r.tab_r13_r14
    BY <2>1 DEF registers_data
  <2> HIDE DEF w
  <2> QED BY <1>1, <1>4, <2>2 DEF LowRegs, MidRegs, HighRegs, w
<1>5. CASE n \in MidRegs
  <2>1. w = [r EXCEPT !.tab_r8_r12[n][r8_r12_bank(mode)] = x]
    BY <1>5 DEF registers_write, LowRegs, MidRegs, HighRegs
  <2>2. \A k \in MidRegs, i \in 0..1 :
          w.tab_r8_r12[k][i] = IF k = n /\ i = r8_r12_bank(mode)
                               THEN x ELSE r.tab_r8_r12[k][i]
    BY <1>1, <1>2, <1>5, <2>1 DEF registers_data
  <2>3. /\ w.pc = r.pc /\ w.tab_r0_r7 = r.tab_r0_r7
        /\ w.tab_r13_r14 = r.tab_r13_r14
    BY <2>1 DEF registers_data
  <2> HIDE DEF w
  <2> QED BY <1>5, <2>2, <2>3 DEF LowRegs, MidRegs, HighRegs, w
<1>6. CASE n \in HighRegs /\ mode \in Modes
  <2>1. w = [r EXCEPT !.tab_r13_r14[n][r13_r14_bank(mode)] = x]
    BY <1>6 DEF registers_write, LowRegs, MidRegs, HighRegs
  <2>2. \A k \in HighRegs, i \in 0..5 :
          w.tab_r13_r14[k][i] = IF k = n /\ i = r13_r14_bank(mode)
                                THEN x ELSE r.tab_r13_r14[k][i]
    BY <1>1, <1>2, <1>6, <2>1 DEF registers_data
  <2>3. /\ w.pc = r.pc /\ w.tab_r0_r7 = r.tab_r0_r7
        /\ w.tab_r8_r12 = r.tab_r8_r12
    BY <2>1 DEF registers_data
  <2> HIDE DEF w
  <2> QED BY <1>6, <2>2, <2>3 DEF LowRegs, MidRegs, HighRegs, w
<1>7. CASE n \in HighRegs /\ mode \notin Modes
  <2>1. w = r BY <1>7 DEF registers_write, LowRegs, MidRegs, HighRegs
  <2> HIDE DEF w
  <2> QED BY <1>7, <2>1 DEF LowRegs, MidRegs, HighRegs, w
<1>8. n = 15 \/ n \in LowRegs \/ n \in MidRegs \/ n \in HighRegs
  BY RegistersAssumption DEF LowRegs, MidRegs, HighRegs
<1> QED BY <1>3, <1>4, <1>5, <1>6, <1>7, <1>8

\* Writing one of the registers left changes nothing of the register file G
\* will have written in the end (gdb_protocol.c:338).
LEMMA WriteAbsorbed ==
  ASSUME NEW r \in registers_data, NEW rest, NEW v, NEW c,
         NEW n \in rest, n \in RegNums, v[n] \in Word
  PROVE  with_registers(registers_write(r, n, r.current_mode, v[n]),
                        rest \ {n}, v, c)
           = with_registers(r, rest, v, c)
<1> DEFINE mode == r.current_mode
           w == registers_write(r, n, mode, v[n])
           rest1 == rest \ {n}
<1>1. /\ w \in registers_data /\ w.cpsr = r.cpsr /\ w.spsr = r.spsr
      /\ w.current_mode = mode
  BY WriteKeepsType
<1>2. /\ w.pc = IF n = 15 THEN v[n] ELSE r.pc
      /\ \A k \in LowRegs :
           w.tab_r0_r7[k] = IF k = n THEN v[n] ELSE r.tab_r0_r7[k]
      /\ \A k \in MidRegs, i \in 0..1 :
           w.tab_r8_r12[k][i] = IF k = n /\ i = r8_r12_bank(mode)
                                THEN v[n] ELSE r.tab_r8_r12[k][i]
      /\ \A k \in HighRegs, i \in 0..5 :
           w.tab_r13_r14[k][i] =
             IF k = n /\ mode \in Modes /\ i = r13_r14_bank(mode)
             THEN v[n] ELSE r.tab_r13_r14[k][i]
  BY WriteFields
<1> HIDE DEF w, mode
<1>3. pc_part(w, rest1, v) = pc_part(r, rest, v) BY <1>2 DEF pc_part
<1>4. low_part(w, rest1, v) = low_part(r, rest, v) BY <1>2 DEF low_part
<1>5. mid_part(w, rest1, v) = mid_part(r, rest, v)
  BY <1>1, <1>2 DEF mid_part, mode
<1>6. high_part(w, rest1, v) = high_part(r, rest, v)
  BY <1>1, <1>2 DEF high_part, mode
<1> HIDE DEF rest1
<1>7. with_registers(w, rest1, v, c) = with_registers(r, rest, v, c)
  BY <1>1, <1>3, <1>4, <1>5, <1>6, WithRegisters
<1> QED BY <1>7 DEF w, rest1, mode

\* When none is left, G only has the cpsr to write.
LEMMA WrittenAtEnd ==
  ASSUME NEW r \in registers_data, NEW v, NEW c
  PROVE  with_registers(r, {}, v, c) = registers_write_cpsr(r, c)
<1> DEFINE w == load_all(r, {}, v)
           lo == [n \in LowRegs |-> r.tab_r0_r7[n]]
           mid == [n \in MidRegs |-> [k \in 0..1 |-> r.tab_r8_r12[n][k]]]
           hi == [n \in HighRegs |-> [k \in 0..5 |-> r.tab_r13_r14[n][k]]]
<1>1. w = [r EXCEPT !.pc = r.pc, !.tab_r0_r7 = lo, !.tab_r8_r12 = mid,
                    !.tab_r13_r14 = hi]
  BY DEF load_all
<1>2. lo = r.tab_r0_r7 /\ mid = r.tab_r8_r12 /\ hi = r.tab_r13_r14
  BY DEF registers_data
<1> HIDE DEF lo, mid, hi, w
<1>3. w = r BY <1>1, <1>2 DEF registers_data
<1>4. with_registers(r, {}, v, c) = registers_write_cpsr(w, c)
  BY DEF with_registers, w
<1> QED BY <1>3, <1>4

-----------------------------------------------------------------------------
(* What the steps of the threads know of the registers and of the command. *)

IInv == TypeOK /\ MutualExclusion /\ Handled

\* No instruction is taken for the absence of one.
LEMMA InstrOps == NotFetched \notin Instrs
<1>1. \A ins \in Instr : ins.op # "none" BY DEF Instr
<1> QED BY <1>1, InstructionAssumption DEF NotFetched

\* What a G carries.
LEMMA WriteAllFields ==
  ASSUME NEW command \in Commands, command.op = "G"
  PROVE  command.values \in [RegNums -> Word] /\ command.cpsr \in Psr
BY SimulatorAssumption DEF Command

\* The registers g has not read yet.
LEMMA SeenTyped == Unseen \in [RegNums -> Word]
BY SumsAreWords DEF Unseen

\* What an instruction may do, seen from the pc its fetch started from.
LEMMA ExecuteIsStep ==
  ASSUME IInv, gdb_at = "execute"
  PROVE  /\ back \in registers_data
         /\ outcomes(back) =
              IF fetch = NotFetched THEN {fetch_fails(reg)}
              ELSE after_fetch(reg, minus(reg.pc, 4), fetch)
         /\ \A o \in outcomes(back) : Typed(o)
<1>1. reg \in registers_data BY DEF IInv, TypeOK
<1>2. back \in registers_data /\ arm_fetch(back) = reg /\ back.pc = minus(reg.pc, 4)
  BY <1>1, FetchUndone DEF back, registers_data
<1>3. Program[back.pc] \in Instrs
  BY <1>2, ProgramAssumption DEF registers_data
<1>4. fetch = IF fetched(back) THEN Program[back.pc] ELSE NotFetched
  BY DEF IInv, Handled
<1>5. CASE fetched(back)
  <2>1. outcomes(back) = after_fetch(reg, minus(reg.pc, 4), fetch)
    BY <1>2, <1>4, <1>5 DEF outcomes, arm_step
  <2>2. fetch # NotFetched /\ fetch \in Instr
    BY <1>3, <1>4, <1>5, InstrOps, InstructionAssumption
  <2>3. \A o \in outcomes(back) : Typed(o) BY <1>1, <2>1, <2>2, AfterFetchTyped
  <2> QED BY <1>2, <2>1, <2>2, <2>3
<1>6. CASE ~fetched(back)
  <2>1. outcomes(back) = {fetch_fails(reg)} BY <1>2, <1>6 DEF outcomes
  <2> QED BY <1>1, <1>2, <1>4, <1>6, <2>1, FetchFailsTyped
<1> QED BY <1>5, <1>6

\* An exception raised by a byte leaves a well-formed register file.
LEMMA InterruptedTyped ==
  ASSUME NEW r \in registers_data, NEW e \in IrqBytes, NEW q \in interrupted(r, e)
  PROVE  q \in registers_data
<1>1. PICK swi \in SwiWords : q = arm_exception(r, e, swi).reg BY DEF interrupted
<1>2. e \in 0..255 BY SimulatorAssumption
<1> QED BY <1>1, <1>2, ExceptionTyped DEF Typed

\* The simulator starts as the atomic one does.
LEMMA InitRefined == Init => IInv /\ Atomic!Init
<1> SUFFICES ASSUME Init PROVE IInv /\ Atomic!Init OBVIOUS
<1>1. TypeOK
  BY CreateTyped, SeenTyped DEF Init, TypeOK
<1>2. Handled BY DEF Init, Handled
<1>3. Atomic!Init
  BY DEF Init, Atomic!Init, shown_reg, shown_phase, shown_answer, Committed
<1> QED BY <1>1, <1>2, <1>3, InitSafe DEF IInv

-----------------------------------------------------------------------------
(* Each step keeps the invariant and is a step of AtomicSimulator or none. *)

\* Steps of the irq thread that do not raise, of main, and the ends of the
\* connections: nothing of the core or of the command changes.
LEMMA AsideStep ==
  ASSUME IInv, UNCHANGED <<core, locals, answer>>,
         \/ gdb_at' = gdb_at
         \/ {gdb_at, gdb_at'} \subseteq {"accept", "read", "ended"},
         lock' \in {"free", "gdb", "irq"},
         irq_at' \in {"accept", "read", "lock", "raise", "unlock"},
         irq' \in 0..255,
         irq_at' \in {"lock", "raise"} => irq' \in IrqBytes,
         main_at' \in {"join", "arm_destroy", "registers_destroy",
                       "memory_destroy", "return"},
         process' \in {"running", "exited", "assertion_failed", "use_after_free",
                       "unix_error"}
  PROVE  TypeOK' /\ Handled' /\ Refined
<1> USE DEF core, locals
<1>1. TypeOK' BY DEF IInv, TypeOK
<1>2. Handled' BY DEF IInv, Handled, back, read_register
<1>3. UNCHANGED <<shown_reg, shown_phase, shown_answer>>
  <2>1. CASE gdb_at' = gdb_at
    BY <2>1 DEF shown_reg, shown_phase, shown_answer, Committed, stops, back
  <2>2. CASE {gdb_at, gdb_at'} \subseteq {"accept", "read", "ended"}
    BY <2>2 DEF shown_reg, shown_phase, shown_answer, Committed
  <2> QED BY <2>1, <2>2
<1>4. Refined BY <1>3 DEF Refined, Atomic!vars
<1> QED BY <1>1, <1>2, <1>4

\* Each step of the threads is a step of the atomic simulator or none: a
\* connection,
LEMMA AcceptStep ==
  ASSUME IInv, GdbAccept \/ Disconnect
  PROVE  TypeOK' /\ Handled' /\ Refined
BY AsideStep DEF GdbAccept, Disconnect, others, irqs, IInv, TypeOK, Handled, core,
   locals

\* a command received,
LEMMA ReceiveStep ==
  ASSUME IInv, NEW command \in Commands, Receive(command)
  PROVE  TypeOK' /\ Handled' /\ Refined
<1> USE DEF core, others, irqs
<1>1. TypeOK' BY DEF IInv, TypeOK, Receive
<1>2. Handled' BY DEF IInv, Handled, Receive
<1>3. /\ shown_reg' = shown_reg /\ shown_answer' = shown_answer
      /\ shown_phase = "idle" /\ shown_phase' = "asked"
  BY DEF Receive, shown_reg, shown_phase, shown_answer, Committed
<1>4. Atomic!Ask(command) BY <1>3 DEF Atomic!Ask, Receive
<1> QED BY <1>1, <1>2, <1>4 DEF Refined, Atomic!Next

\* A handler starts, its command still to be done.
LEMMA GdbLockStep ==
  ASSUME IInv, GdbLock
  PROVE  TypeOK' /\ Handled' /\ Refined
<1> USE DEF core, others, irqs
<1>1. /\ handler(request.op) \in {"fetch", "read_registers", "write_registers",
                                  "handle"}
      /\ handler(request.op) = "fetch" => request.op \in {"s", "c"}
      /\ handler(request.op) = "read_registers" => request.op = "g"
      /\ handler(request.op) = "write_registers" => request.op = "G"
  BY DEF handler
<1>2. TypeOK' BY <1>1 DEF IInv, TypeOK, GdbLock, GdbHolds
<1>3. Handled' BY <1>1 DEF IInv, Handled, GdbLock
<1>4. /\ shown_reg' = shown_reg /\ shown_answer' = shown_answer
      /\ shown_phase' = shown_phase
  BY <1>1 DEF GdbLock, shown_reg, shown_phase, shown_answer, Committed
<1>5. Refined BY <1>4 DEF Refined, Atomic!vars, GdbLock
<1> QED BY <1>2, <1>3, <1>5

\* the end of a handler, which answers,
LEMMA GdbUnlockStep ==
  ASSUME IInv, GdbUnlock
  PROVE  TypeOK' /\ Handled' /\ Refined
<1> USE DEF core, locals, others, irqs
<1>1. TypeOK' BY DEF IInv, TypeOK, GdbUnlock, unlocked
<1>2. Handled' BY DEF IInv, Handled, GdbUnlock
<1>3. /\ shown_reg' = shown_reg /\ shown_answer' = shown_answer
      /\ shown_phase = "done" /\ shown_phase' = "idle"
  BY DEF GdbUnlock, shown_reg, shown_phase, shown_answer, Committed
<1>4. Atomic!Finish BY <1>3 DEF Atomic!Finish, GdbUnlock
<1> QED BY <1>1, <1>2, <1>4 DEF Refined, Atomic!Next

\* The fetch shows nothing: the pc shown is the one it starts from.
LEMMA FetchStep ==
  ASSUME IInv, Fetch
  PROVE  TypeOK' /\ Handled' /\ Refined
<1> USE DEF others, irqs
<1>1. reg \in registers_data BY DEF IInv, TypeOK
<1>2. reg' \in registers_data /\ back' = reg
  BY <1>1, FetchUndone DEF Fetch, back
<1>3. reg.pc \in Word BY <1>1 DEF registers_data
<1>4. fetch' = (IF fetched(reg) THEN Program[reg.pc] ELSE NotFetched)
      /\ fetch' \in Instrs \cup {NotFetched}
  BY <1>3, ProgramAssumption DEF Fetch
<1>5. TypeOK' BY <1>2, <1>4 DEF IInv, TypeOK, Fetch, GdbHolds
<1>6. Handled' BY <1>2, <1>4 DEF IInv, Handled, Fetch
<1>7. /\ shown_reg' = shown_reg /\ shown_answer' = shown_answer
      /\ shown_phase' = shown_phase
  BY <1>2 DEF Fetch, shown_reg, shown_phase, shown_answer, Committed
<1>8. Refined BY <1>7 DEF Refined, Atomic!vars, Fetch
<1> QED BY <1>5, <1>6, <1>8

\* the end of an instruction, which shows it,
LEMMA ExecuteStep ==
  ASSUME IInv, Execute
  PROVE  TypeOK' /\ Handled' /\ Refined
<1> USE DEF irqs
<1>1. gdb_at = "execute" /\ UNCHANGED <<lock, irqs, main_at>> BY DEF Execute
<1>2. PICK o \in outcomes(back) :
        \/ /\ o.result = Aborted
           /\ process' = "assertion_failed"
           /\ UNCHANGED <<core, gdb>>
        \/ /\ o.result # Aborted
           /\ reg' = o.reg
           /\ target_exception' = o.result
           /\ gdb_at' = "stepped"
           /\ fetch' = NotFetched
           /\ UNCHANGED <<breakpoints, request, left, seen, answer, process>>
  BY <1>1, ExecuteIsStep DEF Execute
<1>3. CASE o.result = Aborted
  BY <1>1, <1>2, <1>3, AsideStep DEF gdb, IInv, TypeOK, Handled
<1>4. CASE o.result # Aborted
  <2>1. o.reg \in registers_data /\ o.result \in 0..255
    BY <1>1, <1>4, ExecuteIsStep DEF Typed, Aborted
  <2>2. TypeOK' BY <1>1, <1>2, <1>4, <2>1 DEF IInv, TypeOK, GdbHolds
  <2>3. Handled' BY <1>1, <1>2, <1>4 DEF IInv, Handled
  <2>4. o \in survived(back) BY <1>4 DEF survived
  <2>5. /\ shown_reg = back /\ shown_reg' = o.reg /\ shown_phase = "asked"
        /\ shown_answer = answer
        /\ shown_phase' = IF stops' THEN "done" ELSE "asked"
        /\ shown_answer' = IF stops' THEN reason(o.result) ELSE answer
    BY <1>1, <1>2, <1>4 DEF shown_reg, shown_phase, shown_answer, Committed
  <2>6. stops' <=> \/ request.op = "s"
                   \/ o.reg.pc \in breakpoints
                   \/ o.result # 0
    BY <1>2, <1>4 DEF stops
  <2>7. request.op \in {"s", "c"} BY <1>1 DEF IInv, Handled
  <2>8. Atomic!Step
    BY <1>2, <1>4, <2>4, <2>5, <2>6, <2>7 DEF Atomic!Step, Atomic!Answer
  <2> QED BY <2>2, <2>3, <2>8 DEF Refined, Atomic!Next
<1> QED BY <1>3, <1>4

\* The answer to a step or a cont was shown as the instruction ended.
LEMMA SteppedStep ==
  ASSUME IInv, Stepped
  PROVE  TypeOK' /\ Handled' /\ Refined
<1> USE DEF core, locals, others, irqs
<1>1. TypeOK' BY DEF IInv, TypeOK, Stepped, Send, GdbHolds
<1>2. Handled' BY DEF IInv, Handled, Stepped, Send
<1>3. /\ shown_reg' = shown_reg /\ shown_answer' = shown_answer
      /\ shown_phase' = shown_phase
  BY DEF Stepped, Send, shown_reg, shown_phase, shown_answer, Committed, reason
<1>4. Refined BY <1>3 DEF Refined, Atomic!vars, Stepped
<1> QED BY <1>1, <1>2, <1>4

\* g: the registers read are those of one register file, the mutex being held.
LEMMA ReadStep ==
  ASSUME IInv, ReadRegister
  PROVE  TypeOK' /\ Handled' /\ Refined
<1> USE DEF core, others, irqs
<1>1. /\ reg \in registers_data /\ left \subseteq RegNums
      /\ seen \in [RegNums -> Word] /\ gdb_at = "read_registers"
      /\ request.op = "g"
      /\ \A n \in RegNums \ left : seen[n] = read_register(n)
  BY DEF IInv, TypeOK, Handled, ReadRegister
<1>2. CASE left # {}
  <2>1. /\ gdb_at' = gdb_at /\ answer' = answer
        /\ seen' = [seen EXCEPT ![first] = read_register(first)]
        /\ left' = left \ {first}
        /\ UNCHANGED <<core, lock, request, fetch, others>>
    BY <1>2 DEF ReadRegister
  <2>2. first \in RegNums BY <1>1, <1>2, FirstIsLeft
  <2>3. read_register(first) \in Word BY <1>1, ReadIsWord DEF read_register
  <2>4. left' \subseteq RegNums /\ seen' \in [RegNums -> Word]
    BY <1>1, <2>1, <2>2, <2>3
  <2>5. TypeOK' BY <2>1, <2>4 DEF IInv, TypeOK
  <2>6. \A n \in RegNums \ left' : seen'[n] = read_register(n)
    BY <1>1, <2>1, <2>2
  <2>7. Handled' BY <1>1, <2>1, <2>6 DEF IInv, Handled, read_register
  <2>8. UNCHANGED <<shown_reg, shown_phase, shown_answer>>
    BY <1>1, <2>1 DEF shown_reg, shown_phase, shown_answer, Committed
  <2>9. Refined BY <2>1, <2>8 DEF Refined, Atomic!vars
  <2> QED BY <2>5, <2>7, <2>9
<1>3. CASE left = {}
  <2>1. /\ gdb_at' = "unlock"
        /\ answer' = [text |-> "registers", values |-> seen, cpsr |-> reg.cpsr]
        /\ seen' = Unseen /\ left' = left
        /\ UNCHANGED <<core, lock, request, fetch, others>>
    BY <1>3 DEF ReadRegister, Send
  <2>2. TypeOK' BY <2>1, SeenTyped DEF IInv, TypeOK, GdbHolds
  <2>3. Handled' BY <2>1 DEF IInv, Handled
  <2>4. seen = [n \in RegNums |-> registers_read(reg, n, registers_get_mode(reg))]
    BY <1>1, <1>3 DEF read_register
  <2>5. answer' = general_registers(reg) BY <2>1, <2>4 DEF general_registers
  <2>6. /\ shown_reg = reg /\ shown_reg' = reg
        /\ shown_phase = "asked" /\ shown_phase' = "done"
        /\ shown_answer' = answer'
    BY <1>1, <2>1 DEF shown_reg, shown_phase, shown_answer, Committed
  <2>7. Atomic!ReadRegisters
    BY <1>1, <2>1, <2>5, <2>6 DEF Atomic!ReadRegisters, Atomic!Answer
  <2> QED BY <2>2, <2>3, <2>7 DEF Refined, Atomic!Next
<1> QED BY <1>2, <1>3

\* G: shown at its first write, the others are absorbed in it.
LEMMA WriteStep ==
  ASSUME IInv, WriteRegister
  PROVE  TypeOK' /\ Handled' /\ Refined
<1> USE DEF others, irqs
<1>1. /\ reg \in registers_data /\ left \subseteq RegNums
      /\ gdb_at = "write_registers" /\ request \in Commands /\ request.op = "G"
  BY DEF IInv, TypeOK, Handled, WriteRegister
<1>2. request.values \in [RegNums -> Word] /\ request.cpsr \in Psr
  BY <1>1, WriteAllFields
<1>3. UNCHANGED <<target_exception, breakpoints, lock, request, seen, fetch, others>>
  BY DEF WriteRegister
<1> DEFINE whole == with_registers(reg, left, request.values, request.cpsr)
<1>4. /\ reg' \in registers_data /\ gdb_at' \in {"write_registers", "unlock"}
      /\ left' \subseteq RegNums /\ shown_reg' = whole
      /\ shown_phase' = "done" /\ shown_answer' = Text("OK")
  <2>1. CASE left # {}
    <3>1. /\ gdb_at' = gdb_at /\ answer' = answer /\ left' = left \ {first}
          /\ reg' = registers_write(reg, first, reg.current_mode,
                                    request.values[first])
      BY <2>1 DEF WriteRegister, registers_get_mode
    <3>2. first \in left /\ first \in RegNums /\ request.values[first] \in Word
      BY <1>1, <1>2, <2>1, FirstIsLeft
    <3>3. reg' \in registers_data BY <1>1, <3>1, <3>2, WriteKeepsType
    <3>4. with_registers(reg', left', request.values, request.cpsr) = whole
      BY <1>1, <3>1, <3>2, WriteAbsorbed
    <3>5. Committed' BY <1>1, <3>1, <3>2 DEF Committed
    <3>6. shown_reg' = whole /\ shown_phase' = "done" /\ shown_answer' = Text("OK")
      BY <1>1, <1>3, <3>1, <3>4, <3>5 DEF shown_reg, shown_phase, shown_answer
    <3> QED BY <1>1, <3>1, <3>3, <3>6
  <2>2. CASE left = {}
    <3>1. /\ gdb_at' = "unlock" /\ answer' = Text("OK") /\ left' = left
          /\ reg' = registers_write_cpsr(reg, request.cpsr)
      BY <2>2 DEF WriteRegister, Send
    <3>2. reg' \in registers_data BY <1>1, <1>2, <3>1, WriteCpsrKeepsType
    <3>3. reg' = whole BY <1>1, <2>2, <3>1, WrittenAtEnd
    <3>4. shown_reg' = reg' /\ shown_phase' = "done" /\ shown_answer' = answer'
      BY <3>1 DEF shown_reg, shown_phase, shown_answer, Committed
    <3> QED BY <1>1, <3>1, <3>2, <3>3, <3>4
  <2> QED BY <2>1, <2>2
<1>5. TypeOK' BY <1>3, <1>4 DEF IInv, TypeOK, GdbHolds
<1>6. Handled' BY <1>1, <1>3, <1>4 DEF IInv, Handled
<1>7. CASE left = RegNums
  <2>1. shown_reg = reg /\ shown_phase = "asked"
    BY <1>1, <1>7 DEF shown_reg, shown_phase, Committed
  <2>2. shown_reg' = loaded(shown_reg, request) BY <1>4, <1>7, <2>1 DEF loaded
  <2>3. Atomic!WriteRegisters
    BY <1>1, <1>3, <1>4, <2>1, <2>2 DEF Atomic!WriteRegisters, Atomic!Answer
  <2> QED BY <1>5, <1>6, <2>3 DEF Refined, Atomic!Next
<1>8. CASE left # RegNums
  <2>1. shown_reg = whole /\ shown_phase = "done" /\ shown_answer = Text("OK")
    BY <1>1, <1>8 DEF shown_reg, shown_phase, shown_answer, Committed
  <2>2. Refined BY <1>3, <1>4, <2>1 DEF Refined, Atomic!vars
  <2> QED BY <1>5, <1>6, <2>2
<1> QED BY <1>7, <1>8

\* a handler of one step,
LEMMA HandleStep ==
  ASSUME IInv, Handle
  PROVE  TypeOK' /\ Handled' /\ Refined
<1> USE DEF locals, others, irqs
<1>1. /\ gdb_at = "handle" /\ gdb_at' = "unlock"
      /\ UNCHANGED <<reg, target_exception, lock, locals, others>>
  BY DEF Handle, Send
<1>2. TypeOK' BY <1>1 DEF IInv, TypeOK, GdbHolds
<1>3. Handled' BY <1>1 DEF IInv, Handled
<1>4. /\ shown_reg' = shown_reg /\ shown_phase = "asked" /\ shown_phase' = "done"
      /\ shown_answer' = answer'
  BY <1>1 DEF shown_reg, shown_phase, shown_answer, Committed
<1>5. Atomic!SetBreakpoint \/ Atomic!RemoveBreakpoint \/ Atomic!TellReason
  BY <1>1, <1>4 DEF Handle, Send, reason, Atomic!SetBreakpoint,
       Atomic!RemoveBreakpoint, Atomic!TellReason, Atomic!Answer
<1> QED BY <1>2, <1>3, <1>5 DEF Refined, Atomic!Next

\* An exception raised by a byte finds no handler half way: the mutex is held.
LEMMA RaiseStep ==
  ASSUME IInv, Raise
  PROVE  TypeOK' /\ Handled' /\ Refined
<1>1. /\ irq_at = "raise"
      /\ UNCHANGED <<target_exception, breakpoints, lock, gdb, irq, main_at>>
  BY DEF Raise
<1>2. CASE Destroyed /\ process' = "use_after_free" /\ UNCHANGED <<reg, irq_at>>
  BY <1>1, <1>2, AsideStep DEF core, gdb, IInv, TypeOK, Handled
<1>3. CASE /\ \E swi \in SwiWords : reg' = arm_exception(reg, irq, swi).reg
           /\ irq_at' = "unlock" /\ process' = process
  <2>1. irq \in IrqBytes BY <1>1 DEF IInv, Handled
  <2>2. reg' \in interrupted(reg, irq) BY <1>3 DEF interrupted
  <2>3. reg' \in registers_data
    BY <2>1, <2>2, InterruptedTyped DEF IInv, TypeOK
  <2>4. gdb_at \notin GdbHolds BY <1>1 DEF IInv, MutualExclusion
  <2>5. TypeOK' BY <1>1, <1>3, <2>3 DEF IInv, TypeOK, gdb, locals
  <2>6. Handled' BY <1>1, <1>3, <2>4 DEF IInv, Handled, GdbHolds, gdb, locals
  <2>7. /\ shown_reg = reg /\ shown_reg' = reg'
        /\ UNCHANGED <<shown_phase, shown_answer>>
    BY <1>1, <2>4 DEF shown_reg, shown_phase, shown_answer, Committed, GdbHolds,
                      gdb, locals
  <2>8. Atomic!Interrupt(irq)
    BY <1>1, <2>2, <2>7 DEF Atomic!Interrupt, gdb, locals
  <2> QED BY <2>1, <2>5, <2>6, <2>8 DEF Refined, Atomic!Next
<1> QED BY <1>2, <1>3 DEF Raise

\* and the steps of the irq thread and of main that change no register.
LEMMA IrqStep ==
  ASSUME IInv,
         \/ IrqAccept \/ IrqDisconnect \/ IrqLock \/ IrqUnlock \/ Main \/ Exit
         \/ UnixError \/ \E byte \in IrqBytes : IrqRead(byte)
  PROVE  TypeOK' /\ Handled' /\ Refined
<1> USE DEF gdb, irqs, IInv, TypeOK, Handled
<1>1. CASE IrqAccept \/ IrqDisconnect
  BY <1>1, AsideStep DEF IrqAccept, IrqDisconnect
<1>2. CASE IrqLock BY <1>2, AsideStep DEF IrqLock, core
<1>3. CASE IrqUnlock BY <1>3, AsideStep DEF IrqUnlock, unlocked, core
<1>4. CASE Main BY <1>4, AsideStep DEF Main, after, core
<1>5. CASE Exit BY <1>5, AsideStep DEF Exit, core
<1>6. CASE \E byte \in IrqBytes : IrqRead(byte)
  <2>1. PICK byte \in IrqBytes : IrqRead(byte) BY <1>6
  <2>2. byte \in 0..255 BY SimulatorAssumption
  <2> QED BY <2>1, <2>2, AsideStep DEF IrqRead
<1>7. CASE UnixError BY <1>7, AsideStep DEF UnixError, core
<1> QED BY <1>1, <1>2, <1>3, <1>4, <1>5, <1>6, <1>7

\* Every step keeps the invariant and is one of the atomic simulator's or none.
LEMMA StepRefined ==
  ASSUME IInv, [Next]_vars
  PROVE  IInv' /\ Refined
<1>1. MutualExclusion' BY StepSafe DEF IInv
<1>2. CASE UNCHANGED vars
  BY <1>1, <1>2, AsideStep DEF vars, gdb, others, irqs, IInv, TypeOK, Handled
<1>3. CASE GdbAccept \/ Disconnect BY <1>1, <1>3, AcceptStep DEF IInv
<1>4. CASE \E command \in Commands : Receive(command)
  BY <1>1, <1>4, ReceiveStep DEF IInv
<1>5. CASE Gdb
  BY <1>1, <1>5, GdbLockStep, GdbUnlockStep, FetchStep, ExecuteStep, SteppedStep,
     ReadStep, WriteStep, HandleStep DEF Gdb, IInv
<1>6. CASE Raise BY <1>1, <1>6, RaiseStep DEF IInv
<1>7. CASE \/ IrqAccept \/ IrqDisconnect \/ IrqLock \/ IrqUnlock \/ Main \/ Exit
           \/ UnixError \/ \E byte \in IrqBytes : IrqRead(byte)
  BY <1>1, <1>7, IrqStep DEF IInv
<1> QED BY <1>2, <1>3, <1>4, <1>5, <1>6, <1>7 DEF Next, Irq

\* What each handler has done so far holds in every reachable state.
LEMMA IInvAlways == Spec => []IInv
<1>1. Init => IInv BY InitRefined
<1>2. IInv /\ [Next]_vars => IInv' BY StepRefined
<1> QED BY <1>1, <1>2, PTL DEF Spec

\* The state of the three threads keeps its shape: the register file well
\* formed and each command one the debugger sends, whatever the interleaving.
THEOREM SimulatorTypeCorrect == Spec => []TypeOK
BY IInvAlways, PTL DEF IInv

\* Whatever the threads interleave, the debugger and the interrupt senders see
\* instructions, interrupts, g and G each happen at one instant.
THEOREM SimulatorIsAtomic == Spec => AtomicSpec
<1>1. Init => Atomic!Init BY InitRefined
<1>2. IInv /\ [Next]_vars => [Atomic!Next]_(Atomic!vars)
  BY StepRefined DEF Refined
<1> QED BY <1>1, <1>2, IInvAlways, PTL DEF Spec, AtomicSpec, Atomic!Spec
=============================================================================
