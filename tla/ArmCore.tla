------------------------------- MODULE ArmCore -------------------------------
(***************************************************************************)
(* The simulated processor: arm_step fetches and executes one instruction, *)
(* whatever the memory holds, and enters the exception it ends with;       *)
(* between two steps the interrupt socket raises exceptions of its own.    *)
(***************************************************************************)
EXTENDS ArmStep

CONSTANTS
  IrqBytes,   \* the exception numbers the interrupt socket carries
  MaxCycles,  \* bound: instructions fetched
  MaxRaised   \* bound: exceptions raised by the socket

ASSUME CoreAssumption ==
  /\ IrqBytes \subseteq 0..255
  /\ MaxCycles \in Nat /\ MaxRaised \in Nat
  /\ UninitPsr.M \notin Modes

VARIABLES
  reg,          \* the register file
  result,       \* what the last arm_step or arm_exception returned
  cycle_count,  \* instructions fetched since arm_create
  raised        \* exceptions raised by the socket

vars == <<reg, result, cycle_count, raised>>

Init ==
  /\ reg = arm_create(registers_create)
  /\ result = 0
  /\ cycle_count = 0
  /\ raised = 0

Take(outcome) ==
  /\ reg' = outcome.reg
  /\ result' = outcome.result

Step(ins) ==
  /\ cycle_count < MaxCycles /\ result # Aborted
  /\ fetched(reg)
  /\ \E o \in arm_step(reg, ins) : Take(o)
  /\ cycle_count' = cycle_count + 1
  /\ UNCHANGED raised

FetchAbort ==
  /\ cycle_count < MaxCycles /\ result # Aborted
  /\ ~fetched(reg)
  /\ Take(fetch_fails(arm_fetch(reg)))
  /\ cycle_count' = cycle_count + 1
  /\ UNCHANGED raised

Raise(e) ==
  /\ raised < MaxRaised /\ result # Aborted
  /\ \E swi \in SwiWords : Take(arm_exception(reg, e, swi))
  /\ raised' = raised + 1
  /\ UNCHANGED cycle_count

Next ==
  \/ \E ins \in Instrs : Step(ins)
  \/ FetchAbort
  \/ \E e \in IrqBytes : Raise(e)

Spec == Init /\ [][Next]_vars

-----------------------------------------------------------------------------
TypeOK ==
  /\ reg \in registers_data
  /\ result \in 0..256
  /\ cycle_count \in 0..MaxCycles
  /\ raised \in 0..MaxRaised

\* A status word that names a mode names a privileged one, in ARM state, with
\* interrupts and aborts masked.
Masked(psr) ==
  psr.M \in Modes => /\ psr.M \notin {USR, SYS}
                     /\ {"I", "A"} \subseteq psr.bits
                     /\ {"T", "E"} \cap psr.bits = {}

\* The mode that selects the register banks is the one the cpsr names.
ModeTracksCpsr(r) == r.current_mode = mode_update(r.cpsr)

\* What an exception saved can be restored at any time: the saved status
\* registers hold masked status words.
SavedMasked(r) == \A m \in {FIQ, IRQ, SVC, ABT, UND} : Masked(registers_read_spsr(r, m))

Sound(r) == ModeTracksCpsr(r) /\ Masked(r.cpsr) /\ SavedMasked(r)

\* Whatever the program does, the core never runs in user or system mode and
\* never with interrupts enabled: exceptions always save a masked cpsr, and
\* MSR and the return from an exception can only produce a masked cpsr or
\* one that names no mode; and no instruction, exception or interrupt moves
\* the cpsr without the mode that selects the banks.
CoreInv == Sound(reg)

EntryMode(e) ==
  CASE e = RESET -> SVC
    [] e \in {DATA_ABORT, PREFETCH_ABORT} -> ABT
    [] e = FAST_INTERRUPT -> FIQ
    [] e = INTERRUPT -> IRQ
    [] e = UNDEFINED_INSTRUCTION -> UND
    [] OTHER -> NoMode

\* w is r but for the pc, an r14 and a saved status register of the interrupted
\* or of the entered mode; and one of those two SPSRs holds the cpsr of r when
\* e is an exception that saves it.
Frame(r, w, e) ==
  LET home == {r.current_mode, EntryMode(e)}
  IN  /\ \A n \in RegNums, m \in Modes :
           registers_read(w, n, m) # registers_read(r, n, m) =>
             \/ n = 15
             \/ n = 14 /\ \E h \in home : r13_r14_bank(m) = r13_r14_bank(h)
      /\ \A m \in Modes :
           registers_read_spsr(w, m) # registers_read_spsr(r, m) =>
             m \in home /\ registers_read_spsr(w, m) = r.cpsr
      /\ e # RESET /\ EntryMode(e) # NoMode /\ r.current_mode \in Modes =>
           \E h \in home : registers_read_spsr(w, h) = r.cpsr

\* An exception entered from outside an instruction keeps the cpsr it interrupts,
\* unchanged, in the SPSR of the interrupted or of the entered mode, and changes no
\* other register than the pc, a link and that SPSR, in no mode but these two. Which
\* of the two it should be, is what the next property is about.
InterruptFrame ==
  [][\A e \in IrqBytes : Raise(e) => Frame(reg, reg', e)]_vars

\* arm_exception.c:100 saves the cpsr in the SPSR of the mode entered ("SPSR du
\* mode correspondant"; SPSR_irq, SPSR_abt, SPSR_und in the entries). The code
\* saves it, and the link with it, before it switches: in the interrupted mode's.
\* A return then restores what another entry saved in the entered mode's SPSR.
SavedInEnteredMode ==
  [][\A e \in IrqBytes : Raise(e) /\ e # RESET /\ EntryMode(e) # NoMode =>
       registers_read_spsr(reg', EntryMode(e)) = reg.cpsr]_vars
=============================================================================
