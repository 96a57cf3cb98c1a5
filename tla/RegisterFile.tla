---------------------------- MODULE RegisterFile ----------------------------
(***************************************************************************)
(* The register file under every sequence of the writes its callers make:  *)
(* arm_write_register, arm_write_usr_register, arm_write_cpsr and          *)
(* arm_write_spsr of arm_core.c, the mode being the current one or USR.    *)
(* It is shown to implement RegisterView, the view each mode has of it.    *)
(***************************************************************************)
EXTENDS Registers

CONSTANTS
  WrittenNums,  \* the register numbers callers pass, some of no register
  WrittenPsrs,  \* the status words callers write to the cpsr
  SavedPsrs     \* and to a saved status register

ASSUME RegisterFileAssumption ==
  /\ WrittenNums \subseteq Nat
  /\ WrittenPsrs \subseteq Psr /\ SavedPsrs \subseteq Psr
  /\ WrittenNums \cap 0..15 \subseteq RegNums

VARIABLE file

FileInit == file = registers_create

WriteRegister(n, value) == file' = arm_write_register(file, n, value)

WriteUsrRegister(n, value) == file' = arm_write_usr_register(file, n, value)

WriteCpsr(psr) == file' = registers_write_cpsr(file, psr)

WriteSpsr(psr) == file' = arm_write_spsr(file, psr)

FileNext ==
  \/ \E n \in WrittenNums, value \in Word : WriteRegister(n, value)
  \/ \E n \in WrittenNums, value \in Word : WriteUsrRegister(n, value)
  \/ \E psr \in WrittenPsrs : WriteCpsr(psr)
  \/ \E psr \in SavedPsrs : WriteSpsr(psr)

FileSpec == FileInit /\ [][FileNext]_file

-----------------------------------------------------------------------------
AllModes == Modes \cup {NoMode}
SpsrModes == {FIQ, IRQ, SVC, ABT, UND}

View == INSTANCE RegisterView WITH
  Invalid <- NoMode, Fiq <- FIQ, UserModes <- {USR, SYS},
  SavingModes <- SpsrModes, Regs <- RegNums, Words <- Word,
  Psrs <- WrittenPsrs \cup SavedPsrs \cup {UninitPsr},
  Ones <- [word |-> UINT32_MAX, psr |-> [M |-> 31, bits |-> PsrBits]],
  view <- [m \in AllModes |-> [n \in RegNums |-> registers_read(file, n, m)]],
  saved <- [m \in AllModes |-> registers_read_spsr(file, m)],
  psr <- file.cpsr

\* Once the cpsr has been written, the mode that selects the bank of every
\* later access is the one its mode bits name, or the invalid mode when they
\* name none: no write leaves the cached current_mode behind the cpsr.
CachedModeFollows ==
  file.cpsr = UninitPsr \/ file.current_mode = mode_update(file.cpsr)

\* The register file always is a value of struct registers_data, in
\* particular every write leaves each of its arrays within its bounds, and its
\* cached mode is that of its cpsr.
FileTypeOK == file \in registers_data /\ CachedModeFollows

\* Through any sequence of register writes and mode switches, each mode reads
\* what was last written in a mode that shares the register with it: the
\* banking of registers.c neither leaks a write into another mode's view nor
\* loses one, but for r13, r14 and the SPSR of a mode that has none.
ViewSpec == View!Spec

=============================================================================
