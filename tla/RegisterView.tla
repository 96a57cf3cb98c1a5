---------------------------- MODULE RegisterView ----------------------------
(***************************************************************************)
(* What the register file promises to the rest of the simulator: every     *)
(* mode has a view of the general registers and of the saved status        *)
(* register, and a write made in one mode shows in exactly the modes that  *)
(* share that register with it.  No bank and no index appears here.        *)
(***************************************************************************)
EXTENDS Naturals

CONSTANTS
  AllModes,      \* the processor modes and the invalid one
  Invalid,       \* the mode the program falls in when M names none
  Fiq,           \* the mode with its own r8..r12
  UserModes,     \* the modes that share r13 and r14
  SavingModes,   \* the modes that have a saved status register
  Regs, Words, Psrs,
  Ones           \* what a read without a register behind it returns

VARIABLES
  view,   \* view[m][n]: what mode m reads in register n
  saved,  \* saved[m]: what mode m reads in its saved status register
  psr     \* the current status register

vars == <<view, saved, psr>>

\* A write to register n in mode m is visible in mode k.
Shares(n, m, k) ==
  CASE n \in 8..12 -> (m = Fiq) = (k = Fiq)
    [] n \in {13, 14} -> m # Invalid /\ (m = k \/ {m, k} \subseteq UserModes)
    [] OTHER -> TRUE

\* The invalid mode has neither r13, r14 nor a saved status register.
Init ==
  /\ \E w \in Words :
       view = [m \in AllModes |-> [n \in Regs |->
                 IF m = Invalid /\ n \in {13, 14} THEN Ones.word ELSE w]]
  /\ \E s \in Psrs :
       /\ saved = [m \in AllModes |-> IF m \in SavingModes THEN s ELSE Ones.psr]
       /\ psr = s

Write(n, m, w) ==
  /\ view' = [k \in AllModes |->
                [view[k] EXCEPT ![n] = IF Shares(n, m, k) THEN w ELSE @]]
  /\ UNCHANGED <<saved, psr>>

Save(m, s) ==
  /\ saved' = [saved EXCEPT ![m] = s]
  /\ UNCHANGED <<view, psr>>

Switch(s) ==
  /\ psr' = s
  /\ UNCHANGED <<view, saved>>

Next ==
  \/ \E n \in Regs, m \in AllModes, w \in Words : Write(n, m, w)
  \/ \E m \in SavingModes, s \in Psrs : Save(m, s)
  \/ \E s \in Psrs : Switch(s)

Spec == Init /\ [][Next]_vars
=============================================================================
