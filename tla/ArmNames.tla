------------------------------ MODULE ArmNames ------------------------------
(***************************************************************************)
(* The names of modes and exceptions (arm_constants.c) and the program     *)
(* that sends an interrupt by its name (send_irq.c).  A name is a string,  *)
(* a table a function from the numbers that have a name.                   *)
(***************************************************************************)
EXTENDS Integers

arm_mode_names ==
  [m \in {16, 17, 18, 19, 23, 27, 31} |->
     CASE m = 16 -> "USR" [] m = 17 -> "FIQ" [] m = 18 -> "IRQ" [] m = 19 -> "SVC"
       [] m = 23 -> "ABT" [] m = 27 -> "UND" [] m = 31 -> "SYS"]

\* -1 for a name of no mode.
arm_get_mode_number_last(name) ==  \* mutant: the table's end for a name of no mode
  IF \E m \in DOMAIN arm_mode_names : arm_mode_names[m] = name
  THEN CHOOSE m \in DOMAIN arm_mode_names : arm_mode_names[m] = name
  ELSE 32
arm_get_mode_number(name) ==
  IF \E m \in DOMAIN arm_mode_names : arm_mode_names[m] = name
  THEN CHOOSE m \in DOMAIN arm_mode_names : arm_mode_names[m] = name
  ELSE -1

arm_exception_names ==
  [e \in 1..8 |->
     CASE e = 1 -> "reset" [] e = 2 -> "data abort" [] e = 3 -> "fast interrupt"
       [] e = 4 -> "interrupt" [] e = 5 -> "imprecise abort"
       [] e = 6 -> "prefetch abort" [] e = 7 -> "undefined instruction"
       [] e = 8 -> "software interrupt"]

Unnamed == ""

\* The table has a name for 8, which is never returned.
arm_get_exception_name(e) == IF e \in 1..7 THEN arm_exception_names[e] ELSE Unnamed

\* The byte sent for the names on the command line: none for an unknown one.
send_irq(arguments) ==
  LET irq[e \in 1..8] ==
        CASE arm_get_exception_name(e) = Unnamed -> {}
          [] arm_get_exception_name(e) = arguments[1] -> {e}
          [] OTHER -> irq[e + 1]
  IN  IF arguments = <<>> THEN {4} ELSE irq[1]
=============================================================================
