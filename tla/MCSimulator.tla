---------------------------- MODULE MCSimulator ----------------------------
(***************************************************************************)
(* Registers r14 and pc, 5-bit words, a program of two instructions at the *)
(* bottom of a memory of 8 bytes.  The second, a half word stored with the *)
(* pc as base and written back to it, starts the program over: it goes on  *)
(* for ever, unless the access fails or the process dies of it.            *)
(***************************************************************************)
EXTENDS Simulator, ArmNames

MCRegNums == {14, 15}
MCUninitPsr == [M |-> 30, bits |-> {"I"}]

\* What send_irq sends without a name, and for a name it does not know.
MCIrqBytes == send_irq(<<>>) \cup send_irq(<<"unknown">>)

Move == [op |-> "alu", cond |-> "AL", rd |-> 14, S |-> FALSE]
Store == [op |-> "str", cond |-> "AL", rn |-> 15, wb |-> TRUE]
MCInstrs == {Move, Store}

Looping == [a \in Word |-> IF a = 0 THEN Move ELSE Store]

WriteAll == [op |-> "G", values |-> [n \in RegNums |-> 0],
             cpsr |-> [M |-> SVC, bits |-> {}]]
MCCommands == {[op |-> "s"], [op |-> "c"], [op |-> "g"], [op |-> "?"], WriteAll,
               [op |-> "Z", address |-> 4], [op |-> "z", address |-> 4]}
=============================================================================
