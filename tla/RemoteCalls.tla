---------------------------- MODULE RemoteCalls ----------------------------
(***************************************************************************)
(* What the remote protocol promises the debugger: its commands, numbered  *)
(* as it asks for them, are executed once each and in order, and it gets   *)
(* the answer to each before it asks for the next. A command need not end. *)
(* All this as long as the two ends are in step: nothing is promised of    *)
(* what they do once a byte that belongs to no packet has come between.    *)
(***************************************************************************)
EXTENDS Integers, Sequences

CONSTANT Limit  \* bound: commands asked for

VARIABLES
  asked,     \* how many commands the debugger has asked for
  executed,  \* the commands executed
  answered,  \* the commands whose answer the debugger has
  in_step    \* whether nothing but packets and acknowledgements has come

vars == <<asked, executed, answered, in_step>>

Init == asked = 0 /\ executed = <<>> /\ answered = <<>> /\ in_step = TRUE

Ask ==
  /\ in_step /\ Len(answered) = asked /\ asked < Limit
  /\ asked' = asked + 1
  /\ UNCHANGED <<executed, answered, in_step>>

Execute ==
  /\ in_step /\ Len(executed) < asked
  /\ executed' = Append(executed, asked)
  /\ UNCHANGED <<asked, answered, in_step>>

Answer ==
  /\ in_step /\ Len(answered) < Len(executed)
  /\ answered' = Append(answered, executed[Len(answered) + 1])
  /\ UNCHANGED <<asked, executed, in_step>>

\* For good: no other step is made out of step.
OutOfStep == in_step' = FALSE

Next == Ask \/ Execute \/ Answer \/ OutOfStep

Safety == Init /\ [][Next]_vars

\* No fairness for Execute: cont may run a program that never stops.
Spec == Safety /\ WF_vars(Answer)
=============================================================================
