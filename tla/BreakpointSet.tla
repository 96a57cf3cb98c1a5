--------------------------- MODULE BreakpointSet ---------------------------
(***************************************************************************)
(* What the breakpoints of gdb_protocol.c promise a debugger: a set of at  *)
(* most Limit addresses and one answer to every question about it.         *)
(***************************************************************************)
EXTENDS Naturals, FiniteSets

CONSTANTS
  Addresses,  \* the addresses asked about
  Limit,      \* how many of them the set can hold
  Nothing     \* no question

Commands == {"Z", "z", "cont"}

VARIABLES
  set,     \* the addresses at which cont stops
  asked,   \* the question being answered, or Nothing
  answer   \* the answer to the previous one

vars == <<set, asked, answer>>

Questions == [command : Commands, address : Addresses]

Init == set = {} /\ asked = Nothing /\ answer = "none"

Ask(question) ==
  /\ asked = Nothing
  /\ asked' = question
  /\ UNCHANGED <<set, answer>>

Insert ==
  /\ asked.command = "Z"
  /\ \/ /\ Cardinality(set) < Limit
        /\ set' = set \cup {asked.address}
        /\ answer' = "OK"
     \/ /\ Cardinality(set) = Limit
        /\ set' = set
        /\ answer' = "E04"

Delete ==
  /\ asked.command = "z"
  /\ set' = set \ {asked.address}
  /\ answer' = IF asked.address \in set THEN "OK" ELSE "E05"

Test ==
  /\ asked.command = "cont"
  /\ set' = set
  /\ answer' = IF asked.address \in set THEN "stop" ELSE "go_on"

Answer ==
  /\ asked # Nothing
  /\ asked' = Nothing
  /\ Insert \/ Delete \/ Test

Next == Answer \/ \E question \in Questions : Ask(question)

Safety == Init /\ [][Next]_vars

Spec == Safety /\ WF_vars(Answer)
=============================================================================
