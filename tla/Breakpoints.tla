---------------------------- MODULE Breakpoints ----------------------------
(***************************************************************************)
(* The breakpoint table of gdb_protocol.c, one action per turn of each of  *)
(* its loops: gdb_find_breakpoint, gdb_add_breakpoint (the Z command),     *)
(* gdb_remove_breakpoint (z) and the test cont makes after every           *)
(* instruction. It is shown to implement BreakpointSet.                    *)
(***************************************************************************)
EXTENDS Integers

CONSTANTS
  MAX_BREAKPOINTS_NUMBER,
  Addresses,  \* the addresses of Z, z and of the program counter
  Unset       \* what malloc left in the table

ASSUME BreakpointsAssumption ==
  /\ MAX_BREAKPOINTS_NUMBER \in Nat
  /\ Addresses \subseteq Nat
  /\ Unset \in Nat

VARIABLES
  breakpoints,         \* the array of the table
  breakpoints_number,  \* how many of its cells are in use
  at,                  \* the loop the thread is in, "idle" outside them
  command,             \* the handler that runs: "Z", "z" or "cont"
  address,             \* its argument
  begin, end,          \* the locals of gdb_find_breakpoint
  j,                   \* the local of the two shifting loops
  answer               \* what the last handler answered

table == <<breakpoints, breakpoints_number>>
vars == <<table, at, command, address, begin, end, j, answer>>

Cells == 0..MAX_BREAKPOINTS_NUMBER - 1

Init ==
  /\ breakpoints = [i \in Cells |-> Unset]
  /\ breakpoints_number = 0
  /\ at = "idle"
  /\ command = "cont"
  /\ address = Unset
  /\ begin = 0 /\ end = 0 /\ j = 0
  /\ answer = "none"

Return(value) ==
  /\ at' = "idle"
  /\ answer' = value

\* set_breakpoint, remove_breakpoint or cont is given an address.
Call(c, a) ==
  /\ at = "idle"
  /\ command' = c
  /\ address' = a
  /\ at' = IF c = "Z" THEN "room" ELSE "find"
  /\ begin' = 0
  /\ end' = breakpoints_number
  /\ UNCHANGED <<table, j, answer>>

\* gdb_add_breakpoint asks for room before it looks the address up.
room_fits_late == breakpoints_number <= MAX_BREAKPOINTS_NUMBER
room_fits == breakpoints_number < MAX_BREAKPOINTS_NUMBER

Room ==
  /\ at = "room"
  /\ \/ room_fits /\ at' = "find" /\ UNCHANGED answer
     \/ ~room_fits /\ Return("E04")
  /\ UNCHANGED <<table, command, address, begin, end, j>>

middle == (begin + end) \div 2

upper_half_skip == middle + 2
upper_half == middle + 1

Narrow ==
  /\ at = "find" /\ begin < end
  /\ \/ /\ breakpoints[middle] > address
        /\ end' = middle
        /\ UNCHANGED begin
     \/ /\ breakpoints[middle] < address
        /\ begin' = upper_half
        /\ UNCHANGED end
  /\ UNCHANGED <<table, at, command, address, j, answer>>

found == at = "find" /\ begin < end /\ breakpoints[middle] = address

\* gdb_find_breakpoint returns middle to gdb_add_breakpoint and to cont.
AlreadySet ==
  /\ found /\ command = "Z" /\ Return("OK")
  /\ UNCHANGED <<table, command, address, begin, end, j>>

Stop ==
  /\ found /\ command = "cont" /\ Return("stop")
  /\ UNCHANGED <<table, command, address, begin, end, j>>

\* gdb_find_breakpoint returns middle: gdb_remove_breakpoint starts to close
\* the gap.
StartClose ==
  /\ found /\ command = "z"
  /\ breakpoints_number' = breakpoints_number - 1
  /\ j' = middle
  /\ at' = "close"
  /\ UNCHANGED <<breakpoints, command, address, begin, end, answer>>

missing == at = "find" /\ begin >= end

\* gdb_find_breakpoint returns -1: gdb_add_breakpoint starts to insert.
StartInsert ==
  /\ missing /\ command = "Z"
  /\ j' = breakpoints_number
  /\ breakpoints_number' = breakpoints_number + 1
  /\ at' = "insert"
  /\ UNCHANGED <<breakpoints, command, address, begin, end, answer>>

\* A gdb_remove_breakpoint that does not look at the position.
NotSet_unseen ==
  /\ missing /\ command = "z"
  /\ j' = -1
  /\ breakpoints_number' = breakpoints_number - 1
  /\ at' = "close"
  /\ UNCHANGED <<breakpoints, command, address, begin, end, answer>>

\* gdb_find_breakpoint returns -1 to the other two.
NotSet ==
  /\ missing /\ command = "z" /\ Return("E05")
  /\ UNCHANGED <<table, command, address, begin, end, j>>

GoOn ==
  /\ missing /\ command = "cont" /\ Return("go_on")
  /\ UNCHANGED <<table, command, address, begin, end, j>>

shift_on_from_j == j > 0 /\ breakpoints[j] > address
shift_on == j > 0 /\ breakpoints[j - 1] > address

Insert ==
  /\ at = "insert"
  /\ \/ /\ shift_on
        /\ breakpoints' = [breakpoints EXCEPT ![j] = breakpoints[j - 1]]
        /\ j' = j - 1
        /\ UNCHANGED <<at, answer>>
     \/ /\ ~shift_on
        /\ breakpoints' = [breakpoints EXCEPT ![j] = address]
        /\ Return("OK")
        /\ UNCHANGED j
  /\ UNCHANGED <<breakpoints_number, command, address, begin, end>>

closed_early == j >= breakpoints_number - 1
closed == j >= breakpoints_number

Close ==
  /\ at = "close"
  /\ \/ /\ ~closed
        /\ breakpoints' = [breakpoints EXCEPT ![j] = breakpoints[j + 1]]
        /\ j' = j + 1
        /\ UNCHANGED <<at, answer>>
     \/ /\ closed
        /\ Return("OK")
        /\ UNCHANGED <<breakpoints, j>>
  /\ UNCHANGED <<breakpoints_number, command, address, begin, end>>

Run ==
  \/ Room \/ Narrow
  \/ AlreadySet \/ Stop \/ StartClose
  \/ StartInsert \/ NotSet \/ GoOn
  \/ Insert \/ Close

Next ==
  \/ \E c \in {"Z", "z", "cont"}, a \in Addresses : Call(c, a)
  \/ Run

\* The handler's thread is not stopped for ever between two statements.
Spec == Init /\ [][Next]_vars /\ WF_vars(Run)

-----------------------------------------------------------------------------
\* Every local stays within the table, so no loop reads or writes outside it.
TypeOK ==
  /\ breakpoints \in [Cells -> Addresses \cup {Unset}]
  /\ breakpoints_number \in 0..MAX_BREAKPOINTS_NUMBER
  /\ at \in {"idle", "room", "find", "insert", "close"}
  /\ command \in {"Z", "z", "cont"}
  /\ address \in Addresses \cup {Unset}
  /\ begin \in 0..MAX_BREAKPOINTS_NUMBER /\ end \in 0..MAX_BREAKPOINTS_NUMBER
  /\ j \in 0..MAX_BREAKPOINTS_NUMBER
  /\ answer \in {"none", "OK", "E04", "E05", "stop", "go_on"}

\* The cells that hold a breakpoint: those in use, but for the gap at j while
\* one is being inserted or closed.
Held ==
  CASE at = "insert" -> (0..breakpoints_number - 1) \ {j}
    [] at = "close" -> (0..breakpoints_number) \ {j}
    [] OTHER -> 0..breakpoints_number - 1

Increasing == \A a, b \in Held : a < b => breakpoints[a] < breakpoints[b]

WindowIsRight ==
  at = "find" =>
    /\ begin <= end /\ end <= breakpoints_number
    /\ \A i \in Held : (i < begin => breakpoints[i] < address)
                       /\ (i >= end => breakpoints[i] > address)

GapIsRight ==
  /\ at = "insert" =>
       /\ command = "Z" /\ j < breakpoints_number
       /\ \A i \in Held : /\ breakpoints[i] # address
                          /\ i > j => breakpoints[i] > address
  /\ at = "close" =>
       /\ command = "z" /\ j <= breakpoints_number
       /\ breakpoints_number < MAX_BREAKPOINTS_NUMBER
       /\ \A i \in Held : breakpoints[i] # address

RoomIsRight ==
  /\ at = "room" => command = "Z" /\ begin = 0 /\ end = breakpoints_number
  /\ at = "find" /\ command = "Z" => room_fits

\* The table is strictly increasing whenever gdb_find_breakpoint bisects it,
\* and at every turn of the loops that shift it but for the cell in motion;
\* the bisection never excludes a cell that may hold the address; and a table
\* that had room when it was asked for has it when the insertion starts.
TableOrdered == Increasing /\ WindowIsRight /\ GapIsRight /\ RoomIsRight

Contents == {breakpoints[i] : i \in Held}
              \cup (IF at = "close" THEN {address} ELSE {})

NoQuestion == [command |-> "none", address |-> Unset]

Set == INSTANCE BreakpointSet WITH
  Limit <- MAX_BREAKPOINTS_NUMBER,
  Nothing <- NoQuestion,
  set <- Contents,
  asked <- IF at = "idle" THEN NoQuestion
           ELSE [command |-> command, address |-> address]

\* The loops implement a set of addresses: cont stops exactly at those set and
\* not removed since, Z is refused only when the table is full, z only when
\* the address is not set, and every question is answered, so that no
\* bisection and no shift goes on for ever.
SetSpec == Set!Spec

\* Its part that says what an answer is, and not that there is one.
SetSafety == Set!Safety
=============================================================================
