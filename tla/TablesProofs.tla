---------------------------- MODULE TablesProofs ----------------------------
(***************************************************************************)
(* The two sorted tables of the simulator, which are bisected.  For every  *)
(* size of the table and every set of addresses, the loops over the        *)
(* breakpoint table keep it in order and answer as BreakpointSet does.     *)
(* For every size, the table of debug.c has exactly the names asked for,   *)
(* and the stack of trace.c follows the accesses it is a trace of.         *)
(***************************************************************************)
EXTENDS Breakpoints, Instrumentation, FiniteSetTheorems, SequenceTheorems,
        WellFoundedInduction, TLAPS

Inv == TypeOK /\ TableOrdered

\* Cells are natural numbers, and the table holds natural numbers.
LEMMA TableOfNumbers ==
  ASSUME TypeOK
  PROVE  /\ breakpoints_number \in Nat /\ j \in Nat
         /\ begin \in Nat /\ end \in Nat /\ address \in Nat
         /\ \A i \in Cells : breakpoints[i] \in Nat
         /\ Held \subseteq Nat
<1> USE BreakpointsAssumption DEF BreakpointsAssumption
<1>1. breakpoints_number \in Nat /\ j \in Nat /\ begin \in Nat /\ end \in Nat
  BY DEF TypeOK
<1>2. address \in Nat BY DEF TypeOK
<1>3. \A i \in Cells : breakpoints[i] \in Nat BY DEF TypeOK
<1>4. Held \subseteq Nat BY <1>1 DEF Held
<1> QED BY <1>1, <1>2, <1>3, <1>4

\* Every cell that holds a breakpoint is a cell of the table.
LEMMA HeldAreCells ==
  ASSUME Inv
  PROVE  Held \subseteq Cells
BY BreakpointsAssumption DEF Inv, TypeOK, TableOrdered, GapIsRight, Held, Cells

\* The bisection looks at a cell in use, within its window.
LEMMA MiddleIsHeld ==
  ASSUME Inv, at = "find", begin < end
  PROVE  /\ middle \in Nat /\ begin <= middle /\ middle < end
         /\ middle \in Held /\ middle \in Cells
<1>1. begin \in Nat /\ end \in Nat BY TableOfNumbers DEF Inv
<1>2. \A x, y \in Nat : x < y => /\ (x + y) \div 2 \in Nat
                                  /\ x <= (x + y) \div 2 /\ (x + y) \div 2 < y
  OBVIOUS
<1>3. middle \in Nat /\ begin <= middle /\ middle < end BY <1>1, <1>2 DEF middle
<1>4. end <= breakpoints_number /\ breakpoints_number \in Nat
  BY TableOfNumbers DEF Inv, TableOrdered, WindowIsRight
<1>5. middle \in Held BY <1>1, <1>3, <1>4 DEF Held
<1> QED BY <1>3, <1>5, HeldAreCells

\* The table before the first command.
LEMMA InitOrdered == Init => Inv
<1> SUFFICES ASSUME Init PROVE Inv OBVIOUS
<1> USE BreakpointsAssumption DEF Init
<1>1. TypeOK BY DEF TypeOK
<1>2. Held = {} BY DEF Held
<1>3. TableOrdered
  BY <1>2 DEF TableOrdered, Increasing, WindowIsRight, GapIsRight, RoomIsRight
<1> QED BY <1>1, <1>3 DEF Inv

\* The steps that leave the table, its window and its gap as they are.
LEMMA QuietKept ==
  ASSUME Inv, UNCHANGED table, at \notin {"insert", "close"},
         at' = "idle", answer' \in {"OK", "E04", "E05", "stop", "go_on"},
         UNCHANGED <<command, address, begin, end, j>>
  PROVE  Inv'
<1> USE DEF Inv, table
<1>1. TypeOK' BY DEF TypeOK
<1>2. Held' = Held BY DEF Held
<1>3. Increasing' BY <1>2 DEF TableOrdered, Increasing
<1> QED BY <1>1, <1>3
        DEF TableOrdered, WindowIsRight, GapIsRight, RoomIsRight

\* A question changes nothing in the table.
LEMMA CallKept ==
  ASSUME Inv, NEW c \in {"Z", "z", "cont"}, NEW a \in Addresses, Call(c, a)
  PROVE  Inv'
<1> USE DEF Inv, table, Call
<1>1. TypeOK' BY BreakpointsAssumption DEF TypeOK
<1>2. Held' = Held BY DEF Held
<1>3. Increasing' BY <1>2 DEF TableOrdered, Increasing
<1>4. \A i \in Held : i >= 0 /\ i < breakpoints_number
  BY TableOfNumbers DEF Held
<1>5. WindowIsRight'
  BY <1>2, <1>4, TableOfNumbers DEF WindowIsRight
<1>6. GapIsRight' /\ RoomIsRight' BY DEF GapIsRight, RoomIsRight
<1> QED BY <1>1, <1>3, <1>5, <1>6 DEF TableOrdered

\* Finding room for an insertion changes nothing in the table.
LEMMA RoomKept ==
  ASSUME Inv, Room
  PROVE  Inv'
<1>1. CASE ~room_fits /\ Return("E04")
  BY <1>1, QuietKept DEF Room, Return
<1>2. CASE room_fits /\ at' = "find" /\ UNCHANGED answer
  <2> USE <1>2 DEF Inv, table, Room
  <2>1. TypeOK' BY DEF TypeOK
  <2>2. Held' = Held BY DEF Held
  <2>3. Increasing' BY <2>2 DEF TableOrdered, Increasing
  <2>4. begin = 0 /\ end = breakpoints_number
    BY DEF TableOrdered, RoomIsRight
  <2>5. \A i \in Held : i >= 0 /\ i < breakpoints_number
    BY TableOfNumbers DEF Held
  <2>6. WindowIsRight'
    BY <2>2, <2>4, <2>5, TableOfNumbers DEF WindowIsRight
  <2>7. GapIsRight' /\ RoomIsRight' BY DEF GapIsRight, RoomIsRight, room_fits
  <2> QED BY <2>1, <2>3, <2>6, <2>7 DEF TableOrdered
<1> QED BY <1>1, <1>2 DEF Room

\* The half of the window that is left still holds every cell that may hold
\* the address.
LEMMA NarrowKept ==
  ASSUME Inv, Narrow
  PROVE  Inv'
<1> USE DEF Inv, table
<1>1. /\ at = "find" /\ begin < end /\ at' = "find"
      /\ UNCHANGED <<breakpoints, breakpoints_number, command, address, j, answer>>
  BY DEF Narrow
<1>2. /\ middle \in Nat /\ begin <= middle /\ middle < end
      /\ middle \in Held /\ middle \in Cells
  BY <1>1, MiddleIsHeld
<1>3. /\ begin \in Nat /\ end \in Nat /\ address \in Nat /\ Held \subseteq Nat
      /\ \A i \in Held : breakpoints[i] \in Nat
  BY TableOfNumbers, HeldAreCells
<1>4. end <= breakpoints_number /\ breakpoints_number \in Nat
  BY <1>1, TableOfNumbers DEF TableOrdered, WindowIsRight
<1>5. Held' = Held BY <1>1 DEF Held
<1>6. Increasing BY DEF TableOrdered
<1>7. Increasing' BY <1>1, <1>5, <1>6 DEF Increasing
<1>8. TypeOK' /\ WindowIsRight'
  <2>1. CASE breakpoints[middle] > address /\ end' = middle /\ UNCHANGED begin
    <3>1. TypeOK' BY <1>1, <1>2, <1>3, <2>1, BreakpointsAssumption DEF TypeOK
    <3>2. \A i \in Held : i >= middle => breakpoints[i] > address
      <4> SUFFICES ASSUME NEW i \in Held, i >= middle
                   PROVE  breakpoints[i] > address
        OBVIOUS
      <4>1. i = middle \/ breakpoints[middle] < breakpoints[i]
        BY <1>2, <1>3, <1>6 DEF Increasing
      <4> QED BY <1>2, <1>3, <2>1, <4>1
    <3>3. \A i \in Held : i < begin => breakpoints[i] < address
      BY <1>1 DEF TableOrdered, WindowIsRight
    <3>4. WindowIsRight'
      BY <1>1, <1>2, <1>3, <1>4, <1>5, <2>1, <3>2, <3>3 DEF WindowIsRight
    <3> QED BY <3>1, <3>4
  <2>2. CASE breakpoints[middle] < address /\ begin' = upper_half /\ UNCHANGED end
    <3>1. begin' = middle + 1 BY <2>2 DEF upper_half
    <3>2. TypeOK'
      BY <1>1, <1>2, <1>3, <2>2, <3>1, BreakpointsAssumption DEF TypeOK
    <3>3. \A i \in Held : i < middle + 1 => breakpoints[i] < address
      <4> SUFFICES ASSUME NEW i \in Held, i < middle + 1
                   PROVE  breakpoints[i] < address
        OBVIOUS
      <4>1. i = middle \/ breakpoints[i] < breakpoints[middle]
        BY <1>2, <1>3, <1>6 DEF Increasing
      <4> QED BY <1>2, <1>3, <2>2, <4>1
    <3>4. \A i \in Held : i >= end => breakpoints[i] > address
      BY <1>1 DEF TableOrdered, WindowIsRight
    <3>5. WindowIsRight'
      BY <1>1, <1>2, <1>3, <1>4, <1>5, <2>2, <3>1, <3>3, <3>4 DEF WindowIsRight
    <3> QED BY <3>2, <3>5
  <2> QED BY <2>1, <2>2 DEF Narrow
<1>9. GapIsRight' /\ RoomIsRight'
  BY <1>1 DEF TableOrdered, GapIsRight, RoomIsRight, room_fits
<1> QED BY <1>7, <1>8, <1>9 DEF TableOrdered

\* When the bisection ends without the address, no cell holds it.
LEMMA MissingIsMissing ==
  ASSUME Inv, missing
  PROVE  \A i \in Held : breakpoints[i] # address
<1>1. at = "find" /\ begin >= end /\ begin <= end
  BY DEF missing, Inv, TableOrdered, WindowIsRight
<1>2. \A i \in Held : /\ i < begin => breakpoints[i] < address
                      /\ i >= end => breakpoints[i] > address
  BY <1>1 DEF Inv, TableOrdered, WindowIsRight
<1>3. begin \in Nat /\ end \in Nat /\ address \in Nat /\ Held \subseteq Nat
  BY TableOfNumbers DEF Inv
<1>4. \A i \in Held : breakpoints[i] \in Nat BY TableOfNumbers, HeldAreCells DEF Inv
<1> QED BY <1>1, <1>2, <1>3, <1>4

\* The gap of an insertion opens at the end of the table.
LEMMA StartInsertKept ==
  ASSUME Inv, StartInsert
  PROVE  Inv'
<1> USE DEF Inv
<1>1. /\ at = "find" /\ command = "Z" /\ at' = "insert"
      /\ j' = breakpoints_number /\ breakpoints_number' = breakpoints_number + 1
      /\ UNCHANGED <<breakpoints, command, address, begin, end, answer>>
  BY DEF StartInsert, missing
<1>2. /\ breakpoints_number < MAX_BREAKPOINTS_NUMBER
      /\ breakpoints_number \in Nat /\ Held \subseteq Nat
  BY <1>1, TableOfNumbers DEF TableOrdered, RoomIsRight, room_fits
<1>3. Held = 0..breakpoints_number - 1 BY <1>1 DEF Held
<1>4. Held' = Held BY <1>1, <1>2, <1>3 DEF Held
<1>5. TypeOK' BY <1>1, <1>2, BreakpointsAssumption DEF TypeOK
<1>6. Increasing' BY <1>1, <1>4 DEF TableOrdered, Increasing
<1>7. \A i \in Held : breakpoints[i] # address
  BY MissingIsMissing DEF StartInsert
<1>8. GapIsRight' BY <1>1, <1>2, <1>3, <1>4, <1>7 DEF GapIsRight
<1>9. WindowIsRight' /\ RoomIsRight' BY <1>1 DEF WindowIsRight, RoomIsRight
<1> QED BY <1>5, <1>6, <1>8, <1>9 DEF TableOrdered

\* The gap of a removal opens at the cell found.
LEMMA StartCloseKept ==
  ASSUME Inv, StartClose
  PROVE  Inv'
<1> USE DEF Inv
<1>1. /\ at = "find" /\ begin < end /\ command = "z" /\ at' = "close"
      /\ breakpoints[middle] = address
      /\ j' = middle /\ breakpoints_number' = breakpoints_number - 1
      /\ UNCHANGED <<breakpoints, command, address, begin, end, answer>>
  BY DEF StartClose, found
<1>2. /\ middle \in Nat /\ begin <= middle /\ middle < end
      /\ middle \in Held /\ middle \in Cells
  BY <1>1, MiddleIsHeld
<1>3. /\ begin \in Nat /\ end \in Nat /\ address \in Nat /\ Held \subseteq Nat
      /\ breakpoints_number \in Nat
      /\ \A i \in Held : breakpoints[i] \in Nat
  BY TableOfNumbers, HeldAreCells
<1>4. end <= breakpoints_number BY <1>1 DEF TableOrdered, WindowIsRight
<1>5. breakpoints_number <= MAX_BREAKPOINTS_NUMBER BY DEF TypeOK
<1>6. Held = 0..breakpoints_number - 1 BY <1>1 DEF Held
<1>7. Held' = Held \ {middle} BY <1>1, <1>3, <1>6 DEF Held
<1>8. TypeOK'
  BY <1>1, <1>2, <1>3, <1>4, <1>5, BreakpointsAssumption DEF TypeOK, Cells
<1>9. Increasing BY DEF TableOrdered
<1>10. Increasing' BY <1>1, <1>7, <1>9 DEF Increasing
<1>11. \A i \in Held : i # middle => breakpoints[i] # address
  BY <1>1, <1>2, <1>3, <1>9 DEF Increasing
<1>12. GapIsRight'
  BY <1>1, <1>2, <1>3, <1>4, <1>5, <1>7, <1>11, BreakpointsAssumption
     DEF GapIsRight
<1>13. WindowIsRight' /\ RoomIsRight' BY <1>1 DEF WindowIsRight, RoomIsRight
<1> QED BY <1>8, <1>10, <1>12, <1>13 DEF TableOrdered

\* Shifting a cell up keeps the order: the gap moves down by one.
LEMMA InsertKept ==
  ASSUME Inv, Insert
  PROVE  Inv'
<1> USE DEF Inv
<1>1. /\ at = "insert" /\ j < breakpoints_number
      /\ command = "Z"
      /\ UNCHANGED <<breakpoints_number, command, address, begin, end>>
      /\ \A i \in Held : /\ breakpoints[i] # address
                         /\ i > j => breakpoints[i] > address
  BY DEF Insert, TableOrdered, GapIsRight
<1>2. /\ address \in Nat /\ breakpoints_number \in Nat /\ j \in Nat
      /\ breakpoints_number <= MAX_BREAKPOINTS_NUMBER
      /\ \A i \in Held : breakpoints[i] \in Nat
  BY TableOfNumbers, HeldAreCells DEF TypeOK
<1>3. Held = (0..breakpoints_number - 1) \ {j} BY <1>1 DEF Held
<1>4. \A i, k \in Held : i < k => breakpoints[i] < breakpoints[k]
  BY DEF TableOrdered, Increasing
<1>5. breakpoints \in [Cells -> Addresses \cup {Unset}] /\ j \in Cells
  BY <1>1, <1>2, BreakpointsAssumption DEF TypeOK, Cells
<1>6. CASE /\ shift_on /\ j' = j - 1 /\ UNCHANGED <<at, answer>>
           /\ breakpoints' = [breakpoints EXCEPT ![j] = breakpoints[j - 1]]
  <2>1. j > 0 /\ breakpoints[j - 1] > address BY <1>6 DEF shift_on
  <2>2. j - 1 \in Held BY <1>1, <1>2, <1>3, <2>1
  <2>3. Held' = (0..breakpoints_number - 1) \ {j - 1} BY <1>1, <1>6 DEF Held
  <2>4. \A i \in Cells :
          breakpoints'[i] = IF i = j THEN breakpoints[j - 1] ELSE breakpoints[i]
    BY <1>5, <1>6
  <2>5. TypeOK'
    BY <1>1, <1>2, <1>5, <1>6, <2>1, <2>2, HeldAreCells, BreakpointsAssumption
       DEF TypeOK
  <2>6. \A i \in Held' : /\ i \in Cells /\ i \in Nat
                         /\ i = j \/ i \in Held
    BY <1>2, <1>3, <2>3, BreakpointsAssumption DEF Cells
  <2>7. Increasing'
    <3> SUFFICES ASSUME NEW a \in Held', NEW b \in Held', a < b
                 PROVE  breakpoints'[a] < breakpoints'[b]
      BY DEF Increasing
    <3>1. a = j => b \in Held /\ j - 1 < b BY <1>2, <2>6
    <3>2. b = j => a \in Held /\ a < j - 1 BY <1>2, <2>3, <2>6
    <3> QED BY <1>4, <2>2, <2>4, <2>6, <3>1, <3>2
  <2>8. GapIsRight'
    <3> SUFFICES ASSUME NEW i \in Held'
                 PROVE  /\ breakpoints'[i] # address
                        /\ i > j - 1 => breakpoints'[i] > address
      BY <1>1, <1>2, <1>6 DEF GapIsRight
    <3>1. CASE i = j BY <1>2, <2>1, <2>2, <2>4, <2>6, <3>1
    <3>2. CASE i # j BY <1>1, <1>2, <2>3, <2>4, <2>6, <3>2
    <3> QED BY <3>1, <3>2
  <2>9. WindowIsRight' /\ RoomIsRight'
    BY <1>1, <1>6 DEF WindowIsRight, RoomIsRight
  <2> QED BY <2>5, <2>7, <2>8, <2>9 DEF TableOrdered
<1>7. CASE /\ ~shift_on /\ Return("OK") /\ UNCHANGED j
           /\ breakpoints' = [breakpoints EXCEPT ![j] = address]
  <2>1. at' = "idle" /\ answer' = "OK" BY <1>7 DEF Return
  <2>2. j > 0 => breakpoints[j - 1] < address
    <3> SUFFICES ASSUME j > 0 PROVE breakpoints[j - 1] < address OBVIOUS
    <3>1. ~(breakpoints[j - 1] > address) BY <1>7 DEF shift_on
    <3>2. j - 1 \in Held BY <1>1, <1>2, <1>3
    <3> QED BY <1>1, <1>2, <3>1, <3>2
  <2>3. Held' = 0..breakpoints_number - 1 BY <1>1, <2>1 DEF Held
  <2>4. \A i \in Cells :
          breakpoints'[i] = IF i = j THEN address ELSE breakpoints[i]
    BY <1>5, <1>7
  <2>5. TypeOK' BY <1>1, <1>7, <2>1 DEF TypeOK
  <2>6. \A i \in Held' : /\ i \in Cells /\ i \in Nat
                         /\ i = j \/ i \in Held
    BY <1>2, <1>3, <2>3, BreakpointsAssumption DEF Cells
  <2>7. \A i \in Held : i < j => breakpoints[i] < address
    <3> SUFFICES ASSUME NEW i \in Held, i < j PROVE breakpoints[i] < address
      OBVIOUS
    <3>1. i \in Nat /\ j - 1 \in Held BY <1>1, <1>2, <1>3
    <3>2. i = j - 1 \/ breakpoints[i] < breakpoints[j - 1] BY <1>2, <1>4, <3>1
    <3> QED BY <1>2, <2>2, <3>1, <3>2
  <2>8. Increasing'
    <3> SUFFICES ASSUME NEW a \in Held', NEW b \in Held', a < b
                 PROVE  breakpoints'[a] < breakpoints'[b]
      BY DEF Increasing
    <3>1. CASE a = j BY <1>1, <1>2, <2>4, <2>6, <3>1
    <3>2. CASE b = j BY <1>2, <2>4, <2>6, <2>7, <3>2
    <3>3. CASE a # j /\ b # j BY <1>4, <2>4, <2>6, <3>3
    <3> QED BY <3>1, <3>2, <3>3
  <2>9. WindowIsRight' /\ RoomIsRight' /\ GapIsRight'
    BY <2>1 DEF WindowIsRight, RoomIsRight, GapIsRight
  <2> QED BY <2>5, <2>8, <2>9 DEF TableOrdered
<1> QED BY <1>6, <1>7 DEF Insert

\* Shifting a cell down keeps the order: the gap moves up by one.
LEMMA CloseKept ==
  ASSUME Inv, Close
  PROVE  Inv'
<1> USE DEF Inv
<1>1. /\ at = "close" /\ j <= breakpoints_number
      /\ breakpoints_number < MAX_BREAKPOINTS_NUMBER /\ command = "z"
      /\ UNCHANGED <<breakpoints_number, command, address, begin, end>>
      /\ \A i \in Held : breakpoints[i] # address
  BY DEF Close, TableOrdered, GapIsRight
<1>2. /\ address \in Nat /\ breakpoints_number \in Nat /\ j \in Nat
      /\ \A i \in Held : breakpoints[i] \in Nat
  BY TableOfNumbers, HeldAreCells
<1>3. Held = (0..breakpoints_number) \ {j} BY <1>1 DEF Held
<1>4. \A i, k \in Held : i < k => breakpoints[i] < breakpoints[k]
  BY DEF TableOrdered, Increasing
<1>5. breakpoints \in [Cells -> Addresses \cup {Unset}] /\ j \in Cells
  BY <1>1, <1>2, BreakpointsAssumption DEF TypeOK, Cells
<1>6. CASE /\ ~closed /\ j' = j + 1 /\ UNCHANGED <<at, answer>>
           /\ breakpoints' = [breakpoints EXCEPT ![j] = breakpoints[j + 1]]
  <2>1. j < breakpoints_number BY <1>2, <1>6 DEF closed
  <2>2. j + 1 \in Held BY <1>2, <1>3, <2>1
  <2>3. Held' = (0..breakpoints_number) \ {j + 1} BY <1>1, <1>6 DEF Held
  <2>4. \A i \in Cells :
          breakpoints'[i] = IF i = j THEN breakpoints[j + 1] ELSE breakpoints[i]
    BY <1>5, <1>6
  <2>5. TypeOK'
    BY <1>1, <1>2, <1>5, <1>6, <2>1, <2>2, HeldAreCells, BreakpointsAssumption
       DEF TypeOK
  <2>6. \A i \in Held' : /\ i \in Cells /\ i \in Nat
                         /\ i = j \/ i \in Held
    BY <1>1, <1>2, <1>3, <2>3, BreakpointsAssumption DEF Cells
  <2>7. Increasing'
    <3> SUFFICES ASSUME NEW a \in Held', NEW b \in Held', a < b
                 PROVE  breakpoints'[a] < breakpoints'[b]
      BY DEF Increasing
    <3>1. a = j => b \in Held /\ j + 1 < b BY <1>2, <2>3, <2>6
    <3>2. b = j => a \in Held /\ a < j + 1 BY <1>2, <2>6
    <3> QED BY <1>4, <2>2, <2>4, <2>6, <3>1, <3>2
  <2>8. GapIsRight'
    <3> SUFFICES ASSUME NEW i \in Held' PROVE breakpoints'[i] # address
      BY <1>1, <1>2, <1>6, <2>1 DEF GapIsRight
    <3>1. i = j \/ i \in Held BY <2>6
    <3> QED BY <1>1, <2>2, <2>4, <2>6, <3>1
  <2>9. WindowIsRight' /\ RoomIsRight'
    BY <1>1, <1>6 DEF WindowIsRight, RoomIsRight
  <2> QED BY <2>5, <2>7, <2>8, <2>9 DEF TableOrdered
<1>7. CASE closed /\ Return("OK") /\ UNCHANGED <<breakpoints, j>>
  <2>1. at' = "idle" /\ answer' = "OK" BY <1>7 DEF Return
  <2>2. j = breakpoints_number BY <1>1, <1>2, <1>7 DEF closed
  <2>3. Held' = Held BY <1>1, <1>2, <1>3, <2>1, <2>2 DEF Held
  <2>4. TypeOK' BY <1>1, <1>7, <2>1 DEF TypeOK
  <2>5. Increasing' BY <1>4, <1>7, <2>3 DEF Increasing
  <2>6. WindowIsRight' /\ RoomIsRight' /\ GapIsRight'
    BY <2>1 DEF WindowIsRight, RoomIsRight, GapIsRight
  <2> QED BY <2>4, <2>5, <2>6 DEF TableOrdered
<1> QED BY <1>6, <1>7 DEF Close

\* Every step keeps the invariant.
LEMMA StepKept ==
  ASSUME Inv, [Next]_vars
  PROVE  Inv'
<1>1. CASE \E c \in {"Z", "z", "cont"}, a \in Addresses : Call(c, a)
  BY <1>1, CallKept
<1>2. CASE Room BY <1>2, RoomKept
<1>3. CASE Narrow BY <1>3, NarrowKept
<1>4. CASE AlreadySet \/ Stop \/ NotSet \/ GoOn
  BY <1>4, QuietKept DEF AlreadySet, Stop, NotSet, GoOn, found, missing, Return
<1>5. CASE StartClose BY <1>5, StartCloseKept
<1>6. CASE StartInsert BY <1>6, StartInsertKept
<1>7. CASE Insert BY <1>7, InsertKept
<1>8. CASE Close BY <1>8, CloseKept
<1>9. CASE UNCHANGED vars
  <2> USE <1>9 DEF vars, table
  <2>1. Held' = Held BY DEF Held
  <2>2. TypeOK' BY DEF Inv, TypeOK
  <2>3. TableOrdered'
    BY <2>1 DEF Inv, TableOrdered, Increasing, WindowIsRight, GapIsRight,
                RoomIsRight, room_fits
  <2> QED BY <2>2, <2>3 DEF Inv
<1> QED
  BY <1>1, <1>2, <1>3, <1>4, <1>5, <1>6, <1>7, <1>8, <1>9 DEF Next, Run

\* The table is typed and in order in every reachable state.
LEMMA InvAlways == Spec => []Inv
BY InitOrdered, StepKept, PTL DEF Spec

\* No loop over the breakpoint table leaves it, whatever its size.
THEOREM BreakpointsTypeCorrect == Spec => []TypeOK
BY InvAlways, PTL DEF Inv

\* The table is in strict order whenever gdb_find_breakpoint bisects it, and
\* the bisection never excludes a cell that may hold the address.
THEOREM BreakpointsOrdered == Spec => []TableOrdered
BY InvAlways, PTL DEF Inv

-----------------------------------------------------------------------------
(* The table implements a set. *)

\* The cells of the table in use hold different addresses.
LEMMA ContentsCounted ==
  ASSUME Inv, at # "close"
  PROVE  /\ IsFiniteSet(Contents)
         /\ Cardinality(Contents) =
              IF at = "insert" THEN breakpoints_number - 1 ELSE breakpoints_number
<1> DEFINE f == [i \in Held |-> breakpoints[i]]
           n == breakpoints_number
<1>1. n \in Nat /\ j \in Nat /\ Held \subseteq Nat BY TableOfNumbers DEF Inv
<1>2. \A i \in Held : breakpoints[i] \in Nat BY TableOfNumbers, HeldAreCells DEF Inv
<1>3. Contents = {breakpoints[i] : i \in Held} BY DEF Contents
<1>4. \A a, b \in Held : breakpoints[a] = breakpoints[b] => a = b
  <2> SUFFICES ASSUME NEW a \in Held, NEW b \in Held,
                      breakpoints[a] = breakpoints[b], a # b
               PROVE  FALSE
    OBVIOUS
  <2>1. a < b \/ b < a BY <1>1
  <2> QED BY <1>2, <2>1 DEF Inv, TableOrdered, Increasing
<1>5. f \in [Held -> Contents] BY <1>3
<1>6. f \in Injection(Held, Contents) BY <1>4, <1>5 DEF Injection, IsInjective
<1>7. f \in Surjection(Held, Contents) BY <1>3, <1>5 DEF Surjection
<1>8. ExistsBijection(Held, Contents)
  BY <1>6, <1>7 DEF ExistsBijection, Bijection
<1>9. IsFiniteSet(0..n - 1) /\ Cardinality(0..n - 1) = n
  <2>1. n - 1 \in Int /\ 0 \in Int BY <1>1
  <2>2. /\ IsFiniteSet(0..n - 1)
        /\ Cardinality(0..n - 1) = IF 0 > n - 1 THEN 0 ELSE n - 1 - 0 + 1
    BY <2>1, FS_Interval
  <2> QED BY <1>1, <2>2
<1>10. CASE at = "insert"
  <2>1. j \in 0..n - 1
    BY <1>1, <1>10 DEF Inv, TableOrdered, GapIsRight
  <2>2. Held = (0..n - 1) \ {j} BY <1>10 DEF Held
  <2>3. IsFiniteSet(Held) /\ Cardinality(Held) = n - 1
    BY <1>9, <2>1, <2>2, FS_RemoveElement
  <2> QED BY <1>8, <1>10, <2>3, FS_Bijection
<1>11. CASE at # "insert"
  <2>1. Held = 0..n - 1 BY <1>11 DEF Held
  <2> QED BY <1>8, <1>9, <1>11, <2>1, FS_Bijection
<1> QED BY <1>10, <1>11

\* The question the set answers while a handler runs.
Asked == IF at = "idle" THEN NoQuestion
         ELSE [command |-> command, address |-> address]

\* Outside idle, the question asked of the set is the command under way.
LEMMA AskedIsAQuestion ==
  ASSUME TypeOK, at # "idle"
  PROVE  /\ Asked # NoQuestion
         /\ Asked.command = command /\ Asked.address = address
<1>1. Asked = [command |-> command, address |-> address] BY DEF Asked
<1>2. Asked.command # "none" BY <1>1 DEF TypeOK
<1>3. NoQuestion.command = "none" BY DEF NoQuestion
<1> QED BY <1>1, <1>2, <1>3

\* Both modules count with the same operator.
LEMMA SameCardinality == \A S : Set!Cardinality(S) = Cardinality(S)
BY DEF Cardinality, Set!Cardinality, IsFiniteSet, Set!IsFiniteSet

\* A step that ends a handler is the answer of the set.
LEMMA AnswerStep ==
  ASSUME TypeOK, at # "idle", at' = "idle",
         \/ /\ command = "Z"
            /\ \/ /\ Cardinality(Contents) < MAX_BREAKPOINTS_NUMBER
                  /\ Contents' = Contents \cup {address}
                  /\ answer' = "OK"
               \/ /\ Cardinality(Contents) = MAX_BREAKPOINTS_NUMBER
                  /\ Contents' = Contents
                  /\ answer' = "E04"
         \/ /\ command = "z"
            /\ Contents' = Contents \ {address}
            /\ answer' = IF address \in Contents THEN "OK" ELSE "E05"
         \/ /\ command = "cont"
            /\ Contents' = Contents
            /\ answer' = IF address \in Contents THEN "stop" ELSE "go_on"
  PROVE  Set!Next
<1>1. Asked # NoQuestion /\ Asked.command = command /\ Asked.address = address
  BY AskedIsAQuestion
<1>2. Asked' = NoQuestion BY DEF Asked, NoQuestion
<1>3. Set!Answer
  BY <1>1, <1>2, SameCardinality
     DEF Asked, Set!Answer, Set!Insert, Set!Delete, Set!Test
<1> QED BY <1>3 DEF Set!Next

\* A step inside a handler changes nothing of the set.
LEMMA SilentStep ==
  ASSUME at # "idle", at' # "idle", UNCHANGED <<command, address, answer>>,
         Contents' = Contents
  PROVE  UNCHANGED Set!vars
BY DEF Set!vars

\* Every step of the table is a step of the set or none.
LEMMA SetStep ==
  ASSUME Inv, [Next]_vars
  PROVE  [Set!Next]_(Set!vars)
<1> DEFINE Max == MAX_BREAKPOINTS_NUMBER
<1>0. TypeOK /\ breakpoints_number \in Nat /\ j \in Nat /\ address \in Nat
  BY TableOfNumbers DEF Inv
<1>1. ASSUME NEW c \in {"Z", "z", "cont"}, NEW a \in Addresses, Call(c, a)
      PROVE  Set!Next
  <2>1. at = "idle" /\ at' \in {"room", "find"} BY <1>1 DEF Call
  <2>2. UNCHANGED <<breakpoints, breakpoints_number, answer>>
    BY <1>1 DEF Call, table
  <2>3. Contents' = Contents BY <2>1, <2>2 DEF Contents, Held
  <2>4. [command |-> c, address |-> a] \in Set!Questions
    BY DEF Set!Questions, Set!Commands
  <2>5. Set!Ask([command |-> c, address |-> a])
    BY <1>1, <2>1, <2>2, <2>3 DEF Set!Ask, Call
  <2> QED BY <2>4, <2>5 DEF Set!Next
<1>2. CASE Room
  <2>1. at = "room" /\ command = "Z" /\ UNCHANGED <<breakpoints, breakpoints_number>>
    BY <1>2 DEF Room, table, Inv, TableOrdered, RoomIsRight
  <2>2. CASE room_fits /\ at' = "find" /\ UNCHANGED answer
    <3>1. Contents' = Contents BY <2>1, <2>2 DEF Contents, Held
    <3> QED BY <1>2, <2>1, <2>2, <3>1, SilentStep DEF Room
  <2>3. CASE ~room_fits /\ Return("E04")
    <3>1. at' = "idle" /\ answer' = "E04" BY <2>3 DEF Return
    <3>2. Contents' = Contents BY <2>1, <3>1 DEF Contents, Held
    <3>3. breakpoints_number = Max
      BY <1>0, <2>3, BreakpointsAssumption DEF TypeOK, room_fits
    <3>4. Cardinality(Contents) = Max BY <2>1, <3>3, ContentsCounted
    <3> QED BY <1>0, <2>1, <3>1, <3>2, <3>4, AnswerStep
  <2> QED BY <1>2, <2>2, <2>3 DEF Room
<1>3. CASE Narrow
  <2>1. /\ at = "find" /\ at' = "find"
        /\ UNCHANGED <<breakpoints, breakpoints_number, command, address, answer>>
    BY <1>3 DEF Narrow, table
  <2>2. Contents' = Contents BY <2>1 DEF Contents, Held
  <2> QED BY <2>1, <2>2, SilentStep
<1>4. CASE AlreadySet \/ Stop \/ NotSet \/ GoOn
  <2>1. /\ at = "find" /\ at' = "idle"
        /\ UNCHANGED <<breakpoints, breakpoints_number, command, address>>
    BY <1>4 DEF AlreadySet, Stop, NotSet, GoOn, found, missing, Return, table
  <2>2. Contents' = Contents /\ Contents = {breakpoints[i] : i \in Held}
    BY <2>1 DEF Contents, Held
  <2>3. found => address \in Contents
    BY <2>2, MiddleIsHeld DEF found
  <2>4. missing => address \notin Contents BY <2>2, MissingIsMissing
  <2>5. CASE AlreadySet
    <3>1. /\ found /\ command = "Z" /\ answer' = "OK"
      BY <2>5 DEF AlreadySet, Return
    <3>2. Contents' = Contents \cup {address} BY <2>2, <2>3, <3>1
    <3>3. breakpoints_number < Max
      BY <2>1, <3>1 DEF Inv, TableOrdered, RoomIsRight, room_fits
    <3>4. Cardinality(Contents) < Max BY <2>1, <3>3, ContentsCounted
    <3> QED BY <1>0, <2>1, <3>1, <3>2, <3>4, AnswerStep
  <2>6. CASE Stop
    BY <1>0, <2>1, <2>2, <2>3, <2>6, AnswerStep DEF Stop, Return
  <2>7. CASE NotSet
    <3>1. missing /\ command = "z" /\ answer' = "E05"
      BY <2>7 DEF NotSet, Return
    <3>2. Contents' = Contents \ {address} BY <2>2, <2>4, <3>1
    <3> QED BY <1>0, <2>1, <2>4, <3>1, <3>2, AnswerStep
  <2>8. CASE GoOn
    BY <1>0, <2>1, <2>2, <2>4, <2>8, AnswerStep DEF GoOn, Return
  <2> QED BY <1>4, <2>5, <2>6, <2>7, <2>8
<1>5. CASE StartClose
  <2>1. /\ at = "find" /\ at' = "close" /\ breakpoints[middle] = address
        /\ j' = middle /\ breakpoints_number' = breakpoints_number - 1
        /\ UNCHANGED <<breakpoints, command, address, answer>>
    BY <1>5 DEF StartClose, found
  <2>2. middle \in Held BY <1>5, MiddleIsHeld DEF StartClose, found
  <2>3. Held = 0..breakpoints_number - 1 BY <2>1 DEF Held
  <2>4. Held' = Held \ {middle} BY <1>0, <2>1, <2>3 DEF Held
  <2>5. Contents = {breakpoints[i] : i \in Held} BY <2>1 DEF Contents
  <2>6. Contents' = {breakpoints[i] : i \in Held \ {middle}} \cup {address}
    BY <2>1, <2>4 DEF Contents
  <2>7. Contents' = Contents BY <2>1, <2>2, <2>5, <2>6
  <2> QED BY <2>1, <2>7, SilentStep
<1>6. CASE StartInsert
  <2>1. /\ at = "find" /\ at' = "insert"
        /\ j' = breakpoints_number /\ breakpoints_number' = breakpoints_number + 1
        /\ UNCHANGED <<breakpoints, command, address, answer>>
    BY <1>6 DEF StartInsert, missing
  <2>2. Held' = Held BY <1>0, <2>1 DEF Held
  <2>3. Contents' = Contents BY <2>1, <2>2 DEF Contents
  <2> QED BY <2>1, <2>3, SilentStep
<1>7. CASE Insert
  <2>1. /\ at = "insert" /\ command = "Z" /\ j < breakpoints_number
        /\ UNCHANGED <<breakpoints_number, command, address>>
    BY <1>7 DEF Insert, Inv, TableOrdered, GapIsRight
  <2>2. Held = (0..breakpoints_number - 1) \ {j} BY <2>1 DEF Held
  <2>3. Contents = {breakpoints[i] : i \in Held} BY <2>1 DEF Contents
  <2>4. breakpoints \in [Cells -> Addresses \cup {Unset}] /\ j \in Cells
    BY <1>0, <2>1, BreakpointsAssumption DEF TypeOK, Cells
  <2>5. Held \subseteq Cells BY HeldAreCells
  <2>6. CASE /\ shift_on /\ j' = j - 1 /\ UNCHANGED <<at, answer>>
             /\ breakpoints' = [breakpoints EXCEPT ![j] = breakpoints[j - 1]]
    <3>1. j - 1 \in Held BY <1>0, <2>1, <2>2, <2>6 DEF shift_on
    <3>2. Held' = (0..breakpoints_number - 1) \ {j - 1}
      BY <2>1, <2>6 DEF Held
    <3>3. \A i \in Cells :
            breakpoints'[i] = IF i = j THEN breakpoints[j - 1] ELSE breakpoints[i]
      BY <2>4, <2>6
    <3>4. Held' = (Held \ {j - 1}) \cup {j} BY <1>0, <2>1, <2>2, <3>1, <3>2
    <3>5. Contents' = {breakpoints'[i] : i \in Held'}
      BY <2>1, <2>6 DEF Contents
    <3>6. ASSUME NEW x PROVE x \in Contents' <=> x \in Contents
      BY <2>2, <2>3, <2>4, <2>5, <3>1, <3>3, <3>4, <3>5
    <3> QED BY <2>1, <2>6, <3>6, SilentStep
  <2>7. CASE /\ ~shift_on /\ Return("OK") /\ UNCHANGED j
             /\ breakpoints' = [breakpoints EXCEPT ![j] = address]
    <3>1. at' = "idle" /\ answer' = "OK" BY <2>7 DEF Return
    <3>2. Held' = Held \cup {j} BY <1>0, <2>1, <2>2, <3>1 DEF Held
    <3>3. \A i \in Cells :
            breakpoints'[i] = IF i = j THEN address ELSE breakpoints[i]
      BY <2>4, <2>7
    <3>4. Contents' = {breakpoints'[i] : i \in Held'} BY <3>1 DEF Contents
    <3>5. ASSUME NEW x PROVE x \in Contents' <=> x \in Contents \cup {address}
      BY <2>2, <2>3, <2>4, <2>5, <3>2, <3>3, <3>4
    <3>6. Contents' = Contents \cup {address} BY <3>5
    <3>7. breakpoints_number <= Max BY <1>0 DEF TypeOK
    <3>8. Cardinality(Contents) < Max
      BY <1>0, <2>1, <3>7, ContentsCounted, BreakpointsAssumption
    <3> QED BY <1>0, <2>1, <3>1, <3>6, <3>8, AnswerStep
  <2> QED BY <1>7, <2>6, <2>7 DEF Insert
<1>8. CASE Close
  <2>1. /\ at = "close" /\ command = "z" /\ j <= breakpoints_number
        /\ breakpoints_number < Max
        /\ UNCHANGED <<breakpoints_number, command, address>>
        /\ \A i \in Held : breakpoints[i] # address
    BY <1>8 DEF Close, Inv, TableOrdered, GapIsRight
  <2>2. Held = (0..breakpoints_number) \ {j} BY <2>1 DEF Held
  <2>3. Contents = {breakpoints[i] : i \in Held} \cup {address}
    BY <2>1 DEF Contents
  <2>4. breakpoints \in [Cells -> Addresses \cup {Unset}] /\ j \in Cells
    BY <1>0, <2>1, BreakpointsAssumption DEF TypeOK, Cells
  <2>5. Held \subseteq Cells BY HeldAreCells
  <2>6. CASE /\ ~closed /\ j' = j + 1 /\ UNCHANGED <<at, answer>>
             /\ breakpoints' = [breakpoints EXCEPT ![j] = breakpoints[j + 1]]
    <3>1. j + 1 \in Held BY <1>0, <2>1, <2>2, <2>6 DEF closed
    <3>2. Held' = (0..breakpoints_number) \ {j + 1}
      BY <2>1, <2>6 DEF Held
    <3>3. \A i \in Cells :
            breakpoints'[i] = IF i = j THEN breakpoints[j + 1] ELSE breakpoints[i]
      BY <2>4, <2>6
    <3>4. Held' = (Held \ {j + 1}) \cup {j} BY <1>0, <2>1, <2>2, <3>1, <3>2
    <3>5. Contents' = {breakpoints'[i] : i \in Held'} \cup {address}
      BY <2>1, <2>6 DEF Contents
    <3>6. ASSUME NEW x PROVE x \in Contents' <=> x \in Contents
      BY <2>2, <2>3, <2>4, <2>5, <3>1, <3>3, <3>4, <3>5
    <3> QED BY <2>1, <2>6, <3>6, SilentStep
  <2>7. CASE closed /\ Return("OK") /\ UNCHANGED <<breakpoints, j>>
    <3>1. at' = "idle" /\ answer' = "OK" BY <2>7 DEF Return
    <3>2. j = breakpoints_number BY <1>0, <2>1, <2>7 DEF closed
    <3>3. Held' = Held BY <1>0, <2>1, <2>2, <3>1, <3>2 DEF Held
    <3>4. Contents' = {breakpoints[i] : i \in Held}
      BY <2>7, <3>1, <3>3 DEF Contents
    <3>5. Contents' = Contents \ {address} /\ address \in Contents
      BY <2>1, <2>3, <3>4
    <3> QED BY <1>0, <2>1, <3>1, <3>5, AnswerStep
  <2> QED BY <1>8, <2>6, <2>7 DEF Close
<1>9. CASE UNCHANGED vars
  BY <1>9 DEF vars, table, Set!vars, Contents, Held, NoQuestion
<1> QED
  BY <1>1, <1>2, <1>3, <1>4, <1>5, <1>6, <1>7, <1>8, <1>9 DEF Next, Run

\* The loops implement a set of addresses: each answer of Z, z and cont is the
\* one BreakpointSet gives, whatever the size of the table.
THEOREM BreakpointsImplementSet == Spec => SetSafety
<1>1. Init => Set!Init
  <2> SUFFICES ASSUME Init PROVE Set!Init OBVIOUS
  <2>1. Held = {} BY DEF Init, Held
  <2>2. Contents = {} BY <2>1 DEF Init, Contents
  <2> QED BY <2>2 DEF Init, Set!Init
<1>2. Inv /\ [Next]_vars => [Set!Next]_(Set!vars) BY SetStep
<1> QED BY InvAlways, <1>1, <1>2, PTL DEF Spec, SetSafety, Set!Safety

-----------------------------------------------------------------------------
(* The debug switch, whose sorted table of names is bisected as well, and  *)
(* the traces, with the stack of places.                                   *)

\* A set of numbers that is not empty has a least one.
LEMMA LeastNumber ==
  ASSUME NEW T, T \subseteq Nat, T # {}
  PROVE  \E n \in T : \A m \in T : n <= m
<1> DEFINE R == OpToRel(<, Nat)
<1>1. IsWellFoundedOn(R, Nat) BY NatLessThanWellFounded
<1>2. \A a \in Nat : \A c \in Nat : a < c => <<a, c>> \in R
  <2> SUFFICES ASSUME NEW a \in Nat, NEW c \in Nat, a < c
               PROVE  <<a, c>> \in {ss \in Nat \X Nat : ss[1] < ss[2]}
    BY DEF OpToRel
  <2> DEFINE pair == <<a, c>>
  <2>1. pair \in Nat \X Nat /\ pair[1] < pair[2] OBVIOUS
  <2> HIDE DEF pair
  <2>2. pair \in {ss \in Nat \X Nat : ss[1] < ss[2]} BY <2>1
  <2> QED BY <2>2 DEF pair
<1> HIDE DEF R
<1>3. PICK n \in T : \A m \in T : ~(<<m, n>> \in R) BY <1>1, WFMin
<1>4. ASSUME NEW m \in T PROVE n <= m
  <2>1. m \in Nat /\ n \in Nat OBVIOUS
  <2>2. m < n => <<m, n>> \in R BY <1>2, <2>1
  <2> QED BY <1>3, <2>1, <2>2
<1> QED BY <1>4

\* What holds of 0 and passes from each number to the next holds of all.
LEMMA Counting ==
  ASSUME NEW S, 0 \in S, \A i \in Nat : i \in S => i + 1 \in S, NEW n \in Nat
  PROVE  n \in S
<1> SUFFICES ASSUME n \notin S PROVE FALSE OBVIOUS
<1> DEFINE T == {i \in Nat : i \notin S}
<1>1. PICK least \in T : \A m \in T : least <= m
  <2>1. T \subseteq Nat /\ T # {} OBVIOUS
  <2> HIDE DEF T
  <2> QED BY <2>1, LeastNumber
<1>2. least \in Nat /\ least # 0 OBVIOUS
<1>3. least - 1 \in Nat /\ (least - 1) + 1 = least BY <1>2
<1>4. least - 1 \notin S BY <1>3
<1>5. least - 1 \in T BY <1>3, <1>4
<1>6. least <= least - 1 BY <1>1, <1>5
<1> QED BY <1>2, <1>6

-----------------------------------------------------------------------------
\* The bounds the bisection of __is_debugged may have.
Windows == (0..MAX_FILES_NUMBER) \X (-1..MAX_FILES_NUMBER - 1)

\* What it answers for bounds w, if f answers for narrower ones.
Bisected(f, files, name, w) ==
  LET from == w[1]
      to == w[2]
      half == (from + to) \div 2
  IN  CASE from < to /\ files[half] < name -> f[<<half + 1, to>>]
        [] from < to /\ files[half] > name -> f[<<from, half - 1>>]
        [] from < to /\ files[half] = name -> TRUE
        [] OTHER -> from = to /\ files[from] = name

\* The bounds of the next turn are narrower.
LEMMA BoundsNarrow ==
  ASSUME MAX_FILES_NUMBER \in Nat, NEW w \in Windows, w[1] < w[2],
         NEW half, half = (w[1] + w[2]) \div 2
  PROVE  /\ half \in w[1]..w[2] - 1
         /\ <<half + 1, w[2]>> \in Windows /\ <<w[1], half - 1>> \in Windows
<1> PICK from \in 0..MAX_FILES_NUMBER, to \in -1..MAX_FILES_NUMBER - 1 :
       from = w[1] /\ to = w[2] BY DEF Windows
<1>1. from \in Int /\ to \in Int /\ from < to OBVIOUS
<1>2. half = (from + to) \div 2 OBVIOUS
<1>3. half \in from..to - 1 BY <1>1, <1>2
<1>4. half + 1 \in 0..MAX_FILES_NUMBER /\ half - 1 \in -1..MAX_FILES_NUMBER - 1 BY <1>3
<1> QED BY <1>3, <1>4 DEF Windows

\* so that the answer depends on narrower bounds only.
LEMMA BisectedIsLocal ==
  ASSUME MAX_FILES_NUMBER \in Nat, NEW f, NEW g, NEW files, NEW name, NEW k \in Int,
         NEW w \in Windows, w[2] - w[1] <= k + 1,
         \A x \in Windows : x[2] - x[1] <= k => f[x] = g[x]
  PROVE  Bisected(f, files, name, w) = Bisected(g, files, name, w)
<1> PICK half : half = (w[1] + w[2]) \div 2 OBVIOUS
<1>1. CASE ~(w[1] < w[2]) BY <1>1 DEF Bisected
<1>2. CASE w[1] < w[2]
  <2>1. /\ half \in w[1]..w[2] - 1
        /\ <<half + 1, w[2]>> \in Windows /\ <<w[1], half - 1>> \in Windows
    BY <1>2, BoundsNarrow
  <2>2. w[1] \in Int /\ w[2] \in Int BY DEF Windows
  <2>3. PICK high : high = <<half + 1, w[2]>> OBVIOUS
  <2>4. PICK low : low = <<w[1], half - 1>> OBVIOUS
  <2>5. high[1] = half + 1 /\ high[2] = w[2] /\ low[1] = w[1] /\ low[2] = half - 1
    BY <2>3, <2>4
  <2>6. f[high] = g[high] BY <1>2, <2>1, <2>2, <2>3, <2>5
  <2>7. f[low] = g[low] BY <1>2, <2>1, <2>2, <2>4, <2>5
  <2> QED BY <2>3, <2>4, <2>6, <2>7 DEF Bisected
<1> QED BY <1>1, <1>2

IsBisection(f, files, name) == f = [w \in Windows |-> Bisected(f, files, name, w)]

\* The bisection ends: from any bounds,
LEMMA BisectionExists ==
  ASSUME MAX_FILES_NUMBER \in Nat, NEW files, NEW name
  PROVE  \E f : IsBisection(f, files, name)
<1> DEFINE Answers(f, k) ==
             \A w \in Windows : w[2] - w[1] <= k => f[w] = Bisected(f, files, name, w)
           S == {k \in Nat : \E f : Answers(f, k)}
<1>1. ASSUME NEW g, NEW k \in Int, k >= -1,
             NEW f, f = [w \in Windows |-> Bisected(g, files, name, w)],
             \A x \in Windows : x[2] - x[1] <= k => f[x] = g[x]
      PROVE  Answers(f, k + 1)
  <2> SUFFICES ASSUME NEW w \in Windows, w[2] - w[1] <= k + 1
               PROVE  f[w] = Bisected(f, files, name, w)
    OBVIOUS
  <2>1. f[w] = Bisected(g, files, name, w) BY <1>1
  <2>2. Bisected(g, files, name, w) = Bisected(f, files, name, w)
    BY <1>1, BisectedIsLocal
  <2> QED BY <2>1, <2>2
<1>2. 0 \in S
  <2> DEFINE f == [w \in Windows |-> Bisected({}, files, name, w)]
  <2>1. ASSUME NEW w \in Windows, w[2] - w[1] <= 0
        PROVE  f[w] = Bisected(f, files, name, w)
    <3>1. w[1] \in Int /\ w[2] \in Int BY DEF Windows
    <3>2. ~(w[1] < w[2]) BY <2>1, <3>1
    <3>3. f[w] = Bisected({}, files, name, w) OBVIOUS
    <3> HIDE DEF f
    <3> QED BY <3>2, <3>3 DEF Bisected
  <2> HIDE DEF f
  <2>2. Answers(f, 0) BY <2>1
  <2> QED BY <2>2
<1>3. ASSUME NEW k \in Nat, k \in S PROVE k + 1 \in S
  <2>1. PICK g : Answers(g, k) BY <1>3
  <2>2. PICK f : f = [w \in Windows |-> Bisected(g, files, name, w)] OBVIOUS
  <2>3. \A x \in Windows : x[2] - x[1] <= k => f[x] = g[x] BY <2>1, <2>2
  <2> HIDE DEF Answers
  <2>4. k \in Int /\ k >= -1 OBVIOUS
  <2>5. Answers(f, k + 1)
    <3> HIDE DEF S
    <3> QED BY <1>1, <2>2, <2>3, <2>4
  <2> QED BY <2>5
<1>4. MAX_FILES_NUMBER \in S
  <2> HIDE DEF S
  <2> QED BY <1>2, <1>3, Counting
<1>5. PICK g : Answers(g, MAX_FILES_NUMBER)
  <2> HIDE DEF Answers
  <2> QED BY <1>4
<1>6. ASSUME NEW w \in Windows PROVE w[2] - w[1] <= MAX_FILES_NUMBER
  <2>1. w[1] \in 0..MAX_FILES_NUMBER /\ w[2] \in -1..MAX_FILES_NUMBER - 1 BY DEF Windows
  <2> QED BY <2>1
<1>7. \A w \in Windows : g[w] = Bisected(g, files, name, w) BY <1>5, <1>6
<1>8. PICK f : f = [w \in Windows |-> g[w]] OBVIOUS
<1>9. \A x \in Windows : x[2] - x[1] <= MAX_FILES_NUMBER => f[x] = g[x] BY <1>8
<1>10. \A w \in Windows : Bisected(f, files, name, w) = Bisected(g, files, name, w)
  <2> SUFFICES ASSUME NEW w \in Windows
               PROVE  Bisected(f, files, name, w) = Bisected(g, files, name, w)
    OBVIOUS
  <2>1. w[1] \in Int /\ w[2] \in Int BY DEF Windows
  <2>2. w[2] - w[1] <= MAX_FILES_NUMBER + 1 BY <1>6, <2>1
  <2> QED BY <1>9, <2>2, BisectedIsLocal
<1>11. f = [w \in Windows |-> Bisected(f, files, name, w)] BY <1>7, <1>8, <1>10
<1> QED BY <1>11 DEF IsBisection

Ascending(files, n) ==
  /\ \A i \in 0..n - 1 : files[i] \in Nat
  /\ \A i \in 0..n - 1 : \A k \in 0..n - 1 : i <= k => files[i] <= files[k]

\* What one turn answers, by the name there is in the half.
TurnIs(answered, f, files, name, from, to, half, there) ==
  /\ ~(from < to) => (answered <=> from = to /\ files[from] = name)
  /\ from < to /\ there \in Nat /\ there < name => (answered <=> f[<<half + 1, to>>])
  /\ from < to /\ there \in Nat /\ there > name => (answered <=> f[<<from, half - 1>>])
  /\ from < to /\ there \in Nat /\ there = name => answered
\* Each turn compares the name in the half (debug.c:53),
LEMMA TurnOf ==
  ASSUME NEW f, NEW files, NEW name \in Nat, NEW from \in Int, NEW to \in Int,
         NEW w, w[1] = from, w[2] = to, NEW half, half = (from + to) \div 2,
         NEW there, there = files[half], NEW b, b = Bisected(f, files, name, w)
  PROVE  TurnIs(b, f, files, name, from, to, half, there)
<1> DEFINE high == f[<<half + 1, to>>]
           low == f[<<from, half - 1>>]
           last == (from = to /\ files[from] = name)
<1>1. b = CASE from < to /\ there < name -> high
            [] from < to /\ there > name -> low
            [] from < to /\ there = name -> TRUE
            [] OTHER -> last
  BY DEF Bisected
<1> HIDE DEF high, low, last
<1>2. ~(from < to) => (b <=> last) BY <1>1
<1>3. from < to /\ there \in Nat /\ there < name => (b <=> high) BY <1>1
<1>4. from < to /\ there \in Nat /\ there > name => (b <=> low) BY <1>1
<1>5. from < to /\ there \in Nat /\ there = name => b BY <1>1
<1> QED BY <1>2, <1>3, <1>4, <1>5 DEF high, low, last, TurnIs

\* and it finds a name exactly if a sorted table has it between the bounds.
LEMMA BisectionFinds ==
  ASSUME MAX_FILES_NUMBER \in Nat, NEW n \in 0..MAX_FILES_NUMBER, NEW files,
         Ascending(files, n), NEW name \in Nat,
         NEW f, IsBisection(f, files, name)
  PROVE  f[<<0, n - 1>>] <=> \E i \in 0..n - 1 : files[i] = name
<1> DEFINE Found(from, to) ==
             f[<<from, to>>] <=> \E i \in from..to : files[i] = name
           S == {k \in Nat : \A from \in 0..n : \A to \in -1..n - 1 :
                               to - from <= k => Found(from, to)}
<1>1. ASSUME NEW from \in 0..n, NEW to \in -1..n - 1,
             NEW half, half = (from + to) \div 2, NEW there, there = files[half]
      PROVE  TurnIs(f[<<from, to>>], f, files, name, from, to, half, there)
  <2>1. PICK w : w = <<from, to>> OBVIOUS
  <2>2. w \in Windows /\ w[1] = from /\ w[2] = to BY <2>1 DEF Windows
  <2>3. f[w] = Bisected(f, files, name, w) BY <2>2 DEF IsBisection
  <2>4. from \in Int /\ to \in Int OBVIOUS
  <2>5. PICK b : b = Bisected(f, files, name, w) OBVIOUS
  <2>6. TurnIs(b, f, files, name, from, to, half, there)
    BY <1>1, <2>2, <2>4, <2>5, TurnOf
  <2> QED BY <2>1, <2>3, <2>5, <2>6
<1>2. ASSUME NEW from \in 0..n, NEW to \in -1..n - 1, ~(from < to)
      PROVE  Found(from, to)
  <2>4. PICK half : half = (from + to) \div 2 OBVIOUS
  <2>5. TurnIs(f[<<from, to>>], f, files, name, from, to, half, files[half])
    BY <1>1, <2>4
  <2>1. f[<<from, to>>] <=> from = to /\ files[from] = name BY <1>2, <2>5 DEF TurnIs
  <2>2. \A i \in from..to : i = from /\ from = to BY <1>2
  <2>3. from = to => from \in from..to OBVIOUS
  <2> QED BY <2>1, <2>2, <2>3
<1>3. ASSUME NEW from \in 0..n, NEW to \in -1..n - 1, from < to,
             \A a \in 0..n : \A c \in -1..n - 1 : c - a < to - from => Found(a, c)
      PROVE  Found(from, to)
  <2>1. PICK half : half = (from + to) \div 2 OBVIOUS
  <2>2. half \in from..to - 1 BY <1>3, <2>1
  <2>3. half \in 0..n - 1 /\ files[half] \in Nat BY <2>2 DEF Ascending
  <2>4. \A i \in from..to : i \in 0..n - 1 /\ files[i] \in Nat BY DEF Ascending
  <2>5. \A i \in from..to : /\ i <= half => files[i] <= files[half]
                            /\ half <= i => files[half] <= files[i]
    BY <2>3, <2>4 DEF Ascending
  <2>9. TurnIs(f[<<from, to>>], f, files, name, from, to, half, files[half])
    BY <1>1, <2>1
  <2>6. CASE files[half] < name
    <3>1. f[<<from, to>>] <=> f[<<half + 1, to>>] BY <1>3, <2>3, <2>6, <2>9 DEF TurnIs
    <3>2. Found(half + 1, to)
      <4>1. half + 1 \in 0..n /\ to - (half + 1) < to - from BY <2>2
      <4> HIDE DEF Found
      <4> QED BY <1>3, <4>1
    <3>3. \A i \in from..to : files[i] = name => i \in half + 1..to
      BY <2>2, <2>3, <2>4, <2>5, <2>6
    <3>4. \A i \in half + 1..to : i \in from..to BY <2>2
    <3> QED BY <3>1, <3>2, <3>3, <3>4
  <2>7. CASE files[half] > name
    <3>1. f[<<from, to>>] <=> f[<<from, half - 1>>] BY <1>3, <2>3, <2>7, <2>9 DEF TurnIs
    <3>2. Found(from, half - 1)
      <4>1. half - 1 \in -1..n - 1 /\ (half - 1) - from < to - from BY <2>2
      <4> HIDE DEF Found
      <4> QED BY <1>3, <4>1
    <3>3. \A i \in from..to : files[i] = name => i \in from..half - 1
      BY <2>2, <2>3, <2>4, <2>5, <2>7
    <3>4. \A i \in from..half - 1 : i \in from..to BY <2>2
    <3> QED BY <3>1, <3>2, <3>3, <3>4
  <2>8. CASE files[half] = name
    <3>1. f[<<from, to>>] BY <1>3, <2>3, <2>8, <2>9 DEF TurnIs
    <3>2. half \in from..to BY <2>2
    <3> QED BY <2>8, <3>1, <3>2
  <2> QED BY <2>3, <2>6, <2>7, <2>8
<1> HIDE DEF Found
<1>4. 0 \in S
  <2>1. ASSUME NEW from \in 0..n, NEW to \in -1..n - 1, to - from <= 0
        PROVE  Found(from, to)
    <3>1. ~(from < to) BY <2>1
    <3> QED BY <1>2, <3>1
  <2> QED BY <2>1
<1>5. ASSUME NEW k \in Nat, k \in S PROVE k + 1 \in S
  <2>1. ASSUME NEW from \in 0..n, NEW to \in -1..n - 1, to - from <= k + 1
        PROVE  Found(from, to)
    <3>1. CASE ~(from < to) BY <1>2, <3>1
    <3>2. CASE from < to
      <4>1. ASSUME NEW a \in 0..n, NEW c \in -1..n - 1, c - a < to - from
            PROVE  Found(a, c)
        <5>1. c - a <= k BY <2>1, <4>1
        <5> QED BY <1>5, <5>1
      <4> QED BY <1>3, <3>2, <4>1
    <3> QED BY <3>1, <3>2
  <2> QED BY <2>1
<1>6. n \in S
  <2> HIDE DEF S
  <2> QED BY <1>4, <1>5, Counting
<1>7. Found(0, n - 1)
  <2>1. 0 \in 0..n /\ n - 1 \in -1..n - 1 /\ (n - 1) - 0 <= n OBVIOUS
  <2> QED BY <1>6, <2>1
<1> QED BY <1>7 DEF Found

\* __is_debugged bisects the names in use (debug.c:47).
LEMMA DebuggedIsKept ==
  ASSUME MAX_FILES_NUMBER \in Nat, nb_debugged_files \in 0..MAX_FILES_NUMBER,
         Ascending(debugged_files, nb_debugged_files), NEW name \in Nat
  PROVE  is_debugged(name) <=>
           \E i \in 0..nb_debugged_files - 1 : debugged_files[i] = name
<1> DEFINE bisection == CHOOSE f : f = [w \in Windows |-> Bisected(f, debugged_files, name, w)]
<1>1. IsBisection(bisection, debugged_files, name) BY BisectionExists DEF IsBisection
<1>2. is_debugged(name) <=> bisection[<<0, nb_debugged_files - 1>>]
  BY Zenon DEF is_debugged, Windows, Bisected
<1> HIDE DEF bisection
<1> QED BY <1>1, <1>2, BisectionFinds

\* A name is inserted where the first one that is not below it lies, or behind
\* all of them (debug.c:33).
LEMMA InsertionPlace ==
  ASSUME nb_debugged_files \in Nat, NEW name \in Nat,
         \A i \in 0..nb_debugged_files - 1 : debugged_files[i] \in Nat
  PROVE  /\ insertion(name) \in 0..nb_debugged_files
         /\ \A i \in 0..insertion(name) - 1 : debugged_files[i] < name
         /\ insertion(name) < nb_debugged_files =>
              debugged_files[insertion(name)] >= name
<1> DEFINE n == nb_debugged_files
           T == {i \in 0..n - 1 : debugged_files[i] >= name}
           L == {i \in 0..n - 1 : \A k \in 0..i : debugged_files[k] < name}
<1>1. insertion(name) = Cardinality(L) BY DEF insertion
<1>2. ASSUME NEW place \in 0..n, \A i \in 0..place - 1 : debugged_files[i] < name,
             place < n => debugged_files[place] >= name
      PROVE  Cardinality(L) = place
  <2>1. ASSUME NEW i PROVE i \in L <=> i \in 0..place - 1
    <3>1. CASE i \in 0..place - 1
      <4>1. i \in 0..n - 1 /\ \A k \in 0..i : k \in 0..place - 1 BY <3>1
      <4> QED BY <1>2, <3>1, <4>1
    <3>2. CASE i \in 0..n - 1 /\ i \notin 0..place - 1
      <4>1. place \in 0..i /\ place < n /\ place \in 0..n - 1 BY <3>2
      <4>2. debugged_files[place] \in Nat /\ debugged_files[place] >= name BY <1>2, <4>1
      <4>3. ~(debugged_files[place] < name) BY <4>2
      <4>4. i \notin L BY <4>1, <4>3
      <4> QED BY <3>2, <4>4
    <3>3. CASE i \notin 0..n - 1 BY <3>3
    <3> QED BY <3>1, <3>2, <3>3
  <2>2. L = 0..place - 1
    <3> HIDE DEF L
    <3> QED BY <2>1
  <2>3. Cardinality(0..place - 1) = place
    <3>1. Cardinality(0..place - 1) = IF 0 > place - 1 THEN 0 ELSE (place - 1) - 0 + 1
      BY FS_Interval
    <3> QED BY <3>1
  <2> HIDE DEF L
  <2> QED BY <2>2, <2>3
<1>3. \E place \in 0..n : /\ \A i \in 0..place - 1 : debugged_files[i] < name
                          /\ place < n => debugged_files[place] >= name
  <2>1. CASE T = {}
    <3>1. \A i \in 0..n - 1 : debugged_files[i] \in Nat /\ ~(debugged_files[i] >= name)
      BY <2>1
    <3>2. \A i \in 0..n - 1 : debugged_files[i] < name BY <3>1
    <3> QED BY <3>2
  <2>2. CASE T # {}
    <3>1. T \subseteq Nat OBVIOUS
    <3>2. PICK place \in T : \A m \in T : place <= m
      <4> HIDE DEF T
      <4> QED BY <2>2, <3>1, LeastNumber
    <3>3. ASSUME NEW i \in 0..place - 1 PROVE debugged_files[i] < name
      <4>1. i \in 0..n - 1 /\ ~(place <= i) /\ debugged_files[i] \in Nat BY <3>2
      <4>2. ~(debugged_files[i] >= name) BY <3>2, <4>1
      <4> QED BY <4>1, <4>2
    <3> QED BY <3>2, <3>3
  <2> QED BY <2>1, <2>2
<1>4. PICK place \in 0..n : /\ \A i \in 0..place - 1 : debugged_files[i] < name
                            /\ place < n => debugged_files[place] >= name
  BY <1>3
<1>5. insertion(name) = place BY <1>1, <1>2, <1>4
<1> QED BY <1>4, <1>5

-----------------------------------------------------------------------------
\* The names in use are in order and asked for, and a name asked for is missing
\* only because the table is full of names below it.
Kept == {debugged_files[i] : i \in 0..nb_debugged_files - 1}

Switch ==
  /\ nb_debugged_files \in 0..MAX_FILES_NUMBER
  /\ debugged_files[MAX_FILES_NUMBER] = NoFile
  /\ Ascending(debugged_files, nb_debugged_files)
  /\ Kept \subseteq asked /\ asked \subseteq Files
  /\ phase # "dead" => \A name \in asked \ Kept :
       nb_debugged_files = MAX_FILES_NUMBER /\ \A k \in Kept : k < name

\* The insertion keeps the names in order, and adds no other.
LEMMA InsertedKeepsOrder ==
  ASSUME MAX_FILES_NUMBER \in Nat, nb_debugged_files \in 0..MAX_FILES_NUMBER - 1,
         Ascending(debugged_files, nb_debugged_files), NEW name \in Nat,
         NEW place, place = insertion(name),
         NEW files, files = inserted(place, name)
  PROVE  /\ Ascending(files, nb_debugged_files + 1)
         /\ {files[i] : i \in 0..nb_debugged_files} = Kept \cup {name}
         /\ files[MAX_FILES_NUMBER] = debugged_files[MAX_FILES_NUMBER]
<1> DEFINE n == nb_debugged_files
<1>1. n \in Nat /\ n < MAX_FILES_NUMBER OBVIOUS
<1>2. \A i \in 0..n - 1 : debugged_files[i] \in Nat BY DEF Ascending
<1>3. /\ place \in 0..n /\ \A i \in 0..place - 1 : debugged_files[i] < name
      /\ place < n => debugged_files[place] >= name
  BY <1>1, <1>2, InsertionPlace
<1>4. \A i \in 0..MAX_FILES_NUMBER :
        /\ i < place => files[i] = debugged_files[i]
        /\ i = place => files[i] = name
        /\ i > place /\ i <= n => files[i] = debugged_files[i - 1]
        /\ i > n => files[i] = debugged_files[i]
  BY <1>3 DEF inserted
<1>5. ASSUME NEW i \in 0..n
      PROVE  /\ files[i] \in Nat
             /\ i < place => i \in 0..n - 1 /\ files[i] = debugged_files[i] /\ files[i] < name
             /\ i = place => files[i] = name
             /\ i > place => /\ i - 1 \in 0..n - 1
                             /\ files[i] = debugged_files[i - 1]
                             /\ files[i] >= name
  <2>1. CASE i < place
    <3>1. i \in 0..n - 1 /\ i \in 0..place - 1 BY <1>3, <2>1
    <3> QED BY <1>1, <1>2, <1>3, <1>4, <2>1, <3>1
  <2>2. CASE i = place BY <1>1, <1>4, <2>2
  <2>3. CASE i > place
    <3>1. i - 1 \in 0..n - 1 /\ place \in 0..n - 1 /\ place <= i - 1 /\ place < n BY <1>3, <2>3
    <3>2. files[i] = debugged_files[i - 1] BY <1>1, <1>4, <2>3
    <3>3. debugged_files[place] <= debugged_files[i - 1] BY <3>1 DEF Ascending
    <3>4. debugged_files[place] \in Nat /\ debugged_files[i - 1] \in Nat BY <1>2, <3>1
    <3> QED BY <1>3, <2>3, <3>1, <3>2, <3>3, <3>4
  <2> QED BY <1>3, <2>1, <2>2, <2>3
<1>6. ASSUME NEW i \in 0..n, NEW k \in 0..n, i <= k PROVE files[i] <= files[k]
  <2>1. CASE k < place
    <3>1. i < place BY <1>3, <1>6, <2>1
    <3> QED BY <1>5, <1>6, <2>1, <3>1 DEF Ascending
  <2>2. CASE i < place /\ k >= place BY <1>3, <1>5, <2>2
  <2>3. CASE i = place /\ k >= place BY <1>3, <1>5, <2>3
  <2>4. CASE i > place
    <3>1. k > place /\ i - 1 <= k - 1 BY <1>3, <1>6, <2>4
    <3> QED BY <1>5, <2>4, <3>1 DEF Ascending
  <2> QED BY <1>3, <1>6, <2>1, <2>2, <2>3, <2>4
<1>7. Ascending(files, n + 1)
  <2>1. (n + 1) - 1 = n OBVIOUS
  <2> QED BY <1>5, <1>6, <2>1 DEF Ascending
<1>8. {files[i] : i \in 0..n} = Kept \cup {name}
  <2>1. ASSUME NEW i \in 0..n PROVE files[i] \in Kept \cup {name}
    <3>1. CASE i < place BY <1>5, <3>1 DEF Kept
    <3>2. CASE i = place BY <1>5, <3>2
    <3>3. CASE i > place BY <1>5, <3>3 DEF Kept
    <3> QED BY <1>3, <3>1, <3>2, <3>3
  <2>2. ASSUME NEW i \in 0..n - 1 PROVE \E k \in 0..n : files[k] = debugged_files[i]
    <3>1. CASE i < place
      <4>1. i \in 0..n OBVIOUS
      <4> QED BY <1>5, <3>1, <4>1
    <3>2. CASE i >= place
      <4>1. i + 1 \in 0..n /\ i + 1 > place /\ (i + 1) - 1 = i BY <1>3, <3>2
      <4> QED BY <1>5, <4>1
    <3> QED BY <1>3, <3>1, <3>2
  <2>3. place \in 0..n /\ files[place] = name BY <1>3, <1>5
  <2> QED BY <2>1, <2>2, <2>3 DEF Kept
<1>9. files[MAX_FILES_NUMBER] = debugged_files[MAX_FILES_NUMBER] BY <1>1, <1>4
<1> QED BY <1>7, <1>8, <1>9

-----------------------------------------------------------------------------
\* The accesses under evaluation.
Frames == [place : Places, kind : Kinds, called : BOOLEAN, popped : BOOLEAN]

\* What the stack has of an access.
Stacked(f) == IF f.popped THEN <<>> ELSE <<f.place>>

\* An access is under evaluation until its function has been called and its place
\* popped, in that order unless the compiler may choose the other.
Pending(f) ==
  /\ f \in Frames
  /\ ~(f.called /\ f.popped)
  /\ f.popped => PopsFirst /\ f.kind # "register write"

\* No access, one, or a read in the arguments of a write that has not called.
NestedIn(fs, stack) ==
  \/ fs = <<>> /\ stack = <<>>
  \/ \E f \in Frames : Pending(f) /\ fs = <<f>> /\ stack = Stacked(f)
  \/ \E w, r \in Frames :
       /\ Pending(w) /\ Pending(r) /\ fs = <<w, r>> /\ stack = Stacked(w) \o Stacked(r)
       /\ w.kind # "read" /\ ~w.called /\ r.kind = "read"

\* The last of one or two elements, and what is before it.
LEMMA LastOfFew ==
  ASSUME NEW a, NEW b
  PROVE  /\ Len(<<a>>) = 1 /\ <<a>>[1] = a /\ SubSeq(<<a>>, 1, Len(<<a>>) - 1) = <<>>
         /\ Len(<<a, b>>) = 2 /\ <<a, b>>[1] = a /\ <<a, b>>[2] = b
         /\ SubSeq(<<a, b>>, 1, Len(<<a, b>>) - 1) = <<a>>
         /\ Append(<<>>, a) = <<a>> /\ Append(<<a>>, b) = <<a, b>>
         /\ <<>> \o <<a>> = <<a>> /\ <<a>> \o <<>> = <<a>> /\ <<a>> \o <<b>> = <<a, b>>
         /\ <<>> \o <<>> = <<>>
<1> PICK S : S = {a, b} OBVIOUS
<1> PICK one : one = <<a>> OBVIOUS
<1> PICK last : last = <<b>> OBVIOUS
<1> PICK two : two = <<a, b>> OBVIOUS
<1>1. /\ one \in Seq(S) /\ Len(one) = 1 /\ one[1] = a
      /\ last \in Seq(S) /\ Len(last) = 1 /\ last[1] = b
      /\ two \in Seq(S) /\ Len(two) = 2 /\ two[1] = a /\ two[2] = b
  OBVIOUS
<1>2. Append(one, b) = two
  <2> PICK s : s = Append(one, b) OBVIOUS
  <2>1. s \in Seq(S) /\ Len(s) = 2 /\ s[1] = a /\ s[2] = b
    <3>1. b \in S OBVIOUS
    <3>2. /\ s \in Seq(S) /\ Len(s) = Len(one) + 1
          /\ \A i \in 1..Len(one) : s[i] = one[i]
          /\ s[Len(one) + 1] = b
      BY <1>1, <3>1, AppendProperties
    <3> QED BY <1>1, <3>2
  <2>2. \A i \in 1..Len(s) : i = 1 \/ i = 2 BY <2>1
  <2>3. \A i \in 1..Len(s) : s[i] = two[i] BY <1>1, <2>1, <2>2
  <2> QED BY <1>1, <2>1, <2>3, SeqEqual
<1>3. one \o last = two
  <2> PICK s : s = one \o last OBVIOUS
  <2>1. s \in Seq(S) /\ Len(s) = 2 /\ s[1] = a /\ s[2] = b
    <3>1. /\ s \in Seq(S) /\ Len(s) = Len(one) + Len(last)
          /\ \A i \in 1..Len(one) + Len(last) :
               s[i] = IF i <= Len(one) THEN one[i] ELSE last[i - Len(one)]
      BY <1>1, ConcatProperties
    <3> QED BY <1>1, <3>1
  <2>2. \A i \in 1..Len(s) : i = 1 \/ i = 2 BY <2>1
  <2>3. \A i \in 1..Len(s) : s[i] = two[i] BY <1>1, <2>1, <2>2
  <2> QED BY <1>1, <2>1, <2>3, SeqEqual
<1>4. SubSeq(two, 1, Len(two) - 1) = one
  <2> PICK s : s = SubSeq(two, 1, 1) OBVIOUS
  <2>1. s \in Seq(S) /\ Len(s) = 1 /\ s[1] = a
    <3>1. /\ s \in Seq(S) /\ Len(s) = IF 1 <= 1 THEN 1 - 1 + 1 ELSE 0
          /\ \A i \in 1..1 - 1 + 1 : s[i] = two[1 + i - 1]
      <4>1. 1 \in Int /\ \A i \in 1..1 : two[i] \in S BY <1>1
      <4> QED BY <4>1, SubSeqProperties
    <3> QED BY <1>1, <3>1
  <2>2. \A i \in 1..Len(s) : s[i] = one[i]
    <3>1. \A i \in 1..Len(s) : i = 1 BY <2>1
    <3> QED BY <1>1, <2>1, <3>1
  <2>3. s = one BY <1>1, <2>1, <2>2, SeqEqual
  <2>4. Len(two) - 1 = 1 BY <1>1
  <2> QED BY <2>3, <2>4
<1>5. /\ Append(<<>>, a) = <<a>> /\ <<>> \o <<a>> = <<a>> /\ <<a>> \o <<>> = <<a>>
      /\ SubSeq(<<a>>, 1, Len(<<a>>) - 1) = <<>> /\ <<>> \o <<>> = <<>>
  OBVIOUS
<1> QED BY <1>1, <1>2, <1>3, <1>4, <1>5

-----------------------------------------------------------------------------
\* The options and the counters.
Settings ==
  /\ phase \in {"options", "running", "dead"} /\ options \in 0..MaxOptions
  /\ trace_flags \subseteq {"STATE", "REGISTERS", "MEMORY", "POSITION"}
  /\ states \subseteq DOMAIN arm_mode_names
  /\ last_address \in Accessed \cup {Seldom}

Reported == Switch /\ NestedIn(frames, location_stack) /\ Settings

\* The assumptions on the constants.
LEMMA ReportConstants ==
  MAX_FILES_NUMBER \in Nat \ {0} /\ Files \subseteq Nat /\ MaxOptions \in Nat
BY InstrumentationAssumption

\* No name is debugged, no access under way and no option read at first.
LEMMA ReportedFirst ==
  ASSUME ReportInit
  PROVE  Reported
<1>1. Switch
  <2>1. nb_debugged_files = 0 /\ asked = {} BY DEF ReportInit
  <2>2. debugged_files[MAX_FILES_NUMBER] = NoFile
    <3>1. MAX_FILES_NUMBER \in 0..MAX_FILES_NUMBER BY ReportConstants
    <3> QED BY <3>1 DEF ReportInit
  <2>3. 0..nb_debugged_files - 1 = {} BY <2>1
  <2>4. Kept = {} BY <2>3 DEF Kept
  <2>5. nb_debugged_files \in 0..MAX_FILES_NUMBER BY <2>1, ReportConstants
  <2>6. Ascending(debugged_files, nb_debugged_files) BY <2>3 DEF Ascending
  <2> QED BY <2>1, <2>2, <2>4, <2>5, <2>6 DEF Switch
<1>2. NestedIn(frames, location_stack) BY DEF ReportInit, NestedIn
<1>3. Settings BY ReportConstants DEF ReportInit, Settings
<1> QED BY <1>1, <1>2, <1>3 DEF Reported

\* A name is added where it belongs, refused, or written past a full table.
LEMMA AddKeepsSwitch ==
  ASSUME Switch, NEW name \in Files, add_debug_to(name)
  PROVE  Switch'
<1> DEFINE place == insertion(name)
<1>1. /\ MAX_FILES_NUMBER \in Nat \ {0} /\ name \in Nat
      /\ nb_debugged_files \in 0..MAX_FILES_NUMBER
      /\ Ascending(debugged_files, nb_debugged_files)
  BY ReportConstants DEF Switch
<1>2. /\ asked' = asked \cup {name}
      /\ \/ /\ place >= MAX_FILES_NUMBER
            /\ UNCHANGED <<phase, debugged_files, nb_debugged_files>>
         \/ /\ place < MAX_FILES_NUMBER /\ nb_debugged_files < MAX_FILES_NUMBER
            /\ debugged_files' = inserted(place, name)
            /\ nb_debugged_files' = nb_debugged_files + 1
            /\ UNCHANGED phase
         \/ /\ place < MAX_FILES_NUMBER /\ nb_debugged_files = MAX_FILES_NUMBER
            /\ phase' = "dead"
            /\ UNCHANGED <<debugged_files, nb_debugged_files>>
  BY DEF add_debug_to
<1>3. /\ place \in 0..nb_debugged_files
      /\ \A i \in 0..place - 1 : debugged_files[i] < name
  BY <1>1, InsertionPlace DEF Ascending
<1> HIDE DEF place
<1>4. asked' \subseteq Files BY <1>2 DEF Switch
<1>5. CASE /\ place >= MAX_FILES_NUMBER
           /\ UNCHANGED <<phase, debugged_files, nb_debugged_files>>
  <2>1. place = nb_debugged_files /\ nb_debugged_files = MAX_FILES_NUMBER BY <1>1, <1>3, <1>5
  <2>2. Kept' = Kept BY <1>5 DEF Kept
  <2>3. \A k \in Kept : k < name BY <1>3, <2>1 DEF Kept
  <2>4. Ascending(debugged_files, nb_debugged_files)' BY <1>1, <1>5 DEF Ascending
  <2>5. phase # "dead" => \A other \in asked' \ Kept :
          nb_debugged_files = MAX_FILES_NUMBER /\ \A k \in Kept : k < other
    BY <1>2, <2>1, <2>3 DEF Switch
  <2> QED BY <1>2, <1>4, <1>5, <2>2, <2>4, <2>5 DEF Switch, NoFile
<1>6. CASE /\ place < MAX_FILES_NUMBER /\ nb_debugged_files < MAX_FILES_NUMBER
           /\ debugged_files' = inserted(place, name)
           /\ nb_debugged_files' = nb_debugged_files + 1
           /\ UNCHANGED phase
  <2>1. nb_debugged_files \in 0..MAX_FILES_NUMBER - 1 BY <1>1, <1>6
  <2> PICK files : files = inserted(place, name) OBVIOUS
  <2>2. /\ Ascending(files, nb_debugged_files + 1)
        /\ {files[i] : i \in 0..nb_debugged_files} = Kept \cup {name}
        /\ files[MAX_FILES_NUMBER] = debugged_files[MAX_FILES_NUMBER]
    <3>1. MAX_FILES_NUMBER \in Nat BY <1>1
    <3>2. place = insertion(name) BY DEF place
    <3> QED BY <1>1, <2>1, <3>1, <3>2, InsertedKeepsOrder
  <2>3. debugged_files' = files BY <1>6
  <2> PICK more : more = nb_debugged_files + 1 OBVIOUS
  <2>4. nb_debugged_files' = more /\ more \in 0..MAX_FILES_NUMBER /\ more - 1 = nb_debugged_files
    BY <1>1, <1>6, <2>1
  <2>5. Kept' = Kept \cup {name} BY <2>2, <2>3, <2>4 DEF Kept
  <2>6. Ascending(debugged_files, nb_debugged_files)' BY <2>2, <2>3, <2>4 DEF Ascending
  <2>7. phase # "dead" => asked \subseteq Kept
    <3>1. nb_debugged_files # MAX_FILES_NUMBER BY <1>1, <1>6
    <3> QED BY <3>1 DEF Switch
  <2>8. phase' # "dead" => asked' \ Kept' = {} BY <1>2, <1>6, <2>5, <2>7
  <2>9. debugged_files'[MAX_FILES_NUMBER] = NoFile BY <2>2, <2>3 DEF Switch
  <2>10. Kept' \subseteq asked' BY <1>2, <2>5 DEF Switch
  <2> QED BY <1>4, <2>4, <2>6, <2>8, <2>9, <2>10 DEF Switch, NoFile
<1>7. CASE /\ place < MAX_FILES_NUMBER /\ nb_debugged_files = MAX_FILES_NUMBER
           /\ phase' = "dead"
           /\ UNCHANGED <<debugged_files, nb_debugged_files>>
  <2>1. Kept' = Kept BY <1>7 DEF Kept
  <2>2. Ascending(debugged_files, nb_debugged_files)' BY <1>1, <1>7 DEF Ascending
  <2> QED BY <1>2, <1>4, <1>7, <2>1, <2>2 DEF Switch, NoFile
<1> QED BY <1>2, <1>5, <1>6, <1>7

\* The other steps leave the names alone, and none comes back from the dead.
LEMMA SwitchUnmoved ==
  ASSUME Switch, UNCHANGED <<debugged_files, nb_debugged_files, asked>>,
         phase = "dead" => phase' = "dead"
  PROVE  Switch'
<1>1. Kept' = Kept BY DEF Kept
<1>2. Ascending(debugged_files, nb_debugged_files)' = Ascending(debugged_files, nb_debugged_files)
  BY DEF Ascending
<1> QED BY <1>1, <1>2 DEF Switch, NoFile

\* Reading an option nests nothing, and every mode it names is one of the table.
LEMMA OptionKept ==
  ASSUME Reported,
         \/ \E name \in Files : add_debug_to(name)
         \/ \E name \in StateNames : trace_state(name)
         \/ \E flag \in {"REGISTERS", "MEMORY", "POSITION"} : trace_add(flag)
         \/ TraceStateShort \/ Exit \/ Start
  PROVE  Reported' /\ line' = line
<1>1. UNCHANGED <<location_stack, frames, last_address, line>>
  BY DEF add_debug_to, trace_state, trace_add, TraceStateShort,
         Exit, Start, run_vars
<1>2. NestedIn(frames, location_stack)' BY <1>1 DEF Reported, NestedIn, Stacked
<1>3. phase = "options"
  BY DEF add_debug_to, trace_state, trace_add, TraceStateShort,
         Exit, Start, Option
<1>4. options' = options \/ (options' = options - 1 /\ options > 0)
  BY DEF add_debug_to, trace_state, trace_add, TraceStateShort,
         Exit, Start, Option
<1>5. options' \in 0..MaxOptions BY <1>4, ReportConstants DEF Reported, Settings
<1>6. CASE \E name \in Files : add_debug_to(name)
  <2>1. Switch' BY <1>6, AddKeepsSwitch DEF Reported
  <2>2. phase' \in {phase, "dead"} /\ UNCHANGED <<trace_flags, states>>
    BY <1>6 DEF add_debug_to, flag_vars
  <2> QED BY <1>1, <1>2, <1>5, <2>1, <2>2 DEF Reported, Settings, arm_mode_names
<1>7. CASE \E name \in StateNames : trace_state(name)
  <2>1. PICK name \in StateNames : trace_state(name) BY <1>7
  <2>2. phase' = phase /\ UNCHANGED <<debugged_files, nb_debugged_files, asked>>
    BY <2>1 DEF trace_state, debug_vars
  <2>3. PICK mode : mode = arm_get_mode_number(name) OBVIOUS
  <2>4. mode \in DOMAIN arm_mode_names \/ mode = -1
    BY <2>3 DEF arm_get_mode_number
  <2>5. \/ UNCHANGED <<trace_flags, states>>
        \/ /\ mode >= 0 /\ trace_flags' = trace_flags \cup {"STATE"}
           /\ states' = states \cup {mode}
    BY <2>1, <2>3 DEF trace_state, flag_vars
  <2>6. Switch' BY <2>2, SwitchUnmoved DEF Reported
  <2>7. mode >= 0 => mode \in DOMAIN arm_mode_names BY <2>4
  <2>8. states' \subseteq DOMAIN arm_mode_names BY <2>5, <2>7 DEF Reported, Settings
  <2>9. trace_flags' \subseteq {"STATE", "REGISTERS", "MEMORY", "POSITION"}
    BY <2>5 DEF Reported, Settings
  <2> QED BY <1>1, <1>2, <1>5, <2>2, <2>6, <2>8, <2>9 DEF Reported, Settings, arm_mode_names
<1>8. CASE \/ \E flag \in {"REGISTERS", "MEMORY", "POSITION"} : trace_add(flag)
           \/ TraceStateShort \/ Exit \/ Start
  <2>1. /\ UNCHANGED <<debugged_files, nb_debugged_files, asked, states>>
        /\ phase' \in {phase, "dead", "running"}
        /\ \/ trace_flags' = trace_flags
           \/ \E flag \in {"REGISTERS", "MEMORY", "POSITION"} :
                trace_flags' = trace_flags \cup {flag}
    BY <1>8 DEF trace_add, TraceStateShort, Exit, Start,
                debug_vars, flag_vars
  <2>2. Switch' BY <1>3, <2>1, SwitchUnmoved DEF Reported
  <2>3. trace_flags' \subseteq {"STATE", "REGISTERS", "MEMORY", "POSITION"}
    BY <2>1 DEF Reported, Settings
  <2> QED BY <1>1, <1>2, <1>3, <1>5, <2>1, <2>2, <2>3 DEF Reported, Settings, arm_mode_names
<1> QED BY <1>1, <1>6, <1>7, <1>8

\* The steps of an access leave the names alone.
LEMMA RunningKept ==
  ASSUME Reported, Running, phase' \in {"running", "dead"},
         NestedIn(frames, location_stack)', last_address' \in Accessed \cup {Seldom}
  PROVE  Reported'
<1>1. /\ UNCHANGED <<options, debugged_files, nb_debugged_files, asked, trace_flags, states>>
      /\ phase = "running"
  BY DEF Running, debug_vars, flag_vars
<1>2. Switch' BY <1>1, SwitchUnmoved DEF Reported
<1>3. Settings' BY <1>1 DEF Reported, Settings, arm_mode_names
<1> QED BY <1>2, <1>3 DEF Reported

\* An access begins, in the arguments of a write or of none.
LEMMA StartKept ==
  ASSUME Reported, NEW place \in Places, NEW kind \in Kinds, trace_start_location(place, kind)
  PROVE  Reported' /\ line' = line
<1> PICK new : new = Frame(place, kind) OBVIOUS
<1>1. /\ Running /\ UNCHANGED <<phase, last_address, line>>
      /\ frames' = Append(frames, new) /\ location_stack' = Append(location_stack, place)
      /\ \/ frames = <<>>
         \/ /\ Len(frames) = 1 /\ kind = "read"
            /\ frames[Len(frames)].kind # "read" /\ ~frames[Len(frames)].called
  BY DEF trace_start_location, top
<1>2. Pending(new) /\ new.kind = kind /\ Stacked(new) = <<place>>
  BY DEF Frame, Pending, Frames, Stacked
<1>3. new \in Frames BY <1>2 DEF Pending
<1>4. NestedIn(frames, location_stack)'
  <2>1. CASE frames = <<>>
    <3>1. location_stack = <<>> BY <2>1 DEF Reported, NestedIn
    <3>2. frames' = <<new>> /\ location_stack' = <<place>> BY <1>1, <2>1, <3>1
    <3> QED BY <1>2, <1>3, <3>2 DEF NestedIn
  <2>2. CASE frames # <<>>
    <3>1. PICK w \in Frames : Pending(w) /\ frames = <<w>> /\ location_stack = Stacked(w)
      BY <1>1, <2>2 DEF Reported, NestedIn
    <3>2. w.kind # "read" /\ ~w.called /\ kind = "read" BY <1>1, <2>2, <3>1
    <3>3. frames' = <<w, new>>
      <4>1. Append(<<w>>, new) = <<w, new>> BY LastOfFew
      <4>2. frames' = Append(<<w>>, new) BY <1>1, <3>1
      <4> QED BY <4>1, <4>2
    <3>4. location_stack' = Stacked(w) \o <<place>> BY <1>1, <3>1 DEF Stacked
    <3> QED BY <1>2, <1>3, <3>1, <3>2, <3>3, <3>4 DEF NestedIn
  <2> QED BY <2>1, <2>2
<1>5. phase' \in {"running", "dead"} /\ last_address' \in Accessed \cup {Seldom}
  BY <1>1 DEF Running, Reported, Settings
<1> QED BY <1>1, <1>4, <1>5, RunningKept

\* What becomes of the innermost access when it has become f.
Becomes(old, f) ==
  /\ f \in Frames /\ f.place = old.place /\ f.kind = old.kind
  /\ f.popped => (PopsFirst /\ f.kind # "register write") \/ f.called

Unstacked(old, f) ==
  IF f.popped /\ ~old.popped
  THEN SubSeq(location_stack, 1, Len(location_stack) - 1)
  ELSE location_stack

\* The innermost access advances: it stays with one of its two ends behind it or
\* goes with both, while the stack has lost its place or not.
LEMMA AdvanceKept ==
  ASSUME Reported, frames # <<>>, NEW f, Becomes(top, f), top.popped => f.popped,
         frames' = advanced(f), location_stack' = Unstacked(top, f)
  PROVE  NestedIn(frames, location_stack)'
<1>1. f \in Frames /\ f.place = top.place /\ f.kind = top.kind BY DEF Becomes
<1>2. (f.called /\ f.popped) \/ Pending(f) BY <1>1 DEF Becomes, Pending
<1>3. frames' = LET rest == SubSeq(frames, 1, Len(frames) - 1)
                IN  IF f.called /\ f.popped THEN rest ELSE Append(rest, f)
  BY DEF advanced
<1>4. location_stack' = IF f.popped /\ ~top.popped
                        THEN SubSeq(location_stack, 1, Len(location_stack) - 1)
                        ELSE location_stack
  BY DEF Unstacked
<1>5. CASE \E old \in Frames :
             Pending(old) /\ frames = <<old>> /\ location_stack = Stacked(old)
  <2>1. PICK old \in Frames : /\ Pending(old) /\ frames = <<old>>
                              /\ location_stack = Stacked(old)
    BY <1>5
  <2>2. top = old /\ SubSeq(frames, 1, Len(frames) - 1) = <<>>
    BY <2>1, LastOfFew DEF top
  <2>3. location_stack' = Stacked(f) BY <1>1, <1>4, <2>1, <2>2, LastOfFew DEF Stacked
  <2>4. CASE f.called /\ f.popped
    <3>1. frames' = <<>> BY <1>3, <2>2, <2>4
    <3>2. location_stack' = <<>> BY <2>3, <2>4 DEF Stacked
    <3> QED BY <3>1, <3>2 DEF NestedIn
  <2>5. CASE ~(f.called /\ f.popped)
    <3>1. frames' = <<f>> BY <1>3, <2>2, <2>5, LastOfFew
    <3> QED BY <1>1, <1>2, <2>3, <2>5, <3>1 DEF NestedIn
  <2> QED BY <2>4, <2>5
<1>6. CASE \E w, r \in Frames :
             /\ Pending(w) /\ Pending(r) /\ frames = <<w, r>>
             /\ location_stack = Stacked(w) \o Stacked(r)
             /\ w.kind # "read" /\ ~w.called /\ r.kind = "read"
  <2>1. PICK w \in Frames, r \in Frames :
             /\ Pending(w) /\ Pending(r) /\ frames = <<w, r>>
             /\ location_stack = Stacked(w) \o Stacked(r)
             /\ w.kind # "read" /\ ~w.called /\ r.kind = "read"
    BY <1>6
  <2>2. top = r /\ SubSeq(frames, 1, Len(frames) - 1) = <<w>>
    BY <2>1, LastOfFew DEF top
  <2>3. location_stack' = Stacked(w) \o Stacked(f)
    <3>1. CASE w.popped BY <1>1, <1>4, <2>1, <2>2, <3>1, LastOfFew DEF Stacked
    <3>2. CASE ~w.popped BY <1>1, <1>4, <2>1, <2>2, <3>2, LastOfFew DEF Stacked
    <3> QED BY <3>1, <3>2
  <2>4. CASE f.called /\ f.popped
    <3>1. frames' = <<w>> BY <1>3, <2>2, <2>4
    <3>2. location_stack' = Stacked(w) BY <2>3, <2>4, LastOfFew DEF Stacked
    <3> QED BY <2>1, <3>1, <3>2 DEF NestedIn
  <2>5. CASE ~(f.called /\ f.popped)
    <3>1. frames' = <<w, f>>
      <4>1. Append(<<w>>, f) = <<w, f>> BY LastOfFew
      <4>2. frames' = Append(<<w>>, f) BY <1>3, <2>2, <2>5
      <4> QED BY <4>1, <4>2
    <3>2. Pending(f) /\ f.kind = "read" BY <1>1, <1>2, <2>1, <2>2, <2>5
    <3> QED BY <1>1, <2>1, <2>3, <3>1, <3>2 DEF NestedIn
  <2> QED BY <2>4, <2>5
<1> QED BY <1>5, <1>6 DEF Reported, NestedIn

\* The innermost access is under evaluation.
LEMMA TopIsPending ==
  ASSUME Reported, frames # <<>>
  PROVE  Pending(top) /\ top \in Frames
<1>1. CASE \E f \in Frames : Pending(f) /\ frames = <<f>>
  <2>1. PICK f \in Frames : Pending(f) /\ frames = <<f>> BY <1>1
  <2>2. top = f BY <2>1, LastOfFew DEF top
  <2> QED BY <2>1, <2>2
<1>2. CASE \E w, r \in Frames : Pending(r) /\ frames = <<w, r>>
  <2>1. PICK w \in Frames, r \in Frames : Pending(r) /\ frames = <<w, r>> BY <1>2
  <2>2. top = r BY <2>1, LastOfFew DEF top
  <2> QED BY <2>1, <2>2
<1> QED BY <1>1, <1>2 DEF Reported, NestedIn

\* A place is popped (trace_location.h).
LEMMA EndKept ==
  ASSUME Reported, trace_end_location
  PROVE  Reported' /\ line' = line
<1> PICK old : old = top OBVIOUS
<1> PICK f : f = [old EXCEPT !.popped = TRUE] OBVIOUS
<1>1. /\ Running /\ UNCHANGED <<phase, last_address, line>>
      /\ frames # <<>> /\ ~old.popped
      /\ (PopsFirst /\ old.kind # "register write") \/ old.called
      /\ location_stack' = SubSeq(location_stack, 1, Len(location_stack) - 1)
      /\ frames' = advanced(f)
  BY DEF trace_end_location, pops
<1>2. old \in Frames BY <1>1, TopIsPending
<1>3. Becomes(old, f) /\ f.popped BY <1>1, <1>2 DEF Becomes, Frames
<1>4. location_stack' = Unstacked(old, f) BY <1>1, <1>3 DEF Unstacked
<1>5. NestedIn(frames, location_stack)' BY <1>1, <1>3, <1>4, AdvanceKept
<1>6. phase' \in {"running", "dead"} /\ last_address' \in Accessed \cup {Seldom}
  BY <1>1 DEF Running, Reported, Settings
<1> QED BY <1>1, <1>5, <1>6, RunningKept

\* The function of an access is called.
LEMMA CallNests ==
  ASSUME Reported, Calls
  PROVE  NestedIn(frames, location_stack)'
<1> PICK old : old = top OBVIOUS
<1> PICK f : f = [old EXCEPT !.called = TRUE] OBVIOUS
<1>1. frames # <<>> /\ location_stack' = location_stack /\ frames' = advanced(f)
  BY DEF Calls
<1>2. old \in Frames BY <1>1, TopIsPending
<1>3. Becomes(old, f) /\ f.popped = old.popped BY <1>2 DEF Becomes, Frames
<1>4. location_stack' = Unstacked(old, f) BY <1>1, <1>3 DEF Unstacked
<1> QED BY <1>1, <1>3, <1>4, AdvanceKept

\* What a line shows of the innermost access.
Shown(place) == ~PopsFirst => place = top.place

\* The place printed is that on top of the stack: that of the access, which has
\* not popped if it calls first (trace.c).
LEMMA PlacePrinted ==
  ASSUME Reported, frames # <<>>, "POSITION" \in trace_flags
  PROVE  Shown(trace_print_location)
<1>1. trace_print_location = IF location_stack # <<>>
                             THEN location_stack[Len(location_stack)] ELSE NoPlace
  BY DEF trace_print_location
<1>2. CASE \E f \in Frames : Pending(f) /\ frames = <<f>> /\ location_stack = Stacked(f)
  <2>1. PICK f \in Frames : Pending(f) /\ frames = <<f>> /\ location_stack = Stacked(f)
    BY <1>2
  <2>2. top = f BY <2>1, LastOfFew DEF top
  <2>3. CASE f.popped BY <2>1, <2>3 DEF Shown, Pending
  <2>4. CASE ~f.popped BY <1>1, <2>1, <2>2, <2>4, LastOfFew DEF Shown, Stacked
  <2> QED BY <2>3, <2>4
<1>3. CASE \E w, r \in Frames :
             /\ Pending(w) /\ Pending(r) /\ frames = <<w, r>>
             /\ location_stack = Stacked(w) \o Stacked(r)
             /\ w.kind # "read" /\ ~w.called /\ r.kind = "read"
  <2>1. PICK w \in Frames, r \in Frames :
             /\ Pending(r) /\ frames = <<w, r>>
             /\ location_stack = Stacked(w) \o Stacked(r)
    BY <1>3
  <2>2. top = r BY <2>1, LastOfFew DEF top
  <2>3. CASE r.popped BY <2>1, <2>3 DEF Shown, Pending
  <2>4. CASE ~r.popped
    <3>1. CASE w.popped
      <4>1. location_stack = <<r.place>> BY <2>1, <2>4, <3>1, LastOfFew DEF Stacked
      <4>2. trace_print_location = r.place BY <1>1, <4>1, LastOfFew
      <4> QED BY <2>2, <4>2 DEF Shown
    <3>2. CASE ~w.popped
      <4>1. PICK outer : outer = w.place OBVIOUS
      <4>2. PICK inner : inner = r.place OBVIOUS
      <4>3. location_stack = <<outer>> \o <<inner>>
        BY <2>1, <2>4, <3>2, <4>1, <4>2 DEF Stacked
      <4>4. location_stack = <<outer, inner>> BY <4>3, LastOfFew
      <4>5. trace_print_location = inner BY <1>1, <4>4, LastOfFew
      <4> QED BY <2>2, <4>2, <4>5 DEF Shown
    <3> QED BY <3>1, <3>2
  <2> QED BY <2>3, <2>4
<1> QED BY <1>2, <1>3 DEF Reported, NestedIn

\* An access is traced with the place that made it.
LEMMA TraceKept ==
  ASSUME Reported,
         \/ \E word \in Accessed : trace_memory(word)
         \/ \E known_mode \in BOOLEAN : trace_register(known_mode)
  PROVE  /\ Reported'
         /\ line' # line /\ "POSITION" \in trace_flags => Shown(line'.at)
<1>1. Calls BY DEF trace_memory, trace_register
<1>2. Running /\ frames # <<>> BY <1>1 DEF Calls
<1>3. phase' \in {"running", "dead"} /\ last_address' \in Accessed \cup {Seldom}
  BY <1>2 DEF trace_memory, trace_register, Running, Reported, Settings
<1>4. NestedIn(frames, location_stack)' BY <1>1, CallNests
<1>5. Reported' BY <1>2, <1>3, <1>4, RunningKept
<1>6. line' # line => line'.at = trace_print_location
  <2>1. CASE \E word \in Accessed : trace_memory(word)
    <3>1. PICK word \in Accessed : trace_memory(word) BY <2>1
    <3>2. PICK seq : seq = (word = last_address + 4) OBVIOUS
    <3>3. line' # line => line' = [of |-> top.place, at |-> trace_print_location,
                                   address |-> word, seq |-> seq]
      BY <3>1, <3>2 DEF trace_memory
    <3> QED BY <3>3
  <2>2. CASE \E known_mode \in BOOLEAN : trace_register(known_mode)
    <3>1. PICK known_mode \in BOOLEAN : trace_register(known_mode) BY <2>2
    <3> QED BY <3>1 DEF trace_register, NoLine
  <2> QED BY <2>1, <2>2
<1> QED BY <1>2, <1>5, <1>6, PlacePrinted

\* Every step of the options and of the accesses.
LEMMA ReportStep ==
  ASSUME Reported, [ReportNext]_report_vars
  PROVE  /\ Reported'
         /\ line' # line /\ "POSITION" \in trace_flags => Shown(line'.at)
<1>1. CASE \/ \E name \in Files : add_debug_to(name)
           \/ \E name \in StateNames : trace_state(name)
           \/ \E flag \in {"REGISTERS", "MEMORY", "POSITION"} : trace_add(flag)
           \/ TraceStateShort \/ Exit \/ Start
  BY <1>1, OptionKept
<1>2. CASE \E place \in Places, kind \in Kinds : trace_start_location(place, kind)
  BY <1>2, StartKept
<1>3. CASE trace_end_location BY <1>3, EndKept
<1>4. CASE \/ \E word \in Accessed : trace_memory(word)
           \/ \E known_mode \in BOOLEAN : trace_register(known_mode)
  BY <1>4, TraceKept
<1>5. CASE UNCHANGED report_vars
  <2>1. UNCHANGED <<phase, options, debugged_files, nb_debugged_files, asked, trace_flags,
                    states, location_stack, frames, last_address, line>>
    BY <1>5 DEF report_vars, debug_vars, flag_vars, run_vars
  <2>2. Switch' BY <2>1, SwitchUnmoved DEF Reported
  <2>3. NestedIn(frames, location_stack)' BY <2>1 DEF Reported, NestedIn, Stacked
  <2>4. Settings' BY <2>1 DEF Reported, Settings, arm_mode_names
  <2> QED BY <2>1, <2>2, <2>3, <2>4 DEF Reported
<1> QED BY <1>1, <1>2, <1>3, <1>4, <1>5 DEF ReportNext

\* The invariant in every state: what the switch, the nesting and the options need.
LEMMA ReportedAlways ==
  ReportSpec => []Reported
<1>1. ReportInit => Reported BY ReportedFirst
<1>2. Reported /\ [ReportNext]_report_vars => Reported'
  BY ReportStep
<1> QED BY <1>1, <1>2, PTL DEF ReportSpec

\* Whatever the options and the accesses, the counters of debug.c and trace.c
\* stay within their tables, the cell beyond the names is never read as a name,
\* and no more than two places are ever on the stack.
THEOREM ReportsTypeCorrect ==
  ReportSpec => []ReportTypeOK
<1>1. Reported => ReportTypeOK
  <2> SUFFICES ASSUME Reported PROVE ReportTypeOK OBVIOUS
  <2>1. \A f \in Frames : f.place \in Places BY DEF Frames
  <2>2. frames \in Seq(Frames) /\ location_stack \in Seq(Places) /\ Len(frames) <= 2
    <3>1. ASSUME NEW f \in Frames
          PROVE  /\ <<f>> \in Seq(Frames) /\ Len(<<f>>) = 1
                 /\ Stacked(f) \in Seq(Places)
      BY <2>1 DEF Stacked
    <3>2. ASSUME NEW w \in Frames, NEW r \in Frames
          PROVE  /\ <<w, r>> \in Seq(Frames) /\ Len(<<w, r>>) = 2
                 /\ Stacked(w) \o Stacked(r) \in Seq(Places)
      <4>1. Stacked(w) \in Seq(Places) /\ Stacked(r) \in Seq(Places) BY <3>1
      <4>2. Stacked(w) \o Stacked(r) \in Seq(Places) BY <4>1, ConcatProperties
      <4>3. <<w, r>> \in Seq(Frames) /\ Len(<<w, r>>) = 2 OBVIOUS
      <4> QED BY <4>2, <4>3
    <3>3. CASE frames = <<>> /\ location_stack = <<>> BY <3>3
    <3>4. CASE \E f \in Frames : frames = <<f>> /\ location_stack = Stacked(f)
      BY <3>1, <3>4
    <3>5. CASE \E w, r \in Frames :
                 frames = <<w, r>> /\ location_stack = Stacked(w) \o Stacked(r)
      BY <3>2, <3>5
    <3> QED BY <3>3, <3>4, <3>5 DEF Reported, NestedIn
  <2> QED BY <2>2 DEF Reported, Switch, Settings, ReportTypeOK, Frames
<1> QED BY ReportedAlways, <1>1, PTL

\* In whichever order and how often names are given, a file is debugged exactly if
\* its name was, as long as the table has room for it (debug.c:30).
THEOREM NamedFilesAreDebugged ==
  ReportSpec => []DebugSwitch
<1>1. Reported => DebugSwitch
  <2> SUFFICES ASSUME Reported, NEW name \in Files
               PROVE  /\ is_debugged(name) <=> name \in Kept
                      /\ name \in Kept => name \in asked
                      /\ name \in asked \ Kept /\ phase # "dead" =>
                           /\ nb_debugged_files = MAX_FILES_NUMBER
                           /\ \A k \in Kept : k < name
    BY DEF DebugSwitch, Kept
  <2>1. /\ MAX_FILES_NUMBER \in Nat /\ name \in Nat /\ Switch
        /\ nb_debugged_files \in 0..MAX_FILES_NUMBER
        /\ Ascending(debugged_files, nb_debugged_files)
    BY ReportConstants DEF Reported, Switch
  <2>2. is_debugged(name) <=>
          \E i \in 0..nb_debugged_files - 1 : debugged_files[i] = name
    BY <2>1, DebuggedIsKept
  <2>3. name \in Kept <=> \E i \in 0..nb_debugged_files - 1 : debugged_files[i] = name
    BY DEF Kept
  <2>4. is_debugged(name) <=> name \in Kept BY <2>2, <2>3
  <2>5. name \in Kept => name \in asked BY <2>1 DEF Switch
  <2>6. name \in asked \ Kept /\ phase # "dead" =>
          nb_debugged_files = MAX_FILES_NUMBER /\ \A k \in Kept : k < name
    BY <2>1 DEF Switch
  <2> QED BY <2>4, <2>5, <2>6
<1> QED BY ReportedAlways, <1>1, PTL

\* However reads nest in the arguments of writes, and in whichever order C
\* evaluates the operands of a sum, the stack of trace.c holds the places of the
\* accesses under evaluation that have not popped, in order.
THEOREM StackFollowsNesting ==
  ReportSpec => []StackIsNesting
<1>1. Reported => StackIsNesting
  <2> SUFFICES ASSUME Reported PROVE StackIsNesting OBVIOUS
  <2> PICK unpopped : unpopped = {i \in DOMAIN frames : ~frames[i].popped} OBVIOUS
  <2>1. Cardinality({}) = 0 /\ Cardinality({1}) = 1 /\ Cardinality({2}) = 1
    BY FS_EmptySet, FS_Singleton
  <2>2. Cardinality({1, 2}) = 2
    <3>1. IsFiniteSet({1}) /\ Cardinality({1} \cup {2}) = Cardinality({1}) + 1
      BY FS_Singleton, FS_AddElement
    <3>2. {1} \cup {2} = {1, 2} OBVIOUS
    <3> QED BY <2>1, <3>1, <3>2
  <2>3. {1, 2} \cap 1..1 = {1} /\ {1, 2} \cap 1..2 = {1, 2} /\ {2} \cap 1..2 = {2}
        /\ {1} \cap 1..1 = {1}
    OBVIOUS
  <2>4. CASE frames = <<>> /\ location_stack = <<>>
    <3>1. unpopped = {} BY <2>4
    <3> QED BY <2>1, <2>4, <3>1 DEF StackIsNesting
  <2>5. CASE \E f \in Frames : Pending(f) /\ frames = <<f>> /\ location_stack = Stacked(f)
    <3>1. PICK f \in Frames : frames = <<f>> /\ location_stack = Stacked(f) BY <2>5
    <3>2. unpopped = IF f.popped THEN {} ELSE {1} BY <3>1
    <3>3. CASE f.popped
      <4>1. unpopped = {} /\ location_stack = <<>> BY <3>1, <3>2, <3>3 DEF Stacked
      <4> QED BY <2>1, <4>1 DEF StackIsNesting
    <3>4. CASE ~f.popped
      <4>1. unpopped = {1} /\ location_stack = <<f.place>> BY <3>1, <3>2, <3>4 DEF Stacked
      <4>2. Len(location_stack) = 1 /\ location_stack[1] = frames[1].place BY <3>1, <4>1
      <4> QED BY <2>1, <2>3, <4>1, <4>2 DEF StackIsNesting
    <3> QED BY <3>3, <3>4
  <2>6. CASE \E w, r \in Frames :
               /\ Pending(w) /\ Pending(r) /\ frames = <<w, r>>
               /\ location_stack = Stacked(w) \o Stacked(r)
               /\ w.kind # "read" /\ ~w.called /\ r.kind = "read"
    <3>1. PICK w \in Frames, r \in Frames :
               frames = <<w, r>> /\ location_stack = Stacked(w) \o Stacked(r)
      BY <2>6
    <3>2. frames[1] = w /\ frames[2] = r /\ DOMAIN frames = {1, 2} BY <3>1
    <3>3. CASE w.popped /\ r.popped
      <4>1. unpopped = {} /\ location_stack = <<>> BY <3>1, <3>2, <3>3 DEF Stacked
      <4> QED BY <2>1, <4>1 DEF StackIsNesting
    <3>4. CASE w.popped /\ ~r.popped
      <4>1. unpopped = {2} /\ location_stack = <<r.place>> BY <3>1, <3>2, <3>4 DEF Stacked
      <4>2. Len(location_stack) = 1 /\ location_stack[1] = frames[2].place BY <3>2, <4>1
      <4> QED BY <2>1, <2>3, <4>1, <4>2 DEF StackIsNesting
    <3>5. CASE ~w.popped /\ r.popped
      <4>1. unpopped = {1} /\ location_stack = <<w.place>> BY <3>1, <3>2, <3>5 DEF Stacked
      <4> QED BY <2>1, <2>3, <3>2, <4>1 DEF StackIsNesting
    <3>6. CASE ~w.popped /\ ~r.popped
      <4>1. unpopped = {1, 2}
        <5>1. \A i : i \in unpopped <=> i \in {1, 2} BY <3>2, <3>6
        <5> QED BY <5>1
      <4>2. PICK outer : outer = w.place OBVIOUS
      <4>3. PICK inner : inner = r.place OBVIOUS
      <4>4. location_stack = <<outer>> \o <<inner>> BY <3>1, <3>6, <4>2, <4>3 DEF Stacked
      <4>5. location_stack = <<outer, inner>> BY <4>4, LastOfFew
      <4>6. /\ Len(location_stack) = 2 /\ location_stack[1] = frames[1].place
            /\ location_stack[2] = frames[2].place
        BY <3>2, <4>2, <4>3, <4>5
      <4>7. Len(location_stack) = Cardinality(unpopped) BY <2>2, <4>1, <4>6
      <4>8. ASSUME NEW i \in unpopped
            PROVE  location_stack[Cardinality(unpopped \cap 1..i)] = frames[i].place
        <5>1. CASE i = 1
          <6>1. unpopped \cap 1..i = {1} BY <2>3, <4>1, <5>1
          <6> QED BY <2>1, <4>6, <5>1, <6>1
        <5>2. CASE i = 2
          <6>1. unpopped \cap 1..i = {1, 2} BY <2>3, <4>1, <5>2
          <6> QED BY <2>2, <4>6, <5>2, <6>1
        <5> QED BY <4>1, <5>1, <5>2
      <4> QED BY <4>7, <4>8 DEF StackIsNesting
    <3> QED BY <3>3, <3>4, <3>5, <3>6
  <2> QED BY <2>4, <2>5, <2>6 DEF Reported, NestedIn
<1> QED BY ReportedAlways, <1>1, PTL

\* Whatever reads the arguments of an access make, the line traced of it shows its
\* own place, if the compiler calls before it pops (trace_location.h).
THEOREM LinesShowPlaces ==
  ReportSpec => PlacesShown
<1>1. Reported /\ [ReportNext]_report_vars =>
        [line' # line /\ "POSITION" \in trace_flags /\ ~PopsFirst
           => line'.at = top.place]_report_vars
  BY ReportStep DEF Shown
<1> QED BY ReportedAlways, <1>1, PTL DEF ReportSpec, PlacesShown
=============================================================================
