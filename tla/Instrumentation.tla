--------------------------- MODULE Instrumentation ---------------------------
(***************************************************************************)
(* What the simulator reports of itself: the options that turn reports on  *)
(* (arm_simulator.c), the names of the files whose debug messages are      *)
(* printed (debug.c), and the traces of accesses to registers and memory   *)
(* with the place in the source that made them (trace.c,                   *)
(* trace_location.h).  The core's accessors are macros that push their     *)
(* place, call the function and pop.                                       *)
(***************************************************************************)
EXTENDS ArmNames, Sequences, FiniteSets

CONSTANTS
  MAX_FILES_NUMBER,
  Files,       \* the names of source files: numbers, in the order of strcmp
  StateNames,  \* the arguments of --trace-state
  Places,      \* the places in the source that make accesses
  Accessed,    \* the words accessed
  Seldom,      \* the initial last_address, which no first access follows
  PopsFirst,   \* whether the compiler may pop a place before it calls in a sum
  MaxOptions   \* bound: options on the command line

ASSUME InstrumentationAssumption ==
  /\ MAX_FILES_NUMBER \in Nat \ {0} /\ Files \subseteq Nat
  /\ MaxOptions \in Nat /\ PopsFirst \in BOOLEAN
  /\ Accessed \subseteq Nat /\ Seldom \in Nat /\ Seldom + 4 \notin Accessed

VARIABLES
  phase,              \* "options", "running", or "dead"
  options,            \* the options left to read
  debugged_files,     \* the sorted names, one beyond the array included
  nb_debugged_files,
  asked,              \* the names given to --debug
  trace_flags,
  states,             \* the modes whose state is traced
  location_stack,     \* the places pushed, the last one on top
  frames,             \* the accesses under evaluation, the innermost last
  last_address,       \* of the last access traced
  line                \* the last line traced

debug_vars == <<debugged_files, nb_debugged_files, asked>>
flag_vars == <<trace_flags, states>>
run_vars == <<location_stack, frames, last_address, line>>
report_vars == <<phase, options, debug_vars, flag_vars, run_vars>>

NoFile == -1
NoPlace == "none"
NoLine == [of |-> NoPlace, at |-> NoPlace, address |-> Seldom, seq |-> FALSE]

-----------------------------------------------------------------------------
(* The names of debugged files.                                            *)

insertion_unordered(name) == nb_debugged_files  \* mutant: at the end

\* The place of a name: that of the first name that is not below it.
insertion(name) ==
  Cardinality({i \in 0..nb_debugged_files - 1 :
                 \A j \in 0..i : debugged_files[j] < name})

inserted(i, name) ==
  [j \in 0..MAX_FILES_NUMBER |->
     CASE j < i -> debugged_files[j]
       [] j = i -> name
       [] j > i /\ j <= nb_debugged_files -> debugged_files[j - 1]
       [] OTHER -> debugged_files[j]]

\* The bisection with inclusive bounds, from the whole table.
is_debugged(name) ==
  LET bisect[w \in (0..MAX_FILES_NUMBER) \X (-1..MAX_FILES_NUMBER - 1)] ==
        LET from == w[1]
            to == w[2]
            middle == (from + to) \div 2
        IN  CASE from < to /\ debugged_files[middle] < name -> bisect[<<middle + 1, to>>]
              [] from < to /\ debugged_files[middle] > name -> bisect[<<from, middle - 1>>]
              [] from < to /\ debugged_files[middle] = name -> TRUE
              [] OTHER -> from = to /\ debugged_files[from] = name
  IN  bisect[<<0, nb_debugged_files - 1>>]

-----------------------------------------------------------------------------
(* The command line: -d and the trace options.                             *)

Option == phase = "options" /\ options > 0 /\ options' = options - 1

\* A full table is not refused unless the name goes past its end: otherwise the
\* last name is written outside the array.
add_debug_to(name) ==
  /\ Option
  /\ asked' = asked \cup {name}
  /\ LET i == insertion(name)
     IN  \/ /\ i >= MAX_FILES_NUMBER
            /\ UNCHANGED <<phase, debugged_files, nb_debugged_files>>
         \/ /\ i < MAX_FILES_NUMBER /\ nb_debugged_files < MAX_FILES_NUMBER
            /\ debugged_files' = inserted(i, name)
            /\ nb_debugged_files' = nb_debugged_files + 1
            /\ UNCHANGED phase
         \/ /\ i < MAX_FILES_NUMBER /\ nb_debugged_files = MAX_FILES_NUMBER
            /\ phase' = "dead"
            /\ UNCHANGED <<debugged_files, nb_debugged_files>>
  /\ UNCHANGED <<flag_vars, run_vars>>

\* An unknown mode, number -1, is ignored.
trace_state(name) ==
  /\ Option
  /\ LET mode == arm_get_mode_number(name)
     IN  IF mode >= 0
         THEN trace_flags' = trace_flags \cup {"STATE"} /\ states' = states \cup {mode}
         ELSE UNCHANGED flag_vars
  /\ UNCHANGED <<phase, debug_vars, run_vars>>

\* The short option has no argument and passes a null name on.
TraceStateShort ==
  /\ Option
  /\ phase' = "dead"
  /\ UNCHANGED <<debug_vars, flag_vars, run_vars>>

trace_add(flag) ==
  /\ Option
  /\ trace_flags' = trace_flags \cup {flag}
  /\ UNCHANGED <<phase, debug_vars, states, run_vars>>

\* --help, an unknown option and a trace file that does not open.
Exit ==
  /\ Option
  /\ phase' = "dead"
  /\ UNCHANGED <<debug_vars, flag_vars, run_vars>>

Start ==
  /\ phase = "options"
  /\ phase' = "running"
  /\ UNCHANGED <<options, debug_vars, flag_vars, run_vars>>

-----------------------------------------------------------------------------
(* The evaluation of an access.  A frame says whether its function has been *)
(* called and its place popped.  In the macros of reads and of memory writes *)
(* these are the operands of a sum, whose order is the compiler's; that of a *)
(* register write calls first.  The arguments of a write may be reads, which *)
(* are evaluated before it calls.  An operand is evaluated as a whole.       *)

Kinds == {"read", "register write", "memory write"}
Frame(place, kind) == [place |-> place, kind |-> kind, called |-> FALSE, popped |-> FALSE]
top == frames[Len(frames)]
Running == phase = "running" /\ UNCHANGED <<options, debug_vars, flag_vars>>

trace_start_location(place, kind) ==
  /\ Running /\ UNCHANGED phase
  /\ \/ frames = <<>>
     \/ Len(frames) = 1 /\ kind = "read" /\ top.kind # "read" /\ ~top.called
  /\ location_stack' = Append(location_stack, place)
  /\ frames' = Append(frames, Frame(place, kind))
  /\ UNCHANGED <<last_address, line>>

advanced_called(frame) ==  \* mutant: one that has called leaves its place
  LET rest == SubSeq(frames, 1, Len(frames) - 1)
  IN  IF frame.called THEN rest ELSE Append(rest, frame)

\* A frame ends when it has both called and popped.
advanced(frame) ==
  LET rest == SubSeq(frames, 1, Len(frames) - 1)
  IN  IF frame.called /\ frame.popped THEN rest ELSE Append(rest, frame)

pops_early(frame) == TRUE  \* mutant: a register write pops in a sum as well
pops(frame) == (PopsFirst /\ frame.kind # "register write") \/ frame.called

trace_end_location ==
  /\ Running /\ UNCHANGED phase
  /\ frames # <<>> /\ ~top.popped /\ pops(top)
  /\ location_stack' = SubSeq(location_stack, 1, Len(location_stack) - 1)
  /\ frames' = advanced([top EXCEPT !.popped = TRUE])
  /\ UNCHANGED <<last_address, line>>

trace_print_location ==
  IF "POSITION" \in trace_flags /\ location_stack # <<>>
  THEN location_stack[Len(location_stack)]
  ELSE NoPlace

Calls == Running /\ frames # <<>> /\ ~top.called
         /\ frames' = advanced([top EXCEPT !.called = TRUE])
         /\ UNCHANGED location_stack

\* The access at an address of the memory, whether it succeeds or not.
trace_memory(address) ==
  /\ Calls /\ UNCHANGED phase
  /\ top.kind \in {"read", "memory write"}
  /\ IF "MEMORY" \in trace_flags
     THEN /\ line' = [of |-> top.place, at |-> trace_print_location,
                      address |-> address, seq |-> address = last_address + 4]
          /\ last_address' = address
     ELSE UNCHANGED <<last_address, line>>

\* The name of the mode of a register access is looked up outside the table when
\* the cpsr names no mode: the process dies or whatever lies there is a name.
trace_register(known_mode) ==
  /\ Calls
  /\ top.kind \in {"read", "register write"}
  /\ IF "REGISTERS" \in trace_flags
     THEN /\ line' = [NoLine EXCEPT !.of = top.place, !.at = trace_print_location]
          /\ IF known_mode THEN UNCHANGED phase ELSE phase' \in {"running", "dead"}
     ELSE UNCHANGED <<phase, line>>
  /\ UNCHANGED last_address

-----------------------------------------------------------------------------
ReportInit ==
  /\ phase = "options" /\ options = MaxOptions
  /\ debugged_files = [i \in 0..MAX_FILES_NUMBER |-> NoFile]
  /\ nb_debugged_files = 0 /\ asked = {}
  /\ trace_flags = {} /\ states = {}
  /\ location_stack = <<>> /\ frames = <<>>
  /\ last_address = Seldom /\ line = NoLine

ReportNext ==
  \/ \E name \in Files : add_debug_to(name)
  \/ \E name \in StateNames : trace_state(name)
  \/ \E flag \in {"REGISTERS", "MEMORY", "POSITION"} : trace_add(flag)
  \/ TraceStateShort \/ Exit \/ Start
  \/ \E place \in Places, kind \in Kinds : trace_start_location(place, kind)
  \/ trace_end_location
  \/ \E address \in Accessed : trace_memory(address)
  \/ \E known_mode \in BOOLEAN : trace_register(known_mode)

ReportSpec == ReportInit /\ [][ReportNext]_report_vars

-----------------------------------------------------------------------------
ReportTypeOK ==
  /\ phase \in {"options", "running", "dead"} /\ options \in 0..MaxOptions
  /\ nb_debugged_files \in 0..MAX_FILES_NUMBER
  /\ debugged_files[MAX_FILES_NUMBER] = NoFile
  /\ trace_flags \subseteq {"STATE", "REGISTERS", "MEMORY", "POSITION"}
  /\ states \subseteq DOMAIN arm_mode_names
  /\ frames \in Seq([place : Places, kind : Kinds, called : BOOLEAN, popped : BOOLEAN])
  /\ location_stack \in Seq(Places) /\ Len(frames) <= 2
  /\ last_address \in Accessed \cup {Seldom}

\* The bisection finds exactly the names of the table, in whichever order and
\* how often they were asked for, and a name is refused only because the table is
\* full of names below it.
DebugSwitch ==
  \A name \in Files :
    LET kept == {debugged_files[i] : i \in 0..nb_debugged_files - 1}
    IN  /\ is_debugged(name) <=> name \in kept
        /\ name \in kept => name \in asked
        /\ name \in asked \ kept /\ phase # "dead" =>
             nb_debugged_files = MAX_FILES_NUMBER /\ \A k \in kept : k < name

\* The stack holds the places of the accesses under evaluation that have not
\* popped, in order, whatever order the operands of a sum are evaluated in: it
\* is empty between two expressions.
StackIsNesting ==
  LET unpopped == {i \in DOMAIN frames : ~frames[i].popped}
  IN  /\ Len(location_stack) = Cardinality(unpopped)
      /\ \A i \in unpopped :
           location_stack[Cardinality(unpopped \cap 1..i)] = frames[i].place

\* arm_simulator.c:128 of the trace of positions: "for each traced access,
\* outputs the file and line at which the access has been performed".  So it is
\* as long as the compiler calls first, whatever reads an access makes in its
\* arguments, which push and pop their own places before it calls.
PlacesShown ==
  [][line' # line /\ "POSITION" \in trace_flags /\ ~PopsFirst
       => line'.at = top.place]_report_vars
=============================================================================
