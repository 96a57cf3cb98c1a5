--------------------------- MODULE DebuggerAccess ---------------------------
(***************************************************************************)
(* What the debugger reads and writes while the program is stopped         *)
(* (gdb_protocol.c): memory with m and X, one register with p and P.       *)
(* The memory is the one the core accesses; the registers are those of the *)
(* current mode.  A command is the text gdb sends, its numbers in          *)
(* hexadecimal, its binary content escaped.                                *)
(***************************************************************************)
EXTENDS Memory, Sequences

CONSTANTS
  Escape,    \* 0x7d
  Special,   \* the bytes gdb escapes: $, #, * and 0x7d
  FlipBit,   \* 0x20
  Contents,  \* the byte strings the debugger writes to memory
  Lengths,   \* the lengths it asks to read
  Numbers,   \* the register numbers it names
  RegValues  \* the words it writes to a register

ASSUME DebuggerAssumption ==
  /\ Escape \in Special /\ Special \subseteq Byte /\ FlipBit \in Byte \ {0}
  /\ Contents \subseteq Seq(Byte)
  /\ Lengths \subseteq Nat /\ Numbers \subseteq 0..25

VARIABLES
  registers,  \* the general registers of the current mode
  answer      \* the answer to the last X or P

debugger_vars == <<data, result, registers, answer>>

flip(v) == IF (v \div FlipBit) % 2 = 1 THEN v - FlipBit ELSE v + FlipBit

\* The answer to a request to read: no bytes stands for the error EFAULT.
NoBytes == <<>>

-----------------------------------------------------------------------------
(* The commands. *)

read_memory_past(bytes, address, size) ==  \* mutant: one byte too many
  IF address < capacity
  THEN LET n == IF address + size < capacity THEN size + 1 ELSE capacity - address
       IN  [i \in 1..n |-> bytes[address + i - 1]]
  ELSE NoBytes

\* m and p change nothing: their answers are operators.
\* m: the bytes from the address up to the end of the memory.
read_memory(bytes, address, size) ==
  IF address < capacity
  THEN LET n == IF address + size < capacity THEN size ELSE capacity - address
       IN  [i \in 1..n |-> bytes[address + i - 1]]
  ELSE NoBytes

\* What gdb sends for a string of bytes.
quoted(v) == IF v \in Special THEN <<Escape, flip(v)>> ELSE <<v>>

Sent(content) ==
  LET text[i \in 0..Len(content)] ==
        IF i = 0 THEN <<>> ELSE text[i - 1] \o quoted(content[i])
  IN  text[Len(content)]

writes_byte_unescaped(l, text, a) ==  \* mutant: the escape is not skipped
  LET c == IF text[l.at] = Escape THEN l.at + 1 ELSE l.at
  IN  IF ~l.ok THEN l
      ELSE [bytes |-> IF a < capacity THEN [l.bytes EXCEPT ![a] = text[c]] ELSE l.bytes,
            at |-> c + 1, ok |-> a < capacity]

\* One round of the loop of X over its text, at address a: at is the position of
\* content in the text.
writes_byte(l, text, a) ==
  LET escaped == text[l.at] = Escape
      v == IF escaped THEN flip(text[l.at + 1]) ELSE text[l.at]
  IN  IF ~l.ok THEN l
      ELSE [bytes |-> IF a < capacity THEN [l.bytes EXCEPT ![a] = v] ELSE l.bytes,
            at |-> l.at + (IF escaped THEN 2 ELSE 1),
            ok |-> a < capacity]

writes(bytes, text, address, size) ==
  LET loop[i \in 0..size] ==
        IF i = 0
        THEN [bytes |-> bytes, at |-> 1, ok |-> address < capacity]
        ELSE writes_byte(loop[i - 1], text, address + i - 1)
  IN  loop[size]

\* atoi of a number gdb writes in hexadecimal: it stops at the first letter.
atoi(n) ==
  LET high == n \div 16
      low == n % 16
  IN  IF low < 10 THEN 10 * high + low ELSE high

\* The registers have no number above 15: an assertion ends the process.
read_single(regs, n) == regs[atoi(n)]

-----------------------------------------------------------------------------
Stopped == result # Crashed

WriteMemoryBinary(address, content) ==
  /\ Stopped
  /\ LET w == writes(data, Sent(content), address, Len(content))
     IN  /\ data' = w.bytes
         /\ answer' = IF w.ok THEN "OK" ELSE "E02"
  /\ UNCHANGED <<result, registers>>

WriteSingleRegister(n, v) ==
  /\ Stopped /\ n < 16
  /\ registers' = [registers EXCEPT ![n] = v]
  /\ answer' = "OK"
  /\ UNCHANGED <<data, result>>

\* p or P of a register above 15.
AssertionFails(n) ==
  /\ Stopped /\ (atoi(n) >= 16 \/ n >= 16)
  /\ result' = Crashed
  /\ UNCHANGED <<data, registers, answer>>

\* The core loads and stores between two commands.
Program == Next /\ UNCHANGED <<registers, answer>>

DebuggerInit ==
  /\ Init
  /\ registers = [n \in 0..15 |-> 0]
  /\ answer = "OK"

DebuggerNext ==
  \/ Program
  \/ \E address \in Addresses, content \in Contents :
       WriteMemoryBinary(address, content)
  \/ \E n \in Numbers :
       \/ AssertionFails(n)
       \/ \E v \in RegValues : WriteSingleRegister(n, v)

DebuggerSpec == DebuggerInit /\ [][DebuggerNext]_debugger_vars

-----------------------------------------------------------------------------
DebuggerTypeOK ==
  /\ TypeOK
  /\ registers \in [0..15 -> {0} \cup RegValues]
  /\ answer \in {"OK", "E02"}

\* X stores the bytes gdb meant, each in its place, whether gdb escaped it or
\* not: all of them and answers OK, or, when they do not all fit, those that fit
\* and answers E02.  No other byte changes.
WrittenAsSent ==
  [][\A address \in Addresses, content \in Contents :
       WriteMemoryBinary(address, content) =>
         /\ \A a \in DOMAIN data :
              data'[a] = IF a \in address..address + Len(content) - 1
                         THEN content[a - address + 1]
                         ELSE data[a]
         /\ (answer' = "OK") <=>
              address < capacity /\ address + Len(content) <= capacity]_debugger_vars

\* What m answers after any access is what a load of the core finds there: a half
\* or word that fits in the request and in the memory is made of the bytes of the
\* answer, in the byte order of the core, and the answer ends with the memory.
DebuggerSeesWords ==
  \A address \in Addresses, length \in Lengths :
    LET seen == read_memory(data, address, length)
        most == IF address < capacity THEN capacity - address ELSE 0
    IN  /\ Len(seen) = IF length <= most THEN length ELSE most
        /\ \A size \in Sizes, be \in Orders :
             size <= Len(seen) =>
               /\ read_fits(size, address)
               /\ value_of(data, size, address, be) =
                    value_of([i \in 0..Len(seen) - 1 |-> seen[i + 1]], size, 0, be)

\* gdb_protocol.c:34 is "an implementation of the GDB RSP protocol", in which p
\* and P name a register by the same number: what P has written p reads back.
\* The code reads the one in base 10 and the other in base 16.
SameRegister ==
  [][\A n \in Numbers, v \in RegValues :
       WriteSingleRegister(n, v) => read_single(registers', n) = v]_debugger_vars
=============================================================================
