------------------------------- MODULE Memory -------------------------------
(***************************************************************************)
(* One memory and the accesses made to it: what every read and write       *)
(* returns and which bytes it leaves.                                      *)
(***************************************************************************)
EXTENDS MemoryAccess

CONSTANT WrittenWords  \* the values written

ASSUME WrittenAssumption == WrittenWords \subseteq Nat

VARIABLES
  data,   \* the bytes
  result  \* what the last access returned: 0 or -1, or Crashed

vars == <<data, result>>

Crashed == -2  \* no return: the address sanitizer ends the process

\* What malloc left is any byte: zeros stand for it.
Init ==
  /\ data = [a \in 0..capacity - 1 |-> 0]
  /\ result = 0

\* memory_read_byte, _half and _word.
Read(size, a) ==
  /\ result # Crashed
  /\ result' = IF read_fits(size, a) THEN 0 ELSE -1
  /\ UNCHANGED data

\* memory_write_byte, _half and _word.
Write(size, a, value, be) ==
  /\ result # Crashed
  /\ \/ /\ write_fits(size, a) /\ in_array(size, a)
        /\ data' = stored(data, size, a, value, be)
        /\ result' = 0
     \/ /\ write_fits(size, a) /\ ~in_array(size, a)
        /\ result' = Crashed
        /\ UNCHANGED data
     \/ /\ ~write_fits(size, a)
        /\ result' = -1
        /\ UNCHANGED data

Next ==
  \E size \in Sizes, a \in Addresses :
    \/ Read(size, a)
    \/ \E value \in WrittenWords, be \in Orders : Write(size, a, value, be)

Spec == Init /\ [][Next]_vars

-----------------------------------------------------------------------------
TypeOK ==
  /\ data \in [0..capacity - 1 -> Byte]
  /\ result \in {0, -1, Crashed}

\* The bytes i to i + size - 1 of a value of width bytes.
part(value, width, i, size, be) ==
  (value \div power[IF be THEN width - size - i ELSE i]) % power[size]

\* After a write of any size, every access in the same byte order that lies
\* within the written bytes reads that part of the value: the bytes of a half
\* or a word lie in memory in the order the narrower and wider accesses, and
\* the debugger's byte by byte ones, expect them.
PartsOfAWrite ==
  [][\A width \in Sizes, a \in Addresses, value \in WrittenWords, be \in Orders :
       result' = 0 /\ Write(width, a, value, be) =>
         \A size \in Sizes : \A i \in 0..width - size :
           value_of(data', size, a + i, be) = part(value, width, i, size, be)]_vars

\* memory.h:44 "The return value indicates a succes (0) or a failure (-1)":
\* every access returns.
EveryAccessReturns == result # Crashed
=============================================================================
