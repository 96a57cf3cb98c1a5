---------------------------- MODULE MemoryAccess ----------------------------
(***************************************************************************)
(* The simulated memory (memory.c) as operators on one array of bytes:     *)
(* byte, half and word accesses in either byte order.  A value of two or   *)
(* four bytes is a number in base ByteBase, so that & 0xFF and >> 8 are %  *)
(* and \div.                                                               *)
(***************************************************************************)
EXTENDS Integers

CONSTANTS
  capacity,    \* of the memory, in bytes
  ByteBase,    \* the number of values of a byte: 256 in the program
  ADDRESS_MAX  \* the largest uint32_t

ASSUME MemoryAssumption ==
  /\ capacity \in Nat /\ capacity >= 4
  /\ ByteBase \in Nat /\ ByteBase >= 2
  /\ ADDRESS_MAX \in Nat /\ capacity <= ADDRESS_MAX

Byte == 0..ByteBase - 1
Addresses == 0..ADDRESS_MAX
Sizes == {1, 2, 4}
Orders == BOOLEAN  \* TRUE for a big endian access

\* The values of n bytes.
power[n \in 0..4] == IF n = 0 THEN 1 ELSE ByteBase * power[n - 1]

\* The weight in a value of size bytes of the byte i above its address.
weight_mixed(size, i, be) ==  \* mutant: the middle bytes of a big endian word
  power[IF be /\ i \notin {1, 2} THEN size - 1 - i ELSE i]
weight(size, i, be) == power[IF be THEN size - 1 - i ELSE i]

\* size_t arithmetic: capacity - 3 does not wrap, the address never does.
read_fits(size, a) == a < capacity - (size - 1)

in_array(size, a) == a + size - 1 < capacity

\* memory_write_half adds to the address, which is an uint32_t and wraps.
write_fits(size, a) ==
  IF size = 2
  THEN (a + 1) % (ADDRESS_MAX + 1) < capacity
  ELSE a < capacity - (size - 1)

value_of(bytes, size, a, be) ==
  LET at(i) == bytes[a + i] * weight(size, i, be)
  IN  CASE size = 1 -> at(0)
        [] size = 2 -> at(0) + at(1)
        [] OTHER -> at(0) + at(1) + at(2) + at(3)

byte_unmasked(value, size, i, be) ==  \* mutant: no & 0xFF
  value \div weight(size, i, be)
byte_of(value, size, i, be) == (value \div weight(size, i, be)) % ByteBase

stored(bytes, size, a, value, be) ==
  [b \in DOMAIN bytes |->
     IF b \in a..a + size - 1 THEN byte_of(value, size, b - a, be) ELSE bytes[b]]
=============================================================================
