----------------------------- MODULE ArmTransfer -----------------------------
(***************************************************************************)
(* What loads and stores transfer (arm_load_store.c,                       *)
(* load_store_addressing_operations.c, load_store_memory_operations.c and  *)
(* the memory accessors of arm_core.c): addresses, sizes and the order of  *)
(* the accesses, as operators over a register file r and an array of bytes *)
(* mem.                                                                    *)
(***************************************************************************)
EXTENDS ArmArithmetic, ArmStep

CONSTANTS
  ByteBase,    \* the number of values of a byte
  ENDIANESS,   \* TRUE for a big endian memory
  Unread       \* what an uninitialised word of the stack may hold

INSTANCE MemoryAccess WITH capacity <- MemSize, ADDRESS_MAX <- UINT32_MAX

ASSUME TransferAssumption ==
  /\ ByteBase \in Nat /\ ByteBase >= 2 /\ power[4] = UINT32_MAX + 1
  /\ MemSize >= 4 /\ ENDIANESS \in BOOLEAN /\ Unread \subseteq Word

Transferred(r, m, result) == [reg |-> r, mem |-> m, result |-> result]

\* A half word written at the last address is outside the array: the process dies.
arm_write(r, m, size, a, v) ==
  CASE ~write_fits(size, a) -> Transferred(r, m, AccessFailed)
    [] write_fits(size, a) /\ ~in_array(size, a) -> Transferred(r, m, Aborted)
    [] OTHER -> Transferred(r, stored(m, size, a, v % power[size], ENDIANESS), 0)

arm_load(r, m, size, a, rd) ==
  IF read_fits(size, a)
  THEN Transferred(arm_write_register(r, rd, value_of(m, size, a, ENDIANESS)), m, 0)
  ELSE Transferred(r, m, AccessFailed)

-----------------------------------------------------------------------------
(* Single transfers.  An instruction is a record with the bits P, U, W and *)
(* L, the size of the access, the registers and an offset: an immediate or *)
(* a register shifted by an amount.  The offset of a half word is always   *)
(* an immediate: its register forms are never recognised.                  *)

Offsets ==
  [by : {"immediate"}, imm : Word]
    \cup [by : {"amount"}, kind : 0..3, rm : Reg, amount : 0..TopBit]

calculate_address(r, rn, offset, U) ==
  LET address == arm_read_register(r, rn)
  IN  IF U = 1 THEN plus(address, offset) ELSE minus(address, offset)

scaled_right_by_zero(v, kind, n, c) ==  \* mutant: an amount of 0 shifts by 0
  CASE kind = 0 -> logical_shift_left(v, n)
    [] kind = 1 -> logical_shift_right(v, n)
    [] kind = 2 /\ n = 0 -> IF negative(v) THEN UINT32_MAX ELSE 0
    [] kind = 2 /\ n # 0 -> asr(v, n)
    [] kind = 3 /\ n = 0 -> c * exp2[TopBit] + logical_shift_right(v, 1)
    [] OTHER -> ror(v, n)

calculate_address_scaled_register(v, kind, n, c) ==
  CASE kind = 0 -> logical_shift_left(v, n)
    [] kind = 1 -> IF n = 0 THEN 0 ELSE logical_shift_right(v, n)
    [] kind = 2 /\ n = 0 -> IF negative(v) THEN UINT32_MAX ELSE 0
    [] kind = 2 /\ n # 0 -> asr(v, n)
    [] kind = 3 /\ n = 0 -> c * exp2[TopBit] + logical_shift_right(v, 1)
    [] OTHER -> ror(v, n)

offset_of(r, off) ==
  IF off.by = "immediate"
  THEN off.imm
  ELSE calculate_address_scaled_register(
         arm_read_register(r, off.rm), off.kind, off.amount, C_flag(r))

\* process_memory_access and process_memory_access_half.
process_memory_access(r, m, ins, a) ==
  IF ins.L = 1
  THEN arm_load(r, m, ins.size, a, ins.rd)
  ELSE arm_write(r, m, ins.size, a, arm_read_register(r, ins.rd))

\* Indexing before or after the access moves the base.
moves_base(ins) == ins.P = 0 \/ ins.W

\* The base is moved first, and the access is made where it has moved.
handle_memory_operation(r, m, ins) ==
  LET address == calculate_address(r, ins.rn, offset_of(r, ins.off), ins.U)
      moved == IF moves_base(ins) THEN arm_write_register(r, ins.rn, address) ELSE r
  IN  process_memory_access(moved, m, ins, address)

has_addressing_mode(ins) == ins.P = 1 \/ ~ins.W

arm_load_store(r, m, ins) ==
  IF has_addressing_mode(ins)
  THEN handle_memory_operation(r, m, ins)
  ELSE Transferred(r, m, UNDEFINED_INSTRUCTION)

-----------------------------------------------------------------------------
(* Multiple transfers.                                                     *)

count_set_bits(list) == Cardinality(list)

\* The word of register i of the list lies after those of lower number.
below(list, i) == Cardinality({j \in list : j < i})

start_adr_low(r, ins) ==  \* mutant: decrement after starts where before does
  LET v == arm_read_register(r, ins.rn)
      n == (4 * count_set_bits(ins.list)) % (UINT32_MAX + 1)
  IN  CASE ins.P = 0 /\ ins.U = 1 -> v
        [] ins.P = 1 /\ ins.U = 1 -> plus(v, 4)
        [] OTHER -> minus(v, n)

start_adr(r, ins) ==
  LET v == arm_read_register(r, ins.rn)
      n == (4 * count_set_bits(ins.list)) % (UINT32_MAX + 1)
  IN  CASE ins.P = 0 /\ ins.U = 1 -> v
        [] ins.P = 1 /\ ins.U = 1 -> plus(v, 4)
        [] ins.P = 0 /\ ins.U = 0 -> plus(minus(v, n), 4)
        [] OTHER -> minus(v, n)

end_adr(r, ins) ==
  LET v == arm_read_register(r, ins.rn)
      n == (4 * count_set_bits(ins.list)) % (UINT32_MAX + 1)
  IN  CASE ins.P = 0 /\ ins.U = 1 -> minus(plus(ins.rn, n), 4)
        [] ins.P = 1 /\ ins.U = 1 -> plus(v, n)
        [] ins.P = 0 /\ ins.U = 0 -> v
        [] OTHER -> minus(v, 4)

slot(r, ins, i) == plus(start_adr(r, ins), (4 * below(ins.list, i)) % (UINT32_MAX + 1))

\* The loop stops before r15; a word outside the memory is dropped.  Registers
\* are read after the base has been written back.
store_multiple(r, m, ins) ==
  LET w == start_end_adresse(r, ins)
      put(bytes, i) == arm_write(w, bytes, 4, slot(r, ins, i), arm_read_register(w, i)).mem
      stores[i \in -1..14] ==
        IF i = -1 THEN m
        ELSE IF i \in ins.list THEN put(stores[i - 1], i) ELSE stores[i - 1]
  IN  Transferred(w, stores[14], 0)

\* A word outside the memory leaves in value what the last read left there, or
\* what the stack held before the first.
word_read(r, m, ins, unread) ==
  LET reads(i) == read_fits(4, slot(r, ins, i))
      value[i \in -1..15] ==
        CASE i = -1 -> unread
          [] i \in ins.list /\ reads(i) -> value_of(m, 4, slot(r, ins, i), ENDIANESS)
          [] OTHER -> value[i - 1]
  IN  value

load_multiple(r, m, ins, unread) ==
  LET value == word_read(r, m, ins, unread)
      loaded == load_all(start_end_adresse(r, ins), ins.list, [i \in ins.list |-> value[i]])
      assert == 15 \in ins.list => end_adr(r, ins) = slot(r, ins, 15)
  IN  Transferred(loaded, m, IF assert THEN 0 ELSE Aborted)

arm_load_store_multiple(r, m, ins) ==
  IF ins.op = "stm"
  THEN {store_multiple(r, m, ins)}
  ELSE {load_multiple(r, m, ins, unread) : unread \in Unread}
=============================================================================
