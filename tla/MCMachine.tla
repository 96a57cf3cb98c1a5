------------------------------ MODULE MCMachine ------------------------------
(***************************************************************************)
(* Words of 8 bits and bytes of 2, so that a word is four bytes, in a      *)
(* memory of 20 bytes.  Three registers hold every combination of the      *)
(* words at the edges of the arithmetic, of addresses at the edges of the  *)
(* memory and of shift amounts below, at and above the width of a word;    *)
(* one register file is of user mode, one of no mode, another has its pc   *)
(* at the last bytes of the memory.                                        *)
(***************************************************************************)
EXTENDS Machine

MCRegNums == {0, 1, 2, 14, 15}
MCUninitPsr == [M |-> 30, bits |-> {"I"}]
MCInitMem == [a \in 0..MemSize - 1 |-> (a * a + a \div 3) % ByteBase]

MCWords == {0, 1, 8, 16, 17, 127, 128, 254, 255}
MCAmounts == {0, 7, 8, 9}

\* What G leaves: the registers, then the cpsr.
Loaded(v, amount, mode, bits) ==
  LET create == arm_create(registers_create)
      set(r, n, w) == arm_write_register(r, n, w)
  IN  registers_write_cpsr(set(set(set(create, 0, v[1]), 1, v[2]), 2, amount),
                           [M |-> mode, bits |-> bits])

MCInitRegs ==
  {Loaded(v, n, SVC, {"I", "A"} \cup f) :
     v \in MCWords \X MCWords, n \in MCAmounts, f \in {{}, {"C"}}}
    \cup {Loaded(<<8, 8>>, 0, USR, {}), Loaded(<<16, 16>>, 1, 0, {"C"}),
          arm_write_register(Loaded(<<0, 1>>, 2, SVC, {"I"}), 15, MemSize - 3)}

Amount(kind, n) == [by |-> "amount", kind |-> kind, rm |-> 1, amount |-> n]
ByRegister(kind) == [by |-> "register", kind |-> kind, rm |-> 1, rs |-> 2]
Immediate(v, rotate) == [by |-> "immediate", imm |-> v, rotate |-> rotate]
Offset(v) == [by |-> "immediate", imm |-> v]

dp(code, S, rd, sh) ==
  [op |-> "dp", cond |-> "AL", code |-> code, S |-> S, rd |-> rd, rn |-> 0, sh |-> sh]

single(L, P, U, wb, size, rd, off) ==
  [op |-> "single", cond |-> "AL", L |-> L, P |-> P, U |-> U, W |-> wb,
   size |-> size, rd |-> rd, rn |-> 0, off |-> off]

multiple(op, P, U, wb, rn, list) ==
  [op |-> op, cond |-> "AL", P |-> P, U |-> U, W |-> wb, rn |-> rn, list |-> list]

MCProgram ==
  {dp("mov", TRUE, 0, Amount(kind, n)) : kind \in 0..3, n \in {0, 1, 6, 7}}
    \cup {dp("mov", TRUE, 0, ByRegister(kind)) : kind \in 0..3}
    \cup {dp("orr", FALSE, 0, Immediate(v, n)) : v \in {1, 3}, n \in {0, 1, 3}}
    \cup {dp(code, TRUE, 0, Amount(0, 0)) : code \in Codes}
    \cup {dp(code, TRUE, rd, Amount(0, 0)) : code \in {"add", "adc", "sub"}, rd \in {14, 15}}
    \cup {dp("add", FALSE, 0, Amount(3, 0)), dp("rsc", FALSE, 0, Amount(3, 1)),
          [dp("mov", FALSE, 15, Amount(0, 0)) EXCEPT !.cond = "EQ"]}
    \cup {single(L, P, U, wb, 4, 2, Amount(0, 0)) :
            L \in 0..1, P \in 0..1, U \in 0..1, wb \in BOOLEAN}
    \cup {single(L, 1, 1, TRUE, size, rd, Offset(1)) :
            L \in 0..1, size \in Sizes, rd \in {0, 15}}
    \cup {single(0, 1, 0, FALSE, 1, 1, Amount(kind, n)) : kind \in 1..3, n \in {0, 1}}
    \cup {multiple(op, P, U, wb, 0, list) :
            op \in {"ldm", "stm"}, P \in 0..1, U \in 0..1, wb \in BOOLEAN,
            list \in {{1, 2}, {2, 15}}}
    \cup {multiple("stm", 1, 0, TRUE, rn, {1, 2}) : rn \in {14, 15}}
    \cup {multiple("ldm", 0, 1, FALSE, 0, {0, 14, 15}),
          multiple("stm", 1, 0, TRUE, 0, {1, 2, 14})}
=============================================================================
