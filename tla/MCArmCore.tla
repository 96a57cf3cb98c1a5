------------------------------ MODULE MCArmCore ------------------------------
(***************************************************************************)
(* ArmCore with 5-bit words, so that every vector is an address and only   *)
(* the fast interrupt vector lies outside the memory, and one instruction  *)
(* of every class the decoder tells apart, with the registers that make    *)
(* its special cases happen.                                               *)
(***************************************************************************)
EXTENDS ArmCore

MCRegNums == {0, 14, 15}
MCUninitPsr == [M |-> 30, bits |-> {"I"}]
MCOperand == [M |-> SVC, bits |-> {}]

MCInstrs ==
  {[op |-> "alu", cond |-> "EQ", rd |-> 14, S |-> TRUE],
   [op |-> "alu", cond |-> "AL", rd |-> 15, S |-> TRUE],
   [op |-> "alu", cond |-> "AL", rd |-> 0, S |-> FALSE],
   [op |-> "adc", cond |-> "AL", rd |-> 14, S |-> TRUE],
   [op |-> "test", cond |-> "AL"],
   [op |-> "teq", cond |-> "NE", rd |-> 15],
   [op |-> "msr", cond |-> "AL", R |-> 0, field |-> TRUE, operand |-> MCOperand],
   [op |-> "msr", cond |-> "AL", R |-> 0, field |-> FALSE, operand |-> MCOperand],
   [op |-> "msr", cond |-> "AL", R |-> 1, field |-> TRUE, operand |-> MCOperand],
   [op |-> "mrs", cond |-> "AL", R |-> 1, rd |-> 14],
   [op |-> "b", cond |-> "AL", link |-> TRUE, offset |-> 4],
   [op |-> "bx", cond |-> "AL", link |-> FALSE, rm |-> 14],
   [op |-> "ldr", cond |-> "AL", rd |-> 15, rn |-> 0, wb |-> TRUE],
   [op |-> "str", cond |-> "AL", rn |-> 14, wb |-> TRUE],
   [op |-> "ldm", cond |-> "AL", P |-> 0, U |-> 1, W |-> TRUE, rn |-> 0,
    list |-> {15}],
   [op |-> "ldm", cond |-> "AL", P |-> 1, U |-> 0, W |-> TRUE, rn |-> 15,
    list |-> {0, 14}],
   [op |-> "stm", cond |-> "AL", P |-> 1, U |-> 1, W |-> TRUE, rn |-> 14,
    list |-> {0}],
   [op |-> "stm", cond |-> "AL", P |-> 0, U |-> 1, W |-> TRUE, rn |-> 14,
    list |-> {0}],
   [op |-> "media", cond |-> "AL", bit24 |-> TRUE, low24 |-> "end"],
   [op |-> "media", cond |-> "AL", bit24 |-> TRUE, low24 |-> "other"],
   [op |-> "swi", cond |-> "AL", low24 |-> "end"],
   [op |-> "undefined", cond |-> "AL"]}
=============================================================================
