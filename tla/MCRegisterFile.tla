--------------------------- MODULE MCRegisterFile ---------------------------
(***************************************************************************)
(* RegisterFile with one-bit words, one register of each banking class     *)
(* (r8, r14 and the pc) and a status word for each kind of mode: the two   *)
(* that share r13 and r14, the one with its own r8, two with an SPSR only, *)
(* and none.                                                               *)
(***************************************************************************)
EXTENDS RegisterFile

MCRegNums == {8, 14, 15}
MCWrittenNums == MCRegNums \cup {16}
MCUninitPsr == [M |-> 30, bits |-> {}]
MCWrittenPsrs == [M : {USR, FIQ, SVC, SYS, 0}, bits : {{}}]
                   \cup {[M |-> ABT, bits |-> {"I"}]}
MCSavedPsrs == {[M |-> SVC, bits |-> {}]}
=============================================================================
