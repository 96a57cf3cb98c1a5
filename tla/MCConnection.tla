---------------------------- MODULE MCConnection ----------------------------
(***************************************************************************)
(* Every input of up to four bytes, those of five that could matter to a   *)
(* packet, and a packet followed by others; a buffer of two bytes, which   *)
(* grows twice, and reads of one to three.                                 *)
(***************************************************************************)
EXTENDS Connection

Inputs(bytes, n) == [1..n -> bytes]

MCStreams ==
  LET D == Rules!Dollar  H == Rules!Hash  X == Rules!Hex
      packets == {<<D, H, X, X>>, <<D, Rules!Nul, H, X, X>>, <<D, Rules!Plus, H, X, X>>,
                  <<D, Rules!Other, H, X, X>>}
      others == packets \cup {<<Rules!Minus>>, <<Rules!Other, Rules!Minus>>,
                              <<Rules!Nul, D>>, <<D, Rules!Other, D, H, X>>}
  IN  UNION {Inputs(Rules!Bytes, n) : n \in 0..4}
        \cup Inputs({Rules!Nul, Rules!Other, H, D, X}, 5)
        \cup {p \o o : p \in packets, o \in others}

MCAnswer == <<"$", "#">>
=============================================================================
