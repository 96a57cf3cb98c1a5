--------------------------- MODULE MCBreakpoints ---------------------------
(***************************************************************************)
(* A table of four cells and six addresses: it fills, overflows, and every *)
(* cell is inserted before, after and between others. One cell is left to  *)
(* hold an address that malloc happened to leave in it.                    *)
(***************************************************************************)
EXTENDS Breakpoints

MCAddresses == 0..5
MCUnset == 3
=============================================================================
