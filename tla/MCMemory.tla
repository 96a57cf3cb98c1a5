------------------------------ MODULE MCMemory ------------------------------
(***************************************************************************)
(* Six bytes of two values each in eight addresses: every access that    *)
(* fits, that starts inside and ends outside, and that wraps around.       *)
(***************************************************************************)
EXTENDS Memory

MCWords == {1, 2, 13}
=============================================================================
