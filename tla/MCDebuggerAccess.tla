-------------------------- MODULE MCDebuggerAccess --------------------------
(***************************************************************************)
(* Five bytes of four values in six addresses: accesses that fit, that     *)
(* start inside and end outside, and that start outside.  Two of the four  *)
(* values are escaped on the line, one of them is the escape itself.       *)
(***************************************************************************)
EXTENDS DebuggerAccess

MCWords == {27}
MCContents == {<<>>, <<3, 0>>, <<2, 1, 3>>}
=============================================================================
