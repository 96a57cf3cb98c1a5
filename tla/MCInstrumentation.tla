------------------------- MODULE MCInstrumentation --------------------------
(***************************************************************************)
(* A table of three names out of four, so that it fills up and a name is   *)
(* inserted before, between and after others; accesses at two successive   *)
(* addresses.                                                              *)
(***************************************************************************)
EXTENDS Instrumentation
=============================================================================
