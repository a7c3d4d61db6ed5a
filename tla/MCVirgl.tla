------------------------------ MODULE MCVirgl ------------------------------
(* Two refused commands, composites and resizes at any moment; a bitmap of *)
(* two strips and two blend operators.                                     *)
EXTENDS Virgl
=============================================================================
