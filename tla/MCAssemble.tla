----------------------------- MODULE MCAssemble -----------------------------
(* Packets of 5 bytes, reads of 1 to 5 bytes, four packets' worth of stream. *)
EXTENDS Assemble
=============================================================================
