------------------------------- MODULE MCMbr --------------------------------
(***************************************************************************)
(* Starts and counts of two bits: their sum does not fit two bits, so the  *)
(* width of the comparison with the drive's size matters. The four entries *)
(* of the code allow overlaps that are not between neighbours.             *)
(***************************************************************************)
EXTENDS Mbr
=============================================================================
