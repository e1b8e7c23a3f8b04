---------------------------- MODULE MCAhciDrive -----------------------------
(***************************************************************************)
(* Three sectors of three bytes, with PRDT entries of two sectors: transfers*)
(* of less than one, of exactly one and of more than one entry all occur,  *)
(* with and without a head and a tail, and at the disk's end. One command  *)
(* slot, so that a port whose slots are lost is reached, and two, so that  *)
(* a command is sent past a lost one.                                      *)
(***************************************************************************)
EXTENDS AhciDrive

(* Backwards past the start, onto and off a sector boundary, past the end. *)
MCDistances == {-10, 0, 1}
=============================================================================
