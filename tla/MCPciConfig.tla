---------------------------- MODULE MCPciConfig -----------------------------
(***************************************************************************)
(* Two functions of eight bytes: every position in a word, calls that      *)
(* span one, two and three words, and calls over the end of a function and *)
(* of the space.                                                           *)
(***************************************************************************)
EXTENDS PciConfig

MCDistances == {-9, -1, 0, 1}
=============================================================================
