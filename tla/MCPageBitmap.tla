---------------------------- MODULE MCPageBitmap ----------------------------
(***************************************************************************)
(* A machine of three bitmap bytes. The first boot block starts and ends   *)
(* inside a byte and spans a whole one, so that every loop of page_mark    *)
(* runs; the second ends at the last page, where page_alloc's scan stops.  *)
(***************************************************************************)
EXTENDS PageBitmap

MCBootBlocks == {<<6, 18>>, <<21, 24>>}
MCMmioBlocks == {<<18, 20>>}

(* Memory found clear, found set, and alternating. *)
MCLeftovers ==
  {[p \in Pages |-> PAGE_FREE], [p \in Pages |-> PAGE_USED],
   [p \in Pages |-> p % 2]}
=============================================================================
