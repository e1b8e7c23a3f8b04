------------------------------- MODULE MCHeap -------------------------------
(***************************************************************************)
(* Three free pages of eight bytes in two runs, headers of one byte and     *)
(* block heads of two. A size of 2 leaves room to split in a one-page      *)
(* block, a size of 4 takes one whole, a size of 7 needs two pages.        *)
(***************************************************************************)
EXTENDS Heap

MCBootBlocks == {<<1, 3>>, <<4, 5>>}
=============================================================================
