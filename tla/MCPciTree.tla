----------------------------- MODULE MCPciTree ------------------------------
(***************************************************************************)
(* Two slots of four functions: empty slots, a slot with one function, all *)
(* four, a gap, functions behind an absent function 0, and a function      *)
(* behind a function 0 that does not announce it. The table grows by two   *)
(* slots twice, so that freed slots are reused before it grows and, in     *)
(* unwritten memory, slots read as taken.                                  *)
(***************************************************************************)
EXTENDS PciTree

MCHardware ==
  { [present |-> {}, multi |-> {}],
    [present |-> {0, 1, 5}, multi |-> {1}],
    [present |-> {0, 2, 3, 4}, multi |-> {0}],
    [present |-> {0, 4, 5, 7}, multi |-> {1}],
    [present |-> {0, 1, 2, 3}, multi |-> {0}] }

MCDistances == {-1, 1}
=============================================================================
