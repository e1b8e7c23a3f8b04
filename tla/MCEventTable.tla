---------------------------- MODULE MCEventTable ----------------------------
(***************************************************************************)
(* The timer on the master and a line on each PIC, and a table that grows  *)
(* twice: a copy of a table with handles in it is made, slots are reused,  *)
(* and an interrupt may come at every step of it.                          *)
(***************************************************************************)
EXTENDS EventTable

MCHandlers == {[event |-> 0, once |-> FALSE], [event |-> 8, once |-> FALSE],
               [event |-> 8, once |-> TRUE]}
=============================================================================
