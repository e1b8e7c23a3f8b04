---------------------------- MODULE MCBootMemory ----------------------------
(***************************************************************************)
(* Sixteen pages of four bytes; the kernel fills bytes 8 to 17. Entries    *)
(* start and end at page boundaries, inside pages, at the kernel's bounds, *)
(* at the end of the address space and above it; two of them may overlap.  *)
(***************************************************************************)
EXTENDS BootMemory

Marks == {0, 7, 8, 15, 18, 23, 24, 41, 47, 60, 63, 64, 90, 120}

Entries ==
  {e \in [addr : Marks, end : Marks, available : BOOLEAN] :
     /\ e.addr < e.end
     /\ e.available => e.addr % 64 <= 60}

MCMemoryMaps == {<<e>> : e \in Entries} \cup (Entries \X Entries)

MCLeftovers == {{}, Pages}
=============================================================================
