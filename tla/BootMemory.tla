----------------------------- MODULE BootMemory -----------------------------
(***************************************************************************)
(* How the boot code turns the Multiboot2 memory map into the free pages   *)
(* of the page allocator: i386_start_c clips the entries (nop/arch/i386/   *)
(* start.c), start() carves the bitmap out of the first block that can     *)
(* hold it and marks what is left (nop/start.c).                           *)
(*                                                                         *)
(* An address is a number of bytes and size_t holds addresses modulo       *)
(* Space; the entries of the map are 64 bits wide and may lie above it.    *)
(***************************************************************************)
EXTENDS Integers, Sequences

CONSTANTS
  PageCount,   \* PAGE_COUNT
  PageSize,    \* PAGE_SIZE
  LowMemory,   \* 0x00100000, the end of the real mode area
  LoadStart,   \* i386_load_start
  BssEnd,      \* i386_bss_end
  MemoryMaps,  \* the sequences of entries a loader may pass
  Leftovers    \* the sets of pages whose bits memory at NULL may have clear

PAGE_BITMAP_SIZE == PageCount \div 8
NULL == 0

(* size_t has as many values as there are bytes in all pages together. *)
Space == PageCount * PageSize
Pages == 0 .. PageCount - 1

(* files/i386/linker.ld links the kernel at 1 MiB; it does not reach into *)
(* the last page.                                                         *)
ASSUME LayoutAssumption ==
  /\ PageCount \in Nat \ {0} /\ PageSize \in Nat \ {0}
  /\ PageCount % 8 = 0
  /\ LowMemory \in Nat /\ LowMemory >= PageSize
  /\ LoadStart = LowMemory
  /\ BssEnd \in LoadStart + 1 .. Space - PageSize

(* An entry spans [addr, end); the bytes below a multiple of 4 GiB, where *)
(* the firmware's ROM is, are not available RAM.                          *)
ASSUME MapAssumption ==
  \A m \in MemoryMaps :
    /\ m \in Seq([addr : Nat, end : Nat, available : BOOLEAN])
    /\ \A k \in DOMAIN m :
         /\ m[k].addr < m[k].end
         /\ m[k].available => m[k].addr % Space <= Space - PageSize

ASSUME LeftoverAssumption == Leftovers \subseteq SUBSET Pages

VARIABLES
  mmap,    \* the memory map tag
  pc,      \* "clip", "place" and "mark" are the three loops
  j,       \* the index of the loop
  blocks,  \* the array of [start, size] passed to start()
  bitmap,  \* page_bitmap, NULL before page_init
  free     \* the pages whose bit is clear

vars == <<mmap, pc, j, blocks, bitmap, free>>

Init ==
  /\ mmap \in MemoryMaps
  /\ pc = "clip"
  /\ j = 1
  /\ blocks = <<>>
  /\ bitmap = NULL
  /\ free \in Leftovers

-----------------------------------------------------------------------------
(* The clipping of one entry, with the end clipped last as in the code. *)

(* Variants: the kernel's image, or the real mode area, is not clipped. *)
StartNoKernel(e) ==
  LET s == e.addr % Space
  IN  IF s < LowMemory THEN LowMemory ELSE s

StartNoLow(e) ==
  LET s == e.addr % Space
  IN  IF s >= LoadStart /\ s < BssEnd THEN BssEnd ELSE s

Start(e) ==
  LET s == e.addr % Space
      t == IF s < LowMemory THEN LowMemory ELSE s
  IN  IF t >= LoadStart /\ t < BssEnd THEN BssEnd ELSE t

End(e) ==
  LET s == e.end % Space
  IN  IF Start(e) >= LoadStart /\ s < BssEnd THEN LoadStart ELSE s

(* Variant: what is left of an entry may be empty. *)
ClipEntryAny ==
  /\ pc = "clip"
  /\ j <= Len(mmap)
  /\ j' = j + 1
  /\ LET e == mmap[j]
     IN  blocks' = IF e.available
                     THEN Append(blocks,
                                 [start |-> Start(e), size |-> End(e) - Start(e)])
                     ELSE blocks
  /\ UNCHANGED <<mmap, pc, bitmap, free>>

ClipEntry ==
  /\ pc = "clip"
  /\ j <= Len(mmap)
  /\ j' = j + 1
  /\ LET e == mmap[j]
     IN  blocks' = IF e.available /\ Start(e) < End(e)
                     THEN Append(blocks,
                                 [start |-> Start(e), size |-> End(e) - Start(e)])
                     ELSE blocks
  /\ UNCHANGED <<mmap, pc, bitmap, free>>

ClipDone ==
  /\ pc = "clip"
  /\ j > Len(mmap)
  /\ pc' = "place" /\ j' = 1
  /\ UNCHANGED <<mmap, blocks, bitmap, free>>

(* Variant: the block is not shortened. *)
PlaceBitmapInside ==
  /\ pc = "place"
  /\ j <= Len(blocks)
  /\ blocks[j].size >= PAGE_BITMAP_SIZE
  /\ bitmap' = blocks[j].start + blocks[j].size - PAGE_BITMAP_SIZE
  /\ free' = {}
  /\ pc' = "mark" /\ j' = 1
  /\ UNCHANGED <<mmap, blocks>>

(* The first block that is large enough gives up its last bytes, and *)
(* page_init marks every page used.                                  *)
PlaceBitmap ==
  /\ pc = "place"
  /\ j <= Len(blocks)
  /\ blocks[j].size >= PAGE_BITMAP_SIZE
  /\ blocks' = [blocks EXCEPT ![j].size = @ - PAGE_BITMAP_SIZE]
  /\ bitmap' = blocks'[j].start + blocks'[j].size
  /\ free' = {}
  /\ pc' = "mark" /\ j' = 1
  /\ UNCHANGED mmap

TooSmall ==
  /\ pc = "place"
  /\ j <= Len(blocks)
  /\ blocks[j].size < PAGE_BITMAP_SIZE
  /\ j' = j + 1
  /\ UNCHANGED <<mmap, pc, blocks, bitmap, free>>

(* Nothing in the code reports that no block could hold the bitmap. *)
NoBitmap ==
  /\ pc = "place"
  /\ j > Len(blocks)
  /\ pc' = "mark" /\ j' = 1
  /\ UNCHANGED <<mmap, blocks, bitmap, free>>

(* The arguments of page_mark: whole pages inside the block. *)
FirstPage(b) == ((b.start + (PageSize - 1)) % Space) \div PageSize

(* Variant: a block's end is rounded up. *)
LastPageUp(b) == ((b.start + b.size + PageSize - 1) % Space) \div PageSize

LastPage(b) == ((b.start + b.size) % Space) \div PageSize

(* page_mark(start, end, PAGE_FREE). *)
MarkBlock ==
  /\ pc = "mark"
  /\ j <= Len(blocks)
  /\ free' = free \cup {p \in Pages : /\ FirstPage(blocks[j]) <= p
                                      /\ p < LastPage(blocks[j])}
  /\ j' = j + 1
  /\ UNCHANGED <<mmap, pc, blocks, bitmap>>

MarkDone ==
  /\ pc = "mark"
  /\ j > Len(blocks)
  /\ pc' = "done"
  /\ UNCHANGED <<mmap, j, blocks, bitmap, free>>

Next ==
  \/ ClipEntry \/ ClipDone
  \/ PlaceBitmap \/ TooSmall \/ NoBitmap
  \/ MarkBlock \/ MarkDone

Spec == Init /\ [][Next]_vars

-----------------------------------------------------------------------------
Bytes(p) == p * PageSize .. (p + 1) * PageSize - 1

Available == {mmap[k] : k \in {m \in DOMAIN mmap : mmap[m].available}}

(* A page all of whose bytes are RAM that the map lists once. *)
IsRam(p) == \E e \in Available : e.addr <= p * PageSize /\ (p + 1) * PageSize <= e.end

AllBelowSpace == \A e \in Available : e.end < Space

EntriesApart ==
  \A k, m \in DOMAIN mmap :
    k # m /\ mmap[k].available /\ mmap[m].available =>
      mmap[k].end <= mmap[m].addr \/ mmap[m].end <= mmap[k].addr

TypeOK ==
  /\ mmap \in MemoryMaps
  /\ pc \in {"clip", "place", "mark", "done"}
  /\ j \in Nat
  /\ blocks \in Seq([start : 0 .. Space - 1, size : 0 .. Space - 1])
  /\ bitmap \in 0 .. Space - 1
  /\ free \in SUBSET Pages

(* Whatever the map says, entries above 4 GiB and entries that overlap the *)
(* kernel included, no page of the real mode area or of the kernel's image *)
(* becomes free ("Kludgey way to prevent marking the kernel as free").     *)
KernelKept ==
  pc = "done" /\ bitmap # NULL =>
    \A p \in free : p * PageSize >= BssEnd

(* The ranges start() passes to page_mark are ones the page allocator is   *)
(* specified for: they never hold page 0 and end inside the bitmap. This   *)
(* is what PageBitmap assumes of its BootBlocks.                           *)
RangesLegal ==
  \A k \in DOMAIN blocks :
    /\ FirstPage(blocks[k]) \in 1 .. PageCount
    /\ LastPage(blocks[k]) \in 1 .. PageCount

(* With RAM below 4 GiB and listed once, exactly the whole pages of RAM     *)
(* outside the kernel and the bitmap are free: rounding and clipping invent *)
(* no page and lose none.                                                   *)
FreeIsRam ==
  pc = "done" /\ bitmap # NULL /\ AllBelowSpace /\ EntriesApart =>
    free = {p \in Pages :
              /\ IsRam(p)
              /\ p * PageSize >= BssEnd
              /\ Bytes(p) \cap (bitmap .. bitmap + PAGE_BITMAP_SIZE - 1) = {}}
=============================================================================
