----------------------------- MODULE PageBitmap -----------------------------
(***************************************************************************)
(* nop/page.c: the physical page allocator, one bit per page, as the loops *)
(* of page_mark and page_alloc execute it, together with its callers:      *)
(* page_init and the boot blocks (nop/start.c), the heap's two callbacks   *)
(* (nop/start.c) and the AHCI driver, which reserves its registers.        *)
(*                                                                         *)
(* pc says which loop runs: "mark" is page_mark called by a client, "take" *)
(* is page_mark called by page_alloc on the run it has found.              *)
(***************************************************************************)
EXTENDS Integers

CONSTANTS
  PageCount,   \* PAGE_COUNT
  PageSize,    \* PAGE_SIZE
  Requests,    \* the page counts passed to page_alloc
  StepArgs,    \* the step arguments, in bytes, passed to page_alloc
  BootBlocks,  \* <<start, end>> page ranges of the blocks given to start()
  MmioBlocks,  \* <<start, end>> page ranges of HBA tables (ahci_init)
  Leftovers    \* what the memory of the bitmap may contain before page_init

PAGE_FREE == 0
PAGE_USED == 1
NULL == 0

Pages == 0 .. PageCount - 1
PagesIn(start, end) == {p \in Pages : start <= p /\ p < end}
BootPages == UNION {PagesIn(r[1], r[2]) : r \in BootBlocks}

(* The bitmap is a whole number of bytes, and no caller asks for nothing: *)
(* the heap rounds a size of at least its own headers up to pages.        *)
ASSUME CountAssumption ==
  /\ PageCount \in Nat \ {0}
  /\ PageCount % 8 = 0
  /\ Requests \subseteq 1 .. PageCount

(* page_alloc's callers pass 1 (nop/start.c) and 1024 (nop/tasks/ahci.c). *)
ASSUME StepAssumption ==
  /\ PageSize \in Nat \ {0}
  /\ StepArgs \subseteq 1 .. PageSize

(* i386_start_c lets no block reach below 1 MiB, so page 0, whose address *)
(* is the NULL pointer, is in none; device registers are not RAM.         *)
ASSUME RangeAssumption ==
  /\ BootBlocks \subseteq (1 .. PageCount) \X (1 .. PageCount)
  /\ MmioBlocks \subseteq (0 .. PageCount) \X (0 .. PageCount)
  /\ \A r \in MmioBlocks : PagesIn(r[1], r[2]) \cap BootPages = {}

ASSUME LeftoverAssumption ==
  Leftovers \subseteq [Pages -> {PAGE_FREE, PAGE_USED}]

VARIABLES
  page_bitmap,  \* one bit per page
  pc,
  start, end, value,          \* page_mark's arguments, moved by its loops
  n, step, i, free_start,     \* page_alloc's arguments and locals
  unmarked,     \* the boot blocks start() has still to free
  held,         \* the blocks <<start, n>> that callers own
  reply         \* what page_alloc returned last, as a page number

markVars  == <<start, end, value>>
allocVars == <<n, step, i, free_start>>
callerVars == <<unmarked, held, reply>>
vars == <<page_bitmap, pc, markVars, allocVars, callerVars>>

BlockPages(b) == PagesIn(b[1], b[1] + b[2])
Marking == pc \in {"mark", "take"}

(* page_init has stored the bitmap's address, whatever it contains, and *)
(* calls page_mark on all of it.                                        *)
Init ==
  /\ page_bitmap \in Leftovers
  /\ pc = "mark"
  /\ start = 0 /\ end = PageCount /\ value = PAGE_USED
  /\ n = 0 /\ step = 0 /\ i = 0 /\ free_start = 0
  /\ unmarked = BootBlocks
  /\ held = {}
  /\ reply = NULL

-----------------------------------------------------------------------------
(* page_mark: single pages up to a byte boundary, single pages down to a *)
(* byte boundary, whole bytes between.                                   *)

CallMark(s, e, v, at) ==
  /\ pc' = at
  /\ start' = s /\ end' = e /\ value' = v

MarkHead ==
  /\ Marking
  /\ start % 8 # 0 /\ start < end
  /\ page_bitmap' = [page_bitmap EXCEPT ![start] = value]
  /\ start' = start + 1
  /\ UNCHANGED <<pc, end, value, allocVars, callerVars>>

(* Variant: the byte is written before end is decremented. *)
MarkTailLate ==
  /\ Marking
  /\ start % 8 = 0 /\ end % 8 # 0 /\ start < end
  /\ page_bitmap' = [page_bitmap EXCEPT ![end] = value]
  /\ end' = end - 1
  /\ UNCHANGED <<pc, start, value, allocVars, callerVars>>

MarkTail ==
  /\ Marking
  /\ start % 8 = 0 /\ end % 8 # 0 /\ start < end
  /\ page_bitmap' = [page_bitmap EXCEPT ![end - 1] = value]
  /\ end' = end - 1
  /\ UNCHANGED <<pc, start, value, allocVars, callerVars>>

MarkByte ==
  /\ Marking
  /\ start % 8 = 0 /\ end % 8 = 0 /\ start < end
  /\ page_bitmap' = [p \in Pages |->
       IF p \div 8 = start \div 8 THEN value ELSE page_bitmap[p]]
  /\ start' = start + 8
  /\ UNCHANGED <<pc, end, value, allocVars, callerVars>>

Return ==
  /\ pc' = "idle"
  /\ start' = 0 /\ end' = 0 /\ value' = PAGE_USED
  /\ n' = 0 /\ step' = 0 /\ i' = 0 /\ free_start' = 0

(* page_mark returns; if page_alloc called it, so does page_alloc. *)
MarkReturn ==
  /\ Marking
  /\ start >= end
  /\ IF pc = "take"
       THEN held' = held \cup {<<free_start, n>>} /\ reply' = free_start
       ELSE UNCHANGED <<held, reply>>
  /\ Return
  /\ UNCHANGED <<page_bitmap, unmarked>>

-----------------------------------------------------------------------------
(* page_alloc: from each i, count free pages until n are found or a used *)
(* page ends the run; free_pages of the code is i - free_start.          *)

(* Variant: the step in bytes is rounded down to pages. *)
CallAllocDown(m, s) ==
  /\ pc = "idle"
  /\ unmarked = {}
  /\ n' = m
  /\ step' = s \div PageSize
  /\ i' = 0
  /\ pc' = "outer"
  /\ UNCHANGED <<page_bitmap, markVars, free_start, callerVars>>

CallAlloc(m, s) ==
  /\ pc = "idle"
  /\ unmarked = {}
  /\ n' = m
  /\ step' = (s + (PageSize - 1)) \div PageSize
  /\ i' = 0
  /\ pc' = "outer"
  /\ UNCHANGED <<page_bitmap, markVars, free_start, callerVars>>

AllocStart ==
  /\ pc = "outer"
  /\ i <= PageCount - n
  /\ free_start' = i
  /\ pc' = "inner"
  /\ UNCHANGED <<page_bitmap, markVars, n, step, i, callerVars>>

AllocCount ==
  /\ pc = "inner"
  /\ i - free_start < n
  /\ page_bitmap[i] = PAGE_FREE
  /\ i' = i + 1
  /\ UNCHANGED <<page_bitmap, pc, markVars, n, step, free_start, callerVars>>

(* Variant: a used page makes the scan skip a whole run. *)
AllocSkipRun ==
  /\ pc = "inner"
  /\ i - free_start < n
  /\ page_bitmap[i] = PAGE_USED
  /\ i' = i + n
  /\ pc' = "outer"
  /\ UNCHANGED <<page_bitmap, markVars, n, step, free_start, callerVars>>

AllocSkip ==
  /\ pc = "inner"
  /\ i - free_start < n
  /\ page_bitmap[i] = PAGE_USED
  /\ i' = i + step
  /\ pc' = "outer"
  /\ UNCHANGED <<page_bitmap, markVars, n, step, free_start, callerVars>>

(* Variants: one page too few, and one too many, is marked. *)
AllocFoundShort ==
  /\ pc = "inner"
  /\ i - free_start >= n
  /\ CallMark(free_start, free_start + n - 1, PAGE_USED, "take")
  /\ UNCHANGED <<page_bitmap, allocVars, callerVars>>

AllocFoundLong ==
  /\ pc = "inner"
  /\ i - free_start >= n
  /\ CallMark(free_start, free_start + n + 1, PAGE_USED, "take")
  /\ UNCHANGED <<page_bitmap, allocVars, callerVars>>

AllocFound ==
  /\ pc = "inner"
  /\ i - free_start >= n
  /\ CallMark(free_start, free_start + n, PAGE_USED, "take")
  /\ UNCHANGED <<page_bitmap, allocVars, callerVars>>

AllocFail ==
  /\ pc = "outer"
  /\ i > PageCount - n
  /\ reply' = NULL
  /\ Return
  /\ UNCHANGED <<page_bitmap, unmarked, held>>

-----------------------------------------------------------------------------
(* The callers. *)

(* start(): for each block, page_mark(start, end, PAGE_FREE). *)
BootMark(r) ==
  /\ pc = "idle"
  /\ r \in unmarked
  /\ unmarked' = unmarked \ {r}
  /\ CallMark(r[1], r[2], PAGE_FREE, "mark")
  /\ UNCHANGED <<page_bitmap, allocVars, held, reply>>

(* ahci_init: page_mark of the HBA table's pages, PAGE_USED. *)
ReserveMmio(r) ==
  /\ pc = "idle"
  /\ unmarked = {}
  /\ CallMark(r[1], r[2], PAGE_USED, "mark")
  /\ UNCHANGED <<page_bitmap, allocVars, callerVars>>

(* page_free(ptr, n), by the owner of the block. *)
CallFree(b) ==
  /\ pc = "idle"
  /\ b \in held
  /\ held' = held \ {b}
  /\ CallMark(b[1], b[1] + b[2], PAGE_FREE, "mark")
  /\ UNCHANGED <<page_bitmap, allocVars, unmarked, reply>>

Loop ==
  \/ MarkHead \/ MarkTail \/ MarkByte \/ MarkReturn
  \/ AllocStart \/ AllocCount \/ AllocSkip \/ AllocFound \/ AllocFail

Next ==
  \/ Loop
  \/ \E r \in BootBlocks : BootMark(r)
  \/ \E r \in MmioBlocks : ReserveMmio(r)
  \/ \E m \in Requests, s \in StepArgs : CallAlloc(m, s)
  \/ \E b \in held : CallFree(b)

Spec == Init /\ [][Next]_vars

(* The processor runs the loops on; nothing obliges a caller to call. *)
FairSpec == Spec /\ WF_vars(Loop)

-----------------------------------------------------------------------------
TypeOK ==
  /\ page_bitmap \in [Pages -> {PAGE_FREE, PAGE_USED}]
  /\ pc \in {"idle", "mark", "take", "outer", "inner"}
  /\ start \in Nat /\ end \in 0 .. PageCount
  /\ value \in {PAGE_FREE, PAGE_USED}
  /\ n \in 0 .. PageCount /\ step \in Nat /\ i \in Nat
  /\ free_start \in Nat
  /\ unmarked \subseteq BootBlocks
  /\ held \subseteq Pages \X (1 .. PageCount)
  /\ reply \in Pages

(* No loop of page.c touches a bit outside the bitmap: neither the run that *)
(* page_alloc counts near the last page, nor a byte that page_mark writes.  *)
InBounds ==
  /\ pc = "inner" /\ i - free_start < n => i \in Pages
  /\ Marking /\ start < end => start \in Pages /\ end - 1 \in Pages

(* Two callers never own the same page, and nobody owns a page that start() *)
(* did not hand over: the kernel, the bitmap, registers, page 0.            *)
HeldExclusive ==
  /\ \A b \in held : BlockPages(b) \subseteq BootPages /\ b[1] # NULL
  /\ \A b, c \in held : b # c => BlockPages(b) \cap BlockPages(c) = {}

(* Between calls a bit is clear exactly if its page was handed over at boot *)
(* and nobody owns it: page_mark's head, tail and byte loops neither miss a *)
(* page of their range nor touch one outside it, and no page is lost.       *)
PagesConserved ==
  pc = "idle" /\ unmarked = {} =>
    {p \in Pages : page_bitmap[p] = PAGE_FREE}
      = BootPages \ UNION {BlockPages(b) : b \in held}

(* The pool as the loops implement it: a range that page_mark is working on *)
(* counts as marked from the call on, and page_alloc owns its run for its   *)
(* caller as soon as it has found it.                                       *)
FreePages ==
  {p \in Pages : IF Marking /\ start <= p /\ p < end
                   THEN value = PAGE_FREE
                   ELSE page_bitmap[p] = PAGE_FREE}

Owned == IF pc = "take" THEN held \cup {<<free_start, n>>} ELSE held

(* The loops implement the abstract pool; in particular page_alloc answers  *)
(* NULL only when no run of n free pages exists anywhere, and what it       *)
(* grants was free when it looked.                                          *)
Pool == INSTANCE PageAllocator WITH
  free  <- FreePages,
  held  <- Owned,
  call  <- IF pc \in {"outer", "inner"} THEN n ELSE -1,
  reply <- IF pc = "take" THEN free_start ELSE reply

ImplementsPool == Pool!Spec

(* Every request is answered: no step size makes the scan spin. *)
AllocReturns == pc = "outer" ~> pc = "idle"
=============================================================================
