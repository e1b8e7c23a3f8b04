-------------------------- MODULE PageBitmapProofs --------------------------
(***************************************************************************)
(* Proofs about nop/page.c for every number of pages, every set of boot    *)
(* blocks and every request: the invariants of PageBitmap and that its     *)
(* loops implement PageAllocator.                                          *)
(***************************************************************************)
EXTENDS PageBitmap, TLAPS

(* The pages start() has freed so far. *)
HandedOver == UNION {PagesIn(r[1], r[2]) : r \in BootBlocks \ unmarked}

(* Nothing is allocated before start() has freed every boot block. *)
BootFirst ==
  unmarked # {} => held = {} /\ pc \in {"idle", "mark"}

(* No run of n free pages starts below f. *)
NoRunBelow(f) ==
  \A g \in 0 .. PageCount - n : g < f =>
    \E p \in Pages : g <= p /\ p < g + n /\ page_bitmap[p] = PAGE_USED

(* What page_alloc knows in each of its loops. *)
ScanInv ==
  /\ pc \in {"outer", "inner", "take"} => n \in 1 .. PageCount /\ step = 1
  /\ pc = "outer" => NoRunBelow(i)
  /\ pc = "inner" =>
       /\ free_start \in 0 .. PageCount - n
       /\ i \in free_start .. free_start + n
       /\ NoRunBelow(free_start)
       /\ \A p \in Pages : free_start <= p /\ p < i
            => page_bitmap[p] = PAGE_FREE
  /\ pc = "take" =>
       /\ free_start \in 0 .. PageCount - n
       /\ value = PAGE_USED
       /\ start >= free_start /\ end <= free_start + n

(* Every page handed over is either free or owned, and owned once. *)
Accounts ==
  /\ FreePages = {p \in HandedOver : \A b \in Owned : p \notin BlockPages(b)}
  /\ \A b \in Owned : /\ BlockPages(b) \subseteq HandedOver
                      /\ b[1] # NULL
                      /\ b[1] + b[2] <= PageCount
  /\ \A b, c \in Owned : b # c => BlockPages(b) \cap BlockPages(c) = {}

IInv == TypeOK /\ BootFirst /\ ScanInv /\ Accounts

-----------------------------------------------------------------------------
(* How each loop changes the pool that the clients see.                    *)

(* A turn of one of page_mark's three loops changes no page's status.      *)
LEMMA MarkKeepsPool ==
  ASSUME TypeOK, MarkHead \/ MarkTail \/ MarkByte
  PROVE  FreePages' = FreePages /\ Owned' = Owned
<1> USE DEF TypeOK, Pages, PAGE_FREE, PAGE_USED, allocVars, callerVars
<1>1. Marking' /\ Marking /\ pc' = pc /\ value' = value /\ Owned' = Owned
  BY DEF Marking, MarkHead, MarkTail, MarkByte, Owned
<1>2. CASE MarkHead
  BY <1>1, <1>2 DEF MarkHead, FreePages
<1>3. CASE MarkTail
  BY <1>1, <1>3 DEF MarkTail, FreePages
<1>4. CASE MarkByte
  <2>1. start \in Nat /\ end \in Nat /\ start % 8 = 0 /\ end % 8 = 0
    BY <1>4 DEF MarkByte
  <2>2. ASSUME NEW p \in Pages
        PROVE  p \div 8 = start \div 8 <=> start <= p /\ p < start + 8
    BY <2>1, CountAssumption
  <2>3. start + 8 <= end
    BY <2>1, <1>4 DEF MarkByte
  <2>4. ASSUME NEW p \in Pages
        PROVE  page_bitmap'[p] = IF start <= p /\ p < start + 8
                                   THEN value ELSE page_bitmap[p]
    BY <2>2, <1>4 DEF MarkByte
  <2>5. start' = start + 8 /\ end' = end
    BY <1>4 DEF MarkByte
  <2> QED  BY <1>1, <2>1, <2>3, <2>4, <2>5, CountAssumption DEF FreePages
<1> QED  BY <1>1, <1>2, <1>3, <1>4

-----------------------------------------------------------------------------
(* Every step keeps IInv. The loops of page_mark first: they move inside   *)
(* the range they were called with and leave the accounts alone.           *)
LEMMA MarkKeepsInv ==
  ASSUME IInv, MarkHead \/ MarkTail \/ MarkByte
  PROVE  IInv'
<1> USE DEF IInv
<1>1. FreePages' = FreePages /\ Owned' = Owned
  BY MarkKeepsPool
<1>2. /\ Marking /\ pc' = pc /\ value' = value
      /\ UNCHANGED <<allocVars, callerVars>>
  BY DEF MarkHead, MarkTail, MarkByte
<1>3. start' \in Nat /\ start <= start' /\ end' \in 0 .. PageCount /\ end' <= end
  BY CountAssumption DEF MarkHead, MarkTail, MarkByte, TypeOK
<1>4. page_bitmap' \in [Pages -> {PAGE_FREE, PAGE_USED}]
  BY DEF MarkHead, MarkTail, MarkByte, TypeOK
<1>5. TypeOK'
  BY <1>2, <1>3, <1>4 DEF TypeOK, allocVars, callerVars
<1>6. BootFirst'
  BY <1>2 DEF BootFirst, allocVars, callerVars
<1>7. ScanInv'
  BY <1>2, <1>3, CountAssumption
  DEF ScanInv, Marking, allocVars, callerVars, TypeOK
<1>8. HandedOver' = HandedOver
  BY <1>2 DEF HandedOver, callerVars
<1>9. Accounts'
  BY <1>1, <1>8 DEF Accounts
<1> QED  BY <1>5, <1>6, <1>7, <1>9

(* A finished page_mark leaves the bits as the clients already saw them.   *)
LEMMA ReturnKeepsInv ==
  ASSUME IInv, MarkReturn
  PROVE  IInv' /\ FreePages' = FreePages /\ Owned' = Owned
<1> USE DEF IInv, MarkReturn, Return
<1>1. FreePages' = FreePages
  BY CountAssumption DEF FreePages, Marking, TypeOK, Pages
<1>2. Owned' = Owned
  BY DEF Owned, Marking
<1>3. pc = "take" => free_start \in Pages /\ n \in 1 .. PageCount
  BY CountAssumption DEF ScanInv, Pages
<1>4. TypeOK'
  BY <1>3, CountAssumption DEF TypeOK, Marking
<1>5. BootFirst'
  BY DEF BootFirst, Marking
<1>6. ScanInv'
  BY DEF ScanInv
<1>7. Accounts'
  <2>1. HandedOver' = HandedOver
    BY DEF HandedOver
  <2> QED  BY <1>1, <1>2, <2>1 DEF Accounts
<1> QED  BY <1>1, <1>2, <1>4, <1>5, <1>6, <1>7

(* page_alloc's scan reads only; what it has seen grows by one page.       *)
LEMMA ScanKeepsInv ==
  ASSUME IInv, AllocStart \/ AllocCount \/ AllocSkip
  PROVE  IInv' /\ FreePages' = FreePages /\ Owned' = Owned
<1> USE DEF IInv
<1>1. /\ UNCHANGED <<page_bitmap, markVars, callerVars, n, step>>
      /\ pc \in {"outer", "inner"} /\ pc' \in {"outer", "inner"}
  BY DEF AllocStart, AllocCount, AllocSkip
<1>2. FreePages' = FreePages /\ Owned' = Owned
  BY <1>1 DEF FreePages, Owned, Marking, callerVars
<1>3. n \in 1 .. PageCount /\ step = 1 /\ n' = n /\ step' = step
  BY <1>1 DEF ScanInv
<1>4. TypeOK'
  BY <1>1, <1>3 DEF TypeOK, markVars, callerVars, AllocStart, AllocCount, AllocSkip
<1>5. BootFirst'
  BY <1>1 DEF BootFirst, callerVars
<1>6. ScanInv'
  <2>1. CASE AllocStart
    BY <1>1, <1>3, <2>1, CountAssumption
    DEF AllocStart, ScanInv, TypeOK, NoRunBelow, Pages
  <2>2. CASE AllocCount
    <3>1. i' = i + 1 /\ free_start' = free_start /\ pc = "inner" /\ pc' = "inner"
      BY <2>2 DEF AllocCount
    <3>2. NoRunBelow(free_start)'
      BY <1>1, <1>3, <3>1 DEF ScanInv, NoRunBelow
    <3>3. i' \in free_start .. free_start + n
      BY <1>3, <2>2, <3>1, CountAssumption DEF AllocCount, ScanInv, TypeOK
    <3>4. ASSUME NEW p \in Pages, free_start <= p, p < i'
          PROVE  page_bitmap[p] = PAGE_FREE
      <4>1. p < i \/ p = i
        BY <3>1, <3>4 DEF Pages, TypeOK
      <4> QED  BY <2>2, <3>1, <3>4, <4>1 DEF AllocCount, ScanInv
    <3> QED  BY <1>1, <1>3, <3>1, <3>2, <3>3, <3>4 DEF ScanInv
  <2>3. CASE AllocSkip
    <3>1. /\ pc = "inner" /\ pc' = "outer" /\ i' = i + 1
          /\ i - free_start < n /\ page_bitmap[i] = PAGE_USED
      BY <1>3, <2>3 DEF AllocSkip
    <3>2. i \in Pages /\ free_start <= i /\ free_start \in Nat
      BY <1>3, <3>1, CountAssumption DEF ScanInv, Pages, TypeOK
    <3>3. ASSUME NEW g \in 0 .. PageCount - n, g < i + 1
          PROVE  \E p \in Pages : /\ g <= p /\ p < g + n
                                  /\ page_bitmap[p] = PAGE_USED
      <4>1. CASE g < free_start
        BY <3>1, <4>1 DEF ScanInv, NoRunBelow
      <4>2. CASE free_start <= g
        <5>1. g <= i /\ i < g + n
          BY <1>3, <3>1, <3>2, <3>3, <4>2 DEF Pages
        <5> QED  BY <3>1, <3>2, <5>1
      <4> QED  BY <3>2, <4>1, <4>2
    <3>4. NoRunBelow(i)'
      BY <1>1, <1>3, <3>1, <3>3 DEF NoRunBelow
    <3> QED  BY <1>3, <3>1, <3>4 DEF ScanInv
  <2> QED  BY <2>1, <2>2, <2>3
<1>7. Accounts'
  <2>1. HandedOver' = HandedOver
    BY <1>1 DEF HandedOver, callerVars
  <2> QED  BY <1>2, <2>1 DEF Accounts
<1> QED  BY <1>2, <1>4, <1>5, <1>6, <1>7

-----------------------------------------------------------------------------
(* The calls. Each lemma says which request of the pool the call is.       *)

(* AllocFound takes a run of free pages out of the pool for its caller.    *)
LEMMA FoundGrants ==
  ASSUME IInv, AllocFound
  PROVE  /\ free_start \in Pool!Runs(FreePages, n)
         /\ FreePages' = FreePages \ PagesIn(free_start, free_start + n)
         /\ Owned' = Owned \cup {<<free_start, n>>}
         /\ IInv'
<1> USE DEF IInv, AllocFound, CallMark
<1>1. /\ n \in 1 .. PageCount /\ step = 1 /\ free_start \in 0 .. PageCount - n
      /\ i = free_start + n
      /\ \A p \in PagesIn(free_start, free_start + n) : page_bitmap[p] = PAGE_FREE
  BY CountAssumption DEF ScanInv, PagesIn, TypeOK
<1>2. PagesIn(free_start, free_start + n) \subseteq FreePages
  BY <1>1 DEF FreePages, Marking, PagesIn
<1>3. free_start \in Pool!Runs(FreePages, n)
  BY <1>1, <1>2 DEF Pool!Runs, Pool!PagesIn, Pool!Pages, PagesIn, Pages
<1>4. FreePages' = FreePages \ PagesIn(free_start, free_start + n)
  BY DEF FreePages, Marking, PagesIn, PAGE_FREE, PAGE_USED
<1>5. Owned' = Owned \cup {<<free_start, n>>} /\ Owned = held
  BY DEF Owned, allocVars, callerVars
<1>6. TypeOK'
  BY <1>1, CountAssumption DEF TypeOK, allocVars, callerVars, PAGE_USED
<1>7. BootFirst'
  BY DEF BootFirst, callerVars
<1>8. ScanInv'
  BY <1>1, CountAssumption DEF ScanInv, allocVars
<1>9. Accounts'
  <2> DEFINE new == <<free_start, n>>
  <2>1. BlockPages(new) = PagesIn(free_start, free_start + n)
    BY DEF BlockPages
  <2>2. free_start \in FreePages /\ free_start \in HandedOver
    BY <1>1, <1>2, CountAssumption DEF PagesIn, Pages, Accounts
  <2>3. free_start # NULL
    BY <2>2, RangeAssumption DEF HandedOver, PagesIn, NULL
  <2>4. BlockPages(new) \subseteq HandedOver
    BY <1>2, <2>1 DEF Accounts
  <2>5. \A b \in Owned : BlockPages(b) \cap BlockPages(new) = {}
    BY <1>2, <2>1 DEF Accounts
  <2>6. HandedOver' = HandedOver
    BY DEF HandedOver, callerVars
  <2>7. FreePages'
          = {p \in HandedOver' : \A b \in Owned' : p \notin BlockPages(b)}
    BY <1>4, <1>5, <2>1, <2>6 DEF Accounts
  <2>8. \A b \in Owned' : /\ BlockPages(b) \subseteq HandedOver'
                          /\ b[1] # NULL
                          /\ b[1] + b[2] <= PageCount
    BY <1>1, <1>5, <2>3, <2>4, <2>6, CountAssumption DEF Accounts
  <2>9. \A b, c \in Owned' : b # c => BlockPages(b) \cap BlockPages(c) = {}
    BY <1>5, <2>5 DEF Accounts
  <2> QED  BY <2>7, <2>8, <2>9 DEF Accounts
<1> QED  BY <1>3, <1>4, <1>5, <1>6, <1>7, <1>8, <1>9

(* AllocFail gives up only when no run of n free pages exists.             *)
LEMMA FailRefuses ==
  ASSUME IInv, AllocFail
  PROVE  /\ Pool!Runs(FreePages, n) = {}
         /\ FreePages' = FreePages /\ Owned' = Owned
         /\ IInv'
<1> USE DEF IInv, AllocFail, Return
<1>1. Pool!Runs(FreePages, n) = {}
  <2>1. SUFFICES ASSUME NEW f \in 0 .. PageCount - n,
                        Pool!PagesIn(f, f + n) \subseteq FreePages
                 PROVE  FALSE
    BY DEF Pool!Runs
  <2>2. f < i /\ NoRunBelow(i)
    BY CountAssumption DEF TypeOK, ScanInv
  <2>3. PICK p \in Pages : f <= p /\ p < f + n /\ page_bitmap[p] = PAGE_USED
    BY <2>2 DEF NoRunBelow
  <2>4. p \in FreePages
    BY <2>1, <2>3 DEF Pool!PagesIn, Pool!Pages, Pages
  <2> QED  BY <2>3, <2>4 DEF FreePages, Marking, PAGE_FREE, PAGE_USED
<1>2. FreePages' = FreePages /\ Owned' = Owned
  BY DEF FreePages, Owned, Marking
<1>3. TypeOK'
  BY CountAssumption DEF TypeOK, Pages, NULL, PAGE_USED
<1>4. BootFirst'
  BY DEF BootFirst
<1>5. ScanInv'
  BY DEF ScanInv
<1>6. Accounts'
  <2>1. HandedOver' = HandedOver
    BY DEF HandedOver
  <2> QED  BY <1>2, <2>1 DEF Accounts
<1> QED  BY <1>1, <1>2, <1>3, <1>4, <1>5, <1>6

LEMMA AllocRequests ==
  ASSUME IInv, NEW m \in Requests, NEW s \in StepArgs, CallAlloc(m, s)
  PROVE  FreePages' = FreePages /\ Owned' = Owned /\ IInv'
<1> USE DEF IInv, CallAlloc
<1>1. FreePages' = FreePages /\ Owned' = Owned
  BY DEF FreePages, Owned, Marking, markVars, callerVars
<1>2. (s + (PageSize - 1)) \div PageSize = 1
  <2>1. s \in 1 .. PageSize /\ PageSize \in Nat \ {0}
    BY StepAssumption
  <2>2. s + (PageSize - 1) \in PageSize .. 2 * PageSize - 1
    BY <2>1
  <2> QED  BY ONLY <2>1, <2>2
<1>3. m \in 1 .. PageCount
  BY CountAssumption
<1>4. TypeOK'
  BY <1>2, <1>3, CountAssumption DEF TypeOK, markVars, callerVars
<1>5. BootFirst'
  BY DEF BootFirst, callerVars
<1>6. ScanInv'
  BY <1>2, <1>3, CountAssumption DEF ScanInv, NoRunBelow
<1>7. Accounts'
  <2>1. HandedOver' = HandedOver
    BY DEF HandedOver, callerVars
  <2> QED  BY <1>1, <2>1 DEF Accounts
<1> QED  BY <1>1, <1>4, <1>5, <1>6, <1>7

LEMMA BootAdds ==
  ASSUME IInv, NEW r \in BootBlocks, BootMark(r)
  PROVE  /\ FreePages' = FreePages \cup PagesIn(r[1], r[2])
         /\ Owned = {} /\ Owned' = {}
         /\ IInv'
<1> USE DEF IInv, BootMark, CallMark
<1>1. r[1] \in 1 .. PageCount /\ r[2] \in 1 .. PageCount
  BY RangeAssumption
<1>2. held = {} /\ held' = {} /\ Owned = {} /\ Owned' = {}
  BY DEF BootFirst, Owned
<1>3. FreePages' = FreePages \cup PagesIn(r[1], r[2])
  BY DEF FreePages, Marking, PagesIn, PAGE_FREE
<1>4. TypeOK'
  BY <1>1, CountAssumption DEF TypeOK, allocVars, PAGE_FREE
<1>5. BootFirst'
  BY <1>2 DEF BootFirst
<1>6. ScanInv'
  BY DEF ScanInv
<1>7. Accounts'
  <2>1. HandedOver' = HandedOver \cup PagesIn(r[1], r[2])
    BY DEF HandedOver, TypeOK
  <2> QED  BY <1>2, <1>3, <2>1 DEF Accounts
<1> QED  BY <1>2, <1>3, <1>4, <1>5, <1>6, <1>7

(* Registers lie outside the boot blocks, so no accounted page changes.    *)
LEMMA MmioReserves ==
  ASSUME IInv, NEW r \in MmioBlocks, ReserveMmio(r)
  PROVE  /\ FreePages' = FreePages \ PagesIn(r[1], r[2])
         /\ Owned' = Owned
         /\ IInv'
<1> USE DEF IInv, ReserveMmio, CallMark
<1>1. r[1] \in 0 .. PageCount /\ r[2] \in 0 .. PageCount
  BY RangeAssumption
<1>2. FreePages' = FreePages \ PagesIn(r[1], r[2])
  BY DEF FreePages, Marking, PagesIn, PAGE_FREE, PAGE_USED
<1>3. Owned' = Owned /\ HandedOver' = HandedOver
  BY DEF Owned, HandedOver, callerVars
<1>4. TypeOK'
  BY <1>1, CountAssumption DEF TypeOK, allocVars, callerVars, PAGE_USED
<1>5. BootFirst'
  BY DEF BootFirst, callerVars
<1>6. ScanInv'
  BY DEF ScanInv
<1>7. Accounts'
  <2>1. HandedOver \subseteq BootPages
    BY DEF HandedOver, BootPages
  <2>2. PagesIn(r[1], r[2]) \cap FreePages = {}
    BY <2>1, RangeAssumption DEF Accounts
  <2> QED  BY <1>2, <1>3, <2>2 DEF Accounts
<1> QED  BY <1>2, <1>3, <1>4, <1>5, <1>6, <1>7

(* A block given back returns to the pool, and only its pages do.          *)
LEMMA FreeGivesBack ==
  ASSUME IInv, NEW b \in held, CallFree(b)
  PROVE  /\ b \in Owned
         /\ FreePages' = FreePages \cup BlockPages(b)
         /\ Owned' = Owned \ {b}
         /\ IInv'
<1> USE DEF IInv, CallFree, CallMark
<1>1. Owned = held /\ Owned' = Owned \ {b} /\ HandedOver' = HandedOver
  BY DEF Owned, HandedOver
<1>2. /\ b[1] \in Pages /\ b[2] \in 1 .. PageCount
      /\ b[1] + b[2] \in 0 .. PageCount
  BY <1>1, CountAssumption DEF TypeOK, Accounts, Pages
<1>3. FreePages' = FreePages \cup BlockPages(b)
  BY DEF FreePages, Marking, PagesIn, BlockPages, PAGE_FREE
<1>4. TypeOK'
  BY <1>2, CountAssumption DEF TypeOK, allocVars, PAGE_FREE, Pages
<1>5. BootFirst'
  BY DEF BootFirst
<1>6. ScanInv'
  BY DEF ScanInv
<1>7. Accounts'
  <2>1. \A c \in Owned' : /\ c # b /\ c \in Owned
                          /\ BlockPages(c) \cap BlockPages(b) = {}
    BY <1>1 DEF Accounts
  <2>2. BlockPages(b) \subseteq HandedOver
    BY <1>1 DEF Accounts
  <2>3. FreePages'
          = {p \in HandedOver' : \A c \in Owned' : p \notin BlockPages(c)}
    BY <1>1, <1>3, <2>1, <2>2 DEF Accounts
  <2>4. \A c \in Owned' : /\ BlockPages(c) \subseteq HandedOver'
                          /\ c[1] # NULL
                          /\ c[1] + c[2] <= PageCount
    BY <1>1, <2>1 DEF Accounts
  <2>5. \A c, d \in Owned' : c # d => BlockPages(c) \cap BlockPages(d) = {}
    BY <2>1 DEF Accounts
  <2> QED  BY <2>3, <2>4, <2>5 DEF Accounts
<1> QED  BY <1>1, <1>3, <1>4, <1>5, <1>6, <1>7

-----------------------------------------------------------------------------
(* The invariant holds of every behaviour of the allocator.                *)

LEMMA InitInv == Init => IInv
<1> SUFFICES ASSUME Init PROVE IInv
  PROOF OBVIOUS
<1> USE DEF Init
<1>1. TypeOK
  BY CountAssumption, LeftoverAssumption DEF TypeOK, Pages, NULL, PAGE_USED
<1>2. FreePages = {} /\ Owned = {} /\ HandedOver = {}
  BY CountAssumption
  DEF FreePages, Owned, HandedOver, Marking, Pages, PAGE_FREE, PAGE_USED
<1> QED  BY <1>1, <1>2 DEF IInv, BootFirst, ScanInv, Accounts

LEMMA StutterInv == IInv /\ UNCHANGED vars => IInv'
BY DEF IInv, TypeOK, BootFirst, ScanInv, NoRunBelow, Accounts, FreePages,
       Owned, HandedOver, Marking, vars, markVars, allocVars, callerVars

LEMMA NextInv == IInv /\ [Next]_vars => IInv'
BY MarkKeepsInv, ReturnKeepsInv, ScanKeepsInv, FoundGrants, FailRefuses,
   AllocRequests, BootAdds, MmioReserves, FreeGivesBack, StutterInv
DEF Next, Loop

THEOREM Invariance == Spec => []IInv
BY InitInv, NextInv, PTL DEF Spec

(* Every state of the allocator is well typed, for every machine size,    *)
(* memory map and sequence of requests.                                    *)
THEOREM TypeCorrect == Spec => []TypeOK
<1>1. IInv => TypeOK
  BY DEF IInv
<1> QED  BY <1>1, Invariance, PTL

(* page_alloc's scan and page_mark's loops stay inside the bitmap.         *)
THEOREM Bounded == Spec => []InBounds
<1>1. IInv => InBounds
  BY CountAssumption DEF IInv, TypeOK, ScanInv, InBounds, Pages
<1> QED  BY <1>1, Invariance, PTL

(* No page has two owners, and nobody owns a page that start() did not     *)
(* hand over.                                                              *)
THEOREM Exclusive == Spec => []HeldExclusive
<1>1. IInv => HeldExclusive
  <2>1. held \subseteq Owned
    BY DEF Owned
  <2>2. HandedOver \subseteq BootPages
    BY DEF HandedOver, BootPages
  <2> QED  BY <2>1, <2>2 DEF IInv, Accounts, HeldExclusive
<1> QED  BY <1>1, Invariance, PTL

(* Between calls the clear bits are the pages handed over and not owned.   *)
THEOREM Conserved == Spec => []PagesConserved
<1>1. IInv => PagesConserved
  <2> SUFFICES ASSUME IInv, pc = "idle", unmarked = {}
               PROVE  {p \in Pages : page_bitmap[p] = PAGE_FREE}
                        = BootPages \ UNION {BlockPages(b) : b \in held}
    BY DEF PagesConserved
  <2>1. Owned = held /\ HandedOver = BootPages
    BY DEF Owned, HandedOver, BootPages
  <2>2. FreePages = {p \in Pages : page_bitmap[p] = PAGE_FREE}
    BY DEF FreePages, Marking
  <2>3. FreePages = BootPages \ UNION {BlockPages(b) : b \in held}
    BY <2>1 DEF IInv, Accounts
  <2> QED  BY <2>2, <2>3
<1> QED  BY <1>1, Invariance, PTL

-----------------------------------------------------------------------------
(* The loops implement the abstract pool: the calls and the two points     *)
(* where page_alloc decides are steps of it, every other turn stutters.    *)
THEOREM Refinement == Spec => ImplementsPool
<1>1. Init => Pool!Init
  <2> SUFFICES ASSUME Init PROVE Pool!Init
    PROOF OBVIOUS
  <2>1. FreePages = {} /\ Owned = {}
    BY CountAssumption
    DEF Init, FreePages, Owned, Marking, Pages, PAGE_FREE, PAGE_USED
  <2> QED  BY <2>1 DEF Init, Pool!Init, Pool!Idle, Pool!NULL, NULL
<1>2. IInv /\ [Next]_vars => [Pool!Next]_Pool!vars
  <2> SUFFICES ASSUME IInv, [Next]_vars PROVE [Pool!Next]_Pool!vars
    PROOF OBVIOUS
  <2>1. CASE MarkHead \/ MarkTail \/ MarkByte
    <3>1. FreePages' = FreePages /\ Owned' = Owned
      BY <2>1, MarkKeepsPool DEF IInv
    <3> QED  BY <2>1, <3>1
             DEF MarkHead, MarkTail, MarkByte, Pool!vars, allocVars, callerVars
  <2>2. CASE MarkReturn
    BY <2>2, ReturnKeepsInv DEF MarkReturn, Return, Marking, Pool!vars
  <2>3. CASE AllocStart \/ AllocCount \/ AllocSkip
    <3>1. FreePages' = FreePages /\ Owned' = Owned
      BY <2>3, ScanKeepsInv
    <3> QED  BY <2>3, <3>1
             DEF AllocStart, AllocCount, AllocSkip, Pool!vars, callerVars
  <2>4. CASE AllocFound
    <3>1. Pool!Grant
      <4>1. n # -1
        BY <2>4 DEF AllocFound, IInv, ScanInv
      <4>2. PagesIn(free_start, free_start + n)
              = Pool!PagesIn(free_start, free_start + n)
        BY DEF PagesIn, Pool!PagesIn, Pages, Pool!Pages
      <4> QED  BY <2>4, <4>1, <4>2, FoundGrants
               DEF AllocFound, CallMark, allocVars, Pool!Grant, Pool!Idle
    <3> QED  BY <3>1 DEF Pool!Next
  <2>5. CASE AllocFail
    <3>1. n # -1
      BY <2>5 DEF AllocFail, IInv, ScanInv
    <3>2. Pool!Refuse
      BY <2>5, <3>1, FailRefuses
      DEF AllocFail, Return, Pool!Refuse, Pool!Idle, Pool!NULL, NULL
    <3> QED  BY <3>2 DEF Pool!Next
  <2>6. ASSUME NEW r \in BootBlocks, BootMark(r) PROVE Pool!Next
    <3>1. PagesIn(r[1], r[2]) = Pool!PagesIn(r[1], r[2])
      BY DEF PagesIn, Pool!PagesIn, Pages, Pool!Pages
    <3>2. Pool!AddBlock(r)
      BY <2>6, <3>1, BootAdds
      DEF BootMark, CallMark, Pool!AddBlock, Pool!Idle
    <3> QED  BY <3>2 DEF Pool!Next
  <2>7. ASSUME NEW r \in MmioBlocks, ReserveMmio(r) PROVE Pool!Next
    <3>1. PagesIn(r[1], r[2]) = Pool!PagesIn(r[1], r[2])
      BY DEF PagesIn, Pool!PagesIn, Pages, Pool!Pages
    <3>2. Pool!Reserve(r)
      BY <2>7, <3>1, MmioReserves
      DEF ReserveMmio, CallMark, callerVars, Pool!Reserve, Pool!Idle
    <3> QED  BY <3>2 DEF Pool!Next
  <2>8. ASSUME NEW m \in Requests, NEW s \in StepArgs, CallAlloc(m, s)
        PROVE  Pool!Next
    <3>1. Pool!Request(m)
      BY <2>8, AllocRequests
      DEF CallAlloc, callerVars, Pool!Request, Pool!Idle
    <3> QED  BY <3>1 DEF Pool!Next
  <2>9. ASSUME NEW b \in held, CallFree(b) PROVE Pool!Next
    <3>1. BlockPages(b) = Pool!BlockPages(b)
      BY DEF BlockPages, Pool!BlockPages, PagesIn, Pool!PagesIn, Pages, Pool!Pages
    <3>2. Pool!GiveBack(b)
      BY <2>9, <3>1, FreeGivesBack
      DEF CallFree, CallMark, Pool!GiveBack, Pool!Idle
    <3> QED  BY <2>9, <3>2, FreeGivesBack DEF Pool!Next
  <2>10. CASE UNCHANGED vars
    BY <2>10 DEF vars, markVars, allocVars, callerVars, Pool!vars,
                 FreePages, Owned, Marking
  <2> QED  BY <2>1, <2>2, <2>3, <2>4, <2>5, <2>6, <2>7, <2>8, <2>9, <2>10
           DEF Next, Loop
<1> QED  BY <1>1, <1>2, Invariance, PTL DEF Spec, ImplementsPool, Pool!Spec
=============================================================================
