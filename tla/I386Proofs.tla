----------------------------- MODULE I386Proofs -----------------------------
(***************************************************************************)
(* Proofs about nop/arch/i386: the boot code's ranges, for every number    *)
(* and size of pages and every memory map, entries above 4 GiB and entries *)
(* that overlap the kernel or each other included; and the bus device over *)
(* the PCI configuration space, for any number and size of functions and   *)
(* any sequence of seeks and calls.                                        *)
(***************************************************************************)
EXTENDS BootMemory, PciConfig, SequenceTheorems, TLAPS


LEMMA Quotient ==
  ASSUME NEW a \in Nat, NEW b \in Nat \ {0}
  PROVE  /\ a % b \in Nat /\ a % b < b
         /\ a \div b \in Nat
         /\ a = b * (a \div b) + (a % b)
OBVIOUS

LEMMA Monotone ==
  ASSUME NEW b \in Nat \ {0}, NEW c \in Int, NEW d \in Int, c <= d
  PROVE  b * c <= b * d
OBVIOUS

LEMMA Smaller ==
  ASSUME NEW b \in Nat \ {0}, NEW c \in Int, NEW d \in Int, b * c < b * d
  PROVE  c < d
<1>1. CASE d <= c
  <2>1. b * d <= b * c
    BY <1>1, Monotone
  <2> QED BY <2>1
<1> QED BY <1>1

(* A number below a modulus is not changed. *)
LEMMA Kept ==
  ASSUME NEW a \in Nat, NEW b \in Nat \ {0}, a < b
  PROVE  a % b = a
<1>1. a = b * (a \div b) + (a % b) /\ a \div b \in Nat /\ a % b \in Nat
  BY Quotient
<1>2. CASE a \div b >= 1
  <2>1. b * 1 <= b * (a \div b)
    BY <1>1, <1>2, Monotone
  <2> QED BY <1>1, <2>1
<1>3. CASE a \div b = 0
  BY <1>1, <1>3
<1> QED BY <1>1, <1>2, <1>3

LEMMA Layout ==
  /\ PageCount \in Nat \ {0} /\ PageSize \in Nat \ {0} /\ Space \in Nat \ {0}
  /\ LowMemory \in Nat /\ LowMemory >= PageSize /\ LoadStart = LowMemory
  /\ BssEnd \in Nat /\ BssEnd > LowMemory /\ BssEnd <= Space - PageSize
  /\ PAGE_BITMAP_SIZE \in Nat
<1>1. PageCount \in Nat \ {0} /\ PageSize \in Nat \ {0}
  BY LayoutAssumption
<1>2. Space \in Nat \ {0}
  BY <1>1 DEF Space
<1>3. PAGE_BITMAP_SIZE \in Nat
  BY <1>1, Quotient DEF PAGE_BITMAP_SIZE
<1> QED BY <1>1, <1>2, <1>3, LayoutAssumption

(* The page numbers of addresses in the address space. *)
LEMMA PageOf ==
  ASSUME NEW a \in Nat, a >= PageSize, a < Space
  PROVE  (a % Space) \div PageSize \in 1 .. PageCount
<1>1. a % Space = a
  BY Layout, Kept
<1> DEFINE p == a \div PageSize
<1>2. p \in Nat /\ a = PageSize * p + (a % PageSize) /\ a % PageSize \in Nat
      /\ a % PageSize < PageSize
  BY Layout, Quotient
<1>3. p >= 1
  <2>1. CASE p = 0
    BY <1>2, <2>1, Layout
  <2> QED BY <1>2, <2>1
<1>4. p < PageCount
  <2>1. PageSize * p <= a
    <3> DEFINE m == PageSize * p
               r == a % PageSize
    <3>1. a = m + r /\ m \in Int /\ r \in Nat
      BY <1>2, Layout
    <3> HIDE DEF m, r
    <3>2. m <= a
      BY <3>1
    <3> QED BY <3>2 DEF m
  <2>2. PageSize * p < PageSize * PageCount
    BY <1>2, <2>1, Layout DEF Space
  <2>3. PageSize \in Nat \ {0} /\ p \in Int /\ PageCount \in Int
    BY <1>2, Layout
  <2> QED BY <2>2, <2>3, Smaller, Zenon
<1> QED BY <1>1, <1>2, <1>3, <1>4, Layout

-----------------------------------------------------------------------------
(* What every block keeps: it lies above the kernel, starts before the last *)
(* page and ends inside the address space.                                  *)
GoodBlock(b) ==
  /\ b = [start |-> b.start, size |-> b.size]
  /\ b.start \in Nat /\ b.size \in Nat
  /\ b.start >= BssEnd /\ b.start <= Space - PageSize
  /\ b.start + b.size < Space

BlocksInv ==
  /\ blocks \in Seq([start : Nat, size : Nat])
  /\ \A k \in 1 .. Len(blocks) : GoodBlock(blocks[k])

FreeInv ==
  /\ free \subseteq Pages
  /\ bitmap # NULL => \A p \in free : p * PageSize >= BssEnd

BInv ==
  /\ mmap \in MemoryMaps
  /\ pc \in {"clip", "place", "mark", "done"}
  /\ j \in Nat \ {0}
  /\ pc \in {"clip", "place"} => bitmap = NULL
  /\ BlocksInv /\ FreeInv

LEMMA Clipped ==
  ASSUME NEW e, e.addr \in Nat, e.end \in Nat, e.addr % Space <= Space - PageSize,
         Start(e) < End(e)
  PROVE  GoodBlock([start |-> Start(e), size |-> End(e) - Start(e)])
<1> DEFINE s == e.addr % Space
           f == e.end % Space
<1>1. s \in Nat /\ s <= Space - PageSize /\ f \in Nat /\ f < Space
  BY Layout, Quotient
<1>2. /\ Start(e) = LET t == IF s < LowMemory THEN LowMemory ELSE s
                    IN  IF t >= LoadStart /\ t < BssEnd THEN BssEnd ELSE t
      /\ End(e) = IF Start(e) >= LoadStart /\ f < BssEnd THEN LoadStart ELSE f
  BY DEF Start, End
<1> HIDE DEF s, f
<1>3. Start(e) \in Nat /\ Start(e) >= BssEnd /\ Start(e) <= Space - PageSize
  BY <1>1, <1>2, Layout
<1>4. End(e) \in Nat /\ End(e) < Space
  BY <1>1, <1>2, Layout
<1> DEFINE size == End(e) - Start(e)
<1>5. size \in Nat /\ Start(e) + size = End(e)
  BY <1>3, <1>4
<1> HIDE DEF size
<1> QED BY <1>3, <1>4, <1>5 DEF GoodBlock, size

LEMMA GoodRange ==
  ASSUME NEW b, GoodBlock(b)
  PROVE  /\ FirstPage(b) \in 1 .. PageCount
         /\ LastPage(b) \in 1 .. PageCount
         /\ \A p \in Pages : FirstPage(b) <= p => p * PageSize >= b.start
<1> DEFINE up == b.start + (PageSize - 1)
           end == b.start + b.size
<1>1. /\ b.start \in Nat /\ b.size \in Nat /\ b.start >= PageSize
      /\ up \in Nat /\ up >= PageSize /\ up < Space
      /\ end \in Nat /\ end >= PageSize /\ end < Space
  BY Layout DEF GoodBlock
<1>2. /\ FirstPage(b) = (up % Space) \div PageSize
      /\ LastPage(b) = (end % Space) \div PageSize
  BY DEF FirstPage, LastPage
<1> HIDE DEF up, end
<1>3. FirstPage(b) \in 1 .. PageCount /\ LastPage(b) \in 1 .. PageCount
  BY <1>1, <1>2, PageOf
<1>4. ASSUME NEW p \in Pages, FirstPage(b) <= p
      PROVE  p * PageSize >= b.start
  <2>1. FirstPage(b) = up \div PageSize
    BY <1>1, <1>2, Layout, Kept
  <2>2. up = PageSize * (up \div PageSize) + (up % PageSize) /\ up % PageSize < PageSize
        /\ up \div PageSize \in Nat /\ up % PageSize \in Nat
    BY <1>1, Layout, Quotient
  <2>3. p \in Nat
    BY <1>4, Layout DEF Pages
  <2>4. PageSize * (up \div PageSize) <= PageSize * p
    BY <1>4, <2>1, <2>2, <2>3, Layout, Monotone
  <2>5. PageSize * p \in Nat /\ PageSize * p = p * PageSize
        /\ PageSize * (up \div PageSize) \in Nat
    BY <2>2, <2>3, Layout
  <2> DEFINE low == PageSize * (up \div PageSize)
             r == up % PageSize
  <2>6. low \in Nat /\ r \in Nat /\ r < PageSize /\ b.start + (PageSize - 1) = low + r
        /\ low <= p * PageSize /\ p * PageSize \in Nat
    BY <2>2, <2>4, <2>5 DEF up
  <2> DEFINE high == p * PageSize
  <2> HIDE DEF low, r, high
  <2>7. low <= high /\ high \in Nat
    BY <2>6 DEF high
  <2>8. high >= b.start
    BY <1>1, <2>6, <2>7, Layout
  <2> QED BY <2>8 DEF high
<1> QED BY <1>3, <1>4

-----------------------------------------------------------------------------
LEMMA InitBInv == Init => BInv
BY Layout, LeftoverAssumption DEF Init, BInv, BlocksInv, FreeInv, NULL

LEMMA StepBInv == BInv /\ [Next]_vars => BInv'
<1> SUFFICES ASSUME BInv, [Next]_vars PROVE BInv'
  OBVIOUS
<1> USE DEF BInv
<1>1. CASE UNCHANGED vars
  BY <1>1 DEF vars, BlocksInv, FreeInv
<1>2. CASE ClipEntry
  <2>1. /\ pc = "clip" /\ j <= Len(mmap) /\ j' = j + 1 /\ UNCHANGED <<mmap, pc, bitmap, free>>
        /\ blocks' = IF mmap[j].available /\ Start(mmap[j]) < End(mmap[j])
                       THEN Append(blocks, [start |-> Start(mmap[j]),
                                            size |-> End(mmap[j]) - Start(mmap[j])])
                       ELSE blocks
    BY <1>2 DEF ClipEntry
  <2>2. BlocksInv'
    <3>1. CASE UNCHANGED blocks
      BY <3>1 DEF BlocksInv
    <3>2. CASE mmap[j].available /\ Start(mmap[j]) < End(mmap[j])
      <4> DEFINE b == [start |-> Start(mmap[j]), size |-> End(mmap[j]) - Start(mmap[j])]
      <4>1. /\ mmap[j].addr \in Nat /\ mmap[j].end \in Nat
            /\ mmap[j].addr % Space <= Space - PageSize
        <5>1. mmap \in Seq([addr : Nat, end : Nat, available : BOOLEAN])
          BY MapAssumption
        <5> DEFINE entries == [addr : Nat, end : Nat, available : BOOLEAN]
        <5>3. j \in 1 .. Len(mmap)
          <6>1. Len(mmap) \in Nat
            BY <5>1
          <6> QED BY <2>1, <6>1
        <5> HIDE DEF entries
        <5>4. mmap \in Seq(entries)
          BY <5>1 DEF entries
        <5>5. j \in DOMAIN mmap /\ mmap[j] \in entries
          BY <5>3, <5>4
        <5>2. j \in DOMAIN mmap /\ mmap[j].addr \in Nat /\ mmap[j].end \in Nat
          BY <5>5 DEF entries
        <5> QED BY <3>2, <5>2, MapAssumption
      <4>2. GoodBlock(b)
        BY <3>2, <4>1, Clipped
      <4>3. blocks' = Append(blocks, b) /\ b \in [start : Nat, size : Nat]
        BY <2>1, <3>2, <4>2 DEF GoodBlock
      <4> HIDE DEF b
      <4> QED BY <4>2, <4>3 DEF BlocksInv
    <3> QED BY <2>1, <3>1, <3>2
  <2> QED BY <2>1, <2>2 DEF FreeInv
<1>3. CASE ClipDone \/ TooSmall
  BY <1>3 DEF ClipDone, TooSmall, BlocksInv, FreeInv
<1>4. CASE NoBitmap
  BY <1>4 DEF NoBitmap, BlocksInv, FreeInv
<1>5. CASE PlaceBitmap
  <2>1. /\ j <= Len(blocks) /\ blocks[j].size >= PAGE_BITMAP_SIZE
        /\ blocks' = [blocks EXCEPT ![j].size = @ - PAGE_BITMAP_SIZE]
        /\ free' = {} /\ pc' = "mark" /\ j' = 1 /\ UNCHANGED mmap
    BY <1>5 DEF PlaceBitmap
  <2> DEFINE rest == blocks[j].size - PAGE_BITMAP_SIZE
             b == [start |-> blocks[j].start, size |-> rest]
  <2>2. j \in 1 .. Len(blocks) /\ GoodBlock(blocks[j]) /\ blocks \in Seq([start : Nat, size : Nat])
    BY <2>1 DEF BlocksInv
  <2>3. rest \in Nat /\ blocks[j].start + rest < Space
    BY <2>1, <2>2, Layout DEF GoodBlock
  <2>4. blocks' = [blocks EXCEPT ![j] = b]
    <3>1. [blocks[j] EXCEPT !.size = rest] = b
      BY <2>2 DEF GoodBlock
    <3> QED BY <2>1, <3>1
  <2> HIDE DEF rest
  <2>5. GoodBlock(b) /\ b \in [start : Nat, size : Nat]
    BY <2>2, <2>3 DEF GoodBlock
  <2> HIDE DEF b
  <2>6. BlocksInv'
    BY <2>2, <2>4, <2>5 DEF BlocksInv
  <2> QED BY <2>1, <2>6 DEF FreeInv
<1>6. CASE MarkBlock
  <2>1. /\ pc = "mark" /\ j <= Len(blocks) /\ j' = j + 1
        /\ UNCHANGED <<mmap, pc, blocks, bitmap>>
        /\ free' = free \cup {p \in Pages : /\ FirstPage(blocks[j]) <= p
                                            /\ p < LastPage(blocks[j])}
    BY <1>6 DEF MarkBlock
  <2>2. GoodBlock(blocks[j])
    BY <2>1 DEF BlocksInv
  <2>3. ASSUME NEW p \in Pages, FirstPage(blocks[j]) <= p
        PROVE  p * PageSize >= BssEnd
    <3> DEFINE at == p * PageSize
    <3>1. at >= blocks[j].start
      BY <2>2, <2>3, GoodRange
    <3>2. at \in Nat /\ blocks[j].start \in Nat /\ blocks[j].start >= BssEnd
      BY <2>2, Layout DEF GoodBlock, Pages
    <3> HIDE DEF at
    <3>3. at >= BssEnd
      BY <3>1, <3>2, Layout
    <3> QED BY <3>3 DEF at
  <2>4. FreeInv'
    BY <2>1, <2>3 DEF FreeInv
  <2> QED BY <2>1, <2>4 DEF BlocksInv
<1>7. CASE MarkDone
  BY <1>7 DEF MarkDone, BlocksInv, FreeInv
<1> QED BY <1>1, <1>2, <1>3, <1>4, <1>5, <1>6, <1>7 DEF Next

LEMMA BInvariance == Spec => []BInv
BY InitBInv, StepBInv, PTL DEF Spec

(* Whatever the map says, no page below the kernel's end becomes free.    *)
THEOREM Kernel == Spec => []KernelKept
<1>1. BInv => KernelKept
  BY DEF BInv, FreeInv, KernelKept
<1> QED BY <1>1, BInvariance, PTL

(* page_mark is asked for ranges that the page allocator is specified for:  *)
(* this discharges what PageBitmap assumes of its boot blocks.              *)
THEOREM Legal == Spec => []RangesLegal
<1>1. BInv => RangesLegal
  <2> SUFFICES ASSUME BInv, NEW k \in DOMAIN blocks
               PROVE  /\ FirstPage(blocks[k]) \in 1 .. PageCount
                      /\ LastPage(blocks[k]) \in 1 .. PageCount
    BY DEF RangesLegal
  <2>1. GoodBlock(blocks[k])
    BY DEF BInv, BlocksInv
  <2> QED BY <2>1, GoodRange
<1> QED BY <1>1, BInvariance, PTL
-----------------------------------------------------------------------------
(* Which pages a block covers, from where it came, and what marking it      *)
(* frees: for maps whose RAM lies in the address space and is listed once.  *)

Low(p) == p * PageSize
High(p) == (p + 1) * PageSize

Inside(p, b) == b.start <= Low(p) /\ High(p) <= b.start + b.size

Within(b, e) == e.available /\ e.addr <= b.start /\ b.start + b.size <= e.end

(* The entries that have been clipped. *)
Read == {m \in 1 .. Len(mmap) : pc = "clip" => m < j}

(* No byte of page p is one of the bitmap's. *)
Clear(p) == bitmap # NULL => High(p) <= bitmap \/ bitmap + PAGE_BITMAP_SIZE <= Low(p)

(* A block is a piece of an entry, *)
SourceInv == \A k \in 1 .. Len(blocks) : \E m \in Read : Within(blocks[k], mmap[m])

(* apart from all others, *)
Apart(b, c) == b.start + b.size <= c.start \/ c.start + c.size <= b.start

ApartInv == \A k, l \in 1 .. Len(blocks) : k # l => Apart(blocks[k], blocks[l])

(* and from the bitmap. *)
Spared(b) == b.start + b.size <= bitmap \/ bitmap + PAGE_BITMAP_SIZE <= b.start

KeptOutInv == bitmap # NULL => \A k \in 1 .. Len(blocks) : Spared(blocks[k])

(* Every page that should become free is in a block, *)
Usable(e, p) ==
  /\ e.available /\ e.addr <= Low(p) /\ High(p) <= e.end
  /\ Low(p) >= BssEnd /\ Clear(p)

AllRamInv ==
  \A m \in Read, p \in Pages :
    Usable(mmap[m], p) => \E k \in 1 .. Len(blocks) : Inside(p, blocks[k])

(* and free is what is in the blocks that have been marked. *)
MarkedInv ==
  bitmap # NULL =>
    /\ pc \in {"mark", "done"}
    /\ \A p \in Pages :
         p \in free <=>
           \E k \in 1 .. Len(blocks) : (pc = "done" \/ k < j) /\ Inside(p, blocks[k])

RInv == bitmap \in Nat /\ SourceInv /\ ApartInv /\ KeptOutInv /\ AllRamInv /\ MarkedInv

PlainMap == AllBelowSpace /\ EntriesApart

LEMMA RoundedUp ==
  ASSUME NEW s \in Nat \ {0}, NEW a \in Nat, NEW p \in Nat
  PROVE  (a + (s - 1)) \div s <= p <=> a <= p * s
<1> DEFINE up == a + (s - 1)
           q == up \div s
           r == up % s
<1>1. up \in Nat /\ q \in Nat /\ r \in Nat /\ r < s /\ up = s * q + r
  BY Quotient
<1>2. s * q \in Nat /\ s * p \in Nat /\ s * p = p * s
  BY <1>1
<1>3. ASSUME q <= p
      PROVE  a <= p * s
  <2>1. s * q <= s * p
    BY <1>1, <1>3, Monotone
  <2> DEFINE c == s * q
             d == s * p
  <2>2. c <= d /\ c \in Nat /\ d \in Nat /\ a + (s - 1) = c + r /\ d = p * s
    BY <1>1, <1>2, <2>1
  <2> HIDE DEF c, d, r
  <2>3. a <= d
    BY <1>1, <2>2
  <2> QED BY <2>2, <2>3
<1>4. ASSUME a <= p * s
      PROVE  q <= p
  <2> DEFINE c == s * q
             d == s * p
             e == s * (p + 1)
  <2>1. e = d + s /\ c \in Nat /\ d \in Nat /\ a + (s - 1) = c + r /\ a <= d
    BY <1>1, <1>2, <1>4
  <2> HIDE DEF c, d, e, r
  <2>2. c < e
    BY <1>1, <2>1
  <2>3. q < p + 1
    BY <1>1, <2>2, Smaller DEF c, e
  <2> HIDE DEF q
  <2> QED BY <1>1, <2>3
<1> QED BY <1>3, <1>4

LEMMA RoundedDown ==
  ASSUME NEW s \in Nat \ {0}, NEW a \in Nat, NEW p \in Nat
  PROVE  p < a \div s <=> (p + 1) * s <= a
<1> DEFINE q == a \div s
           r == a % s
<1>1. q \in Nat /\ r \in Nat /\ r < s /\ a = s * q + r
  BY Quotient
<1> DEFINE c == s * q
           d == s * (p + 1)
<1>2. c \in Nat /\ d \in Nat /\ a = c + r /\ d = (p + 1) * s
  BY <1>1
<1>3. ASSUME p < q
      PROVE  (p + 1) * s <= a
  <2>1. p + 1 <= q
    BY <1>1, <1>3
  <2>2. c >= d
    BY <1>1, <2>1, Monotone
  <2> HIDE DEF c, d, r
  <2>3. d <= a
    BY <1>1, <1>2, <2>2
  <2> QED BY <1>2, <2>3
<1>4. ASSUME (p + 1) * s <= a
      PROVE  p < q
  <2> DEFINE e == s * (q + 1)
  <2>1. e = c + s
    BY <1>1
  <2>2. d <= a
    BY <1>2, <1>4
  <2> HIDE DEF c, d, e, r
  <2>3. d < e
    BY <1>1, <1>2, <2>1, <2>2
  <2>4. p + 1 < q + 1
    BY <1>1, <2>3, Smaller DEF d, e
  <2> HIDE DEF q
  <2> QED BY <1>1, <2>4
<1> QED BY <1>3, <1>4

LEMMA PageBounds ==
  ASSUME NEW p \in Pages
  PROVE  p \in Nat /\ Low(p) \in Nat /\ High(p) \in Nat /\ Low(p) < High(p)
<1>1. p \in Nat /\ PageSize \in Nat \ {0}
  BY Layout DEF Pages
<1>2. High(p) = Low(p) + PageSize /\ Low(p) \in Nat
  BY <1>1 DEF Low, High
<1> QED BY <1>1, <1>2

LEMMA BitmapSize == PAGE_BITMAP_SIZE \in Nat \ {0}
<1>1. PageCount = 8 * (PageCount \div 8) + (PageCount % 8) /\ PageCount \div 8 \in Nat
  BY LayoutAssumption, Quotient
<1>2. CASE PageCount \div 8 = 0
  BY <1>1, <1>2, LayoutAssumption
<1> QED BY <1>1, <1>2 DEF PAGE_BITMAP_SIZE

LEMMA RangesApart ==
  ASSUME NEW a \in Nat, NEW b \in Nat, a < b, NEW c \in Nat, NEW l \in Nat \ {0}
  PROVE  (a .. b - 1) \cap (c .. c + l - 1) = {} <=> b <= c \/ c + l <= a
<1>1. ASSUME ~(b <= c \/ c + l <= a)
      PROVE  (a .. b - 1) \cap (c .. c + l - 1) # {}
  <2>1. CASE a <= c
    <3>1. c \in a .. b - 1 /\ c \in c .. c + l - 1
      BY <1>1, <2>1
    <3> QED BY <3>1
  <2>2. CASE c < a
    <3>1. a \in a .. b - 1 /\ a \in c .. c + l - 1
      BY <1>1, <2>2
    <3> QED BY <3>1
  <2> QED BY <2>1, <2>2
<1>2. ASSUME b <= c \/ c + l <= a
      PROVE  (a .. b - 1) \cap (c .. c + l - 1) = {}
  BY <1>2
<1> QED BY <1>1, <1>2

(* What page_mark is asked to free of a block are the pages inside it. *)
LEMMA FreedInside ==
  ASSUME NEW b, GoodBlock(b), NEW p \in Pages
  PROVE  FirstPage(b) <= p /\ p < LastPage(b) <=> Inside(p, b)
<1>1. p \in Nat /\ PageSize \in Nat \ {0} /\ Space \in Nat \ {0}
  BY PageBounds, Layout
<1> DEFINE up == b.start + (PageSize - 1)
           end == b.start + b.size
<1>2. /\ b.start \in Nat /\ up \in Nat /\ up < Space
      /\ end \in Nat /\ end < Space
  BY <1>1 DEF GoodBlock
<1>3. FirstPage(b) = up \div PageSize /\ LastPage(b) = end \div PageSize
  BY <1>1, <1>2, Kept DEF FirstPage, LastPage
<1>4. FirstPage(b) <= p <=> b.start <= p * PageSize
  BY <1>1, <1>2, <1>3, RoundedUp
<1>5. p < LastPage(b) <=> (p + 1) * PageSize <= end
  BY <1>1, <1>2, <1>3, RoundedDown
<1> QED BY <1>4, <1>5 DEF Inside, Low, High

(* Clipping cuts the kernel off an entry's start and leaves its end. *)
LEMMA ClippedBelow ==
  ASSUME NEW e, e.addr \in Nat, e.end \in Nat, e.addr < e.end, e.end < Space
  PROVE  /\ Start(e) = IF e.addr < BssEnd THEN BssEnd ELSE e.addr
         /\ Start(e) < End(e) <=> BssEnd < e.end
         /\ Start(e) < End(e) => End(e) = e.end
<1>1. e.addr % Space = e.addr /\ e.end % Space = e.end
  BY Layout, Kept
<1>2. Start(e) = IF e.addr < BssEnd THEN BssEnd ELSE e.addr
  BY <1>1, Layout DEF Start
<1>3. End(e) = IF e.end < BssEnd THEN LoadStart ELSE e.end
  BY <1>1, <1>2, Layout DEF End
<1> QED BY <1>2, <1>3, Layout

(* The entries of the map, and of a plain one. *)
LEMMA Entry ==
  ASSUME mmap \in MemoryMaps, NEW m \in 1 .. Len(mmap)
  PROVE  /\ mmap[m].addr \in Nat /\ mmap[m].end \in Nat /\ mmap[m].addr < mmap[m].end
         /\ mmap[m].available => mmap[m].addr % Space <= Space - PageSize
         /\ PlainMap /\ mmap[m].available => mmap[m].end < Space
<1> DEFINE entries == [addr : Nat, end : Nat, available : BOOLEAN]
<1>1. mmap \in Seq(entries)
  BY MapAssumption
<1>2. m \in DOMAIN mmap /\ mmap[m] \in entries
  <2> HIDE DEF entries
  <2> QED BY <1>1
<1>3. mmap[m].addr \in Nat /\ mmap[m].end \in Nat
  BY <1>2
<1>4. mmap[m].available => mmap[m] \in Available
  BY <1>2 DEF Available
<1> QED BY <1>2, <1>3, <1>4, MapAssumption DEF PlainMap, AllBelowSpace
LEMMA InitRInv == Init => RInv
<1> SUFFICES ASSUME Init PROVE RInv
  OBVIOUS
<1>1. blocks = <<>> /\ bitmap = NULL /\ pc = "clip" /\ j = 1
  BY DEF Init
<1>2. Len(blocks) = 0 /\ 1 .. Len(blocks) = {} /\ Read = {}
  BY <1>1 DEF Read
<1> QED BY <1>1, <1>2 DEF NULL, RInv, SourceInv, ApartInv, KeptOutInv, AllRamInv, MarkedInv

(* A block that is appended keeps those that are there. *)
LEMMA Appended ==
  ASSUME NEW S, NEW s \in Seq(S), NEW b \in S, NEW t, t = Append(s, b)
  PROVE  /\ Len(s) \in Nat /\ Len(t) = Len(s) + 1 /\ t[Len(s) + 1] = b
         /\ \A k \in 1 .. Len(s) : t[k] = s[k]
         /\ \A k \in 1 .. Len(t) : k \in 1 .. Len(s) \/ k = Len(s) + 1
<1>1. Len(s) \in Nat /\ Len(t) = Len(s) + 1
  BY AppendProperties, LenProperties
<1>2. t[Len(s) + 1] = b
  BY AppendProperties
<1>3. \A k \in 1 .. Len(s) : t[k] = s[k]
  BY AppendProperties
<1> QED BY <1>1, <1>2, <1>3

(* Clipping an entry of which nothing is left adds no block. *)
LEMMA SkippedRInv ==
  ASSUME BInv, PlainMap, RInv, pc = "clip", j <= Len(mmap), j' = j + 1,
         UNCHANGED <<mmap, pc, blocks, bitmap, free>>,
         ~(mmap[j].available /\ Start(mmap[j]) < End(mmap[j]))
  PROVE  RInv'
<1>1. j \in 1 .. Len(mmap) /\ j \in Nat /\ bitmap = NULL
  <2>1. Len(mmap) \in Nat
    BY MapAssumption, LenProperties DEF BInv
  <2> QED BY <2>1 DEF BInv
<1>2. Read' = Read \cup {j}
  BY <1>1 DEF Read
<1>3. SourceInv' /\ ApartInv' /\ KeptOutInv'
  BY <1>1, <1>2 DEF RInv, SourceInv, ApartInv, Apart, KeptOutInv, Within
<1>4. AllRamInv'
  <2>1. ASSUME NEW p \in Pages PROVE ~Usable(mmap[j], p)
    <3>1. CASE mmap[j].available
      <4>1. ~(BssEnd < mmap[j].end)
        BY <1>1, <3>1, Entry, ClippedBelow DEF BInv
      <4>2. mmap[j].end <= BssEnd /\ mmap[j].end \in Nat
        BY <1>1, <4>1, Entry, Layout DEF BInv
      <4> QED BY <4>2, PageBounds, Layout DEF Usable
    <3> QED BY <3>1 DEF Usable
  <2>2. ASSUME NEW m \in Read', NEW p \in Pages, Usable(mmap[m], p)
        PROVE  \E k \in 1 .. Len(blocks) : Inside(p, blocks[k])
    <3>1. m \in Read
      BY <1>2, <2>1, <2>2
    <3> QED BY <2>2, <3>1 DEF RInv, AllRamInv
  <2>3. \A e, p : Usable(e, p)' <=> Usable(e, p)
    BY DEF Usable, Clear
  <2> QED BY <2>2, <2>3 DEF AllRamInv, Inside
<1>5. MarkedInv' /\ bitmap' \in Nat
  BY <1>1 DEF MarkedInv, RInv
<1> QED BY <1>3, <1>4, <1>5 DEF RInv

(* Parts of stretches that do not overlap do not overlap. *)
LEMMA PartsApart ==
  ASSUME NEW c, NEW b, NEW f, NEW e,
         c.start \in Nat, c.size \in Nat, b.start \in Nat, b.size \in Nat,
         f.addr \in Nat, f.end \in Nat, e.addr \in Nat, e.end \in Nat,
         f.addr <= c.start, c.start + c.size <= f.end,
         e.addr <= b.start, b.start + b.size <= e.end,
         f.end <= e.addr \/ e.end <= f.addr
  PROVE  Apart(c, b) /\ Apart(b, c)
<1>1. CASE f.end <= e.addr
  <2>1. c.start + c.size <= b.start
    BY <1>1
  <2> QED BY <2>1 DEF Apart
<1>2. CASE e.end <= f.addr
  <2>1. b.start + b.size <= c.start
    BY <1>2
  <2> QED BY <2>1 DEF Apart
<1> QED BY <1>1, <1>2

LEMMA BlockRInv ==
  ASSUME BInv, PlainMap, RInv, pc = "clip", j <= Len(mmap), j' = j + 1,
         UNCHANGED <<mmap, pc, bitmap, free>>,
         mmap[j].available, Start(mmap[j]) < End(mmap[j]),
         blocks' = Append(blocks, [start |-> Start(mmap[j]),
                                   size |-> End(mmap[j]) - Start(mmap[j])])
  PROVE  RInv'
<1> DEFINE e == mmap[j]
           b == [start |-> Start(e), size |-> End(e) - Start(e)]
           count == Len(blocks)
<1>1. j \in 1 .. Len(mmap) /\ j \in Nat /\ bitmap = NULL
  <2>1. Len(mmap) \in Nat
    BY MapAssumption, LenProperties DEF BInv
  <2> QED BY <2>1 DEF BInv
<1>2. Read' = Read \cup {j} /\ j \notin Read /\ Read \subseteq 1 .. Len(mmap)
  BY <1>1 DEF Read
<1>3. e.addr \in Nat /\ e.end \in Nat /\ e.addr < e.end /\ e.end < Space
  BY <1>1, Entry DEF BInv
<1>4. /\ b.start = IF e.addr < BssEnd THEN BssEnd ELSE e.addr
      /\ b.start < e.end /\ End(e) = e.end
  BY <1>3, ClippedBelow
<1>5. b.start \in Nat /\ b.size \in Nat /\ b.start + b.size = e.end /\ e.addr <= b.start
      /\ b.start >= BssEnd
  BY <1>3, <1>4, Layout
<1>6. Within(b, e)
  BY <1>3, <1>5 DEF Within
<1>7. ASSUME NEW p \in Pages, Usable(e, p)
      PROVE  Inside(p, b)
  BY <1>3, <1>4, <1>5, <1>7, PageBounds, Layout DEF Usable, Inside
<1>8. ASSUME NEW k \in 1 .. count
      PROVE  Apart(blocks[k], b) /\ Apart(b, blocks[k])
  <2>1. PICK m \in Read : Within(blocks[k], mmap[m])
    BY DEF RInv, SourceInv
  <2>2. m # j /\ m \in 1 .. Len(mmap) /\ mmap[m].available
    BY <1>2, <2>1 DEF Within
  <2>3. mmap[m].end <= e.addr \/ e.end <= mmap[m].addr
    <3>1. DOMAIN mmap = 1 .. Len(mmap)
      BY MapAssumption, LenProperties DEF BInv
    <3> QED BY <1>1, <2>2, <3>1 DEF PlainMap, EntriesApart
  <2>4. mmap[m].addr \in Nat /\ mmap[m].end \in Nat
    BY <2>2, Entry DEF BInv
  <2>5. blocks[k].start \in Nat /\ blocks[k].size \in Nat
    BY DEF BInv, BlocksInv, GoodBlock
  <2>6. b.start \in Nat /\ b.size \in Nat /\ b.start + b.size = e.end /\ e.addr <= b.start
        /\ e.addr \in Nat /\ e.end \in Nat
    BY <1>3, <1>5
  <2> DEFINE c == blocks[k]
             f == mmap[m]
  <2>7. /\ f.addr <= c.start /\ c.start + c.size <= f.end
        /\ f.addr \in Nat /\ f.end \in Nat /\ c.start \in Nat /\ c.size \in Nat
    BY <2>1, <2>4, <2>5 DEF Within
  <2>8. f.end <= e.addr \/ e.end <= f.addr
    BY <2>3
  <2>10. b.start + b.size <= e.end
    BY <2>6
  <2> HIDE DEF b, e, c, f
  <2>9. Apart(c, b) /\ Apart(b, c)
    BY <2>6, <2>7, <2>8, <2>10, PartsApart
  <2> QED BY <2>9 DEF c
<1>9. blocks \in Seq([start : Nat, size : Nat]) /\ b \in [start : Nat, size : Nat]
  BY <1>5 DEF BInv, BlocksInv
<1>10. blocks' = Append(blocks, b)
  OBVIOUS
<1> HIDE DEF b, e
<1>11. /\ count \in Nat /\ Len(blocks') = count + 1 /\ blocks'[count + 1] = b
       /\ \A k \in 1 .. count : blocks'[k] = blocks[k]
       /\ \A k \in 1 .. Len(blocks') : k \in 1 .. count \/ k = count + 1
  BY <1>9, <1>10, Appended
<1>12. count + 1 \in 1 .. Len(blocks') /\ 1 .. count \subseteq 1 .. Len(blocks')
  BY <1>11
<1> HIDE DEF count
<1>13. SourceInv'
  <2>1. ASSUME NEW k \in 1 .. Len(blocks')
        PROVE  \E m \in Read' : Within(blocks'[k], mmap[m])
    <3>1. CASE k = count + 1
      BY <1>2, <1>6, <1>11, <3>1 DEF e
    <3>2. CASE k \in 1 .. count
      BY <1>2, <1>11, <3>2 DEF RInv, SourceInv, count
    <3> QED BY <1>11, <3>1, <3>2
  <2> QED BY <2>1 DEF SourceInv, Within
<1>14. ApartInv'
  <2>1. ASSUME NEW k \in 1 .. Len(blocks'), NEW l \in 1 .. Len(blocks'), k # l
        PROVE  Apart(blocks'[k], blocks'[l])
    <3>1. CASE k \in 1 .. count /\ l \in 1 .. count
      BY <1>11, <2>1, <3>1 DEF RInv, ApartInv, count
    <3> QED BY <1>8, <1>11, <2>1, <3>1
  <2> QED BY <2>1 DEF ApartInv, Apart
<1>15. KeptOutInv' /\ MarkedInv' /\ bitmap' \in Nat
  BY <1>1 DEF KeptOutInv, MarkedInv, RInv
<1>16. AllRamInv'
  <2>1. ASSUME NEW m \in Read', NEW p \in Pages, Usable(mmap[m], p)
        PROVE  \E k \in 1 .. Len(blocks') : Inside(p, blocks'[k])
    <3>1. CASE m = j
      BY <1>7, <1>11, <1>12, <2>1, <3>1 DEF e
    <3>2. CASE m \in Read
      <4>1. PICK k \in 1 .. count : Inside(p, blocks[k])
        BY <2>1, <3>2 DEF RInv, AllRamInv, count
      <4> QED BY <1>11, <1>12, <4>1
    <3> QED BY <1>2, <3>1, <3>2
  <2>2. \A f, p : Usable(f, p)' <=> Usable(f, p)
    BY DEF Usable, Clear
  <2> QED BY <2>1, <2>2 DEF AllRamInv, Inside
<1> QED BY <1>13, <1>14, <1>15, <1>16 DEF RInv

(* The bitmap is cut off the end of a block, and nothing else reaches it. *)
LEMMA PlacedRInv ==
  ASSUME BInv, RInv, PlaceBitmap
  PROVE  RInv'
<1> DEFINE old == blocks[j]
           cut == [start |-> old.start, size |-> old.size - PAGE_BITMAP_SIZE]
<1>1. /\ pc = "place" /\ j \in 1 .. Len(blocks) /\ bitmap = NULL
      /\ old.start \in Nat /\ old.size \in Nat /\ old.start >= BssEnd
      /\ PAGE_BITMAP_SIZE \in Nat /\ old.size >= PAGE_BITMAP_SIZE
      /\ old = [start |-> old.start, size |-> old.size]
  <2>1. j \in 1 .. Len(blocks) /\ bitmap = NULL
    BY LenProperties DEF PlaceBitmap, BInv, BlocksInv
  <2> QED BY <2>1, Layout DEF PlaceBitmap, BInv, BlocksInv, GoodBlock
<1>2. /\ UNCHANGED mmap /\ free' = {} /\ pc' = "mark" /\ j' = 1
      /\ blocks' = [blocks EXCEPT ![j].size = @ - PAGE_BITMAP_SIZE]
      /\ bitmap' = blocks'[j].start + blocks'[j].size
  BY DEF PlaceBitmap
<1>3. blocks' = [blocks EXCEPT ![j] = cut]
  <2>1. [old EXCEPT !.size = old.size - PAGE_BITMAP_SIZE] = cut
    BY <1>1
  <2> QED BY <1>2, <2>1
<1>4. cut.start = old.start /\ cut.size \in Nat /\ cut.size + PAGE_BITMAP_SIZE = old.size
  BY <1>1
<1> HIDE DEF cut
<1>5. /\ Len(blocks') = Len(blocks) /\ blocks'[j] = cut
      /\ \A k \in 1 .. Len(blocks) : k # j => blocks'[k] = blocks[k]
  <2>1. blocks \in Seq([start : Nat, size : Nat]) /\ cut \in [start : Nat, size : Nat]
    BY <1>1, <1>4 DEF BInv, BlocksInv, cut
  <2> QED BY <1>1, <1>3, <2>1, ExceptSeq
<1>6. bitmap' = old.start + cut.size /\ bitmap' + PAGE_BITMAP_SIZE = old.start + old.size
      /\ bitmap' \in Nat
  BY <1>1, <1>2, <1>4, <1>5
<1>7. Read' = 1 .. Len(mmap) /\ Read = 1 .. Len(mmap)
  BY <1>1, <1>2 DEF Read
<1>8. ASSUME NEW k \in 1 .. Len(blocks)
      PROVE  /\ blocks[k].start \in Nat /\ blocks[k].size \in Nat
             /\ blocks'[k].start = blocks[k].start
             /\ blocks'[k].size \in Nat /\ blocks'[k].size <= blocks[k].size
  <2>1. blocks[k].start \in Nat /\ blocks[k].size \in Nat
    BY DEF BInv, BlocksInv, GoodBlock
  <2>2. CASE k = j
    BY <1>1, <1>4, <1>5, <2>1, <2>2
  <2>3. CASE k # j
    BY <1>5, <2>1, <2>3
  <2> QED BY <2>2, <2>3
<1>9. SourceInv'
  <2>1. ASSUME NEW k \in 1 .. Len(blocks')
        PROVE  \E m \in Read' : Within(blocks'[k], mmap[m])
    <3>1. PICK m \in Read : Within(blocks[k], mmap[m])
      BY <1>5 DEF RInv, SourceInv
    <3>2. m \in 1 .. Len(mmap) /\ mmap[m].end \in Nat
      BY <1>7, Entry DEF BInv
    <3>3. Within(blocks'[k], mmap[m])
      BY <1>5, <1>8, <3>1, <3>2 DEF Within
    <3> QED BY <1>7, <3>2, <3>3
  <2> QED BY <1>2, <2>1 DEF SourceInv, Within
<1>10. ApartInv'
  <2>1. ASSUME NEW k \in 1 .. Len(blocks), NEW l \in 1 .. Len(blocks), k # l
        PROVE  Apart(blocks'[k], blocks'[l])
    <3>1. Apart(blocks[k], blocks[l])
      BY <2>1 DEF RInv, ApartInv
    <3> QED BY <1>8, <3>1 DEF Apart
  <2> QED BY <1>5, <2>1 DEF ApartInv, Apart
<1>11. KeptOutInv'
  <2>1. ASSUME NEW k \in 1 .. Len(blocks)
        PROVE  \/ blocks'[k].start + blocks'[k].size <= bitmap'
               \/ bitmap' + PAGE_BITMAP_SIZE <= blocks'[k].start
    <3>1. CASE k = j
      BY <1>1, <1>4, <1>5, <1>6, <3>1
    <3>2. CASE k # j
      <4>1. Apart(blocks[k], old) /\ blocks'[k] = blocks[k]
        BY <1>1, <1>5, <3>2 DEF RInv, ApartInv
      <4> HIDE DEF old
      <4> QED BY <1>1, <1>4, <1>6, <1>8, <4>1 DEF Apart
    <3> QED BY <3>1, <3>2
  <2> QED BY <1>5, <2>1 DEF KeptOutInv, Spared
<1>12. AllRamInv'
  <2>1. ASSUME NEW m \in Read', NEW p \in Pages, Usable(mmap[m], p)'
        PROVE  \E k \in 1 .. Len(blocks') : Inside(p, blocks'[k])
    <3>1. /\ Usable(mmap[m], p)
          /\ High(p) <= bitmap' \/ bitmap' + PAGE_BITMAP_SIZE <= Low(p)
      <4>1. bitmap' # NULL
        BY <1>1, <1>6, Layout DEF NULL
      <4>2. Usable(mmap[m], p) /\ Clear(p)'
        BY <1>1, <1>2, <2>1 DEF Usable, Clear
      <4> QED BY <4>1, <4>2 DEF Clear
    <3>2. PICK k \in 1 .. Len(blocks) : Inside(p, blocks[k])
      BY <1>7, <3>1 DEF RInv, AllRamInv
    <3>3. CASE k # j
      BY <1>5, <3>2, <3>3
    <3>4. CASE k = j
      <4>1. Inside(p, old)
        BY <3>2, <3>4
      <4> HIDE DEF old
      <4>2. Inside(p, cut)
        BY <1>1, <1>4, <1>6, <3>1, <4>1, PageBounds DEF Inside
      <4> QED BY <1>5, <3>2, <3>4, <4>2
    <3> QED BY <3>3, <3>4
  <2> QED BY <1>2, <2>1 DEF AllRamInv, Inside
<1>13. MarkedInv'
  BY <1>2 DEF MarkedInv
<1> QED BY <1>6, <1>9, <1>10, <1>11, <1>12, <1>13 DEF RInv

(* Marking a block frees the pages inside it. *)
LEMMA FreedRInv ==
  ASSUME BInv, RInv, MarkBlock
  PROVE  RInv'
<1>1. /\ pc = "mark" /\ j \in 1 .. Len(blocks) /\ j' = j + 1
      /\ UNCHANGED <<mmap, pc, blocks, bitmap>>
      /\ free' = free \cup {p \in Pages : /\ FirstPage(blocks[j]) <= p
                                          /\ p < LastPage(blocks[j])}
  BY LenProperties DEF MarkBlock, BInv, BlocksInv
<1>2. UNCHANGED Read
  BY <1>1 DEF Read
<1>3. SourceInv' /\ ApartInv' /\ KeptOutInv'
  BY <1>1, <1>2 DEF RInv, SourceInv, ApartInv, Apart, KeptOutInv, Spared, Within
<1>4. AllRamInv' /\ bitmap' \in Nat
  BY <1>1, <1>2 DEF RInv, AllRamInv, Usable, Clear, Inside
<1>5. MarkedInv'
  <2>1. ASSUME NEW p \in Pages
        PROVE  FirstPage(blocks[j]) <= p /\ p < LastPage(blocks[j]) <=> Inside(p, blocks[j])
    BY <1>1, FreedInside DEF BInv, BlocksInv
  <2>2. \A k \in 1 .. Len(blocks) : k < j + 1 <=> k < j \/ k = j
    BY <1>1
  <2>3. ASSUME bitmap # NULL, NEW p \in Pages
        PROVE  p \in free' <=> \E k \in 1 .. Len(blocks) : k < j + 1 /\ Inside(p, blocks[k])
    <3>1. p \in free <=> \E k \in 1 .. Len(blocks) : k < j /\ Inside(p, blocks[k])
      BY <1>1, <2>3 DEF RInv, MarkedInv
    <3>2. p \in free' <=> p \in free \/ Inside(p, blocks[j])
      BY <1>1, <2>1
    <3> QED BY <1>1, <2>2, <3>1, <3>2
  <2> QED BY <1>1, <2>3 DEF MarkedInv, Inside
<1> QED BY <1>3, <1>4, <1>5 DEF RInv

LEMMA StepRInv == BInv /\ PlainMap /\ RInv /\ [Next]_vars => RInv'
<1> SUFFICES ASSUME BInv, PlainMap, RInv, [Next]_vars PROVE RInv'
  OBVIOUS
<1> USE DEF RInv, SourceInv, ApartInv, Apart, KeptOutInv, Spared, AllRamInv, MarkedInv,
            Within, Usable, Clear, Inside, Read
<1>1. CASE UNCHANGED vars
  BY <1>1 DEF vars
<1>2. CASE ClipEntry
  BY <1>2, SkippedRInv, BlockRInv DEF ClipEntry
<1>3. CASE ClipDone
  <2>1. Len(mmap) \in Nat /\ j \in Nat /\ bitmap = NULL
    BY <1>3, MapAssumption, LenProperties DEF BInv, ClipDone
  <2>2. Read' = Read
    BY <1>3, <2>1 DEF ClipDone
  <2> QED BY <1>3, <2>1, <2>2 DEF ClipDone
<1>4. CASE TooSmall \/ NoBitmap
  <2>1. bitmap = NULL /\ pc = "place" /\ pc' # "clip" /\ UNCHANGED <<mmap, blocks, bitmap>>
    BY <1>4 DEF BInv, TooSmall, NoBitmap
  <2>2. Read' = Read
    BY <2>1
  <2> QED BY <2>1, <2>2
<1>5. CASE PlaceBitmap
  BY <1>5, PlacedRInv
<1>6. CASE MarkBlock
  BY <1>6, FreedRInv
<1>7. CASE MarkDone
  <2>1. /\ pc = "mark" /\ pc' = "done" /\ UNCHANGED <<mmap, blocks, bitmap, free>>
        /\ j > Len(blocks) /\ Len(blocks) \in Nat /\ j \in Nat
    BY <1>7, LenProperties DEF MarkDone, BInv, BlocksInv
  <2>2. Read' = Read /\ \A k \in 1 .. Len(blocks) : k < j
    BY <2>1
  <2> QED BY <2>1, <2>2
<1> QED BY <1>1, <1>2, <1>3, <1>4, <1>5, <1>6, <1>7 DEF Next

LEMMA RInvariance == Spec => [](PlainMap => RInv)
<1>1. Init => (PlainMap => RInv)
  BY InitRInv
<1>2. BInv /\ (PlainMap => RInv) /\ [Next]_vars => (PlainMap => RInv)'
  <2> SUFFICES ASSUME BInv, PlainMap => RInv, [Next]_vars, PlainMap' PROVE RInv'
    OBVIOUS
  <2>1. UNCHANGED mmap
    BY DEF Next, ClipEntry, ClipDone, PlaceBitmap, TooSmall, NoBitmap, MarkBlock,
       MarkDone, vars
  <2>2. PlainMap
    BY <2>1 DEF PlainMap, AllBelowSpace, EntriesApart, Available
  <2> QED BY <2>2, StepRInv
<1> QED BY <1>1, <1>2, BInvariance, PTL DEF Spec

(* When the boot code is done, the free pages are those whose bytes are all *)
(* RAM of one entry outside the kernel and the bitmap: none of them is left *)
(* out, and no other is among them.                                         *)
THEOREM RamFreed == Spec => []FreeIsRam
<1>1. BInv /\ (PlainMap => RInv) => FreeIsRam
  <2> SUFFICES ASSUME BInv, RInv, pc = "done", bitmap # NULL,
                      NEW p \in Pages
               PROVE  p \in free <=>
                        /\ IsRam(p)
                        /\ p * PageSize >= BssEnd
                        /\ Bytes(p) \cap (bitmap .. bitmap + PAGE_BITMAP_SIZE - 1) = {}
    BY DEF FreeIsRam, PlainMap, BInv, FreeInv
  <2>1. /\ bitmap \in Nat /\ PAGE_BITMAP_SIZE \in Nat \ {0}
        /\ Low(p) \in Nat /\ High(p) \in Nat /\ Low(p) < High(p)
    BY PageBounds, BitmapSize DEF RInv
  <2>2. Bytes(p) \cap (bitmap .. bitmap + PAGE_BITMAP_SIZE - 1) = {} <=> Clear(p)
    <3>1. Bytes(p) = Low(p) .. High(p) - 1
      BY DEF Bytes, Low, High
    <3> QED BY <2>1, <3>1, RangesApart DEF Clear
  <2>3. p \in free <=> \E k \in 1 .. Len(blocks) : Inside(p, blocks[k])
    BY DEF RInv, MarkedInv
  <2>4. Read = 1 .. Len(mmap) /\ DOMAIN mmap = 1 .. Len(mmap)
    BY MapAssumption, LenProperties DEF Read, BInv
  <2>5. ASSUME p \in free
        PROVE  IsRam(p) /\ Low(p) >= BssEnd /\ Clear(p)
    <3>1. PICK k \in 1 .. Len(blocks) : Inside(p, blocks[k])
      BY <2>3, <2>5
    <3>2. PICK m \in Read : Within(blocks[k], mmap[m])
      BY DEF RInv, SourceInv
    <3> DEFINE c == blocks[k]
               e == mmap[m]
    <3>3. /\ c.start \in Nat /\ c.size \in Nat /\ c.start >= BssEnd /\ Spared(c)
          /\ e.addr \in Nat /\ e.end \in Nat /\ e \in Available
      BY <2>4, <3>2, Entry DEF BInv, BlocksInv, GoodBlock, RInv, KeptOutInv, Within, Available
    <3>4. Inside(p, c) /\ Within(c, e)
      BY <3>1, <3>2
    <3> HIDE DEF c, e
    <3>5. e.addr <= Low(p) /\ High(p) <= e.end
      BY <2>1, <3>3, <3>4 DEF Inside, Within
    <3>6. IsRam(p)
      BY <3>3, <3>5 DEF IsRam, Low, High
    <3>7. Low(p) >= BssEnd /\ Clear(p)
      BY <2>1, <3>3, <3>4, Layout DEF Inside, Spared, Clear
    <3> QED BY <3>6, <3>7
  <2>6. ASSUME IsRam(p), Low(p) >= BssEnd, Clear(p)
        PROVE  p \in free
    <3>1. PICK m \in Read : /\ mmap[m].available /\ mmap[m].addr <= Low(p)
                            /\ High(p) <= mmap[m].end
      BY <2>4, <2>6 DEF IsRam, Available, Low, High
    <3>2. Usable(mmap[m], p)
      BY <2>6, <3>1 DEF Usable
    <3> QED BY <2>3, <3>2 DEF RInv, AllRamInv
  <2> QED BY <2>2, <2>5, <2>6 DEF Low
<1> QED BY <1>1, BInvariance, RInvariance, PTL

-----------------------------------------------------------------------------
LEMMA DivisorOf ==
  ASSUME NEW a \in Nat, NEW b \in Nat \ {0}, NEW c \in Nat, b * c <= a, a < b * c + b
  PROVE  a \div b = c
<1> DEFINE q == a \div b
           r == a % b
           low == b * q
           high == b * c
<1>1. q \in Nat /\ r \in Nat /\ r < b /\ a = low + r /\ low \in Nat /\ high \in Nat
  BY Quotient
<1>2. b * (c + 1) = high + b /\ b * (q + 1) = low + b
  BY <1>1
<1>3. high <= a /\ a < high + b
  OBVIOUS
<1> HIDE DEF low, high, r
<1>4. high < low + b /\ low < high + b
  BY <1>1, <1>3
<1>5. c < q + 1 /\ q < c + 1
  BY <1>1, <1>2, <1>4, Smaller DEF low, high
<1> HIDE DEF q
<1>6. q = c
  BY <1>1, <1>5
<1> QED BY <1>6 DEF q

LEMMA Sizes ==
  /\ FuncCount \in Nat \ {0} /\ FuncSize \in Nat \ {0} /\ FuncSize % 4 = 0
  /\ Size \in Nat \ {0} /\ Size % 4 = 0
  /\ ConfigBytes = 0 .. Size - 1
<1>1. FuncCount \in Nat \ {0} /\ FuncSize \in Nat \ {0} /\ FuncSize % 4 = 0
  BY ConfigAssumption
<1> DEFINE q == FuncSize \div 4
<1>2. q \in Nat /\ FuncSize = 4 * q
  BY <1>1
<1>3. FuncCount * q \in Nat /\ Size = 4 * (FuncCount * q)
  BY <1>1, <1>2 DEF Size
<1> DEFINE m == FuncCount * q
<1>4. m \in Nat /\ Size = 4 * m
  BY <1>3
<1> HIDE DEF m
<1>5. Size % 4 = 0
  BY <1>4
<1>6. Size \in Nat \ {0}
  BY <1>1 DEF Size
<1> QED BY <1>1, <1>5, <1>6 DEF ConfigBytes

(* A function's bytes are bytes of the space. *)
LEMMA FunctionInside ==
  ASSUME NEW f \in Funcs
  PROVE  f \in Nat /\ f * FuncSize \in Nat /\ f * FuncSize + FuncSize <= Size
<1>1. f \in Nat /\ f + 1 <= FuncCount /\ FuncCount \in Nat /\ FuncSize \in Nat \ {0}
  BY Sizes DEF Funcs
<1>2. FuncSize * (f + 1) <= FuncSize * FuncCount
  BY <1>1, Monotone
<1>3. FuncSize * (f + 1) = f * FuncSize + FuncSize /\ FuncSize * FuncCount = Size
      /\ f * FuncSize \in Nat
  BY <1>1 DEF Size
<1> QED BY <1>1, <1>2, <1>3

-----------------------------------------------------------------------------
(* Where a call is. *)
CallAt ==
  /\ start \in Nat /\ wanted \in Nat /\ ptr \in Nat /\ n \in Nat
  /\ start + wanted <= Size /\ ptr + n = wanted
  /\ stage \in {"idle", "head", "words"} /\ op \in {"read", "write"}
  /\ stage # "idle" => offset = start + ptr
  /\ stage = "head" => ptr = 0
  /\ stage = "idle" => n = 0

OffsetsInv ==
  /\ offset \in Nat /\ offset <= Size
  /\ foffset \in [Funcs -> 0 .. FuncSize]

(* A call through a function's device is about that function's bytes. *)
OwnInv ==
  owner \in Funcs /\ wanted > 0 =>
    /\ owner * FuncSize <= start
    /\ start + wanted <= owner * FuncSize + FuncSize
    /\ stage # "idle" => start = owner * FuncSize + foffset[owner]

ReadInv ==
  op = "read" =>
    \A k \in ConfigBytes :
      /\ space[k] = Original(k)
      /\ out[k] = IF k < ptr THEN Original(start + k) ELSE Empty

(* A write that starts a word or ends in its first one. *)
Plain == (start % 4) = 0 \/ (start % 4) + wanted < 4

WriteInv ==
  op = "write" /\ Plain =>
    /\ stage = "words" => n = 0 \/ offset % 4 = 0
    /\ \A k \in ConfigBytes :
         space[k] = IF start <= k /\ k < start + ptr THEN Given(k - start)
                                                     ELSE Original(k)

ConfigInv == CallAt /\ OffsetsInv /\ OwnInv /\ ReadInv /\ WriteInv

LEMMA InitConfigInv == ConfigInit => ConfigInv
<1> SUFFICES ASSUME ConfigInit PROVE ConfigInv
  OBVIOUS
<1>1. Bus \notin Funcs /\ 0 \in 0 .. FuncSize
  BY Sizes DEF Bus, Funcs
<1> QED BY <1>1, Sizes DEF ConfigInit, ConfigInv, CallAt, OffsetsInv, OwnInv, ReadInv,
           WriteInv, Plain, Empty, Original

(* A call begins somewhere in the space, with its n clipped to what is left. *)
LEMMA BegunConfigInv ==
  ASSUME ConfigInv, NEW o \in {"read", "write"}, NEW at \in Nat, at <= Size,
         NEW m \in Nat, NEW who, Begin(o, at, m, who), UNCHANGED foffset,
         who \in Funcs /\ AtMost(m, Size - at) > 0 =>
           /\ at = who * FuncSize + foffset[who]
           /\ m <= FuncSize - foffset[who]
  PROVE  ConfigInv'
<1> DEFINE len == AtMost(m, Size - at)
<1>1. len \in Nat /\ at + len <= Size /\ len <= m
  BY Sizes DEF AtMost
<1>2. /\ op' = o /\ start' = at /\ owner' = who /\ wanted' = len /\ n' = len /\ ptr' = 0
      /\ offset' = at /\ stage' = "head"
      /\ space' = [k \in ConfigBytes |-> Original(k)]
      /\ out' = [k \in ConfigBytes |-> Empty]
  BY DEF Begin
<1> HIDE DEF len
<1>3. CallAt' /\ OffsetsInv'
  BY <1>1, <1>2 DEF CallAt, OffsetsInv, ConfigInv
<1>4. OwnInv'
  <2>1. ASSUME who \in Funcs, len > 0
        PROVE  /\ who * FuncSize <= at /\ at + len <= who * FuncSize + FuncSize
               /\ at = who * FuncSize + foffset[who]
    <3> DEFINE low == who * FuncSize
    <3>1. foffset[who] \in 0 .. FuncSize /\ low \in Nat /\ FuncSize \in Nat
      BY <2>1, Sizes, FunctionInside DEF ConfigInv, OffsetsInv
    <3>2. at = low + foffset[who] /\ m <= FuncSize - foffset[who]
      BY <2>1 DEF len
    <3> HIDE DEF low
    <3>3. low <= at /\ at + len <= low + FuncSize
      BY <1>1, <3>1, <3>2
    <3> QED BY <3>2, <3>3 DEF low
  <2> QED BY <1>2, <2>1 DEF OwnInv
<1>5. ReadInv' /\ WriteInv'
  BY <1>2, Sizes DEF ReadInv, WriteInv, Empty
<1> QED BY <1>3, <1>4, <1>5 DEF ConfigInv

LEMMA SeekConfigInv ==
  ASSUME ConfigInv, NEW base \in Int, NEW d \in Int, Seek(base, d)
  PROVE  ConfigInv'
<1>1. offset' \in Nat /\ offset' <= Size
  BY Sizes DEF Seek, Clip
<1> QED BY <1>1 DEF Seek, call, ConfigInv, CallAt, OffsetsInv, OwnInv, ReadInv, WriteInv, Plain

LEMMA FuncSeekConfigInv ==
  ASSUME ConfigInv, NEW f \in Funcs, NEW base \in Int, NEW d \in Int, FuncSeek(f, base, d)
  PROVE  ConfigInv'
<1>1. Clip(base + d, FuncSize) \in 0 .. FuncSize
  BY Sizes DEF Clip
<1>2. OffsetsInv'
  BY <1>1 DEF FuncSeek, ConfigInv, OffsetsInv
<1> QED BY <1>2 DEF FuncSeek, call, ConfigInv, CallAt, OwnInv, ReadInv, WriteInv, Plain

LEMMA CallConfigInv ==
  ASSUME ConfigInv, NEW o \in {"read", "write"}, NEW m \in Nat,
         Call(o, m) \/ \E f \in Funcs : FuncCall(f, o, m)
  PROVE  ConfigInv'
<1>1. CASE Call(o, m)
  <2>1. Bus \notin Funcs
    BY Sizes DEF Bus, Funcs
  <2> QED BY <1>1, <2>1, BegunConfigInv DEF Call, ConfigInv, OffsetsInv
<1>2. ASSUME NEW f \in Funcs, FuncCall(f, o, m)
      PROVE  ConfigInv'
  <2> DEFINE room == FuncSize - foffset[f]
             low == f * FuncSize
  <2>1. foffset[f] \in 0 .. FuncSize /\ FuncSize \in Nat \ {0} /\ low \in Nat
        /\ low + FuncSize <= Size /\ Size \in Nat
    BY Sizes, FunctionInside DEF ConfigInv, OffsetsInv
  <2>2. Address(f) = IF foffset[f] = FuncSize /\ f % 2 = 1 THEN low ELSE low + foffset[f]
    BY DEF Address
  <2> HIDE DEF low
  <2>3. Address(f) \in Nat /\ Address(f) <= Size
    BY <2>1, <2>2
  <2>4. AtMost(m, room) \in Nat /\ AtMost(m, room) <= room
    BY <2>1 DEF AtMost
  <2>5. AtMost(AtMost(m, room), Size - Address(f)) > 0 => Address(f) = low + foffset[f]
    <3>1. ASSUME foffset[f] = FuncSize
          PROVE  AtMost(AtMost(m, room), Size - Address(f)) = 0
      <4>1. room = 0 /\ AtMost(m, room) = 0
        BY <2>1, <2>4, <3>1
      <4> QED BY <2>3, <4>1, Sizes DEF AtMost
    <3> QED BY <2>2, <3>1
  <2>6. Begin(o, Address(f), AtMost(m, room), f) /\ UNCHANGED foffset
    BY <1>2 DEF FuncCall
  <2> HIDE DEF room
  <2>7. AtMost(m, room) <= FuncSize - foffset[f]
    BY <2>4 DEF room
  <2> QED BY <2>3, <2>4, <2>5, <2>6, <2>7, BegunConfigInv DEF low
<1> QED BY <1>1, <1>2

-----------------------------------------------------------------------------
(* What a piece of a call does. *)

(* The words of the space. *)
LEMMA WordOf ==
  ASSUME NEW a \in Nat, a < Size
  PROVE  Word(a) = (a \div 4) * 4
<1> DEFINE w == (a \div 4) * 4
<1>1. w \in Nat /\ w <= a
  OBVIOUS
<1> HIDE DEF w
<1>2. w % Size = w
  BY <1>1, Sizes, Kept
<1> QED BY <1>2 DEF w, Word

(* A word that is put back where it was read changes the caller's bytes. *)
LEMMA Written ==
  ASSUME offset \in Nat, ptr \in Nat, NEW len \in Nat, NEW p, p = offset % 4, p + len <= 4,
         offset < Size, NEW at \in Nat, at < Size, at \div 4 = offset \div 4,
         PutWord(at, Patched(Word(offset), p, len))
  PROVE  \A k \in ConfigBytes :
           space'[k] = IF offset <= k /\ k < offset + len THEN Given(ptr + (k - offset))
                                                          ELSE space[k]
<1> DEFINE w == (offset \div 4) * 4
<1>1. Word(offset) = w /\ Word(at) = (at \div 4) * 4
  BY WordOf
<1>2. p \in 0 .. 3 /\ w \in Nat /\ w + p = offset
  OBVIOUS
<1>3. Word(at) \div 4 = offset \div 4
  BY <1>1
<1> SUFFICES ASSUME NEW k \in ConfigBytes
             PROVE  space'[k] = IF offset <= k /\ k < offset + len
                                  THEN Given(ptr + (k - offset)) ELSE space[k]
  OBVIOUS
<1>4. k \in Nat
  BY Sizes
<1>5. space'[k] = IF k \div 4 = offset \div 4 THEN Patched(w, p, len)[k % 4] ELSE space[k]
  BY <1>1, <1>3 DEF PutWord
<1>6. CASE k \div 4 = offset \div 4
  <2>1. k % 4 \in 0 .. 3 /\ w + (k % 4) = k
    BY <1>4, <1>6
  <2>2. Patched(w, p, len)[k % 4] = IF p <= k % 4 /\ k % 4 < p + len
                                      THEN Given(ptr + (k % 4) - p) ELSE space[w + (k % 4)]
    BY <2>1 DEF Patched
  <2>3. ptr + (k % 4) - p = ptr + (k - offset)
    BY <1>2, <1>4, <2>1
  <2>4. p <= k % 4 /\ k % 4 < p + len <=> offset <= k /\ k < offset + len
    BY <1>2, <1>4, <2>1
  <2> HIDE DEF w
  <2> QED BY <1>5, <1>6, <2>1, <2>2, <2>3, <2>4
<1>7. CASE k \div 4 # offset \div 4
  <2>1. ~(offset <= k /\ k < offset + len)
    BY <1>2, <1>4, <1>7
  <2> QED BY <1>5, <1>7, <2>1
<1> QED BY <1>6, <1>7

(* The call moves on by len bytes. *)
LEMMA AdvancedConfigInv ==
  ASSUME ConfigInv, stage # "idle", NEW len \in Nat, len <= n, Advance(len),
         stage' \in {"idle", "words"}, stage' = "idle" => len = n,
         op = "read" => Fetch(len) /\ UNCHANGED space,
         op = "write" /\ Plain =>
           /\ stage' = "words" => n - len = 0 \/ (offset + len) % 4 = 0
           /\ \A k \in ConfigBytes :
                space'[k] = IF offset <= k /\ k < offset + len
                              THEN Given(ptr + (k - offset)) ELSE space[k]
  PROVE  ConfigInv'
<1>1. /\ start \in Nat /\ wanted \in Nat /\ ptr \in Nat /\ n \in Nat /\ offset = start + ptr
      /\ start + wanted <= Size /\ ptr + n = wanted
  BY DEF ConfigInv, CallAt
<1>2. /\ offset' = offset + len /\ ptr' = ptr + len /\ n' = n - len
      /\ UNCHANGED <<foffset, op, start, wanted, owner>>
  BY DEF Advance, call
<1>3. CallAt' /\ OffsetsInv'
  BY <1>1, <1>2, Sizes DEF ConfigInv, CallAt, OffsetsInv
<1>4. OwnInv'
  BY <1>2 DEF ConfigInv, OwnInv
<1>5. ReadInv'
  <2>1. ASSUME op = "read", NEW k \in ConfigBytes
        PROVE  out'[k] = IF k < ptr + len THEN Original(start + k) ELSE Empty
    <3>1. k \in Nat
      BY Sizes
    <3>2. out'[k] = IF ptr <= k /\ k < ptr + len THEN space[offset + k - ptr] ELSE out[k]
      BY <2>1 DEF Fetch
    <3>3. out[k] = IF k < ptr THEN Original(start + k) ELSE Empty
      BY <2>1 DEF ConfigInv, ReadInv
    <3>4. CASE ptr <= k /\ k < ptr + len
      <4>1. offset + k - ptr = start + k /\ start + k \in ConfigBytes
        BY <1>1, <3>1, <3>4, Sizes
      <4>2. space[start + k] = Original(start + k)
        BY <2>1, <4>1 DEF ConfigInv, ReadInv
      <4> QED BY <3>2, <3>4, <4>1, <4>2
    <3>5. CASE ~(ptr <= k /\ k < ptr + len)
      <4>1. k < ptr <=> k < ptr + len
        BY <1>1, <3>1, <3>5
      <4> QED BY <3>2, <3>3, <3>5, <4>1
    <3> QED BY <3>4, <3>5
  <2> QED BY <1>2, <2>1 DEF ConfigInv, ReadInv
<1>6. WriteInv'
  <2>1. ASSUME op = "write", Plain, NEW k \in ConfigBytes
        PROVE  space'[k] = IF start <= k /\ k < start + (ptr + len) THEN Given(k - start)
                                                                    ELSE Original(k)
    <3>1. k \in Nat
      BY Sizes
    <3>2. space'[k] = IF offset <= k /\ k < offset + len THEN Given(ptr + (k - offset))
                                                         ELSE space[k]
      BY <2>1
    <3>3. space[k] = IF start <= k /\ k < start + ptr THEN Given(k - start) ELSE Original(k)
      BY <2>1 DEF ConfigInv, WriteInv
    <3>4. CASE offset <= k /\ k < offset + len
      <4>1. ptr + (k - offset) = k - start /\ start <= k /\ k < start + (ptr + len)
        BY <1>1, <3>1, <3>4
      <4> QED BY <3>2, <3>4, <4>1
    <3>5. CASE ~(offset <= k /\ k < offset + len)
      <4>1. start <= k /\ k < start + ptr <=> start <= k /\ k < start + (ptr + len)
        BY <1>1, <3>1, <3>5
      <4> QED BY <3>2, <3>3, <3>5, <4>1
    <3> QED BY <3>4, <3>5
  <2>2. Plain' <=> Plain
    BY <1>2 DEF Plain
  <2> QED BY <1>2, <2>1, <2>2 DEF WriteInv
<1> QED BY <1>3, <1>4, <1>5, <1>6 DEF ConfigInv

LEMMA HeadConfigInv ==
  ASSUME ConfigInv, HeadSkip \/ HeadRead \/ HeadWrite
  PROVE  ConfigInv'
<1>1. stage = "head" /\ stage' = "words"
  BY DEF HeadSkip, HeadRead, HeadWrite
<1>2. /\ start \in Nat /\ wanted \in Nat /\ ptr = 0 /\ n \in Nat /\ offset = start
      /\ n = wanted /\ offset + n <= Size /\ offset \in Nat
  BY <1>1 DEF ConfigInv, CallAt
<1>3. CASE HeadSkip
  BY <1>2, <1>3
     DEF HeadSkip, call, ConfigInv, CallAt, OffsetsInv, OwnInv, ReadInv, WriteInv, Plain
<1> DEFINE len == HeadLength
<1>4. offset % 4 \in 0 .. 3 /\ len \in Nat /\ len <= n /\ (offset % 4) + len <= 4
  BY <1>2 DEF HeadLength, AtMost
<1>5. CASE HeadRead
  <2>1. op = "read" /\ Fetch(len) /\ Advance(len) /\ UNCHANGED space
    BY <1>5 DEF HeadRead
  <2> HIDE DEF len
  <2> QED BY <1>1, <1>4, <2>1, AdvancedConfigInv
<1>6. CASE HeadWrite
  <2>1. /\ op = "write" /\ Advance(len) /\ offset % 4 # 0
        /\ PutWord(offset + len, Patched(Word(offset), offset % 4, len))
    BY <1>6 DEF HeadWrite
  <2>2. ASSUME Plain
        PROVE  len = n /\ offset + len < Size /\ (offset + len) \div 4 = offset \div 4
    <3>1. (offset % 4) + n < 4
      BY <1>2, <2>1, <2>2 DEF Plain
    <3>2. len = n
      BY <1>2, <1>4, <3>1 DEF HeadLength, AtMost
    <3> HIDE DEF len
    <3>3. (offset + len) \div 4 = offset \div 4 /\ (offset + len) % 4 # 0
      BY <1>2, <1>4, <2>1, <3>1, <3>2
    <3>4. offset + len # Size
      BY <3>3, Sizes
    <3>5. offset + len < Size
      BY <1>2, <1>4, <3>2, <3>4, Sizes
    <3> QED BY <3>2, <3>3, <3>5
  <2> HIDE DEF len
  <2>3. ASSUME Plain, NEW k \in ConfigBytes
        PROVE  space'[k] = IF offset <= k /\ k < offset + len
                             THEN Given(ptr + (k - offset)) ELSE space[k]
    <3>1. offset < Size /\ offset + len \in Nat
      BY <1>2, <1>4, <2>2, <2>3, Sizes
    <3> QED BY <1>2, <1>4, <2>1, <2>2, <2>3, <3>1, Written
  <2>4. Plain => n - len = 0
    BY <1>2, <2>2
  <2> QED BY <1>1, <1>4, <2>1, <2>3, <2>4, AdvancedConfigInv
<1> QED BY <1>3, <1>5, <1>6

LEMMA WordsConfigInv ==
  ASSUME ConfigInv, WordMoves \/ TailMoves
  PROVE  ConfigInv'
<1>1. /\ start \in Nat /\ wanted \in Nat /\ ptr \in Nat /\ n \in Nat /\ offset = start + ptr
      /\ ptr + n = wanted /\ start + wanted <= Size /\ stage = "words"
      /\ offset \in Nat /\ offset + n <= Size
  BY DEF ConfigInv, CallAt, WordMoves, TailMoves
<1>2. op \in {"read", "write"}
  BY DEF ConfigInv, CallAt
<1>3. ASSUME NEW len \in Nat, len <= n, len <= 4, len > 0, op = "write", Plain,
             PutWord(offset, Patched(Word(offset), 0, len))
      PROVE  \A k \in ConfigBytes :
               space'[k] = IF offset <= k /\ k < offset + len
                             THEN Given(ptr + (k - offset)) ELSE space[k]
  <2>1. offset % 4 = 0
    BY <1>1, <1>3 DEF ConfigInv, WriteInv
  <2>2. offset < Size
    BY <1>1, <1>3, Sizes
  <2> DEFINE p == offset % 4
  <2>3. PutWord(offset, Patched(Word(offset), p, len)) /\ p + len <= 4
    BY <1>3, <2>1
  <2>4. p = offset % 4 /\ offset \div 4 = offset \div 4
    OBVIOUS
  <2> HIDE DEF p
  <2> QED BY <1>1, <1>3, <2>2, <2>3, <2>4, Written
<1>4. CASE WordMoves
  <2>1. /\ n >= 4 /\ Advance(4) /\ stage' = "words"
        /\ op = "read" => Fetch(4) /\ UNCHANGED space
        /\ op = "write" => PutWord(offset, Patched(Word(offset), 0, 4))
    BY <1>1, <1>2, <1>4 DEF WordMoves
  <2>2. op = "write" /\ Plain => (offset + 4) % 4 = 0
    <3>1. op = "write" /\ Plain => offset % 4 = 0
      BY <1>1, <2>1 DEF ConfigInv, WriteInv
    <3> QED BY <1>1, <3>1
  <2> QED BY <1>1, <1>3, <2>1, <2>2, AdvancedConfigInv
<1>5. CASE TailMoves
  <2>1. /\ n < 4 /\ Advance(n) /\ stage' = "idle"
        /\ op = "read" => Fetch(n) /\ UNCHANGED space
        /\ op = "write" /\ n = 0 => UNCHANGED space
        /\ op = "write" /\ n # 0 => PutWord(offset, Patched(Word(offset), 0, n))
    BY <1>1, <1>2, <1>5 DEF TailMoves
  <2>2. ASSUME op = "write", Plain, NEW k \in ConfigBytes
        PROVE  space'[k] = IF offset <= k /\ k < offset + n
                             THEN Given(ptr + (k - offset)) ELSE space[k]
    <3>1. CASE n = 0
      <4>1. ~(offset <= k /\ k < offset + n)
        BY <1>1, <3>1, Sizes
      <4> QED BY <2>1, <2>2, <3>1, <4>1
    <3>2. CASE n # 0
      BY <1>1, <1>3, <2>1, <2>2, <3>2
    <3> QED BY <3>1, <3>2
  <2> QED BY <1>1, <2>1, <2>2, AdvancedConfigInv
<1> QED BY <1>4, <1>5

LEMMA StepConfigInv == ConfigInv /\ [ConfigNext]_configVars => ConfigInv'
<1> SUFFICES ASSUME ConfigInv, [ConfigNext]_configVars PROVE ConfigInv'
  OBVIOUS
<1>1. CASE UNCHANGED configVars
  BY <1>1 DEF configVars, call, ConfigInv, CallAt, OffsetsInv, OwnInv, ReadInv, WriteInv, Plain
<1>2. ASSUME NEW base \in {0, offset, Size}, NEW d \in Distances, Seek(base, d)
      PROVE  ConfigInv'
  <2>1. base \in Int /\ d \in Int
    BY Sizes, ConfigAssumption DEF ConfigInv, OffsetsInv
  <2> QED BY <1>2, <2>1, SeekConfigInv
<1>3. ASSUME NEW f \in Funcs, NEW d \in Distances, NEW base \in {0, foffset[f], FuncSize},
             FuncSeek(f, base, d)
      PROVE  ConfigInv'
  <2>1. base \in Int /\ d \in Int
    BY Sizes, ConfigAssumption DEF ConfigInv, OffsetsInv
  <2> QED BY <1>3, <2>1, FuncSeekConfigInv
<1>4. ASSUME NEW o \in {"read", "write"}, NEW m \in Lengths,
             Call(o, m) \/ \E f \in Funcs : FuncCall(f, o, m)
      PROVE  ConfigInv'
  <2>1. m \in Nat
    BY ConfigAssumption
  <2> QED BY <1>4, <2>1, CallConfigInv
<1>5. CASE HeadSkip \/ HeadRead \/ HeadWrite
  BY <1>5, HeadConfigInv
<1>6. CASE WordMoves \/ TailMoves
  BY <1>6, WordsConfigInv
<1> QED BY <1>1, <1>2, <1>3, <1>4, <1>5, <1>6 DEF ConfigNext

LEMMA ConfigInvariance == ConfigSpec => []ConfigInv
BY InitConfigInv, StepConfigInv, PTL DEF ConfigSpec

(* A read of any length at any offset, in a word's middle or at the end of *)
(* the space, through the bus device or a function's, gives the caller the *)
(* bytes of the space in order and touches no more of the buffer.          *)
THEOREM InOrder == ConfigSpec => []ReadsInOrder
<1>1. ConfigInv => ReadsInOrder
  <2> SUFFICES ASSUME ConfigInv, stage = "idle", op = "read"
               PROVE  ReadsInOrder
    BY DEF ReadsInOrder
  <2>1. ptr = wanted
    BY DEF ConfigInv, CallAt
  <2> QED BY <2>1 DEF ConfigInv, ReadInv, ReadsInOrder
<1> QED BY <1>1, ConfigInvariance, PTL

(* Whoever moved the bus device's offset before, a read through a           *)
(* function's device starts at that function's own offset and yields bytes  *)
(* of that function alone.                                                  *)
THEOREM OwnBytes == ConfigSpec => []FunctionReadsOwn
<1>1. ConfigInv => FunctionReadsOwn
  <2> SUFFICES ASSUME ConfigInv, op = "read", owner \in Funcs, wanted > 0
               PROVE  /\ stage # "idle" => start = owner * FuncSize + foffset[owner]
                      /\ stage = "idle" => \A k \in 0 .. wanted - 1 : out[k] \div FuncSize = owner
    BY DEF FunctionReadsOwn
  <2> DEFINE low == owner * FuncSize
  <2>1. /\ low <= start /\ start + wanted <= low + FuncSize
        /\ stage # "idle" => start = low + foffset[owner]
    BY DEF ConfigInv, OwnInv
  <2>2. /\ start \in Nat /\ wanted \in Nat /\ start + wanted <= Size
        /\ stage = "idle" => ptr = wanted
    BY DEF ConfigInv, CallAt
  <2>3. low \in Nat /\ low = FuncSize * owner /\ owner \in Nat /\ FuncSize \in Nat \ {0}
    BY Sizes, FunctionInside
  <2> HIDE DEF low
  <2>4. ASSUME stage = "idle", NEW k \in 0 .. wanted - 1
        PROVE  out[k] \div FuncSize = owner
    <3>1. k \in ConfigBytes /\ k < ptr /\ start + k \in Nat
          /\ low <= start + k /\ start + k < low + FuncSize
      BY <2>1, <2>2, <2>3, <2>4, Sizes
    <3>2. out[k] = start + k
      BY <3>1 DEF ConfigInv, ReadInv, Original
    <3>3. (start + k) \div FuncSize = owner
      BY <2>3, <3>1, DivisorOf
    <3> QED BY <3>2, <3>3
  <2> QED BY <2>1, <2>4 DEF low
<1> QED BY <1>1, ConfigInvariance, PTL

(* A write that starts a word, or ends inside its first one, changes the    *)
(* bytes it names to the caller's, and no other byte of the words that it   *)
(* reads and puts back.                                                     *)
THEOREM InPlace == ConfigSpec => []AlignedWritesInPlace
<1>1. ConfigInv => AlignedWritesInPlace
  <2> SUFFICES ASSUME ConfigInv, Plain, stage = "idle", op = "write"
               PROVE  Changed = Asked /\ \A k \in Asked : space[k] = Given(k - start)
    BY DEF AlignedWritesInPlace, WritesInPlace, Plain
  <2>1. start \in Nat /\ wanted \in Nat /\ start + wanted <= Size /\ ptr = wanted
    BY DEF ConfigInv, CallAt
  <2>2. Asked \subseteq ConfigBytes
    BY <2>1, Sizes DEF Asked
  <2>3. ASSUME NEW k \in ConfigBytes
        PROVE  /\ k \in Asked => space[k] = Given(k - start)
               /\ k \notin Asked => space[k] = Original(k)
    <3>1. k \in Nat
      BY Sizes
    <3>2. k \in Asked <=> start <= k /\ k < start + ptr
      BY <2>1, <3>1 DEF Asked
    <3> QED BY <3>2 DEF ConfigInv, WriteInv
  <2>4. ASSUME NEW k \in Asked
        PROVE  Given(k - start) # Original(k)
    BY <2>1, <2>2, Sizes DEF Given, Original, Asked
  <2> QED BY <2>2, <2>3, <2>4 DEF Changed
<1> QED BY <1>1, ConfigInvariance, PTL
=============================================================================
