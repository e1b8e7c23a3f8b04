----------------------------- MODULE HeapProofs -----------------------------
(***************************************************************************)
(* Proofs about the heap, for every number and size of pages, every size   *)
(* of heads and requests, and every sequence of calls: the headers tile    *)
(* the blocks, allocations are exclusive, and the heap implements the      *)
(* specification that its callers rely on.                                 *)
(***************************************************************************)
EXTENDS Heap, TLAPS

LEMMA Quotient ==
  ASSUME NEW a \in Nat, NEW b \in Nat \ {0}
  PROVE  /\ a % b \in Nat /\ a % b < b
         /\ a \div b \in Nat
         /\ a = b * (a \div b) + (a % b)
OBVIOUS

LEMMA Monotone ==
  ASSUME NEW b \in Nat \ {0}, NEW c \in Int, NEW d \in Int, c <= d
  PROVE  c * b <= d * b
OBVIOUS

LEMMA Constants ==
  /\ PageCount \in Nat \ {0} /\ PageSize \in Nat \ {0}
  /\ BlockSize \in Nat \ {0} /\ HeaderSize \in Nat \ {0} /\ BlockMin \in Nat
  /\ Sizes \subseteq Nat \ {0}
BY HeapAssumption, SizesAssumption

-----------------------------------------------------------------------------
(* Where the header after h is, in the headers hdr. *)
Ends(h, hdr) == h + HeaderSize + Abs(hdr[h])

(* The headers hdr tile the blocks of sizes bs. *)
Tiles(bs, hdr) ==
  /\ \A b \in DOMAIN bs : b \in Nat /\ bs[b] \in Nat \ {0}
  /\ \A h \in DOMAIN hdr : h \in Nat /\ hdr[h] \in Int
  /\ \A b \in DOMAIN bs : b + BlockSize \in DOMAIN hdr
  /\ \A h \in DOMAIN hdr : \E b \in DOMAIN bs :
       /\ b + BlockSize <= h
       /\ \/ Ends(h, hdr) = b + BlockSize + bs[b]
          \/ Ends(h, hdr) < b + BlockSize + bs[b] /\ Ends(h, hdr) \in DOMAIN hdr
  /\ \A g, h \in DOMAIN hdr : g < h => Ends(g, hdr) <= h

LEMMA AbsNat ==
  ASSUME NEW x \in Int
  PROVE  Abs(x) \in Nat /\ Abs(-x) = Abs(x) /\ (x > 0 => Abs(x) = x) /\ (x < 0 => Abs(x) = -x)
         /\ Abs(Abs(x)) = Abs(x)
BY DEF Abs

LEMMA EndsAfter ==
  ASSUME NEW bs, NEW hdr, Tiles(bs, hdr), NEW h \in DOMAIN hdr
  PROVE  Ends(h, hdr) \in Nat /\ Ends(h, hdr) > h
<1>1. h \in Nat /\ Abs(hdr[h]) \in Nat
  BY AbsNat DEF Tiles
<1> QED BY <1>1, Constants DEF Ends

(* Headers that only change from used to free, or back, tile as before. *)
LEMMA SameTiles ==
  ASSUME NEW bs, NEW hdr, NEW hd2, Tiles(bs, hdr),
         DOMAIN hd2 = DOMAIN hdr,
         \A h \in DOMAIN hdr : hd2[h] \in Int /\ Abs(hd2[h]) = Abs(hdr[h])
  PROVE  Tiles(bs, hd2)
<1>1. \A h \in DOMAIN hdr : Ends(h, hd2) = Ends(h, hdr)
  BY DEF Ends
<1> QED BY <1>1 DEF Tiles

(* A header is split in two. *)
LEMMA SplitTiles ==
  ASSUME NEW bs, NEW hdr, NEW hd2, Tiles(bs, hdr),
         NEW d \in DOMAIN hdr, NEW m \in Nat \ {0}, NEW e,
         e = d + HeaderSize + m, hdr[d] > m + HeaderSize,
         DOMAIN hd2 = DOMAIN hdr \cup {e},
         hd2[d] = -m, hd2[e] = hdr[d] - HeaderSize - m,
         \A h \in DOMAIN hdr : h # d => hd2[h] = hdr[h]
  PROVE  Tiles(bs, hd2) /\ e \notin DOMAIN hdr
<1>1. /\ d \in Nat /\ hdr[d] \in Nat /\ e \in Nat /\ d < e
      /\ Ends(d, hdr) = d + HeaderSize + hdr[d] /\ e < Ends(d, hdr)
  BY Constants, AbsNat DEF Tiles, Ends
<1>2. e \notin DOMAIN hdr
  BY <1>1, EndsAfter DEF Tiles
<1>3. Ends(d, hd2) = e /\ Ends(e, hd2) = Ends(d, hdr) /\ hd2[d] \in Int /\ hd2[e] \in Int
  <2>1. Abs(-m) = m
    BY DEF Abs
  <2>2. hdr[d] - HeaderSize - m \in Nat
    BY <1>1, Constants
  <2>3. Abs(hdr[d] - HeaderSize - m) = hdr[d] - HeaderSize - m
    BY <2>2 DEF Abs
  <2> QED BY <1>1, <2>1, <2>2, <2>3, Constants DEF Ends
<1>4. \A h \in DOMAIN hdr : h # d => Ends(h, hd2) = Ends(h, hdr)
  BY DEF Ends
<1>5. \A h \in DOMAIN hd2 : h \in Nat /\ hd2[h] \in Int
  BY <1>1, <1>3 DEF Tiles
<1>6. ASSUME NEW h \in DOMAIN hd2
      PROVE  \E b \in DOMAIN bs :
               /\ b + BlockSize <= h
               /\ \/ Ends(h, hd2) = b + BlockSize + bs[b]
                  \/ Ends(h, hd2) < b + BlockSize + bs[b] /\ Ends(h, hd2) \in DOMAIN hd2
  <2>1. PICK b \in DOMAIN bs :
          /\ b + BlockSize <= d
          /\ \/ Ends(d, hdr) = b + BlockSize + bs[b]
             \/ Ends(d, hdr) < b + BlockSize + bs[b] /\ Ends(d, hdr) \in DOMAIN hdr
    BY DEF Tiles
  <2>2. b + BlockSize + bs[b] \in Int /\ b + BlockSize \in Int /\ Ends(d, hdr) \in Nat
    BY Constants, EndsAfter DEF Tiles
  <2>3. CASE h = d
    BY <1>1, <1>3, <2>1, <2>2, <2>3
  <2>4. CASE h = e
    BY <1>1, <1>3, <2>1, <2>2, <2>4
  <2>5. CASE h # d /\ h # e
    BY <1>4, <2>5 DEF Tiles
  <2> QED BY <2>3, <2>4, <2>5
<1>7. ASSUME NEW g \in DOMAIN hd2, NEW h \in DOMAIN hd2, g < h
      PROVE  Ends(g, hd2) <= h
  <2>1. g \in Nat /\ h \in Nat /\ Ends(d, hdr) \in Nat
    BY <1>5, EndsAfter
  <2>2. CASE g = d /\ h # e
    BY <1>1, <1>3, <2>1, <2>2, <1>7 DEF Tiles
  <2>3. CASE g = d /\ h = e
    BY <1>1, <1>3, <2>3
  <2>4. CASE g = e
    BY <1>1, <1>3, <2>1, <2>4, <1>7 DEF Tiles
  <2>5. CASE g # d /\ g # e /\ h # e
    BY <1>4, <2>5, <1>7 DEF Tiles
  <2>6. CASE g # d /\ g # e /\ h = e
    <3>1. Ends(g, hd2) = Ends(g, hdr) /\ Ends(g, hdr) \in Nat
      BY <1>4, <2>6, EndsAfter
    <3>2. g < d
      <4>1. CASE d < g
        <5>1. Ends(d, hdr) <= g
          BY <2>6, <4>1 DEF Tiles
        <5> QED BY <1>1, <1>7, <2>1, <2>6, <5>1
      <4> QED BY <1>1, <2>1, <2>6, <4>1
    <3>3. Ends(g, hdr) <= d
      BY <2>6, <3>2 DEF Tiles
    <3> QED BY <1>1, <2>6, <3>1, <3>3
  <2> QED BY <2>2, <2>3, <2>4, <2>5, <2>6
<1>8. \A b \in DOMAIN bs : b + BlockSize \in DOMAIN hd2 /\ b \in Nat /\ bs[b] \in Nat \ {0}
  BY DEF Tiles
<1> QED BY <1>2, <1>5, <1>6, <1>7, <1>8 DEF Tiles

(* A block of s bytes after its head is added at a, with one header. *)
LEMMA BlockTiles ==
  ASSUME NEW bs, NEW hdr, NEW bs2, NEW hd2, Tiles(bs, hdr),
         NEW a \in Nat, NEW s \in Nat, s > HeaderSize,
         \A b \in DOMAIN bs : b + BlockSize + bs[b] <= a \/ a + BlockSize + s <= b,
         bs2 = With(bs, a, s), hd2 = With(hdr, a + BlockSize, s - HeaderSize)
  PROVE  Tiles(bs2, hd2)
<1> DEFINE f == a + BlockSize
           z == a + BlockSize + s
<1>1. f \in Nat /\ z \in Nat /\ f = a + BlockSize /\ z = f + s /\ f < z
  BY Constants
<1> HIDE DEF f, z
<1>2. ASSUME NEW b \in DOMAIN bs
      PROVE  b # a
  BY <1>2, Constants DEF Tiles
<1>3. /\ DOMAIN bs2 = DOMAIN bs \cup {a} /\ bs2[a] = s
      /\ \A b \in DOMAIN bs : bs2[b] = bs[b]
  BY <1>2 DEF With
(* Old headers lie before the new block or after it. *)
<1>4. ASSUME NEW h \in DOMAIN hdr
      PROVE  Ends(h, hdr) <= a \/ z < h
  <2>1. PICK b \in DOMAIN bs :
          b + BlockSize <= h /\ Ends(h, hdr) <= b + BlockSize + bs[b]
    <3>1. \A b \in DOMAIN bs : b + BlockSize + bs[b] \in Int
      BY Constants DEF Tiles
    <3> QED BY <3>1, EndsAfter DEF Tiles
  <2>2. b + BlockSize + bs[b] <= a \/ z <= b
    BY DEF z
  <2>3. b \in Nat /\ bs[b] \in Nat /\ h \in Nat /\ Ends(h, hdr) \in Nat
    BY EndsAfter DEF Tiles
  <2> QED BY <1>1, <2>1, <2>2, <2>3, Constants
<1>5. f \notin DOMAIN hdr
  BY <1>1, <1>4, EndsAfter, Constants DEF Tiles
<1>6. /\ DOMAIN hd2 = DOMAIN hdr \cup {f} /\ hd2[f] = s - HeaderSize
      /\ \A h \in DOMAIN hdr : hd2[h] = hdr[h]
  BY <1>5 DEF With, f
<1>7. Ends(f, hd2) = z /\ hd2[f] \in Int
  <2>1. s - HeaderSize \in Nat
    BY Constants
  <2>2. Abs(s - HeaderSize) = s - HeaderSize
    BY <2>1 DEF Abs
  <2> QED BY <1>1, <1>6, <2>1, <2>2, Constants DEF Ends
<1>8. \A h \in DOMAIN hdr : Ends(h, hd2) = Ends(h, hdr)
  BY <1>6 DEF Ends
<1>9. \A b \in DOMAIN bs2 : /\ b \in Nat /\ bs2[b] \in Nat \ {0}
                            /\ b + BlockSize \in DOMAIN hd2
  BY <1>3, <1>6, Constants DEF Tiles, f
<1>10. \A h \in DOMAIN hd2 : h \in Nat /\ hd2[h] \in Int
  BY <1>1, <1>6, <1>7 DEF Tiles
<1>11. ASSUME NEW h \in DOMAIN hd2
       PROVE  \E b \in DOMAIN bs2 :
                /\ b + BlockSize <= h
                /\ \/ Ends(h, hd2) = b + BlockSize + bs2[b]
                   \/ Ends(h, hd2) < b + BlockSize + bs2[b] /\ Ends(h, hd2) \in DOMAIN hd2
  <2>1. CASE h = f
    <3>1. a + BlockSize <= f /\ Ends(f, hd2) = a + BlockSize + bs2[a]
      BY <1>1, <1>3, <1>7
    <3> QED BY <2>1, <3>1, <1>3
  <2>2. CASE h \in DOMAIN hdr
    <3>1. PICK b \in DOMAIN bs :
            /\ b + BlockSize <= h
            /\ \/ Ends(h, hdr) = b + BlockSize + bs[b]
               \/ Ends(h, hdr) < b + BlockSize + bs[b] /\ Ends(h, hdr) \in DOMAIN hdr
      BY <2>2 DEF Tiles
    <3> QED BY <2>2, <3>1, <1>3, <1>6, <1>8
  <2> QED BY <1>6, <2>1, <2>2
<1>12. ASSUME NEW g \in DOMAIN hd2, NEW h \in DOMAIN hd2, g < h
       PROVE  Ends(g, hd2) <= h
  <2>1. CASE g \in DOMAIN hdr /\ h \in DOMAIN hdr
    BY <1>8, <1>12, <2>1 DEF Tiles
  <2>2. CASE g = f /\ h \in DOMAIN hdr
    BY <1>1, <1>4, <1>7, <1>12, <2>2, EndsAfter, Constants DEF Tiles
  <2>3. CASE g \in DOMAIN hdr /\ h = f
    BY <1>1, <1>4, <1>8, <1>12, <2>3, EndsAfter, Constants DEF Tiles
  <2>4. CASE g = f /\ h = f
    BY <1>1, <1>12, <2>4
  <2> QED BY <1>6, <2>1, <2>2, <2>3, <2>4
<1> QED BY <1>9, <1>10, <1>11, <1>12 DEF Tiles

-----------------------------------------------------------------------------
(* The size of a new block: it holds both heads and what is asked for. *)
LEMMA PagesEnough ==
  ASSUME NEW m \in Nat, NEW c, c = PagesFor(m)
  PROVE  c \in Nat \ {0} /\ c * PageSize \in Nat
         /\ c * PageSize >= m + BlockSize + HeaderSize
<1> DEFINE need == m + BlockSize + HeaderSize
           up == need + (PageSize - 1)
<1>1. /\ need \in Nat /\ need >= 1 /\ up \in Nat /\ up = need + (PageSize - 1)
      /\ c = up \div PageSize
  BY Constants DEF PagesFor
<1> HIDE DEF need, up
<1>2. /\ c \in Nat /\ up % PageSize \in Nat /\ up % PageSize < PageSize
      /\ up = PageSize * c + (up % PageSize)
  BY <1>1, Constants, Quotient
<1>3. c * PageSize = PageSize * c /\ PageSize * c \in Nat
  BY <1>2, Constants
<1> DEFINE bytes == c * PageSize
           rest == up % PageSize
<1>4. bytes \in Nat /\ rest \in Nat /\ rest < PageSize /\ up = bytes + rest
  BY <1>2, <1>3
<1>5. c = 0 => bytes = 0
  BY Constants
<1> HIDE DEF bytes, rest
<1>6. bytes >= need
  BY <1>1, <1>4, Constants
<1>7. c # 0
  BY <1>1, <1>4, <1>5, <1>6
<1> QED BY <1>2, <1>4, <1>6, <1>7 DEF bytes, need

LEMMA NewSizeEnough ==
  ASSUME n \in Nat
  PROVE  NewSize \in Nat /\ NewSize >= n
<1>1. n \div 4 \in Nat
  BY Quotient
<1> QED BY <1>1, Constants DEF NewSize

(* Runs of pages that have no page in common are apart in bytes too. *)
LEMMA RunsApart ==
  ASSUME NEW f \in Nat, NEW c \in Nat, NEW g \in Nat, NEW d \in Nat, f + c <= g
  PROVE  f * PageSize + c * PageSize <= g * PageSize
<1>1. (f + c) * PageSize <= g * PageSize
  BY Constants, Monotone
<1>2. (f + c) * PageSize = f * PageSize + c * PageSize
  BY Constants
<1> QED BY <1>1, <1>2

-----------------------------------------------------------------------------
(* The pages of block b are a run that it was granted, which is not free. *)
Backed(b) ==
  \E k \in held :
    /\ k[1] \in Nat /\ k[2] \in Nat \ {0}
    /\ b = k[1] * PageSize /\ Last(b) = b + k[2] * PageSize
    /\ \A p \in free : ~(k[1] <= p /\ p < k[1] + k[2])

BlockInv ==
  /\ \A b \in Blocks : Backed(b)
  /\ \A b, c \in Blocks : b < c => Last(b) <= c
  /\ DOMAIN next = Blocks
  /\ \A b \in Blocks : next[b] \in Blocks \cup {NULL}
  /\ block_root \in Blocks \cup {NULL}

PoolInv ==
  /\ free \subseteq Pool!Pages
  /\ call = IF pc = "page" THEN PagesFor(NewSize) ELSE Pool!Idle

CallInv ==
  /\ pc \in {"idle", "walk", "page", "return"}
  /\ pc # "idle" => n \in Sizes /\ old \in DOMAIN live \cup {NULL}
  /\ pc = "walk" => attempt \in 1 .. 3
  /\ block \in Blocks \cup {NULL}

(* A used header is before the m bytes at p. *)
Allocated(p, m) ==
  /\ p - HeaderSize \in Headers
  /\ header[p - HeaderSize] < 0 /\ m <= -header[p - HeaderSize]

LiveInv ==
  /\ \A p \in DOMAIN live : p \in Nat \ {NULL} /\ live[p] \in Nat /\ Allocated(p, live[p])
  /\ pc = "return" /\ ptr # NULL =>
       ptr \in Nat /\ ptr \notin DOMAIN live /\ Allocated(ptr, n)

(* The third search starts at the block that was granted, if one was, and *)
(* finds its first header large enough.                                   *)
ThirdInv ==
  pc = "walk" /\ attempt = 3 =>
    \/ block_root = NULL /\ block = NULL
    \/ /\ block_root # NULL /\ block = block_root
       /\ data = First(block) /\ header[data] >= n

SearchInv == CallInv /\ CursorOnHeader /\ ThirdInv /\ NullOnlyRefused

HInv ==
  /\ Tiles(bsize, header) /\ BlockInv /\ PoolInv
  /\ SearchInv /\ LiveInv /\ UsedIsLive

LEMMA InitHInv == Init => HInv
<1> SUFFICES ASSUME Init PROVE HInv
  OBVIOUS
<1>1. /\ DOMAIN next = {} /\ DOMAIN bsize = {} /\ DOMAIN header = {} /\ DOMAIN live = {}
      /\ block_root = NULL /\ block = NULL /\ pc = "idle" /\ ptr = NULL
      /\ free = Pool!BootPages /\ call = Pool!Idle
  BY DEF Init
<1>2. Tiles(bsize, header)
  BY <1>1 DEF Tiles
<1>3. BlockInv
  BY <1>1 DEF BlockInv, Blocks
<1>4. PoolInv
  BY <1>1 DEF PoolInv, Pool!BootPages, Pool!PagesIn
<1>5. SearchInv
  BY <1>1 DEF SearchInv, CallInv, CursorOnHeader, ThirdInv, NullOnlyRefused
<1>6. LiveInv /\ UsedIsLive
  BY <1>1 DEF LiveInv, UsedIsLive, Headers
<1> QED BY <1>2, <1>3, <1>4, <1>5, <1>6 DEF HInv

(* What a step keeps that leaves the blocks and headers alone. *)
LEMMA UnchangedHeap ==
  ASSUME HInv, UNCHANGED <<free, held, next, bsize, header>>,
         block_root' \in Blocks \cup {NULL}
  PROVE  Tiles(bsize, header)' /\ BlockInv' /\ (free \subseteq Pool!Pages)'
<1>1. Tiles(bsize, header)'
  BY DEF HInv
<1>2. BlockInv'
  BY DEF HInv, BlockInv, Backed, Blocks, Last
<1>3. (free \subseteq Pool!Pages)'
  BY DEF HInv, PoolInv, Pool!Pages
<1> QED BY <1>1, <1>2, <1>3

LEMMA RootFirst ==
  ASSUME HInv, NEW b \in Blocks
  PROVE  /\ b \in Nat /\ First(b) \in Headers /\ First(b) \in Nat
         /\ First(b) < Last(b) /\ Last(b) \in Nat
<1>1. b \in Nat /\ bsize[b] \in Nat \ {0} /\ b + BlockSize \in DOMAIN header
  BY DEF HInv, Tiles, Blocks
<1> QED BY <1>1, Constants DEF First, Last, Headers

LEMMA NextInBlock ==
  ASSUME HInv, NEW b \in Blocks, NEW h \in Headers, First(b) <= h, h < Last(b)
  PROVE  /\ After(h) \in Nat /\ h < After(h)
         /\ After(h) = Last(b) \/ (After(h) \in Headers /\ After(h) < Last(b))
<1>1. Ends(h, header) = After(h) /\ After(h) \in Nat /\ After(h) > h /\ h \in Nat
  BY EndsAfter DEF HInv, Ends, After, Headers, Tiles
<1>2. PICK c \in Blocks :
        /\ First(c) <= h
        /\ After(h) = Last(c) \/ (After(h) < Last(c) /\ After(h) \in Headers)
  BY <1>1 DEF HInv, Tiles, Blocks, Headers, First, Last
<1>3. b \in Nat /\ c \in Nat /\ Last(b) \in Nat /\ Last(c) \in Nat /\ First(b) > b /\ First(c) > c
  BY RootFirst, Constants DEF First
<1>4. ~(b < c) /\ ~(c < b)
  <2>1. b < c => Last(b) <= c
    BY DEF HInv, BlockInv
  <2>2. c < b => Last(c) <= b
    BY DEF HInv, BlockInv
  <2>3. First(b) \in Nat /\ First(c) \in Nat
    BY RootFirst
  <2> QED BY <1>1, <1>2, <1>3, <2>1, <2>2, <2>3
<1>5. b = c
  BY <1>3, <1>4
<1> QED BY <1>1, <1>2, <1>5

-----------------------------------------------------------------------------
LEMMA Requested ==
  ASSUME HInv, pc # "idle"
  PROVE  n \in Nat \ {0}
<1>1. n \in Sizes
  BY DEF HInv, SearchInv, CallInv
<1> QED BY <1>1, Constants

(* Steps that look for a header. *)

LEMMA AtHeaderCursor ==
  ASSUME HInv, AtHeader
  PROVE  block \in Blocks /\ data \in Headers /\ First(block) <= data /\ data < Last(block)
<1>1. pc = "walk" /\ block # NULL /\ data - First(block) < bsize[block]
  BY DEF AtHeader
<1>2. block \in Blocks
  BY <1>1 DEF HInv, SearchInv, CallInv
<1>3. data = Last(block) \/ (data \in Headers /\ First(block) <= data /\ data < Last(block))
  BY <1>1 DEF HInv, SearchInv, CursorOnHeader
<1>4. bsize[block] \in Nat /\ block \in Nat
  BY <1>2 DEF HInv, Tiles, Blocks
<1>5. data # Last(block)
  BY <1>1, <1>4, Constants DEF First, Last
<1> QED BY <1>2, <1>3, <1>5

LEMMA NextHeaderHInv ==
  ASSUME HInv, NextHeader
  PROVE  HInv'
<1>1. /\ pc = "walk" /\ block # NULL /\ ~Fits /\ data' = After(data)
      /\ UNCHANGED <<poolVars, heapVars, pc, n, old, attempt, block, ptr, live>>
  BY DEF NextHeader, AtHeader
<1>2. Tiles(bsize, header)' /\ BlockInv' /\ (free \subseteq Pool!Pages)'
  BY <1>1, UnchangedHeap DEF poolVars, heapVars, HInv, BlockInv
<1>3. PoolInv'
  BY <1>1, <1>2 DEF HInv, PoolInv, poolVars, PagesFor, NewSize, Pool!Idle
<1>4. block \in Blocks
  BY AtHeaderCursor DEF NextHeader
<1>5. data \in Headers /\ First(block) <= data /\ data < Last(block)
  BY AtHeaderCursor DEF NextHeader
<1>6. CursorOnHeader'
  <2>1. /\ data' \in Nat /\ data < data'
        /\ data' = Last(block) \/ (data' \in Headers /\ data' < Last(block))
    BY <1>1, <1>4, <1>5, NextInBlock
  <2>2. First(block) \in Nat /\ data \in Nat
    BY <1>4, <1>5, RootFirst DEF HInv, Tiles, Headers
  <2>3. data' = Last(block)
        \/ (data' \in Headers /\ First(block) <= data' /\ data' < Last(block))
    BY <1>5, <2>1, <2>2
  <2> QED BY <1>1, <2>3 DEF CursorOnHeader, Last, First, Headers, heapVars
<1>7. CallInv' /\ NullOnlyRefused'
  BY <1>1 DEF HInv, SearchInv, CallInv, NullOnlyRefused, heapVars, Blocks
(* The third search does not get past the first header. *)
<1>8. ThirdInv'
  BY <1>1 DEF HInv, SearchInv, ThirdInv, Fits
<1>9. LiveInv' /\ UsedIsLive'
  BY <1>1 DEF HInv, LiveInv, Allocated, UsedIsLive, Headers, heapVars
<1> QED BY <1>2, <1>3, <1>6, <1>7, <1>8, <1>9 DEF HInv, SearchInv

(* A search that starts at the first block. *)
LEMMA SearchCursor ==
  ASSUME HInv, NEW root \in Blocks \cup {NULL}, Search(root),
         UNCHANGED <<bsize, header>>
  PROVE  CursorOnHeader' /\ block' \in Blocks \cup {NULL}
<1>1. block' = root /\ data' = First(root) /\ bsize' = bsize /\ header' = header
  BY DEF Search
<1>2. CASE root = NULL
  BY <1>1, <1>2 DEF CursorOnHeader
<1>3. CASE root \in Blocks
  <2>1. First(root) \in Headers /\ First(root) \in Nat /\ First(root) < Last(root)
    BY <1>3, RootFirst
  <2>2. First(root) <= First(root)
    BY <2>1
  <2> QED BY <1>1, <2>1, <2>2 DEF CursorOnHeader, Last, First, Headers
<1> QED BY <1>1, <1>2, <1>3

LEMMA NextBlockHInv ==
  ASSUME HInv, NextBlock
  PROVE  HInv'
<1>1. /\ pc = "walk" /\ block # NULL /\ block' = next[block] /\ data' = First(next[block])
      /\ data - First(block) >= bsize[block]
      /\ UNCHANGED <<poolVars, heapVars, pc, n, old, attempt, ptr, live>>
  BY DEF NextBlock
<1>2. Tiles(bsize, header)' /\ BlockInv' /\ (free \subseteq Pool!Pages)'
  BY <1>1, UnchangedHeap DEF poolVars, heapVars, HInv, BlockInv
<1>3. PoolInv'
  BY <1>1, <1>2 DEF HInv, PoolInv, poolVars, PagesFor, NewSize, Pool!Idle
<1>4. block \in Blocks /\ next[block] \in Blocks \cup {NULL}
  BY <1>1 DEF HInv, SearchInv, CallInv, BlockInv
<1>5. CursorOnHeader' /\ block' \in Blocks \cup {NULL}
  BY <1>1, <1>4, SearchCursor DEF Search, heapVars
<1>6. CallInv' /\ NullOnlyRefused'
  BY <1>1, <1>5 DEF HInv, SearchInv, CallInv, NullOnlyRefused, heapVars, Blocks
<1>7. ThirdInv'
  <2> SUFFICES ASSUME attempt = 3 PROVE FALSE
    BY <1>1 DEF ThirdInv
  <2>1. data = First(block)
    BY <1>1 DEF HInv, SearchInv, ThirdInv
  <2>2. First(block) \in Nat /\ bsize[block] \in Nat \ {0}
    BY <1>4, RootFirst DEF HInv, Tiles, Blocks
  <2> QED BY <1>1, <2>1, <2>2
<1>8. LiveInv' /\ UsedIsLive'
  BY <1>1 DEF HInv, LiveInv, Allocated, UsedIsLive, Headers, heapVars
<1> QED BY <1>2, <1>3, <1>5, <1>6, <1>7, <1>8 DEF HInv, SearchInv

LEMMA TidyHInv ==
  ASSUME HInv, Tidy
  PROVE  HInv'
<1>1. /\ pc = "walk" /\ pc' = "walk" /\ attempt' = 2 /\ Search(block_root)
      /\ UNCHANGED <<poolVars, heapVars, n, old, ptr, live>>
  BY DEF Tidy, Missed, Search
<1>2. Tiles(bsize, header)' /\ BlockInv' /\ (free \subseteq Pool!Pages)'
  BY <1>1, UnchangedHeap DEF poolVars, heapVars, HInv, BlockInv
<1>3. PoolInv'
  BY <1>1, <1>2 DEF HInv, PoolInv, poolVars, PagesFor, NewSize, Pool!Idle
<1>4. CursorOnHeader' /\ block' \in Blocks \cup {NULL}
  BY <1>1, SearchCursor DEF heapVars, HInv, BlockInv
<1>5. CallInv' /\ NullOnlyRefused' /\ ThirdInv'
  BY <1>1, <1>4 DEF HInv, SearchInv, CallInv, NullOnlyRefused, ThirdInv, heapVars, Blocks
<1>6. LiveInv' /\ UsedIsLive'
  BY <1>1 DEF HInv, LiveInv, Allocated, UsedIsLive, Headers, heapVars
<1> QED BY <1>2, <1>3, <1>4, <1>5, <1>6 DEF HInv, SearchInv

LEMMA AskPagesHInv ==
  ASSUME HInv, AskPages
  PROVE  HInv'
<1>1. /\ pc = "walk" /\ pc' = "page" /\ call' = PagesFor(NewSize)
      /\ UNCHANGED <<free, held, reply, heapVars, callVars, live>>
  BY DEF AskPages, Missed, Pool!Request
<1>2. Tiles(bsize, header)' /\ BlockInv' /\ (free \subseteq Pool!Pages)'
  BY <1>1, UnchangedHeap DEF heapVars, HInv, BlockInv
<1>3. PoolInv'
  BY <1>1, <1>2 DEF PoolInv, PagesFor, NewSize, callVars
<1>4. SearchInv'
  BY <1>1 DEF HInv, SearchInv, CallInv, CursorOnHeader, NullOnlyRefused, ThirdInv,
              heapVars, callVars, Blocks
<1>5. LiveInv' /\ UsedIsLive'
  BY <1>1 DEF HInv, LiveInv, Allocated, UsedIsLive, Headers, heapVars
<1> QED BY <1>2, <1>3, <1>4, <1>5 DEF HInv

LEMMA PagesRefusedHInv ==
  ASSUME HInv, PagesRefused
  PROVE  HInv'
<1>1. /\ pc = "page" /\ pc' = "walk" /\ call' = Pool!Idle
      /\ block_root' = NULL /\ block' = NULL /\ attempt' = 3
      /\ UNCHANGED <<free, held, next, bsize, header, n, old, ptr, live>>
  BY DEF PagesRefused, Search, Pool!Refuse
<1>2. Tiles(bsize, header)' /\ BlockInv' /\ (free \subseteq Pool!Pages)'
  BY <1>1, UnchangedHeap
<1>3. PoolInv'
  BY <1>1, <1>2 DEF PoolInv, Pool!Idle
<1>4. SearchInv'
  BY <1>1 DEF HInv, SearchInv, CallInv, CursorOnHeader, NullOnlyRefused, ThirdInv
<1>5. LiveInv' /\ UsedIsLive'
  BY <1>1 DEF HInv, LiveInv, Allocated, UsedIsLive, Headers
<1> QED BY <1>2, <1>3, <1>4, <1>5 DEF HInv

(* NULL is returned when the third search has found nothing, which it does *)
(* only where no block has been granted.                                   *)
LEMMA GiveUpHInv ==
  ASSUME HInv, GiveUp
  PROVE  HInv'
<1>1. /\ pc = "walk" /\ pc' = "return" /\ block = NULL /\ attempt = 3 /\ ptr' = NULL
      /\ UNCHANGED <<poolVars, heapVars, n, old, attempt, block, data, live>>
  BY DEF GiveUp, Missed
<1>2. Tiles(bsize, header)' /\ BlockInv' /\ (free \subseteq Pool!Pages)'
  BY <1>1, UnchangedHeap DEF poolVars, heapVars, HInv, BlockInv
<1>3. PoolInv'
  BY <1>1, <1>2 DEF HInv, PoolInv, poolVars, Pool!Idle
<1>4. SearchInv'
  BY <1>1 DEF HInv, SearchInv, CallInv, CursorOnHeader, NullOnlyRefused, ThirdInv, heapVars,
              Blocks
<1>5. LiveInv' /\ UsedIsLive'
  BY <1>1 DEF HInv, LiveInv, Allocated, UsedIsLive, Headers, heapVars
<1> QED BY <1>2, <1>3, <1>4, <1>5 DEF HInv

LEMMA CallMallocHInv ==
  ASSUME HInv, NEW m \in Sizes, NEW p \in DOMAIN live \cup {NULL}, CallMalloc(m, p)
  PROVE  HInv'
<1>1. /\ pc = "idle" /\ pc' = "walk" /\ n' = m /\ old' = p /\ attempt' = 1
      /\ Search(block_root)
      /\ UNCHANGED <<poolVars, heapVars, ptr, live>>
  BY DEF CallMalloc, Search
<1>2. Tiles(bsize, header)' /\ BlockInv' /\ (free \subseteq Pool!Pages)'
  BY <1>1, UnchangedHeap DEF poolVars, heapVars, HInv, BlockInv
<1>3. PoolInv'
  BY <1>1, <1>2 DEF HInv, PoolInv, poolVars, Pool!Idle
<1>4. CursorOnHeader' /\ block' \in Blocks \cup {NULL}
  BY <1>1, SearchCursor DEF heapVars, HInv, BlockInv
<1>5. CallInv' /\ NullOnlyRefused' /\ ThirdInv'
  BY <1>1, <1>4 DEF CallInv, NullOnlyRefused, ThirdInv, heapVars, Blocks
<1>6. LiveInv' /\ UsedIsLive'
  BY <1>1 DEF HInv, LiveInv, Allocated, UsedIsLive, Headers, heapVars
<1> QED BY <1>2, <1>3, <1>4, <1>5, <1>6 DEF HInv, SearchInv

-----------------------------------------------------------------------------
(* Steps that take the header found. *)

LEMMA TakeHInv ==
  ASSUME HInv, AtHeader, Fits, Take(n), NEW hd, header' = hd,
         Tiles(bsize, hd), Headers \subseteq DOMAIN hd,
         hd[data] < 0, n <= -hd[data],
         \A h \in Headers : h # data => hd[h] = header[h],
         \A h \in DOMAIN hd \ Headers : ~(hd[h] < 0)
  PROVE  HInv'
<1>1. /\ pc = "walk" /\ pc' = "return" /\ ptr' = data + HeaderSize
      /\ UNCHANGED <<poolVars, block_root, next, bsize, n, old, attempt, block, data, live>>
  BY DEF AtHeader, Take
<1>2. /\ data \in Headers /\ data \in Nat /\ header[data] \in Int
      /\ header[data] >= n /\ n \in Nat \ {0}
  BY <1>1, AtHeaderCursor, Requested DEF HInv, Tiles, Headers, Fits
<1>3. ~(header[data] < 0)
  BY <1>2
<1>4. Tiles(bsize, header)'
  BY <1>1
<1>5. BlockInv'
  BY <1>1 DEF HInv, BlockInv, Backed, Blocks, Last, poolVars
<1>6. PoolInv'
  BY <1>1 DEF HInv, PoolInv, poolVars, Pool!Pages, Pool!Idle
<1> DEFINE p == data + HeaderSize
<1>7. p \in Nat \ {NULL} /\ p - HeaderSize = data /\ p = data + HeaderSize
  BY <1>2, Constants DEF NULL
<1>8. SearchInv'
  BY <1>1, <1>7 DEF HInv, SearchInv, CallInv, CursorOnHeader, ThirdInv, NullOnlyRefused, Blocks
<1>9. ASSUME NEW q \in DOMAIN live
      PROVE  q - HeaderSize \in Headers /\ q - HeaderSize # data /\ q # p
  <2>1. q - HeaderSize \in Headers /\ header[q - HeaderSize] < 0
    BY DEF HInv, LiveInv, Allocated
  <2> QED BY <1>3, <1>7, <2>1
<1> HIDE DEF p
<1>10. LiveInv'
  <2>1. ASSUME NEW q \in DOMAIN live
        PROVE  q \in Nat \ {NULL} /\ live[q] \in Nat /\ Allocated(q, live[q])'
    <3>1. q \in Nat \ {NULL} /\ live[q] \in Nat /\ Allocated(q, live[q])
      BY DEF HInv, LiveInv
    <3>2. hd[q - HeaderSize] = header[q - HeaderSize] /\ q - HeaderSize \in DOMAIN hd
      BY <1>9
    <3> QED BY <1>1, <3>1, <3>2 DEF Allocated, Headers
  <2>2. p - HeaderSize \in DOMAIN hd /\ hd[p - HeaderSize] < 0 /\ n <= -hd[p - HeaderSize]
    BY <1>2, <1>7
  <2>3. ptr' = p
    BY <1>1 DEF p
  <2>4. Allocated(ptr, n)'
    BY <1>1, <2>2, <2>3 DEF Allocated, Headers
  <2> QED BY <1>1, <1>7, <1>9, <2>1, <2>3, <2>4 DEF LiveInv
<1>11. UsedIsLive'
  <2>1. {g \in DOMAIN hd : hd[g] < 0} = {g \in Headers : header[g] < 0} \cup {data}
    BY <1>2
  <2>2. {h + HeaderSize : h \in {g \in Headers : header[g] < 0}} = DOMAIN live
    BY <1>1 DEF HInv, UsedIsLive
  <2>3. {h + HeaderSize : h \in {g \in DOMAIN hd : hd[g] < 0}} = DOMAIN live \cup {p}
    BY <2>1, <2>2, <1>7
  <2>4. ptr' = p /\ {p} \ {NULL} = {p}
    BY <1>1, <1>7
  <2> QED BY <1>1, <2>3, <2>4 DEF UsedIsLive, Headers
<1> QED BY <1>4, <1>5, <1>6, <1>8, <1>10, <1>11 DEF HInv

LEMMA TakeWholeHInv ==
  ASSUME HInv, TakeWhole
  PROVE  HInv'
<1>1. AtHeader /\ Fits /\ Take(n) /\ header' = [header EXCEPT ![data] = -@]
  BY DEF TakeWhole
<1> DEFINE hd == [header EXCEPT ![data] = -@]
<1>2. /\ data \in Headers /\ header[data] \in Int /\ header[data] >= n /\ n \in Nat \ {0}
      /\ \A h \in Headers : header[h] \in Int
  BY <1>1, AtHeaderCursor, Requested DEF HInv, Tiles, Headers, Fits, AtHeader
<1>3. DOMAIN hd = Headers /\ hd[data] = -header[data]
      /\ \A h \in Headers : h # data => hd[h] = header[h]
  BY <1>2 DEF Headers
<1>4. hd[data] < 0 /\ n <= -hd[data] /\ hd[data] \in Int
  BY <1>2, <1>3
<1> HIDE DEF hd
<1>5. Abs(hd[data]) = Abs(header[data])
  BY <1>2, <1>3, AbsNat
<1>6. Tiles(bsize, hd)
  BY <1>2, <1>3, <1>4, <1>5, SameTiles DEF HInv, Headers
<1>7. header' = hd
  BY <1>1 DEF hd
<1> QED BY <1>1, <1>3, <1>4, <1>6, <1>7, TakeHInv

LEMMA SplitHInv ==
  ASSUME HInv, Split
  PROVE  HInv'
<1> DEFINE e == data + HeaderSize + n
           rest == header[data] - HeaderSize - n
           hd == [With(header, e, rest) EXCEPT ![data] = -n]
<1>1. AtHeader /\ Fits /\ Take(n) /\ header[data] > n + HeaderSize /\ header' = hd
  BY DEF Split
<1>2. /\ data \in Headers /\ data \in Nat /\ header[data] \in Int /\ n \in Nat \ {0}
      /\ \A h \in Headers : header[h] \in Int
  BY <1>1, AtHeaderCursor, Requested DEF HInv, Tiles, Headers, AtHeader
<1>3. e = data + HeaderSize + n /\ e # data /\ rest = header[data] - HeaderSize - n
      /\ rest \in Int /\ ~(rest < 0)
  BY <1>1, <1>2, Constants
<1> HIDE DEF e, rest
<1>4. /\ DOMAIN hd = Headers \cup {e} /\ hd[data] = -n /\ hd[e] = rest
      /\ \A h \in Headers : h # data /\ h # e => hd[h] = header[h]
  BY <1>2, <1>3 DEF With, Headers
<1> HIDE DEF hd
<1>5. e \notin Headers
  <2>1. /\ e \in Nat /\ data < e /\ e < Ends(data, header)
    BY <1>1, <1>2, <1>3, Constants, AbsNat DEF Ends
  <2> QED BY <1>2, <2>1, EndsAfter DEF HInv, Tiles, Headers
<1>6. Tiles(bsize, hd)
  <2>1. Tiles(bsize, header)
    BY DEF HInv
  <2>2. \A h \in DOMAIN header : h # data => hd[h] = header[h]
    BY <1>4, <1>5 DEF Headers
  <2> QED BY <1>1, <1>2, <1>3, <1>4, <2>1, <2>2, SplitTiles DEF Headers
<1>7. hd[data] < 0 /\ n <= -hd[data]
  BY <1>2, <1>4
<1>8. \A h \in DOMAIN hd \ Headers : ~(hd[h] < 0)
  BY <1>3, <1>4
<1> QED BY <1>1, <1>4, <1>5, <1>6, <1>7, <1>8, TakeHInv

-----------------------------------------------------------------------------
(* Steps that free an allocation. *)

LEMMA FreeHeader ==
  ASSUME HInv, NEW q \in DOMAIN live, NEW hd, hd = [header EXCEPT ![q - HeaderSize] = Abs(@)]
  PROVE  /\ DOMAIN hd = Headers /\ Tiles(bsize, hd)
         /\ q - HeaderSize \in Headers /\ ~(hd[q - HeaderSize] < 0)
         /\ \A h \in Headers : h # q - HeaderSize => hd[h] = header[h]
<1> DEFINE g == q - HeaderSize
<1>1. g \in Headers /\ \A h \in Headers : header[h] \in Int
  BY DEF HInv, LiveInv, Allocated, Tiles, Headers
<1> HIDE DEF g
<1>2. /\ DOMAIN hd = Headers /\ hd[g] = Abs(header[g])
      /\ \A h \in Headers : h # g => hd[h] = header[h]
  BY <1>1 DEF Headers, g
<1>3. hd[g] \in Int /\ ~(hd[g] < 0) /\ Abs(hd[g]) = Abs(header[g])
  BY <1>1, <1>2, AbsNat
<1>4. Tiles(bsize, hd)
  BY <1>1, <1>2, <1>3, SameTiles DEF HInv, Headers
<1> QED BY <1>1, <1>2, <1>3, <1>4 DEF g

(* The allocations other than a freed one are those that have used headers. *)
LEMMA FreeUsed ==
  ASSUME HInv, NEW q \in DOMAIN live, NEW hd, hd = [header EXCEPT ![q - HeaderSize] = Abs(@)]
  PROVE  {h + HeaderSize : h \in {g \in DOMAIN hd : hd[g] < 0}}
           = {h + HeaderSize : h \in {g \in Headers : header[g] < 0}} \ {q}
<1>1. {g \in DOMAIN hd : hd[g] < 0} = {g \in Headers : header[g] < 0} \ {q - HeaderSize}
  BY FreeHeader
<1>2. q \in Nat /\ \A h \in Headers : h \in Nat
  BY DEF HInv, LiveInv, Tiles, Headers
<1>3. \A h \in Headers : h + HeaderSize = q <=> h = q - HeaderSize
  BY <1>2, Constants
<1> QED BY <1>1, <1>3

LEMMA FreeHInv ==
  ASSUME HInv, NEW q \in DOMAIN live, Free(q)
  PROVE  HInv'
<1> DEFINE hd == [header EXCEPT ![q - HeaderSize] = Abs(@)]
<1>1. /\ pc = "idle" /\ header' = hd /\ live' = Without(live, q)
      /\ UNCHANGED <<poolVars, block_root, next, bsize, pc, callVars>>
  BY DEF Free
<1>2. /\ DOMAIN hd = Headers /\ Tiles(bsize, hd)
      /\ \A h \in Headers : h # q - HeaderSize => hd[h] = header[h]
  BY FreeHeader
<1>3. {h + HeaderSize : h \in {g \in DOMAIN hd : hd[g] < 0}}
        = {h + HeaderSize : h \in {g \in Headers : header[g] < 0}} \ {q}
  BY FreeUsed
<1> HIDE DEF hd
<1>4. DOMAIN live' = DOMAIN live \ {q} /\ \A p \in DOMAIN live' : live'[p] = live[p]
  BY <1>1 DEF Without
<1>5. Tiles(bsize, header)' /\ BlockInv' /\ PoolInv'
  BY <1>1, <1>2 DEF HInv, BlockInv, Backed, Blocks, Last, PoolInv, poolVars, Pool!Pages,
                    Pool!Idle
<1>6. SearchInv'
  BY <1>1 DEF HInv, SearchInv, CallInv, CursorOnHeader, ThirdInv, NullOnlyRefused, Blocks,
              callVars
<1>7. LiveInv'
  <2> SUFFICES ASSUME NEW p \in DOMAIN live, p # q
               PROVE  p \in Nat \ {NULL} /\ live[p] \in Nat /\ Allocated(p, live[p])'
    BY <1>1, <1>4 DEF LiveInv
  <2>1. /\ p \in Nat \ {NULL} /\ live[p] \in Nat /\ Allocated(p, live[p])
        /\ p \in Nat /\ q \in Nat
    BY DEF HInv, LiveInv
  <2>2. hd[p - HeaderSize] = header[p - HeaderSize] /\ p - HeaderSize \in DOMAIN hd
    BY <1>2, <2>1, Constants DEF Allocated
  <2>3. live'[p] = live[p]
    BY <1>4
  <2> QED BY <1>1, <2>1, <2>2, <2>3 DEF Allocated, Headers
<1>8. UsedIsLive'
  BY <1>1, <1>3, <1>4 DEF HInv, UsedIsLive, Headers
<1> QED BY <1>5, <1>6, <1>7, <1>8 DEF HInv

LEMMA GiveFunction ==
  ASSUME NEW f, NEW q
  PROVE  /\ DOMAIN Give(f) = DOMAIN f \cup ({ptr} \ {NULL})
         /\ \A p \in DOMAIN Give(f) : Give(f)[p] = IF p = ptr /\ p # NULL THEN n ELSE f[p]
BY DEF Give, With

LEMMA ReturnHInv ==
  ASSUME HInv, Return
  PROVE  HInv'
<1>1. /\ pc = "return" /\ pc' = "idle" /\ old' = NULL /\ block' = NULL /\ ptr' = NULL
      /\ live' = Give(live)
      /\ UNCHANGED <<poolVars, heapVars>>
  BY DEF Return, Idle
<1>2. Tiles(bsize, header)' /\ BlockInv' /\ (free \subseteq Pool!Pages)'
  BY <1>1, UnchangedHeap DEF poolVars, heapVars, HInv, BlockInv
<1>3. PoolInv'
  BY <1>1, <1>2 DEF HInv, PoolInv, poolVars, Pool!Idle
<1>4. SearchInv'
  BY <1>1 DEF SearchInv, CallInv, CursorOnHeader, ThirdInv, NullOnlyRefused
<1>5. /\ DOMAIN live' = DOMAIN live \cup ({ptr} \ {NULL})
      /\ \A p \in DOMAIN live' : live'[p] = IF p = ptr /\ p # NULL THEN n ELSE live[p]
  BY <1>1, GiveFunction
<1>6. LiveInv'
  <2> SUFFICES ASSUME NEW p \in DOMAIN live'
               PROVE  p \in Nat \ {NULL} /\ live'[p] \in Nat /\ Allocated(p, live[p])'
    BY <1>1 DEF LiveInv
  <2>1. CASE p = ptr /\ p # NULL
    <3>1. live'[p] = n /\ n \in Nat \ {0} /\ p \in Nat /\ Allocated(p, n)
      BY <1>1, <1>5, <2>1, Requested DEF HInv, LiveInv
    <3> QED BY <1>1, <2>1, <3>1 DEF Allocated, Headers, heapVars
  <2>2. CASE ~(p = ptr /\ p # NULL)
    <3>1. p \in DOMAIN live /\ live'[p] = live[p]
      BY <1>5, <2>2
    <3>2. p \in Nat \ {NULL} /\ live[p] \in Nat /\ Allocated(p, live[p])
      BY <3>1 DEF HInv, LiveInv
    <3> QED BY <1>1, <3>1, <3>2 DEF Allocated, Headers, heapVars
  <2> QED BY <2>1, <2>2
<1>7. UsedIsLive'
  BY <1>1, <1>5 DEF HInv, UsedIsLive, Headers, heapVars
<1> QED BY <1>2, <1>3, <1>4, <1>6, <1>7 DEF HInv

LEMMA CopyOverHInv ==
  ASSUME HInv, CopyOver
  PROVE  HInv'
<1> DEFINE hd == [header EXCEPT ![old - HeaderSize] = Abs(@)]
<1>1. /\ pc = "return" /\ pc' = "idle" /\ old # NULL /\ old' = NULL
      /\ block' = NULL /\ ptr' = NULL
      /\ header' = hd /\ live' = Give(Without(live, old))
      /\ UNCHANGED <<poolVars, block_root, next, bsize>>
  BY DEF CopyOver, Idle
<1>2. old \in DOMAIN live
  BY <1>1 DEF HInv, SearchInv, CallInv
<1>3. /\ DOMAIN hd = Headers /\ Tiles(bsize, hd)
      /\ \A h \in Headers : h # old - HeaderSize => hd[h] = header[h]
  BY <1>2, FreeHeader
<1>4. {h + HeaderSize : h \in {g \in DOMAIN hd : hd[g] < 0}}
        = {h + HeaderSize : h \in {g \in Headers : header[g] < 0}} \ {old}
  BY <1>2, FreeUsed
<1> HIDE DEF hd
<1>5. /\ DOMAIN live' = (DOMAIN live \ {old}) \cup ({ptr} \ {NULL})
      /\ \A p \in DOMAIN live' : live'[p] = IF p = ptr /\ p # NULL THEN n ELSE live[p]
  BY <1>1, GiveFunction DEF Without
<1>6. Tiles(bsize, header)' /\ BlockInv' /\ PoolInv'
  BY <1>1, <1>3 DEF HInv, BlockInv, Backed, Blocks, Last, PoolInv, poolVars, Pool!Pages,
                    Pool!Idle
<1>7. SearchInv'
  BY <1>1 DEF SearchInv, CallInv, CursorOnHeader, ThirdInv, NullOnlyRefused
<1>8. ptr # NULL => ptr # old
  BY <1>1, <1>2 DEF HInv, LiveInv
<1>9. ASSUME NEW p \in Nat, NEW m, Allocated(p, m), p # old
      PROVE  p - HeaderSize \in DOMAIN hd /\ hd[p - HeaderSize] < 0 /\ m <= -hd[p - HeaderSize]
  <2>1. old \in Nat
    BY <1>2 DEF HInv, LiveInv
  <2>2. p - HeaderSize # old - HeaderSize
    BY <1>9, <2>1, Constants
  <2> QED BY <1>3, <1>9, <2>2 DEF Allocated
<1>10. LiveInv'
  <2> SUFFICES ASSUME NEW p \in DOMAIN live'
               PROVE  p \in Nat \ {NULL} /\ live'[p] \in Nat /\ Allocated(p, live[p])'
    BY <1>1 DEF LiveInv
  <2>1. CASE p = ptr /\ p # NULL
    <3>1. live'[p] = n /\ n \in Nat \ {0} /\ p \in Nat /\ Allocated(p, n)
      BY <1>1, <1>5, <2>1, Requested DEF HInv, LiveInv
    <3> QED BY <1>1, <1>8, <1>9, <2>1, <3>1 DEF Allocated, Headers
  <2>2. CASE ~(p = ptr /\ p # NULL)
    <3>1. p \in DOMAIN live /\ p # old /\ live'[p] = live[p]
      BY <1>5, <2>2
    <3>2. p \in Nat \ {NULL} /\ live[p] \in Nat /\ Allocated(p, live[p])
      BY <3>1 DEF HInv, LiveInv
    <3> QED BY <1>1, <1>9, <3>1, <3>2 DEF Allocated, Headers
  <2> QED BY <2>1, <2>2
<1>11. UsedIsLive'
  BY <1>1, <1>4, <1>5, <1>8 DEF HInv, UsedIsLive, Headers
<1> QED BY <1>6, <1>7, <1>10, <1>11 DEF HInv

-----------------------------------------------------------------------------
(* A block that is granted lies apart from all others: its pages were free. *)
LEMMA GrantedApart ==
  ASSUME HInv, NEW f \in Nat, NEW c \in Nat \ {0},
         \A p \in Nat : f <= p /\ p < f + c => p \in free,
         NEW b \in Blocks
  PROVE  Last(b) <= f * PageSize \/ f * PageSize + c * PageSize <= b
<1>1. PICK k \in held :
        /\ k[1] \in Nat /\ k[2] \in Nat \ {0}
        /\ b = k[1] * PageSize /\ Last(b) = b + k[2] * PageSize
        /\ \A p \in free : ~(k[1] <= p /\ p < k[1] + k[2])
  BY DEF HInv, BlockInv, Backed
<1> DEFINE g == k[1]
           d == k[2]
<1>2. /\ g \in Nat /\ d \in Nat \ {0} /\ b = g * PageSize /\ Last(b) = b + d * PageSize
      /\ \A p \in free : ~(g <= p /\ p < g + d)
  BY <1>1
<1> HIDE DEF g, d
<1>3. g + d <= f \/ f + c <= g
  <2>1. CASE g <= f
    <3>1. f \in free
      BY f < f + c
    <3>2. ~(f < g + d)
      BY <1>2, <2>1, <3>1
    <3> QED BY <1>2, <3>2
  <2>2. CASE f < g
    <3>1. CASE g < f + c
      <4>1. g \in free
        BY <1>2, <2>2, <3>1
      <4>2. g <= g /\ g < g + d
        BY <1>2
      <4> QED BY <1>2, <4>1, <4>2
    <3> QED BY <1>2, <3>1
  <2> QED BY <1>2, <2>1, <2>2
<1>4. CASE g + d <= f
  <2>1. g * PageSize + d * PageSize <= f * PageSize
    BY <1>2, <1>4, RunsApart
  <2> QED BY <1>2, <2>1
<1>5. CASE f + c <= g
  <2>1. f * PageSize + c * PageSize <= g * PageSize
    BY <1>2, <1>5, RunsApart
  <2> QED BY <1>2, <2>1
<1> QED BY <1>3, <1>4, <1>5

LEMMA GrantedRun ==
  ASSUME HInv, pc = "page", NEW f \in Pool!Runs(free, call)
  PROVE  /\ f \in Nat /\ call \in Nat \ {0} /\ f * PageSize \in Nat
         /\ call * PageSize \in Nat
         /\ call * PageSize >= n + BlockSize + HeaderSize
         /\ \A p \in Nat : f <= p /\ p < f + call => p \in free
<1>1. call = PagesFor(NewSize) /\ n \in Nat \ {0}
  BY Requested DEF HInv, PoolInv
<1>2. NewSize \in Nat /\ NewSize >= n
  BY <1>1, NewSizeEnough
<1> DEFINE c == call
           size == NewSize
<1>3. c = PagesFor(size) /\ size \in Nat /\ size >= n
  BY <1>1, <1>2
<1> HIDE DEF c, size
<1>4. c \in Nat \ {0} /\ c * PageSize \in Nat /\ c * PageSize >= size + BlockSize + HeaderSize
  BY <1>3, PagesEnough
<1> DEFINE bytes == c * PageSize
<1>5. bytes \in Nat /\ bytes >= size + BlockSize + HeaderSize
  BY <1>4
<1> HIDE DEF bytes
<1>6. bytes >= n + BlockSize + HeaderSize
  BY <1>1, <1>3, <1>5, Constants
<1>7. f \in 0 .. PageCount - c /\ Pool!PagesIn(f, f + c) \subseteq free
  BY DEF Pool!Runs, c
<1>8. f \in Nat /\ f + c <= PageCount
  BY <1>4, <1>7, Constants
<1>9. ASSUME NEW p \in Nat, f <= p, p < f + c
      PROVE  p \in free
  <2>1. p \in 0 .. PageCount - 1
    BY <1>4, <1>8, <1>9, Constants
  <2> QED BY <1>7, <1>9, <2>1 DEF Pool!PagesIn, Pool!Pages
<1>10. f * PageSize \in Nat
  BY <1>8, Constants
<1> QED BY <1>4, <1>6, <1>8, <1>9, <1>10 DEF c, bytes

LEMMA PagesGrantedHInv ==
  ASSUME HInv, PagesGranted
  PROVE  HInv'
<1>1. /\ pc = "page" /\ pc' = "walk" /\ attempt' = 3 /\ call' = Pool!Idle
      /\ UNCHANGED <<n, old, ptr, live>>
  BY DEF PagesGranted, Search, Pool!Grant
<1>2. PICK f \in Pool!Runs(free, call) :
        /\ free' = free \ Pool!PagesIn(f, f + call)
        /\ held' = held \cup {<<f, call>>}
        /\ reply' = f
  BY DEF PagesGranted, Pool!Grant
<1> DEFINE c == call
           b == f * PageSize
           bytes == c * PageSize
           s == bytes - BlockSize
           bs == With(bsize, b, s)
           hd == With(header, b + BlockSize, s - HeaderSize)
<1>3. /\ block_root' = b /\ next' = With(next, b, block_root)
      /\ bsize' = bs /\ header' = With(header, First(b), bytes - BlockSize - HeaderSize)
      /\ block' = b /\ data' = First(b)
  BY <1>2 DEF PagesGranted, Search
<1>4. /\ f \in Nat /\ c \in Nat \ {0} /\ b \in Nat /\ bytes \in Nat
      /\ bytes >= n + BlockSize + HeaderSize
      /\ \A p \in Nat : f <= p /\ p < f + c => p \in free
  BY <1>1, GrantedRun
<1>5. \A d \in Blocks : Last(d) <= b \/ b + bytes <= d
  BY <1>4, GrantedApart
<1>6. b = f * PageSize /\ bytes = c * PageSize
  OBVIOUS
<1> HIDE DEF c, b, bytes
<1>7. /\ s \in Nat /\ s > HeaderSize /\ bytes = BlockSize + s /\ n \in Nat \ {0}
      /\ s - HeaderSize >= n /\ s - HeaderSize \in Nat /\ s = bytes - BlockSize
  BY <1>1, <1>4, Requested, Constants
<1>8. header' = hd
  BY <1>3 DEF First
<1> HIDE DEF s
<1>9. \A d \in DOMAIN bsize : d + BlockSize + bsize[d] <= b \/ b + BlockSize + s <= d
  <2> SUFFICES ASSUME NEW d \in Blocks
               PROVE  d + BlockSize + bsize[d] <= b \/ b + BlockSize + s <= d
    BY DEF Blocks
  <2>1. Last(d) = d + BlockSize + bsize[d] /\ b + bytes = b + BlockSize + s
    BY <1>4, <1>7, Constants DEF Last
  <2> QED BY <1>5, <2>1
<1>10. Tiles(bs, hd)
  BY <1>4, <1>7, <1>9, BlockTiles DEF HInv
<1>11. b \notin Blocks
  <2> SUFFICES ASSUME b \in Blocks PROVE FALSE
    OBVIOUS
  <2>1. b + BlockSize + bsize[b] <= b \/ b + BlockSize + s <= b
    BY <1>9 DEF Blocks
  <2>2. bsize[b] \in Nat
    BY DEF HInv, Tiles, Blocks
  <2> QED BY <1>4, <1>7, <2>1, <2>2, Constants
<1>12. DOMAIN bs = Blocks \cup {b} /\ bs[b] = s /\ \A d \in Blocks : bs[d] = bsize[d]
  BY <1>11 DEF With, Blocks
<1>13. First(b) \notin Headers
  <2>1. Tiles(bsize, header)
    BY DEF HInv
  <2> SUFFICES ASSUME First(b) \in Headers PROVE FALSE
    OBVIOUS
  <2>2. PICK d \in Blocks : First(d) <= First(b) /\ Ends(First(b), header) <= Last(d)
    <3>1. \A d \in Blocks : Last(d) \in Nat
      BY RootFirst
    <3> QED BY <2>1, <3>1, EndsAfter DEF Tiles, Headers, Blocks, First, Last
  <2>3. Ends(First(b), header) > First(b) /\ Ends(First(b), header) \in Nat
    BY <2>1, EndsAfter DEF Headers
  <2>4. d \in Nat /\ Last(d) \in Nat
    BY RootFirst
  <2>5. Last(d) <= b \/ b + bytes <= d
    BY <1>5
  <2> QED BY <1>4, <1>7, <2>2, <2>3, <2>4, <2>5, Constants DEF First
<1>14. /\ DOMAIN hd = Headers \cup {First(b)} /\ hd[First(b)] = s - HeaderSize
       /\ \A h \in Headers : hd[h] = header[h]
  BY <1>13 DEF With, Headers, First
<1>15. /\ DOMAIN next' = Blocks \cup {b} /\ next'[b] = block_root
       /\ \A d \in Blocks : next'[d] = next[d]
  BY <1>3, <1>11 DEF With, HInv, BlockInv
<1> HIDE DEF bs, hd
<1>16. Blocks' = Blocks \cup {b} /\ Headers' = Headers \cup {First(b)}
  BY <1>3, <1>8, <1>12, <1>14 DEF Blocks, Headers
<1>17. /\ \A d \in Blocks : bsize'[d] = bsize[d] /\ header' = hd
       /\ bsize'[b] = s
  BY <1>3, <1>8, <1>12
<1>18. Tiles(bsize, header)'
  BY <1>3, <1>8, <1>10
<1>19. PoolInv'
  BY <1>1, <1>2 DEF HInv, PoolInv, Pool!Pages, Pool!Idle
<1> DEFINE end == b + bytes
<1>20. (\A d \in Blocks : bsize'[d] = bsize[d]) /\ b + BlockSize + bsize'[b] = end /\ end \in Nat
  <2>1. b + BlockSize + s = end /\ end \in Nat
    BY <1>4, <1>7, Constants
  <2> QED BY <1>17, <2>1
<1> DEFINE NewLast(d) == d + BlockSize + bsize'[d]
<1>21. NewLast(b) = end /\ \A d \in Blocks : NewLast(d) = Last(d)
  BY <1>20 DEF Last
<1>22. ASSUME NEW d \in Blocks \cup {b}
       PROVE  \E k \in held' :
                /\ k[1] \in Nat /\ k[2] \in Nat \ {0}
                /\ d = k[1] * PageSize /\ NewLast(d) = d + k[2] * PageSize
                /\ \A p \in free' : ~(k[1] <= p /\ p < k[1] + k[2])
  <2>1. CASE d = b
    <3> DEFINE k == <<f, c>>
    <3>1. k \in held' /\ k[1] = f /\ k[2] = c
      BY <1>2 DEF c
    <3>2. \A p \in free' : ~(f <= p /\ p < f + c)
      BY <1>2 DEF Pool!PagesIn, HInv, PoolInv, c
    <3>3. d = f * PageSize /\ NewLast(d) = d + c * PageSize
      BY <1>6, <1>21, <2>1
    <3> HIDE DEF k
    <3> QED BY <1>4, <3>1, <3>2, <3>3
  <2>2. CASE d \in Blocks
    <3>1. Backed(d) /\ NewLast(d) = Last(d)
      BY <1>21, <2>2 DEF HInv, BlockInv
    <3>2. held \subseteq held' /\ free' \subseteq free
      BY <1>2
    <3> HIDE DEF NewLast
    <3> QED BY <3>1, <3>2 DEF Backed
  <2> QED BY <2>1, <2>2
<1>23. ASSUME NEW d \in Blocks \cup {b}, NEW e \in Blocks \cup {b}, d < e
       PROVE  NewLast(d) <= e
  <2> HIDE DEF NewLast
  <2>1. \A g \in Blocks : g \in Nat /\ Last(g) \in Nat /\ g < Last(g)
    BY RootFirst, Constants DEF First
  <2>2. CASE d \in Blocks /\ e \in Blocks
    BY <1>21, <1>23, <2>2 DEF HInv, BlockInv
  <2>3. CASE d = b /\ e \in Blocks
    <3>1. Last(e) <= b \/ end <= e
      BY <1>5, <2>3
    <3> QED BY <1>4, <1>20, <1>21, <1>23, <2>1, <2>3, <3>1
  <2>4. CASE d \in Blocks /\ e = b
    <3>1. Last(d) <= b \/ end <= d
      BY <1>5, <2>4
    <3>2. b <= end
      BY <1>4
    <3> QED BY <1>4, <1>20, <1>21, <1>23, <2>1, <2>4, <3>1, <3>2
  <2>5. CASE d = b /\ e = b
    BY <1>4, <1>23, <2>5
  <2> QED BY <2>2, <2>3, <2>4, <2>5
<1>24. BlockInv'
  <2>1. \A d \in Blocks' : Backed(d)'
    BY <1>16, <1>22 DEF Backed, Last
  <2>2. \A d, e \in Blocks' : d < e => Last(d)' <= e
    BY <1>16, <1>23 DEF Last
  <2>3. /\ DOMAIN next' = Blocks'
        /\ \A d \in Blocks' : next'[d] \in Blocks' \cup {NULL}
        /\ block_root' \in Blocks' \cup {NULL}
    BY <1>3, <1>15, <1>16 DEF HInv, BlockInv
  <2> QED BY <2>1, <2>2, <2>3 DEF BlockInv
<1>25. First(b) < end /\ First(b) <= First(b)
  BY <1>4, <1>7, Constants DEF First
<1>26. CursorOnHeader'
  <2>1. data' \in Headers' /\ First(b) <= data' /\ data' < end
    BY <1>3, <1>16, <1>25
  <2>2. Last(block)' = end /\ First(block)' = First(b)
    BY <1>3, <1>21 DEF Last, First
  <2> QED BY <2>1, <2>2 DEF CursorOnHeader
<1>27. CallInv' /\ NullOnlyRefused'
  BY <1>1, <1>3, <1>16 DEF HInv, SearchInv, CallInv, NullOnlyRefused
<1>28. ThirdInv'
  <2>1. hd[First(b)] >= n
    BY <1>7, <1>14
  <2>2. header'[data'] >= n'
    BY <1>1, <1>3, <1>8, <2>1
  <2>3. data' = First(block)' /\ block' = block_root'
    BY <1>3 DEF First
  <2> QED BY <2>2, <2>3 DEF ThirdInv, NULL
<1>29. LiveInv'
  <2> SUFFICES ASSUME NEW p \in DOMAIN live
               PROVE  p \in Nat \ {NULL} /\ live[p] \in Nat /\ Allocated(p, live[p])'
    BY <1>1 DEF LiveInv
  <2>1. p \in Nat \ {NULL} /\ live[p] \in Nat /\ Allocated(p, live[p])
    BY DEF HInv, LiveInv
  <2>2. hd[p - HeaderSize] = header[p - HeaderSize] /\ p - HeaderSize \in DOMAIN hd
    BY <1>14, <2>1 DEF Allocated
  <2> QED BY <1>1, <1>8, <2>1, <2>2 DEF Allocated, Headers
<1>30. UsedIsLive'
  <2>1. ~(hd[First(b)] < 0)
    BY <1>7, <1>14
  <2>2. {g \in DOMAIN hd : hd[g] < 0} = {g \in Headers : header[g] < 0}
    BY <1>14, <2>1
  <2> QED BY <1>1, <1>8, <2>2 DEF HInv, UsedIsLive, Headers
<1> QED BY <1>18, <1>19, <1>24, <1>26, <1>27, <1>28, <1>29, <1>30 DEF HInv, SearchInv

-----------------------------------------------------------------------------
LEMMA StutterHInv ==
  ASSUME HInv, UNCHANGED vars
  PROVE  HInv'
<1>1. UNCHANGED <<poolVars, heapVars, pc, callVars, live>>
  BY DEF vars
<1>2. Tiles(bsize, header)' /\ BlockInv' /\ (free \subseteq Pool!Pages)'
  BY <1>1, UnchangedHeap DEF poolVars, heapVars, HInv, BlockInv
<1>3. PoolInv'
  BY <1>1, <1>2 DEF HInv, PoolInv, poolVars, callVars, PagesFor, NewSize, Pool!Idle
<1>4. SearchInv'
  <2>1. UNCHANGED <<block_root, bsize, header, pc, n, old, attempt, block, data, ptr, live>>
    BY <1>1 DEF heapVars, callVars
  <2>2. CallInv' /\ NullOnlyRefused'
    BY <2>1 DEF HInv, SearchInv, CallInv, NullOnlyRefused, Blocks
  <2>3. CursorOnHeader'
    BY <2>1 DEF HInv, SearchInv, CursorOnHeader, First, Last, Headers
  <2>4. ThirdInv'
    BY <2>1 DEF HInv, SearchInv, ThirdInv, First
  <2> QED BY <2>2, <2>3, <2>4 DEF SearchInv
<1>5. LiveInv' /\ UsedIsLive'
  BY <1>1 DEF HInv, LiveInv, Allocated, UsedIsLive, Headers, heapVars, callVars
<1> QED BY <1>2, <1>3, <1>4, <1>5 DEF HInv

LEMMA StepHInv == HInv /\ [Next]_vars => HInv'
<1> SUFFICES ASSUME HInv, [Next]_vars PROVE HInv'
  OBVIOUS
<1>1. CASE Work
  BY <1>1, TakeWholeHInv, SplitHInv, NextHeaderHInv, NextBlockHInv, TidyHInv, AskPagesHInv,
     PagesGrantedHInv, PagesRefusedHInv, GiveUpHInv, ReturnHInv, CopyOverHInv DEF Work
<1>2. CASE \E m \in Sizes : Malloc(m)
  BY <1>2, CallMallocHInv DEF Malloc
<1>3. CASE \E p \in DOMAIN live, m \in Sizes : Realloc(p, m)
  BY <1>3, CallMallocHInv DEF Realloc
<1>4. CASE \E p \in DOMAIN live : Free(p)
  BY <1>4, FreeHInv
<1>5. CASE UNCHANGED vars
  BY <1>5, StutterHInv
<1> QED BY <1>1, <1>2, <1>3, <1>4, <1>5 DEF Next

LEMMA HInvariance == Spec => []HInv
BY InitHInv, StepHInv, PTL DEF Spec

-----------------------------------------------------------------------------
(* Headers always tile their blocks, over any sequence of calls and        *)
(* refusals: splitting loses no byte and overlaps none.                    *)
THEOREM Tiling == Spec => []Tiled
<1>1. HInv => Tiled
  <2> SUFFICES ASSUME HInv PROVE Tiled
    OBVIOUS
  <2>1. \A h \in Headers : After(h) = Ends(h, header)
    BY DEF After, Ends
  <2>2. \A b \in Blocks : First(b) \in Headers /\ First(b) < Last(b)
    BY RootFirst
  <2> QED BY <2>1, <2>2 DEF HInv, Tiles, Tiled, Headers, Blocks, First, Last
<1> QED BY <1>1, HInvariance, PTL

(* Nothing is leaked and nothing handed out twice: the used headers are    *)
(* those of the callers' allocations.                                      *)
THEOREM Used == Spec => []UsedIsLive
<1>1. HInv => UsedIsLive
  BY DEF HInv
<1> QED BY <1>1, HInvariance, PTL

(* malloc returns NULL only after page_alloc has refused.                  *)
THEOREM Refusals == Spec => []NullOnlyRefused
<1>1. HInv => NullOnlyRefused
  BY DEF HInv, SearchInv
<1> QED BY <1>1, HInvariance, PTL

(* An allocation lies in the bytes of its header. *)
LEMMA ExtentIn ==
  ASSUME HInv, NEW p \in Nat, NEW m \in Nat, Allocated(p, m)
  PROVE  /\ p - HeaderSize \in Headers
         /\ Extent(p, m) \subseteq p - HeaderSize .. After(p - HeaderSize) - 1
<1> DEFINE h == p - HeaderSize
<1>1. h \in Headers /\ header[h] \in Int /\ header[h] < 0 /\ m <= -header[h] /\ h \in Nat
      /\ p = h + HeaderSize
  BY Constants DEF Allocated, HInv, Tiles, Headers
<1> HIDE DEF h
<1>2. After(h) = h + HeaderSize + (-header[h])
  BY <1>1, AbsNat DEF After
<1>3. p + m - 1 <= After(h) - 1 /\ After(h) \in Int /\ p + m - 1 \in Int
  BY <1>1, <1>2, Constants
<1>4. h .. p + m - 1 \subseteq h .. After(h) - 1
  BY <1>1, <1>3
<1> QED BY <1>1, <1>4 DEF Extent, h

LEMMA ExtentsApart ==
  ASSUME HInv, NEW p \in Nat, NEW m \in Nat, Allocated(p, m),
         NEW q \in Nat, NEW l \in Nat, Allocated(q, l), p # q
  PROVE  Extent(p, m) \cap Extent(q, l) = {}
<1> DEFINE g == p - HeaderSize
           h == q - HeaderSize
<1>1. /\ g \in Headers /\ Extent(p, m) \subseteq g .. After(g) - 1
      /\ h \in Headers /\ Extent(q, l) \subseteq h .. After(h) - 1
      /\ g # h
  BY ExtentIn, Constants
<1> HIDE DEF g, h
<1>2. /\ g \in Nat /\ h \in Nat /\ After(g) \in Nat /\ After(h) \in Nat
      /\ g < h => After(g) <= h
      /\ h < g => After(h) <= g
  BY <1>1, EndsAfter DEF HInv, Tiles, Headers, Ends, After
<1>3. (g .. After(g) - 1) \cap (h .. After(h) - 1) = {}
  BY <1>1, <1>2
<1> QED BY <1>1, <1>3

(* Every allocation lies inside one block that the heap holds, off the     *)
(* block's own head, and has its bytes to itself.                          *)
THEOREM Exclusive == Spec => []LiveExclusive
<1>1. ASSUME HInv, NEW p \in DOMAIN live
      PROVE  \E b \in Blocks :
               /\ Extent(p, live[p]) \subseteq First(b) .. Last(b) - 1
               /\ \E k \in held : k[1] * PageSize = b /\ Last(b) <= b + k[2] * PageSize
  <2> DEFINE h == p - HeaderSize
  <2>1. p \in Nat /\ live[p] \in Nat /\ Allocated(p, live[p])
    BY <1>1 DEF HInv, LiveInv
  <2>2. h \in Headers /\ Extent(p, live[p]) \subseteq h .. After(h) - 1
    BY <1>1, <2>1, ExtentIn
  <2> HIDE DEF h
  <2>3. h \in Nat /\ After(h) \in Nat
    BY <1>1, <2>2, EndsAfter DEF HInv, Tiles, Headers, Ends, After
  <2>4. \A b \in Blocks : First(b) \in Nat /\ Last(b) \in Nat
    BY <1>1, RootFirst
  <2>5. PICK b \in Blocks : First(b) <= h /\ After(h) <= Last(b)
    BY <1>1, <2>2, <2>3, <2>4 DEF HInv, Tiles, Headers, Blocks, Ends, After, First, Last
  <2>6. h .. After(h) - 1 \subseteq First(b) .. Last(b) - 1
    BY <2>3, <2>4, <2>5
  <2>7. PICK k \in held : b = k[1] * PageSize /\ Last(b) = b + k[2] * PageSize
    BY <1>1 DEF HInv, BlockInv, Backed
  <2>8. Last(b) <= Last(b)
    BY <2>4
  <2> QED BY <2>2, <2>6, <2>7, <2>8
<1>2. ASSUME HInv, NEW p \in DOMAIN live, NEW q \in DOMAIN live, p # q
      PROVE  Extent(p, live[p]) \cap Extent(q, live[q]) = {}
  BY <1>2, ExtentsApart DEF HInv, LiveInv
<1>3. HInv => LiveExclusive
  BY <1>1, <1>2 DEF LiveExclusive
<1> QED BY <1>3, HInvariance, PTL

-----------------------------------------------------------------------------
LEMMA AnswerStep ==
  ASSUME HInv, pc = "return", pc' = "idle", old' = NULL,
         NEW f, live' = Give(f),
         DOMAIN f = DOMAIN live \ {old}, \A p \in DOMAIN f : f[p] = live[p]
  PROVE  Store!Answer
<1>1. n \in Nat \ {0} /\ n # 0
  BY Requested
<1>2. /\ DOMAIN live' = (DOMAIN live \ {old}) \cup ({ptr} \ {NULL})
      /\ \A p \in DOMAIN live' : live'[p] = IF p = ptr /\ p # NULL THEN n ELSE live[p]
  BY GiveFunction
<1>3. Store!Kept = DOMAIN live \ {old}
  BY DEF Store!Kept
<1>4. ptr # NULL => ptr \notin DOMAIN live
  BY DEF HInv, LiveInv
<1>5. \A p \in Store!Kept : p \in DOMAIN live' /\ live'[p] = live[p]
  BY <1>2, <1>3, <1>4
<1>6. CASE ptr = NULL
  <2>1. DOMAIN live' = Store!Kept
    BY <1>2, <1>3, <1>6
  <2> QED BY <1>1, <1>5, <2>1 DEF Store!Answer, Store!NULL, NULL
<1>7. CASE ptr # NULL
  <2>1. /\ ptr \in DOMAIN live' /\ ptr \notin DOMAIN live
        /\ DOMAIN live' = Store!Kept \cup {ptr} /\ live'[ptr] = n
    BY <1>2, <1>3, <1>4, <1>7
  <2>2. ASSUME NEW q \in DOMAIN live
        PROVE  Store!Bytes(ptr, n) \cap Store!Bytes(q, live[q]) = {}
    <3>1. /\ q \in Nat /\ live[q] \in Nat /\ Allocated(q, live[q])
          /\ ptr \in Nat /\ Allocated(ptr, n) /\ ptr # q
      BY <1>7, <2>1 DEF HInv, LiveInv
    <3>2. Extent(ptr, n) \cap Extent(q, live[q]) = {}
      BY <1>1, <3>1, ExtentsApart
    <3> QED BY <3>2 DEF Extent, Store!Bytes
  <2> QED BY <1>1, <1>5, <2>1, <2>2 DEF Store!Answer, Store!NULL, NULL
<1> QED BY <1>6, <1>7

(* The heap implements what its callers rely on: whatever the blocks and   *)
(* headers look like, a call is answered with bytes that nobody has, or    *)
(* with NULL, and nobody else's allocation is touched.                     *)
THEOREM Refinement == Spec => ImplementsAllocation
<1>1. Init => Store!Init
  BY DEF Init, Store!Init, Store!NULL, NULL
<1>2. HInv /\ [Next]_vars => [Store!Next]_(Store!vars)
  <2> SUFFICES ASSUME HInv, [Next]_vars
               PROVE  Store!Next \/ UNCHANGED Store!vars
    OBVIOUS
  <2>1. CASE \/ TakeWhole \/ Split \/ NextHeader \/ NextBlock
             \/ Tidy \/ AskPages \/ PagesGranted \/ PagesRefused \/ GiveUp
    <3>1. pc # "idle" /\ pc' # "idle" /\ UNCHANGED <<n, old, live>>
      BY <2>1 DEF TakeWhole, Split, AtHeader, Take, NextHeader, NextBlock, Tidy, Missed, AskPages,
                  PagesGranted, PagesRefused, GiveUp, Search, callVars
    <3> QED BY <3>1 DEF Store!vars
  <2>2. CASE Return
    <3>1. DOMAIN live = DOMAIN live \ {old}
      BY <2>2 DEF Return, HInv, LiveInv
    <3>2. live' = Give(live) /\ pc = "return" /\ pc' = "idle" /\ old' = NULL
      BY <2>2 DEF Return, Idle
    <3> QED BY <3>1, <3>2, AnswerStep DEF Store!Next
  <2>3. CASE CopyOver
    <3> DEFINE f == Without(live, old)
    <3>1. DOMAIN f = DOMAIN live \ {old} /\ \A p \in DOMAIN f : f[p] = live[p]
      BY DEF Without
    <3> HIDE DEF f
    <3>2. live' = Give(f) /\ pc = "return" /\ pc' = "idle" /\ old' = NULL
      BY <2>3 DEF CopyOver, Idle, f
    <3> QED BY <3>1, <3>2, AnswerStep DEF Store!Next
  <2>4. ASSUME NEW m \in Sizes, NEW p \in DOMAIN live \cup {NULL}, CallMalloc(m, p)
        PROVE  Store!Next
    <3>1. Store!Ask(m, p)
      BY <2>4 DEF CallMalloc, Search, Store!Ask
    <3> QED BY <3>1 DEF Store!Next, Store!NULL, NULL
  <2>5. ASSUME NEW p \in DOMAIN live, Free(p)
        PROVE  Store!Next
    <3>1. Store!Drop(p)
      BY <2>5 DEF Free, Without, callVars, Store!Drop
    <3> QED BY <3>1 DEF Store!Next
  <2>6. CASE UNCHANGED vars
    BY <2>6 DEF vars, callVars, Store!vars
  <2> QED BY <2>1, <2>2, <2>3, <2>4, <2>5, <2>6 DEF Next, Work, Malloc, Realloc
<1>3. Spec => Store!Spec
  BY <1>1, <1>2, HInvariance, PTL DEF Spec, Store!Spec
<1> QED BY <1>3 DEF ImplementsAllocation
=============================================================================
