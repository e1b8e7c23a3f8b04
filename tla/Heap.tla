-------------------------------- MODULE Heap --------------------------------
(***************************************************************************)
(* lib/alloc.c: malloc, realloc and free over blocks of pages. A block_t   *)
(* is followed by header_t's that tile it; a header's size is positive     *)
(* when its data is free and negative when it is used. The blocks come     *)
(* from the page allocator through the callback of nop/start.c; the heap   *)
(* is a client of the pool that PageAllocator specifies.                   *)
(*                                                                         *)
(* Addresses and sizes are numbers of bytes. "walk" is malloc_once at the  *)
(* header data of block.                                                   *)
(***************************************************************************)
EXTENDS Integers, FiniteSets

CONSTANTS
  PageCount, PageSize,   \* the machine
  BootBlocks,            \* the page ranges start() hands to the pool
  BlockSize,             \* sizeof(block_t)
  HeaderSize,            \* sizeof(header_t)
  BlockMin,              \* block_min
  Sizes,                 \* the sizes callers pass to malloc and realloc
  MaxLive                \* the bound on allocations alive at a time

ASSUME HeapAssumption ==
  /\ PageCount \in Nat \ {0} /\ PageSize \in Nat \ {0}
  /\ BlockSize \in Nat \ {0} /\ HeaderSize \in Nat \ {0}
  /\ BlockMin \in Nat /\ MaxLive \in Nat

(* No caller in the kernel asks for zero bytes. *)
ASSUME SizesAssumption == Sizes \subseteq Nat \ {0}

VARIABLES
  free, held, call, reply,   \* the pool of pages
  block_root,                \* the first block, or NULL
  next,                      \* block->next
  bsize,                     \* block->size
  header,                    \* header->size of every header written
  pc,
  n, old,                    \* the arguments; old is NULL in malloc
  attempt,                   \* which malloc_once of malloc runs
  block, data,               \* the locals of malloc_once
  ptr,                       \* what malloc returns
  live                       \* the callers' allocations: pointer -> size

poolVars == <<free, held, call, reply>>
heapVars == <<block_root, next, bsize, header>>
callVars == <<n, old, attempt, block, data, ptr>>
vars == <<poolVars, heapVars, pc, callVars, live>>

Pool == INSTANCE PageAllocator WITH Requests <- 1 .. PageCount, MmioBlocks <- {}

NULL == 0

Blocks  == DOMAIN bsize
Headers == DOMAIN header
First(b) == b + BlockSize
Last(b)  == b + BlockSize + bsize[b]

Abs(x) == IF x < 0 THEN -x ELSE x

(* Where the header after h is. *)
After(h) == h + HeaderSize + Abs(header[h])

(* The function f with the value v at x. *)
With(f, x, v) == [y \in DOMAIN f \cup {x} |-> IF y = x THEN v ELSE f[y]]
Without(f, x) == [y \in DOMAIN f \ {x} |-> f[y]]

(* alloc_init; the pool holds what start() freed. *)
Init ==
  /\ free = Pool!BootPages /\ held = {} /\ call = Pool!Idle /\ reply = NULL
  /\ block_root = NULL
  /\ next = <<>> /\ bsize = <<>> /\ header = <<>>
  /\ pc = "idle"
  /\ n = 0 /\ old = NULL /\ attempt = 0
  /\ block = NULL /\ data = 0 /\ ptr = NULL
  /\ live = <<>>

-----------------------------------------------------------------------------
(* malloc_once: first fit over all headers of all blocks. *)

Search(root) ==
  /\ pc' = "walk"
  /\ block' = root
  /\ data' = First(root)

(* Variants: the sign is not looked at; a header one byte short will do. *)
FitsUsed  == Abs(header[data]) >= n
FitsShort == header[data] >= n - 1

Fits == header[data] >= n

Take(size) ==
  /\ ptr' = data + HeaderSize
  /\ pc' = "return"
  /\ UNCHANGED <<poolVars, block_root, next, bsize, n, old, attempt, block,
                 data, live>>

AtHeader ==
  /\ pc = "walk"
  /\ block # NULL
  /\ data - First(block) < bsize[block]

(* The rest would hold no more than a header: take all of it. *)
TakeWhole ==
  /\ AtHeader /\ Fits
  /\ header[data] <= n + HeaderSize
  /\ header' = [header EXCEPT ![data] = -@]
  /\ Take(n)

(* Variants: the rest may be empty; it keeps its own header's bytes. *)
SplitTight ==
  /\ AtHeader /\ Fits
  /\ header[data] >= n + HeaderSize
  /\ header' = [With(header, data + HeaderSize + n, header[data] - HeaderSize - n)
                  EXCEPT ![data] = -n]
  /\ Take(n)

SplitGross ==
  /\ AtHeader /\ Fits
  /\ header[data] > n + HeaderSize
  /\ header' = [With(header, data + HeaderSize + n, header[data] - n)
                  EXCEPT ![data] = -n]
  /\ Take(n)

Split ==
  /\ AtHeader /\ Fits
  /\ header[data] > n + HeaderSize
  /\ header' = [With(header, data + HeaderSize + n, header[data] - HeaderSize - n)
                  EXCEPT ![data] = -n]
  /\ Take(n)

NextHeader ==
  /\ AtHeader /\ ~Fits
  /\ data' = After(data)
  /\ UNCHANGED <<poolVars, heapVars, pc, n, old, attempt, block, ptr, live>>

NextBlock ==
  /\ pc = "walk"
  /\ block # NULL
  /\ data - First(block) >= bsize[block]
  /\ block' = next[block]
  /\ data' = First(next[block])
  /\ UNCHANGED <<poolVars, heapVars, pc, n, old, attempt, ptr, live>>

-----------------------------------------------------------------------------
(* malloc: three attempts, with alloc_tidy (which does nothing) and a new *)
(* block between them.                                                    *)

Missed == pc = "walk" /\ block = NULL

Tidy ==
  /\ Missed /\ attempt = 1
  /\ attempt' = 2
  /\ Search(block_root)
  /\ UNCHANGED <<poolVars, heapVars, n, old, ptr, live>>

(* The size of the new block's data, and the pages it takes. *)
NewSize ==
  LET size == n + n \div 4 IN IF size < BlockMin THEN BlockMin ELSE size

(* Variant: no room is added for the two heads. *)
PagesForData(size) == (size + (PageSize - 1)) \div PageSize

PagesFor(size) ==
  (size + BlockSize + HeaderSize + (PageSize - 1)) \div PageSize

AskPages ==
  /\ Missed /\ attempt = 2
  /\ Pool!Request(PagesFor(NewSize))
  /\ pc' = "page"
  /\ UNCHANGED <<heapVars, callVars, live>>

(* Variant: the new block is linked to itself. *)
PagesGrantedCyclic ==
  /\ pc = "page"
  /\ Pool!Grant
  /\ LET b     == reply' * PageSize
         bytes == call * PageSize
     IN  /\ block_root' = b
         /\ next' = With(next, b, b)
         /\ bsize' = With(bsize, b, bytes - BlockSize)
         /\ header' = With(header, First(b), bytes - BlockSize - HeaderSize)
         /\ Search(b)
  /\ attempt' = 3
  /\ UNCHANGED <<n, old, ptr, live>>

(* alloc_block makes one free header of the block and puts the block first. *)
PagesGranted ==
  /\ pc = "page"
  /\ Pool!Grant
  /\ LET b     == reply' * PageSize
         bytes == call * PageSize
     IN  /\ block_root' = b
         /\ next' = With(next, b, block_root)
         /\ bsize' = With(bsize, b, bytes - BlockSize)
         /\ header' = With(header, First(b), bytes - BlockSize - HeaderSize)
         /\ Search(b)
  /\ attempt' = 3
  /\ UNCHANGED <<n, old, ptr, live>>

(* alloc_block does not look at what page_alloc returned: the block it     *)
(* writes is at address 0, and a list whose root is 0 is empty.            *)
PagesRefused ==
  /\ pc = "page"
  /\ Pool!Refuse
  /\ block_root' = NULL
  /\ Search(NULL)
  /\ attempt' = 3
  /\ UNCHANGED <<next, bsize, header, n, old, ptr, live>>

GiveUp ==
  /\ Missed /\ attempt = 3
  /\ ptr' = NULL
  /\ pc' = "return"
  /\ UNCHANGED <<poolVars, heapVars, n, old, attempt, block, data, live>>

-----------------------------------------------------------------------------
(* The callers' side of malloc, realloc and free. *)

CallMalloc(m, p) ==
  /\ pc = "idle"
  /\ n' = m /\ old' = p /\ attempt' = 1
  /\ Search(block_root)
  /\ UNCHANGED <<poolVars, heapVars, ptr, live>>

Malloc(m) == Cardinality(DOMAIN live) < MaxLive /\ CallMalloc(m, NULL)

(* Variant: realloc frees first and allocates then. *)
ReallocFreeFirst(p, m) ==
  /\ pc = "idle"
  /\ p \in DOMAIN live
  /\ header' = [header EXCEPT ![p - HeaderSize] = Abs(@)]
  /\ n' = m /\ old' = p /\ attempt' = 1
  /\ Search(block_root)
  /\ UNCHANGED <<poolVars, block_root, next, bsize, ptr, live>>

Realloc(p, m) == p \in DOMAIN live /\ CallMalloc(m, p)

Idle ==
  /\ pc' = "idle"
  /\ n' = 0 /\ old' = NULL /\ attempt' = 0
  /\ block' = NULL /\ data' = 0 /\ ptr' = NULL

Give(f) == IF ptr = NULL THEN f ELSE With(f, ptr, n)

Return ==
  /\ pc = "return" /\ old = NULL
  /\ live' = Give(live)
  /\ Idle
  /\ UNCHANGED <<poolVars, heapVars>>

(* Variant: the old allocation is not freed. *)
CopyOverLeaky ==
  /\ pc = "return" /\ old # NULL
  /\ live' = Give(Without(live, old))
  /\ Idle
  /\ UNCHANGED <<poolVars, heapVars>>

(* realloc copies, to address 0 if need be, and frees the old allocation. *)
CopyOver ==
  /\ pc = "return" /\ old # NULL
  /\ header' = [header EXCEPT ![old - HeaderSize] = Abs(@)]
  /\ live' = Give(Without(live, old))
  /\ Idle
  /\ UNCHANGED <<poolVars, block_root, next, bsize>>

Free(p) ==
  /\ pc = "idle"
  /\ p \in DOMAIN live
  /\ header' = [header EXCEPT ![p - HeaderSize] = Abs(@)]
  /\ live' = Without(live, p)
  /\ UNCHANGED <<poolVars, block_root, next, bsize, pc, callVars>>

Work ==
  \/ TakeWhole \/ Split \/ NextHeader \/ NextBlock
  \/ Tidy \/ AskPages \/ PagesGranted \/ PagesRefused \/ GiveUp
  \/ Return \/ CopyOver

Next ==
  \/ Work
  \/ \E m \in Sizes : Malloc(m)
  \/ \E p \in DOMAIN live, m \in Sizes : Realloc(p, m)
  \/ \E p \in DOMAIN live : Free(p)

Spec == Init /\ [][Next]_vars

FairSpec == Spec /\ WF_vars(Work)

-----------------------------------------------------------------------------
TypeOK ==
  /\ block_root \in Blocks \cup {NULL}
  /\ DOMAIN next = Blocks
  /\ \A b \in Blocks : b \in Nat \ {NULL} /\ bsize[b] \in Nat
                       /\ next[b] \in Blocks \cup {NULL}
  /\ \A h \in Headers : h \in Nat /\ header[h] \in Int \ {0}
  /\ pc \in {"idle", "walk", "page", "return"}
  /\ n \in Sizes \cup {0} /\ old \in DOMAIN live \cup {NULL}
  /\ attempt \in 0 .. 3
  /\ block \in Blocks \cup {NULL} /\ data \in Nat /\ ptr \in Nat
  /\ \A p \in DOMAIN live : p \in Nat \ {NULL} /\ live[p] \in Sizes

(* The headers tile every block that was ever added, reachable or not: a   *)
(* header starts each block, each header is followed by another one or by  *)
(* its block's end, and none lies inside the extent of another. Split's    *)
(* arithmetic is what keeps this true over any sequence of calls.          *)
Tiled ==
  /\ \A b \in Blocks : First(b) \in Headers /\ First(b) < Last(b)
  /\ \A h \in Headers : \E b \in Blocks :
       /\ First(b) <= h
       /\ After(h) = Last(b) \/ (After(h) < Last(b) /\ After(h) \in Headers)
  /\ \A g, h \in Headers : g < h => After(g) <= h

(* malloc_once only ever interprets as a header what is one, and stops     *)
(* exactly at the end of a block.                                          *)
CursorOnHeader ==
  pc = "walk" /\ block # NULL =>
    \/ data = Last(block)
    \/ data \in Headers /\ First(block) <= data /\ data < Last(block)

(* The bytes of an allocation of size m at p with the header before them.  *)
Extent(p, m) == p - HeaderSize .. p + m - 1

(* Every live allocation keeps its bytes to itself: inside one block, off  *)
(* that block's own header, apart from every other allocation.             *)
LiveExclusive ==
  /\ \A p \in DOMAIN live : \E b \in Blocks :
       /\ Extent(p, live[p]) \subseteq First(b) .. Last(b) - 1
       /\ \E k \in held : k[1] * PageSize = b /\ Last(b) <= b + k[2] * PageSize
  /\ \A p, q \in DOMAIN live :
       p # q => Extent(p, live[p]) \cap Extent(q, live[q]) = {}

(* Used headers are exactly the live allocations (and, inside a call, the  *)
(* one about to be returned): nothing is leaked, realloc's old data        *)
(* included, and nothing is handed out twice.                              *)
UsedIsLive ==
  {h + HeaderSize : h \in {g \in Headers : header[g] < 0}}
    = DOMAIN live \cup (IF pc = "return" THEN {ptr} \ {NULL} ELSE {})

(* A NULL pointer always stems from the page allocator's refusal: when a   *)
(* block was granted, its 25% more and its rounding let the third search   *)
(* succeed.                                                                *)
NullOnlyRefused == pc = "return" /\ ptr = NULL => block_root = NULL

(* "Ok, then for sure there wasn't enough free memory..." (lib/alloc.c,    *)
(* before malloc returns NULL): no header is free and large enough.        *)
NullMeansFull ==
  pc = "return" /\ ptr = NULL => \A h \in Headers : header[h] < n

(* Only the owner of an allocation, by free or realloc, changes its header *)
(* or makes its size smaller.                                              *)
LiveKept ==
  [][\A p \in DOMAIN live :
       p \in DOMAIN live' =>
         /\ live'[p] = live[p]
         /\ header'[p - HeaderSize] = header[p - HeaderSize]]_vars

(* The heap keeps its promise to callers, whatever its blocks look like.   *)
Store == INSTANCE Allocation WITH
  request <- IF pc = "idle" THEN 0 ELSE n,
  moving  <- old

ImplementsAllocation == Store!Spec

(* Every call returns: no list is cyclic and no header has size zero.      *)
CallsReturn == pc = "walk" ~> pc = "idle"
=============================================================================
