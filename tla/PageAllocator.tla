--------------------------- MODULE PageAllocator ---------------------------
(***************************************************************************)
(* What nop/page.c promises to its callers, without saying how: a pool of  *)
(* physical pages; a caller asks for n contiguous pages and receives the   *)
(* first page of a block that was free, or NULL when no such block exists. *)
(* Module PageBitmap, which has the loops of the code, implements this     *)
(* specification.                                                          *)
(***************************************************************************)
EXTENDS Integers

CONSTANTS
  PageCount,   \* PAGE_COUNT: the number of physical pages
  Requests,    \* the page counts callers ask for
  BootBlocks,  \* the <<start, end>> page ranges start() hands to the allocator
  MmioBlocks   \* the <<start, end>> page ranges of device registers (ahci.c)

VARIABLES
  free,     \* the set of free pages
  held,     \* the blocks <<start, n>> handed out and not given back
  call,     \* the request being served, Idle otherwise
  reply     \* the answer to the last request: a first page, or NULL

vars == <<free, held, call, reply>>

Idle == -1
NULL == 0

Pages == 0 .. PageCount - 1

(* The pages from start up to, and without, end. *)
PagesIn(start, end) == {p \in Pages : start <= p /\ p < end}

BlockPages(b) == PagesIn(b[1], b[1] + b[2])

BootPages == UNION {PagesIn(r[1], r[2]) : r \in BootBlocks}

(* The starts of the runs of n contiguous pages that all belong to S. *)
Runs(S, n) == {f \in 0 .. PageCount - n : PagesIn(f, f + n) \subseteq S}

-----------------------------------------------------------------------------
Init ==
  /\ free = {}
  /\ held = {}
  /\ call = Idle
  /\ reply = NULL

(* start() frees a boot block; it does so before anyone has allocated. *)
AddBlock(r) ==
  /\ held = {}
  /\ call = Idle
  /\ free' = free \cup PagesIn(r[1], r[2])
  /\ UNCHANGED <<held, call, reply>>

(* A driver takes a range of device registers out of the pool. *)
Reserve(r) ==
  /\ call = Idle
  /\ free' = free \ PagesIn(r[1], r[2])
  /\ UNCHANGED <<held, call, reply>>

Request(n) ==
  /\ call = Idle
  /\ call' = n
  /\ UNCHANGED <<free, held, reply>>

Grant ==
  /\ call # Idle
  /\ \E f \in Runs(free, call) :
       /\ free' = free \ PagesIn(f, f + call)
       /\ held' = held \cup {<<f, call>>}
       /\ reply' = f
  /\ call' = Idle

(* NULL is an honest answer: no run of that length is free. *)
Refuse ==
  /\ call # Idle
  /\ Runs(free, call) = {}
  /\ reply' = NULL
  /\ call' = Idle
  /\ UNCHANGED <<free, held>>

GiveBack(b) ==
  /\ call = Idle
  /\ b \in held
  /\ held' = held \ {b}
  /\ free' = free \cup BlockPages(b)
  /\ UNCHANGED <<call, reply>>

Next ==
  \/ \E r \in BootBlocks : AddBlock(r)
  \/ \E r \in MmioBlocks : Reserve(r)
  \/ \E n \in Requests : Request(n)
  \/ Grant
  \/ Refuse
  \/ \E b \in held : GiveBack(b)

Spec == Init /\ [][Next]_vars
=============================================================================
