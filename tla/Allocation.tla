----------------------------- MODULE Allocation -----------------------------
(***************************************************************************)
(* What malloc, realloc and free promise, without saying how: a request    *)
(* receives a pointer to bytes that no live allocation has, or NULL; an    *)
(* allocation lives until its owner frees or reallocates it. realloc gives *)
(* the old allocation up even when it returns NULL (lib/alloc.c:137-153).  *)
(***************************************************************************)
EXTENDS Integers

CONSTANTS
  Sizes,       \* the sizes callers ask for
  HeaderSize   \* the bytes before an allocation that belong to the heap

VARIABLES
  live,     \* the allocations: pointer -> size
  request,  \* the size asked for, 0 when no call is being served
  moving    \* the allocation that realloc moves, NULL in malloc

vars == <<live, request, moving>>

NULL == 0

Bytes(p, m) == p - HeaderSize .. p + m - 1

Init == live = <<>> /\ request = 0 /\ moving = NULL

Ask(m, p) ==
  /\ request = 0
  /\ request' = m
  /\ moving' = p
  /\ UNCHANGED live

Kept == DOMAIN live \ {moving}

(* The new allocation overlaps nothing that was live when it was asked for, *)
(* the one it replaces included: realloc copies between the two.            *)
Answer ==
  /\ request # 0
  /\ request' = 0 /\ moving' = NULL
  /\ \A p \in Kept : p \in DOMAIN live' /\ live'[p] = live[p]
  /\ \/ DOMAIN live' = Kept
     \/ \E p \in DOMAIN live' :
          /\ p \notin DOMAIN live
          /\ DOMAIN live' = Kept \cup {p}
          /\ live'[p] = request
          /\ \A q \in DOMAIN live : Bytes(p, request) \cap Bytes(q, live[q]) = {}

Drop(p) ==
  /\ request = 0
  /\ live' = [q \in DOMAIN live \ {p} |-> live[q]]
  /\ UNCHANGED <<request, moving>>

Next ==
  \/ \E m \in Sizes, p \in DOMAIN live \cup {NULL} : Ask(m, p)
  \/ Answer
  \/ \E p \in DOMAIN live : Drop(p)

Spec == Init /\ [][Next]_vars
=============================================================================
