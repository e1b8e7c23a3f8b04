-------------------------- MODULE EventTableProofs --------------------------
(***************************************************************************)
(* Proofs about the handle table, for every set of lines and handlers and  *)
(* every step by which the table grows. The invariant compares the table   *)
(* in memory with the set of registered handles at every point at which an *)
(* interrupt may come.                                                     *)
(***************************************************************************)
EXTENDS EventTable, FiniteSetTheorems, TLAPS

(* The handles are stored but not yet the size, or the other way round. *)
Extended == pc = "publish" /\ left = {"total"}
Overrun == pc = "publish" /\ left = {"handles"}

(* The slot being filled is marked as taken before its fields are written. *)
Unfilled(k) == pc = "fill" /\ left = {"fields"} /\ k = i

Holder(k) == IF Unfilled(k) THEN new.handler ELSE handles[k].handler

Slots(n) == [0 .. n - 1 -> [handler : Handlers \cup {Junk}, free : BOOLEAN]]

(* The table, and during a growth its copy, have the size that was asked for. *)
SizeInv ==
  /\ handle_total \in Nat
  /\ handles \in IF Extended THEN Slots(handle_total + Step)
                 ELSE IF Overrun THEN Slots(handle_total - Step)
                 ELSE Slots(handle_total)

(* Where handle_add is. *)
AddInv ==
  /\ pc \in {"idle", "realloc", "publish", "search", "fill", "count"}
  /\ pc # "idle" => /\ new = [handler |-> new.handler, table |-> new.table]
                   /\ new.handler \in Handlers
  /\ i \in Nat
  /\ pc = "publish" => left \in {{"handles", "total"}, {"handles"}, {"total"}}
  /\ pc = "fill" => /\ left \in {{"fields", "free"}, {"fields"}, {"free"}}
                    /\ i < handle_total
                    /\ "free" \in left => handles[i].free
                    /\ "fields" \notin left => handles[i].handler = new.handler

(* The copy that realloc has made agrees with the table it is a copy of, *)
(* and nobody has registered what is in unwritten slots.                 *)
CopyInv ==
  /\ pc = "publish" /\ "handles" \in left =>
       /\ new.table \in Slots(IF "total" \in left THEN handle_total + Step ELSE handle_total)
       /\ \A k \in DOMAIN new.table :
            IF k \in DOMAIN handles THEN new.table[k] = handles[k]
                                    ELSE new.table[k].handler = Junk
  /\ Extended => \A k \in DOMAIN handles : k >= handle_total => handles[k].handler = Junk

Taken == {k \in DOMAIN handles : ~handles[k].free /\ Holder(k) \in Handlers}

RegisteredInv == registered = {<<k, Holder(k)>> : k \in Taken}

(* The slot that handle_add has taken is counted at its end. *)
Uncounted == IF pc = "count" \/ (pc = "fill" /\ "free" \notin left) THEN 1 ELSE 0

CountInv ==
  /\ IsFiniteSet(registered)
  /\ handle_used = Cardinality(registered) - Uncounted

TableInv == SizeInv /\ AddInv /\ CopyInv /\ RegisteredInv /\ CountInv

EInv == /\ mode \in {"off", "on", "stub", "lost"}
        /\ mode # "lost" => TableInv

-----------------------------------------------------------------------------
LEMMA JunkUnregistered == Junk \notin Handlers /\ Step \in Nat \ {0}
BY EventAssumption DEF Junk

LEMMA InitEInv == Init => EInv
<1> SUFFICES ASSUME Init PROVE EInv
  OBVIOUS
<1> USE DEF Init
<1>1. SizeInv
  BY DEF SizeInv, Extended, Overrun, Slots
<1>2. AddInv /\ CopyInv
  BY DEF AddInv, CopyInv, Extended
<1>3. RegisteredInv
  BY DEF RegisteredInv, Taken
<1>4. CountInv
  <2>1. IsFiniteSet({}) /\ Cardinality({}) = 0
    BY FS_EmptySet
  <2> QED BY <2>1 DEF CountInv, Uncounted
<1> QED BY <1>1, <1>2, <1>3, <1>4 DEF EInv, TableInv

(* Steps that leave the table and handle_add alone. *)
LEMMA UnchangedTableInv ==
  ASSUME TableInv, UNCHANGED <<tableVars, driverVars, registered>>
  PROVE  TableInv'
<1> USE DEF tableVars, driverVars
<1>1. SizeInv' /\ AddInv' /\ CopyInv'
  BY DEF TableInv, SizeInv, AddInv, CopyInv, Extended, Overrun
<1>2. RegisteredInv' /\ CountInv'
  BY DEF TableInv, RegisteredInv, CountInv, Taken, Holder, Unfilled, Uncounted
<1> QED BY <1>1, <1>2 DEF TableInv

-----------------------------------------------------------------------------
(* handle_add. *)
LEMMA HandleAddInv ==
  ASSUME TableInv, NEW h \in Handlers, HandleAdd(h)
  PROVE  TableInv'
<1>1. /\ pc = "idle" /\ pc' \in {"realloc", "search"} /\ i' = 0
      /\ new' = [handler |-> h, table |-> <<>>]
      /\ UNCHANGED <<tableVars, registered>>
  BY DEF HandleAdd
<1>6. new'.handler = h /\ new' = [handler |-> new'.handler, table |-> new'.table]
  BY <1>1
<1>2. SizeInv'
  BY <1>1 DEF TableInv, SizeInv, Extended, Overrun, tableVars
<1>3. AddInv' /\ CopyInv'
  BY <1>1, <1>6 DEF AddInv, CopyInv, Extended
<1>4. RegisteredInv'
  BY <1>1 DEF TableInv, RegisteredInv, Taken, Holder, Unfilled, tableVars
<1>5. CountInv'
  BY <1>1 DEF TableInv, CountInv, Uncounted, tableVars
<1> QED BY <1>2, <1>3, <1>4, <1>5 DEF TableInv

LEMMA ReallocInv ==
  ASSUME TableInv, Realloc
  PROVE  TableInv'
<1>2. /\ pc = "realloc" /\ pc' = "publish" /\ left' = {"handles", "total"}
      /\ UNCHANGED <<handles, handle_used, handle_total, registered, i>>
  BY DEF Realloc, tableVars
<1>3. SizeInv'
  BY <1>2 DEF TableInv, SizeInv, Extended, Overrun
<1>1. PICK junk \in [(0 .. handle_total + Step - 1) \ DOMAIN handles -> FreshFree] :
        new' = [new EXCEPT !.table =
                  [k \in 0 .. handle_total + Step - 1 |->
                     IF k \in DOMAIN handles THEN handles[k] ELSE Slot(Junk, junk[k])]]
  BY DEF Realloc
<1> DEFINE slots == 0 .. handle_total + Step - 1
           copy == [k \in slots |->
                      IF k \in DOMAIN handles THEN handles[k] ELSE Slot(Junk, junk[k])]
<1>4. /\ new = [handler |-> new.handler, table |-> new.table]
      /\ new.handler \in Handlers /\ i \in Nat
  BY <1>2 DEF TableInv, AddInv
<1>5. new' = [handler |-> new.handler, table |-> copy]
  BY <1>1, <1>4
<1>6. AddInv'
  BY <1>2, <1>4, <1>5 DEF AddInv
<1>7. CopyInv'
  <2>1. handles \in Slots(handle_total) /\ handle_total \in Nat
    BY <1>2 DEF TableInv, SizeInv, Extended, Overrun
  <2>2. ASSUME NEW k \in slots
        PROVE  /\ copy[k] \in [handler : Handlers \cup {Junk}, free : BOOLEAN]
               /\ IF k \in DOMAIN handles THEN copy[k] = handles[k] ELSE copy[k].handler = Junk
    <3>1. CASE k \in DOMAIN handles
      BY <2>1, <2>2, <3>1 DEF Slots
    <3>2. CASE k \notin DOMAIN handles
      <4>1. junk[k] \in BOOLEAN
        BY <1>1, <3>2, EventAssumption
      <4>2. copy[k] = [handler |-> Junk, free |-> junk[k]]
        BY <3>2 DEF Slot
      <4> QED BY <3>2, <4>1, <4>2
    <3> QED BY <3>1, <3>2
  <2>3. DOMAIN copy = slots /\ copy = [k \in slots |-> copy[k]]
    OBVIOUS
  <2> HIDE DEF copy
  <2>6. Slots(handle_total + Step) =
          [slots -> [handler : Handlers \cup {Junk}, free : BOOLEAN]]
    <3> DEFINE n == handle_total + Step
    <3>1. handle_total \in Int /\ Step \in Int
      BY <2>1, JunkUnregistered
    <3>2. slots = 0 .. n - 1
      BY <3>1
    <3> HIDE DEF n, slots
    <3>3. Slots(n) = [slots -> [handler : Handlers \cup {Junk}, free : BOOLEAN]]
      BY <3>2 DEF Slots
    <3> QED BY <3>3 DEF n
  <2> HIDE DEF slots
  <2>4. copy \in Slots(handle_total + Step)
    BY <2>2, <2>3, <2>6
  <2>5. new'.table = copy
    BY <1>5
  <2> QED BY <1>2, <2>2, <2>3, <2>4, <2>5 DEF CopyInv, Extended
<1>8. RegisteredInv'
  BY <1>2 DEF TableInv, RegisteredInv, Taken, Holder, Unfilled
<1>9. CountInv'
  BY <1>2 DEF TableInv, CountInv, Uncounted
<1> QED BY <1>3, <1>6, <1>7, <1>8, <1>9 DEF TableInv

(* The table grows to its copy: nobody sees a handle come or go. *)
LEMMA PublishHandlesInv ==
  ASSUME TableInv, PublishHandles
  PROVE  TableInv'
<1>1. /\ pc = "publish" /\ "handles" \in left /\ left' = left \ {"handles"}
      /\ handles' = new.table /\ new' = [new EXCEPT !.table = <<>>]
      /\ pc' = IF left' = {} THEN "search" ELSE "publish"
      /\ UNCHANGED <<handle_used, handle_total, i, registered>>
  BY DEF PublishHandles
<1>2. /\ new = [handler |-> new.handler, table |-> new.table]
      /\ new.handler \in Handlers /\ i \in Nat
      /\ left \in {{"handles", "total"}, {"handles"}}
  BY <1>1 DEF TableInv, AddInv
<1>3. new' = [handler |-> new.handler, table |-> <<>>]
  BY <1>1, <1>2
<1>4. /\ handle_total \in Nat
      /\ new.table \in Slots(IF "total" \in left THEN handle_total + Step ELSE handle_total)
      /\ \A k \in DOMAIN new.table :
           IF k \in DOMAIN handles THEN new.table[k] = handles[k]
                                   ELSE new.table[k].handler = Junk
  BY <1>1 DEF TableInv, SizeInv, CopyInv
<1>5. handles \in IF "total" \in left THEN Slots(handle_total)
                                      ELSE Slots(handle_total - Step)
  BY <1>1, <1>2 DEF TableInv, SizeInv, Extended, Overrun
<1>6. \/ left = {"handles", "total"} /\ left' = {"total"} /\ pc' = "publish"
      \/ left = {"handles"} /\ left' = {} /\ pc' = "search"
  BY <1>1, <1>2
<1>7. SizeInv'
  BY <1>1, <1>4, <1>6 DEF SizeInv, Extended, Overrun
<1>8. AddInv'
  BY <1>1, <1>2, <1>3, <1>6 DEF AddInv
<1>9. CopyInv'
  <2>1. CASE left' = {"total"}
    <3>1. handles \in Slots(handle_total)
      BY <1>5, <1>6, <2>1
    <3>2. ASSUME NEW k \in DOMAIN new.table, k >= handle_total
          PROVE  new.table[k].handler = Junk
      BY <1>4, <3>1, <3>2 DEF Slots
    <3> QED BY <1>1, <2>1, <3>2 DEF CopyInv
  <2>2. CASE pc' = "search"
    BY <2>2 DEF CopyInv, Extended
  <2> QED BY <1>6, <2>1, <2>2
<1>10. RegisteredInv'
  <2>1. DOMAIN handles \subseteq DOMAIN new.table
    BY <1>2, <1>4, <1>5, JunkUnregistered DEF Slots
  <2>2. \A k : ~Unfilled(k) /\ ~Unfilled(k)'
    BY <1>1, <1>6 DEF Unfilled
  <2>3. \A k \in Taken : Holder(k)' = Holder(k) /\ k \in Taken'
    BY <1>1, <1>4, <2>1, <2>2 DEF Taken, Holder
  <2>4. ASSUME NEW k \in Taken'
        PROVE  k \in Taken
    <3>1. k \in DOMAIN new.table /\ ~new.table[k].free /\ new.table[k].handler \in Handlers
      BY <1>1, <2>2 DEF Taken, Holder
    <3>2. k \in DOMAIN handles
      BY <1>4, <3>1, JunkUnregistered
    <3> QED BY <1>4, <2>2, <3>1, <3>2 DEF Taken, Holder
  <2> QED BY <1>1, <2>3, <2>4 DEF TableInv, RegisteredInv
<1>11. CountInv'
  BY <1>1, <1>6 DEF TableInv, CountInv, Uncounted
<1> QED BY <1>7, <1>8, <1>9, <1>10, <1>11 DEF TableInv

LEMMA PublishTotalInv ==
  ASSUME TableInv, PublishTotal
  PROVE  TableInv'
<1>1. /\ pc = "publish" /\ "total" \in left /\ left' = left \ {"total"}
      /\ handle_total' = handle_total + Step
      /\ pc' = IF left' = {} THEN "search" ELSE "publish"
      /\ UNCHANGED <<handles, handle_used, new, i, registered>>
  BY DEF PublishTotal
<1>2. /\ new = [handler |-> new.handler, table |-> new.table]
      /\ new.handler \in Handlers /\ i \in Nat
      /\ left \in {{"handles", "total"}, {"total"}}
  BY <1>1 DEF TableInv, AddInv
<1>3. \/ left = {"handles", "total"} /\ left' = {"handles"} /\ pc' = "publish"
      \/ left = {"total"} /\ left' = {} /\ pc' = "search"
  BY <1>1, <1>2
<1> DEFINE total == handle_total + Step
<1>4. handle_total \in Nat /\ total \in Nat /\ total - Step = handle_total
  BY JunkUnregistered DEF TableInv, SizeInv
<1>5. handles \in IF left = {"total"} THEN Slots(total) ELSE Slots(handle_total)
  BY <1>1, <1>2 DEF TableInv, SizeInv, Extended, Overrun
<1> HIDE DEF total
<1>6. handle_total' = total
  BY <1>1 DEF total
<1>7. SizeInv'
  BY <1>1, <1>3, <1>4, <1>5, <1>6 DEF SizeInv, Extended, Overrun
<1>8. AddInv'
  BY <1>1, <1>2, <1>3 DEF AddInv
<1>9. CopyInv'
  <2>1. CASE left = {"handles", "total"}
    <3>1. /\ new.table \in Slots(total)
          /\ \A k \in DOMAIN new.table :
               IF k \in DOMAIN handles THEN new.table[k] = handles[k]
                                       ELSE new.table[k].handler = Junk
      BY <1>1, <2>1 DEF TableInv, CopyInv, total
    <3> QED BY <1>1, <1>3, <1>6, <2>1, <3>1 DEF CopyInv, Extended
  <2>2. CASE left = {"total"}
    BY <1>3, <2>2 DEF CopyInv, Extended
  <2> QED BY <1>2, <2>1, <2>2
<1>10. RegisteredInv'
  BY <1>1, <1>3 DEF TableInv, RegisteredInv, Taken, Holder, Unfilled
<1>11. CountInv'
  BY <1>1, <1>3 DEF TableInv, CountInv, Uncounted
<1> QED BY <1>7, <1>8, <1>9, <1>10, <1>11 DEF TableInv

LEMMA SearchInv ==
  ASSUME TableInv, Search
  PROVE  TableInv'
<1>1. /\ pc = "search" /\ UNCHANGED <<handles, handle_used, handle_total, registered>>
      /\ \/ pc' = "idle" /\ UNCHANGED <<i, left>>
         \/ /\ i < handle_total /\ handles[i].free /\ pc' = "fill"
            /\ left' = {"fields", "free"} /\ UNCHANGED <<new, i>>
         \/ /\ i' = i + 1 /\ UNCHANGED <<pc, new, left>>
  BY DEF Search, tableVars
<1>2. SizeInv'
  BY <1>1 DEF TableInv, SizeInv, Extended, Overrun
<1>3. AddInv'
  BY <1>1 DEF TableInv, AddInv
<1>4. CopyInv'
  BY <1>1 DEF CopyInv, Extended
<1>5. RegisteredInv'
  BY <1>1 DEF TableInv, RegisteredInv, Taken, Holder, Unfilled
<1>6. CountInv'
  BY <1>1 DEF TableInv, CountInv, Uncounted
<1> QED BY <1>2, <1>3, <1>4, <1>5, <1>6 DEF TableInv

(* What is known while a slot is filled. *)
LEMMA Filling ==
  ASSUME TableInv, pc = "fill"
  PROVE  /\ handle_total \in Nat /\ handles \in Slots(handle_total)
         /\ i \in 0 .. handle_total - 1 /\ i \in DOMAIN handles
         /\ new.handler \in Handlers
         /\ handles[i] = [handler |-> handles[i].handler, free |-> handles[i].free]
<1>1. /\ handle_total \in Nat /\ handles \in Slots(handle_total)
      /\ i \in 0 .. handle_total - 1 /\ new.handler \in Handlers
  BY DEF TableInv, SizeInv, AddInv, Extended, Overrun
<1>2. i \in DOMAIN handles /\ handles[i] \in [handler : Handlers \cup {Junk}, free : BOOLEAN]
  BY <1>1 DEF Slots
<1> QED BY <1>1, <1>2

LEMMA Freeing ==
  ASSUME NEW slot, NEW handler, NEW free, slot = [handler |-> handler, free |-> free],
         NEW b
  PROVE  [slot EXCEPT !.free = b] = [handler |-> handler, free |-> b]
OBVIOUS

LEMMA FillFieldsInv ==
  ASSUME TableInv, FillFields
  PROVE  TableInv'
<1> DEFINE filled == [handler |-> new.handler, free |-> handles[i].free]
<1>1. /\ pc = "fill" /\ "fields" \in left /\ left' = left \ {"fields"}
      /\ handles' = [handles EXCEPT ![i].handler = new.handler]
      /\ pc' = IF left' = {} THEN "count" ELSE "fill"
      /\ UNCHANGED <<handle_used, handle_total, new, i, registered>>
  BY DEF FillFields
<1>2. handles' = [handles EXCEPT ![i] = filled]
  <2>1. [handles[i] EXCEPT !.handler = new.handler] = filled
    BY <1>1, Filling
  <2> QED BY <1>1, <2>1
<1>3. \/ left = {"fields", "free"} /\ left' = {"free"} /\ pc' = "fill"
      \/ left = {"fields"} /\ left' = {} /\ pc' = "count"
  BY <1>1 DEF TableInv, AddInv
<1>4. filled \in [handler : Handlers \cup {Junk}, free : BOOLEAN]
  BY <1>1, Filling DEF Slots
<1>5. handles' \in Slots(handle_total)
  BY <1>1, <1>2, <1>4, Filling DEF Slots
<1>6. SizeInv'
  BY <1>1, <1>3, <1>5, Filling DEF SizeInv, Extended, Overrun
<1>7. AddInv'
  BY <1>1, <1>2, <1>3, Filling DEF TableInv, AddInv
<1>8. CopyInv'
  BY <1>3 DEF CopyInv, Extended
<1>9. RegisteredInv'
  <2>1. \A k \in DOMAIN handles : k # i => handles'[k] = handles[k]
    BY <1>2
  <2>2. handles'[i].free = handles[i].free /\ handles'[i].handler = new.handler
    BY <1>1, <1>2, Filling
  <2>3. DOMAIN handles' = DOMAIN handles
    BY <1>2
  <2>4. left = {"fields", "free"} => handles[i].free
    BY <1>1 DEF TableInv, AddInv
  <2>5. \A k : ~Unfilled(k)'
    BY <1>3 DEF Unfilled
  <2>6. Taken' = Taken /\ \A k \in Taken : Holder(k)' = Holder(k)
    BY <1>1, <1>3, <2>1, <2>2, <2>3, <2>4, <2>5 DEF Taken, Holder, Unfilled
  <2> QED BY <1>1, <2>6 DEF TableInv, RegisteredInv
<1>10. CountInv'
  BY <1>1, <1>3 DEF TableInv, CountInv, Uncounted
<1> QED BY <1>6, <1>7, <1>8, <1>9, <1>10 DEF TableInv

(* The handle is registered by the store that clears its free field. *)
LEMMA ClearFreeInv ==
  ASSUME TableInv, ClearFree
  PROVE  TableInv'
<1> DEFINE cleared == [handler |-> handles[i].handler, free |-> FALSE]
           r == <<i, new.handler>>
<1>1. /\ pc = "fill" /\ "free" \in left /\ left' = left \ {"free"}
      /\ handles' = [handles EXCEPT ![i].free = FALSE]
      /\ registered' = registered \cup {r}
      /\ pc' = IF left' = {} THEN "count" ELSE "fill"
      /\ UNCHANGED <<handle_used, handle_total, new, i>>
  BY DEF ClearFree
<1>2. handles' = [handles EXCEPT ![i] = cleared]
  <2>1. [handles[i] EXCEPT !.free = FALSE] = cleared
    BY <1>1, Filling, Freeing
  <2> QED BY <1>1, <2>1
<1>3. \/ left = {"fields", "free"} /\ left' = {"fields"} /\ pc' = "fill"
      \/ /\ left = {"free"} /\ left' = {} /\ pc' = "count"
         /\ handles[i].handler = new.handler
  BY <1>1 DEF TableInv, AddInv
<1>4. cleared \in [handler : Handlers \cup {Junk}, free : BOOLEAN]
  BY <1>1, Filling DEF Slots
<1>5. handles' \in Slots(handle_total)
  BY <1>1, <1>2, <1>4, Filling DEF Slots
<1>6. SizeInv'
  BY <1>1, <1>3, <1>5, Filling DEF SizeInv, Extended, Overrun
<1>7. AddInv'
  BY <1>1, <1>2, <1>3, Filling DEF TableInv, AddInv
<1>8. CopyInv'
  BY <1>3 DEF CopyInv, Extended
<1>9. handles[i].free
  BY <1>1 DEF TableInv, AddInv
<1>10. RegisteredInv'
  <2>1. \A k \in DOMAIN handles : k # i => handles'[k] = handles[k]
    BY <1>2
  <2>2. ~handles'[i].free /\ handles'[i].handler = handles[i].handler
    BY <1>1, <1>2, Filling
  <2>3. DOMAIN handles' = DOMAIN handles /\ i \in DOMAIN handles /\ new.handler \in Handlers
    BY <1>1, <1>2, Filling
  <2>4. \A k : ~Unfilled(k)
    BY <1>3 DEF Unfilled
  <2>5. Holder(i)' = new.handler
    BY <1>1, <1>3, <2>2 DEF Holder, Unfilled
  <2>6. \A k \in DOMAIN handles : k # i => Holder(k)' = Holder(k)
    BY <1>1, <2>1, <2>4 DEF Holder, Unfilled
  <2>7. Taken' = Taken \cup {i} /\ i \notin Taken
    <3>1. i \notin Taken
      BY <1>9 DEF Taken
    <3>2. i \in Taken'
      <4>1. Holder(i)' \in Handlers /\ i \in DOMAIN handles' /\ ~handles'[i].free
        BY <2>2, <2>3, <2>5
      <4> QED BY <1>1, <1>3, <2>2, <2>3, <4>1 DEF Taken, Holder, Unfilled
    <3>3. ASSUME NEW k, k # i
          PROVE  k \in Taken' <=> k \in Taken
      <4>1. k \in DOMAIN handles => handles'[k] = handles[k] /\ Holder(k)' = Holder(k)
        BY <2>1, <2>6, <3>3
      <4> QED BY <2>3, <4>1 DEF Taken
    <3> QED BY <3>1, <3>2, <3>3
  <2>8. \A k \in Taken : Holder(k)' = Holder(k)
    BY <2>6, <2>7 DEF Taken
  <2> QED BY <1>1, <2>5, <2>7, <2>8 DEF TableInv, RegisteredInv
<1>11. CountInv'
  <2>1. r \notin registered
    BY <1>9 DEF TableInv, RegisteredInv, Taken
  <2>2. IsFiniteSet(registered) /\ handle_used = Cardinality(registered)
    BY <1>1, FS_CardinalityType DEF TableInv, CountInv, Uncounted
  <2>3. /\ IsFiniteSet(registered \cup {r})
        /\ Cardinality(registered \cup {r}) = Cardinality(registered) + 1
        /\ Cardinality(registered) \in Nat
    BY <2>1, <2>2, FS_AddElement, FS_CardinalityType
  <2>4. Uncounted' = 1
    BY <1>3 DEF Uncounted
  <2>5. handle_used = (Cardinality(registered) + 1) - 1
    BY <2>2, <2>3
  <2> QED BY <1>1, <2>3, <2>4, <2>5 DEF CountInv
<1> QED BY <1>6, <1>7, <1>8, <1>10, <1>11 DEF TableInv

LEMMA CountStepInv ==
  ASSUME TableInv, Count
  PROVE  TableInv'
<1>1. /\ pc = "count" /\ pc' = "idle" /\ i' = 0 /\ handle_used' = handle_used + 1
      /\ UNCHANGED <<handles, handle_total, left, registered>>
  BY DEF Count
<1>2. SizeInv' /\ AddInv' /\ CopyInv'
  BY <1>1 DEF TableInv, SizeInv, AddInv, CopyInv, Extended, Overrun
<1>3. RegisteredInv'
  BY <1>1 DEF TableInv, RegisteredInv, Taken, Holder, Unfilled
<1>4. CountInv'
  <2>1. /\ IsFiniteSet(registered) /\ handle_used = Cardinality(registered) - 1
        /\ Cardinality(registered) \in Nat
    BY <1>1, FS_CardinalityType DEF TableInv, CountInv, Uncounted
  <2>2. handle_used + 1 = Cardinality(registered) - 0
    BY <2>1
  <2>3. Uncounted' = 0
    BY <1>1 DEF Uncounted
  <2> QED BY <1>1, <2>1, <2>2, <2>3 DEF CountInv
<1> QED BY <1>2, <1>3, <1>4 DEF TableInv

-----------------------------------------------------------------------------
(* Handles are freed: by their driver, or by handlers in an interrupt.     *)
LEMMA FreedInv ==
  ASSUME TableInv, NEW F, F \subseteq registered,
         pc = "publish" /\ "handles" \in left => F = {},
         UNCHANGED <<handle_total, driverVars>>,
         registered' = registered \ F,
         handle_used' = handle_used - Cardinality(F),
         handles' = [k \in DOMAIN handles |->
                       IF \E r \in F : r[1] = k THEN [handles[k] EXCEPT !.free = TRUE]
                                                ELSE handles[k]]
  PROVE  TableInv'
<1> DEFINE Hit(k) == \E r \in F : r[1] = k
           Emptied(k) == [handler |-> handles[k].handler, free |-> TRUE]
<1>1. UNCHANGED <<handle_total, pc, new, i, left>>
  BY DEF driverVars
<1>2. ASSUME NEW k \in DOMAIN handles
      PROVE  /\ handles[k] \in [handler : Handlers \cup {Junk}, free : BOOLEAN]
             /\ handles[k] = [handler |-> handles[k].handler, free |-> handles[k].free]
             /\ handles'[k] = IF Hit(k) THEN Emptied(k) ELSE handles[k]
  <2>1. handles[k] \in [handler : Handlers \cup {Junk}, free : BOOLEAN]
    BY DEF TableInv, SizeInv, Slots
  <2>2. handles[k] = [handler |-> handles[k].handler, free |-> handles[k].free]
    BY <2>1
  <2>3. [handles[k] EXCEPT !.free = TRUE] = Emptied(k)
    BY <2>2, Freeing
  <2> QED BY <2>1, <2>2, <2>3
<1>3. DOMAIN handles' = DOMAIN handles
  OBVIOUS
<1>4. handles' = [k \in DOMAIN handles |-> IF Hit(k) THEN Emptied(k) ELSE handles[k]]
  BY <1>2
<1>5. ASSUME NEW k \in DOMAIN handles
      PROVE  /\ handles'[k].handler = handles[k].handler
             /\ handles'[k].free <=> (Hit(k) \/ handles[k].free)
  <2>1. Emptied(k).handler = handles[k].handler /\ Emptied(k).free = TRUE
    OBVIOUS
  <2> QED BY <1>2, <2>1
<1>6. ASSUME NEW k \in DOMAIN handles
      PROVE  handles'[k] \in [handler : Handlers \cup {Junk}, free : BOOLEAN]
  <2>1. handles[k].handler \in Handlers \cup {Junk}
    BY <1>2
  <2>2. Emptied(k) \in [handler : Handlers \cup {Junk}, free : BOOLEAN]
    BY <2>1
  <2> QED BY <1>2, <2>2
<1>7. SizeInv'
  <2>1. ASSUME NEW n, handles \in Slots(n)
        PROVE  handles' \in Slots(n)
    BY <1>3, <1>4, <1>6, <2>1 DEF Slots
  <2> QED BY <1>1, <2>1 DEF TableInv, SizeInv, Extended, Overrun
<1> HIDE DEF Hit, Emptied
<1>8. AddInv'
  <2>1. pc = "fill" => i \in DOMAIN handles
    BY Filling
  <2> QED BY <1>1, <1>5, <2>1 DEF TableInv, AddInv
<1>9. CopyInv'
  <2>1. CASE pc = "publish" /\ "handles" \in left
    <3>1. \A k : ~Hit(k)
      BY <2>1 DEF Hit
    <3>2. \A k \in DOMAIN handles : handles'[k] = handles[k]
      BY <1>2, <3>1
    <3> QED BY <1>1, <1>3, <2>1, <3>2 DEF TableInv, CopyInv, Extended
  <2>2. CASE ~(pc = "publish" /\ "handles" \in left)
    BY <1>1, <1>3, <1>5, <2>2 DEF TableInv, CopyInv, Extended
  <2> QED BY <2>1, <2>2
<1>10. RegisteredInv'
  <2>1. \A k \in DOMAIN handles : Holder(k)' = Holder(k)
    BY <1>1, <1>5 DEF Holder, Unfilled
  <2>2. Taken' = {k \in Taken : ~Hit(k)}
    BY <1>3, <1>5, <2>1 DEF Taken
  <2>3. \A k \in Taken : <<k, Holder(k)>> \in F <=> Hit(k)
    <3>1. ASSUME NEW k \in Taken, Hit(k)
          PROVE  <<k, Holder(k)>> \in F
      <4>1. PICK r \in F : r[1] = k
        BY <3>1 DEF Hit
      <4>2. PICK m \in Taken : r = <<m, Holder(m)>>
        BY DEF TableInv, RegisteredInv
      <4> QED BY <4>1, <4>2
    <3>2. ASSUME NEW k \in Taken, <<k, Holder(k)>> \in F
          PROVE  Hit(k)
      BY <3>2 DEF Hit
    <3> QED BY <3>1, <3>2
  <2>4. \A k \in Taken' : Holder(k)' = Holder(k)
    BY <2>1, <2>2 DEF Taken
  <2> QED BY <2>2, <2>3, <2>4 DEF TableInv, RegisteredInv
<1>11. CountInv'
  <2>1. IsFiniteSet(registered) /\ handle_used = Cardinality(registered) - Uncounted
    BY DEF TableInv, CountInv
  <2>2. /\ IsFiniteSet(registered \ F) /\ IsFiniteSet(F) /\ registered \cap F = F
        /\ Cardinality(registered \ F) = Cardinality(registered) - Cardinality(registered \cap F)
    BY <2>1, FS_Difference, FS_Subset
  <2>3. /\ Cardinality(registered) \in Nat /\ Cardinality(F) \in Nat
        /\ Uncounted \in Nat /\ UNCHANGED Uncounted
    BY <1>1, <2>1, <2>2, FS_CardinalityType DEF Uncounted
  <2>4. handle_used - Cardinality(F) = Cardinality(registered \ F) - Uncounted
    <3>1. Cardinality(registered \ F) = Cardinality(registered) - Cardinality(F)
      BY <2>2
    <3> QED BY <2>1, <2>3, <3>1
  <2> QED BY <2>2, <2>3, <2>4 DEF CountInv
<1> QED BY <1>7, <1>8, <1>9, <1>10, <1>11 DEF TableInv

LEMMA HandleFreeInv ==
  ASSUME TableInv, NEW r \in registered, HandleFree(r)
  PROVE  TableInv'
<1>1. /\ pc = "idle" /\ handles' = [handles EXCEPT ![r[1]].free = TRUE]
      /\ handle_used' = handle_used - 1 /\ registered' = registered \ {r}
      /\ UNCHANGED <<handle_total, driverVars>>
  BY DEF HandleFree
<1>2. r[1] \in DOMAIN handles
  BY DEF TableInv, RegisteredInv, Taken
<1>3. handles' = [k \in DOMAIN handles |->
                    IF \E f \in {r} : f[1] = k THEN [handles[k] EXCEPT !.free = TRUE]
                                               ELSE handles[k]]
  BY <1>1, <1>2
<1>4. handle_used' = handle_used - Cardinality({r})
  BY <1>1, FS_Singleton
<1>5. {r} \subseteq registered /\ pc # "publish"
  BY <1>1
<1> QED BY <1>1, <1>3, <1>4, <1>5, FreedInv

LEMMA InterruptInv ==
  ASSUME TableInv, NEW l \in Lines, Interrupt(l), mode' # "lost"
  PROVE  TableInv'
<1>1. Freed(l) \subseteq registered
  BY DEF Freed
<1>2. ~Stale(l)
  BY DEF Interrupt
<1> QED BY <1>1, <1>2, FreedInv DEF Interrupt, Stale

-----------------------------------------------------------------------------
LEMMA StepEInv == EInv /\ [Next]_vars => EInv'
<1> SUFFICES ASSUME EInv, [Next]_vars PROVE EInv'
  OBVIOUS
<1>1. CASE UNCHANGED vars
  BY <1>1, UnchangedTableInv DEF EInv, vars, interruptVars
<1>2. CASE Add \/ \E r \in registered : HandleFree(r)
  <2>1. mode \in {"off", "on"} /\ mode' = mode
    BY <1>2 DEF Add, HandleAdd, Realloc, PublishHandles, PublishTotal, Search, FillFields,
       ClearFree, Count, HandleFree, DriverRuns, interruptVars
  <2>2. TableInv
    BY <2>1 DEF EInv
  <2>3. TableInv'
    BY <1>2, <2>2, HandleAddInv, ReallocInv, PublishHandlesInv, PublishTotalInv, SearchInv,
       FillFieldsInv, ClearFreeInv, CountStepInv, HandleFreeInv DEF Add
  <2> QED BY <2>1, <2>3 DEF EInv
<1>3. CASE IdtTask \/ Return \/ \E l \in Lines : Request(l)
  <2>1. mode # "lost" /\ mode' \in {"off", "on", "stub"}
        /\ UNCHANGED <<tableVars, driverVars, registered>>
    BY <1>3 DEF IdtTask, Return, Request, EInv
  <2> QED BY <2>1, UnchangedTableInv DEF EInv
<1>4. ASSUME NEW l \in Lines, Interrupt(l)
      PROVE  EInv'
  <2>1. mode = "on" /\ mode' \in {"lost", "stub"}
    BY <1>4 DEF Interrupt
  <2> QED BY <1>4, <2>1, InterruptInv DEF EInv
<1> QED BY <1>1, <1>2, <1>3, <1>4 DEF Next

LEMMA EInvariance == Spec => []EInv
BY InitEInv, StepEInv, PTL DEF Spec

(* Between two calls of the driver handle_used counts the registered      *)
(* handles, and each of them is in its slot, although handlers free theirs *)
(* in the middle of handle_add.                                            *)
THEOREM Counted == Spec => []HandlesCounted
<1>1. EInv => HandlesCounted
  <2> SUFFICES ASSUME EInv, pc = "idle", mode # "lost"
               PROVE  /\ handle_used = Cardinality(registered)
                      /\ \A r \in registered : handles[r[1]] = Slot(r[2], FALSE)
    BY DEF HandlesCounted
  <2>1. TableInv
    BY DEF EInv
  <2>2. handle_used = Cardinality(registered)
    BY <2>1, FS_CardinalityType DEF TableInv, CountInv, Uncounted
  <2>3. ASSUME NEW r \in registered
        PROVE  handles[r[1]] = Slot(r[2], FALSE)
    <3>1. PICK k \in Taken : r = <<k, Holder(k)>>
      BY <2>1 DEF TableInv, RegisteredInv
    <3>2. /\ k \in DOMAIN handles /\ ~handles[k].free /\ Holder(k) = handles[k].handler
      BY DEF Taken, Holder, Unfilled
    <3>3. handles[k] \in [handler : Handlers \cup {Junk}, free : BOOLEAN]
      BY <2>1, <3>2 DEF TableInv, SizeInv, Slots, Extended, Overrun
    <3> QED BY <3>1, <3>2, <3>3 DEF Slot
  <2> QED BY <2>2, <2>3
<1> QED BY <1>1, EInvariance, PTL

(* An interrupt calls each handler registered for its event and nothing   *)
(* else, wherever in handle_add or handle_free it comes, unless it falls   *)
(* between two stores that the compiler has swapped.                       *)
THEOREM Reached == Spec => TriggerReaches
<1> DEFINE Reaches == \A l \in Lines : Interrupt(l) /\ mode' # "lost" =>
                        called' = {r \in registered : r[2].event = l}
<1>1. EInv /\ [Next]_vars => Reaches
  <2> SUFFICES ASSUME EInv, NEW l \in Lines, Interrupt(l), mode' # "lost"
               PROVE  called' = {r \in registered : r[2].event = l}
    OBVIOUS
  <2>1. TableInv /\ ~Torn /\ called' = {SlotAt(k) : k \in Matching(l)}
    BY DEF EInv, Interrupt
  <2>2. handle_total \in Nat /\ 0 .. handle_total - 1 \subseteq DOMAIN handles
    <3>1. ~Overrun
      BY <2>1 DEF Torn, Overrun
    <3> QED BY <2>1, <3>1, JunkUnregistered DEF TableInv, SizeInv, Slots
  <2>3. \A k : ~Unfilled(k)
    BY <2>1 DEF Torn, Unfilled
  <2>4. ASSUME NEW k \in DOMAIN handles
        PROVE  /\ k \in Matching(l) <=> k \in Taken /\ handles[k].handler.event = l
               /\ SlotAt(k) = <<k, Holder(k)>> /\ Holder(k) = handles[k].handler
    <3>1. Holder(k) = handles[k].handler /\ SlotAt(k) = <<k, Holder(k)>>
      BY <2>3 DEF Holder, SlotAt
    <3>2. /\ handles[k].handler \in Handlers \cup {Junk} /\ k \in Nat
      BY <2>1, <2>2, JunkUnregistered DEF TableInv, SizeInv, Slots
    <3>3. handles[k].handler.event = l => handles[k].handler \in Handlers
      BY <3>2, EventAssumption DEF Junk
    <3>4. handles[k].handler \in Handlers => k < handle_total
      <4>1. CASE Extended
        BY <2>1, <2>2, <3>2, <4>1, JunkUnregistered DEF TableInv, CopyInv
      <4>2. CASE ~Extended
        BY <2>1, <2>2, <3>2, <4>2 DEF TableInv, SizeInv, Slots, Torn, Overrun
      <4> QED BY <4>1, <4>2
    <3>5. k \in Matching(l) <=> k < handle_total /\ ~handles[k].free /\ handles[k].handler.event = l
      BY <2>2, <3>2 DEF Matching
    <3>6. k \in Taken <=> ~handles[k].free /\ handles[k].handler \in Handlers
      BY <3>1 DEF Taken
    <3> QED BY <3>1, <3>3, <3>4, <3>5, <3>6
  <2>5. Matching(l) \subseteq DOMAIN handles
    BY <2>2 DEF Matching
  <2>6. registered = {<<k, Holder(k)>> : k \in Taken} /\ Taken \subseteq DOMAIN handles
    BY <2>1 DEF TableInv, RegisteredInv, Taken
  <2>7. ASSUME NEW k \in Matching(l)
        PROVE  SlotAt(k) \in registered /\ SlotAt(k)[2].event = l
    BY <2>4, <2>5, <2>6, <2>7
  <2>8. ASSUME NEW r \in registered, r[2].event = l
        PROVE  r \in called'
    <3>1. PICK k \in Taken : r = <<k, Holder(k)>>
      BY <2>6
    <3>2. k \in Matching(l) /\ r = SlotAt(k)
      BY <2>4, <2>6, <2>8, <3>1
    <3> QED BY <2>1, <3>2
  <2> QED BY <2>1, <2>7, <2>8
<1>2. EInv /\ [Next]_vars => [Reaches]_vars
  BY <1>1
<1> QED BY <1>2, EInvariance, PTL DEF Spec, TriggerReaches
=============================================================================
