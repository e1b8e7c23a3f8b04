----------------------------- MODULE EventTable -----------------------------
(***************************************************************************)
(* nop/event.c under the interrupts of nop/arch/i386/tasks/idt.c: drivers  *)
(* add and free handles in a table, and an interrupt, whose stub in        *)
(* idt.asm triggers the event of its line, may come between any two steps  *)
(* of theirs. This is the one place where the kernel preempts itself. The  *)
(* drivers that would add handles are not written yet: what they may do is *)
(* what nop/event.h offers them. Their handlers do not allocate memory.    *)
(*                                                                         *)
(* handle_add stores in ordinary memory, so that the compiler may swap the *)
(* two stores after realloc (GCC does at -Os), and clear the free field    *)
(* before it has copied the others (GCC does at -O2). An interrupt between *)
(* two swapped stores meets a table in pieces: what it calls then, and all *)
(* that follows, is not modelled (mode "lost").                            *)
(***************************************************************************)
EXTENDS Integers, FiniteSets

CONSTANTS
  Lines,       \* the interrupt lines that devices use, of 0 .. 15
  Handlers,    \* what drivers register: the event, and whether it is for
               \* once: the handler then frees its handle
  Step,        \* HANDLE_ALLOC_STEP: 8
  FreshFree,   \* what the free field of unwritten memory reads as
  MaxTotal     \* bound: the table does not grow beyond this

ASSUME EventAssumption ==
  /\ Lines \subseteq 0 .. 15
  /\ Handlers \subseteq [event : Lines, once : BOOLEAN]
  /\ Step \in Nat \ {0} /\ MaxTotal \in Nat
  /\ FreshFree \subseteq BOOLEAN /\ FreshFree # {}

VARIABLES
  handles,       \* the slots of the table that the pointer points to
  handle_used, handle_total,
  pc,            \* where the driver is in handle_add
  new,           \* its argument; while it grows the table, also the copy
  i,             \* its counter
  left,          \* which of two stores it has still to make
  mode, line,    \* interrupts are "off", "on" or "lost", or line's "stub" runs
  irr,           \* lines that request an interrupt
  master, slave, \* what the two PICs have in service; 2 is the cascade
  registered,    \* history: the handles added and not yet freed, by slot
  called         \* history: what the event of the stub has called

tableVars == <<handles, handle_used, handle_total>>
driverVars == <<pc, new, i, left>>
picVars == <<irr, master, slave>>
interruptVars == <<mode, line, picVars, called>>
vars == <<tableVars, driverVars, interruptVars, registered>>

(* The name that unwritten memory holds is no event's. *)
Junk == [event |-> -1, once |-> FALSE]

Slot(handler, free) == [handler |-> handler, free |-> free]

Nothing == [handler |-> Junk, table |-> <<>>]

Init ==
  /\ handles = [k \in {} |-> Slot(Junk, TRUE)]  \* NULL
  /\ handle_used = 0 /\ handle_total = 0
  /\ pc = "idle" /\ new = Nothing /\ i = 0 /\ left = {}
  /\ mode = "off" /\ line = 0
  /\ irr = {} /\ master = {} /\ slave = {}
  /\ registered = {} /\ called = {}

-----------------------------------------------------------------------------
(* A driver runs while no interrupt is being handled. *)
DriverRuns == mode \in {"off", "on"}

(* Variant: the size is raised before realloc is called. *)
HandleAddEarly(h) ==
  /\ DriverRuns /\ pc = "idle" /\ handle_total + Step <= MaxTotal
  /\ IF handle_used >= handle_total
       THEN handle_total' = handle_total + Step /\ pc' = "realloc"
       ELSE pc' = "search" /\ UNCHANGED handle_total
  /\ new' = [handler |-> h, table |-> <<>>] /\ i' = 0
  /\ UNCHANGED <<handles, handle_used, left, interruptVars, registered>>

HandleAdd(h) ==
  /\ DriverRuns /\ pc = "idle"
  /\ handle_used >= handle_total => handle_total + Step <= MaxTotal
  /\ pc' = IF handle_used >= handle_total THEN "realloc" ELSE "search"
  /\ new' = [handler |-> h, table |-> <<>>] /\ i' = 0
  /\ UNCHANGED <<tableVars, left, interruptVars, registered>>

(* realloc copies the table and frees it; what it held stays in the freed   *)
(* memory until the next allocation, and the pointer still points there.    *)
Realloc ==
  /\ DriverRuns /\ pc = "realloc"
  /\ LET slots == 0 .. handle_total + Step - 1
     IN  \E junk \in [slots \ DOMAIN handles -> FreshFree] :
           new' = [new EXCEPT !.table =
                     [k \in slots |-> IF k \in DOMAIN handles THEN handles[k]
                                      ELSE Slot(Junk, junk[k])]]
  /\ pc' = "publish" /\ left' = {"handles", "total"}
  /\ UNCHANGED <<tableVars, i, interruptVars, registered>>

PublishHandles ==
  /\ DriverRuns /\ pc = "publish" /\ "handles" \in left
  /\ handles' = new.table /\ new' = [new EXCEPT !.table = <<>>]
  /\ left' = left \ {"handles"}
  /\ pc' = IF left' = {} THEN "search" ELSE pc
  /\ UNCHANGED <<handle_used, handle_total, i, interruptVars, registered>>

PublishTotal ==
  /\ DriverRuns /\ pc = "publish" /\ "total" \in left
  /\ handle_total' = handle_total + Step
  /\ left' = left \ {"total"}
  /\ pc' = IF left' = {} THEN "search" ELSE pc
  /\ UNCHANGED <<handles, handle_used, new, i, interruptVars, registered>>

(* Variant: the slot that handle_used counts up to is taken for free. *)
SearchAtCount ==
  /\ DriverRuns /\ pc = "search"
  /\ i' = handle_used /\ pc' = "fill" /\ left' = {"fields", "free"}
  /\ UNCHANGED <<tableVars, new, interruptVars, registered>>

(* One turn of the loop; handle_add returns -1 at its end. *)
Search ==
  /\ DriverRuns /\ pc = "search"
  /\ \/ i = handle_total /\ pc' = "idle" /\ new' = Nothing /\ UNCHANGED <<i, left>>
     \/ i < handle_total /\ handles[i].free
          /\ pc' = "fill" /\ left' = {"fields", "free"} /\ UNCHANGED <<new, i>>
     \/ i < handle_total /\ ~handles[i].free
          /\ i' = i + 1 /\ UNCHANGED <<pc, new, left>>
  /\ UNCHANGED <<tableVars, interruptVars, registered>>

FillFields ==
  /\ DriverRuns /\ pc = "fill" /\ "fields" \in left
  /\ handles' = [handles EXCEPT ![i].handler = new.handler]
  /\ left' = left \ {"fields"}
  /\ pc' = IF left' = {} THEN "count" ELSE pc
  /\ UNCHANGED <<handle_used, handle_total, new, i, interruptVars, registered>>

ClearFree ==
  /\ DriverRuns /\ pc = "fill" /\ "free" \in left
  /\ handles' = [handles EXCEPT ![i].free = FALSE]
  /\ registered' = registered \cup {<<i, new.handler>>}
  /\ left' = left \ {"free"}
  /\ pc' = IF left' = {} THEN "count" ELSE pc
  /\ UNCHANGED <<handle_used, handle_total, new, i, interruptVars>>

Count ==
  /\ DriverRuns /\ pc = "count"
  /\ handle_used' = handle_used + 1
  /\ pc' = "idle" /\ new' = Nothing /\ i' = 0
  /\ UNCHANGED <<handles, handle_total, left, interruptVars, registered>>

(* handle_free by the driver that added the handle; one whose handler frees *)
(* it is left to the handler.                                               *)
HandleFree(r) ==
  /\ DriverRuns /\ pc = "idle" /\ r \in registered /\ ~r[2].once
  /\ handles' = [handles EXCEPT ![r[1]].free = TRUE]
  /\ handle_used' = handle_used - 1
  /\ registered' = registered \ {r}
  /\ UNCHANGED <<handle_total, driverVars, interruptVars>>

-----------------------------------------------------------------------------
(* idt_task: relocates the PICs, unmasks their lines and sets IF. *)
IdtTask ==
  /\ mode = "off" /\ mode' = "on"
  /\ UNCHANGED <<tableVars, driverVars, line, picVars, registered, called>>

Request(l) ==
  /\ mode # "lost" /\ l \notin irr /\ irr' = irr \cup {l}
  /\ UNCHANGED <<tableVars, driverVars, mode, line, master, slave, registered, called>>

(* The input of the master that a line comes in on, and the order in which *)
(* the PICs serve the lines: 0, 1, 8 .. 15, 3 .. 7.                        *)
Input(l) == IF l >= 8 THEN 2 ELSE l
Before(k, l) == Input(k) < Input(l) \/ (Input(k) = Input(l) /\ k < l)

(* The most urgent request, unless something as urgent is in service. *)
Accepted(l) ==
  /\ l \in irr /\ \A k \in irr : ~Before(k, l)
  /\ \A m \in master : Input(l) < m
  /\ l >= 8 => \A s \in slave : l < s

(* Slots below handle_total that event_trigger takes for handles of the event. *)
Matching(l) == {k \in 0 .. handle_total - 1 :
                  k \notin DOMAIN handles \/ (~handles[k].free /\ handles[k].handler.event = l)}

SlotAt(k) == IF k \in DOMAIN handles THEN <<k, handles[k].handler>> ELSE <<k, Junk>>

Freed(l) == {r \in registered : r[2].event = l /\ r[2].once}

(* The stores that handle_add makes together are not both done. *)
Torn ==
  \/ pc = "publish" /\ left = {"handles"}
  \/ pc = "fill" /\ left = {"fields"}

(* A once handler frees its handle in a table that has been copied. *)
Stale(l) == pc = "publish" /\ "handles" \in left /\ Freed(l) # {}

(* The processor takes the interrupt, and its gate clears IF; idt_handle    *)
(* then triggers the event. Nothing interrupts the stub before its iret.    *)
Interrupt(l) ==
  /\ mode = "on" /\ Accepted(l)
  /\ irr' = irr \ {l}
  /\ master' = master \cup {Input(l)}
  /\ slave' = IF l >= 8 THEN slave \cup {l} ELSE slave
  /\ called' = {SlotAt(k) : k \in Matching(l)}
  /\ mode' = IF Torn \/ Stale(l) THEN "lost" ELSE "stub"
  /\ line' = l
  /\ handles' = [k \in DOMAIN handles |->
                   IF \E r \in Freed(l) : r[1] = k THEN [handles[k] EXCEPT !.free = TRUE]
                                                   ELSE handles[k]]
  /\ handle_used' = handle_used - Cardinality(Freed(l))
  /\ registered' = registered \ Freed(l)
  /\ UNCHANGED <<handle_total, driverVars>>

(* A non-specific end of interrupt is about the most urgent in service. *)
Ended(isr) == {m \in isr : \E k \in isr : k < m}

(* Variant: the end of interrupt goes to the master only. *)
ReturnMaster ==
  /\ mode = "stub" /\ mode' = "on"
  /\ line' = 0 /\ called' = {}
  /\ master' = Ended(master) /\ UNCHANGED slave
  /\ UNCHANGED <<tableVars, driverVars, irr, registered>>

(* The end of the stub: it tells the PICs, and iret sets IF. *)
Return ==
  /\ mode = "stub" /\ mode' = "on"
  /\ line' = 0 /\ called' = {}
  /\ master' = Ended(master)
  /\ slave' = IF line >= 8 THEN Ended(slave) ELSE slave
  /\ UNCHANGED <<tableVars, driverVars, irr, registered>>

-----------------------------------------------------------------------------
Add ==
  \/ \E h \in Handlers : HandleAdd(h)
  \/ Realloc \/ PublishHandles \/ PublishTotal
  \/ Search \/ FillFields \/ ClearFree \/ Count

Next ==
  \/ Add
  \/ \E r \in registered : HandleFree(r)
  \/ IdtTask
  \/ \E l \in Lines : Request(l) \/ Interrupt(l)
  \/ Return

(* The processor takes an accepted request, the handlers return (the code   *)
(* they are in has no wait), and the boot reaches the end of idt_task.      *)
Spec ==
  /\ Init /\ [][Next]_vars
  /\ WF_vars(IdtTask) /\ WF_vars(Return)
  /\ \A l \in Lines : WF_vars(Interrupt(l))

-----------------------------------------------------------------------------
(* An interrupt calls the handlers registered for its event, each of them   *)
(* and nothing else, at whatever point of handle_add or handle_free it      *)
(* comes: also while the table is in freed memory, while unwritten slots    *)
(* read as taken, and while a slot is half written. Between stores that the *)
(* compiler has swapped this is not so (mode "lost").                       *)
TriggerReaches ==
  [][\A l \in Lines : Interrupt(l) /\ mode' # "lost" =>
       called' = {r \in registered : r[2].event = l}]_vars

(* Between two calls of the driver handle_used is the number of handles,    *)
(* although handlers free theirs while handle_add is under way.             *)
HandlesCounted ==
  pc = "idle" /\ mode # "lost" =>
    /\ handle_used = Cardinality(registered)
    /\ \A r \in registered : handles[r[1]] = Slot(r[2], FALSE)

(* No line stays blocked: a request is served unless a more urgent one is   *)
(* there, for every end of interrupt reaches the PIC it is for.             *)
RequestServed ==
  \A l \in Lines :
    (l \in irr) ~> (l \notin irr \/ mode = "lost" \/ \E k \in irr : Before(k, l))
=============================================================================
