---------------------------- MODULE DeviceTable -----------------------------
(***************************************************************************)
(* nop/device.c: the table of devices, and the temporary devices of        *)
(* nop/temp.c in it. A device's name is a base and, for a driver's device, *)
(* a number; names are kept as that pair (-1: no number).                  *)
(*                                                                         *)
(* The table grows by realloc, and device_add reads the "free" field of    *)
(* slots that nobody has written: FreshFree holds the values that the      *)
(* memory may give it.                                                     *)
(***************************************************************************)
EXTENDS Integers, FiniteSets

CONSTANTS
  Bases,       \* the names drivers pass to device_add: "term", "pci", "disk"
  TempNames,   \* the names of temporary and opened devices: "root_list", ...
  Step,        \* DEVICE_ALLOC_STEP: 8
  FreshFree,   \* what the free field of unwritten memory reads as
  Closing,     \* whether devices are freed: tree_close, the caller of
               \* temp_free and device_free, has an empty body today
  MaxTotal     \* bound: the table does not grow beyond this

ASSUME TableAssumption ==
  /\ Bases \cap TempNames = {}
  /\ Step \in Nat \ {0} /\ MaxTotal \in Nat
  /\ FreshFree \subseteq BOOLEAN /\ FreshFree # {}
  /\ Closing \in BOOLEAN

VARIABLES
  devices,       \* the slots, 0 .. device_total - 1
  device_used,
  device_total,
  handles,       \* history: what device_add returned, until it is freed
  result         \* history: what the last call of device_add returned

table == <<devices, device_used, device_total>>
deviceVars == <<table, handles, result>>

Ids == 0 .. device_total - 1

Junk(free) == [free |-> free, name |-> <<"junk", -1>>, public |-> FALSE]

DeviceInit ==
  /\ devices = [i \in {} |-> Junk(TRUE)]
  /\ device_used = 0 /\ device_total = 0
  /\ handles = {} /\ result = 0

-----------------------------------------------------------------------------
(* The table that device_add works on: what realloc returned, if it grew.  *)
Grown(junk, total) ==
  [i \in 0 .. total - 1 |->
     IF i < device_total THEN devices[i] ELSE Junk(junk[i])]

(* Variant: the table grows only when its size has been passed. *)
NewTotalLate == IF device_used > device_total THEN device_total + Step
                                              ELSE device_total

NewTotal == IF device_used >= device_total THEN device_total + Step
                                           ELSE device_total

FreeSlots(d) == {i \in DOMAIN d : d[i].free}

(* Variant: the slot at device_used is taken. *)
FirstFreeCount(d) == IF FreeSlots(d) = {} THEN -1 ELSE device_used

FirstFree(d) ==
  IF FreeSlots(d) = {} THEN -1
    ELSE CHOOSE i \in FreeSlots(d) : \A j \in FreeSlots(d) : i <= j

(* Variant: the first slot with the base is taken for the last. *)
SuffixFirst(d, i, base) ==
  LET same == {j \in DOMAIN d \ {i} : d[j].name[1] = base /\ d[j].name[2] >= 0}
  IN  IF same = {} THEN 0
        ELSE LET first == CHOOSE j \in same : \A k \in same : j <= k
             IN  d[first].name[2] + 1

(* The number after that of the last slot with the same base, whether that *)
(* slot is in use or not.                                                  *)
Suffix(d, i, base) ==
  LET same == {j \in DOMAIN d \ {i} : d[j].name[1] = base /\ d[j].name[2] >= 0}
  IN  IF same = {} THEN 0
        ELSE LET last == CHOOSE j \in same : \A k \in same : k <= j
             IN  d[last].name[2] + 1

(* device_add. *)
Add(base, public, no_suffix) ==
  /\ NewTotal <= MaxTotal
  /\ \E junk \in [device_total .. NewTotal - 1 -> FreshFree] :
       LET d == Grown(junk, NewTotal)
           i == FirstFree(d)
           name == <<base, IF no_suffix THEN -1 ELSE Suffix(d, i, base)>>
       IN  /\ device_total' = NewTotal
           /\ result' = i
           /\ IF i < 0
                THEN /\ devices' = d
                     /\ UNCHANGED <<device_used, handles>>
                ELSE /\ devices' = [d EXCEPT ![i] =
                          [free |-> FALSE, name |-> name, public |-> public]]
                     /\ device_used' = device_used + 1
                     /\ handles' = handles \cup {<<i, name, public>>}

AddDriver(base) == Add(base, TRUE, FALSE)

(* temp_alloc, and pci_open's device. *)
AddTemp(name) == Add(name, FALSE, TRUE)

(* device_find: the first slot in use with exactly this name. *)
Find(name) ==
  LET same == {i \in Ids : ~devices[i].free /\ devices[i].name = name}
  IN  IF same = {} THEN -1 ELSE CHOOSE i \in same : \A j \in same : i <= j

(* device_free, by the owner of a temporary device. *)
Free(h) ==
  /\ h \in handles
  /\ devices' = [devices EXCEPT ![h[1]].free = TRUE]
  /\ device_used' = device_used - 1
  /\ handles' = handles \ {h}
  /\ UNCHANGED <<device_total, result>>

-----------------------------------------------------------------------------
Names == (Bases \cup TempNames \cup {"junk"}) \X (-1 .. MaxTotal)

DeviceTypeOK ==
  /\ device_total \in 0 .. MaxTotal
  /\ devices \in [Ids -> [free : BOOLEAN, name : Names, public : BOOLEAN]]
  /\ device_used \in 0 .. device_total
  /\ handles \subseteq Ids \X Names \X BOOLEAN
  /\ result \in -1 .. MaxTotal - 1

(* A slot that device_add gave out keeps its device until it is freed,     *)
(* whatever is added or freed around it, and no two callers share a slot.  *)
HandlesKept ==
  /\ \A h \in handles :
       devices[h[1]] = [free |-> FALSE, name |-> h[2], public |-> h[3]]
  /\ \A g, h \in handles : g[1] = h[1] => g = h

(* A driver's device is found by its name, and only that device: two never *)
(* get the same number (as long as nothing is freed: see the README).      *)
FoundByName == \A h \in handles : h[3] => Find(h[2]) = h[1]
=============================================================================
