------------------------------ MODULE PciTree -------------------------------
(***************************************************************************)
(* nop/tree/pci.c, from the scan for functions to the listing, opening and *)
(* closing of them, over the table of nop/device.c, with the temporary     *)
(* files of nop/temp.c that hold the listings and the pci_device_t of      *)
(* every opened function, each behind the data pointer of its device.      *)
(*                                                                         *)
(* An address is a slot's number times FuncMax plus a function's number.   *)
(* The unit of a file is an entry, a list_t: that is what is written and   *)
(* read. tree_close does not call pci_close yet: Closing says if it does.  *)
(***************************************************************************)
EXTENDS DeviceTable, Sequences, SequencesExt

CONSTANTS
  FuncMax,     \* functions of a slot: 8
  SlotCount,   \* slots of all buses: 8192
  AddressRadix, Digits,  \* of a listed address: 16 and 4
  Hardware,    \* the machines: [present |-> addresses, multi |-> slots whose
               \* function 0 has bit 7 of header_type]
  Distances,   \* offsets to seek by, in entries
  MaxHeap      \* bound: allocations live at a time

Slots == 0 .. SlotCount - 1
Addrs == 0 .. SlotCount * FuncMax - 1

ASSUME PciTreeAssumption ==
  /\ FuncMax \in Nat \ {0} /\ SlotCount \in Nat \ {0}
  /\ AddressRadix \in Nat \ {0, 1} /\ Digits \in Nat /\ AddressRadix ^ Digits >= SlotCount * FuncMax
  /\ Hardware \subseteq [present : SUBSET Addrs, multi : SUBSET Slots]
  /\ Distances \subseteq Int /\ MaxHeap \in Nat
  /\ "pci" \in Bases /\ {"pci_list", "pci_open"} \subseteq TempNames

(* The powers of the radix that an address's digits are taken with. *)
ASSUME DigitAssumption ==
  /\ AddressRadix ^ 0 = 1
  /\ \A d \in 0 .. Digits - 1 : AddressRadix ^ (d + 1) = AddressRadix ^ d * AddressRadix

VARIABLES
  machine,
  found,     \* pci->devices
  slot, i, addr,   \* the locals of pci_init and pci_test
  heap,      \* what malloc has given out: pointer -> temp_t or pci_device_t
  data,      \* the data field of the devices' slots
  list,      \* pci_list's local: the file it is writing
  asked,     \* history: the address whose name a function was opened by
  doing

scanVars == <<machine, found, slot, i, addr>>
fileVars == <<heap, data, list, asked>>
pciVars == <<deviceVars, scanVars, fileVars, doing>>

PciInit ==
  /\ DeviceInit
  /\ machine \in Hardware
  /\ found = <<>> /\ slot = 0 /\ i = 0 /\ addr = 0
  /\ heap = [p \in {} |-> 0] /\ data = [d \in {} |-> 0]
  /\ list = -1 /\ asked = [d \in {} |-> 0]
  /\ doing = "task"

-----------------------------------------------------------------------------
(* pci_task adds the bus device, and root_mount calls pci_init for it.     *)

AddBus ==
  /\ doing = "task"
  /\ AddDriver("pci")
  /\ doing' = "scan"
  /\ UNCHANGED <<scanVars, fileVars>>

NextSlot ==
  /\ slot' = slot + 1
  /\ i' = 0 /\ addr' = (slot + 1) * FuncMax
  /\ doing' = IF slot + 1 \in Slots THEN "scan" ELSE "idle"

NextFunction(a) ==
  IF i + 1 = FuncMax THEN NextSlot
    ELSE i' = i + 1 /\ addr' = a /\ UNCHANGED <<slot, doing>>

(* Nothing answers at addr: the loop goes on without addr++. *)
ScanAbsent ==
  /\ doing = "scan" /\ addr \notin machine.present
  /\ NextFunction(addr)
  /\ UNCHANGED <<deviceVars, fileVars, machine, found>>

(* Variant: the header type of every function is looked at. *)
ScanPresentEach ==
  /\ doing = "scan" /\ addr \in machine.present
  /\ found' = Append(found, addr)
  /\ IF slot \notin machine.multi THEN NextSlot ELSE NextFunction(addr)
  /\ UNCHANGED <<deviceVars, fileVars, machine>>

ScanPresent ==
  /\ doing = "scan" /\ addr \in machine.present
  /\ found' = Append(found, addr)
  /\ IF i = 0 /\ slot \notin machine.multi THEN NextSlot
                                           ELSE NextFunction(addr + 1)
  /\ UNCHANGED <<deviceVars, fileVars, machine>>

-----------------------------------------------------------------------------
(* lib/digits.c: ulong_to_str_align(addr, 16, name, 4) and                 *)
(* str_to_ulong(16, name, 4).                                              *)

Name(a) == [d \in 1 .. Digits |-> (a \div AddressRadix ^ (Digits - d)) % AddressRadix]

Address(name) ==
  LET value[d \in 0 .. Digits] ==
        IF d = 0 THEN 0 ELSE value[d - 1] * AddressRadix + name[d]
  IN  value[Digits]

-----------------------------------------------------------------------------
(* nop/temp.c. *)

Temp(size) == [kind |-> "temp", size |-> size, offset |-> 0,
               bytes |-> [k \in 1 .. size |-> <<>>]]

(* An offset past the end would make the room wrap around. *)
Room(t, m) == IF t.offset <= t.size /\ m > t.size - t.offset
                THEN t.size - t.offset ELSE m

(* Variant: the offset is not advanced. *)
TempWriteHere(t, e) ==
  IF Room(t, 1) = 0 THEN t ELSE [t EXCEPT !.bytes[t.offset + 1] = e]

TempWrite(t, e) ==
  IF Room(t, 1) = 0 THEN t
    ELSE [t EXCEPT !.bytes[t.offset + 1] = e, !.offset = t.offset + 1]

TempSeek(t, position) ==
  [t EXCEPT !.offset = IF position < 0 THEN 0
                         ELSE IF position > t.size THEN t.size ELSE position]

-----------------------------------------------------------------------------
(* malloc's pointer: the first that is not in use. *)
NewPointer == CHOOSE p \in 1 .. MaxHeap :
                p \notin DOMAIN heap /\ \A q \in 1 .. p - 1 : q \in DOMAIN heap

(* A device of the given name whose data is a new allocation. *)
AddWith(name, content) ==
  /\ Cardinality(DOMAIN heap) < MaxHeap
  /\ AddTemp(name)
  /\ heap' = [p \in DOMAIN heap \cup {NewPointer} |->
                IF p = NewPointer THEN content ELSE heap[p]]
  /\ data' = IF result' < 0 THEN data
             ELSE [d \in DOMAIN data \cup {result'} |->
                     IF d = result' THEN NewPointer ELSE data[d]]

(* pci_list. A file that could not be added is written through device -1.  *)
ListBegin ==
  /\ doing = "idle"
  /\ AddWith("pci_list", Temp(Len(found)))
  /\ list' = result'
  /\ i' = 0
  /\ doing' = IF result' < 0 THEN "wild" ELSE "list"
  /\ UNCHANGED <<machine, found, slot, addr, asked>>

ListEntry ==
  /\ doing = "list" /\ i < Len(found)
  /\ heap' = [heap EXCEPT ![data[list]] = TempWrite(@, Name(found[i + 1]))]
  /\ i' = i + 1
  /\ UNCHANGED <<deviceVars, machine, found, slot, addr, data, list, asked, doing>>

ListEnd ==
  /\ doing = "list" /\ i = Len(found)
  /\ heap' = [heap EXCEPT ![data[list]] = TempSeek(@, 0)]
  /\ list' = -1 /\ i' = 0
  /\ doing' = "idle"
  /\ UNCHANGED <<deviceVars, machine, found, slot, addr, data, asked>>

(* pci_open, by the name of a listed address. It falls off its end without *)
(* a return: its value is what device_add left in the register.            *)
Open(a) ==
  /\ doing = "idle"
  /\ AddWith("pci_open", [kind |-> "func", addr |-> Address(Name(a))])
  /\ asked' = IF result' < 0 THEN asked
              ELSE [d \in DOMAIN asked \cup {result'} |->
                      IF d = result' THEN a ELSE asked[d]]
  /\ UNCHANGED <<scanVars, list, doing>>

Lists == {h \in handles : h[2] = <<"pci_list", -1>>}
Opens == {h \in handles : h[2] = <<"pci_open", -1>>}

File(h) == heap[data[h[1]]]

(* device_read of one entry, through the device; at the end it is short.   *)
Read(h) ==
  /\ doing = "idle" /\ h \in Lists
  /\ Room(File(h), 1) = 1
  /\ heap' = [heap EXCEPT ![data[h[1]]].offset = @ + 1]
  /\ UNCHANGED <<deviceVars, scanVars, data, list, asked, doing>>

Seek(h) ==
  /\ doing = "idle" /\ h \in Lists
  /\ \E base \in {0, File(h).offset, File(h).size}, d \in Distances :
       heap' = [heap EXCEPT ![data[h[1]]] = TempSeek(@, base + d)]
  /\ UNCHANGED <<deviceVars, scanVars, data, list, asked, doing>>

(* pci_close: temp_free, or device_free alone, which leaves the allocation *)
(* of an opened function behind ("TODO").                                  *)
Close(h) ==
  /\ doing = "idle" /\ h \in Lists \cup Opens
  /\ Free(h)
  /\ heap' = IF h \in Lists THEN [p \in DOMAIN heap \ {data[h[1]]} |-> heap[p]] ELSE heap
  /\ UNCHANGED <<scanVars, data, list, asked, doing>>

PciNext ==
  \/ AddBus \/ ScanAbsent \/ ScanPresent
  \/ ListBegin \/ ListEntry \/ ListEnd
  \/ \E a \in ToSet(found) : Open(a)
  \/ \E h \in handles : Read(h) \/ Seek(h) \/ (Closing /\ Close(h))

PciSpec == PciInit /\ [][PciNext]_pciVars

-----------------------------------------------------------------------------
(* The functions a slot shows: function 0, and if it says that there are   *)
(* more, those after it up to the first gap.                               *)
Reachable(a) ==
  LET first == a - (a % FuncMax) IN
  /\ first .. a \subseteq machine.present
  /\ a = first \/ a \div FuncMax \in machine.multi

(* The scan finds each of these once, in order, and nothing that does not  *)
(* answer; a function behind a gap is not among them.                      *)
ScanFinds ==
  doing \notin {"task", "scan"} =>
    /\ ToSet(found) = {a \in Addrs : Reachable(a)}
    /\ \A j, k \in DOMAIN found : j < k => found[j] < found[k]

(* Every open listing holds the names of all found functions, in order,    *)
(* and is positioned inside itself, whatever else is listed, opened, read, *)
(* closed or put in its slot or its memory's place before and after it.    *)
ListingWhole ==
  \A h \in Lists : doing # "wild" /\ h[1] # list =>
    /\ data[h[1]] \in DOMAIN heap
    /\ File(h).kind = "temp" /\ File(h).offset \in 0 .. File(h).size
    /\ File(h).bytes = [k \in 1 .. Len(found) |-> Name(found[k])]

(* A function's device addresses the function by whose listed name it was  *)
(* opened, until it is closed.                                             *)
OpensOwn ==
  \A h \in Opens : data[h[1]] \in DOMAIN heap /\ File(h) = [kind |-> "func", addr |-> asked[h[1]]]

(* An open device of the PCI tree keeps its slot, and behind it what was   *)
(* put there: a list all functions, a function's device that address.      *)
FilesKept == HandlesKept /\ ListingWhole /\ OpensOwn
=============================================================================
