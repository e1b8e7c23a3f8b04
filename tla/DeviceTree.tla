----------------------------- MODULE DeviceTree -----------------------------
(***************************************************************************)
(* The boot after memory is up (nop/start.c): each task adds devices to    *)
(* the table, after each task nop/tree/root.c mounts what can be mounted,  *)
(* and nop/tree.c resolves names to the mounted trees for ahci_task's walk *)
(* over PCI and for tree_show.                                             *)
(*                                                                         *)
(* strcmp of lib/string.c compares only the length of its first argument,  *)
(* and tree_list and tree_open compare only that of the path: both are     *)
(* prefix tests, in opposite directions.                                   *)
(***************************************************************************)
EXTENDS DeviceTable, Sequences, SequencesExt

CONSTANTS
  Radix,      \* of the numbers in names: 10
  MaxTerms,   \* bound: terminals (text and serial ports)
  MaxFuncs,   \* bound: PCI functions that ahci_task opens
  MaxDisks    \* bound: drives found on all controllers

(* The powers of the radix that a name's number can be divided by. *)
ASSUME PowerAssumption ==
  /\ Radix \in Nat \ {0, 1}
  /\ Radix ^ 0 = 1
  /\ \A k \in 0 .. MaxTotal - 1 : Radix ^ (k + 1) = Radix ^ k * Radix

VARIABLES
  mbr,       \* the disks that hold a partition table mbr_init accepts
  childs,    \* root.childs: the mounted trees, a sequence of names and ids
  listing,   \* the entries of the last root_list
  reached,   \* the tree that the last tree_list below the root came to
  cursor,    \* root_mount's loop variable
  task,      \* the next task
  pc

treeVars == <<mbr, childs, listing, reached, cursor, task, pc>>
vars == <<deviceVars, treeVars>>

None == [entry |-> <<"none", -1>>, child |-> <<"none", -1>>]

Init ==
  /\ DeviceInit
  /\ mbr \in SUBSET (0 .. MaxDisks - 1)
  /\ childs = <<>> /\ listing = {} /\ reached = None
  /\ cursor = 0 /\ task = "text" /\ pc = "log"

-----------------------------------------------------------------------------
(* Names. *)

(* Variant: the numbers are not compared. *)
IsStartBase(a, b) == a[1] = b[1]

(* Whether the text of name a is the start of the text of name b. *)
IsStart(a, b) ==
  /\ a[1] = b[1]
  /\ \/ a[2] = b[2] \/ a[2] = -1
     \/ a[2] > 0 /\ \E k \in 0 .. MaxTotal : b[2] \div Radix ^ k = a[2]

Named(base) == {h \in handles : h[2][1] = base}

(* tree_init's result: mbr_init takes a disk with a good table and pci_init *)
(* a PCI bus; root_init takes none of them.                                 *)
Mountable(name) ==
  \/ name[1] = "pci"
  \/ name[1] = "disk" /\ name[2] \in mbr

-----------------------------------------------------------------------------
(* nop/tree/root.c. *)

Shown(i) == ~devices[i].free /\ devices[i].public

(* The same strcmp decides what is mounted already and what can be listed. *)
HasTree(name) == \E j \in DOMAIN childs : IsStart(childs[j].name, name)

(* Variant: a device that cannot be mounted ends the pass. *)
MountGivesUp ==
  /\ pc = "mount" /\ cursor < device_total
  /\ LET name == devices[cursor].name IN
       IF Shown(cursor) /\ ~HasTree(name) /\ Mountable(name)
         THEN /\ childs' = Append(childs, [name |-> name, id |-> cursor])
              /\ cursor' = cursor + 1
         ELSE /\ cursor' = IF Shown(cursor) /\ ~HasTree(name)
                             THEN device_total ELSE cursor + 1
              /\ UNCHANGED childs
  /\ UNCHANGED <<deviceVars, mbr, listing, reached, task, pc>>

(* Variant: what is mounted already is not looked up. *)
MountAgain ==
  /\ pc = "mount" /\ cursor < device_total
  /\ LET name == devices[cursor].name IN
       IF Shown(cursor) /\ Mountable(name)
         THEN childs' = Append(childs, [name |-> name, id |-> cursor])
         ELSE UNCHANGED childs
  /\ cursor' = cursor + 1
  /\ UNCHANGED <<deviceVars, mbr, listing, reached, task, pc>>

(* One turn of root_mount's loop. *)
MountNext ==
  /\ pc = "mount" /\ cursor < device_total
  /\ LET name == devices[cursor].name IN
       IF Shown(cursor) /\ ~HasTree(name) /\ Mountable(name)
         THEN childs' = Append(childs, [name |-> name, id |-> cursor])
         ELSE UNCHANGED childs
  /\ cursor' = cursor + 1
  /\ UNCHANGED <<deviceVars, mbr, listing, reached, task, pc>>

MountEnd ==
  /\ pc = "mount" /\ cursor = device_total
  /\ cursor' = 0
  /\ pc' = IF task = "none" THEN "show" ELSE "task"
  /\ UNCHANGED <<deviceVars, mbr, childs, listing, reached, task>>

(* root_list: an entry for each public device. A list that could not be    *)
(* added would be written through device -1.                               *)
RootList(next) ==
  /\ AddTemp("root_list")
  /\ listing' = {[name |-> devices[i].name, can_list |-> HasTree(devices[i].name)] :
                   i \in {j \in Ids : Shown(j)}}
  /\ pc' = IF result' < 0 THEN "wild" ELSE next

(* tree_list of an entry of the root: root_list declines, and the children *)
(* whose name starts with the entry's are tried in order. Both pci_list    *)
(* and mbr_list answer the empty rest of the path.                         *)
Matches(name) == {j \in DOMAIN childs : IsStart(name, childs[j].name)}

TreeList(name, next) ==
  /\ Matches(name) # {}
  /\ LET j == CHOOSE k \in Matches(name) : \A m \in Matches(name) : k <= m
     IN  reached' = [entry |-> name, child |-> childs[j].name]
  /\ AddTemp("list")
  /\ pc' = IF result' < 0 THEN "wild" ELSE next

-----------------------------------------------------------------------------
(* The tasks, in the order of nop/arch/i386/start.c; idt adds no device.   *)

EndTask(next) ==
  /\ pc' = "mount" /\ cursor' = 0
  /\ task' = next

(* log_init leaves the early log mode; its parameter, a device's name, is  *)
(* not used. tree_init of the root follows.                                *)
LogInit ==
  /\ pc = "log"
  /\ pc' = "task"
  /\ UNCHANGED <<deviceVars, mbr, childs, listing, reached, cursor, task>>

TextTask ==
  /\ pc = "task" /\ task = "text"
  /\ AddDriver("term")
  /\ EndTask("serial")
  /\ UNCHANGED <<mbr, childs, listing, reached>>

SerialPort ==
  /\ pc = "task" /\ task = "serial"
  /\ Cardinality(Named("term")) < MaxTerms
  /\ AddDriver("term")
  /\ UNCHANGED treeVars

SerialTask ==
  /\ pc = "task" /\ task = "serial"
  /\ EndTask("pci")
  /\ UNCHANGED <<deviceVars, mbr, childs, listing, reached>>

PciTask ==
  /\ pc = "task" /\ task = "pci"
  /\ AddDriver("pci")
  /\ EndTask("ahci")
  /\ UNCHANGED <<mbr, childs, listing, reached>>

(* ahci_task: the root's list, *)
AhciRoot ==
  /\ pc = "task" /\ task = "ahci"
  /\ RootList("walk")
  /\ UNCHANGED <<mbr, childs, reached, cursor, task>>

(* a PCI bus of it, *)
AhciBus ==
  /\ pc = "walk"
  /\ \E e \in listing :
       /\ e.name[1] = "pci" /\ e.can_list
       /\ TreeList(e.name, "bus")
       /\ listing' = listing \ {e}
  /\ UNCHANGED <<mbr, childs, cursor, task>>

AhciEnd ==
  /\ pc = "walk"
  /\ ~\E e \in listing : e.name[1] = "pci" /\ e.can_list
  /\ EndTask("none")
  /\ UNCHANGED <<deviceVars, mbr, childs, listing, reached>>

(* each function of the bus, opened and never closed, *)
AhciOpen ==
  /\ pc = "bus"
  /\ Cardinality(Named("pci_open")) < MaxFuncs
  /\ AddTemp("pci_open")
  /\ UNCHANGED treeVars

(* and, on a controller, its drives. *)
AhciDrive ==
  /\ pc = "bus" /\ Named("pci_open") # {}
  /\ Cardinality(Named("disk")) < MaxDisks
  /\ AddDriver("disk")
  /\ UNCHANGED treeVars

AhciBusEnd ==
  /\ pc = "bus"
  /\ pc' = "walk"
  /\ UNCHANGED <<deviceVars, mbr, childs, listing, reached, cursor, task>>

(* tree_show: the root's list, and the list of each entry that can have one. *)
ShowRoot ==
  /\ pc = "show"
  /\ RootList("shown")
  /\ UNCHANGED <<mbr, childs, reached, cursor, task>>

ShowEntry ==
  /\ pc = "shown"
  /\ \E e \in listing :
       /\ e.can_list
       /\ \/ TreeList(e.name, "shown")
          \/ Matches(e.name) = {} /\ UNCHANGED <<deviceVars, reached, pc>>
       /\ listing' = listing \ {e}
  /\ UNCHANGED <<mbr, childs, cursor, task>>

Tasks ==
  \/ TextTask \/ SerialPort \/ SerialTask \/ PciTask
  \/ AhciRoot \/ AhciBus \/ AhciEnd \/ AhciOpen \/ AhciDrive \/ AhciBusEnd

Next == LogInit \/ MountNext \/ MountEnd \/ Tasks \/ ShowRoot \/ ShowEntry

Spec == Init /\ [][Next]_vars

-----------------------------------------------------------------------------
TreeTypeOK ==
  /\ DeviceTypeOK
  /\ childs \in Seq([name : Names, id : Ids])
  /\ listing \subseteq [name : Names, can_list : BOOLEAN]
  /\ cursor \in 0 .. device_total
  /\ task \in {"text", "serial", "pci", "ahci", "none"}
  /\ pc \in {"log", "task", "mount", "walk", "bus", "show", "shown", "wild"}

(* A mounted tree is of a device that is in use under the tree's own name, *)
(* and no device is mounted twice, although every pass looks at every      *)
(* device and nothing but names says what has been mounted.                *)
OneTreePerDevice ==
  /\ \A j \in DOMAIN childs : devices[childs[j].id].name = childs[j].name
  /\ \A j, k \in DOMAIN childs : childs[j].id = childs[k].id => j = k

(* After the boot every device that can be mounted is mounted, except one  *)
(* whose name continues the name of a mounted one ("disk10" after "disk1"). *)
MountedUnlessShadowed ==
  pc \in {"show", "shown"} =>
    \A i \in Ids :
      LET name == devices[i].name IN
      Shown(i) /\ Mountable(name) =>
        \/ \E j \in DOMAIN childs : childs[j].id = i
        \/ \E j \in DOMAIN childs :
             /\ childs[j].name # name
             /\ IsStart(childs[j].name, name)
             /\ childs[j].id < i

(* A list below the root is that of the device it was asked for, never of  *)
(* another whose name is longer, in the walk of ahci_task and in tree_show. *)
ReachesOwn == reached.entry = reached.child
=============================================================================
