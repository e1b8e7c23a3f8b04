-------------------------------- MODULE Mbr --------------------------------
(***************************************************************************)
(* nop/tree/mbr.c: mbr_init decides whether a device is an MBR-partitioned *)
(* drive, entry by entry, and mounts its partitions; mbr_list lists them.  *)
(* An entry of the table is read once, so it is chosen when it is read:    *)
(* whatever the drive holds, or, after a short read, the stack did.        *)
(***************************************************************************)
EXTENDS Integers

CONSTANTS
  LbaLimit,      \* 2^32: the start and count of an entry are 32 bits wide
  SectorCounts,  \* the possible sizes of a drive, in sectors (64 bits)
  EntryCount     \* the entries of the table (4)

ASSUME MbrAssumption ==
  /\ LbaLimit \in Nat \ {0} /\ EntryCount \in Nat
  /\ SectorCounts \subseteq Nat

Features == {"present", "write", "read", "seek", "512"}
Entries == [start : 0 .. LbaLimit - 1, count : 0 .. LbaLimit - 1,
            type : {"plain", "gpt"}]
Indices == 0 .. EntryCount - 1

(* A slot of the local array: a partition of the device, marked with an id *)
(* of -1, or not yet assigned, when its id may pass for a device's.        *)
Slot(id, e) == [id |-> id, start |-> e.start, count |-> e.count, type |-> e.type]
NoEntry == [start |-> 0, count |-> 0, type |-> "plain"]
Garbage == Slot("garbage", NoEntry)
Slots == {Slot(id, e) : id \in {"device", "-1", "garbage"}, e \in Entries}

VARIABLES
  features,   \* what the device has
  sectors,    \* the local count: the size of the device
  i,          \* the loop variable: entries read
  table,      \* the entries read so far
  mbr,        \* the local array of partitions
  mbr_count,
  data,       \* tree->data: the copy that outlives the call
  listed,     \* the names mbr_list wrote into its temporary device
  pc

locals == <<features, sectors, i, table, mbr, mbr_count>>
vars == <<locals, data, listed, pc>>

Init ==
  /\ features \in SUBSET Features
  /\ sectors \in SectorCounts
  /\ i = 0 /\ table = [k \in {} |-> NoEntry]
  /\ mbr = [k \in Indices |-> Garbage] /\ mbr_count = 0
  /\ data = mbr /\ listed = {}
  /\ pc = "probe"

-----------------------------------------------------------------------------
Probe ==
  /\ pc = "probe"
  /\ pc' = IF Features \subseteq features THEN "entry" ELSE "refused"
  /\ UNCHANGED <<locals, data, listed>>

(* The tests of the loop body, in the order of the code. *)
Lopsided(e) == (e.start = 0) # (e.count = 0)
Empty(e)    == e.count = 0

(* Variant: the sum is taken in 32 bits. *)
OutsideNarrow(e) == (e.start + e.count) % LbaLimit > sectors

(* Variant: a partition may not end with the drive. *)
OutsideAt(e) == e.start + e.count >= sectors

Outside(e)  == e.start + e.count > sectors

Protective(e) == e.type = "gpt"

Apart(p, q) == p.start + p.count <= q.start \/ q.start + q.count <= p.start

(* Variant: only the partition before is compared. *)
OverlappingLast(e) ==
  mbr_count > 0 /\ ~Apart(mbr[mbr_count - 1], e)

Overlapping(e) == \E j \in 0 .. mbr_count - 1 : ~Apart(mbr[j], e)

Rejected(e) ==
  \/ Lopsided(e)
  \/ ~Empty(e) /\ (Outside(e) \/ Protective(e) \/ Overlapping(e))

(* Variant: the loop runs once more. *)
ReadEntryPast(e) ==
  /\ pc = "entry" /\ i <= EntryCount
  /\ i' = i + 1
  /\ table' = [k \in 0 .. i |-> IF k = i THEN e ELSE table[k]]
  /\ UNCHANGED <<features, sectors, data, listed>>

ReadEntry(e) ==
  /\ pc = "entry" /\ i < EntryCount
  /\ i' = i + 1
  /\ table' = [k \in 0 .. i |-> IF k = i THEN e ELSE table[k]]
  /\ UNCHANGED <<features, sectors, data, listed>>

Reject(e) ==
  /\ ReadEntry(e)
  /\ Rejected(e)
  /\ pc' = "refused"
  /\ UNCHANGED <<mbr, mbr_count>>

Skip(e) ==
  /\ ReadEntry(e)
  /\ ~Rejected(e) /\ Empty(e)
  /\ UNCHANGED <<mbr, mbr_count, pc>>

Accept(e) ==
  /\ ReadEntry(e)
  /\ ~Rejected(e) /\ ~Empty(e)
  /\ mbr' = [mbr EXCEPT ![mbr_count] = Slot("device", e)]
  /\ mbr_count' = mbr_count + 1
  /\ UNCHANGED pc

NoPartition ==
  /\ pc = "entry" /\ i = EntryCount
  /\ mbr_count = 0
  /\ pc' = "refused"
  /\ UNCHANGED <<locals, data, listed>>

(* Variant: the first slot after the partitions is forgotten. *)
MountShort ==
  /\ pc = "entry" /\ i = EntryCount
  /\ mbr_count # 0
  /\ mbr' = [k \in Indices |-> IF k > mbr_count THEN [mbr[k] EXCEPT !.id = "-1"]
                                   ELSE mbr[k]]
  /\ data' = mbr'
  /\ pc' = "mounted"
  /\ UNCHANGED <<features, sectors, i, table, mbr_count, listed>>

(* The slots after the partitions are marked, and the array is copied. *)
Mount ==
  /\ pc = "entry" /\ i = EntryCount
  /\ mbr_count # 0
  /\ mbr' = [k \in Indices |-> IF k >= mbr_count THEN [mbr[k] EXCEPT !.id = "-1"]
                                   ELSE mbr[k]]
  /\ data' = mbr'
  /\ pc' = "mounted"
  /\ UNCHANGED <<features, sectors, i, table, mbr_count, listed>>

(* mbr_list of the empty path: a name for every slot in use. *)
List ==
  /\ pc = "mounted"
  /\ listed' = {k \in Indices : data[k].id # "-1"}
  /\ UNCHANGED <<locals, data, pc>>

Next ==
  \/ Probe \/ NoPartition \/ Mount \/ List
  \/ \E e \in Entries : Reject(e) \/ Skip(e) \/ Accept(e)

Spec == Init /\ [][Next]_vars

-----------------------------------------------------------------------------
TypeOK ==
  /\ features \subseteq Features /\ sectors \in SectorCounts
  /\ i \in 0 .. EntryCount
  /\ table \in [0 .. i - 1 -> Entries]
  /\ mbr \in [Indices -> Slots]
  /\ mbr_count \in 0 .. i
  /\ data \in [Indices -> Slots]
  /\ listed \subseteq Indices
  /\ pc \in {"probe", "entry", "mounted", "refused"}

Used == {k \in Indices : data[k].id # "-1"}

(* The rules of the comment before the loop, of a mounted drive: every     *)
(* partition lies on the drive, has sectors and is none of GPT's.          *)
MountedOnDrive ==
  pc = "mounted" =>
    \A k \in Used : /\ data[k].id = "device"
                    /\ 0 < data[k].start /\ 0 < data[k].count
                    /\ data[k].start + data[k].count <= sectors
                    /\ data[k].type # "gpt"

(* No sector of a mounted drive belongs to two partitions, though each new *)
(* entry is compared with the earlier ones only.                           *)
NoSharedSector ==
  pc = "mounted" =>
    \A j, k \in Used :
      j # k => \A s \in 0 .. sectors :
        ~(/\ data[j].start <= s /\ s < data[j].start + data[j].count
          /\ data[k].start <= s /\ s < data[k].start + data[k].count)

(* The partitions are the entries of the table that have sectors, all of   *)
(* them and nothing else: no garbage of the local array is mounted.        *)
MountedIsTable ==
  pc = "mounted" =>
    /\ {data[k] : k \in Used} =
         {Slot("device", table[k]) : k \in {t \in Indices : table[t].count # 0}}
    /\ Used # {}

(* A drive is refused for a reason that its table gives.                   *)
RefusedForReason ==
  pc = "refused" =>
    \/ ~(Features \subseteq features)
    \/ \A k \in 0 .. i - 1 : table[k].count = 0
    \/ \E k \in 0 .. i - 1 : LET e == table[k] IN
         \/ e.start = 0 /\ e.count # 0
         \/ e.start # 0 /\ e.count = 0
         \/ e.start + e.count > sectors
         \/ e.type = "gpt"
         \/ \E j \in 0 .. k - 1 : LET d == table[j] IN
              d.start < e.start + e.count /\ e.start < d.start + d.count

(* An entry that has a start and no sectors (rule 5 of the comment) is     *)
(* never passed over.                                                      *)
NoLopsidedEntry ==
  pc = "mounted" =>
    \A k \in Indices : table[k].start # 0 <=> table[k].count # 0
=============================================================================
