----------------------------- MODULE MbrProofs ------------------------------
(***************************************************************************)
(* The properties of Mbr, for every width of an entry, every size of the   *)
(* drive and every number of entries.                                      *)
(***************************************************************************)
EXTENDS Mbr, TLAPS

Held == 0 .. mbr_count - 1
Read == 0 .. i - 1

(* The partitions gathered so far keep the rules that a mounted drive has. *)
Filled ==
  \A k \in Held : /\ mbr[k].id = "device"
                  /\ 0 < mbr[k].start /\ 0 < mbr[k].count
                  /\ mbr[k].start + mbr[k].count <= sectors
                  /\ mbr[k].type # "gpt"

Disjoint == \A j, k \in Held : j # k => Apart(mbr[j], mbr[k])

(* They are the entries read so far that have sectors. *)
FromTable ==
  \A k \in Held : \E t \in Read :
    table[t].count # 0 /\ mbr[k] = Slot("device", table[t])

AllKept ==
  pc # "refused" =>
    \A t \in Read : table[t].count # 0 =>
      \E k \in Held : mbr[k] = Slot("device", table[t])

Balanced ==
  pc # "refused" => \A t \in Read : table[t].start # 0 <=> table[t].count # 0

Copied ==
  pc = "mounted" =>
    /\ i = EntryCount /\ mbr_count # 0 /\ data = mbr
    /\ \A k \in Indices : k >= mbr_count => mbr[k].id = "-1"

IInv ==
  /\ TypeOK
  /\ Filled /\ Disjoint
  /\ FromTable /\ AllKept /\ Balanced
  /\ Copied
  /\ RefusedForReason

-----------------------------------------------------------------------------
(* An entry becomes a slot of the array, with the entry's fields. *)
LEMMA SlotFields ==
  ASSUME NEW e \in Entries, NEW id \in {"device", "-1", "garbage"}
  PROVE  /\ Slot(id, e) \in Slots
         /\ Slot(id, e).id = id
         /\ Slot(id, e).start = e.start /\ Slot(id, e).count = e.count
         /\ Slot(id, e).type = e.type
  BY DEF Slot, Slots

(* What the type of a slot says of its fields. *)
LEMMA SlotType ==
  ASSUME NEW s \in Slots
  PROVE  /\ s.start \in Nat /\ s.count \in Nat
         /\ [s EXCEPT !.id = "-1"] \in Slots
         /\ [s EXCEPT !.id = "-1"].id = "-1"
<1>1. PICK id \in {"device", "-1", "garbage"}, e \in Entries : s = Slot(id, e)
  BY DEF Slots
<1>2. e.start \in Nat /\ e.count \in Nat
  BY MbrAssumption DEF Entries
<1>3. [s EXCEPT !.id = "-1"] = Slot("-1", e)
  BY <1>1 DEF Slot
<1> QED BY <1>1, <1>2, <1>3, SlotFields

LEMMA GarbageType == Garbage \in Slots
<1>1. NoEntry \in Entries
  BY MbrAssumption DEF NoEntry, Entries
<1> QED BY <1>1, SlotFields DEF Garbage

LEMMA InitIInv == Init => IInv
<1> SUFFICES ASSUME Init PROVE IInv
  OBVIOUS
<1> USE MbrAssumption DEF Init
<1>1. TypeOK
  BY GarbageType DEF TypeOK, Indices
<1> QED
  BY <1>1 DEF IInv, Filled, Disjoint, FromTable, AllKept, Balanced, Copied,
              RefusedForReason, Held, Read

-----------------------------------------------------------------------------
(* One step per action of Next, and under it one per conjunct of IInv that *)
(* the action can disturb.                                                 *)
LEMMA StepIInv == IInv /\ [Next]_vars => IInv'
<1> SUFFICES ASSUME IInv, [Next]_vars PROVE IInv'
  OBVIOUS
<1> USE MbrAssumption
<1>0. TypeOK /\ Filled /\ Disjoint /\ FromTable /\ AllKept /\ Balanced
      /\ Copied /\ RefusedForReason
  BY DEF IInv
<1>t. /\ i \in Nat /\ mbr_count \in Nat /\ mbr_count <= i /\ i <= EntryCount
      /\ sectors \in Nat
  BY <1>0 DEF TypeOK
<1>1. CASE Probe
  BY <1>0, <1>1 DEF Probe, locals, IInv, TypeOK, Filled, Disjoint, FromTable,
     AllKept, Balanced, Copied, RefusedForReason, Held, Read, Apart, Slot
<1>2. CASE NoPartition
  <2>1. TypeOK'
    BY <1>0, <1>2 DEF NoPartition, locals, TypeOK
  <2>2. \A k \in 0 .. i - 1 : table[k].count = 0
    BY <1>0, <1>2, <1>t DEF NoPartition, AllKept, Held, Read
  <2>3. RefusedForReason'
    BY <2>2, <1>2 DEF NoPartition, locals, RefusedForReason
  <2> QED
    BY <2>1, <2>3, <1>0, <1>2 DEF NoPartition, locals, IInv, Filled, Disjoint,
       FromTable, AllKept, Balanced, Copied, Held, Read, Apart, Slot
<1>3. CASE Mount
  <2>0. /\ pc = "entry" /\ i = EntryCount /\ mbr_count # 0
        /\ mbr' = [k \in Indices |-> IF k >= mbr_count
                     THEN [mbr[k] EXCEPT !.id = "-1"] ELSE mbr[k]]
        /\ data' = mbr' /\ pc' = "mounted"
        /\ UNCHANGED <<features, sectors, i, table, mbr_count, listed>>
    BY <1>3 DEF Mount
  <2>1. mbr' \in [Indices -> Slots]
    BY <2>0, <1>0, SlotType DEF TypeOK
  <2>2. \A k \in Held : k \in Indices /\ mbr'[k] = mbr[k]
    BY <2>0, <1>t DEF Held, Indices
  <2>3. \A k \in Indices : k >= mbr_count => mbr'[k].id = "-1"
    BY <2>0, <1>0, SlotType DEF TypeOK
  <2>4. TypeOK'
    BY <2>0, <2>1, <1>0 DEF TypeOK
  <2>5. Held' = Held /\ Read' = Read
    BY <2>0 DEF Held, Read
  <2>6. Filled' /\ Disjoint'
    BY <2>0, <2>2, <2>5, <1>0 DEF Filled, Disjoint, Apart
  <2>7. FromTable' /\ AllKept' /\ Balanced'
    <3>1. FromTable'
      <4> SUFFICES ASSUME NEW k \in Held
                   PROVE  \E t \in Read : /\ table[t].count # 0
                                          /\ mbr'[k] = Slot("device", table[t])
        BY <2>0, <2>5 DEF FromTable, Slot
      <4> QED BY <2>2, <1>0 DEF FromTable
    <3>2. AllKept'
      <4> SUFFICES ASSUME NEW t \in Read', table'[t].count # 0
                   PROVE  \E k \in Held' : mbr'[k] = Slot("device", table'[t])
        BY DEF AllKept, Slot
      <4>1. PICK k \in Held : mbr[k] = Slot("device", table[t])
        BY <2>0, <2>5, <1>0 DEF AllKept
      <4> QED BY <4>1, <2>0, <2>2, <2>5
    <3>3. Balanced'
      BY <2>0, <2>5, <1>0 DEF Balanced
    <3> QED BY <3>1, <3>2, <3>3
  <2>8. Copied' /\ RefusedForReason'
    BY <2>0, <2>3 DEF Copied, RefusedForReason
  <2> QED BY <2>4, <2>6, <2>7, <2>8 DEF IInv
<1>4. CASE List
  BY <1>0, <1>4 DEF List, locals, IInv, TypeOK, Filled, Disjoint, FromTable,
     AllKept, Balanced, Copied, RefusedForReason, Held, Read, Apart, Slot
<1>5. ASSUME NEW e \in Entries, Reject(e) \/ Skip(e) \/ Accept(e) PROVE IInv'
  <2>0. /\ ReadEntry(e) /\ pc = "entry" /\ i < EntryCount
        /\ i' = i + 1
        /\ table' = [k \in 0 .. i |-> IF k = i THEN e ELSE table[k]]
        /\ UNCHANGED <<features, sectors, data, listed>>
    BY <1>5 DEF Reject, Skip, Accept, ReadEntry
  <2>e. e.start \in Nat /\ e.count \in Nat
    BY DEF Entries
  <2>1. table' \in [0 .. i' - 1 -> Entries]
    BY <2>0, <1>0, <1>t DEF TypeOK
  <2>2. \A t \in Read : t \in Read' /\ table'[t] = table[t]
    BY <2>0, <1>t DEF Read
  <2>3. i \in Read' /\ table'[i] = e
    BY <2>0, <1>t DEF Read
  <2>4. \A t \in Read' : t \in Read \/ t = i
    BY <2>0, <1>t DEF Read
  <2>5. CASE Reject(e)
    <3>0. Rejected(e) /\ pc' = "refused" /\ UNCHANGED <<mbr, mbr_count>>
      BY <2>5 DEF Reject
    <3>1. TypeOK'
      BY <3>0, <2>0, <2>1, <1>0, <1>t DEF TypeOK
    <3>2. Held' = Held
      BY <3>0 DEF Held
    <3>3. Filled' /\ Disjoint'
      BY <3>0, <3>2, <2>0, <1>0 DEF Filled, Disjoint, Apart
    <3>4. FromTable'
      <4> SUFFICES ASSUME NEW k \in Held
                   PROVE  \E t \in Read' : /\ table'[t].count # 0
                                           /\ mbr[k] = Slot("device", table'[t])
        BY <3>0, <3>2 DEF FromTable, Slot
      <4>1. PICK t \in Read : /\ table[t].count # 0
                              /\ mbr[k] = Slot("device", table[t])
        BY <1>0 DEF FromTable
      <4> QED BY <4>1, <2>2
    <3>5. AllKept' /\ Balanced' /\ Copied'
      BY <3>0 DEF AllKept, Balanced, Copied
    <3>6. RefusedForReason'
      <4>1. CASE Lopsided(e)
        BY <4>1, <2>0, <2>3, <2>e, <3>0 DEF Lopsided, RefusedForReason, Read
      <4>2. CASE Outside(e) \/ Protective(e)
        BY <4>2, <2>0, <2>3, <3>0
        DEF Outside, Protective, RefusedForReason, Read
      <4>3. CASE Overlapping(e)
        <5>1. PICK j \in Held : ~Apart(mbr[j], e)
          BY <4>3 DEF Overlapping, Held
        <5>2. PICK t \in Read : mbr[j] = Slot("device", table[t])
          BY <1>0 DEF FromTable
        <5>3. table[t] \in Entries
          BY <1>0 DEF TypeOK, Read
        <5>4. mbr[j].start = table[t].start /\ mbr[j].count = table[t].count
          BY <5>2, <5>3, SlotFields
        <5>5. table[t].start \in Nat /\ table[t].count \in Nat
          BY <5>3 DEF Entries
        <5>6. /\ table[t].start < e.start + e.count
              /\ e.start < table[t].start + table[t].count
          BY <5>1, <5>4, <5>5, <2>e DEF Apart
        <5>7. t \in 0 .. i - 1 /\ i \in 0 .. i' - 1 /\ table'[t] = table[t]
          BY <2>2, <2>3 DEF Read
        <5> QED BY <5>6, <5>7, <2>3, <3>0 DEF RefusedForReason
      <4> QED BY <4>1, <4>2, <4>3, <3>0 DEF Rejected
    <3> QED BY <3>1, <3>3, <3>4, <3>5, <3>6 DEF IInv
  <2>6. CASE Skip(e)
    <3>0. /\ ~Rejected(e) /\ e.count = 0 /\ UNCHANGED <<mbr, mbr_count, pc>>
      BY <2>6 DEF Skip, Empty
    <3>1. TypeOK'
      BY <3>0, <2>0, <2>1, <1>0, <1>t DEF TypeOK
    <3>2. Held' = Held
      BY <3>0 DEF Held
    <3>3. Filled' /\ Disjoint'
      BY <3>0, <3>2, <2>0, <1>0 DEF Filled, Disjoint, Apart
    <3>4. FromTable'
      <4> SUFFICES ASSUME NEW k \in Held
                   PROVE  \E t \in Read' : /\ table'[t].count # 0
                                           /\ mbr[k] = Slot("device", table'[t])
        BY <3>0, <3>2 DEF FromTable, Slot
      <4>1. PICK t \in Read : /\ table[t].count # 0
                              /\ mbr[k] = Slot("device", table[t])
        BY <1>0 DEF FromTable
      <4> QED BY <4>1, <2>2
    <3>5. AllKept'
      BY <3>0, <3>2, <2>2, <2>3, <2>4, <1>0 DEF AllKept, Slot
    <3>6. Balanced'
      <4>1. e.start = 0
        BY <3>0 DEF Rejected, Lopsided
      <4> QED BY <4>1, <3>0, <2>0, <2>2, <2>3, <2>4, <1>0 DEF Balanced
    <3>7. Copied' /\ RefusedForReason'
      BY <3>0, <2>0 DEF Copied, RefusedForReason
    <3> QED BY <3>1, <3>3, <3>4, <3>5, <3>6, <3>7 DEF IInv
  <2>7. CASE Accept(e)
    <3>0. /\ ~Rejected(e) /\ e.count # 0
          /\ mbr' = [mbr EXCEPT ![mbr_count] = Slot("device", e)]
          /\ mbr_count' = mbr_count + 1 /\ pc' = pc
      BY <2>7 DEF Accept, Empty
    <3>a. mbr_count \in Indices /\ mbr \in [Indices -> Slots]
      BY <2>0, <1>0, <1>t DEF Indices, TypeOK
    <3>b. mbr'[mbr_count] = Slot("device", e)
      BY <3>0, <3>a
    <3>c. \A k \in Held : k \in Held' /\ k # mbr_count /\ mbr'[k] = mbr[k]
      BY <3>0, <3>a, <1>t DEF Held, Indices
    <3>d. \A k \in Held' : k \in Held \/ k = mbr_count
      BY <3>0, <1>t DEF Held
    <3>e. mbr_count \in Held'
      BY <3>0, <1>t DEF Held
    <3>f. /\ Slot("device", e) \in Slots /\ Slot("device", e).id = "device"
          /\ Slot("device", e).start = e.start
          /\ Slot("device", e).count = e.count
          /\ Slot("device", e).type = e.type
      BY SlotFields
    <3>g. /\ e.start # 0 /\ e.start + e.count <= sectors /\ e.type # "gpt"
          /\ \A j \in Held : Apart(mbr[j], e)
      BY <3>0, <2>e, <1>t
      DEF Rejected, Lopsided, Empty, Outside, Protective, Overlapping, Held
    <3>1. TypeOK'
      <4>1. mbr' \in [Indices -> Slots]
        BY <3>0, <3>a, <3>f
      <4>2. mbr_count' \in 0 .. i' /\ i' \in 0 .. EntryCount
        BY <3>0, <2>0, <1>t
      <4> QED BY <4>1, <4>2, <3>0, <2>0, <2>1, <1>0 DEF TypeOK
    <3>2. Filled'
      <4> SUFFICES ASSUME NEW k \in Held'
                   PROVE  /\ mbr'[k].id = "device"
                          /\ 0 < mbr'[k].start /\ 0 < mbr'[k].count
                          /\ mbr'[k].start + mbr'[k].count <= sectors
                          /\ mbr'[k].type # "gpt"
        BY <2>0 DEF Filled
      <4>1. CASE k \in Held
        BY <4>1, <3>c, <1>0 DEF Filled
      <4>2. CASE k = mbr_count
        BY <4>2, <3>b, <3>f, <3>g, <3>0, <2>e
      <4> QED BY <4>1, <4>2, <3>d
    <3>3. Disjoint'
      <4> SUFFICES ASSUME NEW j \in Held', NEW k \in Held', j # k
                   PROVE  Apart(mbr'[j], mbr'[k])
        BY DEF Disjoint, Apart
      <4>1. CASE j \in Held /\ k \in Held
        BY <4>1, <3>c, <1>0 DEF Disjoint, Apart
      <4>2. CASE j = mbr_count /\ k \in Held
        BY <4>2, <3>b, <3>c, <3>f, <3>g DEF Apart
      <4>3. CASE j \in Held /\ k = mbr_count
        BY <4>3, <3>b, <3>c, <3>f, <3>g DEF Apart
      <4> QED BY <4>1, <4>2, <4>3, <3>d
    <3>4. FromTable'
      <4> SUFFICES ASSUME NEW k \in Held'
                   PROVE  \E t \in Read' :
                            /\ table'[t].count # 0
                            /\ mbr'[k] = Slot("device", table'[t])
        BY DEF FromTable, Slot
      <4>1. CASE k \in Held
        <5>1. PICK t \in Read : /\ table[t].count # 0
                                /\ mbr[k] = Slot("device", table[t])
          BY <4>1, <1>0 DEF FromTable
        <5> QED BY <5>1, <4>1, <3>c, <2>2
      <4>2. CASE k = mbr_count
        BY <4>2, <3>b, <3>0, <2>3
      <4> QED BY <4>1, <4>2, <3>d
    <3>5. AllKept'
      <4> SUFFICES ASSUME NEW t \in Read', table'[t].count # 0
                   PROVE  \E k \in Held' : mbr'[k] = Slot("device", table'[t])
        BY DEF AllKept, Slot
      <4>1. CASE t = i
        BY <4>1, <3>b, <3>e, <2>3
      <4>2. CASE t \in Read
        <5>1. \E k \in Held : mbr[k] = Slot("device", table[t])
          BY <4>2, <2>0, <2>2, <1>0 DEF AllKept
        <5> QED BY <5>1, <4>2, <3>c, <2>2
      <4> QED BY <4>1, <4>2, <2>4
    <3>6. Balanced'
      BY <3>0, <3>g, <2>0, <2>2, <2>3, <2>4, <1>0 DEF Balanced
    <3>7. Copied' /\ RefusedForReason'
      BY <3>0, <2>0 DEF Copied, RefusedForReason
    <3> QED BY <3>1, <3>2, <3>3, <3>4, <3>5, <3>6, <3>7 DEF IInv
  <2> QED BY <2>5, <2>6, <2>7, <1>5
<1>6. CASE UNCHANGED vars
  BY <1>0, <1>6 DEF vars, locals, IInv, TypeOK, Filled, Disjoint, FromTable,
     AllKept, Balanced, Copied, RefusedForReason, Held, Read, Apart, Slot
<1> QED BY <1>1, <1>2, <1>3, <1>4, <1>5, <1>6 DEF Next

(* The invariant holds in every reachable state of mbr_init and mbr_list. *)
THEOREM Invariance == Spec => []IInv
  BY InitIInv, StepIInv, PTL DEF Spec

-----------------------------------------------------------------------------
(* In a mounted drive the slots in use are the partitions gathered. *)
LEMMA UsedIsHeld == ASSUME IInv, pc = "mounted" PROVE Used = Held
<1>1. TypeOK /\ Copied /\ Filled
  BY DEF IInv
<1>2. mbr_count \in 0 .. EntryCount
  BY <1>1, MbrAssumption DEF TypeOK
<1>3. Held \subseteq Indices
  BY <1>2, MbrAssumption DEF Held, Indices
<1>4. \A k \in Held : mbr[k].id = "device"
  BY <1>1 DEF Filled
<1>5. \A k \in Indices : k \in Held \/ k >= mbr_count
  BY <1>2 DEF Held, Indices
<1> QED BY <1>1, <1>3, <1>4, <1>5 DEF Copied, Used

(* TypeOK of every reachable state. *)
THEOREM TypeCorrect == Spec => []TypeOK
<1>1. IInv => TypeOK
  BY DEF IInv
<1> QED BY <1>1, Invariance, PTL

(* Every partition of a mounted drive lies on the drive. *)
THEOREM OnDrive == Spec => []MountedOnDrive
<1>1. IInv => MountedOnDrive
  BY UsedIsHeld DEF IInv, MountedOnDrive, Filled, Copied
<1> QED BY <1>1, Invariance, PTL

(* No sector of a mounted drive belongs to two partitions. *)
THEOREM Disjointness == Spec => []NoSharedSector
<1>1. IInv => NoSharedSector
  <2> SUFFICES ASSUME IInv, pc = "mounted", NEW j \in Used, NEW k \in Used,
                      j # k, NEW s \in 0 .. sectors
               PROVE  ~(/\ data[j].start <= s
                        /\ s < data[j].start + data[j].count
                        /\ data[k].start <= s
                        /\ s < data[k].start + data[k].count)
    BY DEF NoSharedSector
  <2>1. data = mbr /\ j \in Held /\ k \in Held /\ Apart(mbr[j], mbr[k])
    BY UsedIsHeld DEF IInv, Copied, Disjoint
  <2>2. mbr[j] \in Slots /\ mbr[k] \in Slots /\ sectors \in Nat
    BY MbrAssumption DEF IInv, TypeOK, Copied, Used
  <2>3. mbr[j].start \in Nat /\ mbr[j].count \in Nat
    BY <2>2, SlotType
  <2>4. mbr[k].start \in Nat /\ mbr[k].count \in Nat
    BY <2>2, SlotType
  <2>5. s \in Nat
    BY <2>2
  <2> QED BY <2>1, <2>3, <2>4, <2>5 DEF Apart
<1> QED BY <1>1, Invariance, PTL

(* The partitions of a mounted drive are its table's non-empty entries. *)
THEOREM TableMounted == Spec => []MountedIsTable
<1>1. IInv => MountedIsTable
  <2> SUFFICES ASSUME IInv, pc = "mounted"
               PROVE  /\ {data[k] : k \in Used} =
                           {Slot("device", table[k]) :
                              k \in {t \in Indices : table[t].count # 0}}
                      /\ Used # {}
    BY DEF MountedIsTable
  <2>1. data = mbr /\ i = EntryCount /\ mbr_count # 0 /\ Used = Held
    BY UsedIsHeld DEF IInv, Copied
  <2>2. Read = Indices
    BY <2>1 DEF Read, Indices
  <2>3. 0 \in Held
    BY <2>1, MbrAssumption DEF IInv, TypeOK, Held
  <2>4. \A k \in Held : \E t \in Indices :
          table[t].count # 0 /\ mbr[k] = Slot("device", table[t])
    BY <2>2 DEF IInv, FromTable
  <2>5. \A t \in Indices : table[t].count # 0 =>
          \E k \in Held : mbr[k] = Slot("device", table[t])
    BY <2>2 DEF IInv, AllKept
  <2> QED BY <2>1, <2>3, <2>4, <2>5
<1> QED BY <1>1, Invariance, PTL

(* A refused drive has no partition, or an entry against the rules. *)
THEOREM Reasons == Spec => []RefusedForReason
<1>1. IInv => RefusedForReason
  BY DEF IInv
<1> QED BY <1>1, Invariance, PTL

(* No entry with a start and no sectors, or the reverse, is passed over. *)
THEOREM NoneLopsided == Spec => []NoLopsidedEntry
<1>1. IInv => NoLopsidedEntry
  BY DEF IInv, NoLopsidedEntry, Balanced, Copied, Read, Indices
<1> QED BY <1>1, Invariance, PTL
=============================================================================
