------------------------------ MODULE AhciDisk ------------------------------
(***************************************************************************)
(* nop/tasks/ahci.c: the disk device over a port. A call of any size at    *)
(* any offset is cut into a head (the rest of a sector), a body of whole   *)
(* sectors and a tail; head and tail of a write are read, patched and      *)
(* written back. Each command to the port may fail. AhciDrive composes     *)
(* this module with the port that carries its commands.                    *)
(*                                                                         *)
(* The data are abstracted to where they come from: FromDisk(a) is the     *)
(* byte that stood at address a of the disk when the call began, p is byte *)
(* p of the caller's data, Junk is what memory held before.                *)
(***************************************************************************)
EXTENDS Integers

CONSTANTS
  SectorSize,    \* 1 << sector_width
  SectorCount,   \* ahci->count, from IDENTIFY
  EntryBytes     \* what one PRDT entry of ahci_send_h2d covers: 8192

Size == SectorCount * SectorSize
DiskBytes == 0 .. Size - 1
SectorBytes == 0 .. SectorSize - 1

Junk == -1
FromDisk(a) == Size + a

VARIABLES
  disk,     \* the bytes of the disk
  out,      \* the caller's buffer, of a read
  buffer,   \* the local buffer of one sector
  offset,   \* ahci->offset
  pc,       \* "idle", or the command that the call is at
  op,
  n,        \* the bytes still to transfer
  ptr,      \* how far the caller's buffer has been used
  ret,      \* the locals write and read: what the call returns
  start, wanted,  \* the offset at the call, and n after clipping
  reply     \* the port's answer to the command at pc: "none", "ok", "error"

callVars == <<op, ptr, start, wanted>>
vars == <<disk, out, buffer, offset, pc, n, ret, callVars>>

Untouched == [k \in DiskBytes |-> FromDisk(k)]
Unread == [k \in DiskBytes |-> Junk]
Empty == [i \in SectorBytes |-> Junk]

Init ==
  /\ disk = Untouched /\ out = Unread /\ buffer = Empty
  /\ offset = 0
  /\ pc = "idle" /\ op = "read"
  /\ n = 0 /\ ptr = 0 /\ ret = 0
  /\ start = 0 /\ wanted = 0

-----------------------------------------------------------------------------
(* ahci_device_seek and the entry of ahci_device_read and _write. *)

Clip(x) == IF x < 0 THEN 0 ELSE IF x > Size THEN Size ELSE x

Seek(base, distance) ==
  /\ pc = "idle"
  /\ offset' = Clip(base + distance)
  /\ UNCHANGED <<disk, out, buffer, pc, n, ret, callVars>>

Call(o, m) ==
  /\ pc = "idle"
  /\ op' = o
  /\ n' = IF m > Size - offset THEN Size - offset ELSE m
  /\ wanted' = n'
  /\ start' = offset
  /\ ptr' = 0 /\ ret' = 0
  /\ disk' = Untouched /\ out' = Unread
  /\ pc' = IF offset % SectorSize # 0 THEN "head" ELSE "body"
  /\ UNCHANGED <<buffer, offset>>

-----------------------------------------------------------------------------
(* What the controller moves for the command at pc. A command that fails   *)
(* may have moved some of its sectors.                                     *)

Whole == n - (n % SectorSize)

(* The length of the command, count << 9. *)
Bytes == IF pc = "body" THEN (Whole \div SectorSize) * 512 ELSE 512

(* The first byte of the sector at offset. *)
Base == offset - (offset % SectorSize)

(* A body longer than one PRDT entry: every entry has the same address, so *)
(* each chunk of EntryBytes is transferred from or to the chunk's start.   *)
LastOf(j, len) == j + EntryBytes * ((len - 1 - j) \div EntryBytes)

BodyWritten(len) ==
  [k \in DiskBytes |-> IF offset <= k /\ k < offset + len
                         THEN ptr + ((k - offset) % EntryBytes) ELSE disk[k]]

BodyRead(len) ==
  [k \in DiskBytes |->
     IF ptr <= k /\ k < ptr + len /\ k < ptr + EntryBytes
       THEN disk[offset + LastOf(k - ptr, len)] ELSE out[k]]

SectorWritten ==
  [k \in DiskBytes |-> IF k - Base \in SectorBytes THEN buffer[k - Base] ELSE disk[k]]

MovesSector(r) ==
  \/ /\ pc \in {"head", "tail"}
     /\ buffer' = [i \in SectorBytes |-> IF r = "ok" THEN disk[Base + i] ELSE Junk]
     /\ UNCHANGED disk
  \/ /\ pc \in {"headWritten", "tailWritten"}
     /\ disk' \in IF r = "ok" THEN {SectorWritten} ELSE {disk, SectorWritten}
     /\ UNCHANGED buffer

MovesBody(r) ==
  /\ pc = "body"
  /\ \E sectors \in 0 .. Whole \div SectorSize :
       LET len == sectors * SectorSize
       IN  /\ r = "ok" => len = Whole
           /\ IF op = "read" THEN out' = BodyRead(len) /\ UNCHANGED disk
                             ELSE disk' = BodyWritten(len) /\ UNCHANGED out

Moves(r) ==
  /\ \/ MovesSector(r) /\ UNCHANGED out
     \/ MovesBody(r) /\ UNCHANGED buffer
  /\ UNCHANGED <<offset, pc, n, ret, callVars>>

-----------------------------------------------------------------------------
(* What the device does with the answer. *)

(* A failed command ends the call, which reports what ret says: after the  *)
(* head of a transfer ret is set already, but the code returns 0 there.    *)
Fails ==
  /\ reply = "error" /\ pc # "idle"
  /\ pc' = "idle"
  /\ buffer' = Empty
  /\ UNCHANGED <<disk, out, offset, n, ret, callVars>>

(* The rest of the sector at offset, or what is asked for if less. *)
HeadLength ==
  LET rest == SectorSize - (offset % SectorSize)
  IN  IF rest > n THEN n ELSE rest

(* memcpy(buffer + at, ptr, len) and memcpy(ptr, buffer + at, len). *)
Patched(at, len) ==
  [i \in SectorBytes |-> IF at <= i /\ i < at + len THEN ptr + (i - at) ELSE buffer[i]]

Copied(at, len) ==
  [k \in DiskBytes |-> IF ptr <= k /\ k < ptr + len THEN buffer[at + (k - ptr)] ELSE out[k]]

HeadDone ==
  /\ pc' = "body"
  /\ ptr' = HeadLength /\ ret' = HeadLength
  /\ offset' = offset + HeadLength
  /\ n' = n - HeadLength
  /\ buffer' = Empty
  /\ UNCHANGED <<disk, op, start, wanted>>

HeadRead ==
  /\ reply = "ok" /\ pc = "head" /\ op = "read"
  /\ out' = Copied(offset % SectorSize, HeadLength)
  /\ HeadDone

HeadPatch ==
  /\ reply = "ok" /\ pc = "head" /\ op = "write"
  /\ buffer' = Patched(offset % SectorSize, HeadLength)
  /\ pc' = "headWritten"
  /\ UNCHANGED <<disk, out, offset, n, ret, callVars>>

HeadWrite ==
  /\ reply = "ok" /\ pc = "headWritten"
  /\ HeadDone
  /\ UNCHANGED out

(* Variant: the offset stays where it was. *)
BodyDoneInPlace ==
  /\ reply = "ok" /\ pc = "body"
  /\ ptr' = ptr + Whole /\ ret' = ret + Whole
  /\ n' = n % SectorSize
  /\ pc' = IF n' # 0 THEN "tail" ELSE "idle"
  /\ UNCHANGED <<disk, out, buffer, offset, op, start, wanted>>

BodyDone ==
  /\ reply = "ok" /\ pc = "body"
  /\ ptr' = ptr + Whole /\ ret' = ret + Whole
  /\ offset' = offset + Whole
  /\ n' = n % SectorSize
  /\ pc' = IF n' # 0 THEN "tail" ELSE "idle"
  /\ UNCHANGED <<disk, out, buffer, op, start, wanted>>

(* The tail does not move the offset. *)
TailDone ==
  /\ pc' = "idle"
  /\ ret' = ret + n
  /\ buffer' = Empty
  /\ UNCHANGED <<disk, offset, n, callVars>>

TailRead ==
  /\ reply = "ok" /\ pc = "tail" /\ op = "read"
  /\ out' = Copied(0, n)
  /\ TailDone

(* Variant: the caller's next bytes are taken for the whole sector. *)
TailPatchWhole ==
  /\ reply = "ok" /\ pc = "tail" /\ op = "write"
  /\ buffer' = Patched(0, SectorSize)
  /\ pc' = "tailWritten"
  /\ UNCHANGED <<disk, out, offset, n, ret, callVars>>

TailPatch ==
  /\ reply = "ok" /\ pc = "tail" /\ op = "write"
  /\ buffer' = Patched(0, n)
  /\ pc' = "tailWritten"
  /\ UNCHANGED <<disk, out, offset, n, ret, callVars>>

TailWrite ==
  /\ reply = "ok" /\ pc = "tailWritten"
  /\ TailDone
  /\ UNCHANGED out

Continue ==
  \/ Fails
  \/ HeadRead \/ HeadPatch \/ HeadWrite
  \/ BodyDone
  \/ TailRead \/ TailPatch \/ TailWrite

-----------------------------------------------------------------------------
OneEntry == wanted <= EntryBytes

(* A write changes no byte outside the range it was asked to change, even  *)
(* when one of its commands fails: head and tail put back what they read.  *)
(* A read changes no byte of the caller's buffer past what it transfers.   *)
OutsideKept ==
  /\ \A k \in DiskBytes :
       ~(start <= k /\ k < start + wanted) => disk[k] = FromDisk(k)
  /\ \A k \in DiskBytes : k >= wanted => out[k] = Junk

(* What a write reports as written is on the disk, byte for byte, and a    *)
(* read's buffer holds the disk's bytes in order (for transfers that fit   *)
(* one PRDT entry; longer ones share the entry's address).                 *)
ReportedIsDone ==
  pc = "idle" /\ OneEntry =>
    \A k \in 0 .. ret - 1 :
      IF op = "write" THEN disk[start + k] = k
                      ELSE out[k] = FromDisk(start + k)

(* A call leaves the offset at the end of what it reports, less only a     *)
(* tail: a caller that reads on gets the tail again, and never a gap.      *)
OffsetFollows ==
  [][pc # "idle" => (pc' = "idle" =>
       /\ offset' <= start + ret'
       /\ start + ret' - offset' < SectorSize)]_vars
=============================================================================
