----------------------------- MODULE AhciDrive ------------------------------
(***************************************************************************)
(* nop/tasks/ahci.c as a whole: the disk device over its port. Every       *)
(* command that a call of the device needs goes through ahci_send_h2d; the *)
(* controller moves the data at the moment it answers, while the driver    *)
(* polls; and the device goes on with what ahci_send_h2d returns.          *)
(***************************************************************************)
EXTENDS AhciPort

CONSTANTS
  SectorSize, SectorCount, EntryBytes,
  CallLengths,   \* the n of reads and writes
  Distances      \* the offset arguments of seek

ASSUME DriveAssumption ==
  /\ SectorSize \in Nat \ {0} /\ SectorCount \in Nat \ {0}
  /\ EntryBytes \in Nat \ {0} /\ EntryBytes % SectorSize = 0
  /\ CallLengths \subseteq Nat /\ Distances \subseteq Int
  /\ {512 * k : k \in 0 .. SectorCount} \subseteq Lengths

VARIABLES
  disk, out, buffer, offset,
  call,     \* "absent" until the device is added, "unsized" if IDENTIFY has
            \* failed, then AhciDisk's pc
  op, left, ptr, ret, start, wanted,
  sent      \* ahci_send_h2d has been called for the command at call

diskVars == <<disk, out, buffer, offset, call, op, left, ptr, ret, start, wanted>>
driveVars == <<vars, diskVars, sent>>

(* What ahci_sector_read or ahci_sector_write returns. *)
Reply == IF ~sent \/ pc # "idle" THEN "none"
                                 ELSE IF result = 1 THEN "ok" ELSE "error"

Disk == INSTANCE AhciDisk WITH pc <- call, n <- left, reply <- Reply

DriveInit ==
  /\ Init
  /\ call = "absent"
  /\ disk = Disk!Untouched /\ out = Disk!Unread /\ buffer = Disk!Empty
  /\ offset = 0 /\ op = "read"
  /\ left = 0 /\ ptr = 0 /\ ret = 0 /\ start = 0 /\ wanted = 0
  /\ sent = FALSE

Commands == {"head", "headWritten", "body", "tail", "tailWritten"}

-----------------------------------------------------------------------------
(* The end of ahci_init_port. Without an answer to IDENTIFY the device is  *)
(* added with the size that the memory of its ahci_t happens to hold; what *)
(* calls of such a device do is not modelled.                              *)
AddDisk ==
  /\ call = "absent" /\ pc = "idle"
  /\ call' = IF result = 1 THEN "idle" ELSE "unsized"
  /\ UNCHANGED <<vars, sent, disk, out, buffer, offset, op, left, ptr, ret, start, wanted>>

Seek ==
  /\ \E base \in {0, offset, Disk!Size}, d \in Distances : Disk!Seek(base, d)
  /\ UNCHANGED <<vars, sent>>

Call ==
  /\ \E o \in {"read", "write"}, m \in CallLengths : Disk!Call(o, m)
  /\ UNCHANGED <<vars, sent>>

(* ahci_sector_read and ahci_sector_write. *)
Issue ==
  /\ call \in Commands /\ ~sent
  /\ Send(Disk!Bytes)
  /\ sent' = TRUE
  /\ UNCHANGED diskVars

Continue ==
  /\ Disk!Continue
  /\ sent' = FALSE
  /\ UNCHANGED vars

(* The driver is waiting for the command in slot s. *)
Awaits(s) == sent /\ pc \in {"poll", "status"} /\ s = slot

AnswersDrive ==
  \E s \in Slots, r \in {"ok", "error"} :
    /\ IF r = "ok" THEN HbaCompletes(s) ELSE HbaFails(s)
    /\ IF Awaits(s) THEN Disk!Moves(r) ELSE UNCHANGED diskVars
    /\ UNCHANGED sent

DriverRuns == \/ Driver /\ UNCHANGED <<diskVars, sent>>
              \/ AddDisk \/ Issue \/ Continue

EngineRuns == HbaEngine /\ UNCHANGED <<diskVars, sent>>

DriveNext ==
  \/ DriverRuns
  \/ Seek \/ Call
  \/ EngineRuns
  \/ HbaReady /\ UNCHANGED <<diskVars, sent>>
  \/ AnswersDrive

DriveSpec == DriveInit /\ [][DriveNext]_driveVars

(* The driver's loops run on and the HBA does not stall by itself; nobody  *)
(* is obliged to call and the device may stay busy.                        *)
FairDriveSpec ==
  /\ DriveSpec
  /\ WF_driveVars(DriverRuns)
  /\ WF_driveVars(EngineRuns)
  /\ WF_driveVars(AnswersDrive)

-----------------------------------------------------------------------------
(* What AhciDisk promises, now of the calls that go through the port.      *)
OutsideKept == Disk!OutsideKept
ReportedIsDone == Disk!ReportedIsDone
OffsetFollows == Disk!OffsetFollows

(* A call of the device returns, whatever the port answers to each of its  *)
(* up to five commands, unless the HBA was halted by an earlier failure or *)
(* the call has a body of no sectors, for which ahci_send_h2d overruns.    *)
CallReturns ==
  call \in Commands /\ ~halted ~> call = "idle" \/ pc = "runaway"
=============================================================================
