--------------------------- MODULE AhciDriveProofs --------------------------
(***************************************************************************)
(* Proofs about nop/tasks/ahci.c, for every number of slots, every length  *)
(* of the wait, every size of sectors and disks, and every sequence of     *)
(* transfers and calls: first about the port's driver alone, whatever the  *)
(* controller does between two of its accesses, then about the disk device *)
(* over the port. There, what the first part shows still holds; a call     *)
(* changes nothing outside the range it names; what a transfer of one PRDT *)
(* entry reports as done has been done; and the offset follows it.         *)
(***************************************************************************)
EXTENDS AhciDrive, TLAPS
Setup   == {"init", "stopping", "bases", "starting", "started"}
Prepare == {"find", "build", "spin", "issue"}
Waiting == {"poll", "status"}

(* The bits of PxCMD that the driver has set so far. *)
EngineInv ==
  /\ pc \in {"stopping", "bases", "starting"} => cmd \cap {"ST", "FRE"} = {}
  /\ pc \in {"bases", "starting"} => cmd \cap {"CR", "FR"} = {}
  /\ pc = "started" => "FRE" \in cmd
  /\ pc \notin Setup => {"ST", "FRE"} \subseteq cmd

(* A controller that runs owns the command being waited for and no other.  *)
IssueInv ==
  /\ pc \in Setup => ~halted
  /\ ~halted /\ pc \notin Waiting => ci = {}
  /\ ~halted /\ pc \in Waiting => ci \subseteq {slot}
  /\ pc \in {"build", "spin", "issue"} => slot \notin ci
  /\ pc = "issue" => seen \subseteq ci
  /\ pc = "final" => slot \notin ci

(* What PxIS and PxCI say together about the command. *)
StatusInv ==
  /\ {tfes, halted} \subseteq BOOLEAN
  /\ outcome \in {"none", "ok", "error"}
  /\ pc \in Prepare => ~tfes /\ outcome = "none"
  /\ pc \in Waiting \cup {"final"} =>
       /\ tfes <=> outcome = "error"
       /\ slot \notin ci => outcome # "none"
       /\ slot \in ci => outcome # "ok"
       /\ slot \in ci /\ tfes => halted

IInv == EngineInv /\ IssueInv /\ StatusInv

-----------------------------------------------------------------------------
LEMMA InitIInv == Init => IInv
BY DEF Init, IInv, EngineInv, IssueInv, StatusInv, Setup, Prepare, Waiting

(* The driver's steps. *)
LEMMA DriverIInv ==
  ASSUME IInv, Driver
  PROVE  IInv'
<1> USE DEF IInv, Setup, Prepare, Waiting, hbaVars, sendVars
<1>1. CASE StopEngine
  BY <1>1 DEF StopEngine, EngineInv, IssueInv, StatusInv
<1>2. CASE EngineStopped
  BY <1>2 DEF EngineStopped, EngineInv, IssueInv, StatusInv
<1>3. CASE SetBases
  BY <1>3 DEF SetBases, EngineInv, IssueInv, StatusInv
<1>4. CASE StartReceive
  BY <1>4 DEF StartReceive, EngineInv, IssueInv, StatusInv
<1>5. CASE StartCommands
  BY <1>5 DEF StartCommands, EngineInv, IssueInv, StatusInv
<1>6. CASE ClearStatus
  BY <1>6 DEF ClearStatus, EngineInv, IssueInv, StatusInv
<1>7. CASE FindSlot
  BY <1>7 DEF FindSlot, EngineInv, IssueInv, StatusInv
<1>8. CASE NoSlot
  BY <1>8 DEF NoSlot, Return, EngineInv, IssueInv, StatusInv
<1>9. CASE Build
  BY <1>9 DEF Build, EngineInv, IssueInv, StatusInv
<1>10. CASE Spin
  BY <1>10 DEF Spin, EngineInv, IssueInv, StatusInv
<1>11. CASE SpunOut
  BY <1>11 DEF SpunOut, Return, EngineInv, IssueInv, StatusInv
<1>12. CASE ReadIssue
  BY <1>12 DEF ReadIssue, EngineInv, IssueInv, StatusInv
<1>13. CASE WriteIssue
  BY <1>13 DEF WriteIssue, EngineInv, IssueInv, StatusInv
<1>14. CASE PollIssued
  BY <1>14 DEF PollIssued, EngineInv, IssueInv, StatusInv
<1>15. CASE PollStatus
  BY <1>15 DEF PollStatus, EngineInv, IssueInv, StatusInv
<1>16. CASE PollFailed
  BY <1>16 DEF PollFailed, Return, EngineInv, IssueInv, StatusInv
<1>17. CASE PollSucceeded
  BY <1>17 DEF PollSucceeded, Return, EngineInv, IssueInv, StatusInv
<1> QED
  BY <1>1, <1>2, <1>3, <1>4, <1>5, <1>6, <1>7, <1>8, <1>9, <1>10, <1>11,
     <1>12, <1>13, <1>14, <1>15, <1>16, <1>17 DEF Driver

(* The controller's steps. A running controller has commands only while    *)
(* the driver waits, and then only the driver's own.                       *)
LEMMA HbaIInv ==
  ASSUME IInv, HbaEngine \/ HbaReady \/ HbaAnswers
  PROVE  IInv'
<1> USE DEF IInv, Setup, Prepare, Waiting, sendVars
<1>1. CASE HbaEngine
  BY <1>1 DEF HbaEngine, EngineInv, IssueInv, StatusInv
<1>2. CASE HbaReady
  BY <1>2 DEF HbaReady, EngineInv, IssueInv, StatusInv
<1>3. ASSUME NEW s \in Slots, HbaCompletes(s) \/ HbaFails(s)
      PROVE  IInv'
  <2>1. pc \in Waiting /\ s = slot /\ ~halted
    BY <1>3 DEF HbaCompletes, HbaFails, Running, IssueInv
  <2>2. CASE HbaCompletes(s)
    BY <2>1, <2>2 DEF HbaCompletes, Answers, EngineInv, IssueInv, StatusInv
  <2>3. CASE HbaFails(s)
    BY <2>1, <2>3 DEF HbaFails, Answers, EngineInv, IssueInv, StatusInv
  <2> QED BY <1>3, <2>2, <2>3
<1> QED BY <1>1, <1>2, <1>3 DEF HbaAnswers

LEMMA StepIInv == IInv /\ [Next]_vars => IInv'
<1> SUFFICES ASSUME IInv, [Next]_vars PROVE IInv'
  OBVIOUS
<1>1. CASE UNCHANGED vars
  BY <1>1 DEF vars, hbaVars, sendVars, IInv, EngineInv, IssueInv, StatusInv
<1>2. ASSUME NEW m \in Lengths, Send(m)
      PROVE  IInv'
  BY <1>2 DEF Send, hbaVars, IInv, EngineInv, IssueInv, StatusInv,
              Setup, Prepare, Waiting
<1> QED BY <1>1, <1>2, DriverIInv, HbaIInv DEF Next

(* The invariant that the theorems below come from. *)
THEOREM Invariance == Spec => []IInv
BY InitIInv, StepIInv, PTL DEF Spec

-----------------------------------------------------------------------------
(* The list and FIS addresses change only while the controller is stopped, *)
(* and it is given commands only when it has been started.                 *)
THEOREM BasesSafe == Spec => []BasesWhileStopped
<1>1. IInv => BasesWhileStopped
  BY DEF IInv, EngineInv, IssueInv, BasesWhileStopped, Setup, Waiting
<1> QED BY <1>1, Invariance, PTL

(* The driver fills in no slot that the controller owns and issues none    *)
(* twice by writing PxCI back.                                             *)
THEOREM Ownership == Spec => []SlotOwned
<1>1. IInv => SlotOwned
  BY DEF IInv, IssueInv, SlotOwned
<1> QED BY <1>1, Invariance, PTL

(* A slot is lost only when the controller has halted. *)
THEOREM Leaks == Spec => []LeakOnlyByHalt
<1>1. IInv => LeakOnlyByHalt
  BY DEF IInv, IssueInv, LeakOnlyByHalt, Waiting
<1> QED BY <1>1, Invariance, PTL

(* ahci_send_h2d returns 1 for exactly the commands that succeeded. *)
THEOREM Honesty == Spec => ResultHonest
<1> DEFINE Honest == Finishes => (result' = 1 <=> outcome = "ok")
<1>1. IInv /\ [Next]_vars => [Honest]_vars
  <2> SUFFICES ASSUME IInv, Next, Finishes
               PROVE  result' = 1 <=> outcome = "ok"
    BY DEF vars
  <2>1. PollFailed \/ PollSucceeded
    BY DEF Finishes, Next, Driver, StopEngine, EngineStopped, SetBases,
           StartReceive, StartCommands, ClearStatus, FindSlot, NoSlot, Build,
           Spin, SpunOut, ReadIssue, WriteIssue, PollIssued, PollStatus, Send,
           HbaEngine, HbaReady, HbaAnswers, HbaCompletes, HbaFails
  <2> QED
    BY <2>1 DEF PollFailed, PollSucceeded, Return, IInv, IssueInv, StatusInv,
                Waiting
<1> QED BY <1>1, Invariance, PTL DEF Spec, ResultHonest

-----------------------------------------------------------------------------
(* A step of the drive is a step of the port or leaves the port alone. *)
LEMMA PortStep ==
  ASSUME [DriveNext]_driveVars
  PROVE  \/ Driver
         \/ \E m : Send(m)
         \/ HbaEngine \/ HbaReady \/ HbaAnswers
         \/ UNCHANGED vars
<1> USE DEF driveVars
<1>1. CASE DriverRuns
  BY <1>1 DEF DriverRuns, AddDisk, Issue, Continue
<1>2. CASE Seek \/ Call
  BY <1>2 DEF Seek, Call
<1>3. CASE EngineRuns \/ (HbaReady /\ UNCHANGED <<diskVars, sent>>)
  BY <1>3 DEF EngineRuns
<1>4. CASE AnswersDrive
  BY <1>4 DEF AnswersDrive, HbaAnswers
<1> QED BY <1>1, <1>2, <1>3, <1>4 DEF DriveNext

LEMMA DriveStepIInv == IInv /\ [DriveNext]_driveVars => IInv'
<1> SUFFICES ASSUME IInv, [DriveNext]_driveVars PROVE IInv'
  OBVIOUS
<1>1. ASSUME NEW m, Send(m)
      PROVE  IInv'
  BY <1>1 DEF Send, hbaVars, IInv, EngineInv, IssueInv, StatusInv,
              Setup, Prepare, Waiting
<1>2. CASE UNCHANGED vars
  BY <1>2 DEF vars, hbaVars, sendVars, IInv, EngineInv, IssueInv, StatusInv
<1> QED BY <1>1, <1>2, PortStep, DriverIInv, HbaIInv

LEMMA DriveInvariance == DriveSpec => []IInv
<1>1. DriveInit => IInv
  BY InitIInv DEF DriveInit
<1> QED BY <1>1, DriveStepIInv, PTL DEF DriveSpec

(* Under the disk device, too, the list and FIS addresses change only      *)
(* while the controller is stopped.                                        *)
THEOREM DriveBasesSafe == DriveSpec => []BasesWhileStopped
<1>1. IInv => BasesWhileStopped
  BY DEF IInv, EngineInv, IssueInv, BasesWhileStopped, Setup, Waiting
<1> QED BY <1>1, DriveInvariance, PTL

(* The commands of one call of the device, sent one after the other, are   *)
(* never prepared in a slot that the controller still owns.                *)
THEOREM DriveOwnership == DriveSpec => []SlotOwned
<1>1. IInv => SlotOwned
  BY DEF IInv, IssueInv, SlotOwned
<1> QED BY <1>1, DriveInvariance, PTL

(* No call of the device leaves a command behind, unless the controller    *)
(* has halted.                                                             *)
THEOREM DriveLeaks == DriveSpec => []LeakOnlyByHalt
<1>1. IInv => LeakOnlyByHalt
  BY DEF IInv, IssueInv, LeakOnlyByHalt, Waiting
<1> QED BY <1>1, DriveInvariance, PTL

(* What the device goes on with is what the controller answered to the     *)
(* command it has just sent.                                               *)
THEOREM DriveHonesty == DriveSpec => ResultHonest
<1> DEFINE Honest == Finishes => (result' = 1 <=> outcome = "ok")
<1>1. IInv /\ [DriveNext]_driveVars => [Honest]_vars
  <2> SUFFICES ASSUME IInv, [DriveNext]_driveVars, Finishes, ~UNCHANGED vars
               PROVE  result' = 1 <=> outcome = "ok"
    OBVIOUS
  <2>1. PollFailed \/ PollSucceeded
    BY PortStep
    DEF Finishes, Driver, StopEngine, EngineStopped, SetBases,
        StartReceive, StartCommands, ClearStatus, FindSlot, NoSlot, Build,
        Spin, SpunOut, ReadIssue, WriteIssue, PollIssued, PollStatus, Send,
        HbaEngine, HbaReady, HbaAnswers, HbaCompletes, HbaFails
  <2> QED
    BY <2>1 DEF PollFailed, PollSucceeded, Return, IInv, IssueInv, StatusInv,
                Waiting
<1> QED BY <1>1, DriveInvariance, PTL DEF DriveSpec, ResultHonest

-----------------------------------------------------------------------------
(* Division, for cutting a transfer at the bounds of sectors. *)

LEMMA Division ==
  ASSUME NEW a \in Nat, NEW b \in Nat \ {0}
  PROVE  /\ a % b \in Nat /\ a % b < b /\ a % b <= a
         /\ a \div b \in Nat
         /\ a = b * (a \div b) + (a % b)
OBVIOUS

LEMMA NoRemainder ==
  ASSUME NEW b \in Nat \ {0}, NEW c \in Int, NEW d \in Int,
         NEW r \in Nat, r < b, b * c = b * d + r
  PROVE  r = 0
<1>1. b * (c - d) = r
  OBVIOUS
<1>2. CASE c - d >= 1
  <2>1. b * (c - d) >= b
    BY <1>2
  <2> QED BY <1>1, <2>1
<1>3. CASE c - d <= -1
  <2>1. b * (c - d) <= -b
    BY <1>3
  <2> QED BY <1>1, <2>1
<1>4. CASE c = d
  BY <1>4
<1> QED BY <1>2, <1>3, <1>4

LEMMA Multiple ==
  ASSUME NEW b \in Nat \ {0}, NEW c \in Nat
  PROVE  b * c \in Nat /\ (b * c) % b = 0
BY Division, NoRemainder

LEMMA Monotone ==
  ASSUME NEW b \in Nat \ {0}, NEW c \in Int, NEW d \in Int, c <= d
  PROVE  c * b <= d * b
OBVIOUS

(* Past the rest of a sector the next one begins. *)
LEMMA SectorEnd ==
  ASSUME NEW a \in Nat, NEW b \in Nat \ {0}
  PROVE  (a + (b - (a % b))) % b = 0
<1>1. a + (b - (a % b)) = b * ((a \div b) + 1)
  BY Division
<1>2. (a \div b) + 1 \in Nat
  BY Division
<1> QED BY <1>1, <1>2, Multiple

(* Whole sectors lead from one sector's begin to another's. *)
LEMMA SectorsOn ==
  ASSUME NEW a \in Nat, NEW m \in Nat, NEW b \in Nat \ {0}, a % b = 0
  PROVE  /\ m - (m % b) \in Nat
         /\ (a + (m - (m % b))) % b = 0
<1>1. a + (m - (m % b)) = b * ((a \div b) + (m \div b))
  BY Division
<1>2. (a \div b) + (m \div b) \in Nat
  BY Division
<1>3. m - (m % b) \in Nat
  BY Division
<1> QED BY <1>1, <1>2, <1>3, Multiple

(* A head ends at a sector's end, or ends the transfer. *)
LEMMA HeadCut ==
  ASSUME NEW b \in Nat \ {0}, NEW a \in Nat, NEW m \in Nat, NEW len,
         len = IF b - (a % b) > m THEN m ELSE b - (a % b)
  PROVE  /\ len \in Nat /\ len <= m
         /\ m - len = 0 \/ (a + len) % b = 0
<1>1. b - (a % b) \in Nat
  BY Division
<1>2. CASE b - (a % b) > m
  BY <1>2
<1>3. CASE ~(b - (a % b) > m)
  BY <1>1, <1>3, SectorEnd
<1> QED BY <1>2, <1>3

-----------------------------------------------------------------------------
(* Where a call is. *)
CallInv ==
  /\ call \in {"absent", "unsized", "idle"} \cup Commands
  /\ offset \in Nat /\ left \in Nat /\ ptr \in Nat /\ start \in Nat /\ wanted \in Nat
  /\ offset <= Disk!Size
  /\ sent \in BOOLEAN /\ (sent => call \in Commands)
  /\ call \in Commands => /\ start <= offset /\ offset + left = start + wanted
                          /\ ptr + left = wanted
                          /\ start + wanted <= Disk!Size
  /\ call \in {"head", "headWritten"} => offset = start
  /\ call = "body" => offset % SectorSize = 0 \/ left = 0
  /\ call \in {"tail", "tailWritten"} => offset % SectorSize = 0

Asked(k) == start <= k /\ k < start + wanted

InSector(k) == k - Disk!Base \in Disk!SectorBytes

(* The local buffer holds the sector at offset as it is on the disk. *)
Fetched == \A k \in Disk!DiskBytes : InSector(k) => buffer[k - Disk!Base] = disk[k]

(* It holds it with no byte changed that the call is not about. *)
Patched == \A k \in Disk!DiskBytes :
             InSector(k) /\ ~Asked(k) => buffer[k - Disk!Base] = Disk!FromDisk(k)

(* The command at call has been completed without error. *)
Answered ==
  /\ sent
  /\ \/ pc \in {"poll", "status", "final"} /\ outcome = "ok"
     \/ pc = "idle" /\ result = 1

(* What the local buffer holds when a command has been answered. *)
BufferInv ==
  /\ call \in {"head", "tail"} /\ Answered => Fetched
  /\ call \in {"headWritten", "tailWritten"} => Patched

DInv == CallInv /\ BufferInv /\ OutsideKept

LEMMA SizeNat ==
  /\ SectorSize \in Nat \ {0} /\ Disk!Size \in Nat
  /\ CallLengths \subseteq Nat /\ Distances \subseteq Int
BY DriveAssumption, Multiple DEF Disk!Size

LEMMA BytesInt == Disk!DiskBytes \subseteq Int
BY SizeNat DEF Disk!DiskBytes

LEMMA BaseInt == CallInv => Disk!Base \in Int
<1> SUFFICES ASSUME CallInv PROVE Disk!Base \in Int
  OBVIOUS
<1>1. offset \in Nat
  BY DEF CallInv
<1>2. offset % SectorSize \in Nat
  BY <1>1, SizeNat, Division
<1> QED BY <1>1, <1>2 DEF Disk!Base

LEMMA InitDInv == DriveInit => DInv
<1> SUFFICES ASSUME DriveInit PROVE DInv
  OBVIOUS
<1>1. call = "absent" /\ sent = FALSE
  BY DEF DriveInit
<1>2. CallInv
  <2>1. offset = 0 /\ left = 0 /\ ptr = 0 /\ start = 0 /\ wanted = 0
    BY DEF DriveInit
  <2>2. offset <= Disk!Size
    BY <2>1, SizeNat
  <2> QED BY <1>1, <2>1, <2>2 DEF CallInv, Commands
<1>3. BufferInv
  BY <1>1 DEF BufferInv
<1>4. OutsideKept
  BY SizeNat DEF DriveInit, OutsideKept, Disk!OutsideKept,
     Disk!Untouched, Disk!Unread, Disk!FromDisk, Disk!Junk
<1> QED BY <1>2, <1>3, <1>4 DEF DInv

(* No step of the driver inside ahci_send_h2d makes a command complete. *)
LEMMA DriverAnswered ==
  ASSUME IInv, Driver, UNCHANGED sent, Answered'
  PROVE  Answered
<1>1. ASSUME pc' = "idle", result' = 1
      PROVE  pc = "final" /\ outcome = "ok"
  <2>1. PollSucceeded
    BY <1>1 DEF Driver, StopEngine, EngineStopped, SetBases,
       StartReceive, StartCommands, ClearStatus, FindSlot, NoSlot, Build,
       Spin, SpunOut, ReadIssue, WriteIssue, PollIssued, PollStatus, PollFailed, Return
  <2> QED
    BY <2>1 DEF PollSucceeded, IInv, StatusInv, IssueInv, Waiting
<1>2. ASSUME pc' \in {"poll", "status", "final"}, outcome' = "ok"
      PROVE  pc \in {"poll", "status", "final"} /\ outcome = "ok"
  BY <1>2 DEF Driver, StopEngine, EngineStopped, SetBases, sendVars, hbaVars,
     StartReceive, StartCommands, ClearStatus, FindSlot, NoSlot, Build,
     Spin, SpunOut, ReadIssue, WriteIssue, PollIssued, PollStatus, PollFailed,
     PollSucceeded, Return, IInv, StatusInv, Prepare
<1> QED BY <1>1, <1>2 DEF Answered

(* The driver's steps inside ahci_send_h2d. *)
LEMMA DriverDInv ==
  ASSUME IInv, DInv, Driver, UNCHANGED <<diskVars, sent>>
  PROVE  DInv'
<1>1. CallInv' /\ OutsideKept'
  BY DEF DInv, CallInv, OutsideKept, Disk!OutsideKept, diskVars
<1>2. UNCHANGED Fetched /\ UNCHANGED Patched
  BY DEF Fetched, Patched, InSector, Asked, Disk!Base, diskVars
<1>3. Answered' => Answered
  BY DriverAnswered
<1>4. BufferInv'
  BY <1>2, <1>3 DEF DInv, BufferInv, diskVars
<1> QED BY <1>1, <1>4 DEF DInv

(* The other steps of the port that the disk device does not see. *)
LEMMA HbaDInv ==
  ASSUME DInv, EngineRuns \/ (HbaReady /\ UNCHANGED <<diskVars, sent>>)
  PROVE  DInv'
<1>1. UNCHANGED <<diskVars, sent, pc, outcome, result>>
  BY DEF EngineRuns, HbaEngine, HbaReady, sendVars
<1>2. CallInv' /\ OutsideKept'
  BY <1>1 DEF DInv, CallInv, OutsideKept, Disk!OutsideKept, diskVars
<1>3. UNCHANGED Fetched /\ UNCHANGED Patched
  BY <1>1 DEF Fetched, Patched, InSector, Asked, Disk!Base, diskVars
<1>4. BufferInv'
  BY <1>1, <1>3 DEF DInv, BufferInv, Answered, diskVars
<1> QED BY <1>2, <1>4 DEF DInv

(* The end of ahci_init_port, seeks, new calls and new commands. *)
LEMMA CallDInv ==
  ASSUME IInv, DInv, AddDisk \/ Seek \/ Call \/ Issue
  PROVE  DInv'
<1> USE SizeNat
<1>1. CASE AddDisk
  <2>1. CallInv'
    BY <1>1 DEF AddDisk, DInv, CallInv, Commands
  <2>2. BufferInv'
    BY <1>1 DEF AddDisk, BufferInv
  <2>3. OutsideKept'
    BY <1>1 DEF AddDisk, DInv, OutsideKept, Disk!OutsideKept
  <2> QED BY <2>1, <2>2, <2>3 DEF DInv
<1>2. CASE Seek
  <2>1. PICK base \in {0, offset, Disk!Size}, d \in Distances : Disk!Seek(base, d)
    BY <1>2 DEF Seek
  <2>2. offset' \in Nat /\ offset' <= Disk!Size
    BY <2>1 DEF Disk!Seek, Disk!Clip, DInv, CallInv
  <2>3. CallInv'
    BY <1>2, <2>1, <2>2 DEF Seek, Disk!Seek, Disk!callVars, DInv, CallInv, Commands
  <2>4. BufferInv'
    BY <1>2, <2>1 DEF Seek, Disk!Seek, BufferInv
  <2>5. OutsideKept'
    BY <2>1 DEF Disk!Seek, Disk!callVars, DInv, OutsideKept, Disk!OutsideKept
  <2> QED BY <2>3, <2>4, <2>5 DEF DInv
<1>3. CASE Call
  <2>1. PICK o \in {"read", "write"}, m \in CallLengths : Disk!Call(o, m)
    BY <1>3 DEF Call
  <2>2. ~sent' /\ sent' \in BOOLEAN
    BY <1>3, <2>1 DEF Call, Disk!Call, DInv, CallInv, Commands
  <2>3. CallInv'
    <3> DEFINE clipped == IF m > Disk!Size - offset THEN Disk!Size - offset ELSE m
    <3>1. offset \in Nat /\ offset <= Disk!Size
      BY DEF DInv, CallInv
    <3>2. clipped \in Nat /\ offset + clipped <= Disk!Size
      BY <3>1
    <3>3. /\ left' = clipped /\ wanted' = clipped
          /\ start' = offset /\ ptr' = 0 /\ offset' = offset
          /\ call' = IF offset % SectorSize # 0 THEN "head" ELSE "body"
      BY <2>1 DEF Disk!Call
    <3> HIDE DEF clipped
    <3> QED BY <2>2, <3>1, <3>2, <3>3 DEF CallInv, Commands
  <2>4. BufferInv'
    BY <2>1, <2>2 DEF Disk!Call, BufferInv, Answered
  <2>5. OutsideKept'
    BY <2>1 DEF Disk!Call, OutsideKept, Disk!OutsideKept, Disk!Untouched, Disk!Unread,
                Disk!FromDisk, Disk!Junk
  <2> QED BY <2>3, <2>4, <2>5 DEF DInv
<1>4. CASE Issue
  <2>1. pc' = "clear" /\ UNCHANGED diskVars /\ sent' /\ call \in Commands
    BY <1>4 DEF Issue, Send
  <2>2. CallInv'
    BY <1>4, <2>1 DEF Issue, DInv, CallInv, diskVars
  <2>3. UNCHANGED Patched
    BY <2>1 DEF Patched, InSector, Asked, Disk!Base, diskVars
  <2>4. BufferInv'
    BY <2>1, <2>3 DEF DInv, BufferInv, Answered, diskVars
  <2>5. OutsideKept'
    BY <2>1 DEF DInv, OutsideKept, Disk!OutsideKept, diskVars
  <2> QED BY <2>2, <2>4, <2>5 DEF DInv
<1> QED BY <1>1, <1>2, <1>3, <1>4

(* The controller answers, and moves the data of an awaited command. *)
LEMMA AnswersDInv ==
  ASSUME DInv, AnswersDrive
  PROVE  DInv'
<1>1. PICK s \in Slots, r \in {"ok", "error"} :
        /\ IF r = "ok" THEN HbaCompletes(s) ELSE HbaFails(s)
        /\ IF Awaits(s) THEN Disk!Moves(r) ELSE UNCHANGED diskVars
        /\ UNCHANGED sent
  BY DEF AnswersDrive
<1>2. Answers(s, r) /\ UNCHANGED <<pc, slot, result>>
  BY <1>1 DEF HbaCompletes, HbaFails, sendVars
<1>3. UNCHANGED <<call, offset, left, ptr, start, wanted, sent>>
  BY <1>1 DEF Disk!Moves, Disk!callVars, diskVars
<1>4. CallInv'
  BY <1>3 DEF DInv, CallInv
<1>5. CASE ~Awaits(s)
  <2>1. UNCHANGED diskVars
    BY <1>1, <1>5
  <2>2. UNCHANGED Fetched /\ UNCHANGED Patched
    BY <2>1 DEF Fetched, Patched, InSector, Asked, Disk!Base, diskVars
  <2>3. sent => UNCHANGED outcome
    BY <1>2, <1>5 DEF Answers, Awaits
  <2>4. BufferInv'
    BY <1>2, <1>3, <2>2, <2>3 DEF DInv, BufferInv, Answered
  <2>5. OutsideKept'
    BY <2>1 DEF DInv, OutsideKept, Disk!OutsideKept, diskVars
  <2> QED BY <1>4, <2>4, <2>5 DEF DInv
<1>6. CASE Awaits(s)
  <2>1. sent /\ pc \in {"poll", "status"} /\ outcome' = r
    BY <1>2, <1>6 DEF Awaits, Answers
  <2>2. CASE Disk!MovesSector(r) /\ UNCHANGED out
    <3>1. UNCHANGED <<Disk!Base, start, wanted>>
      BY <1>3 DEF Disk!Base
    <3>2. CASE call \in {"head", "tail"}
      <4>0. Disk!Base \in Int /\ Disk!DiskBytes \subseteq Int
        BY BaseInt, BytesInt DEF DInv
      <4>5. /\ UNCHANGED disk
            /\ r = "ok" => buffer' = [i \in Disk!SectorBytes |-> disk[Disk!Base + i]]
        BY <2>2, <3>2 DEF Disk!MovesSector
      <4>6. ASSUME r = "ok", NEW k \in Disk!DiskBytes, InSector(k)
            PROVE  buffer'[k - Disk!Base] = disk[k]
        <5>1. Disk!Base + (k - Disk!Base) = k
          BY <4>0
        <5> QED BY <4>5, <4>6, <5>1 DEF InSector
      <4>1. UNCHANGED disk /\ (r = "ok" => Fetched')
        BY <3>1, <4>5, <4>6 DEF Fetched, InSector
      <4>2. BufferInv'
        BY <1>2, <1>3, <2>1, <3>2, <4>1 DEF BufferInv, Answered
      <4>3. OutsideKept'
        BY <2>2, <3>1, <4>1 DEF DInv, OutsideKept, Disk!OutsideKept
      <4> QED BY <1>4, <4>2, <4>3 DEF DInv
    <3>3. CASE call \in {"headWritten", "tailWritten"}
      <4>1. UNCHANGED buffer /\ disk' \in {disk, Disk!SectorWritten}
        BY <2>2, <3>3 DEF Disk!MovesSector
      <4>2. Patched /\ Patched'
        BY <1>3, <3>1, <3>3, <4>1 DEF DInv, BufferInv, Patched, InSector, Asked
      <4>3. BufferInv'
        BY <1>3, <3>3, <4>2 DEF BufferInv
      <4>4. OutsideKept'
        BY <2>2, <3>1, <4>1, <4>2 DEF DInv, OutsideKept, Disk!OutsideKept, Disk!SectorWritten,
           Patched, InSector, Asked
      <4> QED BY <1>4, <4>3, <4>4 DEF DInv
    <3> QED BY <2>2, <3>2, <3>3 DEF Disk!MovesSector
  <2>3. CASE Disk!MovesBody(r) /\ UNCHANGED buffer
    <3>1. call = "body"
      BY <2>3 DEF Disk!MovesBody
    <3>2. BufferInv'
      BY <1>3, <3>1 DEF BufferInv
    <3>3. PICK sectors \in 0 .. Disk!Whole \div SectorSize :
            IF op = "read" THEN out' = Disk!BodyRead(sectors * SectorSize) /\ UNCHANGED disk
                           ELSE disk' = Disk!BodyWritten(sectors * SectorSize) /\ UNCHANGED out
      BY <2>3 DEF Disk!MovesBody
    <3> DEFINE len == sectors * SectorSize
    <3>4. len \in Nat /\ len <= left
      <4>1. left \in Nat /\ SectorSize \in Nat \ {0}
        BY SizeNat DEF DInv, CallInv
      <4>2. Disk!Whole \in Nat /\ Disk!Whole <= left
        BY <4>1, Division DEF Disk!Whole
      <4>3. sectors \in Nat /\ Disk!Whole \div SectorSize \in Nat
        BY <4>1, <4>2, Division
      <4>4. sectors * SectorSize <= (Disk!Whole \div SectorSize) * SectorSize
        BY <4>1, <4>3, Monotone
      <4>5. (Disk!Whole \div SectorSize) * SectorSize <= Disk!Whole
        BY <4>1, <4>2, Division
      <4>6. sectors * SectorSize \in Nat
        BY <4>1, <4>3
      <4> QED BY <4>1, <4>2, <4>3, <4>4, <4>5, <4>6
    <3>5. /\ offset + len <= start + wanted /\ start <= offset
          /\ ptr + len <= wanted
      BY <3>1, <3>4 DEF DInv, CallInv, Commands
    <3>7. /\ offset \in Nat /\ ptr \in Nat /\ start \in Nat /\ wanted \in Nat
          /\ Disk!DiskBytes \subseteq Int
      BY BytesInt DEF DInv, CallInv
    <3> HIDE DEF len
    <3>6. OutsideKept'
      <4>1. ASSUME NEW k \in Disk!DiskBytes, ~Asked(k)
            PROVE  disk'[k] = Disk!FromDisk(k)
        <5>1. disk[k] = Disk!FromDisk(k)
          BY <4>1 DEF DInv, OutsideKept, Disk!OutsideKept, Asked
        <5>2. ~(offset <= k /\ k < offset + len)
          BY <3>4, <3>5, <3>7, <4>1 DEF Asked
        <5> QED BY <3>3, <5>1, <5>2, <4>1 DEF len, Disk!BodyWritten
      <4>2. ASSUME NEW k \in Disk!DiskBytes, k >= wanted
            PROVE  out'[k] = Disk!Junk
        <5>1. out[k] = Disk!Junk
          BY <4>2 DEF DInv, OutsideKept, Disk!OutsideKept
        <5>2. ~(k < ptr + len)
          BY <3>4, <3>5, <3>7, <4>2
        <5> QED BY <3>3, <5>1, <5>2, <4>2 DEF len, Disk!BodyRead
      <4> QED BY <1>3, <4>1, <4>2 DEF OutsideKept, Disk!OutsideKept, Asked
    <3> QED BY <1>4, <3>2, <3>6 DEF DInv
  <2> QED BY <1>1, <1>6, <2>2, <2>3 DEF Disk!Moves
<1> QED BY <1>5, <1>6

(* A head stays in what is asked for. *)
LEMMA HeadInside ==
  ASSUME CallInv, call \in {"head", "headWritten"}
  PROVE  /\ Disk!HeadLength \in Nat /\ Disk!HeadLength <= left
         /\ left - Disk!HeadLength = 0 \/ (offset + Disk!HeadLength) % SectorSize = 0
<1>1. offset \in Nat /\ left \in Nat /\ SectorSize \in Nat \ {0}
  BY SizeNat DEF CallInv
<1>2. Disk!HeadLength = IF SectorSize - (offset % SectorSize) > left
                          THEN left ELSE SectorSize - (offset % SectorSize)
  BY DEF Disk!HeadLength
<1> QED BY <1>1, <1>2, HeadCut, Zenon

(* After it the next command starts at a sector, or has no sectors to move. *)
LEMMA HeadDoneInv ==
  ASSUME CallInv, call \in {"head", "headWritten"}, Disk!HeadDone, sent' = FALSE
  PROVE  CallInv'
<1> DEFINE len == Disk!HeadLength
<1>1. /\ offset \in Nat /\ left \in Nat /\ start \in Nat /\ wanted \in Nat /\ ptr \in Nat
      /\ offset = start /\ offset + left = start + wanted /\ start + wanted <= Disk!Size
  BY DEF CallInv, Commands
<1>2. /\ call' = "body" /\ ptr' = len /\ offset' = offset + len /\ left' = left - len
      /\ start' = start /\ wanted' = wanted
  BY DEF Disk!HeadDone
<1>3. /\ len \in Nat /\ len <= left
      /\ left - len = 0 \/ (offset + len) % SectorSize = 0
  BY HeadInside
<1> HIDE DEF len
<1>4. left = wanted
  BY <1>1
<1>5. offset + len \in Nat /\ left - len \in Nat
  BY <1>1, <1>3
<1>6. /\ len + (left - len) = wanted
      /\ start <= offset + len /\ (offset + len) + (left - len) = start + wanted
  BY <1>1, <1>3, <1>4
<1>7. offset + len <= Disk!Size
  BY <1>1, <1>3, SizeNat
<1> QED BY <1>1, <1>2, <1>3, <1>5, <1>6, <1>7 DEF CallInv, Commands

(* After the body only a tail is left, which starts at a sector. *)
LEMMA BodyDoneInv ==
  ASSUME CallInv, Disk!BodyDone, sent' = FALSE
  PROVE  CallInv'
<1> DEFINE tail == left % SectorSize
           whole == left - (left % SectorSize)
<1>1. /\ offset \in Nat /\ left \in Nat /\ start \in Nat /\ wanted \in Nat /\ ptr \in Nat
      /\ call = "body" /\ start <= offset /\ offset + left = start + wanted
      /\ ptr + left = wanted /\ start + wanted <= Disk!Size
      /\ offset % SectorSize = 0 \/ left = 0
  BY DEF CallInv, Commands, Disk!BodyDone
<1>2. /\ ptr' = ptr + whole /\ offset' = offset + whole /\ left' = tail
      /\ start' = start /\ wanted' = wanted
      /\ call' = IF tail # 0 THEN "tail" ELSE "idle"
  BY DEF Disk!BodyDone, Disk!Whole
<1>3. tail \in Nat /\ tail <= left
  BY <1>1, SizeNat, Division
<1>4. whole \in Nat /\ whole + tail = left
  BY <1>1, <1>3
<1>5. tail # 0 => (offset + whole) % SectorSize = 0
  <2>1. SectorSize \in Nat \ {0} /\ offset \in Nat /\ left \in Nat
    BY <1>1, SizeNat
  <2>2. offset % SectorSize = 0 => (offset + (left - (left % SectorSize))) % SectorSize = 0
    BY <2>1, SectorsOn, Zenon
  <2>3. left = 0 => tail = 0
    BY <1>3
  <2> QED BY <1>1, <2>2, <2>3, Zenon
<1> HIDE DEF tail, whole
<1>6. /\ ptr + whole \in Nat /\ offset + whole \in Nat /\ offset + whole <= Disk!Size
      /\ start <= offset + whole
      /\ (offset + whole) + tail = start + wanted /\ (ptr + whole) + tail = wanted
  BY <1>1, <1>3, <1>4, SizeNat
<1> QED BY <1>1, <1>2, <1>3, <1>5, <1>6 DEF CallInv, Commands

(* What is copied to the caller's buffer lies in what is asked for. *)
LEMMA CopiedInside ==
  ASSUME DInv, NEW at \in Int, NEW len \in Nat, ptr + len <= wanted,
         out' = Disk!Copied(at, len), UNCHANGED <<disk, start, wanted>>
  PROVE  OutsideKept'
<1>1. ptr \in Nat /\ wanted \in Nat /\ Disk!DiskBytes \subseteq Int
  BY BytesInt DEF DInv, CallInv
<1>2. ASSUME NEW k \in Disk!DiskBytes, k >= wanted
      PROVE  out'[k] = Disk!Junk
  <2>1. ~(k < ptr + len)
    BY <1>1, <1>2
  <2> QED BY <1>2, <2>1 DEF Disk!Copied, DInv, OutsideKept, Disk!OutsideKept
<1> QED BY <1>2 DEF DInv, OutsideKept, Disk!OutsideKept

(* The caller's bytes that are put into the sector are asked for. *)
LEMMA PatchedInside ==
  ASSUME DInv, Fetched, NEW at \in Int, NEW len \in Nat,
         start <= Disk!Base + at, (Disk!Base + at) + len <= start + wanted,
         buffer' = Disk!Patched(at, len), UNCHANGED <<offset, start, wanted>>
  PROVE  Patched'
<1>1. /\ start \in Nat /\ wanted \in Nat /\ Disk!Base \in Int
      /\ Disk!DiskBytes \subseteq Int
  BY BytesInt, BaseInt DEF DInv, CallInv
<1>2. UNCHANGED Disk!Base
  BY DEF Disk!Base
<1>3. ASSUME NEW k \in Disk!DiskBytes, InSector(k), ~Asked(k)
      PROVE  buffer'[k - Disk!Base] = Disk!FromDisk(k)
  <2>1. buffer[k - Disk!Base] = Disk!FromDisk(k)
    BY <1>3 DEF DInv, Fetched, OutsideKept, Disk!OutsideKept, Asked
  <2>2. ~(at <= k - Disk!Base /\ k - Disk!Base < at + len)
    BY <1>1, <1>3 DEF Asked
  <2> QED BY <1>3, <2>1, <2>2 DEF InSector, Disk!Patched
<1> QED BY <1>2, <1>3 DEF Patched, InSector, Asked

(* What the device does with an answer. *)
LEMMA ContinueDInv ==
  ASSUME DInv, Continue
  PROVE  DInv'
<1>1. sent' = FALSE /\ Disk!Continue /\ UNCHANGED vars
  BY DEF Continue
<1>2. ASSUME Reply = "ok", call \in {"head", "tail"}
      PROVE  Fetched
  BY <1>2 DEF Reply, DInv, BufferInv, Answered
<1>3. ASSUME UNCHANGED <<disk, out, start, wanted>>
      PROVE  OutsideKept'
  BY <1>3 DEF DInv, OutsideKept, Disk!OutsideKept
<1>4. /\ offset \in Nat /\ left \in Nat /\ ptr \in Nat /\ start \in Nat /\ wanted \in Nat
      /\ offset <= Disk!Size
  BY DEF DInv, CallInv
<1>5. CASE Disk!Fails
  <2>1. call' = "idle" /\ UNCHANGED <<disk, out, offset, left, ptr, start, wanted>>
    BY <1>5 DEF Disk!Fails, Disk!callVars
  <2>2. CallInv' /\ BufferInv'
    BY <1>1, <1>4, <2>1 DEF CallInv, BufferInv, Commands
  <2> QED BY <1>3, <2>1, <2>2 DEF DInv
<1>6. CASE Disk!HeadRead
  <2>1. call = "head" /\ Disk!HeadDone /\ out' = Disk!Copied(offset % SectorSize, Disk!HeadLength)
    BY <1>6 DEF Disk!HeadRead
  <2>2. CallInv'
    BY <1>1, <2>1, HeadDoneInv DEF DInv
  <2>3. UNCHANGED <<disk, start, wanted>> /\ call' = "body"
    BY <2>1 DEF Disk!HeadDone
  <2>4. Disk!HeadLength \in Nat /\ Disk!HeadLength <= left /\ ptr + left = wanted
    BY <2>1, HeadInside DEF DInv, CallInv, Commands
  <2>5. ptr + Disk!HeadLength <= wanted
    BY <1>4, <2>4
  <2>6. OutsideKept'
    BY <1>4, <2>1, <2>3, <2>4, <2>5, CopiedInside, SizeNat, Division
  <2>7. BufferInv'
    BY <2>3 DEF BufferInv
  <2> QED BY <2>2, <2>6, <2>7 DEF DInv
<1>7. CASE Disk!HeadPatch
  <2>1. /\ call = "head" /\ call' = "headWritten" /\ Reply = "ok"
        /\ buffer' = Disk!Patched(offset % SectorSize, Disk!HeadLength)
        /\ UNCHANGED <<disk, out, offset, left, ptr, start, wanted>>
    BY <1>7 DEF Disk!HeadPatch, Disk!callVars
  <2>2. CallInv'
    BY <1>1, <2>1 DEF DInv, CallInv, Commands
  <2>3. Patched'
    <3>1. Fetched
      BY <1>2, <2>1
    <3>2. offset % SectorSize \in Nat
      BY <1>4, SizeNat, Division
    <3>3. Disk!Base + (offset % SectorSize) = offset
      BY <1>4, <3>2 DEF Disk!Base
    <3>4. /\ Disk!HeadLength \in Nat /\ Disk!HeadLength <= left
          /\ offset = start /\ offset + left = start + wanted
      BY <2>1, HeadInside DEF DInv, CallInv, Commands
    <3>5. /\ start <= Disk!Base + (offset % SectorSize)
          /\ (Disk!Base + (offset % SectorSize)) + Disk!HeadLength <= start + wanted
      BY <1>4, <3>3, <3>4
    <3> QED BY <2>1, <3>1, <3>2, <3>4, <3>5, PatchedInside
  <2>4. BufferInv'
    BY <1>1, <2>1, <2>3 DEF BufferInv
  <2> QED BY <1>3, <2>1, <2>2, <2>4 DEF DInv
<1>8. CASE Disk!HeadWrite
  <2>1. call = "headWritten" /\ Disk!HeadDone /\ UNCHANGED out
    BY <1>8 DEF Disk!HeadWrite
  <2>2. CallInv'
    BY <1>1, <2>1, HeadDoneInv DEF DInv
  <2>3. UNCHANGED <<disk, start, wanted>> /\ call' = "body"
    BY <2>1 DEF Disk!HeadDone
  <2>4. BufferInv'
    BY <2>3 DEF BufferInv
  <2> QED BY <1>3, <2>1, <2>2, <2>3, <2>4 DEF DInv
<1>9. CASE Disk!BodyDone
  <2>1. call' \in {"tail", "idle"} /\ UNCHANGED <<disk, out, start, wanted>>
    BY <1>9 DEF Disk!BodyDone
  <2>2. CallInv'
    BY <1>1, <1>9, BodyDoneInv DEF DInv
  <2>3. BufferInv'
    BY <1>1, <2>1 DEF BufferInv, Answered
  <2> QED BY <1>3, <2>1, <2>2, <2>3 DEF DInv
<1>10. CASE Disk!TailRead
  <2>1. /\ call = "tail" /\ call' = "idle" /\ out' = Disk!Copied(0, left)
        /\ UNCHANGED <<disk, offset, left, ptr, start, wanted>>
    BY <1>10 DEF Disk!TailRead, Disk!TailDone, Disk!callVars
  <2>2. CallInv' /\ BufferInv'
    BY <1>1, <1>4, <2>1 DEF CallInv, BufferInv, Commands
  <2>3. ptr + left <= wanted
    BY <1>4, <2>1 DEF DInv, CallInv, Commands
  <2>4. OutsideKept'
    BY <1>4, <2>1, <2>3, CopiedInside
  <2> QED BY <2>2, <2>4 DEF DInv
<1>11. CASE Disk!TailPatch
  <2>1. /\ call = "tail" /\ call' = "tailWritten" /\ Reply = "ok"
        /\ buffer' = Disk!Patched(0, left)
        /\ UNCHANGED <<disk, out, offset, left, ptr, start, wanted>>
    BY <1>11 DEF Disk!TailPatch, Disk!callVars
  <2>2. CallInv'
    BY <1>1, <2>1 DEF DInv, CallInv, Commands
  <2>3. Patched'
    <3>1. Fetched
      BY <1>2, <2>1
    <3>2. /\ offset % SectorSize = 0 /\ start <= offset
          /\ offset + left = start + wanted
      BY <2>1 DEF DInv, CallInv, Commands
    <3>3. Disk!Base + 0 = offset
      BY <1>4, <3>2 DEF Disk!Base
    <3>4. start <= Disk!Base + 0 /\ (Disk!Base + 0) + left <= start + wanted
      BY <1>4, <3>2, <3>3
    <3> QED BY <1>4, <2>1, <3>1, <3>4, PatchedInside
  <2>4. BufferInv'
    BY <1>1, <2>1, <2>3 DEF BufferInv
  <2> QED BY <1>3, <2>1, <2>2, <2>4 DEF DInv
<1>12. CASE Disk!TailWrite
  <2>1. call' = "idle" /\ UNCHANGED <<disk, out, offset, left, ptr, start, wanted>>
    BY <1>12 DEF Disk!TailWrite, Disk!TailDone, Disk!callVars
  <2>2. CallInv' /\ BufferInv'
    BY <1>1, <1>4, <2>1 DEF CallInv, BufferInv, Commands
  <2> QED BY <1>3, <2>1, <2>2 DEF DInv
<1> QED BY <1>1, <1>5, <1>6, <1>7, <1>8, <1>9, <1>10, <1>11, <1>12 DEF Disk!Continue

-----------------------------------------------------------------------------
LEMMA DriveStepDInv == IInv /\ DInv /\ [DriveNext]_driveVars => DInv'
<1> SUFFICES ASSUME IInv, DInv, [DriveNext]_driveVars PROVE DInv'
  OBVIOUS
<1>1. CASE UNCHANGED driveVars
  <2>1. UNCHANGED <<vars, diskVars, sent>>
    BY <1>1 DEF driveVars
  <2>2. UNCHANGED <<pc, outcome, result>>
    BY <2>1 DEF vars, hbaVars, sendVars
  <2>3. UNCHANGED Fetched /\ UNCHANGED Patched
    BY <2>1 DEF Fetched, Patched, InSector, Asked, Disk!Base, diskVars
  <2>4. CallInv' /\ OutsideKept'
    BY <2>1 DEF DInv, CallInv, OutsideKept, Disk!OutsideKept, diskVars
  <2>5. BufferInv'
    BY <2>1, <2>2, <2>3 DEF DInv, BufferInv, Answered, diskVars
  <2> QED BY <2>4, <2>5 DEF DInv
<1>2. CASE DriverRuns
  BY <1>2, DriverDInv, CallDInv, ContinueDInv DEF DriverRuns
<1>3. CASE Seek \/ Call
  BY <1>3, CallDInv
<1>4. CASE EngineRuns \/ (HbaReady /\ UNCHANGED <<diskVars, sent>>)
  BY <1>4, HbaDInv
<1>5. CASE AnswersDrive
  BY <1>5, AnswersDInv
<1> QED BY <1>1, <1>2, <1>3, <1>4, <1>5 DEF DriveNext

(* A call of the disk device changes no byte of the disk outside the range *)
(* it names, and a read no byte of the caller's buffer past what it asks   *)
(* for: whatever fails, and whenever the controller answers.               *)
THEOREM Outside == DriveSpec => []OutsideKept
<1>1. DriveInit => IInv /\ DInv
  BY InitIInv, InitDInv DEF DriveInit
<1>2. (IInv /\ DInv) /\ [DriveNext]_driveVars => (IInv /\ DInv)'
  BY DriveStepIInv, DriveStepDInv
<1>3. IInv /\ DInv => OutsideKept
  BY DEF DInv
<1> QED BY <1>1, <1>2, <1>3, PTL DEF DriveSpec

(***************************************************************************)
(* Transfers. What the disk device reports as done has been done, for      *)
(* every number of slots, every size of sectors and disks, and every       *)
(* sequence of calls that fit one PRDT entry. The invariant follows the    *)
(* bytes through the local buffer and through the commands under way.      *)
(***************************************************************************)

(* How many bytes from offset on the command at call is about. *)
Part == IF call \in {"head", "headWritten"} THEN Disk!HeadLength
          ELSE IF call = "body" THEN Disk!Whole ELSE left

InPart(k) == offset <= k /\ k < offset + Part

(* The local buffer holds the caller's bytes. *)
Carries == \A k \in Disk!DiskBytes :
             InSector(k) /\ InPart(k) => buffer[k - Disk!Base] = k - start

Written == \A k \in Disk!DiskBytes : InPart(k) => disk[k] = k - start

ReadIn == \A k \in Disk!DiskBytes :
            ptr <= k /\ k < ptr + Part => out[k] = Disk!FromDisk(start + k)

Done(k) == IF op = "write" THEN disk[start + k] = k ELSE out[k] = Disk!FromDisk(start + k)

Intact == \A k \in Disk!DiskBytes : disk[k] = Disk!FromDisk(k)

(* A call's progress. *)
ProgressInv ==
  /\ op \in {"read", "write"} /\ ret \in Nat
  /\ call \in Commands => ret = ptr
  /\ op = "read" => call \notin {"headWritten", "tailWritten"} /\ Intact
  /\ call \in {"tail", "tailWritten"} => left < SectorSize

(* Where the bytes of the command at call are. *)
PlaceInv ==
  /\ call \in {"headWritten", "tailWritten"} => Carries
  /\ call \in {"headWritten", "tailWritten"} /\ Answered => Written
  /\ call = "body" /\ Answered /\ Disk!OneEntry =>
       IF op = "write" THEN Written ELSE ReadIn

DoneInv == Disk!OneEntry => \A k \in 0 .. ret - 1 : Done(k)

TInv == ProgressInv /\ PlaceInv /\ DoneInv

LEMMA InitTInv == DriveInit => TInv
<1> SUFFICES ASSUME DriveInit PROVE TInv
  OBVIOUS
<1>1. /\ call = "absent" /\ ret = 0 /\ op = "read" /\ disk = Disk!Untouched
  BY DEF DriveInit
<1>2. ProgressInv
  BY <1>1 DEF ProgressInv, Commands, Intact, Disk!Untouched
<1>3. PlaceInv
  BY <1>1 DEF PlaceInv
<1>4. DoneInv
  BY <1>1 DEF DoneInv
<1> QED BY <1>2, <1>3, <1>4 DEF TInv

(* A step that leaves the disk device alone and answers nothing. *)
LEMMA StutterTInv ==
  ASSUME TInv, UNCHANGED diskVars, Answered' => Answered
  PROVE  TInv'
<1>1. UNCHANGED <<Part, Disk!Base, Disk!OneEntry>>
  BY DEF Part, Disk!HeadLength, Disk!Whole, Disk!Base, Disk!OneEntry, diskVars
<1>2. /\ UNCHANGED Carries /\ UNCHANGED Written /\ UNCHANGED ReadIn /\ UNCHANGED Intact
  BY <1>1 DEF Carries, Written, ReadIn, Intact, InPart, InSector, diskVars
<1>3. ProgressInv'
  BY <1>2 DEF TInv, ProgressInv, diskVars
<1>4. PlaceInv'
  BY <1>1, <1>2 DEF TInv, PlaceInv, diskVars
<1>5. DoneInv'
  BY <1>1 DEF TInv, DoneInv, Done, diskVars
<1> QED BY <1>3, <1>4, <1>5 DEF TInv

(* The end of ahci_init_port, seeks, new calls and new commands. *)
LEMMA CallTInv ==
  ASSUME DInv, TInv, AddDisk \/ Seek \/ Call \/ Issue
  PROVE  TInv'
<1>1. CASE Issue
  <2>1. UNCHANGED diskVars /\ ~Answered'
    BY <1>1 DEF Issue, Send, Answered
  <2> QED BY <2>1, StutterTInv
<1>2. CASE AddDisk \/ Seek
  <2>1. /\ UNCHANGED <<disk, out, op, left, ret, start, wanted>>
        /\ call' \in {"idle", "unsized"}
    BY <1>2 DEF AddDisk, Seek, Disk!Seek, Disk!callVars
  <2>2. UNCHANGED Intact /\ UNCHANGED Disk!OneEntry
    BY <2>1 DEF Intact, Disk!OneEntry
  <2>3. ProgressInv'
    BY <2>1, <2>2 DEF TInv, ProgressInv, Commands
  <2>4. PlaceInv'
    BY <2>1 DEF PlaceInv
  <2>5. DoneInv'
    BY <2>1, <2>2 DEF TInv, DoneInv, Done
  <2> QED BY <2>3, <2>4, <2>5 DEF TInv
<1>3. CASE Call
  <2>1. PICK o \in {"read", "write"}, m \in CallLengths : Disk!Call(o, m)
    BY <1>3 DEF Call
  <2>2. /\ op' = o /\ ptr' = 0 /\ ret' = 0 /\ disk' = Disk!Untouched
        /\ call' \in {"head", "body"}
    BY <2>1 DEF Disk!Call
  <2>3. ~Answered'
    BY <1>3, <2>1 DEF Call, Disk!Call, Answered, DInv, CallInv, Commands
  <2>4. ProgressInv'
    BY <2>2 DEF ProgressInv, Intact, Disk!Untouched
  <2>5. PlaceInv'
    BY <2>2, <2>3 DEF PlaceInv
  <2>6. DoneInv'
    BY <2>2 DEF DoneInv
  <2> QED BY <2>4, <2>5, <2>6 DEF TInv
<1> QED BY <1>1, <1>2, <1>3

-----------------------------------------------------------------------------
(* How far a call in progress is. *)
LEMMA InCall ==
  ASSUME CallInv, ProgressInv, call \in Commands
  PROVE  /\ offset \in Nat /\ left \in Nat /\ ptr \in Nat /\ start \in Nat /\ wanted \in Nat
         /\ ret = ptr /\ start + ptr = offset /\ ptr + left = wanted
         /\ start + wanted <= Disk!Size
<1>1. /\ offset \in Nat /\ left \in Nat /\ ptr \in Nat /\ start \in Nat /\ wanted \in Nat
      /\ offset + left = start + wanted /\ ptr + left = wanted /\ ret = ptr
      /\ start + wanted <= Disk!Size
  BY DEF CallInv, ProgressInv
<1>2. start + ptr = offset
  BY <1>1
<1> QED BY <1>1, <1>2

(* The bytes that the command is about, and where they are in a sector. *)
LEMMA InCommand ==
  ASSUME CallInv, ProgressInv, call \in Commands
  PROVE  /\ Part \in Nat /\ Part <= left
         /\ call # "body" => offset + Part <= Disk!Base + SectorSize
         /\ Disk!Base \in Int /\ Disk!Base <= offset
         /\ call \in {"tail", "tailWritten"} => Disk!Base = offset
<1>1. offset \in Nat /\ left \in Nat /\ SectorSize \in Nat \ {0}
  BY SizeNat, InCall
<1>2. offset % SectorSize \in Nat /\ left % SectorSize \in Nat /\ left % SectorSize <= left
  BY <1>1, Division
<1>3. Disk!Base \in Int /\ Disk!Base <= offset /\ Disk!Base + (offset % SectorSize) = offset
  BY <1>1, <1>2 DEF Disk!Base
<1>4. CASE call \in {"head", "headWritten"}
  <2>1. Part = IF SectorSize - (offset % SectorSize) > left
                 THEN left ELSE SectorSize - (offset % SectorSize)
    BY <1>4 DEF Part, Disk!HeadLength
  <2>2. Part \in Nat /\ Part <= left
    BY <1>4, HeadInside DEF Part
  <2>3. Part <= SectorSize - (offset % SectorSize)
    BY <1>1, <1>2, <2>1
  <2>4. offset + Part <= Disk!Base + SectorSize
    BY <1>1, <1>2, <1>3, <2>2, <2>3
  <2> QED BY <1>3, <1>4, <2>2, <2>4
<1>5. CASE call = "body"
  <2>1. Part = left - (left % SectorSize)
    BY <1>5 DEF Part, Disk!Whole
  <2>2. Part \in Nat /\ Part <= left
    BY <1>1, <1>2, <2>1
  <2> QED BY <1>3, <1>5, <2>2
<1>6. CASE call \in {"tail", "tailWritten"}
  <2>1. Part = left /\ offset % SectorSize = 0 /\ left < SectorSize
    BY <1>6 DEF Part, CallInv, ProgressInv
  <2>2. Disk!Base = offset
    BY <1>1, <1>3, <2>1
  <2>3. offset + Part <= Disk!Base + SectorSize
    BY <1>1, <2>1, <2>2
  <2> QED BY <1>1, <1>3, <1>6, <2>1, <2>2, <2>3
<1> QED BY <1>4, <1>5, <1>6 DEF Commands

(* What is done already stays done: it lies before offset. *)
LEMMA KeptDone ==
  ASSUME CallInv, TInv, call \in Commands, UNCHANGED <<op, start>>, Disk!OneEntry,
         \A k \in Disk!DiskBytes : k < offset => disk'[k] = disk[k],
         \A k \in Disk!DiskBytes : k < ptr => out'[k] = out[k],
         NEW k \in 0 .. ptr - 1
  PROVE  Done(k)'
<1>1. /\ offset \in Nat /\ left \in Nat /\ ptr \in Nat /\ start \in Nat /\ wanted \in Nat
      /\ ret = ptr /\ start + ptr = offset /\ ptr + left = wanted
      /\ start + wanted <= Disk!Size
  BY InCall DEF TInv
<1>2. k \in Nat /\ k < ptr /\ start + k < offset
  BY <1>1
<1>3. k \in Disk!DiskBytes /\ start + k \in Disk!DiskBytes
  BY <1>1, <1>2, SizeNat DEF Disk!DiskBytes
<1>4. Done(k)
  BY <1>1 DEF TInv, DoneInv
<1>5. disk'[start + k] = disk[start + k] /\ out'[k] = out[k]
  BY <1>2, <1>3
<1> QED BY <1>4, <1>5 DEF Done

(* A command whose bytes are where they belong is done. *)
LEMMA NewlyDone ==
  ASSUME CallInv, TInv, call \in Commands, UNCHANGED <<op, start, wanted>>,
         ret' = ret + Part,
         \A k \in Disk!DiskBytes : k < offset => disk'[k] = disk[k],
         \A k \in Disk!DiskBytes : k < ptr => out'[k] = out[k],
         Disk!OneEntry =>
           IF op = "write"
             THEN \A k \in Disk!DiskBytes : InPart(k) => disk'[k] = k - start
             ELSE \A k \in Disk!DiskBytes :
                    ptr <= k /\ k < ptr + Part => out'[k] = Disk!FromDisk(start + k)
  PROVE  DoneInv'
<1>1. /\ offset \in Nat /\ left \in Nat /\ ptr \in Nat /\ start \in Nat /\ wanted \in Nat
      /\ ret = ptr /\ start + ptr = offset /\ ptr + left = wanted
      /\ start + wanted <= Disk!Size
  BY InCall DEF TInv
<1>2. Part \in Nat /\ Part <= left
  BY InCommand DEF TInv
<1>3. UNCHANGED Disk!OneEntry
  BY DEF Disk!OneEntry
<1>4. ASSUME Disk!OneEntry, NEW k \in 0 .. (ptr + Part) - 1
      PROVE  Done(k)'
  <2>1. CASE k < ptr
    <3>1. k \in 0 .. ptr - 1
      BY <1>1, <2>1
    <3> QED BY <1>4, <3>1, KeptDone
  <2>2. CASE ~(k < ptr)
    <3>1. k \in Nat /\ ptr <= k /\ k < ptr + Part
      BY <1>1, <1>2, <2>2
    <3>2. offset <= start + k /\ start + k < offset + Part /\ (start + k) - start = k
      BY <1>1, <1>2, <3>1
    <3>3. k \in Disk!DiskBytes /\ start + k \in Disk!DiskBytes
      BY <1>1, <1>2, <3>1, SizeNat DEF Disk!DiskBytes
    <3>4. CASE op = "write"
      BY <1>4, <3>2, <3>3, <3>4 DEF Done, InPart
    <3>5. CASE op # "write"
      BY <1>4, <3>1, <3>3, <3>5 DEF Done
    <3> QED BY <3>4, <3>5
  <2> QED BY <2>1, <2>2
<1>5. ret' = ptr + Part
  BY <1>1
<1> QED BY <1>3, <1>4, <1>5 DEF DoneInv

LEMMA Small ==
  ASSUME NEW a \in Nat, NEW b \in Nat \ {0}, a < b
  PROVE  a % b = a /\ a \div b = 0
<1>1. a = b * (a \div b) + (a % b) /\ a \div b \in Nat /\ a % b \in Nat
  BY Division
<1>2. CASE a \div b >= 1
  <2>1. b * (a \div b) >= b
    BY <1>1, <1>2
  <2> QED BY <1>1, <2>1
<1>3. CASE a \div b = 0
  BY <1>1, <1>3
<1> QED BY <1>1, <1>2, <1>3

(* The controller moves the sectors of a body. *)
LEMMA BodyTInv ==
  ASSUME DInv, TInv, call = "body", NEW r \in {"ok", "error"}, Disk!MovesBody(r),
         UNCHANGED <<buffer, offset, call, left, ret, op, ptr, start, wanted>>,
         Answered' => r = "ok"
  PROVE  TInv'
<1>1. /\ offset \in Nat /\ left \in Nat /\ ptr \in Nat /\ start \in Nat /\ wanted \in Nat
      /\ ret = ptr /\ start + ptr = offset /\ ptr + left = wanted
      /\ start + wanted <= Disk!Size
  BY InCall DEF TInv, DInv, Commands
<1>2. Part = Disk!Whole /\ Part \in Nat /\ Part <= left
  BY InCommand DEF TInv, DInv, Commands, Part
<1>3. UNCHANGED <<Part, Disk!OneEntry>>
  BY DEF Part, Disk!HeadLength, Disk!Whole, Disk!OneEntry
<1>4. PICK sectors \in 0 .. Disk!Whole \div SectorSize :
        /\ r = "ok" => sectors * SectorSize = Disk!Whole
        /\ IF op = "read" THEN out' = Disk!BodyRead(sectors * SectorSize) /\ UNCHANGED disk
                          ELSE disk' = Disk!BodyWritten(sectors * SectorSize) /\ UNCHANGED out
  BY DEF Disk!MovesBody
<1> DEFINE len == sectors * SectorSize
<1>5. /\ r = "ok" => len = Part
      /\ op = "read" => out' = Disk!BodyRead(len) /\ UNCHANGED disk
      /\ op # "read" => disk' = Disk!BodyWritten(len) /\ UNCHANGED out
  BY <1>2, <1>4
<1> HIDE DEF len
<1>6. /\ \A k \in Disk!DiskBytes : k < offset => disk'[k] = disk[k]
      /\ \A k \in Disk!DiskBytes : k < ptr => out'[k] = out[k]
  <2>1. ASSUME NEW k \in Disk!DiskBytes, k < offset
        PROVE  disk'[k] = disk[k]
    <3>1. ~(offset <= k)
      BY <1>1, <2>1, BytesInt
    <3> QED BY <1>5, <2>1, <3>1 DEF Disk!BodyWritten
  <2>2. ASSUME NEW k \in Disk!DiskBytes, k < ptr
        PROVE  out'[k] = out[k]
    <3>1. ~(ptr <= k)
      BY <1>1, <2>2, BytesInt
    <3> QED BY <1>5, <2>2, <3>1 DEF Disk!BodyRead
  <2> QED BY <2>1, <2>2
<1>7. ProgressInv'
  BY <1>5 DEF TInv, ProgressInv, Intact
<1>8. DoneInv'
  BY <1>1, <1>3, <1>6, KeptDone DEF TInv, DInv, DoneInv, Commands
<1>9. ASSUME Disk!OneEntry, r = "ok"
      PROVE  IF op = "write" THEN Written' ELSE ReadIn'
  <2>1. Part <= EntryBytes /\ EntryBytes \in Nat \ {0}
    <3>1. wanted <= EntryBytes
      BY <1>9 DEF Disk!OneEntry
    <3>2. EntryBytes \in Nat \ {0}
      BY DriveAssumption
    <3> QED BY <1>1, <1>2, <3>1, <3>2
  <2>2. ASSUME op = "write", NEW k \in Disk!DiskBytes, InPart(k)
        PROVE  disk'[k] = k - start
    <3>1. k \in Int /\ offset <= k /\ k < offset + Part
      BY <2>2, BytesInt DEF InPart
    <3>2. k - offset \in Nat /\ k - offset < EntryBytes
      BY <1>1, <1>2, <2>1, <3>1
    <3>3. (k - offset) % EntryBytes = k - offset
      BY <2>1, <3>2, Small
    <3>4. disk'[k] = ptr + ((k - offset) % EntryBytes)
      BY <1>5, <1>9, <2>2, <3>1 DEF Disk!BodyWritten
    <3>5. ptr + (k - offset) = k - start
      BY <1>1, <3>1
    <3> QED BY <3>3, <3>4, <3>5
  <2>3. ASSUME op = "read", NEW k \in Disk!DiskBytes, ptr <= k, k < ptr + Part
        PROVE  out'[k] = Disk!FromDisk(start + k)
    <3> DEFINE j == k - ptr
    <3>1. k \in Int /\ j \in Nat /\ j < Part /\ (Part - 1) - j \in Nat
      BY <1>1, <1>2, <2>3, BytesInt
    <3>2. (Part - 1) - j < EntryBytes
      BY <1>2, <2>1, <3>1
    <3>3. ((Part - 1) - j) \div EntryBytes = 0
      BY <2>1, <3>1, <3>2, Small
    <3>4. Disk!LastOf(j, Part) = j
      BY <2>1, <3>1, <3>3 DEF Disk!LastOf
    <3>5. k < ptr + EntryBytes
      BY <1>1, <1>2, <2>1, <2>3, <3>1
    <3>6. out'[k] = disk[offset + Disk!LastOf(j, Part)]
      BY <1>5, <1>9, <2>3, <3>5 DEF Disk!BodyRead
    <3>7. offset + j = start + k
      BY <1>1, <3>1
    <3>8. start + k \in Disk!DiskBytes
      BY <1>1, <1>2, <2>3, <3>1, SizeNat DEF Disk!DiskBytes
    <3> QED BY <2>3, <3>4, <3>6, <3>7, <3>8 DEF TInv, ProgressInv, Intact
  <2> QED BY <1>3, <2>2, <2>3 DEF Written, ReadIn, InPart, TInv, ProgressInv
<1>10. PlaceInv'
  BY <1>3, <1>9 DEF PlaceInv
<1> QED BY <1>7, <1>8, <1>10 DEF TInv

(* The controller reads or writes the sector of a head or a tail. *)
LEMMA SectorTInv ==
  ASSUME DInv, TInv, NEW r \in {"ok", "error"}, Disk!MovesSector(r),
         UNCHANGED <<out, offset, call, left, ret, op, ptr, start, wanted>>,
         Answered' => r = "ok"
  PROVE  TInv'
<1>1. UNCHANGED <<Part, Disk!Base, Disk!OneEntry>>
  BY DEF Part, Disk!HeadLength, Disk!Whole, Disk!Base, Disk!OneEntry
<1>2. CASE call \in {"head", "tail"}
  <2>1. UNCHANGED disk
    BY <1>2 DEF Disk!MovesSector
  <2>2. ProgressInv' /\ DoneInv'
    BY <1>1, <2>1 DEF TInv, ProgressInv, Intact, DoneInv, Done
  <2>3. PlaceInv'
    BY <1>2 DEF PlaceInv
  <2> QED BY <2>2, <2>3 DEF TInv
<1>3. CASE call \in {"headWritten", "tailWritten"}
  <2>1. /\ UNCHANGED buffer /\ disk' \in {disk, Disk!SectorWritten}
        /\ r = "ok" => disk' = Disk!SectorWritten
    BY <1>3 DEF Disk!MovesSector
  <2>2. op = "write" /\ call \in Commands
    BY <1>3 DEF TInv, ProgressInv, Commands
  <2>3. ProgressInv'
    BY <1>3, <2>2 DEF TInv, ProgressInv
  <2>4. /\ offset \in Nat /\ Disk!Base \in Int /\ Part \in Nat
        /\ Disk!Base <= offset /\ offset + Part <= Disk!Base + SectorSize
        /\ SectorSize \in Nat
    BY <1>3, <2>2, InCall, InCommand, SizeNat DEF TInv, DInv
  <2>5. Carries' /\ (Answered' => Written')
    <3>1. UNCHANGED Carries
      BY <1>1, <2>1 DEF Carries, InSector, InPart
    <3>2. ASSUME r = "ok", NEW k \in Disk!DiskBytes, InPart(k)
          PROVE  disk'[k] = k - start
      <4>1. k \in Int /\ Disk!Base <= k /\ k < Disk!Base + SectorSize
        BY <2>4, <3>2, BytesInt DEF InPart
      <4>2. InSector(k)
        BY <2>4, <4>1 DEF InSector, Disk!SectorBytes
      <4>3. disk'[k] = buffer[k - Disk!Base]
        BY <2>1, <3>2, <4>2 DEF Disk!SectorWritten, InSector
      <4>4. Carries
        BY <1>3 DEF TInv, PlaceInv
      <4> QED BY <3>2, <4>2, <4>3, <4>4 DEF Carries
    <3>3. Carries
      BY <1>3 DEF TInv, PlaceInv
    <3> QED BY <1>1, <3>1, <3>2, <3>3 DEF Written, InPart
  <2>6. PlaceInv'
    BY <1>3, <2>5 DEF PlaceInv
  <2>7. DoneInv'
    <3>1. CASE call = "headWritten"
      <4>1. ptr = 0 /\ ret = ptr
        BY <2>2, <3>1, InCall DEF DInv, CallInv, TInv
      <4> QED BY <4>1 DEF DoneInv
    <3>2. CASE call = "tailWritten"
      <4>1. Disk!Base = offset
        BY <2>2, <3>2, InCommand DEF DInv, TInv
      <4>2. ASSUME NEW k \in Disk!DiskBytes, k < offset
            PROVE  disk'[k] = disk[k]
        <5>1. ~InSector(k)
          BY <2>4, <4>1, <4>2, BytesInt DEF InSector, Disk!SectorBytes
        <5> QED BY <2>1, <4>2, <5>1 DEF Disk!SectorWritten, InSector
      <4>3. ret = ptr
        BY <2>2, InCall DEF DInv, TInv
      <4> QED BY <1>1, <2>2, <4>2, <4>3, KeptDone DEF DInv, TInv, DoneInv
    <3> QED BY <1>3, <3>1, <3>2
  <2> QED BY <2>3, <2>6, <2>7 DEF TInv
<1> QED BY <1>2, <1>3 DEF Disk!MovesSector

LEMMA AnswersTInv ==
  ASSUME DInv, TInv, AnswersDrive
  PROVE  TInv'
<1>1. PICK s \in Slots, r \in {"ok", "error"} :
        /\ IF r = "ok" THEN HbaCompletes(s) ELSE HbaFails(s)
        /\ IF Awaits(s) THEN Disk!Moves(r) ELSE UNCHANGED diskVars
        /\ UNCHANGED sent
  BY DEF AnswersDrive
<1>2. Answers(s, r) /\ UNCHANGED <<pc, slot, result>>
  BY <1>1 DEF HbaCompletes, HbaFails, sendVars
<1>3. CASE ~Awaits(s)
  <2>1. UNCHANGED diskVars
    BY <1>1, <1>3
  <2>2. sent => UNCHANGED outcome
    BY <1>2, <1>3 DEF Answers, Awaits
  <2>3. Answered' => Answered
    BY <1>1, <1>2, <2>2 DEF Answered
  <2> QED BY <2>1, <2>3, StutterTInv
<1>4. CASE Awaits(s)
  <2>1. pc \in {"poll", "status"} /\ outcome' = r
    BY <1>2, <1>4 DEF Awaits, Answers
  <2>2. Answered' => r = "ok"
    BY <1>2, <2>1 DEF Answered
  <2>3. /\ UNCHANGED <<offset, call, left, ret, op, ptr, start, wanted>>
        /\ \/ Disk!MovesSector(r) /\ UNCHANGED out
           \/ Disk!MovesBody(r) /\ UNCHANGED buffer
    BY <1>1, <1>4 DEF Disk!Moves, Disk!callVars
  <2>4. Disk!MovesBody(r) => call = "body"
    BY DEF Disk!MovesBody
  <2> QED BY <2>2, <2>3, <2>4, SectorTInv, BodyTInv
<1> QED BY <1>3, <1>4

-----------------------------------------------------------------------------
(* What the device does with an answer. *)

(* A read copies the disk's bytes, in order. *)
LEMMA CopiedIn ==
  ASSUME DInv, TInv, call \in {"head", "tail"}, op = "read", Fetched,
         NEW at \in Nat, Disk!Base + at = offset, out' = Disk!Copied(at, Part)
  PROVE  /\ \A k \in Disk!DiskBytes : k < ptr => out'[k] = out[k]
         /\ \A k \in Disk!DiskBytes :
              ptr <= k /\ k < ptr + Part => out'[k] = Disk!FromDisk(start + k)
<1>1. /\ offset \in Nat /\ left \in Nat /\ ptr \in Nat /\ start \in Nat /\ wanted \in Nat
      /\ start + ptr = offset /\ ptr + left = wanted /\ start + wanted <= Disk!Size
  BY InCall DEF TInv, DInv, Commands
<1>2. /\ Part \in Nat /\ Part <= left /\ SectorSize \in Nat
      /\ offset + Part <= Disk!Base + SectorSize /\ Disk!Base \in Int
  BY InCommand, SizeNat DEF TInv, DInv, Commands
<1>3. ASSUME NEW k \in Disk!DiskBytes, k < ptr
      PROVE  out'[k] = out[k]
  <2>1. ~(ptr <= k)
    BY <1>1, <1>3, BytesInt
  <2> QED BY <1>3, <2>1 DEF Disk!Copied
<1>4. ASSUME NEW k \in Disk!DiskBytes, ptr <= k, k < ptr + Part
      PROVE  out'[k] = Disk!FromDisk(start + k)
  <2>1. k \in Int /\ offset <= start + k /\ start + k < offset + Part
    BY <1>1, <1>2, <1>4, BytesInt
  <2>2. start + k \in Disk!DiskBytes
    BY <1>1, <1>2, <1>4, <2>1, SizeNat DEF Disk!DiskBytes
  <2>3. /\ (start + k) - Disk!Base = at + (k - ptr)
        /\ InSector(start + k)
    BY <1>1, <1>2, <2>1 DEF InSector, Disk!SectorBytes
  <2>4. out'[k] = buffer[at + (k - ptr)]
    BY <1>4 DEF Disk!Copied
  <2>5. buffer[(start + k) - Disk!Base] = disk[start + k]
    BY <2>2, <2>3 DEF Fetched
  <2> QED BY <2>2, <2>3, <2>4, <2>5 DEF TInv, ProgressInv, Intact
<1> QED BY <1>3, <1>4

(* A write puts the caller's bytes, in order, into the sector. *)
LEMMA PatchedIn ==
  ASSUME DInv, TInv, call \in {"head", "tail"}, NEW at \in Nat, Disk!Base + at = offset,
         buffer' = Disk!Patched(at, Part)
  PROVE  \A k \in Disk!DiskBytes :
           InSector(k) /\ InPart(k) => buffer'[k - Disk!Base] = k - start
<1>1. /\ offset \in Nat /\ ptr \in Nat /\ start \in Nat /\ start + ptr = offset
      /\ Disk!Base \in Int /\ Part \in Nat
  BY InCall, InCommand DEF TInv, DInv, Commands
<1>2. ASSUME NEW k \in Disk!DiskBytes, InSector(k), InPart(k)
      PROVE  buffer'[k - Disk!Base] = k - start
  <2>1. /\ k \in Int /\ at <= k - Disk!Base /\ k - Disk!Base < at + Part
        /\ ptr + ((k - Disk!Base) - at) = k - start
    BY <1>1, <1>2, BytesInt DEF InPart
  <2> QED BY <1>2, <2>1 DEF Disk!Patched, InSector
<1> QED BY <1>2

(* A command that has done its part moves the call on. *)
LEMMA NextPart ==
  ASSUME DInv, TInv, call \in Commands, UNCHANGED <<op, start, wanted, disk>>,
         ~Answered', call' \in {"idle", "body", "tail"},
         ret' = ret + Part,
         call' \in Commands => ptr' = ptr + Part,
         call' = "tail" => left' < SectorSize,
         \A k \in Disk!DiskBytes : k < ptr => out'[k] = out[k],
         Disk!OneEntry =>
           IF op = "write"
             THEN \A k \in Disk!DiskBytes : InPart(k) => disk[k] = k - start
             ELSE \A k \in Disk!DiskBytes :
                    ptr <= k /\ k < ptr + Part => out'[k] = Disk!FromDisk(start + k)
  PROVE  TInv'
<1>1. ret = ptr /\ ptr \in Nat /\ Part \in Nat
  BY InCall, InCommand DEF TInv, DInv
<1>2. ret + Part \in Nat /\ ret + Part = ptr + Part
  BY <1>1
<1>3. UNCHANGED Intact
  BY DEF Intact
<1>4. ProgressInv'
  BY <1>2, <1>3 DEF TInv, ProgressInv, Commands
<1>5. PlaceInv'
  BY DEF PlaceInv
<1>6. DoneInv'
  <2>1. CallInv
    BY DEF DInv
  <2>2. \A k \in Disk!DiskBytes : k < offset => disk'[k] = disk[k]
    OBVIOUS
  <2>3. Disk!OneEntry =>
          IF op = "write"
            THEN \A k \in Disk!DiskBytes : InPart(k) => disk'[k] = k - start
            ELSE \A k \in Disk!DiskBytes :
                   ptr <= k /\ k < ptr + Part => out'[k] = Disk!FromDisk(start + k)
    OBVIOUS
  <2> QED BY <2>1, <2>2, <2>3, NewlyDone
<1> QED BY <1>4, <1>5, <1>6 DEF TInv

(* The caller's bytes are put into the sector that will be written back. *)
LEMMA PatchTInv ==
  ASSUME DInv, TInv, call \in {"head", "tail"}, op = "write",
         UNCHANGED <<disk, out, offset, left, ret, op, ptr, start, wanted>>,
         ~Answered',
         call' = IF call = "head" THEN "headWritten" ELSE "tailWritten",
         NEW at \in Nat, Disk!Base + at = offset, buffer' = Disk!Patched(at, Part)
  PROVE  TInv'
<1>1. UNCHANGED <<Part, Disk!Base, Disk!OneEntry>>
  BY DEF Part, Disk!HeadLength, Disk!Base, Disk!OneEntry
<1>2. ProgressInv'
  BY DEF TInv, ProgressInv, Commands
<1>3. Carries'
  <2>1. \A k \in Disk!DiskBytes :
          InSector(k) /\ InPart(k) => buffer'[k - Disk!Base] = k - start
    BY PatchedIn
  <2> QED BY <1>1, <2>1 DEF Carries, InSector, InPart
<1>4. PlaceInv'
  BY <1>3 DEF PlaceInv
<1>5. DoneInv'
  BY <1>1 DEF TInv, DoneInv, Done
<1> QED BY <1>2, <1>4, <1>5 DEF TInv

LEMMA ContinueTInv ==
  ASSUME DInv, TInv, Continue
  PROVE  TInv'
<1>1. ~Answered' /\ Disk!Continue
  BY DEF Continue, Answered
<1>2. Reply = "ok" => Answered
  BY DEF Reply, Answered
<1>3. Reply = "ok" /\ call \in {"head", "tail"} => Fetched
  BY <1>2 DEF DInv, BufferInv
<1>4. /\ offset \in Nat /\ left \in Nat /\ ptr \in Nat /\ SectorSize \in Nat \ {0}
  BY SizeNat DEF DInv, CallInv
<1>5. CASE Disk!Fails
  <2>1. call' = "idle" /\ UNCHANGED <<disk, out, ret, op, start, wanted>>
    BY <1>5 DEF Disk!Fails, Disk!callVars
  <2>2. UNCHANGED Intact /\ UNCHANGED Disk!OneEntry
    BY <2>1 DEF Intact, Disk!OneEntry
  <2>3. ProgressInv' /\ PlaceInv'
    BY <2>1, <2>2 DEF TInv, ProgressInv, PlaceInv, Commands
  <2>4. DoneInv'
    BY <2>1, <2>2 DEF TInv, DoneInv, Done
  <2> QED BY <2>3, <2>4 DEF TInv
<1> DEFINE at == offset % SectorSize
<1>13. call = "head" => at \in Nat /\ Disk!Base + at = offset
  <2>1. at \in Nat
    BY <1>4, Division
  <2> QED BY <1>4, <2>1 DEF Disk!Base
<1>14. call \in {"tail", "tailWritten"} => Disk!Base + 0 = offset
  BY InCommand, <1>4 DEF DInv, TInv, Commands
<1> HIDE DEF at
<1>15. call \in {"head", "headWritten"} => ptr = 0 /\ ret = 0
  <2>1. call \in {"head", "headWritten"} => offset = start /\ start + ptr = offset /\ ret = ptr
    BY InCall DEF DInv, TInv, CallInv, Commands
  <2> QED BY <1>4, <2>1
<1>16. call \in Commands => Part \in Nat /\ ret = ptr
  BY InCommand, InCall DEF DInv, TInv
<1>6. CASE Disk!HeadRead
  <2>1. /\ call = "head" /\ op = "read" /\ Reply = "ok"
        /\ out' = Disk!Copied(at, Part) /\ UNCHANGED <<disk, op, start, wanted>>
        /\ call' = "body" /\ ptr' = Part /\ ret' = Part
    BY <1>6 DEF Disk!HeadRead, Disk!HeadDone, Part, at
  <2>2. /\ \A k \in Disk!DiskBytes : k < ptr => out'[k] = out[k]
        /\ \A k \in Disk!DiskBytes :
             ptr <= k /\ k < ptr + Part => out'[k] = Disk!FromDisk(start + k)
    BY <1>3, <1>13, <2>1, CopiedIn
  <2>3. Part = ret + Part /\ Part = ptr + Part
    BY <1>15, <1>16, <2>1 DEF Commands
  <2>4. ret' = ret + Part /\ ptr' = ptr + Part
    BY <2>1, <2>3
  <2> QED BY <1>1, <2>1, <2>2, <2>4, NextPart DEF Commands
<1>7. CASE Disk!HeadPatch
  <2>1. /\ call = "head" /\ op = "write" /\ buffer' = Disk!Patched(at, Part)
        /\ UNCHANGED <<disk, out, offset, left, ret, op, ptr, start, wanted>>
        /\ call' = "headWritten"
    BY <1>7 DEF Disk!HeadPatch, Disk!callVars, Part, at
  <2> QED BY <1>1, <1>13, <2>1, PatchTInv
<1>8. CASE Disk!HeadWrite
  <2>1. /\ call = "headWritten" /\ Reply = "ok"
        /\ UNCHANGED <<disk, out, op, start, wanted>>
        /\ call' = "body" /\ ptr' = Part /\ ret' = Part
    BY <1>8 DEF Disk!HeadWrite, Disk!HeadDone, Part
  <2>2. op = "write" /\ Written
    BY <1>2, <2>1 DEF TInv, ProgressInv, PlaceInv
  <2>3. Part = ret + Part /\ Part = ptr + Part
    BY <1>15, <1>16, <2>1 DEF Commands
  <2>4. ret' = ret + Part /\ ptr' = ptr + Part
    BY <2>1, <2>3
  <2> QED BY <1>1, <2>1, <2>2, <2>4, NextPart DEF Commands, Written
<1>9. CASE Disk!BodyDone
  <2>1. /\ call = "body" /\ Reply = "ok" /\ Part = Disk!Whole
        /\ UNCHANGED <<disk, out, op, start, wanted>>
        /\ ptr' = ptr + Part /\ ret' = ret + Part /\ left' = left % SectorSize
        /\ call' \in {"tail", "idle"}
    BY <1>9 DEF Disk!BodyDone, Part
  <2>2. Disk!OneEntry => IF op = "write" THEN Written ELSE ReadIn
    BY <1>2, <2>1 DEF TInv, PlaceInv
  <2>3. left' < SectorSize
    <3>1. left % SectorSize < SectorSize
      BY <1>4, Division
    <3> QED BY <2>1, <3>1
  <2> QED BY <1>1, <2>1, <2>2, <2>3, NextPart DEF Commands, Written, ReadIn
<1>10. CASE Disk!TailRead
  <2>1. /\ call = "tail" /\ op = "read" /\ Reply = "ok" /\ Part = left
        /\ out' = Disk!Copied(0, Part) /\ UNCHANGED <<disk, op, start, wanted>>
        /\ call' = "idle" /\ ret' = ret + Part
    BY <1>10 DEF Disk!TailRead, Disk!TailDone, Disk!callVars, Part
  <2>2. /\ \A k \in Disk!DiskBytes : k < ptr => out'[k] = out[k]
        /\ \A k \in Disk!DiskBytes :
             ptr <= k /\ k < ptr + Part => out'[k] = Disk!FromDisk(start + k)
    BY <1>3, <1>14, <2>1, CopiedIn
  <2> QED BY <1>1, <2>1, <2>2, NextPart DEF Commands
<1>11. CASE Disk!TailPatch
  <2>1. /\ call = "tail" /\ op = "write" /\ buffer' = Disk!Patched(0, Part)
        /\ UNCHANGED <<disk, out, offset, left, ret, op, ptr, start, wanted>>
        /\ call' = "tailWritten"
    BY <1>11 DEF Disk!TailPatch, Disk!callVars, Part
  <2> QED BY <1>1, <1>14, <2>1, PatchTInv
<1>12. CASE Disk!TailWrite
  <2>1. /\ call = "tailWritten" /\ Reply = "ok" /\ Part = left
        /\ UNCHANGED <<disk, out, op, start, wanted>>
        /\ call' = "idle" /\ ret' = ret + Part
    BY <1>12 DEF Disk!TailWrite, Disk!TailDone, Disk!callVars, Part
  <2>2. op = "write" /\ Written
    BY <1>2, <2>1 DEF TInv, ProgressInv, PlaceInv
  <2> QED BY <1>1, <2>1, <2>2, NextPart DEF Commands, Written
<1> QED BY <1>1, <1>5, <1>6, <1>7, <1>8, <1>9, <1>10, <1>11, <1>12 DEF Disk!Continue

-----------------------------------------------------------------------------
LEMMA DriveStepTInv == IInv /\ DInv /\ TInv /\ [DriveNext]_driveVars => TInv'
<1> SUFFICES ASSUME IInv, DInv, TInv, [DriveNext]_driveVars PROVE TInv'
  OBVIOUS
<1>1. CASE UNCHANGED driveVars
  <2>1. UNCHANGED diskVars /\ (Answered' => Answered)
    BY <1>1 DEF driveVars, vars, hbaVars, sendVars, Answered
  <2> QED BY <2>1, StutterTInv
<1>2. CASE Driver /\ UNCHANGED <<diskVars, sent>>
  <2>1. UNCHANGED diskVars /\ (Answered' => Answered)
    BY <1>2, DriverAnswered
  <2> QED BY <2>1, StutterTInv
<1>3. CASE AddDisk \/ Seek \/ Call \/ Issue
  BY <1>3, CallTInv
<1>4. CASE Continue
  BY <1>4, ContinueTInv
<1>5. CASE EngineRuns \/ (HbaReady /\ UNCHANGED <<diskVars, sent>>)
  <2>1. UNCHANGED <<diskVars, sent, pc, outcome, result>>
    BY <1>5 DEF EngineRuns, HbaEngine, HbaReady, sendVars
  <2>2. UNCHANGED diskVars /\ (Answered' => Answered)
    BY <2>1 DEF Answered
  <2> QED BY <2>2, StutterTInv
<1>6. CASE AnswersDrive
  BY <1>6, AnswersTInv
<1> QED BY <1>1, <1>2, <1>3, <1>4, <1>5, <1>6 DEF DriveNext, DriverRuns

(* What a write reports as written is on the disk, byte for byte, and what *)
(* a read reports is the disk's, in order: also when an earlier command of *)
(* the call was slow, or a later one failed (for calls that fit one entry  *)
(* of the command table).                                                  *)
THEOREM Reported == DriveSpec => []ReportedIsDone
<1>1. DriveInit => IInv /\ DInv /\ TInv
  BY InitIInv, InitDInv, InitTInv DEF DriveInit
<1>2. (IInv /\ DInv /\ TInv) /\ [DriveNext]_driveVars => (IInv /\ DInv /\ TInv)'
  BY DriveStepIInv, DriveStepDInv, DriveStepTInv
<1>3. IInv /\ DInv /\ TInv => ReportedIsDone
  BY DEF TInv, DoneInv, Done, ReportedIsDone, Disk!ReportedIsDone
<1> QED BY <1>1, <1>2, <1>3, PTL DEF DriveSpec
-----------------------------------------------------------------------------
(* Until the device is added nothing has moved its offset. *)
AbsentInv == call = "absent" => offset = 0 /\ start = 0 /\ ret = 0

LEMMA StepAbsentInv == AbsentInv /\ DInv /\ [DriveNext]_driveVars => AbsentInv'
<1> SUFFICES ASSUME AbsentInv, DInv, [DriveNext]_driveVars, call' = "absent"
             PROVE  call = "absent" /\ UNCHANGED <<offset, start, ret>>
  BY DEF AbsentInv
<1>1. CASE UNCHANGED diskVars
  BY <1>1 DEF diskVars
<1>2. CASE AddDisk
  BY <1>2 DEF AddDisk
<1>3. CASE Seek \/ Call
  BY <1>3 DEF Seek, Call, Disk!Seek, Disk!Call
<1>4. CASE Continue
  <2>1. Disk!Continue /\ call \in Commands
    BY <1>4 DEF Continue, Disk!Continue, Disk!Fails, Disk!HeadRead, Disk!HeadPatch,
       Disk!HeadWrite, Disk!BodyDone, Disk!TailRead, Disk!TailPatch, Disk!TailWrite,
       Reply, DInv, CallInv, Commands
  <2> QED
    BY <2>1 DEF Disk!Continue, Disk!Fails, Disk!HeadRead, Disk!HeadPatch,
       Disk!HeadWrite, Disk!HeadDone, Disk!BodyDone, Disk!TailRead, Disk!TailPatch,
       Disk!TailWrite, Disk!TailDone, Disk!callVars, Commands
<1>5. CASE AnswersDrive
  BY <1>5 DEF AnswersDrive, Disk!Moves, Disk!callVars, diskVars
<1> QED BY <1>1, <1>2, <1>3, <1>4, <1>5
        DEF DriveNext, DriverRuns, Issue, EngineRuns, driveVars

(* Where the call ends, its offset is what it reports past its start, but  *)
(* for a tail, which is less than a sector.                                *)
LEMMA ContinueFollows ==
  ASSUME CallInv, ProgressInv, call \in Commands, Disk!Continue, call' = "idle"
  PROVE  offset' <= start + ret' /\ start + ret' - offset' < SectorSize
<1>1. /\ offset \in Nat /\ left \in Nat /\ ptr \in Nat /\ start \in Nat
      /\ ret = ptr /\ start + ptr = offset /\ SectorSize \in Nat \ {0}
  BY InCall, SizeNat
<1>2. CASE UNCHANGED <<offset, ret>>
  BY <1>1, <1>2
<1>3. CASE Disk!BodyDone
  <2> DEFINE moved == Disk!Whole
  <2>1. moved \in Nat
    BY <1>1, Division DEF Disk!Whole
  <2>2. offset' = offset + moved /\ ret' = ret + moved
    BY <1>3 DEF Disk!BodyDone
  <2> HIDE DEF moved
  <2> QED BY <1>1, <2>1, <2>2
<1>4. CASE Disk!TailRead \/ Disk!TailWrite
  <2>1. left < SectorSize
    BY <1>4 DEF Disk!TailRead, Disk!TailWrite, ProgressInv
  <2>2. offset' = offset /\ ret' = ret + left
    BY <1>4 DEF Disk!TailRead, Disk!TailWrite, Disk!TailDone
  <2> QED BY <1>1, <2>1, <2>2
<1> QED BY <1>2, <1>3, <1>4
        DEF Disk!Continue, Disk!Fails, Disk!callVars, Disk!HeadRead, Disk!HeadPatch,
            Disk!HeadWrite, Disk!HeadDone, Disk!TailPatch

(* A call that is over, with or without an error, has left the offset at   *)
(* the end of what it reports, or less than a sector before it: whoever    *)
(* reads on from there may get bytes again, and never skips one.           *)
THEOREM Follows == DriveSpec => OffsetFollows
<1> DEFINE Ends == call # "idle" => (call' = "idle" =>
                     offset' <= start + ret' /\ start + ret' - offset' < SectorSize)
<1>1. DriveInit => IInv /\ DInv /\ TInv /\ AbsentInv
  BY InitIInv, InitDInv, InitTInv DEF DriveInit, AbsentInv
<1>2. (IInv /\ DInv /\ TInv /\ AbsentInv) /\ [DriveNext]_driveVars
        => (IInv /\ DInv /\ TInv /\ AbsentInv)'
  BY DriveStepIInv, DriveStepDInv, DriveStepTInv, StepAbsentInv
<1>3. (IInv /\ DInv /\ TInv /\ AbsentInv) /\ [DriveNext]_driveVars => [Ends]_Disk!vars
  <2> SUFFICES ASSUME DInv, TInv, AbsentInv, [DriveNext]_driveVars,
                      call # "idle", call' = "idle"
               PROVE  offset' <= start + ret' /\ start + ret' - offset' < SectorSize
    OBVIOUS
  <2>1. CASE AddDisk
    <3>1. offset' = 0 /\ start = 0 /\ ret' = 0
      BY <2>1 DEF AddDisk, AbsentInv
    <3> QED BY <3>1, SizeNat
  <2>2. CASE Continue
    <3>1. Disk!Continue /\ call \in Commands
      BY <2>2 DEF Continue, Disk!Continue, Disk!Fails, Disk!HeadRead, Disk!HeadPatch,
         Disk!HeadWrite, Disk!BodyDone, Disk!TailRead, Disk!TailPatch, Disk!TailWrite,
         Reply, DInv, CallInv, Commands
    <3> QED BY <3>1, ContinueFollows DEF DInv, TInv
  <2>3. CASE UNCHANGED call
    BY <2>3
  <2> QED BY <2>1, <2>2, <2>3
          DEF DriveNext, DriverRuns, Issue, EngineRuns, driveVars, diskVars, Seek, Call,
              Disk!Seek, Disk!Call, AnswersDrive, Disk!Moves
<1> QED BY <1>1, <1>2, <1>3, PTL DEF DriveSpec, OffsetFollows, Disk!OffsetFollows
=============================================================================
