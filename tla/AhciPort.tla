------------------------------ MODULE AhciPort ------------------------------
(***************************************************************************)
(* nop/tasks/ahci.c: one port of an AHCI controller, from ahci_init_port   *)
(* to ahci_send_h2d, at the level of the port's registers. The driver      *)
(* polls; the controller (HBA), which is external, changes the registers   *)
(* between any two of the driver's accesses.                               *)
(***************************************************************************)
EXTENDS Integers, FiniteSets

CONSTANTS
  SlotCounts,  \* the command slots of a port (32; fewer, for checking)
  SpinMax,     \* the turns of the wait for BSY and DRQ (1 << 22)
  Lengths      \* the byte counts passed to ahci_send_h2d

ASSUME PortAssumption ==
  /\ SlotCounts \subseteq Nat \ {0} /\ SpinMax \in Nat \ {0}
  /\ Lengths \subseteq Nat

VARIABLES
  slotCount,
  cmd,      \* the bits set in PxCMD
  ci,       \* the bits set in PxCI: commands the HBA owns
  tfes,     \* PxIS.TFES: a command has failed
  busy,     \* PxTFD.BSY or PxTFD.DRQ
  halted,   \* the HBA has stopped at a failed command
  outcome,  \* what the HBA did with the driver's last command
  pc,
  n, slot, prdtl, spin,   \* ahci_send_h2d's argument and locals
  seen,     \* the value of PxCI that the driver read to set its own bit
  result    \* what ahci_send_h2d returned last

hbaVars  == <<slotCount, cmd, ci, tfes, busy, halted, outcome>>
sendVars == <<n, slot, prdtl, spin, seen, result>>
vars == <<hbaVars, pc, sendVars>>

Slots == 0 .. slotCount - 1

(* The firmware may leave the engine running, without commands. *)
Init ==
  /\ slotCount \in SlotCounts
  /\ cmd \in {{}, {"ST", "CR", "FRE", "FR"}}
  /\ ci = {} /\ tfes \in BOOLEAN /\ busy \in BOOLEAN
  /\ halted = FALSE /\ outcome = "none"
  /\ pc = "init"
  /\ n = 0 /\ slot = 0 /\ prdtl = 0 /\ spin = 0 /\ seen = {} /\ result = 0

-----------------------------------------------------------------------------
(* ahci_init_port. *)

(* The two masks of ahci_stop_engine together clear the whole register. *)
StopEngine ==
  /\ pc = "init"
  /\ cmd' = cmd \ {"ST", "FRE"}
  /\ pc' = "stopping"
  /\ UNCHANGED <<slotCount, ci, tfes, busy, halted, outcome, sendVars>>

(* Variant: the wait for the HBA is forgotten. *)
EngineNotStopped ==
  /\ pc = "stopping"
  /\ pc' = "bases"
  /\ UNCHANGED <<hbaVars, sendVars>>

EngineStopped ==
  /\ pc = "stopping"
  /\ cmd \cap {"CR", "FR"} = {}
  /\ pc' = "bases"
  /\ UNCHANGED <<hbaVars, sendVars>>

(* The command list, the FIS area and the command tables get their memory; *)
(* ahci_start_engine waits for CR.                                         *)
SetBases ==
  /\ pc = "bases"
  /\ pc' = "starting"
  /\ UNCHANGED <<hbaVars, sendVars>>

StartReceive ==
  /\ pc = "starting"
  /\ "CR" \notin cmd
  /\ cmd' = cmd \cup {"FRE"}
  /\ pc' = "started"
  /\ UNCHANGED <<slotCount, ci, tfes, busy, halted, outcome, sendVars>>

(* ST, and then ahci_identify's command of 512 bytes. *)
StartCommands ==
  /\ pc = "started"
  /\ cmd' = cmd \cup {"ST"}
  /\ n' = 512
  /\ pc' = "clear"
  /\ UNCHANGED <<slotCount, ci, tfes, busy, halted, outcome, slot, prdtl, spin, seen, result>>

-----------------------------------------------------------------------------
(* ahci_send_h2d. *)

(* ahci_sector_read and ahci_sector_write, for count << 9 bytes. *)
Send(m) ==
  /\ pc = "idle"
  /\ n' = m
  /\ pc' = "clear"
  /\ UNCHANGED <<hbaVars, slot, prdtl, spin, seen, result>>

Return(r) ==
  /\ pc' = "idle"
  /\ result' = r
  /\ n' = 0 /\ slot' = 0 /\ prdtl' = 0 /\ spin' = 0 /\ seen' = {}

ClearStatus ==
  /\ pc = "clear"
  /\ tfes' = FALSE
  /\ outcome' = "none"
  /\ pc' = "find"
  /\ UNCHANGED <<slotCount, cmd, ci, busy, halted, sendVars>>

(* Variant: slot 0 is always taken. *)
FindFirst ==
  /\ pc = "find"
  /\ slot' = 0
  /\ pc' = "build"
  /\ UNCHANGED <<hbaVars, n, prdtl, spin, seen, result>>

FindSlot ==
  /\ pc = "find"
  /\ \E s \in Slots \ ci :
       /\ \A t \in 0 .. s - 1 : t \in ci
       /\ slot' = s
  /\ pc' = "build"
  /\ UNCHANGED <<hbaVars, n, prdtl, spin, seen, result>>

NoSlot ==
  /\ pc = "find"
  /\ Slots \subseteq ci
  /\ Return(0)
  /\ UNCHANGED hbaVars

(* (uint16_t)((n - 1) >> 13) + 1, stored in 16 bits; 0 - 1 wraps to the *)
(* largest size_t, whose high bits are 2^19 - 1.                         *)
Prdtl(bytes) ==
  LET last == IF bytes = 0 THEN 2^19 - 1 ELSE (bytes - 1) \div 8192
  IN  ((last % 2^16) + 1) % 2^16

(* The loop over prdtl - 1 entries counts to 2^32 - 1 if prdtl is 0. *)
Build ==
  /\ pc = "build"
  /\ prdtl' = Prdtl(n)
  /\ spin' = SpinMax
  /\ pc' = IF prdtl' = 0 THEN "runaway" ELSE "spin"
  /\ UNCHANGED <<hbaVars, n, slot, seen, result>>

Spin ==
  /\ pc = "spin"
  /\ busy /\ spin > 0
  /\ spin' = spin - 1
  /\ UNCHANGED <<hbaVars, pc, n, slot, prdtl, seen, result>>

SpunOut ==
  /\ pc = "spin"
  /\ spin = 0
  /\ Return(0)
  /\ UNCHANGED hbaVars

(* Setting one bit of PxCI is a read and a write of the register. *)
ReadIssue ==
  /\ pc = "spin"
  /\ ~busy /\ spin > 0
  /\ seen' = ci
  /\ pc' = "issue"
  /\ UNCHANGED <<hbaVars, n, slot, prdtl, spin, result>>

WriteIssue ==
  /\ pc = "issue"
  /\ ci' = ci \cup seen \cup {slot}
  /\ pc' = "poll"
  /\ UNCHANGED <<slotCount, cmd, tfes, busy, halted, outcome, sendVars>>

(* Variant: the command counts as finished at once. *)
PollNothing ==
  /\ pc = "poll"
  /\ pc' = "final"
  /\ UNCHANGED <<hbaVars, sendVars>>

PollIssued ==
  /\ pc = "poll"
  /\ pc' = IF slot \in ci THEN "status" ELSE "final"
  /\ UNCHANGED <<hbaVars, sendVars>>

(* Variant: the driver gives a pending command up. *)
PollImpatient ==
  /\ pc = "status"
  /\ ~tfes
  /\ Return(0)
  /\ UNCHANGED hbaVars

PollStatus ==
  /\ pc = "status"
  /\ ~tfes
  /\ pc' = "poll"
  /\ UNCHANGED <<hbaVars, sendVars>>

(* Variant: a failure while waiting is not looked at. *)
PollFailedLate ==
  /\ pc = "final"
  /\ tfes
  /\ Return(0)
  /\ UNCHANGED hbaVars

PollFailed ==
  /\ pc \in {"status", "final"}
  /\ tfes
  /\ Return(0)
  /\ UNCHANGED hbaVars

PollSucceeded ==
  /\ pc = "final"
  /\ ~tfes
  /\ Return(1)
  /\ UNCHANGED hbaVars

Driver ==
  \/ StopEngine \/ EngineStopped \/ SetBases \/ StartReceive \/ StartCommands
  \/ ClearStatus \/ FindSlot \/ NoSlot \/ Build
  \/ Spin \/ SpunOut \/ ReadIssue \/ WriteIssue
  \/ PollIssued \/ PollStatus \/ PollFailed \/ PollSucceeded

-----------------------------------------------------------------------------
(* The HBA, as the driver's polling presumes it. *)

(* CR follows ST and FR follows FRE. *)
HbaEngine ==
  \E on, running \in {"ST", "CR", "FRE", "FR"} :
    /\ <<on, running>> \in {<<"ST", "CR">>, <<"FRE", "FR">>}
    /\ (on \in cmd) # (running \in cmd)
    /\ cmd' = IF on \in cmd THEN cmd \cup {running} ELSE cmd \ {running}
    /\ UNCHANGED <<slotCount, ci, tfes, busy, halted, outcome, pc, sendVars>>

(* The device is ready or not ready for the next command. *)
HbaReady ==
  /\ busy' = ~busy
  /\ UNCHANGED <<slotCount, cmd, ci, tfes, halted, outcome, pc, sendVars>>

Running == "CR" \in cmd /\ ~halted

Answers(s, o) == outcome' = IF pc \in {"poll", "status"} /\ s = slot THEN o ELSE outcome

HbaCompletes(s) ==
  /\ Running /\ s \in ci
  /\ ci' = ci \ {s}
  /\ busy' = FALSE
  /\ Answers(s, "ok")
  /\ UNCHANGED <<slotCount, cmd, tfes, halted, pc, sendVars>>

(* A failed command keeps its bit and stops the HBA until ST is cleared, or *)
(* loses it and leaves the HBA running: controllers differ.                 *)
HbaFails(s) ==
  /\ Running /\ s \in ci
  /\ tfes' = TRUE
  /\ \/ halted' = TRUE /\ ci' = ci
     \/ halted' = FALSE /\ ci' = ci \ {s}
  /\ busy' = FALSE
  /\ Answers(s, "error")
  /\ UNCHANGED <<slotCount, cmd, pc, sendVars>>

HbaAnswers == \E s \in Slots : HbaCompletes(s) \/ HbaFails(s)

Next ==
  \/ Driver
  \/ \E m \in Lengths : Send(m)
  \/ HbaEngine \/ HbaReady \/ HbaAnswers

Spec == Init /\ [][Next]_vars

-----------------------------------------------------------------------------
TypeOK ==
  /\ slotCount \in SlotCounts
  /\ cmd \subseteq {"ST", "CR", "FRE", "FR"}
  /\ ci \subseteq Slots /\ seen \subseteq Slots
  /\ {tfes, busy, halted} \subseteq BOOLEAN
  /\ outcome \in {"none", "ok", "error"}
  /\ pc \in {"init", "stopping", "bases", "starting", "started", "idle",
             "clear", "find", "build", "spin", "issue", "poll", "status",
             "final", "runaway"}
  /\ n \in Lengths \cup {0, 512} /\ slot \in Slots
  /\ prdtl \in 0 .. 2^16 - 1 /\ spin \in 0 .. SpinMax
  /\ result \in {0, 1}

(* The list and FIS addresses are written only while the HBA uses neither, *)
(* and no command is issued before it runs its command list.               *)
BasesWhileStopped ==
  /\ pc \in {"bases", "starting"} => cmd \cap {"CR", "FR"} = {} /\ ci = {}
  /\ ci # {} => {"ST", "FRE"} \subseteq cmd

(* A header and a table are filled in only in a slot the HBA does not own, *)
(* and setting a bit of PxCI never issues again what has been answered.    *)
SlotOwned ==
  /\ pc \in {"build", "spin", "issue"} => slot \notin ci
  /\ pc = "issue" => seen \subseteq ci

Finishes == pc \in {"status", "final"} /\ pc' = "idle"

(* ahci_send_h2d returns 1 exactly for a command that the HBA completed    *)
(* without error: no failure is taken for success, in whichever order the  *)
(* driver reads PxCI and PxIS, and no earlier failure for a new one.       *)
ResultHonest ==
  [][Finishes => (result' = 1 <=> outcome = "ok")]_vars

(* Slots are lost one way only: a failure on which the HBA halts. A driver *)
(* that gave up waiting would leave a command, and its buffer, to the HBA. *)
LeakOnlyByHalt == pc = "idle" /\ ~halted => ci = {}

(* "PRDT entry count, one per 8192 bytes plus one for the remaining."      *)
(* (nop/tasks/ahci.c:59): there is at least one entry.                     *)
EntryForRemainder == pc \in {"spin", "runaway"} => prdtl >= 1
=============================================================================
