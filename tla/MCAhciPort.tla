----------------------------- MODULE MCAhciPort -----------------------------
(***************************************************************************)
(* The port by itself, with transfers of nothing and of one sector: its    *)
(* other properties are checked under the disk device, in MCAhciDrive.     *)
(***************************************************************************)
EXTENDS AhciPort

=============================================================================
