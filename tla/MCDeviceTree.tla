---------------------------- MODULE MCDeviceTree ----------------------------
(***************************************************************************)
(* Numbers in names are binary, so that the third disk ("disk10") has a    *)
(* name that continues the second's, and the fifth ("disk100") one that    *)
(* continues both; the table grows three times on the way.                 *)
(***************************************************************************)
EXTENDS DeviceTree
=============================================================================
