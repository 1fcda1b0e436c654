------------------------- MODULE MCFirmwareLifecycle -------------------------
(***************************************************************************)
(* Instances of FirmwareLifecycle for TLC.                                 *)
(***************************************************************************)
EXTENDS FirmwareLifecycle
=============================================================================
