---------------------------- MODULE MCOtaUpdate ----------------------------
(* A watchdog of two units and a restart after one: either may be due first. *)
EXTENDS OtaUpdate
=============================================================================
