------------------------- MODULE MCRelayController -------------------------
(* Small instances of RelayController: two limits, so that a config save can *)
(* shorten or lengthen the deadline, and a press of two units, so that a     *)
(* change can be requested while a button is held.                          *)
EXTENDS RelayController

MCLimits == {3, 5}
MCPulse == 2
MCCap == 6
=============================================================================
