------------------------- MODULE MCDeviceLifecycle -------------------------
(* Delays of one unit, a station timeout of two; two keys and two names, so  *)
(* that an old one can be told from a new one.                               *)
EXTENDS DeviceLifecycle
=============================================================================
