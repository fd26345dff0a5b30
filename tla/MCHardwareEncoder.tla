------------------------- MODULE MCHardwareEncoder -------------------------
(* HardwareEncoder for TLC: a timer of eight values, an int of sixteen and *)
(* a shaft that wraps both in both directions.                             *)
EXTENDS HardwareEncoder
=============================================================================
