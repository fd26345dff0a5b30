---------------------------- MODULE MCIOThreads ----------------------------
(* A full scale of four, with set points inside, at the ends of and outside *)
(* the scale; an endstop on the base thread, an alarm on the servo thread.  *)
EXTENDS IOThreads
CONSTANTS endstop, alarm
MCServoOrder == <<alarm>>
MCSetPoint   == {-1, 1, 2, 3, 5}
=============================================================================
