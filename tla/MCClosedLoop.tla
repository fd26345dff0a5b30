---------------------------- MODULE MCClosedLoop ----------------------------
(* ClosedLoop for TLC: the smallest threshold that covers one preemption,  *)
(* and a range of positions that exceeds it.                               *)
EXTENDS ClosedLoop
=============================================================================
