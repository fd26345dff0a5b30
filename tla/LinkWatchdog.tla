---------------------------- MODULE LinkWatchdog ----------------------------
(***************************************************************************)
(* What the communication watchdog promises, without its implementation:   *)
(* the link is alive exactly while the servo thread has heard a valid      *)
(* packet within its last Limit ticks.  RemoraCore implements it with the  *)
(* three fields data, noDataCount and status of CommsHandler.              *)
(***************************************************************************)
EXTENDS Naturals

CONSTANT Limit     (* ticks of silence after which the link is dead *)

VARIABLES
  started,         (* the servo thread is running                       *)
  heard,           (* a valid packet was reported since the last tick   *)
  silence          (* ticks since one was last heard; Limit stands for  *)
                   (* "that long or longer, or never"                   *)

watchVars == <<started, heard, silence>>

Alive == silence < Limit

WatchInit ==
  /\ started = FALSE
  /\ heard = FALSE
  /\ silence = Limit

Start ==
  /\ started' = TRUE
  /\ UNCHANGED <<heard, silence>>

(* The communication interface reports a packet, valid or not. *)
Report ==
  /\ heard' \in BOOLEAN
  /\ UNCHANGED <<started, silence>>

(* One tick of the servo thread. *)
Tick ==
  /\ started /\ UNCHANGED started
  /\ heard' = FALSE
  /\ silence' = IF heard THEN 0
                ELSE IF silence < Limit THEN silence + 1 ELSE Limit

(* The processor resets: nothing ticks until the thread is started again. *)
Restart ==
  /\ started' = FALSE
  /\ heard' = FALSE
  /\ silence' = Limit

WatchNext == Start \/ Report \/ Tick \/ Restart

WatchSpec == WatchInit /\ [][WatchNext]_watchVars
=============================================================================
