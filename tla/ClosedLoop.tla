----------------------------- MODULE ClosedLoop -----------------------------
(***************************************************************************)
(* One joint in closed loop: the base interrupt runs the step generator,   *)
(* the encoder and an endstop; the servo interrupt runs the position       *)
(* monitor, which compares the published step count with the encoder's     *)
(* feedback and raises a fault bit in the word of inputs that the endstop  *)
(* writes too.  The base interrupt may come between any two accesses of    *)
(* the servo interrupt to shared memory, and the main loop runs only when  *)
(* neither does.                                                           *)
(*                                                                         *)
(* Step generator and encoder appear by what Stepgen and QuadEncoder show  *)
(* of them: a step or none per interrupt, counted and made by the drive;   *)
(* motion since the last sample added to the feedback.  Positions are in   *)
(* steps, with one encoder count to the step.  The motor is external: it   *)
(* may stall.                                                              *)
(*                                                                         *)
(* A definition named XMut is X with a plausible slip, kept beside X: some *)
(* property checked by the runs rejects it.                                *)
(***************************************************************************)
EXTENDS Integers

CONSTANTS
  Threshold,       (* errorThreshold                                      *)
  DebounceCycles,  (* debounceCycles                                      *)
  MaxPreempt,      (* base interrupts between the monitor's two reads     *)
  CanStall,        (* whether motors stall                                *)
  Span             (* bound: step count and motor stay within this of     *)
                   (* zero                                                *)

(* The threshold covers what the two counts may differ by in an ideal      *)
(* joint: a step the encoder sees one interrupt later, or the steps made   *)
(* between the monitor's two reads, never both.                            *)
ASSUME LoopAssumption ==
  /\ DebounceCycles \in Nat \ {0} /\ MaxPreempt \in Nat
  /\ Threshold \in Nat \ {0} /\ Threshold >= MaxPreempt
  /\ CanStall \in BOOLEAN /\ Span \in Nat

VARIABLES
  jointEnable,     (* this joint's bit of rxData.jointEnable              *)
  rawCount,        (* gInternalState.jointStepCount[joint]                *)
  motor, stalled,  (* external: where the motor is; it does not follow    *)
  feedback,        (* txData.jointFeedback[joint]                         *)
  seen,            (* the encoder's last sample of the motor              *)
  state,           (* the endstop's debounced state                       *)
  inputs,          (* txData.inputs: which of "fault", "endstop" are set  *)
  servo,           (* where the servo interrupt is                        *)
  stepCount, encCount, preempted,
  errorCount, faultActive,
  pending,         (* what is left of the monitor's update                *)
  loaded,          (* inputs as the servo interrupt has read it           *)
  status,          (* the status set by the monitor                       *)
  excused,         (* history: a step was lost, or the joint was disabled *)
                   (* away from zero                                      *)
  stored,          (* history: the servo interrupt has written inputs     *)
                   (* since the last base interrupt                       *)
  deviated         (* history: the monitor's latest updates that all      *)
                   (* found the joint far off, up to DebounceCycles       *)

joint   == <<jointEnable, rawCount, motor, seen, feedback>>
reads   == <<stepCount, encCount, preempted>>
monitor == <<errorCount, faultActive, pending, loaded, status>>
history == <<excused, stored, deviated>>
vars == <<joint, stalled, state, inputs, servo, reads, monitor, history>>

Abs(x) == IF x < 0 THEN -x ELSE x

Init ==
  /\ jointEnable = FALSE /\ rawCount = 0 /\ motor = 0 /\ stalled = FALSE
  /\ feedback = 0 /\ seen = 0
  /\ state = FALSE /\ inputs = {}
  /\ servo = "idle" /\ stepCount = 0 /\ encCount = 0 /\ preempted = 0
  /\ errorCount = 0 /\ faultActive = FALSE /\ pending = "none" /\ loaded = {}
  /\ status = "ok"
  /\ excused = FALSE /\ stored = FALSE /\ deviated = 0

-----------------------------------------------------------------------------
(* The base interrupt.                                                     *)

(* A step or none, which the drive follows unless it stalls. *)
MakePulses ==
  \E s \in IF jointEnable THEN {-1, 0, 1} ELSE {0} :
    /\ rawCount' = rawCount + s
    /\ motor' = IF stalled THEN motor ELSE motor + s
    /\ Abs(rawCount') <= Span /\ Abs(motor') <= Span
    /\ excused' = (excused \/ (stalled /\ s # 0)
                            \/ (~jointEnable /\ (rawCount # 0 \/ feedback # 0)))

(* Modules run in the order of the configuration: the encoder samples the  *)
(* motor before or after this interrupt's step.                            *)
SampleEncoder ==
  IF jointEnable
  THEN /\ seen' \in {motor, motor'}
       /\ feedback' = feedback + (seen' - seen)
  ELSE /\ feedback' = 0
       /\ UNCHANGED seen

(* Endstop::update writes its bit at every interrupt, changed or not. *)
ShowEndstopMut ==
  inputs' = IF state' = state THEN inputs
            ELSE IF state' THEN inputs \union {"endstop"} ELSE inputs \ {"endstop"}

ShowEndstop ==
  inputs' = IF state' THEN inputs \union {"endstop"} ELSE inputs \ {"endstop"}

Endstop ==
  /\ state' \in BOOLEAN
  /\ ShowEndstop

Base ==
  /\ servo = "between" => preempted < MaxPreempt
  /\ MakePulses /\ SampleEncoder /\ Endstop
  /\ preempted' = IF servo = "between" THEN preempted + 1 ELSE preempted
  /\ stored' = FALSE
  /\ UNCHANGED <<jointEnable, stalled, servo, stepCount, encCount, monitor, deviated>>

-----------------------------------------------------------------------------
(* The servo interrupt: PositionMonitor::update, cut where it touches      *)
(* shared memory.                                                          *)

ReadSteps ==
  /\ servo = "idle" /\ servo' = "between"
  /\ stepCount' = rawCount /\ preempted' = 0
  /\ UNCHANGED <<joint, stalled, state, inputs, encCount, monitor, history>>

Deviation == Abs(rawCount - feedback)

ReadEncoder ==
  /\ servo = "between" /\ servo' = "decide"
  /\ encCount' = feedback /\ preempted' = 0
  /\ deviated' = IF Deviation <= Threshold + MaxPreempt THEN 0
                 ELSE IF deviated < DebounceCycles THEN deviated + 1 ELSE deviated
  /\ UNCHANGED <<joint, stalled, state, inputs, stepCount, monitor, excused, stored>>

AbsError == Abs(stepCount - encCount)

ExceedsMut == AbsError >= Threshold

Exceeds == AbsError > Threshold

(* errorCount is an int that goes on counting while the fault lasts; only  *)
(* whether it has reached debounceCycles matters.                          *)
CountErrorMut == errorCount' = IF ~Exceeds THEN 0
                               ELSE IF errorCount + 1 < DebounceCycles THEN errorCount + 1
                               ELSE errorCount

CountError == errorCount' = IF ~Exceeds THEN 0
                            ELSE IF errorCount < DebounceCycles THEN errorCount + 1
                            ELSE errorCount

TriggersMut == Exceeds /\ errorCount >= DebounceCycles /\ ~faultActive

Triggers == Exceeds /\ errorCount' >= DebounceCycles /\ ~faultActive

(* Only the error at the moment of the trigger decides whether it is fatal. *)
Trigger ==
  /\ Triggers
  /\ faultActive' = TRUE
  /\ pending' = IF AbsError > 3 * Threshold THEN "fatal" ELSE "error"
  /\ servo' = "load"

(* The fault clears itself below three quarters of the threshold. *)
Clears == ~Exceeds /\ faultActive /\ 4 * AbsError < 3 * Threshold

ClearFault ==
  /\ Clears
  /\ faultActive' = FALSE /\ pending' = "clear"
  /\ servo' = "load"

NoChange ==
  /\ ~Triggers /\ ~Clears
  /\ UNCHANGED <<faultActive, pending>>
  /\ servo' = "idle"

Decide ==
  /\ servo = "decide"
  /\ CountError
  /\ Trigger \/ ClearFault \/ NoChange
  /\ stepCount' = 0 /\ encCount' = 0
  /\ UNCHANGED <<joint, stalled, state, inputs, preempted, loaded, status, history>>

(* inputs |= mask and inputs &= ~mask read the word and write it back. *)
Load ==
  /\ servo = "load" /\ servo' = "store"
  /\ loaded' = inputs
  /\ UNCHANGED <<joint, stalled, state, inputs, reads, errorCount, faultActive, pending,
                 status, history>>

StoreMut ==
  /\ servo = "store" /\ servo' = "idle"
  /\ inputs' = loaded \union {"fault"}
  /\ status' = IF pending = "clear" THEN status ELSE pending
  /\ pending' = "none" /\ loaded' = {} /\ stored' = TRUE
  /\ UNCHANGED <<joint, stalled, state, reads, errorCount, faultActive, excused, deviated>>

Store ==
  /\ servo = "store" /\ servo' = "idle"
  /\ inputs' = IF pending = "clear" THEN loaded \ {"fault"} ELSE loaded \union {"fault"}
  /\ status' = IF pending = "clear" THEN status ELSE pending
  /\ pending' = "none" /\ loaded' = {} /\ stored' = TRUE
  /\ UNCHANGED <<joint, stalled, state, reads, errorCount, faultActive, excused, deviated>>

Servo == ReadSteps \/ ReadEncoder \/ Decide \/ Load \/ Store

-----------------------------------------------------------------------------
(* The main loop's copy of a packet. *)
WriteEnable ==
  /\ servo = "idle"
  /\ jointEnable' \in BOOLEAN
  /\ UNCHANGED <<rawCount, motor, seen, feedback, stalled, state, inputs, servo, reads,
                 monitor, history>>

Stall ==
  /\ CanStall
  /\ stalled' \in BOOLEAN
  /\ UNCHANGED <<joint, state, inputs, servo, reads, monitor, history>>

Next == Base \/ Servo \/ WriteEnable \/ Stall

Spec == Init /\ [][Next]_vars

(* Both timers keep interrupting, and an interrupt that has begun ends.    *)
FairSpec == Spec /\ WF_vars(Base) /\ WF_vars(Servo)

-----------------------------------------------------------------------------
Position == (-Span)..Span
Inputs   == SUBSET {"fault", "endstop"}

TypeOK ==
  /\ jointEnable \in BOOLEAN /\ stalled \in BOOLEAN
  /\ rawCount \in Position /\ stepCount \in Position
  /\ motor \in Position /\ seen \in Position /\ feedback \in Int /\ encCount \in Int
  /\ state \in BOOLEAN
  /\ inputs \in Inputs /\ loaded \in Inputs
  /\ servo \in {"idle", "between", "decide", "load", "store"}
  /\ preempted \in 0..MaxPreempt
  /\ errorCount \in 0..DebounceCycles /\ faultActive \in BOOLEAN
  /\ pending \in {"none", "error", "fatal", "clear"} /\ status \in {"ok", "error", "fatal"}
  /\ excused \in BOOLEAN /\ stored \in BOOLEAN /\ deviated \in 0..DebounceCycles

(* The monitor never faults a joint that lost no step and was never        *)
(* disabled away from zero: neither the encoder's lag nor steps made       *)
(* between the two reads nor the base interrupt in the middle of its       *)
(* update look like an error.                                              *)
NoFalseFault == faultActive => excused

(* Whenever the main loop can read the inputs, the fault bit is the        *)
(* monitor's fault: nobody else's write to the word undoes it.             *)
FaultShown == servo = "idle" => (("fault" \in inputs) <=> faultActive)

(* The monitor's read-modify-write may put back an old endstop bit, but    *)
(* only until the next base interrupt.                                     *)
EndstopShown == stored \/ (("endstop" \in inputs) <=> state)

(* A joint that as many updates in a row as are configured found far off   *)
(* has its fault bit set once the last of them is over, whatever the base  *)
(* interrupt did between their reads: the threshold, and what the counts   *)
(* may move between the two reads, is all the monitor overlooks.           *)
DeviationShown == servo = "idle" /\ deviated = DebounceCycles => "fault" \in inputs

(* A deviation that lasts is reported to the host and stays reported.      *)
DeviationReported ==
  <>[](Deviation > Threshold + MaxPreempt) => <>[]("fault" \in inputs)

(* An error of more than three thresholds is marked as fatal               *)
(* (docs/ETHERNET_CLOSED_LOOP_GUIDE.md:39).                                *)
ExtremeIsFatal ==
  <>[](Deviation > 3 * Threshold + MaxPreempt) => <>(status = "fatal")
=============================================================================
