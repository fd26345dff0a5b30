-------------------------- MODULE ClosedLoop_proofs --------------------------
(* The position monitor never faults an ideal joint, and its fault and the *)
(* endstop are what the host reads, for every threshold, debounce and      *)
(* number of preemptions the threshold covers.                             *)
EXTENDS ClosedLoop, TLAPS

Mine == {"idle", "between", "decide"}

(* The inductive invariants.  A joint that is not excused: the motor is    *)
(* where it was told to be, the feedback at most one step behind, and what *)
(* the monitor has read differs by no more than the steps made since.      *)
Near(x, y, d) == x - y <= d /\ y - x <= d

IdealInv ==
  /\ motor = rawCount /\ feedback = seen /\ Near(rawCount, seen, 1)
  /\ faultActive = FALSE /\ errorCount = 0
  /\ servo = "between" => /\ Near(stepCount, rawCount, preempted)
                          /\ Near(stepCount, feedback, Threshold)
  /\ servo = "decide" => Near(stepCount, encCount, Threshold)

(* A decision not yet written to the inputs is pending, and only then do   *)
(* the bit and the monitor differ.                                         *)
ShownInv ==
  /\ servo \in Mine => (("fault" \in inputs) <=> faultActive) /\ pending = "none"
  /\ servo \notin Mine => pending # "none" /\ (pending = "clear" <=> ~faultActive)

(* A joint far off: what the monitor has read is off by more than the      *)
(* threshold, and each such update is counted.                             *)
DeviationInv ==
  /\ servo = "between" => Near(stepCount, rawCount, preempted)
  /\ servo = "decide" /\ deviated > 0 => Exceeds
  /\ deviated <= IF servo = "decide" THEN errorCount + 1 ELSE errorCount
  /\ servo # "decide" /\ deviated = DebounceCycles => faultActive

Inv == TypeOK /\ (~excused => IdealInv) /\ ShownInv /\ EndstopShown

LEMMA Bounds ==
  /\ DebounceCycles \in Nat \ {0} /\ MaxPreempt \in Nat /\ Threshold \in Nat \ {0}
  /\ Threshold >= MaxPreempt /\ Span \in Nat
BY LoopAssumption

LEMMA PositionIsInt == Position \subseteq Int
BY Bounds DEF Position

LEMMA AbsNear ==
  ASSUME NEW x \in Int, NEW y \in Int, NEW d \in Int
  PROVE  Abs(x - y) <= d <=> Near(x, y, d)
BY DEF Abs, Near

LEMMA AbsRange ==
  ASSUME NEW x \in Int, Abs(x) <= Span
  PROVE  x \in Position
BY Bounds DEF Abs, Position

LEMMA InitInv == Init => Inv
<1> SUFFICES ASSUME Init PROVE Inv
  OBVIOUS
<1>1. TypeOK
  <2>1. /\ rawCount \in Position /\ stepCount \in Position /\ motor \in Position /\ seen \in Position
        /\ feedback \in Int /\ encCount \in Int
        /\ preempted \in 0..MaxPreempt /\ errorCount \in 0..DebounceCycles
        /\ deviated \in 0..DebounceCycles
    BY Bounds DEF Init, Position
  <2>2. /\ jointEnable \in BOOLEAN /\ stalled \in BOOLEAN /\ state \in BOOLEAN
        /\ faultActive \in BOOLEAN /\ excused \in BOOLEAN /\ stored \in BOOLEAN
    BY DEF Init
  <2>3. /\ inputs \in Inputs /\ loaded \in Inputs
        /\ servo \in {"idle", "between", "decide", "load", "store"}
        /\ pending \in {"none", "error", "fatal", "clear"} /\ status \in {"ok", "error", "fatal"}
    BY DEF Init, Inputs
  <2> QED
    BY <2>1, <2>2, <2>3 DEF TypeOK
<1>2. IdealInv
  BY Bounds DEF Init, IdealInv, Near
<1>3. ShownInv
  BY DEF Init, ShownInv, Mine
<1>4. EndstopShown
  BY DEF Init, EndstopShown
<1> QED
  BY <1>1, <1>2, <1>3, <1>4 DEF Inv

-----------------------------------------------------------------------------
(* The base interrupt.                                                     *)

LEMMA BaseType == Inv /\ Base => TypeOK'
<1> SUFFICES ASSUME Inv, Base PROVE TypeOK'
  OBVIOUS
<1>1. /\ rawCount \in Int /\ motor \in Position /\ motor \in Int /\ seen \in Position /\ seen \in Int
      /\ feedback \in Int /\ preempted \in 0..MaxPreempt
  BY PositionIsInt DEF Inv, TypeOK
<1>2. rawCount' \in Position /\ motor' \in Position
  <2>1. PICK s \in {-1, 0, 1} :
          /\ rawCount' = rawCount + s
          /\ motor' = IF stalled THEN motor ELSE motor + s
          /\ Abs(rawCount') <= Span /\ Abs(motor') <= Span
    BY DEF Base, MakePulses
  <2>2. rawCount + s \in Int /\ (IF stalled THEN motor ELSE motor + s) \in Int
    BY <1>1, <2>1
  <2>3. rawCount' \in Int /\ motor' \in Int
    BY <2>1, <2>2
  <2> QED
    BY <2>1, <2>3, AbsRange
<1>3. excused' \in BOOLEAN
  BY DEF Base, MakePulses
<1>4. seen' \in Position
  BY <1>1, <1>2 DEF Base, SampleEncoder
<1>5. feedback' \in Int
  <2>1. PICK x \in Int : seen' = x
    BY <1>4, PositionIsInt
  <2> QED
    BY <1>1, <2>1 DEF Base, SampleEncoder
<1>6. inputs' \in Inputs /\ state' \in BOOLEAN
  BY DEF Base, Endstop, ShowEndstop, Inv, TypeOK, Inputs
<1>7. preempted' \in 0..MaxPreempt
  BY <1>1, Bounds DEF Base
<1>8. /\ stored' = FALSE /\ jointEnable' = jointEnable /\ stalled' = stalled /\ servo' = servo
      /\ stepCount' = stepCount /\ encCount' = encCount
      /\ errorCount' = errorCount /\ faultActive' = faultActive /\ pending' = pending
      /\ loaded' = loaded /\ status' = status /\ deviated' = deviated
  BY DEF Base, monitor
<1>9. TypeOK
  BY DEF Inv
<1> QED
  BY <1>2, <1>3, <1>4, <1>5, <1>6, <1>7, <1>8, <1>9 DEF TypeOK

LEMMA BaseIdeal == Inv /\ Base => (~excused => IdealInv)'
<1> SUFFICES ASSUME Inv, Base, ~excused' PROVE IdealInv'
  OBVIOUS
<1>1. /\ rawCount \in Int /\ motor \in Int /\ seen \in Int /\ feedback \in Int
      /\ stepCount \in Int /\ encCount \in Int /\ preempted \in 0..MaxPreempt
  BY PositionIsInt DEF Inv, TypeOK
<1>2. PICK s \in {-1, 0, 1} :
        /\ ~jointEnable => s = 0
        /\ rawCount' = rawCount + s
        /\ motor' = IF stalled THEN motor ELSE motor + s
        /\ excused' = (excused \/ (stalled /\ s # 0)
                               \/ (~jointEnable /\ (rawCount # 0 \/ feedback # 0)))
  BY DEF Base, MakePulses
<1>3. /\ ~excused /\ (stalled => s = 0)
      /\ ~jointEnable => s = 0 /\ rawCount = 0 /\ feedback = 0
  BY <1>2
<1>4. IdealInv
  BY <1>3 DEF Inv
<1>5. motor = rawCount /\ feedback = seen /\ Near(rawCount, seen, 1)
  BY <1>4 DEF IdealInv
<1>6. motor' = rawCount + s
  BY <1>1, <1>2, <1>3, <1>5
<1>7. /\ servo' = servo /\ stepCount' = stepCount /\ encCount' = encCount
      /\ faultActive' = faultActive /\ errorCount' = errorCount
  BY DEF Base, monitor
<1>8. PICK f \in {feedback, rawCount, rawCount + s} :
        feedback' = f /\ seen' = f /\ Near(rawCount + s, f, 1)
  <2>1. CASE jointEnable
    <3>1. seen' \in {rawCount, rawCount + s} /\ feedback' = feedback + (seen' - seen)
      BY <1>5, <1>6, <2>1 DEF Base, SampleEncoder
    <3>2. PICK f \in {rawCount, rawCount + s} : seen' = f
      BY <3>1
    <3>3. f \in Int
      BY <1>1, <3>2
    <3>4. feedback' = f
      BY <1>1, <1>5, <3>1, <3>2, <3>3
    <3>5. Near(rawCount + s, f, 1)
      BY <1>1, <3>2, <3>3 DEF Near
    <3> QED
      BY <3>2, <3>4, <3>5
  <2>2. CASE ~jointEnable
    <3>1. s = 0 /\ rawCount = 0 /\ feedback = 0 /\ seen = 0
      BY <1>3, <1>5, <2>2
    <3>2. feedback' = feedback /\ seen' = feedback
      BY <2>2, <3>1 DEF Base, SampleEncoder
    <3>3. Near(rawCount + s, feedback, 1)
      BY <3>1 DEF Near
    <3> QED
      BY <3>1, <3>2, <3>3
  <2> QED
    BY <2>1, <2>2
<1>9. motor' = rawCount' /\ feedback' = seen' /\ Near(rawCount', seen', 1)
  BY <1>2, <1>6, <1>8
<1>10. ASSUME servo = "between"
       PROVE  Near(stepCount', rawCount', preempted') /\ Near(stepCount', feedback', Threshold)
  <2>1. Near(stepCount, rawCount, preempted) /\ Near(stepCount, feedback, Threshold)
    BY <1>4, <1>10 DEF IdealInv
  <2>2. preempted' = preempted + 1 /\ preempted < MaxPreempt
    BY <1>10 DEF Base
  <2>3. Near(stepCount, rawCount + s, preempted + 1)
    BY <1>1, <2>1 DEF Near
  <2>4. preempted + 1 <= Threshold /\ preempted <= Threshold /\ Threshold \in Nat
    BY <1>1, <2>2, Bounds
  <2>5. Near(stepCount, f, Threshold)
    <3>1. CASE f = feedback
      BY <2>1, <3>1
    <3>2. CASE f = rawCount
      BY <1>1, <2>1, <2>4, <3>2 DEF Near
    <3>3. CASE f = rawCount + s
      BY <1>1, <2>3, <2>4, <3>3 DEF Near
    <3> QED
      BY <3>1, <3>2, <3>3
  <2> QED
    BY <1>2, <1>7, <1>8, <2>2, <2>3, <2>5
<1> QED
  BY <1>4, <1>7, <1>9, <1>10 DEF IdealInv

LEMMA BaseShown == Inv /\ Base => ShownInv' /\ EndstopShown'
<1> SUFFICES ASSUME Inv, Base PROVE ShownInv' /\ EndstopShown'
  OBVIOUS
<1>1. /\ servo' = servo /\ pending' = pending /\ faultActive' = faultActive
      /\ state' \in BOOLEAN
      /\ inputs' = IF state' THEN inputs \union {"endstop"} ELSE inputs \ {"endstop"}
  BY DEF Base, Endstop, ShowEndstop, monitor
<1>2. ("fault" \in inputs') <=> ("fault" \in inputs)
  BY <1>1
<1>3. ("endstop" \in inputs') <=> state'
  BY <1>1
<1>4. ShownInv'
  BY <1>1, <1>2 DEF Inv, ShownInv
<1> QED
  BY <1>3, <1>4 DEF EndstopShown

-----------------------------------------------------------------------------
(* The servo interrupt.                                                    *)

LEMMA ReadStepsInv == Inv /\ ReadSteps => Inv'
<1> SUFFICES ASSUME Inv, ReadSteps PROVE Inv'
  OBVIOUS
<1> USE DEF ReadSteps, joint, history, monitor
<1>1. TypeOK'
  BY Bounds DEF Inv, TypeOK
<1>2. ~excused => IdealInv'
  <2>1. rawCount \in Int /\ seen \in Int
    BY PositionIsInt DEF Inv, TypeOK
  <2> QED
    BY <2>1, Bounds DEF Inv, IdealInv, Near
<1>3. ShownInv' /\ EndstopShown'
  BY DEF Inv, ShownInv, EndstopShown, Mine
<1> QED
  BY <1>1, <1>2, <1>3 DEF Inv

LEMMA ReadEncoderInv == Inv /\ ReadEncoder => Inv'
<1> SUFFICES ASSUME Inv, ReadEncoder PROVE Inv'
  OBVIOUS
<1> USE DEF ReadEncoder, joint, monitor
<1>1. TypeOK'
  BY Bounds DEF Inv, TypeOK
<1>2. ~excused => IdealInv'
  BY DEF Inv, IdealInv, Near
<1>3. ShownInv' /\ EndstopShown'
  BY DEF Inv, ShownInv, EndstopShown, Mine
<1> QED
  BY <1>1, <1>2, <1>3 DEF Inv

LEMMA DecideInv == Inv /\ Decide => Inv'
<1> SUFFICES ASSUME Inv, Decide PROVE Inv'
  OBVIOUS
<1>1. /\ servo = "decide" /\ excused' = excused /\ stored' = stored /\ inputs' = inputs
      /\ deviated' = deviated
      /\ state' = state /\ loaded' = loaded /\ status' = status /\ stalled' = stalled
      /\ jointEnable' = jointEnable /\ rawCount' = rawCount /\ motor' = motor
      /\ seen' = seen /\ feedback' = feedback /\ preempted' = preempted
      /\ stepCount' = 0 /\ encCount' = 0
  BY DEF Decide, joint, history
<1>2. stepCount \in Int /\ encCount \in Int /\ errorCount \in 0..DebounceCycles
  BY PositionIsInt DEF Inv, TypeOK
<1>3. errorCount' \in 0..DebounceCycles /\ (~Exceeds => errorCount' = 0)
  BY <1>2, Bounds DEF Decide, CountError
<1>4. TypeOK'
  <2>1. /\ servo' \in {"idle", "between", "decide", "load", "store"} /\ faultActive' \in BOOLEAN
        /\ pending' \in {"none", "error", "fatal", "clear"}
    BY DEF Decide, Trigger, ClearFault, NoChange, Inv, TypeOK
  <2>2. stepCount' \in Position /\ encCount' \in Int
    BY <1>1, Bounds DEF Position
  <2>3. TypeOK
    BY DEF Inv
  <2> QED
    BY <1>1, <1>3, <2>1, <2>2, <2>3 DEF TypeOK
<1>5. ASSUME ~excused PROVE IdealInv'
  <2>1. IdealInv
    BY <1>5 DEF Inv
  <2>2. Near(stepCount, encCount, Threshold)
    BY <1>1, <2>1 DEF IdealInv
  <2>3. Abs(stepCount - encCount) <= Threshold
    BY <1>2, <2>2, Bounds, AbsNear
  <2>4. ~Exceeds
    <3>1. Abs(stepCount - encCount) \in Int
      BY <1>2 DEF Abs
    <3> QED
      BY <2>3, <3>1, Bounds DEF Exceeds, AbsError
  <2>5. faultActive = FALSE
    BY <2>1 DEF IdealInv
  <2>6. NoChange
    BY <2>4, <2>5 DEF Decide, Trigger, Triggers, ClearFault, Clears
  <2>7. servo' = "idle" /\ faultActive' = FALSE /\ errorCount' = 0
    BY <1>3, <2>4, <2>5, <2>6 DEF NoChange
  <2> QED
    BY <1>1, <2>1, <2>7 DEF IdealInv
<1>6. ShownInv'
  BY <1>1 DEF Inv, ShownInv, Mine, Decide, Trigger, Triggers, ClearFault, Clears, NoChange
<1>7. EndstopShown'
  BY <1>1 DEF Inv, EndstopShown
<1> QED
  BY <1>1, <1>4, <1>5, <1>6, <1>7 DEF Inv

LEMMA LoadInv == Inv /\ Load => Inv'
<1> SUFFICES ASSUME Inv, Load PROVE Inv'
  OBVIOUS
<1> USE DEF Load, joint, history, reads
<1>1. TypeOK'
  BY DEF Inv, TypeOK
<1>2. ~excused => IdealInv'
  BY DEF Inv, IdealInv, Near
<1>3. ShownInv' /\ EndstopShown'
  BY DEF Inv, ShownInv, EndstopShown, Mine
<1> QED
  BY <1>1, <1>2, <1>3 DEF Inv

LEMMA StoreInv == Inv /\ Store => Inv'
<1> SUFFICES ASSUME Inv, Store PROVE Inv'
  OBVIOUS
<1> USE DEF Store, joint, reads
<1>1. TypeOK'
  BY DEF Inv, TypeOK, Inputs, ShownInv, Mine
<1>2. ~excused => IdealInv'
  BY DEF Inv, IdealInv, Near
<1>3. ShownInv' /\ EndstopShown'
  BY DEF Inv, ShownInv, EndstopShown, Mine
<1> QED
  BY <1>1, <1>2, <1>3 DEF Inv

-----------------------------------------------------------------------------
LEMMA NextInv == Inv /\ [Next]_vars => Inv'
<1> SUFFICES ASSUME Inv, [Next]_vars PROVE Inv'
  OBVIOUS
<1>1. CASE Base
  BY <1>1, BaseType, BaseIdeal, BaseShown DEF Inv
<1>2. CASE Servo
  BY <1>2, ReadStepsInv, ReadEncoderInv, DecideInv, LoadInv, StoreInv DEF Servo
<1>3. CASE WriteEnable
  BY <1>3 DEF WriteEnable, history, Inv, TypeOK, IdealInv, Near, ShownInv, EndstopShown, Mine, reads, monitor
<1>4. CASE Stall
  BY <1>4 DEF Stall, history, Inv, TypeOK, IdealInv, Near, ShownInv, EndstopShown, Mine, joint, reads, monitor
<1>5. CASE UNCHANGED vars
  BY <1>5 DEF vars, history, Inv, TypeOK, IdealInv, Near, ShownInv, EndstopShown, Mine, joint, reads, monitor
<1> QED
  BY <1>1, <1>2, <1>3, <1>4, <1>5 DEF Next

LEMMA Invariant == Spec => []Inv
BY InitInv, NextInv, PTL DEF Spec

(* Every variable of the joint keeps its type.                             *)
THEOREM TypeCorrect == Spec => []TypeOK
<1>1. Inv => TypeOK
  BY DEF Inv
<1> QED
  BY <1>1, Invariant, PTL

(* An ideal joint is never faulted.                                        *)
THEOREM IdealNeverFaults == Spec => []NoFalseFault
<1>1. Inv => NoFalseFault
  BY DEF Inv, IdealInv, NoFalseFault
<1> QED
  BY <1>1, Invariant, PTL

(* The host reads the monitor's fault.                                     *)
THEOREM FaultIsShown == Spec => []FaultShown
<1>1. Inv => FaultShown
  BY DEF Inv, ShownInv, FaultShown, Mine
<1> QED
  BY <1>1, Invariant, PTL

(* The endstop bit is at most one base interrupt old.                      *)
THEOREM EndstopIsShown == Spec => []EndstopShown
<1>1. Inv => EndstopShown
  BY DEF Inv
<1> QED
  BY <1>1, Invariant, PTL

-----------------------------------------------------------------------------
(* Deviations.                                                             *)

LEMMA BaseDeviation == Inv /\ DeviationInv /\ Base => DeviationInv'
<1> SUFFICES ASSUME Inv, DeviationInv, Base PROVE DeviationInv'
  OBVIOUS
<1>1. /\ servo' = servo /\ stepCount' = stepCount /\ encCount' = encCount
      /\ deviated' = deviated /\ errorCount' = errorCount /\ faultActive' = faultActive
  BY DEF Base, monitor
<1>2. ASSUME servo = "between" PROVE Near(stepCount', rawCount', preempted')
  <2>1. rawCount \in Int /\ stepCount \in Int /\ preempted \in Int
    BY PositionIsInt, Bounds DEF Inv, TypeOK
  <2>2. PICK s \in {-1, 0, 1} : rawCount' = rawCount + s
    BY DEF Base, MakePulses
  <2>3. preempted' = preempted + 1 /\ Near(stepCount, rawCount, preempted)
    BY <1>2 DEF Base, DeviationInv
  <2> QED
    BY <1>1, <2>1, <2>2, <2>3 DEF Near
<1> QED
  BY <1>1, <1>2 DEF DeviationInv, Exceeds, AbsError

(* What is far off by both counts at once looks far off to the monitor.    *)
LEMMA ReadDeviation == Inv /\ DeviationInv /\ ReadEncoder => DeviationInv'
<1> SUFFICES ASSUME Inv, DeviationInv, ReadEncoder PROVE DeviationInv'
  OBVIOUS
<1>1. /\ servo = "between" /\ servo' = "decide" /\ stepCount' = stepCount /\ encCount' = feedback
      /\ errorCount' = errorCount
      /\ deviated' = IF Deviation <= Threshold + MaxPreempt THEN 0
                     ELSE IF deviated < DebounceCycles THEN deviated + 1 ELSE deviated
  BY DEF ReadEncoder, monitor
<1>2. /\ rawCount \in Int /\ stepCount \in Int /\ feedback \in Int /\ preempted \in 0..MaxPreempt
      /\ errorCount \in Int /\ errorCount >= 0 /\ deviated \in 0..DebounceCycles
  BY PositionIsInt, Bounds DEF Inv, TypeOK
<1>3. deviated' <= errorCount' + 1
  BY <1>1, <1>2, Bounds DEF DeviationInv
<1>4. ASSUME deviated' > 0 PROVE Exceeds'
  <2>1. ~(Deviation <= Threshold + MaxPreempt)
    BY <1>1, <1>4
  <2>2. ~Near(rawCount, feedback, Threshold + MaxPreempt)
    BY <1>2, <2>1, Bounds, AbsNear DEF Deviation
  <2>3. Near(stepCount, rawCount, preempted)
    BY <1>1 DEF DeviationInv
  <2>4. ~Near(stepCount, feedback, Threshold)
    BY <1>2, <2>2, <2>3, Bounds DEF Near
  <2>5. ~(Abs(stepCount - feedback) <= Threshold) /\ Abs(stepCount - feedback) \in Int
    BY <1>2, <2>4, Bounds, AbsNear DEF Abs
  <2> QED
    BY <1>1, <2>5, Bounds DEF Exceeds, AbsError
<1> QED
  BY <1>1, <1>3, <1>4 DEF DeviationInv

LEMMA DecideDeviation == Inv /\ DeviationInv /\ Decide => DeviationInv'
<1> SUFFICES ASSUME Inv, DeviationInv, Decide PROVE DeviationInv'
  OBVIOUS
<1>1. /\ servo = "decide" /\ servo' \in {"idle", "load"} /\ deviated' = deviated
      /\ errorCount' = IF ~Exceeds THEN 0
                       ELSE IF errorCount < DebounceCycles THEN errorCount + 1 ELSE errorCount
  BY DEF Decide, CountError, Trigger, ClearFault, NoChange, history
<1>2. /\ errorCount \in 0..DebounceCycles /\ deviated \in 0..DebounceCycles
      /\ deviated <= errorCount + 1 /\ (deviated > 0 => Exceeds)
  BY <1>1 DEF Inv, TypeOK, DeviationInv
<1>3. deviated' <= errorCount'
  BY <1>1, <1>2, Bounds
<1>4. ASSUME deviated = DebounceCycles PROVE faultActive'
  <2>1. Exceeds /\ errorCount' >= DebounceCycles
    BY <1>1, <1>2, <1>4, Bounds
  <2> QED
    BY <2>1 DEF Decide, Trigger, Triggers, ClearFault, Clears, NoChange, Inv, TypeOK
<1> QED
  BY <1>1, <1>3, <1>4 DEF DeviationInv

LEMMA StepDeviation == Inv /\ DeviationInv /\ [Next]_vars => DeviationInv'
<1> SUFFICES ASSUME Inv, DeviationInv, [Next]_vars PROVE DeviationInv'
  OBVIOUS
<1>1. CASE Base
  BY <1>1, BaseDeviation
<1>2. CASE ReadSteps
  <2>1. /\ servo = "idle" /\ servo' = "between" /\ stepCount' = rawCount /\ preempted' = 0
        /\ UNCHANGED <<rawCount, errorCount, faultActive, deviated>>
    BY <1>2 DEF ReadSteps, joint, monitor, history
  <2>2. rawCount \in Int
    BY PositionIsInt DEF Inv, TypeOK
  <2> QED
    BY <2>1, <2>2 DEF DeviationInv, Near
<1>3. CASE ReadEncoder
  BY <1>3, ReadDeviation
<1>4. CASE Decide
  BY <1>4, DecideDeviation
<1>5. CASE Load \/ Store
  BY <1>5 DEF Load, Store, history, DeviationInv
<1>6. CASE WriteEnable
  BY <1>6 DEF WriteEnable, reads, monitor, history, DeviationInv
<1>7. CASE Stall \/ UNCHANGED vars
  BY <1>7 DEF Stall, vars, joint, reads, monitor, history, DeviationInv, Exceeds, AbsError
<1> QED
  BY <1>1, <1>2, <1>3, <1>4, <1>5, <1>6, <1>7 DEF Next, Servo

(* No deviation that lasts goes unreported: PositionMonitor::update sets   *)
(* the fault bit in the last of as many updates as are configured, for     *)
(* every threshold and number of preemptions.                              *)
THEOREM DeviationIsShown == Spec => []DeviationShown
<1>1. Init => DeviationInv
  BY Bounds DEF Init, DeviationInv
<1>2. Inv /\ DeviationInv => DeviationShown
  BY DEF Inv, ShownInv, Mine, DeviationInv, DeviationShown
<1> QED
  BY <1>1, <1>2, StepDeviation, Invariant, PTL DEF Spec
=============================================================================
