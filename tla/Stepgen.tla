------------------------------ MODULE Stepgen ------------------------------
(***************************************************************************)
(* The step generator of one joint (modules/stepgen): a direct digital     *)
(* synthesis accumulator that the base interrupt advances by an amount     *)
(* proportional to the commanded frequency, and that emits a step whenever *)
(* bit stepBit of it changes.                                              *)
(*                                                                         *)
(* The base interrupt runs update for every module (MakePulses) and then   *)
(* updatePost (StopPulses).  The main loop writes the joint's frequency    *)
(* and its enable bit, two different words, at any moment between two      *)
(* interrupts.  The stepper drive is external: it moves one step on a      *)
(* rising edge of the step pin while its enable pin is low, in the         *)
(* direction the direction pin shows at that edge.                         *)
(*                                                                         *)
(* A definition named XMut is X with a plausible slip, kept beside X: some *)
(* property checked by the runs rejects it.                                *)
(***************************************************************************)
EXTENDS Integers

CONSTANTS
  Freqs,           (* frequency commands the host sends, in steps/s, 0    *)
                   (* among them; DDSaddValue holds what each comes to    *)
  ThreadFreq,      (* frequency of the base thread, in Hz                 *)
  StepWeight,      (* 2^stepBit, the weight of the accumulator's step bit *)
  Turns,           (* the accumulator's range is Turns periods of that    *)
                   (* bit: 2^32 = Turns * 2 * 2^stepBit                   *)
  CountSize,       (* 2^32, the number of values of an int32_t counter    *)
  Product,         (* frequencyCommand * frequencyScale in floats, in     *)
  Unit,            (* units of 1/Unit, for each command                   *)
  Precision,       (* the product is off by one part in Precision at most *)
  Window           (* ticks over which steps and commands are compared    *)

ASSUME StepgenAssumption ==
  /\ Freqs \subseteq Int /\ 0 \in Freqs
  /\ ThreadFreq \in Nat \ {0} /\ StepWeight \in Nat \ {0}
  /\ Turns \in Nat \ {0} /\ CountSize \in Nat \ {0, 1}
  /\ Window \in Nat \ {0}

Size(n) == IF n >= 0 THEN n ELSE -n

(* The float arithmetic: the command, the scale 2^stepBit / ThreadFreq and *)
(* their product are each rounded to 24 bits, so that the product is off   *)
(* by less than one part in 2^22, the weight of the board's step bit.      *)
ASSUME FloatAssumption ==
  /\ Product \in [Freqs -> Int] /\ Unit \in Nat \ {0}
  /\ Precision \in Nat /\ Precision > StepWeight
  /\ \A f \in Freqs :
       Size(Product[f] * ThreadFreq - f * StepWeight * Unit) * Precision
         <= Size(f) * StepWeight * Unit

VARIABLES
  jointFreqCmd,    (* rxData.jointFreqCmd[joint]                          *)
  jointEnable,     (* this joint's bit of rxData.jointEnable              *)
  DDSaccumulator,  (* modulo 2^32                                         *)
  rawCount,        (* modulo 2^32                                         *)
  jointStepCount,  (* gInternalState.jointStepCount[joint]                *)
  enablePin, stepPin, directionPin,
  posting,         (* the interrupt is between update and updatePost      *)
  motor,           (* external: the drive's position, modulo 2^32         *)
  owed,            (* history: what was commanded less what was stepped   *)
                   (* in the window, in units of 1/ThreadFreq step, exact *)
  ticks,           (* history: enabled ticks in the window so far         *)
  fast             (* history: allowance for its ticks at which more than *)
                   (* a step was commanded, in the same units             *)

command == <<jointFreqCmd, jointEnable>>
counter == <<DDSaccumulator, rawCount, jointStepCount>>
pins    == <<enablePin, stepPin, directionPin>>
measure == <<owed, ticks, fast>>
history == <<motor, measure>>
vars == <<command, counter, pins, posting, history>>

AccSize == Turns * 2 * StepWeight

(* DDSaddValue: the float product, cut towards zero to an integer.         *)
AddValueMut(f) == f * (StepWeight \div ThreadFreq)

AddValue(f) ==
  IF Product[f] >= 0 THEN Product[f] \div Unit ELSE -((-Product[f]) \div Unit)

(* DDSaccumulator += DDSaddValue, which wraps on this processor. *)
Accumulate(acc, add) == (acc + add) % AccSize

StepBitMut(acc) == (acc \div (2 * StepWeight)) % 2

StepBit(acc) == (acc \div StepWeight) % 2

Init ==
  /\ jointFreqCmd = 0 /\ jointEnable = FALSE
  /\ DDSaccumulator = 0 /\ rawCount = 0 /\ jointStepCount = 0
  /\ enablePin = FALSE /\ stepPin = FALSE /\ directionPin = FALSE
  /\ posting = FALSE
  /\ motor = 0 /\ owed = 0 /\ ticks = 0 /\ fast = 0

(* The main loop's copy of a packet, one word at a time. *)
WriteFreq ==
  /\ ~posting
  /\ jointFreqCmd' \in Freqs
  /\ UNCHANGED <<jointEnable, counter, pins, posting, history>>

WriteEnable ==
  /\ ~posting
  /\ jointEnable' \in BOOLEAN
  /\ UNCHANGED <<jointFreqCmd, counter, pins, posting, history>>

(* The direction the drive finds at the edge: makePulses sets the          *)
(* direction pin before it raises the step pin.                            *)
AtEdgeMut == directionPin

AtEdge == directionPin'

(* What the drive does with the levels the pins go to. *)
Drive ==
  motor' = IF stepPin' /\ ~stepPin /\ ~enablePin'
           THEN (motor + (IF AtEdge THEN 1 ELSE -1)) % CountSize
           ELSE motor

(* Above one step per tick the joint does at most one and may do none.     *)
Excess(f) == IF Size(f) <= ThreadFreq THEN 0 ELSE Size(f) + 2 * ThreadFreq

(* This tick's command and its step, added to what a window of o, n and a  *)
(* holds.                                                                  *)
Extend(o, n, a, step) ==
  /\ owed' = o + jointFreqCmd - step * ThreadFreq
  /\ ticks' = n + 1
  /\ fast' = a + Excess(jointFreqCmd)

(* A window may begin at any enabled tick. *)
Account(step) ==
  \/ Extend(0, 0, 0, step)
  \/ ticks < Window /\ Extend(owed, ticks, fast, step)

Disabled ==
  /\ ~jointEnable
  /\ enablePin' = TRUE
  /\ UNCHANGED <<stepPin, directionPin, counter, measure>>

Enabled ==
  LET add  == AddValue(jointFreqCmd)
      acc  == Accumulate(DDSaccumulator, add)
      step == IF add > 0 THEN 1 ELSE -1
  IN /\ jointEnable
     /\ enablePin' = FALSE
     /\ DDSaccumulator' = acc
     /\ IF StepBit(acc) # StepBit(DDSaccumulator)
        THEN /\ directionPin' = (add > 0)
             /\ stepPin' = TRUE
             /\ rawCount' = (rawCount + step) % CountSize
             /\ jointStepCount' = rawCount'
             /\ Account(step)
        ELSE /\ UNCHANGED <<stepPin, directionPin, rawCount, jointStepCount>>
             /\ Account(0)

(* update *)
MakePulses ==
  /\ ~posting
  /\ posting' = TRUE
  /\ Enabled \/ Disabled
  /\ Drive
  /\ UNCHANGED command

StopPulsesMut ==
  /\ posting
  /\ posting' = FALSE
  /\ stepPin' = (stepPin /\ jointEnable)
  /\ UNCHANGED <<command, counter, enablePin, directionPin, history>>

(* updatePost *)
StopPulses ==
  /\ posting
  /\ posting' = FALSE
  /\ stepPin' = FALSE
  /\ UNCHANGED <<command, counter, enablePin, directionPin, history>>

BaseInterrupt == MakePulses \/ StopPulses

Next == WriteFreq \/ WriteEnable \/ BaseInterrupt

Spec == Init /\ [][Next]_vars

(* The timer keeps interrupting. *)
FairSpec == Spec /\ WF_vars(BaseInterrupt)

-----------------------------------------------------------------------------
TypeOK ==
  /\ jointFreqCmd \in Freqs /\ jointEnable \in BOOLEAN
  /\ DDSaccumulator \in 0..(AccSize - 1)
  /\ rawCount \in 0..(CountSize - 1) /\ jointStepCount \in 0..(CountSize - 1)
  /\ enablePin \in BOOLEAN /\ stepPin \in BOOLEAN /\ directionPin \in BOOLEAN
  /\ posting \in BOOLEAN /\ motor \in 0..(CountSize - 1)
  /\ owed \in Int /\ ticks \in 0..Window /\ fast \in Nat

(* Over any stretch of enabled ticks, interrupted or not, the joint makes  *)
(* the steps the commands themselves come to, before any rounding: through *)
(* reversals, wrap-arounds of the accumulator and disabled periods it is   *)
(* off by less than one step, and two units of the accumulator for each    *)
(* tick (the cut and the float: a command that adds less than a unit is    *)
(* lost within that).  Each tick commanded above one step per tick may     *)
(* lose that command and two steps more, and spoils nothing after it.      *)
StepsFollowCommands ==
  Size(owed) * StepWeight < ThreadFreq * (StepWeight + 2 * ticks) + fast * StepWeight

(* The drive moves by one step at a time, only while the joint is enabled, *)
(* and in the direction of the command in force: neither what earlier      *)
(* commands left in the accumulator nor the direction of the last step     *)
(* moves it the other way, or at all at a command of zero.                 *)
Obeys ==
  motor' # motor =>
    /\ jointEnable
    /\ \/ jointFreqCmd > 0 /\ motor' = (motor + 1) % CountSize
       \/ jointFreqCmd < 0 /\ motor' = (motor - 1) % CountSize
NeverAgainstCommand == [][Obeys]_vars

(* The drive is where the published step count says: each count made one   *)
(* rising edge, seen with the drive enabled and the right direction.       *)
DriveFollows == motor = rawCount /\ jointStepCount = rawCount

(* A joint that stays enabled, commanded forward by enough for one unit of *)
(* the accumulator after rounding and at most one step per tick, keeps     *)
(* moving, however slow it is and whatever happened before.                *)
Advancing ==
  /\ jointEnable /\ jointFreqCmd <= ThreadFreq
  /\ (Precision - 1) * jointFreqCmd * StepWeight >= Precision * ThreadFreq
JointAdvances == <>[]Advancing => []<>(stepPin /\ directionPin)
=============================================================================
