-------------------------- MODULE HardwareEncoder --------------------------
(***************************************************************************)
(* The encoder of one joint counted by a timer of the processor            *)
(* (modules/hardwareEncoder), with the fault pin of its line driver.  The  *)
(* timer is external: its counter follows the shaft modulo Period, 2^16 or *)
(* 2^32, by itself.  The base interrupt extends it to an int32_t and       *)
(* debounces the fault pin, which is configured here, into a bit of        *)
(* txData.inputs.                                                          *)
(*                                                                         *)
(* A definition named XMut is X with a plausible slip, kept beside X: some *)
(* property checked by the runs rejects it.                                *)
(***************************************************************************)
EXTENDS Integers

CONSTANTS
  HalfPeriod,      (* half the range of the timer                         *)
  Wraps,           (* 2^32 = Wraps * 2 * HalfPeriod                       *)
  MaxMove,         (* transitions the shaft may make between interrupts   *)
  DebounceSamples, (* "Fault Debounce Samples"; the constructor turns a   *)
                   (* configured 0 into 1                                 *)
  Latches, Clears, (* configured values of faultLatch and                 *)
                   (* faultClearOnDisable                                 *)
  Span             (* bound: the shaft stays within this many transitions *)
                   (* of where it was at power-up                         *)

ASSUME TimerAssumption ==
  /\ HalfPeriod \in Nat \ {0} /\ Wraps \in Nat \ {0} /\ Span \in Nat
  /\ MaxMove \in Nat /\ MaxMove < HalfPeriod
ASSUME FaultAssumption ==
  DebounceSamples \in Nat \ {0} /\ Latches \subseteq BOOLEAN /\ Clears \subseteq BOOLEAN

VARIABLES
  shaft,           (* external: the position, in transitions              *)
  zeroAt,          (* external: where the shaft was when the timer's      *)
                   (* counter was set to zero                             *)
  ticked,          (* history: its position at the last interrupt         *)
  jointEnable,     (* this joint's bit of rxData.jointEnable              *)
  lastCounterRaw, accumulatedCount,
  feedback,        (* txData.jointFeedback[joint]                         *)
  faultLatch, faultClearOnDisable,
  faultDebounceCount, faultLatchedState, lastFaultSample,
  faultBit,        (* this encoder's bit of txData.inputs                 *)
  activeRun,       (* history: the latest samples that were all active,   *)
                   (* none before a clearing, up to DebounceSamples       *)
  quietRun         (* history: those that were all quiet                  *)

outside  == <<shaft, zeroAt, ticked>>
counting == <<lastCounterRaw, accumulatedCount, feedback>>
setting  == <<faultLatch, faultClearOnDisable>>
debounce == <<faultDebounceCount, faultLatchedState, lastFaultSample, faultBit>>
runs     == <<activeRun, quietRun>>
vars == <<outside, jointEnable, counting, setting, debounce, runs>>

Period    == 2 * HalfPeriod
CountSize == Wraps * Period

Counter == (shaft - zeroAt) % Period

(* The difference of two counter values as a signed integer of the         *)
(* timer's width.                                                          *)
SignedMut(d) == d % Period

Signed(d) ==
  IF d % Period < HalfPeriod THEN d % Period ELSE (d % Period) - Period

(* resetCounterState and clearFaultState end the constructor.              *)
Init ==
  /\ shaft = 0 /\ zeroAt = 0 /\ ticked = 0 /\ jointEnable = FALSE
  /\ lastCounterRaw = 0 /\ accumulatedCount = 0 /\ feedback = 0
  /\ faultLatch \in Latches /\ faultClearOnDisable \in Clears
  /\ faultDebounceCount = 0 /\ faultLatchedState = FALSE /\ lastFaultSample = FALSE
  /\ faultBit = FALSE
  /\ activeRun = 0 /\ quietRun = 0

Turn ==
  /\ shaft' \in (ticked - MaxMove)..(ticked + MaxMove) \intersect (-Span)..Span
  /\ UNCHANGED <<zeroAt, ticked, jointEnable, counting, setting, debounce, runs>>

(* The main loop's copy of a packet. *)
WriteEnable ==
  /\ jointEnable' \in BOOLEAN
  /\ UNCHANGED <<outside, counting, setting, debounce, runs>>

(* resetCounterState: a disabled joint keeps its timer at zero. *)
ResetCounterState ==
  /\ zeroAt' = shaft
  /\ lastCounterRaw' = 0 /\ accumulatedCount' = 0 /\ feedback' = 0

CountMotion ==
  /\ accumulatedCount' = (accumulatedCount + Signed(Counter - lastCounterRaw)) % CountSize
  /\ lastCounterRaw' = Counter
  /\ feedback' = accumulatedCount'
  /\ UNCHANGED zeroAt

Least(m, n) == IF m < n THEN m ELSE n

(* A disabled joint may be configured to clear its fault: the debouncer    *)
(* starts anew.                                                            *)
ClearingMut == ~jointEnable

Clearing == ~jointEnable /\ faultClearOnDisable

(* Equal samples in a row, up to the number that makes them stable. *)
StableCountMut(count, same) == Least(count + 1, DebounceSamples)

StableCountMutFromZero(count, same) == IF same THEN Least(count + 1, DebounceSamples) ELSE 0

StableCount(count, same) == IF same THEN Least(count + 1, DebounceSamples) ELSE 1

StableMut(count) == count > DebounceSamples

Stable(count) == count >= DebounceSamples

(* The latch, if configured, remembers what the debouncer decides. *)
Debounce(sample) ==
  LET before  == lastFaultSample /\ ~Clearing
      count   == StableCount(IF Clearing THEN 0 ELSE faultDebounceCount, sample = before)
      active  == Stable(count) /\ sample
      latched == (faultLatchedState /\ ~Clearing) \/ (faultLatch /\ active)
  IN /\ faultDebounceCount' = count
     /\ lastFaultSample' = sample
     /\ faultLatchedState' = latched
     /\ faultBit' = IF faultLatch THEN latched ELSE active

(* update *)
Update ==
  /\ IF jointEnable THEN CountMotion ELSE ResetCounterState
  /\ \E sample \in BOOLEAN :
       /\ Debounce(sample)
       /\ activeRun' = IF sample THEN Least((IF Clearing THEN 0 ELSE activeRun) + 1, DebounceSamples)
                                 ELSE 0
       /\ quietRun'  = IF sample THEN 0 ELSE Least(quietRun + 1, DebounceSamples)
  /\ ticked' = shaft
  /\ UNCHANGED <<shaft, jointEnable, setting>>

Next == Turn \/ WriteEnable \/ Update

Spec == Init /\ [][Next]_vars

(* The timer keeps interrupting. *)
FairSpec == Spec /\ WF_vars(Update)

-----------------------------------------------------------------------------
TypeOK ==
  /\ shaft \in (-Span)..Span /\ zeroAt \in (-Span)..Span /\ ticked \in (-Span)..Span
  /\ jointEnable \in BOOLEAN /\ lastFaultSample \in BOOLEAN
  /\ faultLatch \in Latches /\ faultClearOnDisable \in Clears
  /\ faultLatchedState \in BOOLEAN /\ faultBit \in BOOLEAN
  /\ lastCounterRaw \in 0..(Period - 1)
  /\ accumulatedCount \in 0..(CountSize - 1) /\ feedback \in 0..(CountSize - 1)
  /\ faultDebounceCount \in 0..DebounceSamples
  /\ activeRun \in 0..DebounceSamples /\ quietRun \in 0..DebounceSamples

(* The count is the motion of the shaft since the joint was last disabled, *)
(* as an int32_t: however often the timer wraps in either direction, and   *)
(* including what happened between the last disabled interrupt and the     *)
(* first enabled one, as long as the shaft makes less than half a period   *)
(* between two interrupts.                                                 *)
CountFollowsShaft == accumulatedCount = (ticked - zeroAt) % CountSize

(* A fault is raised only by as many active samples in a row as are        *)
(* configured, across enables, disables and the clearing they do.          *)
FaultIsStable == [][~faultBit /\ faultBit' => activeRun' = DebounceSamples]_vars

(* The sample that completes such a run shows the fault, after whatever    *)
(* runs were broken off or cleared before, and it is shown for as long as  *)
(* the run goes on, latched or not.                                        *)
FullRunShown == activeRun = DebounceSamples => faultBit

(* A latched fault goes away only when a disabled joint is configured to   *)
(* clear it.                                                               *)
FaultIsLatched ==
  [][faultBit /\ ~faultBit' /\ faultLatch => ~jointEnable /\ faultClearOnDisable]_vars

(* A pin that stays active on an enabled joint is reported and stays so.   *)
FaultIsReported == <>[](jointEnable /\ quietRun = 0) => <>[]faultBit
=============================================================================
