----------------------------- MODULE IOThreads -----------------------------
(***************************************************************************)
(* The modules behind the pins, run by two threads: a sigma-delta output   *)
(* (sigmaDelta.cpp) and debounced inputs (endstop.cpp, alarm.cpp), which   *)
(* write their bits of the one inputs word.  The base interrupt may come   *)
(* between any two accesses of the servo interrupt, never the reverse.     *)
(* A definition named XMut is X with a plausible slip, kept beside X.      *)
(***************************************************************************)
EXTENDS Integers, Sequences

CONSTANTS
  BaseInput,       (* the endstops and alarms of the base thread          *)
  ServoOrder,      (* those of the servo thread, as they were registered  *)
  SDmax,           (* the configured full scale, already CONFINEd         *)
  SetPoint         (* set points of the host, scaled to 0..SDmax, and     *)
                   (* those outside of it                                 *)

ServoInput == {ServoOrder[k] : k \in 1..Len(ServoOrder)}
Input      == BaseInput \union ServoInput

ASSUME SDmaxAssumption == SDmax \in 0..255 /\ SetPoint \subseteq Int
ASSUME OrderAssumption == Len(ServoOrder) > 0 /\ ServoOrder \in Seq(ServoInput)
ASSUME ThreadAssumption == BaseInput \intersect ServoInput = {}

VARIABLES
  setPoint, SDaccumulator, SDdirection, SDpin,
  debt,            (* history: full scale demanded but not yet put out    *)
  filter,          (* per input: state, lastState, debounceCount          *)
  agree,           (* history: how many of its latest samples were equal  *)
  inputs,          (* txData.inputs, as the set of the inputs shown high  *)
  servoAt,         (* the module of ServoOrder that runs next or now      *)
  writing, word,   (* it has read inputs, not yet written it; what it read *)
  tick,            (* parity of the base interrupts so far                *)
  baseRan          (* the base thread ran since the last servo interrupt  *)

sd      == <<setPoint, SDaccumulator, SDdirection, SDpin, debt>>
vars    == <<sd, filter, agree, inputs, servoAt, writing, word, tick, baseRan>>

Confine(value, min, max) == IF value < min THEN min ELSE IF value > max THEN max ELSE value

-----------------------------------------------------------------------------
(* SigmaDelta::update                                                      *)

(* Charge while the output is low, discharge while it is high.             *)
ModulateMut(s) ==
  LET a == Confine(SDaccumulator, -SDmax, 2 * SDmax) IN
  /\ SDaccumulator' = IF SDdirection THEN a - s ELSE a + s
  /\ SDdirection' = IF SDdirection THEN SDaccumulator' > 0
                                   ELSE SDaccumulator' >= SDmax \div 2
Modulate(s) ==
  LET a == Confine(SDaccumulator, -SDmax, 2 * SDmax) IN
  /\ SDaccumulator' = IF SDdirection THEN a - (SDmax - s) ELSE a + s
  /\ SDdirection' = IF SDdirection THEN SDaccumulator' > 0
                                   ELSE SDaccumulator' >= SDmax \div 2

(* At either end of the scale the pin is set and the modulation left as it *)
(* is, to go on from there.                                                *)
SDUpdate(scaledSP) ==
  /\ setPoint' = IF scaledSP # setPoint THEN Confine(scaledSP, 0, SDmax) ELSE setPoint
  /\ \/ /\ setPoint' <= 0 \/ setPoint' >= SDmax
        /\ SDpin' = (setPoint' > 0)
        /\ UNCHANGED <<SDaccumulator, SDdirection>>
     \/ /\ 0 < setPoint' /\ setPoint' < SDmax
        /\ Modulate(setPoint')
        /\ SDpin' = SDdirection'
  /\ debt' = debt + setPoint' - (IF SDpin' THEN SDmax ELSE 0)

-----------------------------------------------------------------------------
(* Endstop::update, Alarm::update                                          *)

DebounceMut(f, current) ==
  IF current # f.lastState
  THEN [f EXCEPT !.lastState = current]
  ELSE IF f.debounceCount < 3 THEN [f EXCEPT !.debounceCount = @ + 1]
                              ELSE [f EXCEPT !.state = current]
Debounce(f, current) ==
  IF current # f.lastState
  THEN [f EXCEPT !.debounceCount = 0, !.lastState = current]
  ELSE IF f.debounceCount < 3 THEN [f EXCEPT !.debounceCount = @ + 1]
                              ELSE [f EXCEPT !.state = current]

(* Readings: the samples in a row it takes for the state to follow; agree  *)
(* counts no further.                                                      *)
Readings == 5
Agreeing(n, f, current) ==
  IF current # f.lastState THEN 1 ELSE IF n < Readings THEN n + 1 ELSE n

(* The inputs of M take the samples v.                                     *)
Sample(M, v) ==
  /\ filter' = [i \in Input |-> IF i \in M THEN Debounce(filter[i], v[i]) ELSE filter[i]]
  /\ agree' = [i \in Input |-> IF i \in M THEN Agreeing(agree[i], filter[i], v[i]) ELSE agree[i]]

(* *ptrInputs |= mask, *ptrInputs &= ~mask, for the inputs of M, to the    *)
(* word that was read.                                                     *)
Merge(read, M, f) == (read \ M) \union {i \in M : f[i].state}

-----------------------------------------------------------------------------
Init ==
  /\ setPoint = 0 /\ SDaccumulator = 0 /\ SDdirection = FALSE /\ SDpin = FALSE /\ debt = 0
  /\ filter = [i \in Input |-> [state |-> FALSE, lastState |-> FALSE, debounceCount |-> 0]]
  /\ agree = [i \in Input |-> 1]
  /\ inputs = {} /\ servoAt = 1 /\ writing = FALSE /\ word = {} /\ tick = 0 /\ baseRan = FALSE

(* No servo interrupt is under way.  The timers' periods are a thousandth  *)
(* and a forty-thousandth of a second (configuration.h): between two servo *)
(* interrupts there is a base interrupt.                                   *)
Between == servoAt = 1 /\ ~writing

(* The base thread: all its modules, and nothing comes between.            *)
BasePassMut ==
  /\ \E s \in SetPoint : SDUpdate(s)
  /\ \E v \in [BaseInput -> BOOLEAN] : Sample(BaseInput, v)
  /\ inputs' = {i \in BaseInput : filter'[i].state}
  /\ tick' = 1 - tick /\ baseRan' = (baseRan \/ Between)
  /\ UNCHANGED <<servoAt, writing, word>>
BasePass ==
  /\ \E s \in SetPoint : SDUpdate(s)
  /\ \E v \in [BaseInput -> BOOLEAN] : Sample(BaseInput, v)
  /\ inputs' = Merge(inputs, BaseInput, filter')
  /\ tick' = 1 - tick /\ baseRan' = (baseRan \/ Between)
  /\ UNCHANGED <<servoAt, writing, word>>

(* The servo thread: one module after the other, each reading the word and *)
(* writing it back in two accesses.                                        *)
ServoReadMut ==
  /\ ~writing /\ writing' = TRUE
  /\ Between => baseRan
  /\ word' = inputs \ BaseInput
  /\ \E v \in [{ServoOrder[servoAt]} -> BOOLEAN] : Sample({ServoOrder[servoAt]}, v)
  /\ UNCHANGED <<sd, inputs, servoAt, tick, baseRan>>
ServoRead ==
  /\ ~writing /\ writing' = TRUE
  /\ Between => baseRan
  /\ word' = inputs
  /\ \E v \in [{ServoOrder[servoAt]} -> BOOLEAN] : Sample({ServoOrder[servoAt]}, v)
  /\ UNCHANGED <<sd, inputs, servoAt, tick, baseRan>>

ServoWrite ==
  /\ writing /\ writing' = FALSE /\ word' = {}
  /\ inputs' = Merge(word, {ServoOrder[servoAt]}, filter)
  /\ servoAt' = IF servoAt = Len(ServoOrder) THEN 1 ELSE servoAt + 1
  /\ baseRan' = (baseRan /\ servoAt # Len(ServoOrder))
  /\ UNCHANGED <<sd, filter, agree, tick>>

Next == BasePass \/ ServoRead \/ ServoWrite

Spec == Init /\ [][Next]_vars

(* Both timers run for as long as the program does.                        *)
FairSpec == Spec /\ WF_vars(BasePass) /\ WF_vars(ServoRead \/ ServoWrite)

-----------------------------------------------------------------------------
FilterState == [state : BOOLEAN, lastState : BOOLEAN, debounceCount : 0..3]

TypeOK ==
  /\ setPoint \in 0..SDmax
  /\ SDaccumulator \in -SDmax..(2 * SDmax)
  /\ SDdirection \in BOOLEAN /\ SDpin \in BOOLEAN /\ debt \in Int
  /\ filter \in [Input -> FilterState]
  /\ agree \in [Input -> 1..Readings]
  /\ inputs \subseteq Input
  /\ servoAt \in 1..Len(ServoOrder)
  /\ writing \in BOOLEAN /\ word \subseteq Input
  /\ tick \in {0, 1} /\ baseRan \in BOOLEAN

(* What the pin has put out since the start never differs from the sum of  *)
(* the set points by a full pulse more, nor by half a pulse less, however  *)
(* the set point moves, to either end of the scale and back included: the  *)
(* mean of the output is the set point, over every stretch of updates.     *)
DutyExact == SDmax > 0 => -SDmax < debt /\ 2 * debt < SDmax

(* "Require 3 consistent readings before changing state" (endstop.cpp:59,  *)
(* alarm.cpp:64): the state of an input changes only to what its latest    *)
(* samples, three of them or more, agree on, however the pin bounces.      *)
ThreeReadings ==
  [][\A i \in Input :
       filter'[i].state # filter[i].state =>
         agree'[i] >= 3 /\ filter'[i].state = filter'[i].lastState]_vars

(* The bit of an input of the servo thread shows its state but while its   *)
(* own update is under way: the base interrupt, which writes to the same   *)
(* word in the middle of it, takes nothing of it away.                     *)
ServoBitsKept ==
  \A i \in ServoInput :
    \/ writing /\ i = ServoOrder[servoAt]
    \/ (i \in inputs) = filter[i].state

(* The bit of an input of the base thread may be undone by a servo module  *)
(* that read the word before it; but a level that is held is shown in the  *)
(* end, and stays shown.                                                   *)
HeldLevelIsShown ==
  \A i \in Input : \A b \in BOOLEAN :
    <>[](filter[i].lastState = b) => <>[]((i \in inputs) = b)
=============================================================================
