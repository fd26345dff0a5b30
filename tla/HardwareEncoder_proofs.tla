----------------------- MODULE HardwareEncoder_proofs -----------------------
(* The hardware encoder's count is exact and its fault debounced, for      *)
(* every width of the timer, every speed below half a period per interrupt *)
(* and every number of debounce samples.                                   *)
EXTENDS HardwareEncoder, TLAPS

-----------------------------------------------------------------------------
(* Arithmetic modulo the timer's and the counter's range.                  *)

LEMMA DivModUnique ==
  ASSUME NEW h \in Nat \ {0}, NEW q \in Int, NEW r \in 0..(h - 1)
  PROVE  (h * q + r) % h = r
OBVIOUS

LEMMA DivModDef ==
  ASSUME NEW h \in Nat \ {0}, NEW a \in Int
  PROVE  a = h * (a \div h) + (a % h) /\ a \div h \in Int /\ a % h \in 0..(h - 1)
OBVIOUS

(* Whole periods do not matter. *)
LEMMA ModShift ==
  ASSUME NEW h \in Nat \ {0}, NEW a \in Int, NEW q \in Int
  PROVE  (a + h * q) % h = a % h
<1>1. a = h * (a \div h) + (a % h) /\ a \div h \in Int /\ a % h \in 0..(h - 1)
  BY DivModDef
<1>2. PICK k \in Int, r \in 0..(h - 1) : a = h * k + r /\ r = a % h
  BY <1>1
<1>3. (h * k + r) + h * q = h * (k + q) + r
  OBVIOUS
<1>4. k + q \in Int
  OBVIOUS
<1>5. (h * (k + q) + r) % h = r
  BY <1>4, DivModUnique
<1> QED
  BY <1>2, <1>3, <1>5

(* The difference of two residues is the residue of the difference. *)
LEMMA ModSub ==
  ASSUME NEW h \in Nat \ {0}, NEW a \in Int, NEW b \in Int
  PROVE  ((a % h) - (b % h)) % h = (a - b) % h
<1>1. PICK k \in Int, r \in 0..(h - 1) : a = h * k + r /\ r = a % h
  BY DivModDef
<1>2. PICK m \in Int, s \in 0..(h - 1) : b = h * m + s /\ s = b % h
  BY DivModDef
<1>3. r - s = (a - b) + h * (m - k)
  BY <1>1, <1>2
<1>4. a - b \in Int /\ m - k \in Int
  OBVIOUS
<1>5. ((a - b) + h * (m - k)) % h = (a - b) % h
  BY <1>4, ModShift
<1> QED
  BY <1>1, <1>2, <1>3, <1>5

LEMMA ModAdd ==
  ASSUME NEW h \in Nat \ {0}, NEW a \in Int, NEW d \in Int
  PROVE  ((a % h) + d) % h = (a + d) % h
<1>1. PICK k \in Int, r \in 0..(h - 1) : a = h * k + r /\ r = a % h
  BY DivModDef
<1>2. h * k + h * (0 - k) = 0 /\ h * k \in Int /\ h * (0 - k) \in Int
  OBVIOUS
<1>3. a + d \in Int /\ 0 - k \in Int /\ r + d = (a + d) + h * (0 - k)
  BY <1>1, <1>2
<1>4. ((a + d) + h * (0 - k)) % h = (a + d) % h
  BY <1>3, ModShift
<1> QED
  BY <1>1, <1>3, <1>4

(* A signed residue is the number itself when it is within half a period.  *)
LEMMA SignedExact ==
  ASSUME NEW d \in Int, -HalfPeriod < d, d < HalfPeriod, NEW c \in Int, c % Period = d % Period
  PROVE  Signed(c) = d
<1>1. HalfPeriod \in Nat \ {0} /\ Period = 2 * HalfPeriod
  BY TimerAssumption DEF Period
<1>2. d % (2 * HalfPeriod) = IF d >= 0 THEN d ELSE d + 2 * HalfPeriod
  BY <1>1
<1>3. Signed(c) = IF d % Period < HalfPeriod THEN d % Period ELSE (d % Period) - Period
  BY DEF Signed
<1> QED
  BY <1>1, <1>2, <1>3

(* What the base interrupt adds is the motion since the last one. *)
LEMMA DeltaExact ==
  ASSUME NEW s \in Int, NEW t \in Int, NEW z \in Int,
         s - t <= MaxMove, t - s <= MaxMove
  PROVE  Signed(((s - z) % Period) - ((t - z) % Period)) = s - t
<1>1. Period \in Nat \ {0} /\ MaxMove \in Nat /\ HalfPeriod \in Nat /\ MaxMove < HalfPeriod
  BY TimerAssumption DEF Period
<1>2. s - z \in Int /\ t - z \in Int /\ s - t \in Int
  OBVIOUS
<1>3. (((s - z) % Period) - ((t - z) % Period)) % Period = ((s - z) - (t - z)) % Period
  BY <1>1, <1>2, ModSub
<1>4. (s - z) - (t - z) = s - t
  OBVIOUS
<1>5. ((s - z) % Period) - ((t - z) % Period) \in Int
  BY <1>1, <1>2
<1>6. -HalfPeriod < s - t /\ s - t < HalfPeriod
  BY <1>1
<1> QED
  BY <1>2, <1>3, <1>4, <1>5, <1>6, SignedExact

-----------------------------------------------------------------------------
(* The inductive invariants.  The count: the shaft's speed is bounded and  *)
(* lastCounterRaw is where the counter was at the last interrupt.  The     *)
(* fault: the debouncer has counted the active samples there were, and the *)
(* latch is what is shown.                                                 *)
CountInv ==
  /\ shaft - ticked <= MaxMove /\ ticked - shaft <= MaxMove
  /\ lastCounterRaw = (ticked - zeroAt) % Period
  /\ feedback = accumulatedCount
  /\ CountFollowsShaft

FaultInv ==
  /\ activeRun = IF lastFaultSample THEN faultDebounceCount ELSE 0
  /\ FullRunShown
  /\ IF faultLatch THEN faultBit = faultLatchedState ELSE faultLatchedState = FALSE

Inv == TypeOK /\ CountInv /\ FaultInv

LEMMA Sizes ==
  /\ Period \in Nat \ {0} /\ CountSize \in Nat \ {0}
  /\ Span \in Nat /\ MaxMove \in Nat /\ DebounceSamples \in Nat \ {0}
BY TimerAssumption, FaultAssumption DEF Period, CountSize

LEMMA InitInv == Init => Inv
<1> SUFFICES ASSUME Init PROVE Inv
  OBVIOUS
<1>1. TypeOK
  <2>1. /\ shaft \in (-Span)..Span /\ zeroAt \in (-Span)..Span /\ ticked \in (-Span)..Span
        /\ lastCounterRaw \in 0..(Period - 1) /\ accumulatedCount \in 0..(CountSize - 1)
        /\ feedback \in 0..(CountSize - 1)
    BY Sizes DEF Init
  <2>2. /\ faultDebounceCount \in 0..DebounceSamples
        /\ activeRun \in 0..DebounceSamples /\ quietRun \in 0..DebounceSamples
    BY Sizes DEF Init
  <2>3. /\ jointEnable \in BOOLEAN /\ lastFaultSample \in BOOLEAN
        /\ faultLatch \in Latches /\ faultClearOnDisable \in Clears
        /\ faultLatchedState \in BOOLEAN /\ faultBit \in BOOLEAN
    BY DEF Init
  <2> QED
    BY <2>1, <2>2, <2>3 DEF TypeOK
<1>2. CountInv
  <2>1. 0 % Period = 0 /\ 0 % CountSize = 0
    BY Sizes
  <2> QED
    BY Sizes, <2>1 DEF Init, CountInv, CountFollowsShaft
<1>3. FaultInv
  BY Sizes DEF Init, FaultInv, FullRunShown
<1> QED
  BY <1>1, <1>2, <1>3 DEF Inv

(* Counting one interrupt's motion.                                        *)
LEMMA CountStep ==
  ASSUME Inv, Update
  PROVE  /\ CountInv'
         /\ lastCounterRaw' \in 0..(Period - 1) /\ accumulatedCount' \in 0..(CountSize - 1)
         /\ feedback' \in 0..(CountSize - 1) /\ zeroAt' \in (-Span)..Span
<1>1. shaft \in Int /\ ticked \in Int /\ zeroAt \in Int
  BY Sizes DEF Inv, TypeOK
<1>2. shaft' = shaft /\ ticked' = shaft
  BY DEF Update
<1>3. shaft' - ticked' = 0
  BY <1>1, <1>2
<1>4. CASE jointEnable
  <2>1. CountMotion
    BY <1>4 DEF Update
  <2>2. /\ shaft - ticked <= MaxMove /\ ticked - shaft <= MaxMove
        /\ lastCounterRaw = (ticked - zeroAt) % Period
        /\ accumulatedCount = (ticked - zeroAt) % CountSize
    BY DEF Inv, CountInv, CountFollowsShaft
  <2>3. Signed(Counter - lastCounterRaw) = shaft - ticked
    BY <1>1, <2>2, DeltaExact DEF Counter
  <2>4. accumulatedCount' = (((ticked - zeroAt) % CountSize) + (shaft - ticked)) % CountSize
    BY <2>1, <2>2, <2>3 DEF CountMotion
  <2>5. ticked - zeroAt \in Int /\ shaft - ticked \in Int /\ shaft - zeroAt \in Int
    BY <1>1
  <2>6. (ticked - zeroAt) + (shaft - ticked) = shaft - zeroAt
    BY <1>1
  <2>7. accumulatedCount' = (shaft - zeroAt) % CountSize
    BY <2>4, <2>5, <2>6, Sizes, ModAdd
  <2>8. lastCounterRaw' = (shaft - zeroAt) % Period /\ feedback' = accumulatedCount' /\ zeroAt' = zeroAt
    BY <2>1 DEF CountMotion, Counter
  <2>9. (shaft - zeroAt) % CountSize \in 0..(CountSize - 1) /\ (shaft - zeroAt) % Period \in 0..(Period - 1)
    BY <2>5, Sizes
  <2>10. CountInv'
    BY <1>2, <1>3, <2>7, <2>8, Sizes, <1>1 DEF CountInv, CountFollowsShaft
  <2> QED
    BY <2>7, <2>8, <2>9, <2>10 DEF Inv, TypeOK
<1>5. CASE ~jointEnable
  <2>1. ResetCounterState
    BY <1>5 DEF Update
  <2>2. zeroAt' = shaft /\ lastCounterRaw' = 0 /\ accumulatedCount' = 0 /\ feedback' = 0
    BY <2>1 DEF ResetCounterState
  <2>3. (shaft - shaft) % Period = 0 /\ (shaft - shaft) % CountSize = 0
    BY <1>1, Sizes
  <2>4. CountInv'
    BY <1>1, <1>2, <2>2, <2>3, Sizes DEF CountInv, CountFollowsShaft
  <2>5. 0 \in 0..(Period - 1) /\ 0 \in 0..(CountSize - 1)
    BY Sizes
  <2> QED
    BY <2>2, <2>4, <2>5 DEF Inv, TypeOK
<1> QED
  BY <1>4, <1>5

(* One sample of the fault pin. *)
LEMMA FaultStep ==
  ASSUME Inv, Update
  PROVE  /\ FaultInv'
         /\ faultDebounceCount' \in 0..DebounceSamples
         /\ activeRun' \in 0..DebounceSamples /\ quietRun' \in 0..DebounceSamples
         /\ lastFaultSample' \in BOOLEAN /\ faultLatchedState' \in BOOLEAN /\ faultBit' \in BOOLEAN
         /\ ~faultBit /\ faultBit' => activeRun' = DebounceSamples
<1> DEFINE run == IF Clearing THEN 0 ELSE activeRun
<1>1. PICK sample \in BOOLEAN :
        /\ Debounce(sample)
        /\ activeRun' = IF sample THEN Least(run + 1, DebounceSamples) ELSE 0
        /\ quietRun'  = IF sample THEN 0 ELSE Least(quietRun + 1, DebounceSamples)
  BY DEF Update
<1>2. /\ faultDebounceCount \in 0..DebounceSamples /\ DebounceSamples \in Nat \ {0}
      /\ run \in 0..DebounceSamples /\ quietRun \in 0..DebounceSamples
  BY Sizes DEF Inv, TypeOK
<1> DEFINE before  == lastFaultSample /\ ~Clearing
           start   == IF Clearing THEN 0 ELSE faultDebounceCount
           count   == StableCount(start, sample = before)
           active  == Stable(count) /\ sample
           latched == (faultLatchedState /\ ~Clearing) \/ (faultLatch /\ active)
<1>3. /\ faultDebounceCount' = count /\ lastFaultSample' = sample
      /\ faultLatchedState' = latched
      /\ faultBit' = IF faultLatch THEN latched ELSE active
  BY <1>1 DEF Debounce
<1>4. /\ before \in BOOLEAN /\ start \in 0..DebounceSamples
      /\ before => start = run
      /\ ~before => run = 0
  BY <1>2 DEF Inv, FaultInv
<1> HIDE DEF before, start, run
<1>5. count \in 0..DebounceSamples
  BY <1>2, <1>4 DEF StableCount, Least
<1>6. activeRun' \in 0..DebounceSamples /\ quietRun' \in 0..DebounceSamples
  BY <1>1, <1>2 DEF Least
<1>7. ASSUME sample
      PROVE  count = Least(run + 1, DebounceSamples)
  <2>1. CASE before
    BY <1>2, <1>4, <1>7, <2>1 DEF StableCount
  <2>2. CASE ~before
    <3>1. ~(sample = before)
      BY <1>7, <2>2
    <3>2. count = 1
      BY <3>1 DEF StableCount
    <3>3. 1 = Least(run + 1, DebounceSamples)
      BY <1>2, <1>4, <2>2 DEF Least
    <3> QED
      BY <3>2, <3>3
  <2> QED
    BY <2>1, <2>2
<1>8. activeRun' = IF sample THEN count ELSE 0
  BY <1>1, <1>7
<1> HIDE DEF count
<1>9. active <=> activeRun' = DebounceSamples
  BY <1>2, <1>5, <1>8 DEF Stable
<1>10. active \in BOOLEAN /\ latched \in BOOLEAN
  OBVIOUS
<1>11. ~faultBit /\ faultBit' => active
  BY <1>3 DEF Inv, FaultInv
<1>12. faultLatch' = faultLatch
  BY DEF Update, setting
<1>13. IF faultLatch THEN faultBit' = faultLatchedState' ELSE faultLatchedState' = FALSE
  BY <1>3 DEF Inv, FaultInv
<1>14. active => faultBit'
  BY <1>3
<1>15. FaultInv'
  <2>1. FullRunShown'
    BY <1>9, <1>14 DEF FullRunShown
  <2> QED
    BY <1>3, <1>8, <1>12, <1>13, <2>1 DEF FaultInv
<1>16. faultLatchedState' \in BOOLEAN /\ faultBit' \in BOOLEAN
  BY <1>3, <1>10
<1>17. faultDebounceCount' \in 0..DebounceSamples /\ lastFaultSample' \in BOOLEAN
  BY <1>3, <1>5
<1> QED
  BY <1>6, <1>9, <1>11, <1>15, <1>16, <1>17

LEMMA NextInv == Inv /\ [Next]_vars => Inv'
<1> SUFFICES ASSUME Inv, [Next]_vars PROVE Inv'
  OBVIOUS
<1>1. CASE Turn
  <2>1. ticked \in Int /\ shaft' \in Int /\ shaft' \in (ticked - MaxMove)..(ticked + MaxMove)
    BY <1>1, Sizes DEF Inv, TypeOK, Turn
  <2>2. PICK n \in Int : shaft' = n
    BY <2>1
  <2>3. shaft' - ticked <= MaxMove /\ ticked - shaft' <= MaxMove
    BY <2>1, <2>2, Sizes
  <2>4. CountInv'
    BY <1>1, <2>3 DEF Inv, Turn, CountInv, CountFollowsShaft, counting
  <2>5. TypeOK' /\ FaultInv'
    BY <1>1 DEF Inv, TypeOK, FaultInv, FullRunShown, Turn, counting, setting, debounce, runs
  <2> QED
    BY <2>4, <2>5 DEF Inv
<1>2. CASE WriteEnable
  BY <1>2 DEF Inv, TypeOK, CountInv, CountFollowsShaft, FaultInv, FullRunShown, WriteEnable, outside,
    counting, setting, debounce, runs
<1>3. CASE Update
  <2>1. CountInv' /\ FaultInv'
    BY <1>3, CountStep, FaultStep
  <2>2. /\ shaft' \in (-Span)..Span /\ ticked' \in (-Span)..Span /\ jointEnable' \in BOOLEAN
        /\ faultLatch' \in Latches /\ faultClearOnDisable' \in Clears
    BY <1>3 DEF Inv, TypeOK, Update, setting
  <2>3. TypeOK'
    BY <1>3, <2>2, CountStep, FaultStep DEF TypeOK
  <2> QED
    BY <2>1, <2>3 DEF Inv
<1>4. CASE UNCHANGED vars
  BY <1>4 DEF Inv, TypeOK, CountInv, CountFollowsShaft, FaultInv, FullRunShown, vars, outside,
    counting, setting, debounce, runs
<1> QED
  BY <1>1, <1>2, <1>3, <1>4 DEF Next

LEMMA Invariant == Spec => []Inv
BY InitInv, NextInv, PTL DEF Spec

(* Counter, accumulator and debouncer keep their widths.                   *)
THEOREM TypeCorrect == Spec => []TypeOK
<1>1. Inv => TypeOK
  BY DEF Inv
<1> QED
  BY <1>1, Invariant, PTL

(* The count is the shaft's motion since the joint was last disabled, for  *)
(* every width of the timer.                                               *)
THEOREM CountExact == Spec => []CountFollowsShaft
<1>1. Inv => CountFollowsShaft
  BY DEF Inv, CountInv
<1> QED
  BY <1>1, Invariant, PTL

(* A fault is raised only by a run of active samples of full length.       *)
THEOREM FaultStable == Spec => FaultIsStable
<1>1. Inv /\ [Next]_vars => [~faultBit /\ faultBit' => activeRun' = DebounceSamples]_vars
  <2> SUFFICES ASSUME Inv, Next
               PROVE  ~faultBit /\ faultBit' => activeRun' = DebounceSamples
    OBVIOUS
  <2>1. CASE Update
    BY <2>1, FaultStep
  <2>2. CASE Turn \/ WriteEnable
    BY <2>2 DEF Turn, WriteEnable, debounce
  <2> QED
    BY <2>1, <2>2 DEF Next
<1> QED
  BY <1>1, Invariant, PTL DEF Spec, FaultIsStable

(* The sample that completes a run of full length shows the fault, and it  *)
(* is shown while the run lasts, whatever was cleared before.              *)
THEOREM FaultPrompt == Spec => []FullRunShown
<1>1. Inv => FullRunShown
  BY DEF Inv, FaultInv
<1> QED
  BY <1>1, Invariant, PTL

(* A latched fault is cleared only by disabling a joint configured for it. *)
THEOREM FaultLatched == Spec => FaultIsLatched
<1>1. Inv /\ [Next]_vars =>
        [faultBit /\ ~faultBit' /\ faultLatch => ~jointEnable /\ faultClearOnDisable]_vars
  <2> SUFFICES ASSUME Inv, Next, faultBit, ~faultBit', faultLatch
               PROVE  ~jointEnable /\ faultClearOnDisable
    OBVIOUS
  <2>1. CASE Update
    <3>1. PICK sample \in BOOLEAN : Debounce(sample)
      BY <2>1 DEF Update
    <3>2. faultLatchedState
      BY DEF Inv, FaultInv
    <3> QED
      BY <3>1, <3>2 DEF Debounce, Clearing
  <2>2. CASE Turn \/ WriteEnable
    BY <2>2 DEF Turn, WriteEnable, debounce
  <2> QED
    BY <2>1, <2>2 DEF Next
<1> QED
  BY <1>1, Invariant, PTL DEF Spec, FaultIsLatched
=============================================================================
