-------------------------- MODULE IOThreads_proofs --------------------------
(* Outputs and inputs, for every full scale, set point and number of inputs. *)
EXTENDS IOThreads, TLAPS

LEMMA Orders ==
  /\ SDmax \in Nat /\ SetPoint \subseteq Int
  /\ Len(ServoOrder) \in Nat /\ Len(ServoOrder) > 0
  /\ \A k \in 1..Len(ServoOrder) : ServoOrder[k] \in ServoInput
  /\ ServoInput \subseteq Input /\ BaseInput \subseteq Input
  /\ BaseInput \intersect ServoInput = {}
<1>1. Len(ServoOrder) \in Nat
  BY OrderAssumption
<1> QED
  BY <1>1, SDmaxAssumption, OrderAssumption, ThreadAssumption DEF ServoInput, Input

-----------------------------------------------------------------------------
(* The sigma-delta output.                                                 *)

SDType ==
  /\ setPoint \in 0..SDmax
  /\ SDaccumulator \in -SDmax..(2 * SDmax)
  /\ SDdirection \in BOOLEAN /\ SDpin \in BOOLEAN /\ debt \in Int

(* The accumulator is the debt, with the pulse that is under way; its two  *)
(* thresholds bound it, so that it is never confined.                      *)
SDInv ==
  /\ debt = SDaccumulator - (IF SDdirection THEN SDmax ELSE 0)
  /\ SDdirection /\ SDmax > 0  => 0 < SDaccumulator /\ 2 * SDaccumulator < 3 * SDmax
  /\ ~SDdirection /\ SDmax > 0 => -SDmax < SDaccumulator /\ 2 * SDaccumulator < SDmax

(* One step of the modulation, as arithmetic.                              *)
LEMMA Charge ==
  ASSUME NEW M \in Nat, NEW s \in 1..(M - 1), NEW a \in Int, -M < a, 2 * a < M
  PROVE  /\ Confine(a, -M, 2 * M) = a
         /\ a + s \in -M..(2 * M)
         /\ a + s >= M \div 2 => 0 < a + s /\ 2 * (a + s) < 3 * M
         /\ ~(a + s >= M \div 2) => -M < a + s /\ 2 * (a + s) < M
<1>1. 2 * (M \div 2) <= M /\ M <= 2 * (M \div 2) + 1 /\ M \div 2 \in Int
  OBVIOUS
<1> QED
  BY <1>1 DEF Confine

LEMMA Discharge ==
  ASSUME NEW M \in Nat, NEW s \in 1..(M - 1), NEW a \in Int, 0 < a, 2 * a < 3 * M
  PROVE  /\ Confine(a, -M, 2 * M) = a
         /\ a - (M - s) \in -M..(2 * M)
         /\ a - (M - s) > 0 => 2 * (a - (M - s)) < 3 * M
         /\ ~(a - (M - s) > 0) => -M < a - (M - s) /\ 2 * (a - (M - s)) < M
BY DEF Confine

LEMMA ConfineType ==
  ASSUME NEW M \in Nat, NEW x \in Int
  PROVE  Confine(x, 0, M) \in 0..M
BY DEF Confine

LEMMA SDStep ==
  ASSUME SDType, SDInv, NEW sp \in SetPoint, SDUpdate(sp)
  PROVE  SDType' /\ SDInv'
<1> USE Orders
<1>1. PICK s \in 0..SDmax : setPoint' = s
  BY ConfineType DEF SDUpdate, SDType
<1>2. CASE s <= 0 \/ s >= SDmax
  <2>1. UNCHANGED <<SDaccumulator, SDdirection>> /\ SDpin' = (s > 0)
    BY <1>1, <1>2 DEF SDUpdate
  <2>2. debt' = debt + s - (IF s > 0 THEN SDmax ELSE 0)
    BY <1>1, <2>1 DEF SDUpdate
  <2>3. s = (IF s > 0 THEN SDmax ELSE 0)
    BY <1>2
  <2>4. debt' = debt
    BY <2>2, <2>3 DEF SDType
  <2> QED
    BY <1>1, <2>1, <2>4 DEF SDType, SDInv
<1>3. CASE ~(s <= 0 \/ s >= SDmax)
  <2>1. s \in 1..(SDmax - 1) /\ SDmax > 0
    BY <1>3
  <2>2. Modulate(s) /\ SDpin' = SDdirection'
    BY <1>1, <1>3 DEF SDUpdate
  <2>3. debt' = debt + s - (IF SDdirection' THEN SDmax ELSE 0)
    BY <1>1, <2>2 DEF SDUpdate
  <2>4. CASE ~SDdirection
    <3>1. -SDmax < SDaccumulator /\ 2 * SDaccumulator < SDmax /\ debt = SDaccumulator
          /\ SDaccumulator \in Int
      BY <2>1, <2>4 DEF SDInv, SDType
    <3> DEFINE b == SDaccumulator + s
    <3>2. /\ Confine(SDaccumulator, -SDmax, 2 * SDmax) = SDaccumulator
          /\ b \in -SDmax..(2 * SDmax)
          /\ b >= SDmax \div 2 => 0 < b /\ 2 * b < 3 * SDmax
          /\ ~(b >= SDmax \div 2) => -SDmax < b /\ 2 * b < SDmax
      BY <2>1, <3>1, Charge
    <3>3. SDaccumulator' = b /\ SDdirection' = (b >= SDmax \div 2)
      BY <2>2, <2>4, <3>2 DEF Modulate
    <3>4. debt' = b - (IF SDdirection' THEN SDmax ELSE 0)
      BY <2>3, <3>1
    <3>5. b \in Int /\ SDmax \in Int
      BY <3>2
    <3>6. SDdirection' \in BOOLEAN /\ SDpin' \in BOOLEAN /\ setPoint' \in 0..SDmax
      BY <1>1, <2>2, <3>3
    <3> HIDE DEF b
    <3>7. CASE b >= SDmax \div 2
      <4>1. SDdirection' /\ debt' = b - SDmax
        BY <3>3, <3>4, <3>7
      <4> QED
        BY <3>2, <3>3, <3>5, <3>6, <3>7, <4>1 DEF SDInv, SDType
    <3>8. CASE ~(b >= SDmax \div 2)
      <4>1. ~SDdirection'
        BY <3>3, <3>8
      <4>2. debt' = b - 0
        BY <3>4, <4>1
      <4>3. debt' = b
        BY <3>5, <4>2
      <4> QED
        BY <3>2, <3>3, <3>5, <3>6, <3>8, <4>1, <4>3 DEF SDInv, SDType
    <3> QED
      BY <3>7, <3>8
  <2>5. CASE SDdirection
    <3>1. 0 < SDaccumulator /\ 2 * SDaccumulator < 3 * SDmax /\ debt = SDaccumulator - SDmax
          /\ SDaccumulator \in Int
      BY <2>1, <2>5 DEF SDInv, SDType
    <3> DEFINE b == SDaccumulator - (SDmax - s)
    <3>2. /\ Confine(SDaccumulator, -SDmax, 2 * SDmax) = SDaccumulator
          /\ b \in -SDmax..(2 * SDmax)
          /\ b > 0 => 2 * b < 3 * SDmax
          /\ ~(b > 0) => -SDmax < b /\ 2 * b < SDmax
      BY <2>1, <3>1, Discharge
    <3>3. SDaccumulator' = b /\ SDdirection' = (b > 0)
      BY <2>2, <2>5, <3>2 DEF Modulate
    <3>4. debt' = b - (IF SDdirection' THEN SDmax ELSE 0)
      BY <2>3, <3>1
    <3>5. b \in Int /\ SDmax \in Int
      BY <3>2
    <3>6. SDdirection' \in BOOLEAN /\ SDpin' \in BOOLEAN /\ setPoint' \in 0..SDmax
      BY <1>1, <2>2, <3>3
    <3> HIDE DEF b
    <3>7. CASE b > 0
      <4>1. SDdirection' /\ debt' = b - SDmax
        BY <3>3, <3>4, <3>7
      <4> QED
        BY <3>2, <3>3, <3>5, <3>6, <3>7, <4>1 DEF SDInv, SDType
    <3>8. CASE ~(b > 0)
      <4>1. ~SDdirection'
        BY <3>3, <3>8
      <4>2. debt' = b - 0
        BY <3>4, <4>1
      <4>3. debt' = b
        BY <3>5, <4>2
      <4> QED
        BY <3>2, <3>3, <3>5, <3>6, <3>8, <4>1, <4>3 DEF SDInv, SDType
    <3> QED
      BY <3>7, <3>8
  <2> QED
    BY <2>4, <2>5 DEF SDType
<1> QED
  BY <1>2, <1>3

-----------------------------------------------------------------------------
(* The inputs.                                                             *)

(* The count is that of the samples that agree, less one, up to three; and *)
(* a run that is long enough has reached the state.                        *)
FilterInv ==
  \A i \in Input : /\ filter[i].debounceCount = IF agree[i] <= 4 THEN agree[i] - 1 ELSE 3
                   /\ agree[i] >= Readings => filter[i].state = filter[i].lastState

FilterType == filter \in [Input -> FilterState] /\ agree \in [Input -> 1..Readings]

Settles(f, n, g, m) == g.state = IF m >= Readings THEN g.lastState ELSE f.state

LEMMA Debounces ==
  ASSUME NEW f \in FilterState, NEW n \in 1..Readings, NEW v \in BOOLEAN,
         f.debounceCount = IF n <= 4 THEN n - 1 ELSE 3,
         n >= Readings => f.state = f.lastState
  PROVE  /\ Debounce(f, v) \in FilterState /\ Agreeing(n, f, v) \in 1..Readings
         /\ Debounce(f, v).debounceCount
              = IF Agreeing(n, f, v) <= 4 THEN Agreeing(n, f, v) - 1 ELSE 3
         /\ Settles(f, n, Debounce(f, v), Agreeing(n, f, v))
<1> USE DEF FilterState, Debounce, Agreeing, Readings, Settles
<1>1. CASE v # f.lastState
  <2>1. Debounce(f, v) = [f EXCEPT !.debounceCount = 0, !.lastState = v] /\ Agreeing(n, f, v) = 1
    BY <1>1
  <2> DEFINE g == [f EXCEPT !.debounceCount = 0, !.lastState = v]
  <2>2. g.debounceCount = 0 /\ g.state = f.state /\ g.lastState = v
    BY Zenon
  <2>3. g \in FilterState
    <3> DEFINE h == [f EXCEPT !.debounceCount = 0]
    <3>1. h \in FilterState
      OBVIOUS
    <3>2. [h EXCEPT !.lastState = v] \in FilterState
      <4> HIDE DEF h
      <4> QED
        BY <3>1
    <3>3. g = [h EXCEPT !.lastState = v]
      BY Zenon
    <3> QED
      BY <3>2, <3>3
  <2> HIDE DEF g
  <2>4. Debounce(f, v) = g
    BY <2>1 DEF g
  <2> HIDE DEF Debounce, Agreeing
  <2> QED
    BY <2>1, <2>2, <2>3, <2>4
<1>2. CASE v = f.lastState /\ f.debounceCount < 3
  BY <1>2
<1>3. CASE v = f.lastState /\ ~(f.debounceCount < 3)
  BY <1>3
<1> QED
  BY <1>1, <1>2, <1>3

(* What a pass over the inputs of M does to all inputs.                    *)
LEMMA SampleStep ==
  ASSUME FilterType, FilterInv, NEW M, M \subseteq Input, NEW v \in [M -> BOOLEAN], Sample(M, v)
  PROVE  /\ FilterType' /\ FilterInv'
         /\ \A i \in Input : Settles(filter[i], agree[i], filter'[i], agree'[i])
         /\ \A i \in Input \ M : filter'[i] = filter[i]
<1>1. ASSUME NEW i \in Input
      PROVE  /\ filter[i] \in FilterState /\ agree[i] \in 1..Readings
             /\ filter[i].debounceCount = IF agree[i] <= 4 THEN agree[i] - 1 ELSE 3
             /\ agree[i] >= Readings => filter[i].state = filter[i].lastState
  BY DEF FilterType, FilterInv
<1>2. ASSUME NEW i \in Input
      PROVE  /\ filter'[i] \in FilterState /\ agree'[i] \in 1..Readings
             /\ filter'[i].debounceCount = IF agree'[i] <= 4 THEN agree'[i] - 1 ELSE 3
             /\ Settles(filter[i], agree[i], filter'[i], agree'[i])
             /\ i \notin M => filter'[i] = filter[i]
  <2>1. CASE i \in M
    <3>1. filter'[i] = Debounce(filter[i], v[i]) /\ agree'[i] = Agreeing(agree[i], filter[i], v[i])
      BY <2>1 DEF Sample
    <3>2. v[i] \in BOOLEAN
      BY <2>1
    <3> QED
      BY <1>1, <2>1, <3>1, <3>2, Debounces
  <2>2. CASE i \notin M
    <3>1. filter'[i] = filter[i] /\ agree'[i] = agree[i]
      BY <2>2 DEF Sample
    <3> QED
      BY <1>1, <2>2, <3>1 DEF Settles
  <2> QED
    BY <2>1, <2>2
<1>3. FilterType'
  <2>1. filter' = [i \in Input |-> filter'[i]] /\ agree' = [i \in Input |-> agree'[i]]
    BY DEF Sample
  <2> QED
    BY <1>2, <2>1 DEF FilterType
<1>4. FilterInv'
  BY <1>2 DEF FilterInv, Settles
<1> QED
  BY <1>2, <1>3, <1>4

-----------------------------------------------------------------------------
(* The threads.                                                            *)

ThreadType ==
  /\ inputs \subseteq Input /\ word \subseteq Input
  /\ servoAt \in 1..Len(ServoOrder)
  /\ writing \in BOOLEAN /\ tick \in {0, 1} /\ baseRan \in BOOLEAN

(* The word a servo module has read still has the bits of the others.      *)
WordInv ==
  writing => \A i \in ServoInput : i # ServoOrder[servoAt] => (i \in word) = filter[i].state

IInv == SDType /\ SDInv /\ FilterType /\ FilterInv /\ ThreadType /\ ServoBitsKept /\ WordInv

LEMMA InitIInv == Init => IInv
<1> SUFFICES ASSUME Init PROVE IInv
  OBVIOUS
<1> USE Orders
<1>1. SDType
  <2>1. 0 \in 0..SDmax /\ 0 \in -SDmax..(2 * SDmax) /\ 0 \in Int
    OBVIOUS
  <2> QED
    BY <2>1 DEF Init, SDType
<1>2. SDInv
  <2>1. debt = 0 /\ SDaccumulator = 0 /\ SDdirection = FALSE
    BY DEF Init
  <2>2. SDmax > 0 => -SDmax < 0 /\ 2 * 0 < SDmax
    OBVIOUS
  <2>3. debt = SDaccumulator - (IF SDdirection THEN SDmax ELSE 0)
    <3>1. (IF SDdirection THEN SDmax ELSE 0) = 0
      BY <2>1
    <3>2. 0 - 0 = 0
      OBVIOUS
    <3> QED
      BY <2>1, <3>1, <3>2
  <2> QED
    BY <2>1, <2>2, <2>3 DEF SDInv
<1>3. FilterType /\ FilterInv
  BY DEF Init, FilterType, FilterInv, FilterState, Readings
<1>4. ThreadType
  <2>1. inputs = {} /\ word = {} /\ servoAt = 1 /\ writing = FALSE /\ tick = 0 /\ baseRan = FALSE
    BY DEF Init
  <2>2. 1 \in 1..Len(ServoOrder)
    OBVIOUS
  <2> QED
    BY <2>1, <2>2 DEF ThreadType
<1>5. ServoBitsKept /\ WordInv
  <2>1. \A i \in ServoInput : filter[i].state = FALSE
    BY DEF Init
  <2>2. inputs = {} /\ writing = FALSE
    BY DEF Init
  <2>3. \A i \in ServoInput : (i \in inputs) = filter[i].state
    <3> TAKE i \in ServoInput
    <3>1. filter[i].state = FALSE
      BY <2>1
    <3>2. (i \in inputs) = FALSE
      BY <2>2
    <3> QED
      BY <3>1, <3>2
  <2> QED
    BY <2>2, <2>3 DEF ServoBitsKept, WordInv
<1> QED
  BY <1>1, <1>2, <1>3, <1>4, <1>5 DEF IInv

(* One step: the invariant, and what it means to the filters.              *)
LEMMA Step ==
  ASSUME IInv, [Next]_vars
  PROVE  /\ IInv'
         /\ \A i \in Input : filter'[i].state = IF agree'[i] >= Readings THEN filter'[i].lastState
                                                                         ELSE filter[i].state
<1> USE Orders DEF IInv
<1>0. SUFFICES IInv' /\ \A i \in Input : Settles(filter[i], agree[i], filter'[i], agree'[i])
  BY DEF Settles
<1>1. CASE UNCHANGED vars
  <2>1. IInv'
    BY <1>1 DEF vars, sd, SDType, SDInv, FilterType, FilterInv, ThreadType, ServoBitsKept, WordInv
  <2>2. \A i \in Input : Settles(filter[i], agree[i], filter'[i], agree'[i])
    BY <1>1 DEF vars, Settles, FilterInv
  <2> QED
    BY <2>1, <2>2
<1>2. CASE BasePass
  <2>1. PICK s \in SetPoint : SDUpdate(s)
    BY <1>2 DEF BasePass
  <2>2. SDType' /\ SDInv'
    BY <2>1, SDStep
  <2>3. PICK v \in [BaseInput -> BOOLEAN] : Sample(BaseInput, v)
    BY <1>2 DEF BasePass
  <2>4. /\ FilterType' /\ FilterInv'
        /\ \A i \in Input : Settles(filter[i], agree[i], filter'[i], agree'[i])
        /\ \A i \in Input \ BaseInput : filter'[i] = filter[i]
    BY <2>3, SampleStep
  <2>5. /\ inputs' = (inputs \ BaseInput) \union {i \in BaseInput : filter'[i].state}
        /\ UNCHANGED <<servoAt, writing, word>>
        /\ tick' = 1 - tick /\ baseRan' = (baseRan \/ Between)
    BY <1>2 DEF BasePass, Merge
  <2>6. ThreadType'
    BY <2>5 DEF ThreadType, Between
  <2>7. \A i \in ServoInput : filter'[i] = filter[i] /\ (i \in inputs' <=> i \in inputs)
    BY <2>4, <2>5
  <2>8. ServoBitsKept'
    BY <2>5, <2>7 DEF ServoBitsKept
  <2>9. WordInv'
    BY <2>5, <2>7 DEF WordInv
  <2> QED
    BY <2>2, <2>4, <2>6, <2>8, <2>9
<1>3. CASE ServoRead
  <2> DEFINE cur == ServoOrder[servoAt]
  <2>1. cur \in ServoInput
    BY DEF ThreadType
  <2>2. PICK v \in [{cur} -> BOOLEAN] : Sample({cur}, v)
    BY <1>3 DEF ServoRead
  <2>3. /\ FilterType' /\ FilterInv'
        /\ \A i \in Input : Settles(filter[i], agree[i], filter'[i], agree'[i])
        /\ \A i \in Input \ {cur} : filter'[i] = filter[i]
    BY <2>1, <2>2, SampleStep
  <2>4. /\ ~writing /\ writing' = TRUE /\ word' = inputs
        /\ UNCHANGED <<sd, inputs, servoAt, tick, baseRan>>
    BY <1>3 DEF ServoRead
  <2>5. SDType' /\ SDInv' /\ ThreadType'
    BY <2>4 DEF sd, SDType, SDInv, ThreadType
  <2>6. \A i \in ServoInput : i # cur => (i \in inputs) = filter'[i].state
    BY <2>3, <2>4 DEF ServoBitsKept
  <2>7. ServoBitsKept' /\ WordInv'
    BY <2>4, <2>6 DEF ServoBitsKept, WordInv
  <2> QED
    BY <2>3, <2>5, <2>7
<1>4. CASE ServoWrite
  <2> DEFINE cur == ServoOrder[servoAt]
  <2>1. /\ writing /\ writing' = FALSE /\ word' = {}
        /\ inputs' = (word \ {cur}) \union {i \in {cur} : filter[i].state}
        /\ servoAt' = IF servoAt = Len(ServoOrder) THEN 1 ELSE servoAt + 1
        /\ baseRan' = (baseRan /\ servoAt # Len(ServoOrder))
        /\ UNCHANGED <<sd, filter, agree, tick>>
    BY <1>4 DEF ServoWrite, Merge
  <2>2. SDType' /\ SDInv' /\ FilterType' /\ FilterInv'
    BY <2>1 DEF sd, SDType, SDInv, FilterType, FilterInv
  <2>3. cur \in ServoInput
    BY DEF ThreadType
  <2>4. ThreadType'
    <3>1. inputs' \subseteq Input /\ word' \subseteq Input
      BY <2>1, <2>3 DEF ThreadType
    <3>2. servoAt' \in 1..Len(ServoOrder)
      BY <2>1 DEF ThreadType
    <3>3. writing' \in BOOLEAN /\ baseRan' \in BOOLEAN /\ tick' \in {0, 1}
      BY <2>1 DEF ThreadType
    <3> QED
      BY <3>1, <3>2, <3>3 DEF ThreadType
  <2>5. \A i \in ServoInput : (i \in inputs') = filter[i].state
    <3> TAKE i \in ServoInput
    <3>1. filter[i].state \in BOOLEAN
      BY DEF FilterType, FilterState
    <3>2. CASE i = cur
      BY <2>1, <3>1, <3>2
    <3>3. CASE i # cur
      BY <2>1, <3>3 DEF WordInv
    <3> QED
      BY <3>2, <3>3
  <2>6. ServoBitsKept' /\ WordInv'
    BY <2>1, <2>5 DEF ServoBitsKept, WordInv
  <2>7. \A i \in Input : Settles(filter[i], agree[i], filter'[i], agree'[i])
    BY <2>1 DEF Settles, FilterInv
  <2> QED
    BY <2>2, <2>4, <2>6, <2>7
<1> QED
  BY <1>1, <1>2, <1>3, <1>4 DEF Next

THEOREM Invariant == Spec => []IInv
<1>1. IInv /\ [Next]_vars => IInv'
  BY Step
<1> QED
  BY <1>1, InitIInv, PTL DEF Spec

(* Every variable keeps to its range; the confinement of the accumulator   *)
(* never takes effect.                                                     *)
THEOREM TypeCorrect == Spec => []TypeOK
<1>1. IInv => TypeOK
  BY DEF IInv, TypeOK, SDType, FilterType, ThreadType
<1> QED
  BY <1>1, Invariant, PTL

(* SigmaDelta::update: the output follows the sum of the set points to     *)
(* within a pulse, for every sequence of them.                             *)
THEOREM DutyIsExact == Spec => []DutyExact
<1>1. IInv => DutyExact
  <2> SUFFICES ASSUME SDType, SDInv, SDmax > 0 PROVE -SDmax < debt /\ 2 * debt < SDmax
    BY DEF IInv, DutyExact
  <2>1. SDmax \in Int /\ SDaccumulator \in Int
    BY Orders DEF SDType
  <2>2. CASE SDdirection
    <3>1. debt = SDaccumulator - SDmax /\ 0 < SDaccumulator /\ 2 * SDaccumulator < 3 * SDmax
      BY <2>2 DEF SDInv
    <3> QED
      BY <2>1, <3>1
  <2>3. CASE ~SDdirection
    <3>1. debt = SDaccumulator - 0 /\ -SDmax < SDaccumulator /\ 2 * SDaccumulator < SDmax
      BY <2>3 DEF SDInv
    <3> QED
      BY <2>1, <3>1
  <2> QED
    BY <2>2, <2>3
<1> QED
  BY <1>1, Invariant, PTL

(* Endstop::update, Alarm::update: nothing but a run of three equal        *)
(* samples or more changes the state of an input, for every set of inputs  *)
(* on either thread.                                                       *)
THEOREM DebounceHolds == Spec => ThreeReadings
<1>1. IInv /\ [Next]_vars =>
        [\A i \in Input : filter'[i].state # filter[i].state =>
           agree'[i] >= 3 /\ filter'[i].state = filter'[i].lastState]_vars
  <2> SUFFICES ASSUME IInv, [Next]_vars, NEW i \in Input, filter'[i].state # filter[i].state
               PROVE  agree'[i] >= 3 /\ filter'[i].state = filter'[i].lastState
    OBVIOUS
  <2>1. /\ agree'[i] \in 1..Readings
        /\ filter'[i].state = IF agree'[i] >= Readings THEN filter'[i].lastState
                                                       ELSE filter[i].state
    BY Step DEF IInv, FilterType
  <2> QED
    BY <2>1 DEF Readings
<1> QED
  BY <1>1, Invariant, PTL DEF Spec, ThreeReadings

(* |= and &= of the servo thread lose no bit of its own, though the base   *)
(* thread comes between.                                                   *)
THEOREM ServoBitsStay == Spec => []ServoBitsKept
<1>1. IInv => ServoBitsKept
  BY DEF IInv
<1> QED
  BY <1>1, Invariant, PTL

-----------------------------------------------------------------------------
(* A level that is held is shown.                                          *)

(* Both timers keep interrupting and every servo interrupt ends: each pass *)
(* of the base thread, and of every module of the servo thread, is         *)
(* followed by another.                                                    *)
BothRun ==
  /\ []<><<BasePass>>_vars
  /\ []<>Between
  /\ \A i \in ServoInput : []<><<ServoRead /\ ServoOrder[servoAt] = i>>_vars

Held(i, b)     == filter[i].lastState = b
Agreed(i, n)   == agree[i] >= n
Settled(i, b)  == Held(i, b) /\ Agreed(i, Readings)
Shown(i, b)    == (i \in inputs) = b
(* ... and no module of the servo thread is about to undo it.              *)
Right(i, b)    == Shown(i, b) /\ (writing => (i \in word) = b)

(* The step in which an input takes a sample.                              *)
Samples(i) == IF i \in BaseInput THEN BasePass ELSE ServoRead /\ i = ServoOrder[servoAt]

(* A level that is held is agreed on more and more.                        *)
LEMMA AgreeGrows ==
  ASSUME NEW i \in Input, NEW b \in BOOLEAN, IInv, [Next]_vars, Held(i, b), Held(i, b)'
  PROVE  /\ agree[i] \in 1..Readings /\ agree'[i] \in 1..Readings /\ agree'[i] >= agree[i]
         /\ Samples(i) => agree'[i] >= Readings \/ agree'[i] >= agree[i] + 1
<1> USE Orders DEF Held, Samples
<1>1. agree[i] \in 1..Readings /\ agree'[i] \in 1..Readings
  BY Step DEF IInv, FilterType
<1>2. ASSUME NEW M, i \in M, NEW v \in [M -> BOOLEAN], Sample(M, v)
      PROVE  agree'[i] = IF agree[i] < Readings THEN agree[i] + 1 ELSE agree[i]
  <2>1. filter'[i] = Debounce(filter[i], v[i]) /\ agree'[i] = Agreeing(agree[i], filter[i], v[i])
    BY <1>2 DEF Sample
  <2>2. filter[i] \in FilterState /\ v[i] \in BOOLEAN
    BY <1>2 DEF IInv, FilterType
  <2>3. CASE v[i] # filter[i].lastState
    <3>1. filter'[i] = [filter[i] EXCEPT !.debounceCount = 0, !.lastState = v[i]]
      BY <2>1, <2>3 DEF Debounce
    <3>2. filter'[i].lastState = v[i]
      BY <2>2, <3>1, Zenon DEF FilterState
    <3> QED
      BY <2>3, <3>2
  <2>4. CASE v[i] = filter[i].lastState
    BY <2>1, <2>4 DEF Agreeing
  <2> QED
    BY <2>3, <2>4
<1>3. ASSUME NEW M, i \notin M, NEW v, Sample(M, v)
      PROVE  agree'[i] = agree[i]
  BY <1>3 DEF Sample
<1>4. CASE BasePass
  <2>1. PICK v \in [BaseInput -> BOOLEAN] : Sample(BaseInput, v)
    BY <1>4 DEF BasePass
  <2>2. CASE i \in BaseInput
    BY <1>1, <1>2, <2>1, <2>2 DEF Readings
  <2>3. CASE i \notin BaseInput
    <3>1. agree'[i] = agree[i]
      BY <1>3, <2>1, <2>3
    <3>2. ~ServoRead
      BY <1>4 DEF BasePass, ServoRead
    <3> QED
      BY <1>1, <2>3, <3>1, <3>2
  <2> QED
    BY <2>2, <2>3
<1>5. CASE ServoRead
  <2>1. PICK v \in [{ServoOrder[servoAt]} -> BOOLEAN] : Sample({ServoOrder[servoAt]}, v)
    BY <1>5 DEF ServoRead
  <2>2. CASE i = ServoOrder[servoAt]
    BY <1>1, <1>2, <2>1, <2>2 DEF Readings
  <2>3. CASE i # ServoOrder[servoAt]
    <3>1. agree'[i] = agree[i]
      BY <1>3, <2>1, <2>3
    <3>2. ~BasePass
      BY <1>5 DEF BasePass, ServoRead
    <3> QED
      BY <1>1, <2>3, <3>1, <3>2
  <2> QED
    BY <2>2, <2>3
<1>6. CASE ServoWrite \/ UNCHANGED vars
  <2>1. agree' = agree
    BY <1>6 DEF ServoWrite, vars
  <2>2. ~ServoRead /\ ~BasePass
    BY <1>6 DEF ServoWrite, ServoRead, BasePass, vars, IInv, ThreadType
  <2> QED
    BY <1>1, <2>1, <2>2
<1> QED
  BY <1>4, <1>5, <1>6 DEF Next

LEMMA Agreement ==
  ASSUME NEW i \in Input, NEW b \in BOOLEAN
  PROVE  Spec /\ []<><<Samples(i)>>_vars /\ <>[]Held(i, b) => <>[]Settled(i, b)
<1>1. IInv => Agreed(i, 1)
  BY DEF IInv, FilterType, Agreed
<1>2. ASSUME NEW n \in 1..Readings
      PROVE  IInv /\ [Next]_vars /\ Held(i, b) /\ Held(i, b)' /\ Agreed(i, n) => Agreed(i, n)'
  BY AgreeGrows DEF Agreed
<1>3. ASSUME NEW n \in 1..(Readings - 1)
      PROVE  IInv /\ [Next]_vars /\ Held(i, b) /\ Held(i, b)' /\ Agreed(i, n) /\ Samples(i)
               => Agreed(i, n + 1)'
  <2> SUFFICES ASSUME IInv, [Next]_vars, Held(i, b), Held(i, b)', Agreed(i, n), Samples(i)
               PROVE  agree'[i] >= n + 1
    BY DEF Agreed
  <2>2. agree[i] \in 1..Readings /\ agree'[i] \in 1..Readings
    BY AgreeGrows
  <2>3. agree'[i] >= Readings \/ agree'[i] >= agree[i] + 1
    BY AgreeGrows
  <2> QED
    BY <2>2, <2>3 DEF Agreed, Readings
<1>4. /\ IInv /\ [Next]_vars /\ Held(i, b) /\ Held(i, b)' /\ Agreed(i, 2) => Agreed(i, 2)'
      /\ IInv /\ [Next]_vars /\ Held(i, b) /\ Held(i, b)' /\ Agreed(i, 3) => Agreed(i, 3)'
      /\ IInv /\ [Next]_vars /\ Held(i, b) /\ Held(i, b)' /\ Agreed(i, 4) => Agreed(i, 4)'
      /\ IInv /\ [Next]_vars /\ Held(i, b) /\ Held(i, b)' /\ Agreed(i, 5) => Agreed(i, 5)'
  BY <1>2 DEF Readings
<1>5. /\ IInv /\ [Next]_vars /\ Held(i, b) /\ Held(i, b)' /\ Agreed(i, 1) /\ Samples(i) => Agreed(i, 2)'
      /\ IInv /\ [Next]_vars /\ Held(i, b) /\ Held(i, b)' /\ Agreed(i, 2) /\ Samples(i) => Agreed(i, 3)'
      /\ IInv /\ [Next]_vars /\ Held(i, b) /\ Held(i, b)' /\ Agreed(i, 3) /\ Samples(i) => Agreed(i, 4)'
      /\ IInv /\ [Next]_vars /\ Held(i, b) /\ Held(i, b)' /\ Agreed(i, 4) /\ Samples(i) => Agreed(i, 5)'
  <2>1. 1 + 1 = 2 /\ 2 + 1 = 3 /\ 3 + 1 = 4 /\ 4 + 1 = 5
    OBVIOUS
  <2> QED
    BY <1>3, <2>1 DEF Readings
<1>6. Held(i, b) /\ Agreed(i, 5) => Settled(i, b)
  BY DEF Settled, Readings
<1> QED
  BY <1>1, <1>4, <1>5, <1>6, Invariant, PTL DEF Spec

(* Once a level is settled, the state of the input is that level.          *)
LEMMA SettledState ==
  ASSUME NEW i \in Input, NEW b \in BOOLEAN
  PROVE  IInv /\ Settled(i, b) => filter[i].state = b
BY DEF IInv, FilterInv, Settled, Held, Agreed

(* The base thread's inputs: a servo interrupt does not start before the   *)
(* base thread has shown the level, and what it then reads is right.       *)
LEMMA BaseLevels ==
  ASSUME NEW i \in BaseInput, NEW b \in BOOLEAN
  PROVE  Spec /\ BothRun /\ <>[]Settled(i, b) => <>[]Shown(i, b)
<1> USE Orders
<1> DEFINE Fresh == Between /\ ~baseRan
<1>0. ASSUME IInv, [Next]_vars, Settled(i, b)', BasePass
      PROVE  Shown(i, b)'
  <2>1. (i \in inputs') = filter'[i].state
    BY <1>0, Step DEF BasePass, Merge, IInv, FilterType, FilterState
  <2>2. filter'[i].state = b
    BY <1>0, Step DEF IInv, FilterInv, Settled, Held, Agreed
  <2> QED
    BY <2>1, <2>2 DEF Shown
<1>1. ASSUME IInv, [Next]_vars, Settled(i, b)', Right(i, b)
      PROVE  Right(i, b)'
  <2>1. CASE BasePass
    BY <1>0, <1>1, <2>1 DEF BasePass, Right
  <2>2. CASE ServoRead
    BY <1>1, <2>2 DEF ServoRead, Right, Shown
  <2>3. CASE ServoWrite
    <3>1. i # ServoOrder[servoAt]
      BY <1>1 DEF IInv, ThreadType
    <3> QED
      BY <1>1, <2>3, <3>1 DEF ServoWrite, Merge, Right, Shown
  <2>4. CASE UNCHANGED vars
    BY <1>1, <2>4 DEF vars, Right, Shown
  <2> QED
    BY <1>1, <2>1, <2>2, <2>3, <2>4 DEF Next
<1>2. ASSUME IInv, [Next]_vars, Settled(i, b)', Between, BasePass
      PROVE  Right(i, b)'
  BY <1>0, <1>2 DEF BasePass, Between, Right
<1>3. ASSUME Fresh, [Next]_vars
      PROVE  Fresh' \/ BasePass
  BY <1>3 DEF Next, ServoRead, ServoWrite, Between, vars
<1>4. ASSUME IInv, [Next]_vars, ~Between
      PROVE  ~Between' \/ Fresh'
  <2>1. CASE BasePass \/ ServoRead \/ UNCHANGED vars
    <3>1. servoAt' = servoAt /\ (writing => writing')
      BY <2>1 DEF BasePass, ServoRead, vars
    <3> QED
      BY <1>4, <3>1 DEF Between
  <2>2. CASE ServoWrite
    <3>1. servoAt' = 1 => servoAt = Len(ServoOrder)
      BY <1>4, <2>2 DEF ServoWrite, IInv, ThreadType
    <3>2. baseRan' = (baseRan /\ servoAt # Len(ServoOrder)) /\ writing' = FALSE
      BY <2>2 DEF ServoWrite
    <3> QED
      BY <3>1, <3>2 DEF Between
  <2> QED
    BY <1>4, <2>1, <2>2 DEF Next
<1>5. Right(i, b) => Shown(i, b)
  BY DEF Right
<1>6. Fresh => Between
  OBVIOUS
<1> HIDE DEF Fresh
<1>7. BothRun => []<><<BasePass>>_vars /\ []<>Between
  BY PTL DEF BothRun
<1> QED
  BY <1>1, <1>2, <1>3, <1>4, <1>5, <1>6, <1>7, Invariant, PTL DEF Spec

(* The servo thread's inputs: the bit follows the state but for the time   *)
(* of its own update, and a module is not in its own update when it starts *)
(* another.                                                                *)
LEMMA ServoLevels ==
  ASSUME NEW i \in ServoInput, NEW b \in BOOLEAN
  PROVE  Spec /\ BothRun /\ <>[]Settled(i, b) => <>[]Shown(i, b)
<1> USE Orders
<1> DEFINE Run == ServoRead /\ ServoOrder[servoAt] = i
<1>1. ASSUME IInv, [Next]_vars, Settled(i, b), Settled(i, b)', Shown(i, b)
      PROVE  Shown(i, b)'
  <2>0. filter[i].state = b
    BY <1>1, SettledState
  <2>1. CASE BasePass
    BY <1>1, <2>1 DEF BasePass, Merge, Shown
  <2>2. CASE ServoRead \/ UNCHANGED vars
    BY <1>1, <2>2 DEF ServoRead, vars, Shown
  <2>3. CASE ServoWrite
    <3>1. (i \in inputs') = filter[i].state
      <4>1. filter[i].state \in BOOLEAN
        BY <1>1 DEF IInv, FilterType, FilterState
      <4>2. CASE i = ServoOrder[servoAt]
        BY <2>3, <4>1, <4>2 DEF ServoWrite, Merge
      <4>3. CASE i # ServoOrder[servoAt]
        BY <1>1, <2>3, <4>3 DEF ServoWrite, Merge, IInv, WordInv
      <4> QED
        BY <4>2, <4>3
    <3> QED
      BY <2>0, <3>1 DEF Shown
  <2> QED
    BY <1>1, <2>1, <2>2, <2>3 DEF Next
<1>2. ASSUME IInv, [Next]_vars, Settled(i, b), Settled(i, b)', Run
      PROVE  Shown(i, b)'
  <2>1. ~writing /\ inputs' = inputs
    BY <1>2 DEF ServoRead
  <2>2. filter[i].state = b
    BY <1>2, SettledState
  <2> QED
    BY <1>2, <2>1, <2>2 DEF IInv, ServoBitsKept, Shown
<1> HIDE DEF Run
<1>3. BothRun => []<><<Run>>_vars
  BY DEF BothRun, Run
<1> QED
  BY <1>1, <1>2, <1>3, Invariant, PTL DEF Spec

(* Given that both threads keep running, a level that an input holds is    *)
(* shown to the host in the end and stays shown, for every number of       *)
(* inputs of either thread and every order of the servo thread.            *)
THEOREM HeldLevels == Spec /\ BothRun => HeldLevelIsShown
<1>1. ASSUME NEW i \in Input, NEW b \in BOOLEAN
      PROVE  Spec /\ BothRun => (<>[]Held(i, b) => <>[]Shown(i, b))
  <2>1. BothRun => []<><<Samples(i)>>_vars
    <3>1. CASE i \in BaseInput
      <4>1. Samples(i) <=> BasePass
        BY <3>1 DEF Samples
      <4> QED
        BY <4>1, PTL DEF BothRun
    <3>2. CASE i \in ServoInput
      <4>1. (ServoRead /\ ServoOrder[servoAt] = i) <=> Samples(i)
        BY <3>2, Orders DEF Samples
      <4>2. BothRun => []<><<ServoRead /\ ServoOrder[servoAt] = i>>_vars
        BY <3>2 DEF BothRun
      <4> QED
        BY <4>1, <4>2, PTL
    <3> QED
      BY <3>1, <3>2 DEF Input
  <2>2. Spec /\ []<><<Samples(i)>>_vars /\ <>[]Held(i, b) => <>[]Settled(i, b)
    BY Agreement
  <2>3. Spec /\ BothRun /\ <>[]Settled(i, b) => <>[]Shown(i, b)
    BY BaseLevels, ServoLevels DEF Input
  <2> QED
    BY <2>1, <2>2, <2>3, PTL
<1> QED
  BY <1>1 DEF HeldLevelIsShown, Held, Shown
=============================================================================
