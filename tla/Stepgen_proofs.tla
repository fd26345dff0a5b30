--------------------------- MODULE Stepgen_proofs ---------------------------
(***************************************************************************)
(* The step generator follows its commands and its count is the drive's    *)
(* position, for every base frequency, step bit, accumulator width, float  *)
(* precision and set of commands.                                          *)
(***************************************************************************)
EXTENDS Stepgen, TLAPS

-----------------------------------------------------------------------------
(* Arithmetic.                                                             *)

(* Quotient and remainder are unique. *)
LEMMA DivModUnique ==
  ASSUME NEW h \in Nat \ {0}, NEW q \in Int, NEW r \in 0..(h - 1)
  PROVE  (h * q + r) \div h = q /\ (h * q + r) % h = r
OBVIOUS

LEMMA ModRange ==
  ASSUME NEW h \in Nat \ {0}, NEW a \in Int
  PROVE  a % h \in 0..(h - 1)
OBVIOUS

LEMMA DivModDef ==
  ASSUME NEW h \in Nat \ {0}, NEW a \in Int
  PROVE  a = h * (a \div h) + (a % h) /\ a \div h \in Int
OBVIOUS

(* A quotient by the inner factor is one by the product. *)
LEMMA Regroup ==
  ASSUME NEW w \in Int, NEW n \in Int, NEW m \in Int, NEW e \in Int
  PROVE  w * (n * m + e) = (w * n) * m + w * e
OBVIOUS

(* The parity of a counter modulo an even number changes with every step.  *)
LEMMA ParityFlips ==
  ASSUME NEW k \in Nat \ {0}, NEW q \in 0..(2 * k - 1)
  PROVE  /\ ((q + 1) % (2 * k)) % 2 # q % 2
         /\ ((q - 1) % (2 * k)) % 2 # q % 2
         /\ q % (2 * k) = q
         /\ (q + 1) % (2 * k) \in 0..(2 * k - 1)
         /\ (q - 1) % (2 * k) \in 0..(2 * k - 1)
<1>1. (q + 1) % (2 * k) = IF q + 1 = 2 * k THEN 0 ELSE q + 1
  OBVIOUS
<1>2. (q - 1) % (2 * k) = IF q = 0 THEN 2 * k - 1 ELSE q - 1
  OBVIOUS
<1> QED
  BY <1>1, <1>2

LEMMA AccSizeType == AccSize \in Nat \ {0} /\ AccSize = StepWeight * (2 * Turns)
BY StepgenAssumption DEF AccSize

(* ThreadFreq, StepWeight and Precision are used as numbers below. *)
LEMMA Numbers ==
  /\ ThreadFreq \in Nat \ {0} /\ StepWeight \in Nat \ {0} /\ Unit \in Nat \ {0}
  /\ Precision \in Nat /\ Precision > StepWeight
BY StepgenAssumption, FloatAssumption

(* A product of numbers is a number, and keeps an order.                   *)
LEMMA Times ==
  ASSUME NEW a \in Int, NEW b \in Int, NEW c \in Nat, a <= b
  PROVE  a * c \in Int /\ b * c \in Int /\ a * c <= b * c
OBVIOUS

LEMMA TimesLess ==
  ASSUME NEW a \in Int, NEW b \in Int, NEW c \in Nat \ {0}, a * c < b * c
  PROVE  a < b
OBVIOUS

(* What the integer cut leaves of the product: less than a unit.           *)
LEMMA Cut ==
  ASSUME NEW f \in Freqs
  PROVE  /\ AddValue(f) \in Int
         /\ Product[f] >= 0 => /\ AddValue(f) >= 0
                               /\ Unit * AddValue(f) <= Product[f]
                               /\ Product[f] < Unit * AddValue(f) + Unit
         /\ Product[f] < 0 => /\ AddValue(f) <= 0
                              /\ Unit * AddValue(f) >= Product[f]
                              /\ Product[f] > Unit * AddValue(f) - Unit
<1>0. Product[f] \in Int /\ Unit \in Nat \ {0}
  BY FloatAssumption
<1>1. ASSUME NEW x \in Nat
      PROVE  x \div Unit \in Nat /\ Unit * (x \div Unit) <= x
             /\ x < Unit * (x \div Unit) + Unit
  BY <1>0
<1>2. CASE Product[f] >= 0
  BY <1>0, <1>1, <1>2 DEF AddValue
<1>3. CASE Product[f] < 0
  <2>1. PICK x \in Nat : x = -Product[f]
    BY <1>0, <1>3
  <2>2. PICK q \in Nat : q = x \div Unit /\ Unit * q <= x /\ x < Unit * q + Unit
    BY <1>1
  <2>3. AddValue(f) = -q
    BY <1>0, <1>3, <2>1, <2>2 DEF AddValue
  <2>4. Unit * (-q) = -(Unit * q) /\ Unit * q \in Int
    BY <1>0
  <2> QED
    BY <1>0, <1>3, <2>1, <2>2, <2>3, <2>4
<1> QED
  BY <1>0, <1>2, <1>3

(* The float product is off by less than a unit and a tick's worth.        *)
LEMMA FloatError ==
  ASSUME NEW f \in Freqs, Size(f) <= ThreadFreq
  PROVE  /\ Product[f] * ThreadFreq - f * StepWeight * Unit < Unit * ThreadFreq
         /\ f * StepWeight * Unit - Product[f] * ThreadFreq < Unit * ThreadFreq
<1>0. f \in Int /\ Product[f] \in Int /\ Size(f) \in Nat
  BY StepgenAssumption, FloatAssumption DEF Size
<1>1. PICK d \in Int : d = Product[f] * ThreadFreq - f * StepWeight * Unit
  BY <1>0, Numbers
<1>2. PICK h \in Nat : h = StepWeight * Unit
  BY Numbers
<1>3. PICK e \in Nat : e = Unit * ThreadFreq /\ e > 0
  BY Numbers
<1>4. Size(d) \in Nat /\ d <= Size(d) /\ -d <= Size(d)
  BY DEF Size
<1>5. Size(d) * Precision <= Size(f) * h
  <2>1. Size(d) * Precision <= Size(f) * StepWeight * Unit
    BY <1>1, FloatAssumption
  <2>2. Size(f) * StepWeight * Unit = Size(f) * h
    BY <1>0, <1>2, Numbers
  <2> QED
    BY <2>1, <2>2
<1>6. Size(f) * h <= e * StepWeight
  <2>1. Size(f) * h <= ThreadFreq * h
    BY <1>0, <1>2, Numbers
  <2>2. ThreadFreq * h = e * StepWeight
    BY <1>2, <1>3, Numbers
  <2>3. Size(f) * h \in Int /\ ThreadFreq * h \in Int
    BY <1>0, <1>2, Numbers
  <2> QED
    BY <2>1, <2>2, <2>3
<1>7. e * StepWeight < e * Precision
  BY <1>3, Numbers
<1>8. Size(d) * Precision < e * Precision
  <2>1. /\ Size(d) * Precision \in Int /\ Size(f) * h \in Int
        /\ e * StepWeight \in Int /\ e * Precision \in Int
    BY <1>0, <1>2, <1>3, <1>4, Numbers
  <2> QED
    BY <1>5, <1>6, <1>7, <2>1
<1>9. Size(d) < e
  BY <1>3, <1>4, <1>8, TimesLess, Numbers
<1>10. f * StepWeight * Unit - Product[f] * ThreadFreq = -d
  <2>1. f * StepWeight * Unit \in Int /\ Product[f] * ThreadFreq \in Int
    BY <1>0, Numbers
  <2> QED
    BY <1>1, <2>1
<1> QED
  BY <1>1, <1>3, <1>4, <1>9, <1>10

(* One tick's increment is what the command comes to, off by less than two *)
(* units: one for the cut, one for the float.                              *)
LEMMA TickDrift ==
  ASSUME NEW f \in Freqs, Size(f) <= ThreadFreq
  PROVE  /\ AddValue(f) * ThreadFreq - f * StepWeight < 2 * ThreadFreq
         /\ f * StepWeight - AddValue(f) * ThreadFreq < 2 * ThreadFreq
<1>0. f \in Int /\ Product[f] \in Int /\ AddValue(f) \in Int
  BY StepgenAssumption, FloatAssumption, Cut
<1>1. PICK k \in Int : k = AddValue(f) * ThreadFreq - f * StepWeight
  BY <1>0, Numbers
<1>2. PICK rem \in Int : rem = Product[f] - Unit * AddValue(f) /\ rem < Unit /\ -rem < Unit
  BY <1>0, Cut, Numbers
<1>3. PICK y \in Int : y = rem * ThreadFreq
  BY Numbers
<1>4. PICK e \in Int : e = Unit * ThreadFreq
  BY Numbers
<1>5. y <= e /\ -y <= e
  <2>1. rem * ThreadFreq <= Unit * ThreadFreq
    BY <1>2, Times, Numbers
  <2>2. (-rem) * ThreadFreq <= Unit * ThreadFreq
    BY <1>2, Times, Numbers
  <2>3. (-rem) * ThreadFreq = -(rem * ThreadFreq)
    BY Numbers
  <2> QED
    BY <1>3, <1>4, <2>1, <2>2, <2>3
<1>6. Product[f] * ThreadFreq - f * StepWeight * Unit = k * Unit + y
  <2>1. Product[f] = Unit * AddValue(f) + rem
    BY <1>0, <1>2, Numbers
  <2>2. (Unit * AddValue(f) + rem) * ThreadFreq = Unit * (AddValue(f) * ThreadFreq) + y
    BY <1>0, <1>3, Numbers
  <2>3. k * Unit = Unit * (AddValue(f) * ThreadFreq) - f * StepWeight * Unit
    BY <1>0, <1>1, Numbers
  <2>4. f * StepWeight * Unit \in Int /\ Unit * (AddValue(f) * ThreadFreq) \in Int /\ k * Unit \in Int
    BY <1>0, Numbers
  <2> QED
    BY <2>1, <2>2, <2>3, <2>4
<1>7. k * Unit + y < e /\ -(k * Unit + y) < e
  <2>1. f * StepWeight * Unit \in Int /\ Product[f] * ThreadFreq \in Int /\ k * Unit \in Int
    BY <1>0, Numbers
  <2> QED
    BY <1>4, <1>6, <2>1, FloatError
<1>8. k * Unit < (2 * ThreadFreq) * Unit /\ (-k) * Unit < (2 * ThreadFreq) * Unit
  <2>1. (2 * ThreadFreq) * Unit = 2 * e /\ (-k) * Unit = -(k * Unit) /\ k * Unit \in Int
    BY <1>4, Numbers
  <2> QED
    BY <1>5, <1>7, <2>1
<1>9. k < 2 * ThreadFreq /\ -k < 2 * ThreadFreq
  <2>1. 2 * ThreadFreq \in Int /\ -k \in Int
    BY Numbers
  <2> QED
    BY <1>8, <2>1, TimesLess, Numbers
<1>10. f * StepWeight - AddValue(f) * ThreadFreq = -k
  <2>1. f * StepWeight \in Int /\ AddValue(f) * ThreadFreq \in Int
    BY <1>0, Numbers
  <2> QED
    BY <1>1, <2>1
<1> QED
  BY <1>1, <1>9, <1>10

(* A command of at most the thread frequency asks for at most one step per *)
(* tick: neither the float scale nor the cut brings it above.              *)
THEOREM AddValueBound ==
  ASSUME NEW f \in Freqs, Size(f) <= ThreadFreq
  PROVE  AddValue(f) \in -StepWeight..StepWeight
<1>0. /\ f \in Int /\ Product[f] \in Int /\ AddValue(f) \in Int
      /\ f <= ThreadFreq /\ -f <= ThreadFreq
  BY StepgenAssumption, FloatAssumption, Cut DEF Size
<1>1. PICK h \in Nat : h = StepWeight * Unit
  BY Numbers
<1>2. /\ Product[f] * ThreadFreq - f * h < Unit * ThreadFreq
      /\ f * h - Product[f] * ThreadFreq < Unit * ThreadFreq
  <2>1. f * StepWeight * Unit = f * h
    BY <1>0, <1>1, Numbers
  <2> QED
    BY <2>1, FloatError
<1>3. PICK m \in Nat : m = ThreadFreq * h
  BY <1>1, Numbers
<1>4. f * h <= m /\ -(f * h) <= m
  <2>1. f * h <= ThreadFreq * h /\ (-f) * h <= ThreadFreq * h /\ (-f) * h = -(f * h)
    BY <1>0, Times, Numbers
  <2> QED
    BY <1>3, <2>1
<1>5. ASSUME NEW x \in Int, x >= Unit * (StepWeight + 1)
      PROVE  x * ThreadFreq >= m + Unit * ThreadFreq
  <2>1. (Unit * (StepWeight + 1)) * ThreadFreq <= x * ThreadFreq
    BY <1>5, Times, Numbers
  <2>2. (Unit * (StepWeight + 1)) * ThreadFreq = ThreadFreq * (StepWeight * Unit) + Unit * ThreadFreq
    BY Numbers
  <2>3. x * ThreadFreq \in Int /\ Unit * ThreadFreq \in Int
    BY Numbers
  <2> QED
    BY <1>1, <1>3, <2>1, <2>2, <2>3
<1>6. ASSUME NEW x \in Int, NEW a \in Int, a > StepWeight, Unit * a <= x
      PROVE  x >= Unit * (StepWeight + 1)
  <2>1. (StepWeight + 1) * Unit <= a * Unit
    BY <1>6, Times, Numbers
  <2> QED
    BY <1>6, <2>1, Numbers
<1>7. ~(AddValue(f) > StepWeight)
  <2> SUFFICES ASSUME AddValue(f) > StepWeight PROVE FALSE
    OBVIOUS
  <2>1. Product[f] >= 0 /\ Unit * AddValue(f) <= Product[f]
    BY <1>0, Cut, Numbers
  <2>2. Product[f] * ThreadFreq >= m + Unit * ThreadFreq
    BY <1>0, <1>5, <1>6, <2>1
  <2> QED
    BY <1>0, <1>1, <1>2, <1>4, <2>2, Numbers
<1>8. ~(AddValue(f) < -StepWeight)
  <2> SUFFICES ASSUME AddValue(f) < -StepWeight PROVE FALSE
    OBVIOUS
  <2>1. Product[f] < 0 /\ Unit * AddValue(f) >= Product[f]
    BY <1>0, Cut, Numbers
  <2>2. PICK x \in Int, a \in Int : x = -Product[f] /\ a = -AddValue(f)
    BY <1>0
  <2>3. Unit * a <= x
    BY <1>0, <2>1, <2>2, Numbers
  <2>4. x * ThreadFreq >= m + Unit * ThreadFreq
    BY <1>5, <1>6, <2>2, <2>3, <1>0, Numbers
  <2>5. x * ThreadFreq = -(Product[f] * ThreadFreq) /\ Product[f] * ThreadFreq \in Int
    BY <1>0, <2>2, Numbers
  <2> QED
    BY <1>0, <1>1, <1>2, <1>4, <2>4, <2>5, Numbers
<1> QED
  BY <1>0, <1>7, <1>8, Numbers

(* Rounding keeps the sign of the command: nothing commanded adds nothing, *)
(* and no command adds the other way.                                      *)
LEMMA AddValueSign ==
  ASSUME NEW f \in Freqs
  PROVE  /\ AddValue(f) > 0 => f > 0
         /\ AddValue(f) < 0 => f < 0
<1>0. f \in Int /\ Product[f] \in Int /\ AddValue(f) \in Int
  BY StepgenAssumption, FloatAssumption, Cut
<1>1. PICK h \in Nat : h = StepWeight * Unit
  BY Numbers
<1>2. f * StepWeight * Unit = f * h /\ Size(f) * StepWeight * Unit = Size(f) * h
  BY <1>0, <1>1, Numbers DEF Size
<1>3. PICK y \in Int : y = Product[f] * ThreadFreq
  BY <1>0, Numbers
<1>4. Size(y - f * h) * Precision <= Size(f) * h
  BY <1>2, <1>3, FloatAssumption
<1>5. ASSUME NEW s \in Nat PROVE s <= s * Precision /\ s * Precision \in Nat
  BY Numbers
<1>6. Size(y - f * h) <= Size(f) * h
  <2>1. Size(y - f * h) \in Nat /\ Size(f) * h \in Nat
    BY <1>0, <1>1 DEF Size
  <2> QED
    BY <1>4, <1>5, <2>1
<1>7. ASSUME AddValue(f) > 0 PROVE f > 0
  <2>1. Product[f] > 0
    <3>1. Product[f] >= 0 /\ Unit * AddValue(f) <= Product[f]
      BY <1>0, <1>7, Cut
    <3>2. Unit * AddValue(f) > 0
      BY <1>0, <1>7, Numbers
    <3> QED
      BY <1>0, <3>1, <3>2, Numbers
  <2>2. y > 0
    BY <1>0, <1>3, <2>1, Numbers
  <2>3. ASSUME f <= 0 PROVE FALSE
    <3>1. PICK g \in Nat : g = -f /\ Size(f) = g
      BY <1>0, <2>3 DEF Size
    <3>2. f * h = -(g * h) /\ g * h \in Nat
      BY <1>0, <1>1, <3>1
    <3>3. Size(y - f * h) = y + g * h
      BY <2>2, <3>2 DEF Size
    <3> QED
      BY <1>6, <2>2, <3>1, <3>2, <3>3
  <2> QED
    BY <1>0, <2>3
<1>8. ASSUME AddValue(f) < 0 PROVE f < 0
  <2>1. Product[f] < 0
    BY <1>0, <1>8, Cut
  <2>2. y < 0
    BY <1>0, <1>3, <2>1, Numbers
  <2>3. ASSUME f >= 0 PROVE FALSE
    <3>1. f * h \in Nat /\ Size(f) = f
      BY <1>0, <1>1, <2>3 DEF Size
    <3>2. Size(y - f * h) = f * h - y
      BY <2>2, <3>1 DEF Size
    <3> QED
      BY <1>6, <2>2, <3>1, <3>2
  <2> QED
    BY <1>0, <2>3
<1> QED
  BY <1>7, <1>8

-----------------------------------------------------------------------------
LEMMA TypeCorrect == Spec => []TypeOK
<1> USE StepgenAssumption DEF TypeOK
<1>0. AccSize \in Nat \ {0}
  BY AccSizeType
<1>1. Init => TypeOK
  <2>1. 0 \in 0..(AccSize - 1) /\ 0 \in 0..(CountSize - 1)
    BY <1>0
  <2>2. Init => /\ enablePin \in BOOLEAN /\ stepPin \in BOOLEAN /\ directionPin \in BOOLEAN
                /\ posting \in BOOLEAN /\ jointEnable \in BOOLEAN
    BY DEF Init
  <2>3. Init => jointFreqCmd = 0 /\ DDSaccumulator = 0 /\ rawCount = 0
                /\ jointStepCount = 0 /\ motor = 0 /\ owed = 0 /\ ticks = 0 /\ fast = 0
    BY DEF Init
  <2> QED
    BY <2>1, <2>2, <2>3
<1>2. TypeOK /\ [Next]_vars => TypeOK'
  <2> SUFFICES ASSUME TypeOK, [Next]_vars PROVE TypeOK'
    OBVIOUS
  <2> USE DEF command, counter, pins, measure, history
  <2>1. CASE WriteFreq \/ WriteEnable
    BY <2>1 DEF WriteFreq, WriteEnable
  <2>2. CASE StopPulses
    BY <2>2 DEF StopPulses
  <2>3. CASE MakePulses
    <3>1. motor' \in 0..(CountSize - 1)
      BY <2>3 DEF MakePulses, Drive
    <3>2. CASE Disabled
      BY <2>3, <3>1, <3>2 DEF MakePulses, Disabled
    <3>3. CASE Enabled
      <4>1. AddValue(jointFreqCmd) \in Int
        BY Cut
      <4>2. DDSaccumulator' \in 0..(AccSize - 1)
        <5>1. DDSaccumulator + AddValue(jointFreqCmd) \in Int
          BY <1>0, <4>1
        <5>2. (DDSaccumulator + AddValue(jointFreqCmd)) % AccSize \in 0..(AccSize - 1)
          BY <1>0, <5>1, ModRange
        <5> QED
          BY <3>3, <5>2 DEF Enabled, Accumulate
      <4>3. /\ rawCount' \in 0..(CountSize - 1) /\ jointStepCount' \in 0..(CountSize - 1)
            /\ directionPin' \in BOOLEAN /\ stepPin' \in BOOLEAN
        <5>1. /\ (rawCount + 1) % CountSize \in 0..(CountSize - 1)
              /\ (rawCount - 1) % CountSize \in 0..(CountSize - 1)
          BY ModRange
        <5>2. (rawCount + -1) = rawCount - 1
          OBVIOUS
        <5>3. CASE StepBit(DDSaccumulator') # StepBit(DDSaccumulator)
          BY <3>3, <5>1, <5>2, <5>3 DEF Enabled
        <5>4. CASE StepBit(DDSaccumulator') = StepBit(DDSaccumulator)
          BY <3>3, <5>4 DEF Enabled
        <5> QED
          BY <5>3, <5>4
      <4>4. owed' \in Int /\ ticks' \in 0..Window /\ fast' \in Nat
        <5>1. ASSUME NEW step \in {-1, 0, 1}, Account(step)
              PROVE  owed' \in Int /\ ticks' \in 0..Window /\ fast' \in Nat
          <6>1. Excess(jointFreqCmd) \in Nat
            BY DEF Excess, Size
          <6>2. jointFreqCmd - step * ThreadFreq \in Int
            OBVIOUS
          <6> QED
            BY <5>1, <6>1, <6>2 DEF Account, Extend
        <5>2. \E step \in {-1, 0, 1} : Account(step)
          BY <3>3 DEF Enabled
        <5> QED
          BY <5>1, <5>2
      <4> QED
        BY <2>3, <3>1, <3>3, <4>2, <4>3, <4>4 DEF MakePulses, Enabled
    <3> QED
      BY <2>3, <3>2, <3>3 DEF MakePulses
  <2>4. CASE UNCHANGED vars
    BY <2>4 DEF vars
  <2> QED
    BY <2>1, <2>2, <2>3, <2>4 DEF Next, BaseInterrupt
<1> QED
  BY <1>1, <1>2, PTL DEF Spec

-----------------------------------------------------------------------------
(* Exactness.                                                              *)

(* One tick of at most one step: the step bit flips exactly when what is   *)
(* below it leaves [0, StepWeight), and what is left is there afterwards.  *)
LEMMA OneTick ==
  ASSUME NEW acc \in 0..(AccSize - 1), NEW add \in -StepWeight..StepWeight,
         NEW new, new = Accumulate(acc, add)
  PROVE  /\ StepBit(new) = StepBit(acc) =>
              new % StepWeight = (acc % StepWeight) + add
         /\ StepBit(new) # StepBit(acc) =>
              new % StepWeight = (acc % StepWeight) + add
                                   - (IF add > 0 THEN 1 ELSE -1) * StepWeight
<1> DEFINE q == acc \div StepWeight
           r == acc % StepWeight
           t == r + add
<1> USE StepgenAssumption
<1>1. acc = StepWeight * q + r /\ r \in 0..(StepWeight - 1) /\ q \in Int
  BY DivModDef, ModRange DEF TypeOK
<1>2. q \in 0..(2 * Turns - 1)
  <2>1. StepWeight * q + r < StepWeight * (2 * Turns) /\ StepWeight * q + r >= 0
    BY <1>1, AccSizeType
  <2> HIDE DEF q, r
  <2> QED
    BY <1>1, <2>1
<1> HIDE DEF q, r
<1>3. ASSUME NEW p \in Int, NEW s \in 0..(StepWeight - 1),
             acc + add = StepWeight * p + s
      PROVE  new = StepWeight * (p % (2 * Turns)) + s
  <2> DEFINE m == p \div (2 * Turns)
             e == p % (2 * Turns)
  <2>1. 2 * Turns \in Nat \ {0}
    OBVIOUS
  <2>2. p = (2 * Turns) * m + e /\ e \in 0..(2 * Turns - 1) /\ m \in Int
    BY <2>1, DivModDef, ModRange, Zenon
  <2> HIDE DEF m, e
  <2>3. StepWeight * p = AccSize * m + StepWeight * e
    BY <2>1, <2>2, Regroup, AccSizeType
  <2>4. acc + add = AccSize * m + (StepWeight * e + s)
    BY <1>3, <2>2, <2>3, AccSizeType
  <2>5. StepWeight * e + s \in 0..(AccSize - 1)
    BY <2>2, AccSizeType
  <2>6. (AccSize * m + (StepWeight * e + s)) % AccSize = StepWeight * e + s
    BY <2>2, <2>5, DivModUnique, AccSizeType
  <2> QED
    BY <2>4, <2>6 DEF Accumulate, e
<1>4. StepBit(acc) = q % 2
  BY DEF StepBit, q
<1>5. ASSUME NEW p \in 0..(2 * Turns - 1), NEW s \in 0..(StepWeight - 1),
             new = StepWeight * p + s
      PROVE  StepBit(new) = p % 2 /\ new % StepWeight = s
  BY <1>5, DivModUnique DEF StepBit
<1>6. CASE t \in 0..(StepWeight - 1)
  <2>1. acc + add = StepWeight * q + t
    BY <1>1
  <2>2. new = StepWeight * q + t
    <3>1. q % (2 * Turns) = q
      BY <1>2, ParityFlips
    <3> QED
      BY <1>1, <1>3, <1>6, <2>1, <3>1
  <2> QED
    BY <1>2, <1>4, <1>5, <1>6, <2>2 DEF r
<1>7. CASE t >= StepWeight
  <2> DEFINE p == q + 1
             s == t - StepWeight
             e == p % (2 * Turns)
  <2>1. /\ p \in Int /\ s \in 0..(StepWeight - 1) /\ add > 0
        /\ acc + add = StepWeight * p + s
    BY <1>1, <1>2, <1>7
  <2>2. e % 2 # q % 2 /\ e \in 0..(2 * Turns - 1)
    BY <1>2, ParityFlips
  <2> HIDE DEF p, s
  <2>3. new = StepWeight * e + s
    BY <1>3, <2>1
  <2> HIDE DEF e
  <2>4. StepBit(new) = e % 2 /\ new % StepWeight = s
    BY <1>5, <2>1, <2>2, <2>3
  <2> QED
    BY <1>4, <2>1, <2>2, <2>4 DEF r, s
<1>8. CASE t < 0
  <2> DEFINE p == q - 1
             s == t + StepWeight
             e == p % (2 * Turns)
  <2>1. /\ p \in Int /\ s \in 0..(StepWeight - 1) /\ ~(add > 0)
        /\ acc + add = StepWeight * p + s
    BY <1>1, <1>2, <1>8
  <2>2. e % 2 # q % 2 /\ e \in 0..(2 * Turns - 1)
    BY <1>2, ParityFlips
  <2> HIDE DEF p, s
  <2>3. new = StepWeight * e + s
    BY <1>3, <2>1
  <2> HIDE DEF e
  <2>4. StepBit(new) = e % 2 /\ new % StepWeight = s
    BY <1>5, <2>1, <2>2, <2>3
  <2> QED
    BY <1>4, <2>1, <2>2, <2>4 DEF r, s
<1> QED
  BY <1>1, <1>6, <1>7, <1>8

(* What a tick adds to the steps owed, apart from what it leaves below the *)
(* step bit.                                                               *)
LEMMA TickBound ==
  ASSUME NEW f \in Freqs, NEW acc \in 0..(AccSize - 1), NEW new \in 0..(AccSize - 1),
         NEW step \in {-1, 0, 1}, new = Accumulate(acc, AddValue(f)),
         step = IF StepBit(new) = StepBit(acc) THEN 0 ELSE IF AddValue(f) > 0 THEN 1 ELSE -1
  PROVE  Size((f - step * ThreadFreq) * StepWeight
                - ThreadFreq * ((new % StepWeight) - (acc % StepWeight)))
           <= 2 * ThreadFreq + Excess(f) * StepWeight
<1>0. f \in Int /\ AddValue(f) \in Int /\ AccSize \in Nat \ {0}
  BY StepgenAssumption, Cut, AccSizeType
<1>1. PICK r \in 0..(StepWeight - 1), s \in 0..(StepWeight - 1) :
         r = acc % StepWeight /\ s = new % StepWeight
  <2>1. acc \in Int /\ new \in Int
    BY <1>0
  <2>2. acc % StepWeight \in 0..(StepWeight - 1) /\ new % StepWeight \in 0..(StepWeight - 1)
    BY <2>1, ModRange, Numbers
  <2> QED
    BY <2>2
<1> SUFFICES Size((f - step * ThreadFreq) * StepWeight - ThreadFreq * (s - r))
               <= 2 * ThreadFreq + Excess(f) * StepWeight
  BY <1>1
<1>2. CASE Size(f) <= ThreadFreq
  <2>1. s - r = AddValue(f) - step * StepWeight
    BY <1>0, <1>1, <1>2, OneTick, AddValueBound, Numbers
  <2>2. (f - step * ThreadFreq) * StepWeight - ThreadFreq * (s - r)
          = f * StepWeight - AddValue(f) * ThreadFreq
    <3>1. (f - step * ThreadFreq) * StepWeight = f * StepWeight - step * (ThreadFreq * StepWeight)
      BY <1>0, Numbers
    <3>2. ThreadFreq * (AddValue(f) - step * StepWeight)
            = AddValue(f) * ThreadFreq - step * (ThreadFreq * StepWeight)
      <4>1. PICK q \in Int : q = step * StepWeight
        BY Numbers
      <4>2. ThreadFreq * (AddValue(f) - q) = AddValue(f) * ThreadFreq - ThreadFreq * q
        BY <1>0, Numbers
      <4>3. ThreadFreq * q = step * (ThreadFreq * StepWeight)
        BY <4>1, Numbers
      <4> QED
        BY <4>1, <4>2, <4>3
    <3>3. /\ f * StepWeight \in Int /\ AddValue(f) * ThreadFreq \in Int
          /\ step * (ThreadFreq * StepWeight) \in Int
      BY <1>0, Numbers
    <3> QED
      BY <2>1, <3>1, <3>2, <3>3
  <2>3. PICK k \in Int : k = f * StepWeight - AddValue(f) * ThreadFreq
    BY <1>0, Numbers
  <2>4. k <= 2 * ThreadFreq /\ -k <= 2 * ThreadFreq
    <3>1. f * StepWeight \in Int /\ AddValue(f) * ThreadFreq \in Int
      BY <1>0, Numbers
    <3> QED
      BY <1>2, <2>3, <3>1, TickDrift, Numbers
  <2>5. Excess(f) * StepWeight = 0
    BY <1>2, Numbers DEF Excess
  <2> QED
    BY <2>2, <2>3, <2>4, <2>5, Numbers DEF Size
<1>3. CASE ~(Size(f) <= ThreadFreq)
  <2>1. PICK g \in Nat : g = Size(f)
    BY <1>0 DEF Size
  <2>2. Excess(f) * StepWeight = g * StepWeight + 2 * (ThreadFreq * StepWeight)
    BY <1>3, <2>1, Numbers DEF Excess
  <2>3. PICK a \in Int : a = f * StepWeight /\ a <= g * StepWeight /\ -a <= g * StepWeight
    <3>1. f <= g /\ -f <= g
      BY <1>0, <2>1 DEF Size
    <3>2. f * StepWeight <= g * StepWeight /\ (-f) * StepWeight <= g * StepWeight
      BY <1>0, <3>1, Times, Numbers
    <3>3. (-f) * StepWeight = -(f * StepWeight) /\ f * StepWeight \in Int
      BY <1>0, Numbers
    <3> QED
      BY <3>2, <3>3
  <2>4. PICK m \in Nat : m = ThreadFreq * StepWeight
    BY Numbers
  <2>5. PICK b \in Int : b = ThreadFreq * (s - r) /\ b <= m /\ -b <= m
    <3>1. (s - r) * ThreadFreq <= StepWeight * ThreadFreq /\ (r - s) * ThreadFreq <= StepWeight * ThreadFreq
      BY <1>1, Times, Numbers
    <3>2. (r - s) * ThreadFreq = -((s - r) * ThreadFreq) /\ (s - r) * ThreadFreq = ThreadFreq * (s - r)
      BY <1>1, Numbers
    <3>3. StepWeight * ThreadFreq = m
      BY <2>4, Numbers
    <3>4. ThreadFreq * (s - r) \in Int
      BY <1>1, Numbers
    <3> QED
      BY <3>1, <3>2, <3>3, <3>4
  <2>6. (f - step * ThreadFreq) * StepWeight = a - step * m
    BY <1>0, <2>3, <2>4, Numbers
  <2>7. PICK p \in Int : p = step * m /\ p <= m /\ -p <= m
    BY <2>4
  <2>8. PICK e \in Nat : e = g * StepWeight
    BY Numbers
  <2>9. (f - step * ThreadFreq) * StepWeight - ThreadFreq * (s - r) = a - p - b
    BY <2>5, <2>6, <2>7
  <2>10. Size(a - p - b) <= e + 2 * m
    BY <2>3, <2>5, <2>7, <2>8 DEF Size
  <2>11. 2 * ThreadFreq + Excess(f) * StepWeight = 2 * ThreadFreq + (e + 2 * m)
    BY <2>2, <2>4, <2>8
  <2>12. Size(a - p - b) \in Int /\ 2 * ThreadFreq \in Nat
    BY Numbers DEF Size
  <2> HIDE DEF Size
  <2> QED
    BY <2>8, <2>9, <2>10, <2>11, <2>12
<1> QED
  BY <1>2, <1>3

(* What is owed is what the accumulator gained below its step bit since    *)
(* the window began, when base was there, but for the drift.               *)
Drift(o, n, a, rem, base) ==
  Size(o * StepWeight - ThreadFreq * (rem - base)) <= 2 * ThreadFreq * n + a * StepWeight

DriftInv ==
  \E base \in 0..(StepWeight - 1) : Drift(owed, ticks, fast, DDSaccumulator % StepWeight, base)

LEMMA ExtendDrift ==
  ASSUME NEW f \in Freqs, NEW step \in {-1, 0, 1},
         NEW r \in 0..(StepWeight - 1), NEW s \in 0..(StepWeight - 1),
         NEW base \in 0..(StepWeight - 1), NEW o \in Int, NEW n \in Nat, NEW a \in Nat,
         Drift(o, n, a, r, base),
         Size((f - step * ThreadFreq) * StepWeight - ThreadFreq * (s - r))
           <= 2 * ThreadFreq + Excess(f) * StepWeight
  PROVE  Drift(o + f - step * ThreadFreq, n + 1, a + Excess(f), s, base)
<1>0. f \in Int /\ Excess(f) \in Nat
  BY StepgenAssumption DEF Excess, Size
<1>1. PICK d \in Int : d = o * StepWeight - ThreadFreq * (r - base)
  BY Numbers
<1>2. PICK k \in Int : k = (f - step * ThreadFreq) * StepWeight - ThreadFreq * (s - r)
  BY <1>0, Numbers
<1>3. (o + f - step * ThreadFreq) * StepWeight - ThreadFreq * (s - base) = d + k
  <2>1. PICK c \in Int : c = f - step * ThreadFreq
    BY <1>0, Numbers
  <2>2. o + f - step * ThreadFreq = o + c
    BY <1>0, <2>1, Numbers
  <2>3. (o + c) * StepWeight = o * StepWeight + c * StepWeight
    BY Numbers
  <2>4. ThreadFreq * (s - base) = ThreadFreq * (s - r) + ThreadFreq * (r - base)
    BY Numbers
  <2>5. /\ o * StepWeight \in Int /\ c * StepWeight \in Int
        /\ ThreadFreq * (s - r) \in Int /\ ThreadFreq * (r - base) \in Int
    BY Numbers
  <2> QED
    BY <1>1, <1>2, <2>1, <2>2, <2>3, <2>4, <2>5
<1>4. PICK u \in Int, v \in Int : /\ u = 2 * ThreadFreq * n + a * StepWeight
                                  /\ v = 2 * ThreadFreq + Excess(f) * StepWeight
  BY <1>0, Numbers
<1>5. 2 * ThreadFreq * (n + 1) + (a + Excess(f)) * StepWeight = u + v
  <2>1. 2 * ThreadFreq * (n + 1) = 2 * ThreadFreq * n + 2 * ThreadFreq
    BY Numbers
  <2>2. (a + Excess(f)) * StepWeight = a * StepWeight + Excess(f) * StepWeight
    BY <1>0, Numbers
  <2>3. /\ 2 * ThreadFreq * n \in Int /\ 2 * ThreadFreq \in Int
        /\ a * StepWeight \in Int /\ Excess(f) * StepWeight \in Int
    BY <1>0, Numbers
  <2> QED
    BY <1>4, <2>1, <2>2, <2>3
<1>6. Size(d) <= u /\ Size(k) <= v
  BY <1>1, <1>2, <1>4 DEF Drift
<1>7. Size(d + k) <= u + v
  BY <1>6 DEF Size
<1> QED
  BY <1>3, <1>5, <1>7 DEF Drift

LEMMA DriftStep == TypeOK /\ DriftInv /\ [Next]_vars => DriftInv'
<1> SUFFICES ASSUME TypeOK, DriftInv, [Next]_vars PROVE DriftInv'
  OBVIOUS
<1>1. CASE UNCHANGED <<DDSaccumulator, measure>>
  BY <1>1 DEF DriftInv, measure
<1>2. CASE Enabled
  <2>0. /\ jointFreqCmd \in Freqs /\ DDSaccumulator \in 0..(AccSize - 1)
        /\ owed \in Int /\ ticks \in Nat /\ fast \in Nat
        /\ AddValue(jointFreqCmd) \in Int /\ AccSize \in Nat \ {0}
    BY Cut, AccSizeType DEF TypeOK
  <2>1. /\ DDSaccumulator' = Accumulate(DDSaccumulator, AddValue(jointFreqCmd))
        /\ DDSaccumulator' \in 0..(AccSize - 1)
    <3>1. DDSaccumulator' = Accumulate(DDSaccumulator, AddValue(jointFreqCmd))
      BY <1>2 DEF Enabled
    <3> QED
      BY <2>0, <3>1, ModRange DEF Accumulate
  <2>2. PICK r \in 0..(StepWeight - 1), s \in 0..(StepWeight - 1) :
           r = DDSaccumulator % StepWeight /\ s = DDSaccumulator' % StepWeight
    <3>1. DDSaccumulator \in Int /\ DDSaccumulator' \in Int
      BY <2>0, <2>1
    <3>2. /\ DDSaccumulator % StepWeight \in 0..(StepWeight - 1)
          /\ DDSaccumulator' % StepWeight \in 0..(StepWeight - 1)
      BY <3>1, ModRange, Numbers
    <3> QED
      BY <3>2
  <2>3. PICK step \in {-1, 0, 1} :
           /\ step = IF StepBit(DDSaccumulator') = StepBit(DDSaccumulator) THEN 0
                     ELSE IF AddValue(jointFreqCmd) > 0 THEN 1 ELSE -1
           /\ Account(step)
    BY <1>2 DEF Enabled
  <2>4. Size((jointFreqCmd - step * ThreadFreq) * StepWeight - ThreadFreq * (s - r))
          <= 2 * ThreadFreq + Excess(jointFreqCmd) * StepWeight
    <3>1. PICK acc \in 0..(AccSize - 1), new \in 0..(AccSize - 1) :
             acc = DDSaccumulator /\ new = DDSaccumulator'
      BY <2>0, <2>1
    <3>2. new = Accumulate(acc, AddValue(jointFreqCmd))
      BY <2>1, <3>1
    <3>3. step = IF StepBit(new) = StepBit(acc) THEN 0
                 ELSE IF AddValue(jointFreqCmd) > 0 THEN 1 ELSE -1
      BY <2>3, <3>1
    <3>4. r = acc % StepWeight /\ s = new % StepWeight
      BY <2>2, <3>1
    <3> QED
      BY <2>0, <3>2, <3>3, <3>4, TickBound
  <2>5. ASSUME NEW o \in Int, NEW n \in Nat, NEW a \in Nat, NEW base \in 0..(StepWeight - 1),
               Drift(o, n, a, r, base), Extend(o, n, a, step)
        PROVE  DriftInv'
    <3>1. Drift(owed', ticks', fast', s, base)
      BY <2>0, <2>4, <2>5, ExtendDrift DEF Extend
    <3> QED
      BY <2>2, <3>1 DEF DriftInv, Drift
  <2>6. CASE Extend(0, 0, 0, step)
    <3>1. Drift(0, 0, 0, r, r)
      <4>1. 0 * StepWeight - ThreadFreq * (r - r) = 0 /\ 2 * ThreadFreq * 0 + 0 * StepWeight = 0
        BY Numbers
      <4> QED
        BY <4>1 DEF Drift, Size
    <3> QED
      BY <2>5, <2>6, <3>1
  <2>7. CASE Extend(owed, ticks, fast, step)
    <3>1. PICK base \in 0..(StepWeight - 1) : Drift(owed, ticks, fast, r, base)
      BY <2>2 DEF DriftInv
    <3> QED
      BY <2>0, <2>5, <2>7, <3>1
  <2> QED
    BY <2>3, <2>6, <2>7 DEF Account
<1> QED
  BY <1>1, <1>2 DEF Next, BaseInterrupt, WriteFreq, WriteEnable, MakePulses, Disabled,
     StopPulses, vars, counter, history, measure

(* The steps made over any stretch of enabled ticks are those the commands *)
(* come to before any rounding, but for less than one step, two units of   *)
(* the accumulator a tick, and what ticks above one step each may lose:    *)
(* for every width of the accumulator and every sequence of commands.      *)
THEOREM StepsDoFollow == Spec => []StepsFollowCommands
<1>1. Init => DriftInv
  <2> SUFFICES ASSUME Init PROVE DriftInv
    OBVIOUS
  <2>1. 0 \in 0..(StepWeight - 1) /\ 0 % StepWeight = 0
    BY Numbers
  <2>2. 0 * StepWeight - ThreadFreq * (0 - 0) = 0 /\ 2 * ThreadFreq * 0 + 0 * StepWeight = 0
    BY Numbers
  <2>3. Drift(0, 0, 0, 0, 0)
    BY <2>2 DEF Drift, Size
  <2> QED
    BY <2>1, <2>3 DEF Init, DriftInv
<1>2. TypeOK /\ DriftInv => StepsFollowCommands
  <2> SUFFICES ASSUME TypeOK, DriftInv PROVE StepsFollowCommands
    OBVIOUS
  <2>0. owed \in Int /\ ticks \in Nat /\ fast \in Nat /\ DDSaccumulator \in Int
    BY AccSizeType DEF TypeOK
  <2>1. PICK r \in 0..(StepWeight - 1) : r = DDSaccumulator % StepWeight
    BY <2>0, ModRange, Numbers
  <2>2. PICK base \in 0..(StepWeight - 1) : Drift(owed, ticks, fast, r, base)
    BY <2>1 DEF DriftInv
  <2>3. PICK w \in Int, b \in Int, m \in Int, u \in Int, v \in Int :
          /\ w = owed * StepWeight /\ b = ThreadFreq * (r - base)
          /\ m = ThreadFreq * StepWeight /\ u = 2 * ThreadFreq * ticks /\ v = fast * StepWeight
    BY <2>0, Numbers
  <2>4. b < m /\ -b < m
    <3>1. PICK c \in Nat \ {0}, e \in Nat \ {0} :
             c = StepWeight - (r - base) /\ e = StepWeight + (r - base)
             /\ ThreadFreq * c > 0 /\ ThreadFreq * e > 0
      <4>1. ASSUME NEW c \in Nat \ {0} PROVE ThreadFreq * c > 0
        BY Numbers
      <4>2. PICK c \in Nat \ {0}, e \in Nat \ {0} :
               c = StepWeight - (r - base) /\ e = StepWeight + (r - base)
        BY Numbers
      <4> QED
        BY <4>1, <4>2
    <3> QED
      BY <2>3, <3>1, Numbers
  <2>5. Size(w - b) <= u + v
    BY <2>2, <2>3 DEF Drift
  <2>6. Size(w) < m + u + v
    BY <2>4, <2>5 DEF Size
  <2>7. Size(owed) * StepWeight = Size(w)
    BY <2>0, <2>3, Numbers DEF Size
  <2>8. ThreadFreq * (StepWeight + 2 * ticks) + fast * StepWeight = m + u + v
    BY <2>0, <2>3, Numbers
  <2> QED
    BY <2>6, <2>7, <2>8 DEF StepsFollowCommands
<1> QED
  BY <1>1, <1>2, DriftStep, TypeCorrect, PTL DEF Spec

-----------------------------------------------------------------------------
(* The published count.                                                    *)

(* The step pin is high only inside the interrupt, so that every step      *)
(* makes a rising edge.                                                    *)
PulseInv == DriveFollows /\ (stepPin => posting)

LEMMA PulseStep == PulseInv /\ [Next]_vars => PulseInv'
<1> SUFFICES ASSUME PulseInv, [Next]_vars PROVE PulseInv'
  OBVIOUS
<1> USE DEF PulseInv, DriveFollows, counter, pins, measure, history
<1>1. CASE WriteFreq \/ WriteEnable \/ StopPulses \/ UNCHANGED vars
  BY <1>1 DEF WriteFreq, WriteEnable, StopPulses, vars
<1>2. CASE MakePulses /\ Disabled
  BY <1>2 DEF MakePulses, Disabled, Drive
<1>3. CASE MakePulses /\ Enabled
  <2>1. ~stepPin
    BY <1>3 DEF MakePulses
  <2>2. CASE StepBit(DDSaccumulator') = StepBit(DDSaccumulator)
    BY <1>3, <2>1, <2>2 DEF MakePulses, Enabled, Drive
  <2>3. CASE StepBit(DDSaccumulator') # StepBit(DDSaccumulator)
    BY <1>3, <2>1, <2>3 DEF MakePulses, Enabled, Drive, AtEdge
  <2> QED
    BY <2>2, <2>3
<1> QED
  BY <1>1, <1>2, <1>3 DEF Next, BaseInterrupt, MakePulses

(* The count the position monitor reads is the drive's position, whatever  *)
(* is commanded and whenever the joint is disabled.                        *)
THEOREM DriveFollowsCount == Spec => []DriveFollows
<1>1. Init => PulseInv
  BY DEF Init, PulseInv, DriveFollows
<1>2. PulseInv => DriveFollows
  BY DEF PulseInv
<1> QED
  BY <1>1, <1>2, PulseStep, PTL DEF Spec

-----------------------------------------------------------------------------
(* The drive obeys.                                                        *)

LEMMA ObeysStep == TypeOK /\ PulseInv /\ [Next]_vars => Obeys
<1> SUFFICES ASSUME TypeOK, PulseInv, [Next]_vars, motor' # motor PROVE Obeys
  BY DEF Obeys
<1> DEFINE add == AddValue(jointFreqCmd)
<1>1. MakePulses /\ Enabled
  <2>1. MakePulses
    BY DEF Next, BaseInterrupt, WriteFreq, WriteEnable, StopPulses, vars, history
  <2>2. ~Disabled
    BY <2>1 DEF MakePulses, Disabled, Drive
  <2> QED
    BY <2>1, <2>2 DEF MakePulses
<1>2. jointFreqCmd \in Freqs /\ jointFreqCmd \in Int /\ motor \in Int
  BY StepgenAssumption DEF TypeOK
<1>3. add \in Int /\ (add > 0 => jointFreqCmd > 0) /\ (add < 0 => jointFreqCmd < 0)
  BY <1>2, Cut, AddValueSign
<1>4. /\ stepPin' /\ ~stepPin /\ ~enablePin'
      /\ motor' = (motor + (IF directionPin' THEN 1 ELSE -1)) % CountSize
  BY <1>1 DEF MakePulses, Drive, AtEdge
<1>5. /\ DDSaccumulator' = Accumulate(DDSaccumulator, add)
      /\ StepBit(DDSaccumulator') # StepBit(DDSaccumulator)
  BY <1>1, <1>4 DEF Enabled
<1>6. add # 0
  <2>1. ASSUME add = 0 PROVE FALSE
    <3>1. DDSaccumulator \in 0..(AccSize - 1) /\ AccSize \in Nat \ {0}
      BY AccSizeType DEF TypeOK
    <3>2. Accumulate(DDSaccumulator, 0) = DDSaccumulator
      BY <3>1 DEF Accumulate
    <3> QED
      BY <1>5, <2>1, <3>2
  <2> QED
    BY <2>1
<1>7. directionPin' = (add > 0)
  BY <1>1, <1>5 DEF Enabled
<1> HIDE DEF add
<1>8. CASE add > 0
  BY <1>1, <1>3, <1>4, <1>7, <1>8 DEF Obeys, Enabled
<1>9. CASE add < 0
  <2>0. ~(add > 0)
    BY <1>3, <1>9
  <2>1. ~directionPin' /\ jointFreqCmd < 0
    BY <1>3, <1>7, <1>9, <2>0, Zenon
  <2>2. motor' = (motor + -1) % CountSize /\ motor + -1 = motor - 1
    BY <1>2, <1>4, <2>1
  <2> QED
    BY <1>1, <2>1, <2>2 DEF Obeys, Enabled
<1> QED
  BY <1>3, <1>6, <1>8, <1>9

(* Every step of the drive is one the command in force asks for: the       *)
(* closed loop's joint, which moves by a step or none per interrupt and    *)
(* only while enabled, is all this one can do.                             *)
THEOREM DriveObeys == Spec => NeverAgainstCommand
<1>1. Init => PulseInv
  BY DEF Init, PulseInv, DriveFollows
<1> QED
  BY <1>1, PulseStep, ObeysStep, TypeCorrect, PTL DEF Spec, NeverAgainstCommand
=============================================================================
