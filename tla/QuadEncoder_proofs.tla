------------------------- MODULE QuadEncoder_proofs -------------------------
(* What holds of the quadrature encoder for every index pulse and every    *)
(* range of the shaft.                                                     *)
EXTENDS QuadEncoder, TLAPS

-----------------------------------------------------------------------------
(* The decoder.                                                            *)

(* The channels are two bits. *)
LEMMA ChannelsType == ASSUME NEW p \in Int PROVE Channels(p) \in 0..3
BY DEF Channels

(* The first sample after enabling may be wrong by two transitions.        *)
LEMMA DecodeBound ==
  ASSUME NEW old \in 0..3, NEW new \in 0..3
  PROVE  Decode(old, new) \in (-2)..2
BY DEF Decode

(* One transition in either direction, or none, is decoded exactly,        *)
(* wherever in the period it happens.                                      *)
LEMMA DecodeExact ==
  ASSUME NEW p \in Int, NEW q \in Int, Within(p, q, 1)
  PROVE  Decode(Channels(q), Channels(p)) = p - q
<1>1. q % 4 \in 0..3
  OBVIOUS
<1>2. CASE p = q
  <2>1. Channels(q) \in 0..3
    BY ChannelsType
  <2> QED
    BY <1>2, <2>1 DEF Decode
<1>3. CASE p = q + 1
  <2>1. p % 4 = IF q % 4 = 3 THEN 0 ELSE (q % 4) + 1
    BY <1>3
  <2> QED
    BY <1>1, <1>3, <2>1 DEF Decode, Channels
<1>4. CASE p = q - 1
  <2>1. p % 4 = IF q % 4 = 0 THEN 3 ELSE (q % 4) - 1
    BY <1>4
  <2> QED
    BY <1>1, <1>4, <2>1 DEF Decode, Channels
<1> QED
  BY <1>2, <1>3, <1>4 DEF Within

-----------------------------------------------------------------------------
(* The inductive invariant: the shaft makes at most one transition between *)
(* interrupts, and during an index pulse the lag is at most the part of    *)
(* the pulse that has passed.                                              *)
SpeedInv == Within(shaft, ticked, 1)

LagInv ==
  /\ pulseCount <= IndexPulse
  /\ Within(feedback, count, IndexPulse - pulseCount + 1)
  /\ ~isEnabled => feedback = 0 /\ count = 0

Inv == TypeOK /\ SpeedInv /\ CountFollowsShaft /\ LagInv

LEMMA InitInv == Init => Inv
<1> SUFFICES ASSUME Init PROVE Inv
  OBVIOUS
<1>1. TypeOK
  <2>1. /\ shaft \in (-Span)..Span /\ ticked \in (-Span)..Span
        /\ enabledAt \in (-Span)..Span
    BY SpanAssumption DEF Init
  <2>2. jointEnable \in BOOLEAN /\ isEnabled \in BOOLEAN
    BY DEF Init
  <2>3. /\ count \in Int /\ feedback \in Int /\ firstCount \in Int
        /\ state \in 0..3 /\ pulseCount \in 0..MaxPulse
    BY IndexAssumption DEF Init
  <2> QED
    BY <2>1, <2>2, <2>3 DEF TypeOK
<1>2. SpeedInv
  BY SpanAssumption DEF Init, SpeedInv, Within
<1>3. CountFollowsShaft
  BY DEF Init, CountFollowsShaft
<1>4. LagInv
  BY IndexAssumption DEF Init, LagInv, Within
<1> QED
  BY <1>1, <1>2, <1>3, <1>4 DEF Inv

(* What one enabled sample adds: the shaft's own motion, or on the first   *)
(* sample at most two transitions.                                         *)
LEMMA SampleMoves ==
  ASSUME Inv, Enabled
  PROVE  /\ count' \in Int /\ Within(count', count, 2)
         /\ isEnabled => count' = count + (shaft - ticked)
<1>1. shaft \in Int /\ ticked \in Int /\ state \in 0..3 /\ count \in Int
  BY SpanAssumption DEF Inv, TypeOK
<1>2. Channels(shaft) \in 0..3
  BY <1>1, ChannelsType
<1>3. Decode(state, Channels(shaft)) \in (-2)..2
  BY <1>1, <1>2, DecodeBound
<1>4. isEnabled => Decode(state, Channels(shaft)) = shaft - ticked
  BY <1>1, DecodeExact DEF Inv, SpeedInv, CountFollowsShaft
<1>5. count' = count + Decode(state, Channels(shaft))
  BY DEF Enabled
<1> QED
  BY <1>1, <1>3, <1>4, <1>5 DEF Within

(* The index logic keeps the lag within the part of the pulse gone by.     *)
LEMMA IndexKeepsLag ==
  ASSUME Inv, Enabled
  PROVE  /\ feedback' \in Int /\ pulseCount' \in 0..IndexPulse
         /\ Within(feedback', count', IndexPulse - pulseCount' + 1)
<1>1. /\ feedback \in Int /\ count \in Int /\ shaft \in Int /\ ticked \in Int
      /\ pulseCount \in 0..IndexPulse /\ IndexPulse \in Nat \ {0}
      /\ isEnabled \in BOOLEAN
  BY IndexAssumption, SpanAssumption DEF Inv, TypeOK, LagInv
<1>2. /\ count' \in Int /\ Within(count', count, 2)
      /\ isEnabled => count' = count + (shaft - ticked)
  BY SampleMoves
<1>3. Within(feedback, count, IndexPulse - pulseCount + 1) /\ Within(shaft, ticked, 1)
  BY DEF Inv, LagInv, SpeedInv
<1>4. ~isEnabled => feedback = 0 /\ count = 0
  BY DEF Inv, LagInv
<1>5. \/ feedback' = count' /\ pulseCount' \in {pulseCount, IndexPulse}
      \/ pulseCount > 0 /\ pulseCount' = pulseCount - 1 /\ feedback' = feedback
  BY <1>1 DEF Enabled, ShowIndex
<1>6. PICK n \in Int : count' = n
  BY <1>2
<1>7. CASE feedback' = count' /\ pulseCount' \in {pulseCount, IndexPulse}
  <2>1. PICK k \in 0..IndexPulse : pulseCount' = k
    BY <1>1, <1>7
  <2> QED
    BY <1>1, <1>6, <1>7, <2>1 DEF Within
<1>8. CASE pulseCount > 0 /\ pulseCount' = pulseCount - 1 /\ feedback' = feedback
  <2>1. CASE isEnabled
    BY <1>1, <1>2, <1>3, <1>8, <2>1 DEF Within
  <2>2. CASE ~isEnabled
    <3>1. feedback = 0 /\ count = 0
      BY <1>4, <2>2
    <3>2. Within(n, 0, 2)
      BY <1>2, <1>6, <3>1
    <3> QED
      BY <1>1, <1>6, <1>8, <3>1, <3>2 DEF Within
  <2> QED
    BY <2>1, <2>2
<1> QED
  BY <1>5, <1>7, <1>8

LEMMA NextInv == Inv /\ [Next]_vars => Inv'
<1> SUFFICES ASSUME Inv, [Next]_vars PROVE Inv'
  OBVIOUS
<1>0. Span \in Nat /\ IndexPulse \in Nat \ {0} /\ MaxPulse \in Nat /\ IndexPulse <= MaxPulse
  BY IndexAssumption, SpanAssumption
<1>1. CASE Turn
  <2>1. TypeOK'
    BY <1>0, <1>1 DEF Inv, TypeOK, Turn, host, index, first
  <2>2. SpeedInv'
    <3>1. ticked \in Int /\ ticked' = ticked /\ shaft' \in {ticked - 1, ticked, ticked + 1}
      BY <1>0, <1>1 DEF Inv, TypeOK, Turn
    <3>2. CASE shaft' = ticked - 1
      BY <3>1, <3>2 DEF SpeedInv, Within
    <3>3. CASE shaft' = ticked
      BY <3>1, <3>3 DEF SpeedInv, Within
    <3>4. CASE shaft' = ticked + 1
      BY <3>1, <3>4 DEF SpeedInv, Within
    <3> QED
      BY <3>1, <3>2, <3>3, <3>4
  <2>3. CountFollowsShaft' /\ LagInv'
    BY <1>1 DEF Inv, Turn, CountFollowsShaft, LagInv, Within, host, index, first
  <2> QED
    BY <2>1, <2>2, <2>3 DEF Inv
<1>2. CASE WriteEnable
  <2>1. TypeOK'
    BY <1>2 DEF Inv, TypeOK, WriteEnable, index, first
  <2>2. SpeedInv' /\ CountFollowsShaft' /\ LagInv'
    BY <1>2 DEF Inv, WriteEnable, SpeedInv, CountFollowsShaft, LagInv, Within, index, first
  <2> QED
    BY <2>1, <2>2 DEF Inv
<1>3. CASE Update /\ Disabled
  <2>1. TypeOK'
    <3>1. count' = 0 /\ feedback' = 0 /\ isEnabled' = FALSE
      BY <1>3 DEF Disabled
    <3>2. /\ shaft' = shaft /\ ticked' = shaft /\ jointEnable' = jointEnable
          /\ state' = state /\ pulseCount' = pulseCount
          /\ enabledAt' = enabledAt /\ firstCount' = firstCount
      BY <1>3 DEF Update, Disabled, host, first
    <3>3. TypeOK
      BY DEF Inv
    <3>4. count' \in Int /\ feedback' \in Int
      BY <3>1
    <3>5. isEnabled' \in BOOLEAN
      BY <3>1
    <3> QED
      BY <3>2, <3>3, <3>4, <3>5 DEF TypeOK
  <2>2. SpeedInv'
    BY <1>0, <1>3 DEF Inv, TypeOK, Update, SpeedInv, Within
  <2>3. CountFollowsShaft'
    BY <1>3 DEF Disabled, CountFollowsShaft
  <2>4. LagInv'
    BY <1>0, <1>3 DEF Inv, TypeOK, Disabled, LagInv, Within
  <2> QED
    BY <2>1, <2>2, <2>3, <2>4 DEF Inv
<1>4. CASE Update /\ Enabled
  <2>1. /\ count' \in Int
        /\ Within(count', count, 2)
        /\ isEnabled => count' = count + (shaft - ticked)
    BY <1>4, SampleMoves
  <2>2. /\ feedback' \in Int /\ pulseCount' \in 0..IndexPulse
        /\ Within(feedback', count', IndexPulse - pulseCount' + 1)
    BY <1>4, IndexKeepsLag
  <2>3. /\ shaft \in (-Span)..Span /\ shaft' = shaft /\ ticked' = shaft
        /\ jointEnable' = jointEnable /\ jointEnable \in BOOLEAN
    BY <1>4 DEF Inv, TypeOK, Update, host
  <2>4. isEnabled' = TRUE /\ state' = Channels(shaft)
        /\ (isEnabled => enabledAt' = enabledAt /\ firstCount' = firstCount)
        /\ (~isEnabled => enabledAt' = shaft /\ firstCount' = count')
    BY <1>4 DEF Enabled, first
  <2>5. state' \in 0..3
    BY <1>0, <2>3, <2>4, ChannelsType
  <2>6. shaft \in Int /\ ticked \in Int /\ count \in Int /\ isEnabled \in BOOLEAN
        /\ enabledAt \in (-Span)..Span /\ enabledAt \in Int /\ firstCount \in Int
    BY <1>0 DEF Inv, TypeOK
  <2>7. TypeOK'
    <3>1. enabledAt' \in (-Span)..Span /\ firstCount' \in Int
      BY <2>1, <2>3, <2>4, <2>6
    <3>2. pulseCount' \in 0..MaxPulse
      BY <1>0, <2>2
    <3> QED
      BY <2>1, <2>2, <2>3, <2>4, <2>5, <3>1, <3>2 DEF TypeOK
  <2>8. SpeedInv'
    BY <2>3, <2>6 DEF SpeedInv, Within
  <2>9. count' = firstCount' + (ticked' - enabledAt') /\ Within(firstCount', 0, 2)
    <3>1. isEnabled => count = firstCount + (ticked - enabledAt) /\ Within(firstCount, 0, 2)
      BY DEF Inv, CountFollowsShaft
    <3>2. CASE isEnabled
      <4>1. /\ count' = count + (shaft - ticked) /\ count = firstCount + (ticked - enabledAt)
            /\ enabledAt' = enabledAt /\ firstCount' = firstCount
        BY <2>1, <2>4, <3>1, <3>2
      <4> QED
        BY <2>3, <2>6, <3>1, <3>2, <4>1
    <3>3. CASE ~isEnabled
      <4>1. enabledAt' = shaft /\ firstCount' = count'
        BY <2>4, <3>3
      <4>2. PICK n \in Int : count' = n
        BY <2>1
      <4>3. count = 0
        BY <3>3 DEF Inv, LagInv
      <4> QED
        BY <2>1, <2>3, <2>6, <4>1, <4>2, <4>3
    <3> QED
      BY <3>2, <3>3
  <2>10. CountFollowsShaft'
    BY <2>3, <2>4, <2>9 DEF CountFollowsShaft, Within
  <2>11. LagInv'
    BY <1>0, <2>2, <2>4 DEF LagInv, Within
  <2> QED
    BY <2>7, <2>8, <2>10, <2>11 DEF Inv
<1>5. CASE UNCHANGED vars
  <2>1. TypeOK'
    BY <1>5 DEF Inv, TypeOK, vars, host, index, first
  <2>2. SpeedInv' /\ CountFollowsShaft' /\ LagInv'
    BY <1>5 DEF Inv, SpeedInv, CountFollowsShaft, LagInv, Within, vars, host, index, first
  <2> QED
    BY <2>1, <2>2 DEF Inv
<1> QED
  BY <1>1, <1>2, <1>3, <1>4, <1>5 DEF Next, Update

LEMMA Invariant == Spec => []Inv
BY InitInv, NextInv, PTL DEF Spec

(* Every variable of the encoder keeps its type; pulseCount fits its       *)
(* int8_t as long as the configured pulse does.                            *)
THEOREM TypeCorrect == Spec => []TypeOK
<1>1. Inv => TypeOK
  BY DEF Inv
<1> QED
  BY <1>1, Invariant, PTL

(* The count is the way the shaft has gone since the joint was enabled,    *)
(* off by the first sample's two transitions at most and no others.        *)
THEOREM CountExact == Spec => []CountFollowsShaft
<1>1. Inv => CountFollowsShaft
  BY DEF Inv
<1> QED
  BY <1>1, Invariant, PTL

(* The feedback never lags by more than one index pulse of motion and the  *)
(* first sample's error.                                                   *)
THEOREM LagBounded == Spec => []FeedbackLag
<1>1. Inv => FeedbackLag
  <2> SUFFICES ASSUME Inv PROVE FeedbackLag
    OBVIOUS
  <2>1. /\ pulseCount \in Nat /\ IndexPulse \in Nat /\ feedback \in Int /\ count \in Int
    BY IndexAssumption DEF Inv, TypeOK
  <2>2. LagInv
    BY DEF Inv
  <2> QED
    BY <2>1, <2>2 DEF LagInv, FeedbackLag, Within
<1> QED
  BY <1>1, Invariant, PTL

(* One sample moves the count by what the shaft has moved since the last   *)
(* one, a transition at most, as long as the joint was enabled at both.    *)
Moves ==
  isEnabled /\ isEnabled' =>
    /\ count' - count = ticked' - ticked
    /\ Within(ticked', ticked, 1)

(* Increments, unlike positions, can be summed across anything: this is    *)
(* all the closed loop's joint takes from the encoder.                     *)
THEOREM CountMoves == Spec => [][Moves]_vars
<1>1. Inv /\ [Next]_vars => Moves
  <2> SUFFICES ASSUME Inv, [Next]_vars, isEnabled, isEnabled' PROVE Moves
    BY DEF Moves
  <2>1. count \in Int /\ shaft \in Int /\ ticked \in Int /\ Within(shaft, ticked, 1)
    BY SpanAssumption DEF Inv, TypeOK, SpeedInv
  <2>2. CASE Update
    <3>1. Enabled /\ ticked' = shaft
      BY <2>2 DEF Update, Disabled
    <3>2. count' = count + (shaft - ticked)
      BY <3>1, SampleMoves
    <3> QED
      BY <2>1, <3>1, <3>2 DEF Moves, Within
  <2>3. CASE UNCHANGED <<count, ticked>>
    BY <2>1, <2>3 DEF Moves, Within
  <2> QED
    BY <2>2, <2>3 DEF Next, Turn, WriteEnable, vars, host
<1> QED
  BY <1>1, Invariant, PTL DEF Spec
=============================================================================
