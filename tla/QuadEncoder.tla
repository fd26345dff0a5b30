---------------------------- MODULE QuadEncoder ----------------------------
(***************************************************************************)
(* The software quadrature encoder of one joint (modules/encoder), sampled *)
(* by the base interrupt.  The shaft is external: it turns by itself, also *)
(* while the joint is disabled, and shows its position on channels A and B *)
(* modulo four transitions.  Between two interrupts it makes at most one   *)
(* transition, the speed the decoder is meant for; reading A and then B    *)
(* while it makes one then shows the position before or after it, so that  *)
(* a sample is one read of the shaft.                                      *)
(*                                                                         *)
(* A definition named XMut is X with a plausible slip, kept beside X: some *)
(* property checked by the runs rejects it.                                *)
(***************************************************************************)
EXTENDS Integers

CONSTANTS
  HasIndex,        (* an index pin is configured                          *)
  IndexPulse,      (* interrupts an index count is shown to the host:     *)
                   (* three servo periods, 120, which fits its int8_t     *)
  MaxPulse,        (* the largest int8_t                                  *)
  Span             (* bound: the shaft stays within this many transitions *)
                   (* of where it was at power-up                         *)

ASSUME IndexAssumption ==
  HasIndex \in BOOLEAN /\ IndexPulse \in Nat \ {0} /\ MaxPulse \in Nat /\ IndexPulse <= MaxPulse
ASSUME SpanAssumption == Span \in Nat

VARIABLES
  shaft,           (* external: the position, in transitions              *)
  ticked,          (* history: its position at the last interrupt         *)
  jointEnable,     (* this joint's bit of rxData.jointEnable              *)
  isEnabled,
  count,
  state,           (* the last sample: 2 * B + A                          *)
  pulseCount,
  feedback,        (* txData.jointFeedback[joint]                         *)
  enabledAt,       (* history: where the shaft was at the first sample    *)
  firstCount       (* since the joint was enabled, and the count it gave  *)

host   == <<jointEnable>>
index  == <<pulseCount, feedback>>
first  == <<enabledAt, firstCount>>
vars == <<shaft, ticked, host, isEnabled, count, state, index, first>>

(* What the channels show: B leads A when the shaft turns forward. *)
Channels(p) == CASE p % 4 = 0 -> 0 [] p % 4 = 1 -> 2 [] p % 4 = 2 -> 3 [] OTHER -> 1

(* The decoding table, on s = 4 * new + old; a jump of two transitions is  *)
(* taken as two edges of the same channel.                                 *)
DecodeMut(old, new) ==
  LET s == 4 * new + old
  IN CASE s \in {0, 5, 10, 15} -> 0
       [] s \in {1, 7, 8, 14}  -> 1
       [] s \in {2, 4, 11}     -> -1
       [] s \in {3, 12, 13}    -> 2
       [] OTHER                -> -2

Decode(old, new) ==
  LET s == 4 * new + old
  IN CASE s \in {0, 5, 10, 15} -> 0
       [] s \in {1, 7, 8, 14}  -> 1
       [] s \in {2, 4, 11, 13} -> -1
       [] s \in {3, 12}        -> 2
       [] OTHER                -> -2

(* The controller was running before this firmware started: the shaft may  *)
(* show any channels, while the constructor assumes 0.                     *)
Init ==
  /\ shaft \in {p \in 0..3 : p <= Span}
  /\ ticked = shaft
  /\ jointEnable = FALSE /\ isEnabled = FALSE
  /\ count = 0 /\ state = 0 /\ pulseCount = 0 /\ feedback = 0
  /\ enabledAt = 0 /\ firstCount = 0

Turn ==
  /\ shaft' \in {ticked - 1, ticked, ticked + 1} \intersect (-Span)..Span
  /\ UNCHANGED <<ticked, host, isEnabled, count, state, index, first>>

(* The main loop's copy of a packet. *)
WriteEnable ==
  /\ jointEnable' \in BOOLEAN
  /\ UNCHANGED <<shaft, ticked, isEnabled, count, state, index, first>>

(* A disabled joint reports zero; the last sample and a running index      *)
(* pulse stay as they are.                                                 *)
DisabledMut ==
  /\ ~jointEnable
  /\ isEnabled' = FALSE
  /\ feedback' = 0
  /\ UNCHANGED <<count, state, pulseCount, first>>

Disabled ==
  /\ ~jointEnable
  /\ isEnabled' = FALSE
  /\ count' = 0 /\ feedback' = 0
  /\ UNCHANGED <<state, pulseCount, first>>

(* The index pin captures the count and freezes the feedback at it, and    *)
(* then leaves it alone until the pulse is over.                           *)
ShowIndexMut(level) ==
  IF level /\ pulseCount = 0
  THEN feedback' = count' /\ pulseCount' = IndexPulse
  ELSE IF pulseCount > 0
       THEN pulseCount' = (IF level THEN pulseCount ELSE pulseCount - 1) /\ UNCHANGED feedback
       ELSE feedback' = count' /\ UNCHANGED pulseCount

ShowIndexMutGuard(level) ==
  IF level /\ pulseCount = 0
  THEN feedback' = count' /\ pulseCount' = IndexPulse
  ELSE pulseCount' = pulseCount - 1 /\ UNCHANGED feedback

ShowIndex(level) ==
  IF level /\ pulseCount = 0
  THEN feedback' = count' /\ pulseCount' = IndexPulse
  ELSE IF pulseCount > 0
       THEN pulseCount' = pulseCount - 1 /\ UNCHANGED feedback
       ELSE feedback' = count' /\ UNCHANGED pulseCount

Enabled ==
  /\ jointEnable
  /\ isEnabled' = TRUE
  /\ count' = count + Decode(state, Channels(shaft))
  /\ state' = Channels(shaft)
  /\ IF isEnabled THEN UNCHANGED first
     ELSE enabledAt' = shaft /\ firstCount' = count'
  /\ IF HasIndex
     THEN \E level \in BOOLEAN : ShowIndex(level)
     ELSE feedback' = count' /\ UNCHANGED pulseCount

(* update *)
Update ==
  /\ Enabled \/ Disabled
  /\ ticked' = shaft
  /\ UNCHANGED <<shaft, host>>

Next == Turn \/ WriteEnable \/ Update

Spec == Init /\ [][Next]_vars

(* The timer keeps interrupting. *)
FairSpec == Spec /\ WF_vars(Update)

-----------------------------------------------------------------------------
TypeOK ==
  /\ shaft \in (-Span)..Span /\ ticked \in (-Span)..Span
  /\ jointEnable \in BOOLEAN /\ isEnabled \in BOOLEAN
  /\ count \in Int /\ feedback \in Int
  /\ enabledAt \in (-Span)..Span /\ firstCount \in Int
  /\ state \in 0..3 /\ pulseCount \in 0..MaxPulse

(* While the joint stays enabled the count is the way the shaft has gone   *)
(* since the first sample, exactly, through reversals and wherever the     *)
(* joint was moved by hand while it was disabled; and the first sample,    *)
(* which compares with a stale one, puts it off by at most two transitions.*)
Within(x, y, d) == x - y <= d /\ y - x <= d

CountFollowsShaft ==
  isEnabled => /\ count = firstCount + (ticked - enabledAt)
               /\ Within(firstCount, 0, 2)
               /\ state = Channels(ticked)

(* What the host and the position monitor see never lags the count by more *)
(* than the motion of one index pulse and the first sample's error, though *)
(* the pulse outlives a disabled period and an index pin that stays high   *)
(* starts another one as soon as one ends.                                 *)
FeedbackLag ==
  /\ Within(feedback, count, IndexPulse + 1)
  /\ ~isEnabled => feedback = 0 /\ count = 0

(* A joint that stays enabled keeps being shown its own count: no sequence *)
(* of index pulses freezes its feedback for good.                          *)
FeedbackRefreshed == <>[]jointEnable => []<>(isEnabled /\ feedback = count)
=============================================================================
