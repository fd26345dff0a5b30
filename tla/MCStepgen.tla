----------------------------- MODULE MCStepgen -----------------------------
(* Stepgen for TLC, with floats of six bits.  Twenty ticks a second and a  *)
(* step bit of weight 16: the scale 16/20 is rounded to 51/64, and each    *)
(* product to six bits.  The commands 1, 3 and 20 steps/s add 0 (cut), 2   *)
(* and 16 (one step per tick), and 40 adds 32, a whole period of the bit.  *)
EXTENDS Stepgen

MCFreqs == {-40, -20, -3, 0, 1, 20}

(* The nearest number of six bits, n being below 64 * 64. *)
Nearest(n) ==
  LET ulp == CHOOSE u \in {1, 2, 4, 8, 16, 32, 64} : 64 * u > n /\ (u = 1 \/ 32 * u <= n)
  IN ((n + ulp \div 2) \div ulp) * ulp

MCProduct ==
  [f \in MCFreqs |-> IF f >= 0 THEN Nearest(f * 51) ELSE -Nearest(-f * 51)]
=============================================================================
