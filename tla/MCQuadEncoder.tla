--------------------------- MODULE MCQuadEncoder ---------------------------
(* QuadEncoder for TLC: an index pulse of three interrupts and a shaft     *)
(* that makes more than a full period of the channels in both directions.  *)
EXTENDS QuadEncoder
=============================================================================
