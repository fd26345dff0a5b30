--------------------------- MODULE MCConfigStore ---------------------------
(* ConfigStore for TLC: a file whose last block is full, so that an empty  *)
(* packet ends it, and a longer one that ends with a short block; the two  *)
(* connections the board has; a sector that holds whatever they can send   *)
(* between two write requests.                                             *)
EXTENDS ConfigStore, TLC
CONSTANTS small, large
MCBlocks == small :> 2 @@ large :> 3
MCLast   == small :> 3 @@ large :> 3
MCConns  == {"c1", "c2"}
=============================================================================
