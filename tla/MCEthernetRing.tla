--------------------------- MODULE MCEthernetRing --------------------------
(* EthernetRing with small rings and few frames. *)
EXTENDS EthernetRing
=============================================================================
