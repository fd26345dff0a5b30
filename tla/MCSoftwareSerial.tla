-------------------------- MODULE MCSoftwareSerial --------------------------
(* Bytes of two bits; a request of two bytes, an answer of two.             *)
EXTENDS SoftwareSerial
MCNoByte == -1
=============================================================================
