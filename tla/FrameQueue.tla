---------------------------- MODULE FrameQueue -----------------------------
(***************************************************************************)
(* What a ring of Ethernet descriptors promises to those on either side of *)
(* it: a bounded queue of frames.  Abstract specification, implemented by  *)
(* each direction of EthernetRing.                                         *)
(***************************************************************************)
EXTENDS Naturals, Sequences

CONSTANTS
  Frame,           (* what may be put in                                  *)
  Deliverable,     (* those of them that may come out                     *)
  Lossy,           (* a frame may be discarded instead of coming out      *)
  Capacity,
  NoFrame          (* nothing has come out yet                            *)

VARIABLES
  queue,           (* the frames inside, oldest first                     *)
  out              (* the last frame that came out                        *)

Init == queue = <<>> /\ out = NoFrame

Put ==
  /\ Len(queue) < Capacity
  /\ \E f \in Frame : queue' = Append(queue, f)
  /\ UNCHANGED out

Get ==
  /\ queue # <<>> /\ Head(queue) \in Deliverable
  /\ out' = Head(queue)
  /\ queue' = Tail(queue)

Discard ==
  /\ Lossy /\ queue # <<>>
  /\ queue' = Tail(queue)
  /\ UNCHANGED out

Next == Put \/ Get \/ Discard

Spec == Init /\ [][Next]_<<queue, out>>

(* The queue does not keep its oldest frame for ever.                      *)
Drains == WF_<<queue, out>>(Get \/ Discard)
=============================================================================
