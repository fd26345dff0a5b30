--------------------------- MODULE EthernetRing ----------------------------
(***************************************************************************)
(* ethernetif.c: the receive and the transmit descriptors that the main    *)
(* loop and the DMA of the Ethernet controller share.  The OWN bit of a    *)
(* descriptor says whose it is; nothing else keeps the two apart, for the  *)
(* DMA runs beside the processor and may come between any two of its       *)
(* accesses.                                                               *)
(* A definition named XMut is X with a plausible slip, kept beside X.      *)
(***************************************************************************)
EXTENDS Naturals, Sequences

CONSTANTS
  Frame,           (* frames on the network                               *)
  Bad,             (* those of them that come damaged, with ES set        *)
  Long,            (* those longer than ETH_RX_BUF_SIZE, in two buffers   *)
  Reply,           (* frames the stack sends                              *)
  NoFrame,
  RxN, TxN,        (* ETH_RXBUFNB, ETH_TXBUFNB                            *)
  MaxReplies       (* frames the stack sends in answer to one             *)

(* What a receive descriptor holds: of which frame, and which part of it.  *)
(* FS and LS are set for the whole of it, FS alone for the first part, LS  *)
(* alone for the last, and LS with ES for a frame cut short because there  *)
(* was no descriptor for its rest.                                         *)
Piece == [frame : Frame, part : {"whole", "first", "last", "cut"}]

ASSUME FrameAssumption ==
  /\ Bad \subseteq Frame /\ Long \subseteq Frame
  /\ NoFrame \notin Frame \union Reply \union Piece
ASSUME RingAssumption  == RxN \in Nat \ {0} /\ TxN \in Nat \ {0} /\ MaxReplies \in Nat

VARIABLES
  pc,              (* the step of ethernetif_input the main loop is at    *)
  curRx, curTx,    (* CurRxDesc, CurTxDesc                                *)
  rxOwned, txOwned,    (* descriptors with OWN set                        *)
  rxFrame, txFrame,    (* Rx_Buff, Tx_Buff with their lengths             *)
  p,               (* the pbuf low_level_input returns                    *)
  delivered,       (* the last frame passed to netif->input               *)
  reply, budget,   (* the pbuf being sent; how many more may follow       *)
  dmaRx, storing,  (* DMA: its receive descriptor, a buffer is half in    *)
  rest,            (* DMA: the long frame whose last part is to come      *)
  dmaTx, sending,  (* DMA: its transmit descriptor, the frame fetched     *)
  txIdle,          (* DMA: transmission is suspended until DMATPDR        *)
  wire             (* the last frame sent                                 *)

loop == <<p, delivered, reply, budget>>
rx   == <<rxOwned, rxFrame, dmaRx, storing, rest>>
tx   == <<txOwned, txFrame, dmaTx, sending, txIdle, wire>>
vars == <<pc, curRx, curTx, loop, rx, tx>>

RxSlots == 0..(RxN - 1)
TxSlots == 0..(TxN - 1)

(* DESC3, the chain of descriptors: the last one points to the first.      *)
NextSlot(i, n) == IF i + 1 = n THEN 0 ELSE i + 1

Goto(from, to) == pc = from /\ pc' = to

(* low_level_init: the DMA owns what can be received into, the processor   *)
(* what can be sent from; both start at the head of the lists.             *)
Init ==
  /\ pc = "idle" /\ curRx = 0 /\ curTx = 0
  /\ rxOwned = RxSlots /\ txOwned = {}
  /\ rxFrame = [i \in RxSlots |-> NoFrame] /\ txFrame = [i \in TxSlots |-> NoFrame]
  /\ p = NoFrame /\ delivered = NoFrame /\ reply = NoFrame /\ budget = 0
  /\ dmaRx = 0 /\ storing = FALSE /\ rest = NoFrame
  /\ dmaTx = 0 /\ sending = NoFrame /\ txIdle = FALSE /\ wire = NoFrame

-----------------------------------------------------------------------------
(* Reception: ethernetif_input and low_level_input, once per pass of the   *)
(* main loop.  With OWN set there is nothing to read and nothing changes.  *)
CheckRxOwn ==
  /\ Goto("idle", "copy")
  /\ curRx \notin rxOwned
  /\ UNCHANGED <<curRx, curTx, loop, rx, tx>>

(* LS without ES: FS is not looked at, so that the last part of a long     *)
(* frame passes as a frame of its own.                                     *)
Accepted(d) == d.part \in {"whole", "last"} /\ d.frame \notin Bad
Passed == {d \in Piece : Accepted(d)}

(* It is copied if a pbuf is free.  FL is the length of the frame: for a   *)
(* last part the copy begins with it and goes on behind it for as many     *)
(* bytes as the first part had.                                            *)
CopyFrame ==
  /\ Goto("copy", "release")
  /\ p' \in IF Accepted(rxFrame[curRx]) THEN {rxFrame[curRx], NoFrame} ELSE {NoFrame}
  /\ UNCHANGED <<curRx, curTx, delivered, reply, budget, rx, tx>>

(* DESC0 = OWN, whatever became of the frame.                              *)
GiveBackMut ==
  /\ Goto("release", "resume")
  /\ rxOwned' = IF p = NoFrame THEN rxOwned ELSE rxOwned \union {curRx}
  /\ UNCHANGED <<curRx, curTx, loop, rxFrame, dmaRx, storing, rest, tx>>
GiveBack ==
  /\ Goto("release", "resume")
  /\ rxOwned' = rxOwned \union {curRx}
  /\ UNCHANGED <<curRx, curTx, loop, rxFrame, dmaRx, storing, rest, tx>>

(* RBUS and DMARPDR wake the receiver; it would also look again at the     *)
(* next frame, so a suspended receiver is no state of its own.             *)
ResumeRxMut ==
  /\ pc = "resume"
  /\ pc' = IF p = NoFrame THEN "idle" ELSE "input"
  /\ curRx' = IF p = NoFrame THEN curRx ELSE NextSlot(curRx, RxN)
  /\ UNCHANGED <<curTx, loop, rx, tx>>
ResumeRx ==
  /\ pc = "resume"
  /\ pc' = IF p = NoFrame THEN "idle" ELSE "input"
  /\ curRx' = NextSlot(curRx, RxN)
  /\ UNCHANGED <<curTx, loop, rx, tx>>

(* netif->input: the stack consumes the frame, or it is freed.             *)
Input ==
  /\ Goto("input", "stack")
  /\ delivered' = p /\ p' = NoFrame
  /\ budget' = MaxReplies
  /\ UNCHANGED <<curRx, curTx, reply, rx, tx>>

StackReturns ==
  /\ Goto("stack", "idle")
  /\ budget' = 0
  /\ UNCHANGED <<curRx, curTx, p, delivered, reply, rx, tx>>

-----------------------------------------------------------------------------
(* Transmission: low_level_output, called from within the stack.           *)
CheckTxOwnMut(f) ==
  /\ Goto("stack", "fill")
  /\ budget > 0 /\ budget' = budget - 1
  /\ reply' = f
  /\ UNCHANGED <<curRx, curTx, p, delivered, rx, tx>>
CheckTxOwn(f) ==
  /\ Goto("stack", "fill")
  /\ budget > 0 /\ budget' = budget - 1
  /\ curTx \notin txOwned
  /\ reply' = f
  /\ UNCHANGED <<curRx, curTx, p, delivered, rx, tx>>

(* ERR_USE: the callers do not try again.                                  *)
Refuse ==
  /\ Goto("stack", "stack")
  /\ budget > 0 /\ budget' = budget - 1
  /\ curTx \in txOwned
  /\ UNCHANGED <<curRx, curTx, p, delivered, reply, rx, tx>>

Fill ==
  /\ Goto("fill", "own")
  /\ txFrame' = [txFrame EXCEPT ![curTx] = reply]
  /\ reply' = NoFrame
  /\ UNCHANGED <<curRx, curTx, p, delivered, budget, rx, txOwned, dmaTx, sending, txIdle, wire>>

HandOver ==
  /\ Goto("own", "poll")
  /\ txOwned' = txOwned \union {curTx}
  /\ UNCHANGED <<curRx, curTx, loop, rx, txFrame, dmaTx, sending, txIdle, wire>>

(* DMATPDR = 0 and on to the next descriptor.                              *)
ResumeTxMut ==
  /\ Goto("poll", "stack")
  /\ curTx' = NextSlot(curTx, TxN)
  /\ UNCHANGED <<curRx, loop, rx, txOwned, txFrame, dmaTx, sending, txIdle, wire>>
ResumeTx ==
  /\ Goto("poll", "stack")
  /\ txIdle' = FALSE
  /\ curTx' = NextSlot(curTx, TxN)
  /\ UNCHANGED <<curRx, loop, rx, txOwned, txFrame, dmaTx, sending, wire>>

-----------------------------------------------------------------------------
(* The DMA.  It writes into a descriptor it owns, hands it over and goes   *)
(* on to the next; a frame that finds its descriptor not owned is missed.  *)
Store(f, part) ==
  /\ ~storing /\ storing' = TRUE
  /\ dmaRx \in rxOwned
  /\ rxFrame' = [rxFrame EXCEPT ![dmaRx] = [frame |-> f, part |-> part]]
  /\ UNCHANGED <<pc, curRx, curTx, loop, rxOwned, dmaRx, rest, tx>>

DmaStore(f) == rest = NoFrame /\ Store(f, IF f \in Long THEN "first" ELSE "whole")

DmaStoreRest == rest # NoFrame /\ Store(rest, "last")

(* The descriptor after a first part is looked at before that part is      *)
(* handed over: if it is not the DMA's, the frame ends here.               *)
DmaStored ==
  /\ storing /\ storing' = FALSE
  /\ rxOwned' = rxOwned \ {dmaRx}
  /\ dmaRx' = NextSlot(dmaRx, RxN)
  /\ rest' = IF rxFrame[dmaRx].part = "first" /\ dmaRx' \in rxOwned'
             THEN rxFrame[dmaRx].frame ELSE NoFrame
  /\ rxFrame' = IF rxFrame[dmaRx].part = "first" /\ dmaRx' \notin rxOwned'
                THEN [rxFrame EXCEPT ![dmaRx].part = "cut"] ELSE rxFrame
  /\ UNCHANGED <<pc, curRx, curTx, loop, tx>>

(* It fetches what it owns, in order, and suspends itself at a descriptor  *)
(* that it does not own.                                                   *)
DmaFetch ==
  /\ ~txIdle /\ sending = NoFrame /\ dmaTx \in txOwned
  /\ sending' = txFrame[dmaTx]
  /\ UNCHANGED <<pc, curRx, curTx, loop, rx, txOwned, txFrame, dmaTx, txIdle, wire>>

DmaSuspend ==
  /\ ~txIdle /\ sending = NoFrame /\ dmaTx \notin txOwned
  /\ txIdle' = TRUE
  /\ UNCHANGED <<pc, curRx, curTx, loop, rx, txOwned, txFrame, dmaTx, sending, wire>>

DmaSent ==
  /\ sending # NoFrame /\ sending' = NoFrame
  /\ wire' = sending
  /\ txOwned' = txOwned \ {dmaTx}
  /\ dmaTx' = NextSlot(dmaTx, TxN)
  /\ UNCHANGED <<pc, curRx, curTx, loop, rx, txFrame, txIdle>>

-----------------------------------------------------------------------------
Receive  == CheckRxOwn \/ CopyFrame \/ GiveBack \/ ResumeRx \/ Input \/ StackReturns
Transmit == (\E f \in Reply : CheckTxOwn(f)) \/ Refuse \/ Fill \/ HandOver \/ ResumeTx
MainLoop == Receive \/ Transmit

DmaReceive  == (\E f \in Frame : DmaStore(f)) \/ DmaStoreRest \/ DmaStored
DmaTransmit == DmaFetch \/ DmaSuspend \/ DmaSent

Next == MainLoop \/ DmaReceive \/ DmaTransmit

Spec == Init /\ [][Next]_vars

(* Remora::run calls comms->tasks for ever and no call of it waits; the    *)
(* controller ends what it has begun.  The network owes nothing.           *)
FairSpec ==
  Spec /\ WF_vars(MainLoop) /\ WF_vars(DmaStored) /\ WF_vars(DmaTransmit)

-----------------------------------------------------------------------------
TypeOK ==
  /\ pc \in {"idle", "copy", "release", "resume", "input", "stack", "fill", "own", "poll"}
  /\ curRx \in RxSlots /\ dmaRx \in RxSlots /\ rxOwned \subseteq RxSlots
  /\ curTx \in TxSlots /\ dmaTx \in TxSlots /\ txOwned \subseteq TxSlots
  /\ rxFrame \in [RxSlots -> Piece \union {NoFrame}]
  /\ storing => rxFrame[dmaRx] \in Piece
  /\ txFrame \in [TxSlots -> Reply \union {NoFrame}]
  /\ p \in Piece \union {NoFrame} /\ delivered \in Piece \union {NoFrame}
  /\ reply \in Reply \union {NoFrame} /\ budget \in 0..MaxReplies
  /\ storing \in BOOLEAN /\ rest \in Frame \union {NoFrame} /\ txIdle \in BOOLEAN
  /\ sending \in Reply \union {NoFrame} /\ wire \in Reply \union {NoFrame}

-----------------------------------------------------------------------------
(* The refinement: each ring is a queue.                                   *)

(* The slot k places after i; how many places j is after i; how many slots *)
(* there are from the one at head to the one at tail, all or none of them  *)
(* when both are the same.                                                 *)
At(i, k, n)   == IF i + k < n THEN i + k ELSE i + k - n
Dist(i, j, n) == IF i <= j THEN j - i ELSE j - i + n
Count(head, tail, full, n) ==
  IF head # tail THEN Dist(head, tail, n) ELSE IF full THEN n ELSE 0
Content(frames, head, count, n) == [k \in 1..count |-> frames[At(head, k - 1, n)]]
QueueOf(frames, used, head, tail, n) ==
  Content(frames, head, Count(head, tail, head \in used, n), n)

(* The frames received are those from the descriptor read next to the one  *)
(* the DMA fills next, after the one that is on its way to the stack.      *)
RxHeld  == RxSlots \ rxOwned
RxHead  == IF pc = "resume" THEN NextSlot(curRx, RxN) ELSE curRx
RxRing  == QueueOf(rxFrame, RxHeld, RxHead, dmaRx, RxN)
InHand  == pc \in {"resume", "input"} /\ p # NoFrame
RxQueue == IF InHand THEN <<p>> \o RxRing ELSE RxRing

(* The frames to be sent are those from the descriptor the DMA is at to    *)
(* the one to be filled next.                                              *)
TxTail  == IF pc = "poll" THEN NextSlot(curTx, TxN) ELSE curTx
TxQueue == QueueOf(txFrame, txOwned, dmaTx, TxTail, TxN)

RxSpec == INSTANCE FrameQueue WITH
            Frame <- Piece, Deliverable <- Passed, Lossy <- TRUE, Capacity <- RxN + 1,
            queue <- RxQueue, out <- delivered
TxSpec == INSTANCE FrameQueue WITH
            Frame <- Reply, Deliverable <- Reply, Lossy <- FALSE, Capacity <- TxN,
            queue <- TxQueue, out <- wire

(* Whatever the DMA does between the accesses of low_level_input, the      *)
(* stack gets buffers that were filled, in order, none of them twice or    *)
(* while it is being written, none with ES set or LS clear.  Of a frame    *)
(* that takes two buffers it gets the last one, as if it were a frame.     *)
ReceiveImplements == RxSpec!Spec

(* What low_level_output accepted is sent, in order, once and as it was    *)
(* handed over: nothing is overwritten before the DMA is done with it.     *)
TransmitImplements == TxSpec!Spec

(* A frame is missed, and a reply refused, only with every descriptor in   *)
(* use: however frames are dropped, none is left where neither the DMA nor *)
(* the main loop will look for it.                                         *)
OnlyFullBlocks ==
  /\ dmaRx \notin rxOwned => rxOwned = {}
  /\ curTx \in txOwned /\ pc # "poll" => txOwned = TxSlots

(* The DMA suspends itself at a descriptor just before the processor hands *)
(* it over, or just after: with transmission suspended nothing waits to be *)
(* sent, unless the write that ends the suspension is the next access.     *)
NoLostWakeup == txIdle /\ dmaTx \in txOwned => pc = "poll"

(* No frame stays in either ring for ever: no wake-up of the DMA is lost   *)
(* between its look at OWN and the write that sets it.                     *)
RingsDrain == RxSpec!Drains /\ TxSpec!Drains
=============================================================================
