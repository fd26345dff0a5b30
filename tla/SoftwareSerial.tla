-------------------------- MODULE SoftwareSerial ---------------------------
(***************************************************************************)
(* SoftwareSerial.cpp on the one wire to a TMC driver, with the exchange   *)
(* of TMC2208Stepper.cpp over it: the main program puts the bytes of a     *)
(* request into one buffer, the serial interrupt shifts them out, turns    *)
(* the wire round and samples the answer.  One Tick is one interrupt, a    *)
(* third of a bit; it may come between any two statements of the program.  *)
(* The driver at the other end is external: it listens, and answers or not.*)
(* A definition named XMut is X with a plausible slip, kept beside X.      *)
(***************************************************************************)
EXTENDS Integers, Sequences

CONSTANTS
  DataBits,        (* RX_BITS; TX_BITS is two more                        *)
  IN_BUF_SIZE,
  RequestLen, ReplyLen,    (* bytes                                       *)
  SendDelay,       (* bit times after which the driver answers            *)
  NoByte

oversample == 3
TX_BITS    == DataBits + 2
Byte       == 0..(2^DataBits - 1)

VARIABLES
  activeTx, outputPending, txTickCnt, txBitCnt, txBuffer,
  pin, driving,    (* the pin's output latch; it is an output             *)
  activeRx, rxTickCnt, rxBitCnt, rxBuffer,
  inbuf, qin, qout,
  pc, left,        (* the statement of the program; bytes left to be      *)
                   (* written or read                                     *)
  got,             (* the last byte read                                  *)
  dMode, dCnt, dByte, dSkew, dLeft,    (* the driver                      *)
  heard,           (* the last byte it has received                       *)
  sentBytes, repliedBytes    (* history: on their way to the driver; from *)
                             (* the driver to the program                 *)

tx     == <<activeTx, txTickCnt, txBitCnt, txBuffer, pin, driving>>
rx     == <<activeRx, rxTickCnt, rxBitCnt, rxBuffer>>
buffer == <<inbuf, qin>>
driver == <<dMode, dCnt, dByte, dSkew, dLeft, heard>>
vars   == <<tx, outputPending, rx, buffer, qout, pc, left, got, driver, sentBytes, repliedBytes>>

Bit(b, k) == (b \div 2^k) % 2

-----------------------------------------------------------------------------
(* send: called with activeTx set.                                         *)
Due == activeTx /\ txTickCnt <= 1

SendRests ==
  /\ ~Due
  /\ txTickCnt' = IF activeTx THEN txTickCnt - 1 ELSE txTickCnt
  /\ UNCHANGED <<activeTx, txBitCnt, txBuffer, pin, driving>>

SendBit ==
  /\ Due /\ txBitCnt < TX_BITS
  /\ pin' = txBuffer % 2 /\ txBuffer' = txBuffer \div 2
  /\ txTickCnt' = oversample /\ txBitCnt' = txBitCnt + 1
  /\ UNCHANGED <<activeTx, driving>>

(* The frame is out.  With a byte pending the transmitter is free at once; *)
(* else it stays for five bit times before the wire is turned round.       *)
Lasts    == txBitCnt + 1 > TX_BITS + oversample * 5
FrameOut == Due /\ txBitCnt >= TX_BITS
Turns    == FrameOut /\ ~outputPending /\ Lasts

SendEnds ==
  /\ FrameOut
  /\ txBitCnt' = txBitCnt + 1 /\ txTickCnt' = 1
  /\ activeTx' = ~(outputPending \/ Lasts)
  /\ driving' = (driving /\ ~Turns)
  /\ UNCHANGED <<txBuffer, pin>>

(* receive, after send: with activeRx set, which send may just have done.  *)
(* The start bit is met at most a third of a bit late, and the data bits   *)
(* are read from their middle third on.                                    *)
FirstSampleMut == oversample
FirstSample == oversample + 1
Receive(line) ==
  LET cnt == (IF Turns THEN 2 ELSE rxTickCnt) - 1
      bit == IF Turns THEN -1 ELSE rxBitCnt
  IN
  /\ activeRx' = (activeRx \/ Turns)
  /\ \/ ~activeRx' /\ UNCHANGED <<rxTickCnt, rxBitCnt, rxBuffer, buffer>>
     \/ /\ activeRx' /\ cnt > 0
        /\ rxTickCnt' = cnt /\ rxBitCnt' = bit /\ UNCHANGED <<rxBuffer, buffer>>
     \/ /\ activeRx' /\ cnt <= 0 /\ bit = -1
        /\ IF line = 0 THEN rxBitCnt' = 0 /\ rxTickCnt' = FirstSample /\ rxBuffer' = 0
                       ELSE rxBitCnt' = bit /\ rxTickCnt' = 1 /\ UNCHANGED rxBuffer
        /\ UNCHANGED buffer
     \/ /\ activeRx' /\ cnt <= 0 /\ bit >= DataBits
        /\ inbuf' = [inbuf EXCEPT ![qin] = rxBuffer]
        /\ qin' = (qin + 1) % IN_BUF_SIZE
        /\ rxTickCnt' = 1 /\ rxBitCnt' = -1 /\ UNCHANGED rxBuffer
     \/ /\ activeRx' /\ cnt <= 0 /\ bit \in 0..(DataBits - 1)
        /\ rxBuffer' = rxBuffer \div 2 + line * 2^(DataBits - 1)
        /\ rxBitCnt' = bit + 1 /\ rxTickCnt' = oversample /\ UNCHANGED buffer

-----------------------------------------------------------------------------
(* The wire: pulled up, and undefined where the two drive it apart.        *)
FrameBits(b) == [k \in 0..(DataBits + 1) |->
                   IF k = 0 THEN 0 ELSE IF k > DataBits THEN 1 ELSE Bit(b, k - 1)]

(* The driver's clock may be off by a third of a bit over a frame.         *)
BitAt  == IF dCnt < oversample + dSkew THEN 0 ELSE (dCnt - dSkew) \div oversample
Driven == (IF driving THEN {pin} ELSE {}) \union (IF dMode = "talk" THEN {FrameBits(dByte)[BitAt]} ELSE {})
Wire   == IF Driven = {} THEN {1} ELSE Driven

(* It meets a start bit, and samples each bit in one of its three thirds.  *)
DriverListens(line) ==
  /\ dMode = "listen"
  /\ IF line = 1 THEN UNCHANGED driver
     ELSE /\ dMode' = "frame" /\ dCnt' = 1 /\ dByte' = 0
          /\ dSkew' \in 0..(oversample - 1)
          /\ UNCHANGED <<dLeft, heard>>
  /\ UNCHANGED <<sentBytes, repliedBytes>>

BitDue == dCnt >= oversample /\ dCnt % oversample = dSkew
BitNo  == dCnt \div oversample

DriverSamples(line) ==
  /\ dMode = "frame" /\ dCnt' = dCnt + 1
  /\ IF BitDue /\ BitNo <= DataBits THEN dByte' = dByte + line * 2^(BitNo - 1) ELSE UNCHANGED dByte
  /\ ~(BitDue /\ BitNo > DataBits)
  /\ UNCHANGED <<dMode, dSkew, dLeft, heard, sentBytes, repliedBytes>>

(* The stop bit.  After a whole request the driver may have an answer to   *)
(* give; a frame without a stop bit is not what was sent.                  *)
DriverHears(line) ==
  /\ dMode = "frame" /\ BitDue /\ BitNo > DataBits
  /\ heard' = (IF line = 1 THEN dByte ELSE NoByte)
  /\ sentBytes' = IF sentBytes = <<>> THEN <<>> ELSE Tail(sentBytes)
  /\ \/ dMode' = "listen" /\ dLeft' = (IF dLeft = 1 THEN RequestLen ELSE dLeft - 1)
     \/ dMode' = "hold" /\ dLeft = 1 /\ dLeft' = ReplyLen
  /\ dCnt' = 0 /\ dByte' = 0
  /\ dSkew' = (IF dMode' = "hold" THEN dSkew ELSE 0)
  /\ UNCHANGED repliedBytes

(* The rest of the stop bit and the delay; then the answer.                *)
Answers ==
  /\ dMode' = "talk" /\ dCnt' = 0
  /\ dByte' \in Byte /\ dSkew' \in {-1, 0, 1}
  /\ repliedBytes' = Append(repliedBytes, dByte')

DriverHolds ==
  /\ dMode = "hold"
  /\ IF dCnt + dSkew + 1 < oversample * (SendDelay + 1)
     THEN dCnt' = dCnt + 1 /\ UNCHANGED <<dMode, dByte, dSkew, repliedBytes>>
     ELSE Answers
  /\ UNCHANGED <<dLeft, heard, sentBytes>>

DriverTalks ==
  /\ dMode = "talk"
  /\ IF dCnt + 1 < oversample * TX_BITS + dSkew
     THEN dCnt' = dCnt + 1 /\ UNCHANGED <<dMode, dByte, dSkew, dLeft, repliedBytes>>
     ELSE \/ dLeft > 1 /\ Answers /\ dLeft' = dLeft - 1
          \/ /\ dLeft = 1 /\ dMode' = "listen" /\ dLeft' = RequestLen
             /\ dCnt' = 0 /\ dByte' = 0 /\ dSkew' = 0 /\ UNCHANGED repliedBytes
  /\ UNCHANGED <<heard, sentBytes>>

(* One interrupt, and a third of a bit on the wire.                        *)
Tick ==
  /\ \E line \in Wire :
       /\ SendRests \/ SendBit \/ SendEnds
       /\ Receive(line)
       /\ \/ DriverListens(line) \/ DriverSamples(line) \/ DriverHears(line)
          \/ DriverHolds \/ DriverTalks
  /\ UNCHANGED <<outputPending, qout, pc, left, got>>

-----------------------------------------------------------------------------
(* The program: write, for each byte of a request.                         *)
Goto(from, to) == pc = from /\ pc' = to

program == <<tx, outputPending, rx, buffer, qout, left, got, driver, sentBytes, repliedBytes>>

(* To write a register the bytes go out at once; to read one, listen gives *)
(* the wire up first and waits on it for a start bit.                      *)
StartWrite ==
  /\ Goto("idle", "pend") /\ left' = RequestLen
  /\ UNCHANGED <<tx, outputPending, rx, buffer, qout, got, driver, sentBytes, repliedBytes>>

StartRead ==
  /\ Goto("idle", "pend") /\ left' = RequestLen
  /\ driving' = FALSE
  /\ activeRx' = TRUE /\ rxBitCnt' = -1 /\ rxTickCnt' = 2
  /\ UNCHANGED <<activeTx, txTickCnt, txBitCnt, txBuffer, pin, outputPending, rxBuffer, buffer, qout,
                 got, driver, sentBytes, repliedBytes>>

Pend ==
  /\ Goto("pend", "wait") /\ outputPending' = TRUE
  /\ UNCHANGED <<tx, rx, buffer, qout, left, got, driver, sentBytes, repliedBytes>>

AwaitMut ==
  /\ Goto("wait", "load")
  /\ UNCHANGED program
Await ==
  /\ Goto("wait", "load") /\ ~activeTx
  /\ UNCHANGED program

(* setRXTX(false) takes the wire back if it was given up.                  *)
Load(b) ==
  /\ Goto("load", "clear")
  /\ txBuffer' = 2 * b + 2^(DataBits + 1) /\ txBitCnt' = 0 /\ txTickCnt' = oversample
  /\ driving' = (driving \/ activeRx) /\ pin' = (IF activeRx THEN 1 ELSE pin)
  /\ activeRx' = FALSE
  /\ sentBytes' = Append(sentBytes, b)
  /\ UNCHANGED <<activeTx, outputPending, rxTickCnt, rxBitCnt, rxBuffer, buffer, qout, left, got,
                 driver, repliedBytes>>

Clear ==
  /\ Goto("clear", "activate") /\ outputPending' = FALSE
  /\ UNCHANGED <<tx, rx, buffer, qout, left, got, driver, sentBytes, repliedBytes>>

Activate ==
  /\ pc = "activate" /\ activeTx' = TRUE
  /\ IF left > 1 THEN pc' = "pend" /\ left' = left - 1 ELSE pc' = "read" /\ left' = ReplyLen
  /\ UNCHANGED <<txTickCnt, txBitCnt, txBuffer, pin, driving, outputPending, rx, buffer, qout, got,
                 driver, sentBytes, repliedBytes>>

(* read: -1, and another try, while nothing has come.                      *)
Read ==
  /\ pc = "read" /\ qout # qin
  /\ got' = inbuf[qout] /\ qout' = (qout + 1) % IN_BUF_SIZE
  /\ IF left > 1 THEN left' = left - 1 /\ UNCHANGED pc ELSE left' = 0 /\ pc' = "idle"
  /\ repliedBytes' = IF repliedBytes = <<>> THEN <<>> ELSE Tail(repliedBytes)
  /\ UNCHANGED <<tx, outputPending, rx, buffer, driver, sentBytes>>

(* The five milliseconds after a request that is not answered: longer than *)
(* the transmitter stays active and than the driver takes to begin.        *)
GiveUp ==
  /\ Goto("read", "idle") /\ left' = 0
  /\ ~activeTx
  /\ dMode = "listen" /\ sentBytes = <<>> /\ repliedBytes = <<>>
  /\ UNCHANGED <<tx, outputPending, rx, buffer, qout, got, driver, sentBytes, repliedBytes>>

Program == Pend \/ Await \/ (\E b \in Byte : Load(b)) \/ Clear \/ Activate \/ Read \/ GiveUp

-----------------------------------------------------------------------------
Init ==
  /\ activeTx = FALSE /\ outputPending = FALSE /\ txTickCnt = 0 /\ txBitCnt = 0 /\ txBuffer = 0
  /\ pin = 1 /\ driving = TRUE
  /\ activeRx = FALSE /\ rxTickCnt = 0 /\ rxBitCnt = -1 /\ rxBuffer = 0
  /\ inbuf = [k \in 0..(IN_BUF_SIZE - 1) |-> 0] /\ qin = 0 /\ qout = 0
  /\ pc = "idle" /\ left = 0 /\ got = NoByte
  /\ dMode = "listen" /\ dCnt = 0 /\ dByte = 0 /\ dSkew = 0 /\ dLeft = RequestLen /\ heard = NoByte
  /\ sentBytes = <<>> /\ repliedBytes = <<>>

Next == Tick \/ StartWrite \/ StartRead \/ Program

Spec == Init /\ [][Next]_vars

(* The serial timer runs, and the program, which is not waited for by any  *)
(* other, goes on with a request it has begun.                             *)
FairSpec == Spec /\ WF_vars(Tick) /\ WF_vars(Program)

-----------------------------------------------------------------------------
Request == INSTANCE FrameQueue WITH
             Frame <- Byte, Deliverable <- Byte, Lossy <- FALSE, Capacity <- 1,
             NoFrame <- NoByte, queue <- sentBytes, out <- heard
Reply   == INSTANCE FrameQueue WITH
             Frame <- Byte, Deliverable <- Byte, Lossy <- FALSE, Capacity <- ReplyLen,
             NoFrame <- NoByte, queue <- repliedBytes, out <- got

(* The driver hears every byte of a request, in order and as it was        *)
(* written, in whichever third of a bit it samples and wherever the        *)
(* program is held up.                                                     *)
RequestsArrive == Request!Spec /\ Request!Drains

(* The program reads every byte of an answer: the wire is turned round     *)
(* before the driver's shortest delay has passed, and the samples fall     *)
(* into the right bits though its clock is off by a third of a bit.        *)
RepliesArrive == Reply!Spec /\ Reply!Drains
=============================================================================
