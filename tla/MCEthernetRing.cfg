SPECIFICATION FairSpec
CONSTANTS
  Frame = {f1, bad, long}
  Bad = {bad}
  Long = {long}
  Reply = {r1, r2}
  NoFrame = none
  RxN = 2
  TxN = 2
  MaxReplies = 2
INVARIANTS
  OnlyFullBlocks
  NoLostWakeup
PROPERTIES
  ReceiveImplements
  TransmitImplements
  RingsDrain
