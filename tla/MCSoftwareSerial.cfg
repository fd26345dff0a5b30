CONSTANTS
  DataBits = 2
  IN_BUF_SIZE = 3
  RequestLen = 2
  ReplyLen = 2
  SendDelay = 8
  NoByte <- MCNoByte
SPECIFICATION FairSpec
PROPERTIES
  RequestsArrive
  RepliesArrive
