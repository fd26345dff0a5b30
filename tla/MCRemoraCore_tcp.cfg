SPECIFICATION FairSpec
CONSTANTS
  Iface = "tcp"
  Kinds = {"write"}
  Cmd = {c1}
  Zero = z
  NWords = 1
  MaxLen = 2
  DataErrMax = 3
  CounterSize = 8
  MaxTicksPerPass = 1
PROPERTIES
  LinkComesUp
