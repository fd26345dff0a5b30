SPECIFICATION FairSpec
CONSTANTS
  Iface = "w5500"
  Kinds = {"read", "write"}
  Cmd = {c1}
  Zero = z
  NWords = 2
  MaxLen = 2
  DataErrMax = 3
  CounterSize = 8
  MaxTicksPerPass = 2
INVARIANTS
  CommandsWatched
  CommandsExpire
PROPERTIES
  WatchdogRefines
  StaleCommandsCleared
  LinkComesUp
