SPECIFICATION Spec
CONSTANTS
  Iface = "udp"
  Kinds = {"read", "write", "other"}
  Cmd = {c1, c2}
  Zero = z
  NWords = 3
  MaxLen = 4
  DataErrMax = 3
  CounterSize = 8
  MaxTicksPerPass = 1
INVARIANTS
  UniformBuffer
