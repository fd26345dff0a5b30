SPECIFICATION FairSpec
CONSTANTS
  Threshold = 1
  DebounceCycles = 1
  MaxPreempt = 0
  CanStall = TRUE
  Span = 2
PROPERTIES
  ExtremeIsFatal
