SPECIFICATION FairSpec
CONSTANTS
  Threshold = 1
  DebounceCycles = 2
  MaxPreempt = 1
  CanStall = TRUE
  Span = 2
INVARIANTS
  
  FaultShown
  EndstopShown
  DeviationShown
PROPERTIES
  DeviationReported
