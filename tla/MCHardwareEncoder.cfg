SPECIFICATION FairSpec
CONSTANTS
  HalfPeriod = 2
  Wraps = 2
  MaxMove = 1
  DebounceSamples = 3
  Latches = {TRUE, FALSE}
  Clears = {TRUE, FALSE}
  Span = 5
INVARIANTS
  CountFollowsShaft
  FullRunShown
PROPERTIES
  FaultIsStable
  FaultIsLatched
  FaultIsReported
