SPECIFICATION FairSpec
CONSTANTS
  HasIndex = TRUE
  IndexPulse = 3
  MaxPulse = 3
  Span = 5
INVARIANTS
  TypeOK
  CountFollowsShaft
  FeedbackLag
PROPERTIES
  FeedbackRefreshed
