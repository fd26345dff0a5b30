SPECIFICATION FairSpec
CONSTANTS
  Freqs <- MCFreqs
  ThreadFreq = 20
  StepWeight = 16
  Turns = 2
  CountSize = 3
  Product <- MCProduct
  Unit = 64
  Precision = 31
  Window = 3
INVARIANTS
  StepsFollowCommands
  DriveFollows
PROPERTIES
  NeverAgainstCommand
  
