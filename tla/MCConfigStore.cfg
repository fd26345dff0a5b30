SPECIFICATION FairSpec
CONSTANTS
  small = small
  large = large
  Files = {small, large}
  NoFile = NoFile
  Mixed = Mixed
  Blocks <- MCBlocks
  Last <- MCLast
  Conns <- MCConns
  Slots = 6
  MaxPowerLoss = 2
INVARIANTS
  StoredIntact
  RunsIntact
  FatalOnlyIfInterrupted
  DeliveredRuns
PROPERTIES
  DeliveredIsRun
