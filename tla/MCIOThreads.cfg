CONSTANTS
  endstop = endstop
  alarm = alarm
  BaseInput = {endstop}
  ServoOrder <- MCServoOrder
  SDmax = 4
  SetPoint <- MCSetPoint
SPECIFICATION FairSpec
INVARIANTS
  DutyExact
  ServoBitsKept
PROPERTIES
  ThreeReadings
  HeldLevelIsShown
