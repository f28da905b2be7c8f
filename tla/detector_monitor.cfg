CONSTANTS
  NBars = 2
  MaxValue = 1
  MaxWire = 2
  MaxDrops = 1
  MaxFaults = 0
SPECIFICATION Spec
INVARIANTS MonitorSurvives
CHECK_DEADLOCK FALSE
