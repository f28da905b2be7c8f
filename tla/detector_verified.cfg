CONSTANTS
  NBars = 1
  MaxValue = 2
  MaxWire = 2
  MaxDrops = 1
  MaxFaults = 0
SPECIFICATION Spec
INVARIANTS RestValueStays
CHECK_DEADLOCK FALSE
