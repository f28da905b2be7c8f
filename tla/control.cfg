CONSTANTS
  Zones = {1}
  Entries = {1}
  None = None
  Keys = {"enable_trading"}
  MaxSets = 1
  MaxFaults = 1
SPECIFICATION ControlSpec
INVARIANTS ProjectionFollows
PROPERTIES StaysOff SwitchesArrive
CHECK_DEADLOCK FALSE
