CONSTANTS
  Sides <- OneSide
  Zones = {z1}
  Manual = manual
  Levels = {1}
  r1 = r1
  Requests <- OneRequest
  None = None
  PositionFirst = TRUE
  MaxQty = 2
  MaxChanges = 3
  MaxRequests = 1
  MaxFaults = 1
SPECIFICATION Spec
INVARIANTS TypeOK OverlayFollows
CHECK_DEADLOCK FALSE
