CONSTANTS
  z1 = z1
  z2 = z2
  Manual = Manual
  None = None
  Zones <- TwoZones
  Reconcile = TRUE
  SameSecond = FALSE
  PositionFirst = FALSE
  MaxQty = 2
  MaxOrders = 4
  MaxLag = 2
  MaxFaults = 1
SPECIFICATION Spec
SYMMETRY Symmetry
INVARIANTS TypeOK TracksExchange OpenHasSize RestartKeepsOpen DatabaseAgrees
CHECK_DEADLOCK FALSE
