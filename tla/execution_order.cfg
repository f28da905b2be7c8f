CONSTANTS
  z1 = z1
  z2 = z2
  Manual = Manual
  None = None
  Zones <- OneZone
  Reconcile = TRUE
  SameSecond = FALSE
  PositionFirst = TRUE
  MaxQty = 2
  MaxOrders = 2
  MaxLag = 1
  MaxFaults = 0
SPECIFICATION Spec
INVARIANTS HeldIsOpen
CHECK_DEADLOCK FALSE
