CONSTANTS
  Sides <- OneSide
  Entries = {1}
  Levels = {1}
  b1 = b1
  b2 = b2
  r1 = r1
  r2 = r2
  Clients <- TwoClients
  Requests <- TwoRequests
  None = None
  MaxPuts = 3
SPECIFICATION Spec
SYMMETRY Symmetry
INVARIANTS TypeOK BrowserFollows
CHECK_DEADLOCK FALSE
