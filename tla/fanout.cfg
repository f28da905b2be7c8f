CONSTANTS
  Nothing = Nothing
  Clients <- TwoClients
  FinalizedLimit = 1
  FetchBatch = 2
  MaxBar = 2
  MaxMessages = 2
  MaxConnects = 2
  MaxRedelivered = 1
  MaxRest = 1
  MaxExtra = 1
SPECIFICATION LiveSpec
INVARIANTS TypeOK NewestReaches
PROPERTIES LiveNeverRegresses FinalFinalizes
CHECK_DEADLOCK FALSE
