CONSTANTS
  b1 = b1
  v1 = v1
  w1 = w1
  w2 = w2
  Bars <- OneBar
  Values <- OneValue
  Workers <- TwoWorkers
  Filter <- SameFilter
  DeliverAll = TRUE
  TermInvalid = TRUE
  FetchBatch = 2
  MaxDeliver = 3
  MaxAckPending = 2
  MaxLog = 2
  MaxFaults = 3
  NoCandle = NoCandle
  OtherCandle = OtherCandle
  NoConsumer = NoConsumer
SPECIFICATION LiveSpec
INVARIANTS TypeOK SettledIsDurable TablesAgree GivenUpOnlyAfterFaults
PROPERTIES ExactlyOnce EventuallyStored
CHECK_DEADLOCK FALSE
