CONSTANTS
  b1 = b1
  b2 = b2
  Bars <- TwoBars
  Capacity <- SmallQueues
  Retries <- FinalsRetried
  MaxEvents = 3
  MaxExpiries = 1
SPECIFICATION LiveSpec
INVARIANTS TypeOK FinalsAccounted SuccessIsStored StreamInOrder OneCopyPerWindow
PROPERTIES AcceptedFinalSettles CloseReturns
CHECK_DEADLOCK FALSE
