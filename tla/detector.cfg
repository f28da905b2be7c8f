CONSTANTS
  NBars = 2
  MaxValue = 2
  MaxWire = 2
  MaxDrops = 1
  MaxFaults = 1
SPECIFICATION LiveSpec
INVARIANTS TypeOK EvaluatedOnce NoBarSkipped AnnouncedIsStored
PROPERTIES RowNeverRegresses EndedIsAnnounced
CHECK_DEADLOCK FALSE
