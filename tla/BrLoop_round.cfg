SPECIFICATION FairSpec
CONSTANTS
  AgingTime = 1
  PhyInterval = 2
  Tries = 4
  RadioModes <- onlyWpa
  CablePorts <- twoPorts
  LeftBlocked = {3}
  MaxFailures = 1
  MaxEvents = 2
INVARIANTS TypeOK RecordedIsBlocked NoStaleReport
PROPERTIES LoopIsBroken TopologyChangeEnds
CHECK_DEADLOCK FALSE
