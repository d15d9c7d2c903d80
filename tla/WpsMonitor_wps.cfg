SPECIFICATION FairSpec
CONSTANTS
  MaxStarts = 2
  MaxStops = 1
  WaitTries = 1
  MissTries = 1
  EngineCodes <- someCodes
  LastCodes <- someLastCodes
  Prompt = TRUE
INVARIANTS OneMonitor RestIsClean
PROPERTIES SignalledEnds HoldEnds
CHECK_DEADLOCK FALSE
