SPECIFICATION Spec
CONSTANTS
  AgingTime = 1
  PhyInterval = 2
  Tries = 4
  RadioModes <- someModes
  CablePorts <- twoPorts
  LeftBlocked = {}
  MaxFailures = 0
  MaxEvents = 2
INVARIANT NoneLeftBlocked
CHECK_DEADLOCK FALSE
