SPECIFICATION Spec
CONSTANTS
  Tools = {t1, t2}
  Names <- someNames
  Values <- someValues
  MaxParams = 3
  SectorSize = 18
  MaxRead = 3
  Sectors <- someSectors
  MaxSets = 3
INVARIANTS Parses
PROPERTIES SetIsRead OthersKept
CHECK_DEADLOCK FALSE
