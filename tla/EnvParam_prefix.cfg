SPECIFICATION Spec
CONSTANTS
  Tools = {t1}
  Names <- someNames
  Values <- someValues
  MaxParams = 3
  SectorSize = 18
  MaxRead = 3
  Sectors <- someSectors
  MaxSets = 3
PROPERTY OnlySpecified
CHECK_DEADLOCK FALSE
