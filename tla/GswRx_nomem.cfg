SPECIFICATION Spec
CONSTANTS
  RfdNum = 3
  PendCnt = 2
  Quota = 2
  AllocMayFail = TRUE
  Unwatched = FALSE
  MaxFrames = 6
  MaxCloses = 0
INVARIANTS NoRxStall
CHECK_DEADLOCK FALSE
