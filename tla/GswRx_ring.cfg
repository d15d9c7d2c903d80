SPECIFICATION FairSpec
CONSTANTS
  RfdNum = 4
  PendCnt = 2
  Quota = 2
  AllocMayFail = TRUE
  Unwatched = TRUE
  MaxFrames = 8
  MaxCloses = 1
INVARIANTS RingWindow PollHandshake NoLostWakeup StallHasCause
PROPERTIES FifoSpec ArrivedIsPassed
CHECK_DEADLOCK FALSE
