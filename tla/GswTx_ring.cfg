SPECIFICATION FairSpec
CONSTANTS
  TfdNum = 3
  MaxFrames = 8
INVARIANTS RingWindow NoUseAfterFree NoDoubleFree NoLeak TxInv
PROPERTY FifoSpec QueuedIsSent
CHECK_DEADLOCK FALSE
