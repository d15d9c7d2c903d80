SPECIFICATION FairSpec
CONSTANTS
  reset = reset
  wps = wps
  Buttons = {reset, wps}
  Wait <- ShortWait
  MaxEdges = 5
INVARIANTS ButtonAlive PressIsWatched OneBytePerReport ReportExpires UnloadedIsQuiet
PROPERTY HeldIsReported
CHECK_DEADLOCK FALSE
