SPECIFICATION FairSpec
CONSTANTS
  TfdNum = 2
  MaxFrames = 4
PROPERTY RequeuedIsQueued
CHECK_DEADLOCK FALSE
