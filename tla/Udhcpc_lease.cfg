SPECIFICATION FairSpec
CONSTANTS
  IPs = {"a", "b"}
  Leases <- someLeases
  MaxDelay = 1
  MaxNet = 2
  MaxSigs = 2
  ScriptWait = 3
  Static = "static"
  NoIP = "none"
INVARIANTS ListensForAnswer StatusIsTrue LeaseHonoured HeldWithinGrant
PROPERTIES KeepsAsking RequestEnds
