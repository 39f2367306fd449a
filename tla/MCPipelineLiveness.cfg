SPECIFICATION FairSpec
CONSTANTS
  r1 = r1
  r2 = r2
  Repos = {r1}
  MaxWork = 1
  MaxPrs = 1
  MaxReady = 1
  MaxClicks = 1
  MaxCrashes = 1
CHECK_DEADLOCK FALSE
PROPERTIES DispatchEnds QueuedIsServed
