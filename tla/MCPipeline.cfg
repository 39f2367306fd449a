SPECIFICATION Spec
CONSTANTS
  r1 = r1
  r2 = r2
  Repos = {r1}
  MaxWork = 2
  MaxPrs = 2
  MaxReady = 2
  MaxClicks = 1
  MaxCrashes = 1
CHECK_DEADLOCK FALSE
INVARIANTS TypeOK DoneMeansMerged ParkedKeepsSession ParkedOnBoard ApprovedIsPushed
