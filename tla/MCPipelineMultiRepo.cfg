SPECIFICATION Spec
CONSTANTS
  r1 = r1
  r2 = r2
  Repos = {r1, r2}
  MaxWork = 1
  MaxPrs = 1
  MaxReady = 2
  MaxClicks = 0
  MaxCrashes = 1
SYMMETRY RepoSymmetry
CHECK_DEADLOCK FALSE
INVARIANT DoneMeansMerged
