SPECIFICATION FairSpec
CONSTANTS
  r1 = r1
  r2 = r2
  Repos = {r1}
  Numbers = {1}
  PageSize = 1
  MaxChanges = 2
  MaxSwitches = 0
  MaxFaults = 0
CHECK_DEADLOCK FALSE
PROPERTY MergeTold
