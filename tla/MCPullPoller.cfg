SPECIFICATION FairSpec
CONSTANTS
  r1 = r1
  r2 = r2
  Repos = {r1, r2}
  Numbers = {1, 2}
  PageSize = 1
  MaxChanges = 3
  MaxSwitches = 1
  MaxFaults = 1
CHECK_DEADLOCK FALSE
INVARIANT TypeOK
INVARIANT NoRepeat
PROPERTY NoStartupStorm
PROPERTY OpenChangeTold
