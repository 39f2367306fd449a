SPECIFICATION Spec
CONSTANTS
  i1 = i1
  i2 = i2
  Issues = {i1, i2}
  EpicSignal = "label"
  MaxSent = 4
  MaxToggles = 1
  MaxFaults = 1
SYMMETRY IssueSymmetry
CHECK_DEADLOCK FALSE
INVARIANT TypeOK
INVARIANT OneBuildPerEntry
INVARIANT EnteredHadJob
INVARIANT PlannedIsBuilt
