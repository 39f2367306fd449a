\* A chain and a join of three tickets, or two tickets with one key, with any
\* two disturbances.
SPECIFICATION FairSpec
CONSTANTS
  Tickets = 3
  Keys <- MCKeys
  Plans <- MCPlans
  Nameless = {2}
  MaxRuns = 1
  MaxEpics = 1
  MaxPrs = 1
  MaxEvents = 2
INVARIANTS
  TypeOK
  BuildsAfterBlockers
PROPERTIES
  GateReleases
\* The system may stop: no card has to move and no pull request to merge.
CHECK_DEADLOCK FALSE
