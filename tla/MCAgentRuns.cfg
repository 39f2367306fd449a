SPECIFICATION Spec
CONSTANTS
  Cap = 1
  TimeoutSet = TRUE
  MaxChunks = 2
  MaxRuns = 2
  MaxEvents = 2
CHECK_DEADLOCK FALSE
INVARIANT TypeOK
INVARIANT LogFollowsStream
INVARIANT TerminalAfterContainer
INVARIANT DoneMeansClean
INVARIANT ViewNotStale
PROPERTY FinalRow
PROPERTY DispatchEnds
