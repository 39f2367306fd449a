SPECIFICATION Spec
CONSTANTS
  d1 = d1
  d2 = d2
  k1 = k1
  c1 = c1
  c2 = c2
  MaxJobs = 2
  Callers = {c1, c2}
  Deliveries = {d1, d2}
  NoDelivery = NoDelivery
  NoRequest = NoRequest
  Keys = {k1}
  NoKey = NoKey
  Requests <- MCRequests
SYMMETRY QueueSymmetry
INVARIANTS TypeOK AtMostOneActive RunningIsHeld
PROPERTIES TerminalIsFinal ImplementsLedger
