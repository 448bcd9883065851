CONSTANTS
  k1 = k1
  k2 = k2
  Jobs = {k1, k2}
  Job <- MCJob
  Bindings <- MCBindings
  Own <- MCOwn
  Peers = {}
  Requests = {1, 2}
  Request <- TwoAttempts
  Shares <- MCShares
  GhostAbsence = 1
  MinObservations = 2
  OverdueTTL = 2
  StatisticsMaxAge = 0
  MaxTime = 3
  FirstId = 2
  MaxId = 2
  MaxRestarts = 1
  MaxGuests = 1
SPECIFICATION Spec
INVARIANTS AckedIsDurable HiddenIsWaiting
PROPERTIES GhostWasNotListed 
CHECK_DEADLOCK FALSE
