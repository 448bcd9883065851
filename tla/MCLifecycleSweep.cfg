CONSTANTS
  Jobs = {j1, j2}
  Spawned = j1
  NoJob = none
  Siblings = {}
  Rung = 1
  Glitch = FALSE
  Lossy = FALSE
  MaxFaults = 0
SPECIFICATION FairSpec
PROPERTIES CompletedRunnerReclaimed
CHECK_DEADLOCK FALSE
