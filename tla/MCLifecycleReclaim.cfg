CONSTANTS
  Jobs = {j1, j2}
  Spawned = j1
  NoJob = none
  Siblings = {}
  Rung = 1
  Glitch = FALSE
  Lossy = FALSE
  MaxFaults = 1
SPECIFICATION FairSpec
PROPERTIES OwnJobReclaimed DecidedDrainEnds
CHECK_DEADLOCK FALSE
