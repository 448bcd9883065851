CONSTANTS
  Jobs = {j1, j2}
  Spawned = j1
  NoJob = none
  Siblings = {j2}
  Rung = 1
  Glitch = TRUE
  Lossy = TRUE
  MaxFaults = 1
SPECIFICATION Spec
INVARIANTS TornDownIsIdle DeletedIsClean
PROPERTIES NoJobCut TeardownIsOneWay
CHECK_DEADLOCK FALSE
