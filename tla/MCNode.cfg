CONSTANTS
  MaxConsecutiveFailures = 2
  FailureWindow = 1
  MaxFaults = 6
  BlockedFor = 1
  HealthyFor = 1
  HealAttempts = 1
  ExclusionBase = 1
  ExclusionCap = 2
  FreshFor = 1
  Cadence = 1
  Boot = 1
  MaxFlips = 2
  LadderFaults = 1
  LadderFlips = 1
  Modes = {"off", "roaming"}
SPECIFICATION MCSpec
INVARIANTS SuspendedWasReleased 
PROPERTIES WithdrawalIsEarned SettlesAsWished ExclusionEnds
