CONSTANTS
  NoOwner = NoOwner
  NoInst = NoInst
  Procs = {p1}
  Insts = {i1, i2}
  MaxOps = 3
  Limit = 2
  MaxAttempts = 1
  MaxResumptions = 1
  MaxCrashes = 1
SPECIFICATION Spec
SYMMETRY InstSymmetry
INVARIANTS DependenciesHonoured TeardownHasCleanup DrainRunsAlone
PROPERTIES KeepsPromise
CHECK_DEADLOCK FALSE
