CONSTANTS
  NoOwner = NoOwner
  NoInst = NoInst
  Procs = {p1, p2}
  Insts = {i1}
  MaxOps = 2
  Limit = 1
  MaxAttempts = 2
  MaxResumptions = 1
  MaxCrashes = 1
SPECIFICATION FairSpec
PROPERTIES OpenRowSettles
CHECK_DEADLOCK FALSE
