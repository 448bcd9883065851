CONSTANTS
  NoOwner = NoOwner
  NoInst = NoInst
  Procs = {p1, p2}
  Insts = {i1}
  MaxOps = 3
  Limit = 1
  MaxAttempts = 2
  MaxResumptions = 0
  MaxCrashes = 0
SPECIFICATION Spec
SYMMETRY ProcSymmetry
INVARIANTS TypeOK LiveInstanceHasNoOpenDrain EffectsTruthful RetryBudget
PROPERTIES TerminalIsFinal OnlyLatestClaimSettles
CHECK_DEADLOCK FALSE
