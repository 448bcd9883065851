CONSTANTS
  Procs = {p1, p2}
  NoProc = NoProc
  TTL = 4
  Interval = 1
  Window = 6
  AcquireRetry = 1
  RenewRetry = 1
  RecoverBound = 3
  MaxTime = 8
  MaxToken = 3
SPECIFICATION Spec
SYMMETRY ProcSymmetry
INVARIANTS SoleAuthority GuardBacked FailsClosed
  
CHECK_DEADLOCK FALSE
