CONSTANTS
  Job <- MCJob
  Nodes <- MCNodes
  AdmissionsPerTick = 2
  MaxAge = 1
  MaxSpawns = 2
  Endless = FALSE
SPECIFICATION Spec
INVARIANTS  Conserved 
PROPERTIES HeadNotJumped 
CHECK_DEADLOCK FALSE
