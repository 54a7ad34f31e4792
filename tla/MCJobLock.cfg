SPECIFICATION Spec
CONSTANTS
  Job = {j1, j2, j3}
  Pid = {1, 2, 3}
  NoPid = NoPid
INVARIANT TypeOK
INVARIANT LockKept
PROPERTY Exclusive
PROPERTY EveryJobDecides
CHECK_DEADLOCK FALSE
