SPECIFICATION Spec
CONSTANTS
  Node = {n1, n2}
  Pool = {p1, p2}
  Inside = {p1, p2}
  n1 = n1
  n2 = n2
  p1 = p1
  p2 = p2
  Links <- TwoPools
  MaxJobs = 3
  MaxBoots = 1
  MaxFaults = 2
INVARIANTS
  TypeOK
  CleanEnd
  PoolsUntouched
PROPERTIES
  TestsReady
  JobEnds
CHECK_DEADLOCK FALSE
