SPECIFICATION Spec
CONSTANTS
  Node = {n1, n2}
  Pool = {p1, p2}
  Inside = {p1, p2}
  n1 = n1
  n2 = n2
  p1 = p1
  p2 = p2
  Links <- TwoPools
  MaxJobs = 2
  MaxBoots = 1
  MaxFaults = 1
INVARIANT JustAccessed
CHECK_DEADLOCK FALSE
