SPECIFICATION Spec
CONSTANTS
  Node = {n1, n2}
  Volume = {local, nfs, clone}
  Shared = {nfs, clone}
  Leftovers <- OldFiles
  MaxFaults = 1
  n1 = n1
  n2 = n2
  local = local
  nfs = nfs
  clone = clone
INVARIANTS
  TypeOK
  BackingsKnown
  SharedNothingLeft
CHECK_DEADLOCK FALSE
