\* A restricted worker, two swarms, a replayed job, states left from earlier jobs, skips
\* and interrupts.
SPECIFICATION Spec
CONSTANTS
  Nobody = Nobody
  Shared = Shared
  Root = Root
  Localhost = "localhost"
  install = install
  setup = setup
  a = a
  b = b
  fa = fa
  fb = fb
  w1 = w1
  w2 = w2
  w3 = w3
  Worker = {w1, w2, w3}
  Test = {setup, a, b}
  Flat = {fa, fb}
  Pool <- SwarmPools
  Parents <- ChainParents
  ObjectRoot = {setup}
  Expands <- LeafExpands
  Compatible <- OthersComposeB
  Preparsed = {}
  Restricted = {w2}
  Prio <- ParsedOrder
  Stateful = {setup}
  Reversible = {}
  Copied = {setup}
  Skipped = {a}
  Scope <- OwnLeaves
  Swarm <- TwoSwarms
  MaxTries <- TwiceLeaves
  Concurrency <- NotSet
  RerunStatus <- OnFailure
  StopStatus <- NoStatus
  Previous <- FailedReplay
  Initial <- EmptyOrShared
  Lookups = FALSE
  Leftovers = FALSE
  Interrupts = TRUE
  MaxBounces = 1
  MaxReentry = 0
INVARIANTS
  Exclusive
  NothingForgotten
PROPERTIES
  Termination
