\* Two workers share a selected setup of two selected leaves and undo it afterwards; tests may
\* warn without a state and fail with one.
SPECIFICATION Spec
CONSTANTS
  Nobody = Nobody
  Shared = Shared
  Root = Root
  Localhost = "localhost"
  install = install
  setup = setup
  a = a
  b = b
  fa = fa
  fb = fb
  w1 = w1
  w2 = w2
  w3 = w3
  Worker = {w1, w2}
  Test = {install, setup, a, b}
  Flat = {fa, fb}
  Pool <- OnePool
  Parents <- ChainParents
  ObjectRoot = {install}
  Expands <- SetupAndLeaf
  Compatible <- AllCompatible
  Preparsed = {}
  Restricted = {}
  Prio <- ParsedOrder
  Stateful = {install, setup}
  Reversible = {setup}
  Copied = {}
  Skipped = {}
  Scope <- Cluster
  Swarm <- OneHost
  MaxTries <- Once
  Concurrency <- NotSet
  RerunStatus <- AnyStatus
  StopStatus <- NoStatus
  Previous <- NoReplay
  Initial <- Empty
  Lookups = FALSE
  Leftovers = TRUE
  Interrupts = FALSE
  MaxBounces = 1
  MaxReentry = 0
INVARIANTS
  TypeOK
  AssertionsHold
  SetupInPlace
