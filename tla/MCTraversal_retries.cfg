\* Two workers retry a setup and a leaf of a graph parsed in advance.
SPECIFICATION Spec
CONSTANTS
  Nobody = Nobody
  Shared = Shared
  Root = Root
  Localhost = "localhost"
  install = install
  setup = setup
  a = a
  b = b
  fa = fa
  fb = fb
  w1 = w1
  w2 = w2
  w3 = w3
  Worker = {w1, w2}
  Test = {setup, a}
  Flat = {}
  Pool <- OnePool
  Parents <- ChainParents
  ObjectRoot = {}
  Expands <- LeafExpands
  Compatible <- AllCompatible
  Preparsed = {setup, a}
  Restricted = {}
  Prio <- ParsedOrder
  Stateful = {setup}
  Reversible = {setup}
  Copied = {}
  Skipped = {}
  Scope <- Cluster
  Swarm <- OneHost
  MaxTries <- Twice
  Concurrency <- OneSetup
  RerunStatus <- AnyStatus
  StopStatus <- LeafPass
  Previous <- NoReplay
  Initial <- Empty
  Lookups = TRUE
  Leftovers = FALSE
  Interrupts = FALSE
  MaxBounces = 2
  MaxReentry = 2
INVARIANTS
  Exclusive
  SetupFirst
  BoundedTries
PROPERTIES
  CleanAfterUse
  Termination
