\* A selected setup is cleaned up while another worker is about to need it.
SPECIFICATION Spec
CONSTANTS
  Nobody = Nobody
  Shared = Shared
  Root = Root
  Localhost = "localhost"
  install = install
  setup = setup
  a = a
  b = b
  fa = fa
  fb = fb
  w1 = w1
  w2 = w2
  w3 = w3
  Worker = {w1, w2}
  Test = {setup, a, b}
  Flat = {fa, fb}
  Pool <- OnePool
  Parents <- TwoParents
  ObjectRoot = {}
  Expands <- SetupExpands
  Compatible <- AllCompatible
  Preparsed = {}
  Restricted = {}
  Prio <- ParsedOrder
  Stateful = {setup, a}
  Reversible = {setup}
  Copied = {}
  Skipped = {}
  Scope <- Cluster
  Swarm <- OneHost
  MaxTries <- Once
  Concurrency <- NotSet
  RerunStatus <- AnyStatus
  StopStatus <- NoStatus
  Previous <- NoReplay
  Initial <- Empty
  Lookups = FALSE
  Leftovers = FALSE
  Interrupts = FALSE
  MaxBounces = 1
  MaxReentry = 0
INVARIANT SetupInPlace
