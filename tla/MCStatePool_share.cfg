SPECIFICATION Spec
CONSTANTS
  Process = {p1, p2}
  Nobody = Nobody
  NoLock = NoLock
  State = {s1, s2}
  NoState = NoState
  Place = {c1, c2, pool}
  Absent = Absent
  Torn = Torn
  p1 = p1
  p2 = p2
  s1 = s1
  s2 = s2
  c1 = c1
  c2 = c2
  pool = pool
  mirror = mirror
  Backing <- OnTop
  Cache <- OwnPools
  Gateway <- OneGateway
  Host <- MirrorApart
  Path <- Paths
  SharedPath = "/shared"
  Plan <- SharePlan
  Timeouts = FALSE
  MaxOps = 4
  MaxKills = 0
INVARIANT TypeOK
INVARIANT GotWhole
INVARIANT NothingTorn
PROPERTY Completion
CHECK_DEADLOCK FALSE
