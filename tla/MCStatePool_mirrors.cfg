SPECIFICATION Spec
CONSTANTS
  Process = {p1, p2}
  Nobody = Nobody
  NoLock = NoLock
  State = {s1, s2}
  NoState = NoState
  Place = {c1, c2, pool, mirror}
  Absent = Absent
  Torn = Torn
  p1 = p1
  p2 = p2
  s1 = s1
  s2 = s2
  c1 = c1
  c2 = c2
  pool = pool
  mirror = mirror
  Backing <- OnTop
  Cache <- OwnPools
  Gateway <- OneGateway
  Host <- MirrorApart
  Path <- Paths
  SharedPath = "/shared"
  Plan <- MirrorPlan
  Timeouts = TRUE
  MaxOps = 4
  MaxKills = 2
INVARIANT SetEverywhere
CHECK_DEADLOCK FALSE
