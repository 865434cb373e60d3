SPECIFICATION FairSpec
CONSTANTS
  r1 = r1  r2 = r2  m1 = m1  m2 = m2  s1 = s1  s2 = s2  p1 = p1  p2 = p2
  j1 = j1  j2 = j2  t1 = t1  t2 = t2  l1 = l1  l2 = l2
  Runners = {r1, r2}  Missions = {m1}  Slots = {s1}  Lanes = {l1}
  Profiles = {p1}  Projects = {j1, j2}  Runtimes = {t1, t2}
  MissionOf <- MCMissionOfOne  RoleOf <- MCRoleOfOne  LaneOf <- MCLaneOfOne
  ProjectOf <- MCProjectOf  RuntimeOf <- MCRuntimeOfOne  ImpactSlots = {}
  Limit <- LimitWide
  Lease = 2  Tolerance = 1  MaxAttempts = 2  Backoff <- MCBackoff
  MaxRev = 1  MaxCycle = 1  MaxGen = 2  MaxCrash = 1
INVARIANTS OneOpenRowPerSlot
PROPERTIES LeaseReturns LiveLeaseKept ImplementsLease
