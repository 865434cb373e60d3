SPECIFICATION Spec
CONSTANTS
  r1 = r1  r2 = r2  m1 = m1  m2 = m2  s1 = s1  s2 = s2  p1 = p1  p2 = p2
  j1 = j1  j2 = j2  t1 = t1  t2 = t2  l1 = l1  l2 = l2
  Runners = {r1, r2}  Missions = {m1}  Slots = {s1, s2}  Lanes = {l1}
  Profiles = {p1}  Projects = {j1, j2}  Runtimes = {t1, t2}
  MissionOf <- MCMissionOfShared  RoleOf <- MCRoleOfShared  LaneOf <- MCLaneOfShared
  ProjectOf <- MCProjectOf  RuntimeOf <- MCRuntimeOfOne  ImpactSlots = {s2}
  Limit <- LimitRuntime
  Lease = 1  Tolerance = 1  MaxAttempts = 1  Backoff <- MCBackoff
  MaxRev = 2  MaxCycle = 0  MaxGen = 2  MaxCrash = 0
CONSTRAINT TwoRows
SYMMETRY SymRunners
INVARIANTS TypeOK CapacityRespected OneAgentPerLane
