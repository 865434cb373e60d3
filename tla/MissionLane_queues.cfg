SPECIFICATION Spec
CONSTANTS
  m1 = m1
  m2 = m2
  i1 = i1
  Missions = {m1, m2}
  Items = {i1}
  Pausable = {m1}
  Fragile = {}
  MaxRev = 1
  NoResultLimit = 1
  CandidateLimit = 1
  HopLimit = 1
  Reasons = {}
  RedispatchLimit = 0
INVARIANTS
  OneMutatingMission
CHECK_DEADLOCK FALSE
