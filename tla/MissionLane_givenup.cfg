SPECIFICATION Spec
CONSTANTS
  m1 = m1
  i1 = i1
  Missions = {m1}
  Items = {i1}
  Pausable = {m1}
  MaxRev = 1
  Fragile = {i1}
  NoResultLimit = 2
  CandidateLimit = 2
  HopLimit = 1
  Reasons = {}
  RedispatchLimit = 0
PROPERTIES
  GivenUpAfterAttempt
CHECK_DEADLOCK FALSE
