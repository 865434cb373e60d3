SPECIFICATION FairSpec
CONSTANTS
  m1 = m1
  i1 = i1
  i2 = i2
  Missions = {m1}
  Items = {i1, i2}
  Pausable = {}
  Fragile = {i1, "none"}
  MaxRev = 2
  NoResultLimit = 1
  CandidateLimit = 1
  HopLimit = 2
  Reasons = {"partial"}
  RedispatchLimit = 1
INVARIANTS
  TypeOK
  DeliveredIsFinished
  ReviewedUnderCurrentContract
PROPERTIES
  ImplementsReview
  DispatchedSettles
CHECK_DEADLOCK FALSE
