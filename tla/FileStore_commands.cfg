SPECIFICATION FairSpec
CONSTANTS
  c1 = c1  c2 = c2  o1 = o1  o2 = o2
  Commands = {c1, c2}  Outside = {o1, o2}  Archived = {c1, o1}
  MaxCrash = 1  MaxFail = 1
INVARIANTS TypeOK FailedLeavesNothing IdsNotReissued
PROPERTIES DurableStays ImplementsLog CallsReturn
CHECK_DEADLOCK FALSE
