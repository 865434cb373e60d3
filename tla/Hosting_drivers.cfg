SPECIFICATION FairSpec
CONSTANTS
  m1 = m1  m2 = m2  h1 = h1  worker = worker
  Missions = {m1, m2}  Callers = {h1}  Called = {m1}  Worker = worker
  Lightweight = {m1}  HighAssurance = {m2}
  DependsOn <- MCDependsOn
  Lines <- MCLines  Known = {m1}
  MaxWaking = 1  MaxActs = 1  MaxStops = 1
INVARIANTS TypeOK OneRunAtATime QueueInOrder ClosedIsQuiet
PROPERTIES DueIsTaken
CHECK_DEADLOCK FALSE
