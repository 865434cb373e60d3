SPECIFICATION HSpec
CONSTANTS
  m1 = m1  m2 = m2  c1 = c1  c2 = c2
  Missions = {m1}  Calls = {c1}
  Paths <- MCPathsOne  Other = Other  NoMission = NoMission  NoRevision = {none}
  MaxCommits = 1  MaxWork = 1
INVARIANTS MergedIsRecorded
