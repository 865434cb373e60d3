SPECIFICATION HSpec
CONSTANTS
  m1 = m1  m2 = m2  c1 = c1  c2 = c2
  Missions = {m1, m2}  Calls = {c1, c2}
  Paths <- MCPaths  Other = Other  NoMission = NoMission  NoRevision = {none}
  MaxCommits = 2  MaxWork = 1
CONSTRAINT Bounded
SYMMETRY Symmetry
INVARIANTS TypeOK AnchorRecorded
PROPERTIES CommitsStay UnsafeStays SignsWhatItTested
