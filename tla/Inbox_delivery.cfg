SPECIFICATION FairSpec
CONSTANTS
  m1 = m1  m2 = m2  n1 = n1  n2 = n2  s1 = s1  s2 = s2
  All = All  None = None
  Missions = {m1, m2}  Names = {n1, n2}  Sessions = {s1, s2}
  Origin <- MCOrigin  Offers <- MCOffers  Dead = {s2}
  LedgerSize = 1  MaxQuestions = 1  MaxAttempts = 2
  MaxActs <- MCActs  Starts <- MCStarts  MaxDeaths = 1
INVARIANTS TypeOK ToldOnce
PROPERTIES DueIsHeard ImplementsMailbox
CHECK_DEADLOCK FALSE
