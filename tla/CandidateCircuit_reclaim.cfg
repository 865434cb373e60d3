SPECIFICATION FairSpec
CONSTANTS
  h1 = h1  h2 = h2  q1 = q1  p1 = p1  p2 = p2
  Profiles = {p1}  Hops = {h1}  Queries = {q1}
  Cooldown = 1  Lease = 2  Orphan = 2  EvalGap = 1  MaxCrash = 1
INVARIANT TypeOK
PROPERTIES ReclaimSparesLeased ProbeReturns
