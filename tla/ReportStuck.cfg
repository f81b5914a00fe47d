CONSTANTS
  Providers = {p1, p2}
  Requests = {q1, q2}
  Reporters = {r1}
  Nobody = Nobody
  MaxRecords = 2
SPECIFICATION FairSpec
PROPERTY ListEnds
CHECK_DEADLOCK FALSE
