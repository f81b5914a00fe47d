CONSTANTS
  Providers = {p1, p2}
  Requests = {q1, q2}
  Reporters = {r1}
  Nobody = Nobody
  MaxRecords = 4
SPECIFICATION Spec
INVARIANTS RowsOfOneMoment TotalsCoverRows
CHECK_DEADLOCK FALSE
