CONSTANTS
  p1 = p1  p2 = p2
  Providers = {p1, p2}
  Limits <- MCLimits
  BlockFor = {1}
  MaxTime = 2
  MaxSaves = 3
  MaxReloads = 1
SPECIFICATION Spec
CHECK_DEADLOCK FALSE
INVARIANTS TypeOK NothingInvented SavedWhenIdle QuotaAcrossRestarts
PROPERTY SanctionsSurvive
