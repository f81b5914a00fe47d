CONSTANTS
  burst = burst
  free = free
  Keys <- MCKeys
  Limits <- MCLimits
  Saved <- MCSaved
  MaxTime = 8
  MaxCount = 5
  MaxGranted <- MCMaxGranted
SPECIFICATION Spec
CHECK_DEADLOCK FALSE
INVARIANTS TypeOK WindowQuota SlidingQuota RefusalEnds
PROPERTIES RefusalLasts
