\* Three goroutines and a cap of two: two may hold a slot, the third has to be
\* refused or to lose a swap.  The persisted in-flight count must be ignored.
CONSTANTS
  Callers = {c1, c2, c3}
  Limit = 2
  Persisted <- NegativeCount
SPECIFICATION FairSpec
INVARIANT CountExact
PROPERTIES SomeoneCompletes ImplementsSemaphore
