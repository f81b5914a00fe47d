CONSTANTS
  local = local  remote = remote
  r1 = r1  r2 = r2
  Requests = {r1, r2}
  Streaming = {r2}
  Providers <- MCProviders
  Models <- MCModels
  Remote = {remote}
  Flaky = {remote}
  Asked = {"m1", "m2"}
  Leavers = {r1}
  Configs <- ShrunkAway
  RetryAfters = {}
  DefaultCooldown = 1
  MaxTime = 1
SPECIFICATION FairSpec
INVARIANTS ModelSlotsExact NoPhantomSlots ActiveExact CapUntilReload
PROPERTY EveryRequestAnswered
