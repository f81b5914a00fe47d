CONSTANTS
  local = local  remote = remote
  r1 = r1  r2 = r2
  Requests = {r1, r2}
  Streaming = {r2}
  Providers <- MCProviders
  Models <- MCModels
  Remote = {remote}
  Flaky = {}
  Asked = {""}
  Leavers = {}
  Configs <- OneLimited
  RetryAfters = {2}
  DefaultCooldown = 1
  MaxTime = 3
SPECIFICATION Spec
INVARIANTS TypeOK NeverRetried FullListTried MetricsBalance SanctionsExpire
PROPERTIES BlocksOnlyExtend ImplementsFailover
