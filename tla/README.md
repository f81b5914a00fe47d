# LocalRouter in TLA+

LocalRouter is an HTTP proxy in Go: it takes OpenAI-compatible requests, picks a
provider (a local server or a remote API) for each, and falls through to the
next provider when one fails.  This directory models the parts of it that run
concurrently and share state, checks them with TLC on small instances, and
proves the central invariants with TLAPS for every value of the parameters.

Paths below are relative to the repository; `router.go` is
`internal/router/router.go` and so on.  `PROJECT.json` lists every run, theorem
and hazard, and maps every definition to the lines that it models.

## 1. The system

| part | state | operations | shared with |
|---|---|---|---|
| `router.Router` | provider map, registry, two `limits.Tracker`, config; an `RWMutex` | `Route`, `Stream`, `Update` | every request goroutine; reload |
| `limits.Tracker` | windows, cooldowns, concurrency counters | `Record`, `Block`, `IsBlocked`, `TryAcquireConcurrency`, `ReleaseConcurrency`, `Restore*` | requests; startup; `/limits` |
| `limits.ConcurrencyTracker` | one atomic counter | `TryAcquire`, `Release` | requests |
| `state.Manager` | blocked-until, exhausted-until per provider | `GetState`, `Block`, `SetExhausted` | requests, startup probes, save hook |
| `health.Monitor` | status per node, one worker goroutine per node | `AddNode`, `RemoveNode`, `SetReady`, `Stop`, `IsReady` | requests, reload, startup probes |
| `metrics.Collector` | counters and gauges | `Add` | everything |
| streaming path | two channels, three goroutines | `Adapter.Stream`, the forwarder in `Router.Stream`, `handleStream` | a request's context |
| `state.StateManager` | outcomes, probe results, totals; an `RWMutex` | `RecordRequest*`, `RecordProbeResult`, `GetAllProviderStates`, `GetGlobalState` | requests, `/report` |
| `registry` | sorted entries, indexes | `Build`, `GlobalList`, `ForModel`, `SetDiscoveredModels` | requests, discovery |
| `config`, `config.Watcher` | current configuration | load, debounce, 60 s refresh, callback | reload |
| `state/persistence` | one JSON file and one temporary file per provider | save hooks (a goroutine each), load at startup | `state.Manager`, `limits.Tracker` |
| `discovery` | what was found so far | environment, model lists, scan of the LAN, generated file | `config.Load`; runs before everything else |

How they interact.  A request resolves its model to a list of entries
(provider, model), then loops: take the first entry whose provider is available
and within its quota, acquire the concurrency slots of provider and model, call
the provider, give the slots back, and either answer or drop what failed from
the list and go on.  The parts of `selectProvider` and `acquireConcurrency` each
lock on their own, so that other requests, health workers, the clock and reloads
come in between.  A reload swaps registry and trackers under the requests that
are running; two goroutines reload, and their callbacks may overtake one another.  A streamed answer outlives `Stream`: a forwarder goroutine copies
it and gives the slots back at its end.

What is hard: check-then-act sequences across several locks; slots that are
taken from one tracker and given back to another; goroutines that outlive their
request; client cancellation that looks like a provider's error; save hooks that nothing
orders, a process that ends between two system calls; windows,
blocks and cooldowns that expire; recursive read locks; health results that
arrive after their node is gone; callbacks that install an older configuration
after a newer one; lists that several goroutines merge into one order.

What makes each part correct:

* slots: counters are exact, caps hold, nothing is leaked or given back twice;
* quotas: no window lets through more than its number; a refusal ends;
* routing: no failed entry is called again, the list is looked at in full, every
  request is answered and counted once, sanctions end when they should;
* streaming: chunks in order, a truthful ending, bounded buffering, slots held
  until the provider has finished and given back then;
* report: one moment per section, totals not behind the list, no standstill;
* health: a state is earned by its results, and a stable provider reaches it;
* registry: one order whoever answers first, no provider twice in a list, nobody
  lost by discovery, the default model always served;
* reload: router and monitor end up with the file, whatever was lost or late;
* persistence: a file never says what memory has not held, an undisturbed save is
  there after a crash, a restart forgets no sanction and grants no quota twice;
* discovery: the generated file loads, and all that was found is in it.

## 2. The modules

| module | models | role |
|---|---|---|
| `Semaphore` | what callers expect of a cap | abstract specification |
| `SlotLimiter` | `ConcurrencyTracker`, one action per atomic operation | refines `Semaphore` |
| `Windows` | arithmetic of one fixed window (`tracker.go:203-246`) | operators shared by `RateLimiter`, `Router`, `Persistence` |
| `RateLimiter` | `Record` and `RestoreWindows` for keys with several windows | component |
| `Failover` | what a client may expect of the fall-through | abstract specification |
| `Router` | `Route`, `Stream`, `Update` with `state.Manager`, both trackers, metrics | composition; slots at the grain of `Semaphore`, quotas by `Windows`; refines `Failover` |
| `Delivery` | what a client and an operator expect of a streamed answer | abstract specification |
| `StreamRelay` | adapter, forwarder, SSE handler, two channels | refines `Delivery` |
| `ReportState` | the reporting `StateManager` and `handleReport` | component |
| `HealthMonitor` | `health.Monitor` with startup probes | component |
| `Config` | `config.Load`: both schemas, what is skipped, filled in, refused | operators |
| `Registry` | `Build`, `ForModel`, `SetDiscoveredModels` on the result of `Config` | operators |
| `Reload` | `config.Watcher`, the callback of `main.go`, discovery at startup | composition of `Config` and `Registry` |
| `Persistence` | `persistence.go`, the save hooks of `state.Manager` and `Tracker`, restore in `main.go` | composition with `Windows`; crash and restart |
| `Discovery` | `runDiscovery` and `internal/discovery`, up to the first `Load` | composition with `Config` |
| `MC*` | constants of the runs | |
| `*_proofs` | theorems | |

**SlotLimiter.** `pc[c]` says between which two atomic operations goroutine `c`
stands, `seen[c]` is its local `cur`.  A failed compare-and-swap loops back to
the load, as in the code.  `Restored` is what `RestoreActiveRequests` makes of
the persisted count.

**RateLimiter.** `Record` and `RestoreWindows` run under `t.mu` and are one step
each.  All windows of a key are charged, also when the request is refused
(`tracker.go:227`), and a window that ends at `resetAt` still lasts at that
instant (`After`, line 219).  `log`, `opened` and `carried` are history: who was
let through, since when a window counts, and with which count it was restored.

**Router.** Each place in the code where the lock is taken or an atomic changed
is a step; the comment at the head of the module lists them.  `gen` numbers the
configurations that `Update` has installed, and windows, cooldowns and slots
exist once per generation, because every reload makes new trackers.  The code
reads `r.limits` anew at every use (`Configs[gen]`, `slots[gen]`), copies
`r.modelLimits` once in `selectProvider` (`view`) and once in
`acquireConcurrency`, where `release()` captures it (`pinned`).  The model keeps
this difference, since the slot properties depend on it.  Route and Stream are
the same loop; a request in `Streaming` may in addition end with an empty stream
or an error in its first chunk, and holds its slots until `StreamEnds`.  A
request whose client has hung up gets an error from every call.  `tried`,
`considered` and `full` are history: which entries were called and how that
ended, which were looked at, and which providers had no slot.

`Failover` has one list per request and no other state of the program: the next
entry that is left may be passed over for this round or called, a failure drops
it or its provider for good and begins the next round at the top, and a request
is refused when a round has passed over all that is left.  When an entry is passed over is
left open.  The mapping reads the stage of a request off `pc` and `outcome`
(`StageOf`); passed over is what is left before `cur` (`PassedBy`).

**StreamRelay.** `ch` and `out` are the two channels; each goroutine has one
action per channel operation or deferred call.  The handler's return cancels the
context (net/http), which the adapter watches and the forwarder does not.
`Delivery` knows no goroutines: chunks are produced, at most `Buffer` of them are
on their way, an ending says how the source ended.  The refinement takes
`Buffer` to be both capacities and the hands of adapter and forwarder, and
`source` to be what has become of the adapter.

**ReportState.** The lock is Go's `RWMutex`: `Announce` is a writer that has
called `Lock` and from then on keeps readers out, `Record` is its critical
section once the readers are gone.  `Visit` is the inner `RLock` of
`determineStatus`.

**HealthMonitor.** A worker waits, checks, posts; it looks at its context only
where it waits.  A node that is removed and added again has a new worker while
the old one may still have a result to post.  Streaks are counted up to their
thresholds only.

**Config and Registry.** Pure operators.  A sorted list is the set of its
entries, because `entryLess` tells any two apart; ids are numbers in the order of
the strings.  `wellFormed` stands for everything that only makes `Load` fail
(YAML, durations, types, endpoints, limits).  `Configs` is `Load` applied to
every file content that loads.

**Reload.** Each reloader ("events", "ticker") reads the file, swaps `w.current`
in one critical section and then has the steps of its callback in `plan`: add
every provider (`buildProviders`), add the new ones, remove those that are gone,
install.  `raised`, `timer` and `notified` are the file system's event, the
debounce timer and the channel of one place.  `startup` is the registry that
discovery writes into; requests use it until the first reload, `Routing` says
which.  The callback's other effects (limits, recovery windows) are `Update` in
`Router`.  Selections from a list are written as places in it (`Used`, `Fresh`,
`Missing`), which is how the code walks over it.

**Persistence.** A hook is a record in `saves` with the values it was spawned
with and its place among its system calls: read the file, open (and truncate)
the temporary file, write it, rename it, and remove it when the rename failed.
`path` and `tmp` say which inode a name refers to, `content` what an inode
holds: a hook goes on writing to the inode it has opened, also when another has
renamed it meanwhile, and a write to an inode that is not empty may leave a torn
file.  `Crash` is every end of the process (`main` waits for no hook);
`Restart` restores as `main.go:84-105` does.  `held`, `granted`, `lost`,
`unsaved`, `reloads` and `tidy` are history.  `tidy` is FALSE once a hook of the
provider has read the file in the middle of another's save or before an older
one of its kind.  In-flight counts are not saved by any code and are left out.

**Discovery.** One action per row of the table of known providers (`LookUp`: is
its key in the environment?), per provider asked and per address probed;
`Deadline` may pass between any two.  `Generated` is the file in the terms of `Config`, and
`LoadConfig` is `Loads` of that module.  That `Write` produces YAML that parses
(ids of models are not quoted) is assumed, as `wellFormed`.

## 3. The runs

Passing runs (`tlc -config <run>.cfg <module>`); all finish in minutes.

| run | properties | what it shows | bounds and why they are enough |
|---|---|---|---|
| `SlotLimiter` | `CountExact` `SomeoneCompletes` `ImplementsSemaphore` | the loops implement a semaphore; one loses a swap only when another wins | 3 goroutines, cap 2: two can hold, the third is refused or loses a swap; a persisted count that must be ignored. Limit 0 and other counts are left to the proofs |
| `RateLimiter` | `TypeOK` `WindowQuota` `SlidingQuota` `RefusalEnds` `RefusalLasts` | quotas hold per window and in any stretch of time; refusals end when the window ends, not before | 2 windows of different length and number, a key without limits; restored windows in all combinations; 8 ticks cover two long windows; a count of 5 is past both limits |
| `RouterState` | `TypeOK` `NeverRetried` `FullListTried` `MetricsBalance` `SanctionsExpire` `BlocksOnlyExtend` `ImplementsFailover` | fall-through, as `Failover` promises it, accounting and sanctions | 2 requests, one a stream; 3 entries of 2 providers; quotas of 1 and 2 per tick; 3 ticks, so that a sanction of 1 or 2 ticks starts and ends |
| `RouterLive` | `ModelSlotsExact` `NoPhantomSlots` `ActiveExact` `CapUntilReload` `EveryRequestAnswered` | what the counters say with requests in flight during a reload; no request starves in the loop | 2 requests, one a stream, on caps of 1 (local provider), 2 (remote) and 1 (remote model), so that each full cap is met; a reload that removes a provider, flapping health, a client that hangs up; all numbers of requests are left to the proofs |
| `StreamRelay` | `ImplementsDelivery` `StreamEnds` | what a client can rely on: chunks in order, a truthful ending, bounded buffering, slots held until the provider has finished | up to 14 chunks through the capacities of the code, 10 and 1: one more than fits in channels and hands, so that every sender waits |
| `ReportState` | `RowsOfOneMoment` `TotalsCoverRows` | the page is consistent as far as it claims | 2 providers, 2 writers, 1 reader, 4 outcomes: some before, between and after the sections |
| `HealthMonitor` | `VerdictsEarned` `Settles` | hysteresis survives probes, removals and stale workers | 1 node and 2 workers: nodes share no state, and one former worker is the case that matters |
| `Reload` | `OrderIrrelevant` `DiscoveredLast` `NoProviderTwice` `DefaultServed` `NeverUnserved` `Converges` `MonitorCovers` | the registry under discovery, and where reloads that overtake one another end | 3 providers, 4 models, 4 contents of the file: priorities given and missing with an any-model provider in between, a skipped provider, a default that only a skipped provider has (does not load), the newer schema with a flat list beside it; 2 edits, so that a configuration can come back while an older callback runs; 2 providers that list one of 2 lists each, or fail |
| `Persistence` | `TypeOK` `NothingInvented` `SavedWhenIdle` `QuotaAcrossRestarts` `SanctionsSurvive` | what the files say and what a restart restores | 2 providers, one with a window of 1 request per tick, one without limits: a torn file of the second costs the first its state; 3 saves, so that two can disturb each other and a third comes after a restart; 2 ticks, so that blocks and windows end; 1 reload; crashes and restarts without a bound |
| `Discovery` | `GeneratedLoads` `NothingMissed` | the first start finds all and can go on | 3 known providers, one that is never asked; answers of no, one and two models; no network, one, two, and two addresses in one; 2 hosts each (254 in the code): one scan can be cut after the first |

Deadlock is
checked except where the model really stops: at the bounds of the clock
(`RateLimiter`) and of the outcomes (`ReportState`, where the code also can lock
up), of clock and saves (`Persistence`), and in `StreamLeak`, where a forwarder
can stay behind.

The bounds are named: `MaxTime`, `MaxCount`, `MaxGranted`, `MaxChunks`,
`MaxRecords`, `MaxWorkers`, `MaxEdits`, `MaxSaves`, `MaxReloads`, `Hosts`; `Len(Configs)` bounds the reloads.

Two runs show where the code does not do what its documents say.

| run | property | the code | the document |
|---|---|---|---|
| `StreamLeak` | `ReleasedWhenClosed` | the forwarder's send waits for a reader that has returned (`router.go:369`): its slots are lost | `router.go:363`: "release is called by the goroutine when the upstream channel closes." |
| `ReportStuck` | `ListEnds` | `determineStatus` takes the read lock inside the read lock (`report_state.go:390`): with a writer waiting, nobody moves again | `report_state.go:482`: "without locking (caller must lock)" |

Seven more have no run of their own; for each, what to add to or drop from a
passing run to see it:

* A client that hangs up makes the router block a remote provider that has never
  failed, and every remote provider after it (`router.go:239-242`;
  `README.md:73`: "blocked (HTTP error)"): add `BlockedHasFailed` to the
  invariants of `RouterLive.cfg`.
* `README.md:290` calls `concurrent_requests` the "max in-flight requests", but
  `Update` installs a tracker that counts 0 while requests of the old one run,
  and `release()` gives their slots back to the new one (`router.go:178-184`):
  add `ProviderCapHolds` to `RouterLive.cfg`; what does hold is `CapUntilReload`.
* "SaveProviderState saves a provider's state to disk atomically"
  (`persistence.go:90`): the hooks of one provider share one temporary name, and
  an empty or torn file can become its state, after which the restart restores
  nobody's: add `SavedAtomically` to `Persistence.cfg`.
* "It merges into the existing file so report fields are preserved"
  (`persistence.go:136`): not when two hooks overlap; drop `tidy[p]` from
  `SavedWhenIdle`.
* "Persist state changes to disk so they survive restarts" (`main.go:107`): the
  trackers that a reload installs have no save hook; drop `hooked` from
  `SavedWhenIdle`.
* "scans environment variables and LAN for providers, generates config
  automatically" (`README.md:93`): two addresses in one network give a file that
  `Load` refuses for its duplicate ids; drop `IsInjective(networks)` from
  `GeneratedLoads`.
* Of the same sentence: a scan that the deadline cuts loses what it has found,
  and one provider that does not answer ends the discovery; drop `~late` from
  `NothingMissed`.

Smaller disagreements met on the way are noted under "hazards" in
`PROJECT.json`: a full model cap costs the whole provider (`FullListTried` excuses
the entries of such a provider), report rows say "unreachable" for want of a probe
result, a call can mix two configurations although `README.md:90` says that
requests complete on the old one, a stale worker makes the entry of a
removed node anew, an overtaken callback can leave a removed node monitored for
good, a reload forgets the discovered models, the order of the configuration is
not kept among providers that discover the same model (`registry.go:269`), and
in a file with both schemas no priority is filled in.

### Fairness

Liveness is checked only under fairness that the code justifies:

* `SlotLimiter`: goroutines inside `TryAcquire` or `Release` keep running.
  Callers are not made to start or to end anything.
* `Router`: the goroutine of each request keeps running, and a call ends because
  every `http.Client` of the adapters has a `Timeout` (30 s unless configured;
  the stream's is the same unless configured).  Nothing is assumed of clock,
  reloads, health and clients, and `StreamEnds` is not fair either.
* `StreamRelay`: each of the three goroutines runs when it can; a body ends or
  is ended by the client's timeout.
* `ReportState`: who holds the lock or can get it is scheduled.
* `HealthMonitor`: a worker goes on checking; every check has a timeout.  The
  provider may change its answers as it likes, `Settles` speaks of those that
  stop changing.

* `Reload`: the two goroutines run, the timer fires, the ticker ticks again.  An
  event of the file system need not come, and the loop need not see it: the
  ticker is what `Converges` and `MonitorCovers` rest on.  Both speak of files
  that are left alone in the end.

## 4. The proofs

`tlapm` proves these for every value of the constants that satisfies the
ASSUMEs of the modules (sets of callers and requests are finite, configurations
are well typed; `Limit`, `Persisted`, all `Configs`, capacities, lengths of answers
and numbers of saves are arbitrary).

| module | theorems | inductive invariant |
|---|---|---|
| `SlotLimiter_proofs` | `Typing`, `ExactCount`, `CapNeverPassed`, `Refinement` | `IInv`: `CountExact` and `CapHolds` with what a loaded value promises: one that passed the test is below the cap (`LoadedUnderCap`), one in `Release` is above zero (`LoadedPositive`). A swap succeeds only when the counter still has that value |
| `RateLimiter_proofs` | `Typing`, `QuotaHolds`, `TwiceAtMost` (`SlidingQuota`), `RefusalsEnd`, `RefusalsLast` | `IInv`: the history is dated and numbered (`LogOK`), each window covers what it let through (`WindowsCoverLog`), its count covers restored count and history (`CountCovers`). A reset empties the stretch that the count answers for, because all of its requests lie before the end of the window. `SlideIInv`: a window lasts for its length from its first request (`Spans`), and what was let through less than that before its opening belongs to the one window before it (`RecentQuota`): a stretch of the same length touches two windows, not three |
| `Router_proofs` | `Typing`, `ModelSlots`, `NoPhantoms`, `Gauge`, `ProviderCap`; `NoRetry` (`NeverRetried`), `FullList` (`FullListTried`), `Balance` (`MetricsBalance`), `Expiry` (`SanctionsExpire`), `Extension` (`BlocksOnlyExtend`), `RouterRefinement` (`ImplementsFailover`) | `SlotIInv`: typing, what each place in the code has at hand (`Placed`), trackers are as new when installed (`Unused`), exact as long as the first configuration runs (`FirstExact`), and the slot properties themselves. The proof counts holders: a step moves at most one request in or out of a set of holders (`OnlyItself`, `Counting`), and all other steps keep the sets (`QuietSteps`). `FallThroughIInv`, for each request: the loop has looked at all before its place that is left (`LoopOK`), every failure that was dealt with has cost what it should (`FailuresOK`; the one at hand is `Pending`), and nothing was dropped without an excuse (`DroppedExcused`); for each window, that it ends within its length (`DueOK`). The refinement adds that a round begins at the top (`RoundsOK`) |
| `Reload_proofs` | `ReloadHolds`, `OneOrder` (`OrderIrrelevant`), `DiscoveredBehind` (`DiscoveredLast`), `NoneTwice` (`NoProviderTwice`), `DefaultModelServed` (`DefaultServed`), `NothingLost` (`NeverUnserved`) | `ReloadIInv`: what is installed or about to be has been loaded (`TypeOK`), and the registry of the start is that of the configuration with each list merged into it alone (`Merged`). An answer reads only what the configuration made (`SameKnowledge`) and, since a provider answers once, only adds (`AnswerAdds`). The theorems then speak of one merge each. `NoneTwice` goes over `Separate`: one entry per provider and model, and none of the configuration for a provider of any model |
| `StreamRelay_proofs` | `RelayImplementsDelivery` | `IInv`: the chunks in the client's hands, `out`, the forwarder's hand, `ch` and the adapter's hand follow one another without a gap, with an error only at the end (`InPlace`, `NothingLeftOut`), and what each place of a goroutine implies for the others (`Control`). An ending is truthful because everything between client and adapter is empty when it is sent |
| `Persistence_proofs` | `TypeCorrect`, `FilesTellTheTruth` (`NothingInvented`); `IdleMeansSaved` (`SavedWhenIdle`), `SanctionsOutlive` (`SanctionsSurvive`), `QuotaOutlives` (`QuotaAcrossRestarts`) | `IInv`: what a hook was spawned with, its draft and every whole inode hold values of `held` (`CapturedHeld`, `DraftsHeld`, `FilesHeld`), which only grows; names and hooks refer to inodes that are not swept (`NamesOwned`). Merging replaces one of the two parts of a state by one that was held, so that overlapping hooks, shared inodes and crashes can mix parts but make none up. `KeptIInv`, for a provider whose hooks have not disturbed one another (`tidy`): the last hook of a kind carries what memory says, or, if there is none, the file says it (`RoutingKept`, `WindowsKept`), and what was let through is bounded by each count, in memory, file and hooks, with what the pending hooks will add (`QuotaKept`) |
| `ReportState_proofs` | `ReportHolds`, `OneMoment` (`RowsOfOneMoment`), `TotalsCover` (`TotalsCoverRows`) | `ReportIInv`: the recorded outcomes add up to their number (`AllCounted`); while a list is made its rows are up to date and each provider has a row or is still to come (`ListOfNow`); what the totals lack is what is still to be visited (`TotalsOfNow`); afterwards outcomes only grow (`TotalsLater`) |
| `ReportState_proofs`, of `HealthMonitor` | `HealthInvariance`, `Hysteresis` (`VerdictsEarned`) | `HealthIInv`, for each node: the streaks tell of its latest results (`StreaksTell`). A run of failures is that many in a row, slow answers are counted exactly, and a node that is not ready counts successes only if its last result was one and did not degrade it. A node without an entry has no history, so that the result of a stale worker begins one. `AfterVerdict` keeps this from one result to the next and finds every change of state earned; that needs no fact about the order of workers, probes and reloads, hence none is assumed |
| `Discovery_proofs` | `DiscoveryHolds`, `FileLoads` (`GeneratedLoads`), `NothingForgotten` (`NothingMissed`) | `DiscoveryIInv`: the providers asked and to be asked are those with a key among the rows looked up, each once (`KeysQueued`); an instance comes from a host of a network scanned so far, once (`InstancesScanned`, `InstancesOnce`), and is not lost unless the deadline passed (`InstancesKept`); the file is what was generated from all of it (`FileWritten`) |

TLC finds every inductive invariant true on the constants of a run (`KeptIInv`
with the resets `t` of `QuotaKept` taken from `0..MaxTime + 2` instead of `Nat`).

Three theorems have a hypothesis beside the ASSUMEs of the modules:

* `Extension` assumes `SteadyRecovery`: a reload leaves the recovery windows of a
  provider alone.  A reload to a shorter one does shorten the next block.
* `QuotaOutlives` assumes `PositiveWindows`: no window of a limit has length zero.
  `config.go` accepts "0s", and such a window forgets within the same instant.
* `NoneTwice` assumes `NamedOnce`: no configuration names a model twice for a
  provider and no provider lists one twice.  `validate` does not ask for it, and
  `SetDiscoveredModels` does not look; two entries are then looked at in turn.

The runs that check these properties satisfy the hypothesis of each.  Of the
configurations of `RouterLive`, which does not check `BlocksOnlyExtend`, the second
has another recovery window.

Sums over sets of providers (`ReportState`), greatest numbers and selections from
lists (`Reload`) are defined by recursion or by a choice.  What they compute is
proved by the least counterexample: `LeastNumber` says that a set of naturals that
is not empty has a least member, so that a failing case could be taken minimal.
This needs no theorem with an operator as parameter.

The refinement maps both loops to `Semaphore`: a goroutine is idle until its swap
succeeds, `Grant` and `Return` are the successful swaps, `Refuse` is the load
that finds the cap reached, everything else stutters.  No release comes too many
(`CountExact`), hence the early return of `Release` at zero is never taken.

The refinement of `Failover` follows each step of a request (`Moves`: nobody
else's stage or list changes).  The entry it stands at is the first one left that
is not passed over, because `cur` is in `left` (`LoopOK`) and `PassedBy` is all
that lies before it (`StandsAtNext`).  Going on in the loop passes over that one
entry (`LeavesBehind`), filtering is dropping (`Drops`), the exits are `Answer`
and `Refuse`, and what trackers, slots and tables record in between stutters.

`NoPhantomSlots` and `ActiveExact` hold for every sequence of reloads,
`CapUntilReload` up to the first: that is as far as the code goes (section 3).

`CapHolds` is proved for every cap and not listed in a run, where
`ImplementsSemaphore` implies it.

Only model-checked: liveness (`SomeoneCompletes`, `EveryRequestAnswered`,
`StreamEnds`, `Settles`, `Converges`, `MonitorCovers`), which is beyond the
prover like everything that needs ENABLED.  Every safety property and every
refinement that a passing run checks has a theorem.  No module declares a RECURSIVE operator.  `SelectSeq`, `:>` and `@@`
have no definition that the prover can use; the modules that are proved about do
without them.

## 5. What is left out

* Data: prompts, parameters, wire formats of the providers, headers, wording of
  errors and logs.  A chunk is a number, an answer one of five outcomes.
* Durations: time is a number of ticks; jitter, backoff and ping intervals only
  say how long something waits.
* Startup order: `Router` starts with all providers ready and nothing blocked;
  startup probes appear in `HealthMonitor`, restored state in `Persistence`,
  `RateLimiter` and `SlotLimiter`.
* Go's memory model: `r.cfg` and `r.limits` are read without the lock
  (`router.go:164-184`, `229`, `240`); the model reads them at one instant.
* Persistence: the loss of power (nothing is synced), limits that change between
  two runs of the program, and the functions of `persistence.go` that no code
  calls (request records, global state, `UpdateActiveRequests`,
  `BuildReportData`).
* A provider that names a model twice, or lists one twice, is not among the
  inputs of the runs `Reload` and `Discovery` (section 4, `NamedOnce`); an
  instance that finds itself is not told from others.
* Factory, read-only handlers, orderly shutdown: I/O or sequential code.

## 6. Plan

Done: slots, quotas, router and streaming, each with its abstract specification, report,
health, configuration, registry, reload, persistence, discovery, and the proofs
of section 4.  Left: the composition of `Reload` with `HealthMonitor` (the nodes
a callback adds and removes, with their workers) and with `Router` (its lists as
the result of `Registry`).
