-------------------------------- MODULE Router --------------------------------
(***************************************************************************)
(* router.Router (internal/router/router.go) with the shared state that    *)
(* Route and Stream read and write step by step: the blocked / exhausted   *)
(* tables of state.Manager, the trackers of limits (provider limits, model *)
(* limits, cooldowns, concurrency slots) and hot reload, which replaces    *)
(* registry, configuration and both trackers while requests are running.   *)
(*                                                                         *)
(* Every Update starts a new generation g with trackers of its own;        *)
(* generation g runs Configs[g].  The field r.limits is read anew at every *)
(* use, the field r.modelLimits is copied once by selectProvider (view)    *)
(* and once by acquireConcurrency (pinned).                                *)
(*                                                                         *)
(* Where a request stands:                                                 *)
(*   idle       not received yet                                           *)
(*   select     top of the loop of Route / Stream                          *)
(*   state      selectProvider: GetState of the current entry              *)
(*   cooldown   selectProvider: modelLimits.IsBlocked                      *)
(*   modelquota selectProvider: modelLimits.Record                         *)
(*   quota      selectProvider: r.limits.Record                            *)
(*   exhaust    selectProvider: state.SetExhausted                         *)
(*   pin        acquireConcurrency: copy of r.modelLimits                  *)
(*   slot       acquireConcurrency: the provider slot                      *)
(*   modelslot  acquireConcurrency: the model slot                         *)
(*   undo       acquireConcurrency: no model slot, give the other back     *)
(*   call       waiting for the provider                                   *)
(*   stream     answered, the forwarder goroutine is copying chunks        *)
(*   release, modelrelease   the two steps of release()                    *)
(*   settle     after release(): what to make of the outcome               *)
(*   done, failed            answered                                      *)
(***************************************************************************)
EXTENDS Windows, FiniteSets

CONSTANTS
    Requests,         \* the clients' requests
    Streaming,        \* those with "stream": true
    Providers, Models,
    Remote,           \* providers whose entries carry IsRemote
    Flaky,            \* providers whose health changes during the run
    Asked,            \* the model names that clients ask for
    Leavers,          \* the requests whose client may hang up
    Configs,          \* Configs[g]: what the g-th load of config.yaml installs
    RetryAfters,      \* cooldowns that upstreams announce
    DefaultCooldown,  \* cooldown when no recovery_window is known (60 s)
    MaxTime           \* bound on the clock

Entries == Providers \X Models
Generations == DOMAIN Configs

\* default is the default_model, "" when unset.
Config == [members : SUBSET Providers,
           globalList : Seq(Entries),
           forModel : [Models -> Seq(Entries)],
           default : Models \cup {""},
           limits : [Providers -> Seq(LimitConfig)],
           modelLimits : [Entries -> Seq(LimitConfig)],
           cap : [Providers -> Nat],
           modelCap : [Entries -> Nat],
           recovery : [Providers -> Nat]]

ASSUME RequestsAssumption ==
    IsFiniteSet(Requests) /\ Streaming \subseteq Requests /\ Leavers \subseteq Requests
ASSUME ProvidersAssumption == Remote \subseteq Providers /\ Flaky \subseteq Providers
ASSUME AskedAssumption == Asked \subseteq Models \cup {"", "auto"}
ASSUME ConfigsAssumption == Configs \in Seq(Config) /\ Configs # <<>>
ASSUME TimesAssumption ==
    RetryAfters \subseteq Nat /\ DefaultCooldown \in Nat /\ MaxTime \in Nat

VARIABLES
    now,
    gen,            \* the generation that Update installed last
    blocked,        \* state.Manager.blocked: until when
    exhausted,      \* state.Manager.exhausted: until when
    ready,          \* health.Monitor.IsReady
    windows,        \* [generation -> provider -> windows of r.limits]
    modelWindows,   \* [generation -> entry -> windows of r.modelLimits]
    cooldown,       \* [generation -> entry -> end of its cooldown, or 0]
    slots,          \* [generation -> provider -> slots in use]
    modelSlots,     \* [generation -> entry -> slots in use]
    metrics,        \* counters of metrics.Collector
    active          \* metrics: concurrentActive per provider

VARIABLES           \* the requests, in a function each
    pc,
    list,           \* the entries that resolve returned
    left,           \* the positions in list that have not been filtered out
    cur,            \* position in the loop of selectProvider, then the selected one
    view,           \* generation of the trackers copied by selectProvider, or 0
    pinned,         \* generation of the model tracker that release() holds, or 0
    due,            \* resetAt, between Record and SetExhausted, or 0
    outcome,        \* what the provider answered
    gone            \* the client has disconnected: its context is cancelled

VARIABLES           \* history, read by no action
    slotGen,        \* the generation whose provider slot the request took, or 0
    tried,          \* the failed calls: <<position, outcome>>
    considered,     \* the positions for which selectProvider read the state
    full,           \* the providers that had no slot left for the request
    faulty          \* providers that answered some call with an error

shared == <<blocked, exhausted, ready, windows, modelWindows, cooldown, slots,
            modelSlots, metrics, active>>
locals == <<list, left, cur, view, pinned, due, outcome>>
history == <<slotGen, tried, considered, full, faulty>>
vars == <<now, gen, shared, pc, locals, gone, history>>

Locations == {"idle", "select", "state", "cooldown", "modelquota", "quota",
              "exhaust", "pin", "slot", "modelslot", "undo", "call", "stream",
              "release", "modelrelease", "settle", "done", "failed"}

Outcomes == {"none", "ok", "model", "other", "empty", "chunkerr"}

Metrics == [requests : Nat, noCapacity : Nat, failures : Nat, blocks : Nat]

Init ==
    /\ now = 1
    /\ gen = 1
    /\ blocked = [p \in Providers |-> 0]
    /\ exhausted = [p \in Providers |-> 0]
    /\ ready = [p \in Providers |-> TRUE]
    /\ windows = [g \in Generations |->
                    [p \in Providers |-> EnsureWindows(Configs[g].limits[p])]]
    /\ modelWindows = [g \in Generations |->
                    [e \in Entries |-> EnsureWindows(Configs[g].modelLimits[e])]]
    /\ cooldown = [g \in Generations |-> [e \in Entries |-> 0]]
    /\ slots = [g \in Generations |-> [p \in Providers |-> 0]]
    /\ modelSlots = [g \in Generations |-> [e \in Entries |-> 0]]
    /\ metrics = [requests |-> 0, noCapacity |-> 0, failures |-> 0, blocks |-> 0]
    /\ active = [p \in Providers |-> 0]
    /\ pc = [r \in Requests |-> "idle"]
    /\ list = [r \in Requests |-> <<>>]
    /\ left = [r \in Requests |-> {}]
    /\ cur = [r \in Requests |-> 0]
    /\ view = [r \in Requests |-> 0]
    /\ pinned = [r \in Requests |-> 0]
    /\ due = [r \in Requests |-> 0]
    /\ outcome = [r \in Requests |-> "none"]
    /\ gone = [r \in Requests |-> FALSE]
    /\ slotGen = [r \in Requests |-> 0]
    /\ tried = [r \in Requests |-> {}]
    /\ considered = [r \in Requests |-> {}]
    /\ full = [r \in Requests |-> {}]
    /\ faulty = {}

-----------------------------------------------------------------------------
(* Helpers *)

Goto(r, l) == pc' = [pc EXCEPT ![r] = l]

Count(field) == metrics' = [metrics EXCEPT ![field] = @ + 1]

\* The selected entry of a request, and its provider.
Entry(r) == list[r][cur[r]]
Prov(r) == Entry(r)[1]

Beyond(r) == Len(list[r]) + 1

\* Mutant: the order of the entries is lost.
AdvanceAnywhere(r, i) ==
    \E j \in left[r] \cup {Beyond(r)} : i < j /\ cur' = [cur EXCEPT ![r] = j]

\* The loop of selectProvider goes from position i to the next entry that has
\* not been filtered out, or leaves the list.
Advance(r, i) ==
    \E j \in left[r] \cup {Beyond(r)} :
        /\ i < j
        /\ \A k \in left[r] : i < k => j <= k
        /\ cur' = [cur EXCEPT ![r] = j]

\* filterProvider and filterEntry.
Keep(r, Test(_)) == left' = [left EXCEPT ![r] = {i \in @ : Test(list[r][i])}]

\* Mutant: the filtered list is thrown away.
FilterNothing(r) == UNCHANGED left

\* Mutant: only the entry is dropped, not its provider.
FilterOnlyEntry(r) == Keep(r, LAMBDA e : e # Entry(r))

FilterProvider(r) == Keep(r, LAMBDA e : e[1] # Prov(r))

\* Mutant: a model-level error costs the whole provider.
FilterWholeProvider(r) == Keep(r, LAMBDA e : e[1] # Prov(r))

FilterEntry(r) == Keep(r, LAMBDA e : e # Entry(r))

ResolveIn(c, model) ==
    CASE model = "auto" -> c.globalList
      [] model = "" -> IF c.default = "" THEN c.globalList ELSE c.forModel[c.default]
      [] OTHER -> c.forModel[model]

\* state.Manager.GetState: blocked before exhausted before unhealthy.
Available(p) == ~(now < blocked[p]) /\ ~(now < exhausted[p]) /\ ready[p]

Cooling(g, e) == cooldown[g][e] # 0 /\ ~(now > cooldown[g][e])

-----------------------------------------------------------------------------
(* resolve and selectProvider *)

Resolve(r, model) ==
    LET l == ResolveIn(Configs[gen], model)
    IN  /\ pc[r] = "idle"
        /\ list' = [list EXCEPT ![r] = l]
        /\ left' = [left EXCEPT ![r] = DOMAIN l]
        /\ \/ l = <<>> /\ Goto(r, "failed") /\ Count("noCapacity")
           \/ l # <<>> /\ Goto(r, "select") /\ UNCHANGED metrics
        /\ UNCHANGED <<now, gen, blocked, exhausted, ready, windows, modelWindows,
                       cooldown, slots, modelSlots, active, cur, view, pinned,
                       due, outcome, gone, history>>

\* Mutant: the metrics are forgotten on the way out.
GiveUpUncounted(r) ==
    /\ \/ pc[r] = "select" /\ left[r] = {}
       \/ pc[r] = "state" /\ cur[r] = Beyond(r)
    /\ Goto(r, "failed")
    /\ cur' = [cur EXCEPT ![r] = 0]
    /\ view' = [view EXCEPT ![r] = 0]
    /\ UNCHANGED <<now, gen, shared, list, left, pinned, due, outcome, gone, history>>

\* ErrAllProvidersFailed, from the end of the loop of Route or from
\* selectProvider when no entry is left to look at.
GiveUp(r) ==
    /\ \/ pc[r] = "select" /\ left[r] = {}
       \/ pc[r] = "state" /\ cur[r] = Beyond(r)
    /\ Goto(r, "failed")
    /\ Count("noCapacity")
    /\ cur' = [cur EXCEPT ![r] = 0]
    /\ view' = [view EXCEPT ![r] = 0]
    /\ UNCHANGED <<now, gen, blocked, exhausted, ready, windows, modelWindows,
                   cooldown, slots, modelSlots, active, list, left, pinned, due,
                   outcome, gone, history>>

\* selectProvider copies r.providers and r.modelLimits.
Select(r) ==
    /\ pc[r] = "select"
    /\ left[r] # {}
    /\ view' = [view EXCEPT ![r] = gen]
    /\ Advance(r, 0)
    /\ Goto(r, "state")
    /\ UNCHANGED <<now, gen, shared, list, left, pinned, due, outcome, gone, history>>

CheckState(r) ==
    /\ pc[r] = "state"
    /\ cur[r] # Beyond(r)
    /\ considered' = [considered EXCEPT ![r] = @ \cup {cur[r]}]
    /\ \/ /\ Available(Prov(r))
          /\ Prov(r) \in Configs[view[r]].members
          /\ Goto(r, "cooldown")
          /\ UNCHANGED cur
       \/ /\ ~(Available(Prov(r)) /\ Prov(r) \in Configs[view[r]].members)
          /\ Advance(r, cur[r])
          /\ UNCHANGED pc
    /\ UNCHANGED <<now, gen, shared, list, left, view, pinned, due, outcome, gone,
                   slotGen, tried, full, faulty>>

CheckCooldown(r) ==
    LET g == view[r]
        e == Entry(r)
    IN  /\ pc[r] = "cooldown"
        /\ \/ Cooling(g, e) /\ Advance(r, cur[r]) /\ Goto(r, "state") /\ UNCHANGED cooldown
           \/ /\ ~Cooling(g, e)
              /\ cooldown' = [cooldown EXCEPT ![g][e] = 0]
              /\ Goto(r, "modelquota")
              /\ UNCHANGED cur
        /\ UNCHANGED <<now, gen, blocked, exhausted, ready, windows, modelWindows,
                       slots, modelSlots, metrics, active, list, left, view,
                       pinned, due, outcome, gone, history>>

RecordModel(r) ==
    LET g == view[r]
        e == Entry(r)
        cfgs == Configs[g].modelLimits[e]
        ws == ChargeAll(modelWindows[g][e], cfgs, now)
    IN  /\ pc[r] = "modelquota"
        /\ modelWindows' = [modelWindows EXCEPT ![g][e] = ws]
        /\ \/ Over(ws, cfgs) # {} /\ Advance(r, cur[r]) /\ Goto(r, "state")
           \/ Over(ws, cfgs) = {} /\ Goto(r, "quota") /\ UNCHANGED cur
        /\ UNCHANGED <<now, gen, blocked, exhausted, ready, windows, cooldown,
                       slots, modelSlots, metrics, active, list, left, view,
                       pinned, due, outcome, gone, history>>

\* r.limits is the tracker of the moment, whatever selectProvider copied.
RecordProvider(r) ==
    LET p == Prov(r)
        cfgs == Configs[gen].limits[p]
        ws == ChargeAll(windows[gen][p], cfgs, now)
    IN  /\ pc[r] = "quota"
        /\ windows' = [windows EXCEPT ![gen][p] = ws]
        /\ \/ /\ Over(ws, cfgs) # {}
              /\ \E i \in Over(ws, cfgs) :
                    /\ IsEarliestReset(ws[i].resetAt, ws, Over(ws, cfgs))
                    /\ due' = [due EXCEPT ![r] = ws[i].resetAt]
              /\ Goto(r, "exhaust")
              /\ UNCHANGED view
           \/ /\ Over(ws, cfgs) = {}
              /\ Goto(r, "pin")
              /\ view' = [view EXCEPT ![r] = 0]
              /\ UNCHANGED due
        /\ UNCHANGED <<now, gen, blocked, exhausted, ready, modelWindows, cooldown,
                       slots, modelSlots, metrics, active, list, left, cur,
                       pinned, outcome, gone, history>>

SetExhausted(r) ==
    /\ pc[r] = "exhaust"
    /\ exhausted' = [exhausted EXCEPT ![Prov(r)] = due[r]]
    /\ due' = [due EXCEPT ![r] = 0]
    /\ Advance(r, cur[r])
    /\ Goto(r, "state")
    /\ UNCHANGED <<now, gen, blocked, ready, windows, modelWindows, cooldown, slots,
                   modelSlots, metrics, active, list, left, view, pinned,
                   outcome, gone, history>>

-----------------------------------------------------------------------------
(* acquireConcurrency and release *)

\* Mutant: one slot more than the cap.
HasSlotOffByOne(n, cap) == cap = 0 \/ n <= cap

\* TryAcquireConcurrency and ReleaseConcurrency on a counter n: without a cap
\* there is no counter at all, and a counter never goes below zero.
HasSlot(n, cap) == cap = 0 \/ n < cap

Taken(n, cap) == IF cap = 0 THEN n ELSE n + 1

\* Mutant: neither the missing counter nor zero is looked at.
ReturnedUnchecked(n, cap) == n - 1

Returned(n, cap) == IF cap = 0 \/ n = 0 THEN n ELSE n - 1

PinTracker(r) ==
    /\ pc[r] = "pin"
    /\ pinned' = [pinned EXCEPT ![r] = gen]
    /\ Goto(r, "slot")
    /\ UNCHANGED <<now, gen, shared, list, left, cur, view, due, outcome, gone, history>>

AcquireProvider(r) ==
    LET p == Prov(r)
        cap == Configs[gen].cap[p]
    IN  /\ pc[r] = "slot"
        /\ \/ /\ HasSlot(slots[gen][p], cap)
              /\ slots' = [slots EXCEPT ![gen][p] = Taken(@, cap)]
              /\ active' = [active EXCEPT ![p] = @ + 1]
              /\ slotGen' = [slotGen EXCEPT ![r] = gen]
              /\ Goto(r, "modelslot")
              /\ UNCHANGED <<left, cur, pinned, full>>
           \/ /\ ~HasSlot(slots[gen][p], cap)
              /\ FilterProvider(r)
              /\ cur' = [cur EXCEPT ![r] = 0]
              /\ pinned' = [pinned EXCEPT ![r] = 0]
              /\ Goto(r, "select")
              /\ full' = [full EXCEPT ![r] = @ \cup {p}]
              /\ UNCHANGED <<slots, active, slotGen>>
        /\ UNCHANGED <<now, gen, blocked, exhausted, ready, windows, modelWindows,
                       cooldown, modelSlots, metrics, list, view, due, outcome,
                       gone, tried, considered, faulty>>

AcquireModel(r) ==
    LET g == pinned[r]
        e == Entry(r)
        cap == Configs[g].modelCap[e]
    IN  /\ pc[r] = "modelslot"
        /\ \/ /\ HasSlot(modelSlots[g][e], cap)
              /\ modelSlots' = [modelSlots EXCEPT ![g][e] = Taken(@, cap)]
              /\ Goto(r, "call")
           \/ /\ ~HasSlot(modelSlots[g][e], cap)
              /\ Goto(r, "undo")
              /\ UNCHANGED modelSlots
        /\ UNCHANGED <<now, gen, blocked, exhausted, ready, windows, modelWindows,
                       cooldown, slots, metrics, active, locals, gone, history>>

\* Mutant: an exit path that forgets the provider slot.
KeepProviderSlot(p) == UNCHANGED <<slots, active>>

\* r.limits.ReleaseConcurrency: the tracker of the moment, not the one that the
\* slot was taken from.
GiveProviderSlotBack(p) ==
    /\ slots' = [slots EXCEPT ![gen][p] = Returned(@, Configs[gen].cap[p])]
    /\ active' = [active EXCEPT ![p] = @ - 1]

\* Mutant: the model tracker of the moment too.
GiveModelSlotBackLive(r) ==
    modelSlots' = [modelSlots EXCEPT ![gen][Entry(r)] =
                     Returned(@, Configs[gen].modelCap[Entry(r)])]

\* The model tracker is the one that release() has captured.
GiveModelSlotBack(r) ==
    modelSlots' = [modelSlots EXCEPT ![pinned[r]][Entry(r)] =
                     Returned(@, Configs[pinned[r]].modelCap[Entry(r)])]

\* No model slot: the provider slot goes back to the tracker of the moment,
\* and the caller drops the whole provider.
Undo(r) ==
    /\ pc[r] = "undo"
    /\ GiveProviderSlotBack(Prov(r))
    /\ slotGen' = [slotGen EXCEPT ![r] = 0]
    /\ FilterProvider(r)
    /\ cur' = [cur EXCEPT ![r] = 0]
    /\ pinned' = [pinned EXCEPT ![r] = 0]
    /\ full' = [full EXCEPT ![r] = @ \cup {Prov(r)}]
    /\ Goto(r, "select")
    /\ UNCHANGED <<now, gen, blocked, exhausted, ready, windows, modelWindows,
                   cooldown, modelSlots, metrics, list, view, due, outcome, gone,
                   tried, considered, faulty>>

ReleaseProvider(r) ==
    /\ pc[r] = "release"
    /\ GiveProviderSlotBack(Prov(r))
    /\ slotGen' = [slotGen EXCEPT ![r] = 0]
    /\ Goto(r, "modelrelease")
    /\ UNCHANGED <<now, gen, blocked, exhausted, ready, windows, modelWindows,
                   cooldown, modelSlots, metrics, locals, gone, tried, considered,
                   full, faulty>>

ReleaseModel(r) ==
    /\ pc[r] = "modelrelease"
    /\ GiveModelSlotBack(r)
    /\ pinned' = [pinned EXCEPT ![r] = 0]
    /\ Goto(r, IF r \in Streaming /\ outcome[r] = "ok" THEN "done" ELSE "settle")
    /\ UNCHANGED <<now, gen, blocked, exhausted, ready, windows, modelWindows,
                   cooldown, slots, metrics, active, list, left, cur, view,
                   due, outcome, gone, history>>

-----------------------------------------------------------------------------
(* The call, and what becomes of its outcome *)

\* A call ends with an answer, a model-level error (429, 413), another error,
\* or, once a stream is open, with no chunk at all or an error in its first
\* chunk.  When the client is gone its context is cancelled and every call
\* fails.
Answers(r) ==
    LET errors == {"model", "other"} \cup
                  (IF r \in Streaming THEN {"empty", "chunkerr"} ELSE {})
    IN  IF gone[r] THEN errors \ {"model"} ELSE errors \cup {"ok"}

Return(r, answer) ==
    /\ pc[r] = "call"
    /\ outcome' = [outcome EXCEPT ![r] = answer]
    /\ \/ /\ answer = "ok"
          /\ r \in Streaming
          /\ Goto(r, "stream")
          /\ Count("requests")
       \/ /\ ~(answer = "ok" /\ r \in Streaming)
          /\ Goto(r, "release")
          /\ UNCHANGED metrics
    /\ tried' = [tried EXCEPT ![r] = IF answer = "ok" THEN @ ELSE @ \cup {<<cur[r], answer>>}]
    /\ faulty' = IF answer = "ok" \/ gone[r] THEN faulty ELSE faulty \cup {Prov(r)}
    /\ UNCHANGED <<now, gen, blocked, exhausted, ready, windows, modelWindows,
                   cooldown, slots, modelSlots, active, list, left, cur, view,
                   pinned, due, gone, slotGen, considered, full>>

\* The upstream channel is drained, the forwarder runs its deferred release().
StreamEnds(r) ==
    /\ pc[r] = "stream"
    /\ Goto(r, "release")
    /\ UNCHANGED <<now, gen, shared, locals, gone, history>>

\* Mutant: a success lifts the block that another request has set.
SucceedUnblocks(r) ==
    /\ pc[r] = "settle"
    /\ outcome[r] = "ok"
    /\ Goto(r, "done")
    /\ Count("requests")
    /\ blocked' = [blocked EXCEPT ![Prov(r)] = 0]
    /\ UNCHANGED <<now, gen, exhausted, ready, windows, modelWindows, cooldown,
                   slots, modelSlots, active, locals, gone, history>>

Succeed(r) ==
    /\ pc[r] = "settle"
    /\ outcome[r] = "ok"
    /\ Goto(r, "done")
    /\ Count("requests")
    /\ UNCHANGED <<now, gen, blocked, exhausted, ready, windows, modelWindows,
                   cooldown, slots, modelSlots, active, locals, gone, history>>

\* retryAfterDuration: what the body announces, or the recovery window, or 60 s.
CooldownsOf(p) ==
    RetryAfters \cup
    {IF Configs[gen].recovery[p] = 0 THEN DefaultCooldown ELSE Configs[gen].recovery[p]}

\* A model-level error of a local provider: the entry is dropped and cools
\* down in the model tracker of the moment.
CoolDown(r) ==
    /\ pc[r] = "settle"
    /\ outcome[r] = "model"
    /\ Prov(r) \notin Remote
    /\ FilterEntry(r)
    /\ \E d \in CooldownsOf(Prov(r)) :
          cooldown' = [cooldown EXCEPT ![gen][Entry(r)] = now + d]
    /\ Count("failures")
    /\ cur' = [cur EXCEPT ![r] = 0]
    /\ outcome' = [outcome EXCEPT ![r] = "none"]
    /\ Goto(r, "select")
    /\ UNCHANGED <<now, gen, blocked, exhausted, ready, windows, modelWindows, slots,
                   modelSlots, active, list, view, pinned, due, gone, history>>

\* Mutant: a new block starts where the present one ends.
BlockAddsUp(p, d) ==
    blocked' = [blocked EXCEPT ![p] = (IF now < @ THEN @ ELSE now) + d]

\* state.Manager.Block.
Block(p, d) == blocked' = [blocked EXCEPT ![p] = now + d]

\* Any other error of a remote provider blocks it for its recovery window.
BlockProvider(r) ==
    LET p == Prov(r)
    IN  /\ pc[r] = "settle"
        /\ outcome[r] \in {"model", "other", "chunkerr"}
        /\ p \in Remote
        /\ FilterProvider(r)
        /\ Block(p, Configs[gen].recovery[p])
        /\ metrics' = [metrics EXCEPT !.failures = @ + 1, !.blocks = @ + 1]
        /\ cur' = [cur EXCEPT ![r] = 0]
        /\ outcome' = [outcome EXCEPT ![r] = "none"]
        /\ Goto(r, "select")
        /\ UNCHANGED <<now, gen, exhausted, ready, windows, modelWindows, cooldown,
                       slots, modelSlots, active, list, view, pinned, due,
                       gone, history>>

\* An empty stream, or any other error of a local provider: next provider.
DropProvider(r) ==
    /\ pc[r] = "settle"
    /\ \/ outcome[r] = "empty"
       \/ outcome[r] \in {"other", "chunkerr"} /\ Prov(r) \notin Remote
    /\ FilterProvider(r)
    /\ Count("failures")
    /\ cur' = [cur EXCEPT ![r] = 0]
    /\ outcome' = [outcome EXCEPT ![r] = "none"]
    /\ Goto(r, "select")
    /\ UNCHANGED <<now, gen, blocked, exhausted, ready, windows, modelWindows,
                   cooldown, slots, modelSlots, active, list, view, pinned, due,
                   gone, history>>

-----------------------------------------------------------------------------
(* The rest of the program *)

\* main's reload callback installs the next configuration and new trackers.
Update ==
    /\ gen < Len(Configs)
    /\ gen' = gen + 1
    /\ UNCHANGED <<now, shared, pc, locals, gone, history>>

HealthChanges(p) ==
    /\ ready' = [ready EXCEPT ![p] = ~@]
    /\ UNCHANGED <<now, gen, blocked, exhausted, windows, modelWindows, cooldown,
                   slots, modelSlots, metrics, active, pc, locals, gone, history>>

Answered(r) ==
    \/ pc[r] \in {"stream", "done", "failed"}
    \/ r \in Streaming /\ outcome[r] = "ok"

\* A client that hangs up before it has its answer.
Disconnect(r) ==
    /\ pc[r] # "idle"
    /\ ~Answered(r)
    /\ ~gone[r]
    /\ gone' = [gone EXCEPT ![r] = TRUE]
    /\ UNCHANGED <<now, gen, shared, pc, locals, history>>

Tick ==
    /\ now < MaxTime
    /\ now' = now + 1
    /\ UNCHANGED <<gen, shared, pc, locals, gone, history>>

\* Every client has its answer: the program idles.
AllDone ==
    /\ \A r \in Requests : pc[r] \in {"done", "failed"}
    /\ UNCHANGED vars

\* One step of the goroutine that serves r.
Step(r) ==
    \/ GiveUp(r) \/ Select(r) \/ CheckState(r) \/ CheckCooldown(r)
    \/ RecordModel(r) \/ RecordProvider(r) \/ SetExhausted(r)
    \/ PinTracker(r) \/ AcquireProvider(r) \/ AcquireModel(r) \/ Undo(r)
    \/ \E answer \in Answers(r) : Return(r, answer)
    \/ ReleaseProvider(r) \/ ReleaseModel(r)
    \/ Succeed(r) \/ CoolDown(r) \/ BlockProvider(r) \/ DropProvider(r)

Next ==
    \/ \E r \in Requests :
        \/ \E model \in Asked : Resolve(r, model)
        \/ Step(r)
        \/ StreamEnds(r)
    \/ \E r \in Leavers : Disconnect(r)
    \/ \E p \in Flaky : HealthChanges(p)
    \/ Update \/ Tick \/ AllDone

Spec == Init /\ [][Next]_vars

\* A goroutine keeps running, and a provider call ends: every http.Client of
\* the adapters has a Timeout.  Nothing is assumed of clients, clock and reloads.
FairSpec == Spec /\ \A r \in Requests : WF_vars(Step(r))
-----------------------------------------------------------------------------
(* Properties *)

StateTyped ==
    /\ now \in Nat
    /\ blocked \in [Providers -> Nat] /\ exhausted \in [Providers -> Nat]
    /\ ready \in [Providers -> BOOLEAN]
    /\ DOMAIN windows = Generations /\ DOMAIN modelWindows = Generations
    /\ \A g \in Generations :
        /\ DOMAIN windows[g] = Providers /\ DOMAIN modelWindows[g] = Entries
        /\ \A p \in Providers :
              windows[g][p] \in [DOMAIN Configs[g].limits[p] -> Window]
        /\ \A e \in Entries :
              modelWindows[g][e] \in [DOMAIN Configs[g].modelLimits[e] -> Window]
    /\ cooldown \in [Generations -> [Entries -> Nat]]
    /\ metrics \in Metrics

SlotsTyped ==
    /\ gen \in Generations
    /\ slots \in [Generations -> [Providers -> Nat]]
    /\ modelSlots \in [Generations -> [Entries -> Nat]]
    /\ active \in [Providers -> Int]
    /\ slotGen \in [Requests -> Generations \cup {0}]

RequestsTyped ==
    /\ pc \in [Requests -> Locations]
    /\ list \in [Requests -> Seq(Entries)]
    /\ left \in [Requests -> SUBSET Nat] /\ \A r \in Requests : left[r] \subseteq DOMAIN list[r]
    /\ cur \in [Requests -> Nat]
    /\ view \in [Requests -> Generations \cup {0}]
    /\ pinned \in [Requests -> Generations \cup {0}]
    /\ due \in [Requests -> Nat]
    /\ outcome \in [Requests -> Outcomes]
    /\ gone \in [Requests -> BOOLEAN]

HistoryTyped ==
    /\ tried \in [Requests -> SUBSET (Nat \X Outcomes)]
    /\ considered \in [Requests -> SUBSET Nat]
    /\ full \in [Requests -> SUBSET Providers]
    /\ faulty \subseteq Providers

TypeOK == StateTyped /\ SlotsTyped /\ RequestsTyped /\ HistoryTyped

HoldsProviderSlot(r) == pc[r] \in {"modelslot", "undo", "call", "stream", "release"}

HoldsModelSlot(r) == pc[r] \in {"call", "stream", "release", "modelrelease"}

\* The requests that a provider is working on, or about to.
InFlight(p) == {r \in Requests : HoldsProviderSlot(r) /\ Prov(r) = p}

ModelHolders(g, e) ==
    {r \in Requests : HoldsModelSlot(r) /\ pinned[r] = g /\ Entry(r) = e}

\* A model slot is given back to the very tracker it was taken from, so that
\* every model tracker counts its holders exactly, those of reloads ago
\* included (router.go:160-184: modelLimits is captured by the closure).
ModelSlotsExact ==
    \A g \in Generations : \A e \in Entries :
        Configs[g].modelCap[e] > 0 =>
            /\ modelSlots[g][e] = Cardinality(ModelHolders(g, e))
            /\ modelSlots[g][e] <= Configs[g].modelCap[e]

\* The tracker in use never counts a provider slot that no running request
\* took from it: whatever reloads do, a provider is not shut for good by slots
\* that nobody will give back.
NoPhantomSlots ==
    \A p \in Providers :
        slots[gen][p] <= Cardinality({r \in InFlight(p) : slotGen[r] = gen})

\* The gauge in the metrics is the number of requests in flight
\* (router.go:168-180), reloads included.
ActiveExact == \A p \in Providers : active[p] = Cardinality(InFlight(p))

\* No provider serves more requests at once than its cap ("max in-flight
\* requests", README.md:290).
ProviderCapHolds ==
    \A p \in Providers :
        Configs[gen].cap[p] > 0 => Cardinality(InFlight(p)) <= Configs[gen].cap[p]

\* ... which the code keeps to as long as the first configuration is in use
\* (router.go:164-175).
CapUntilReload == gen = 1 => ProviderCapHolds

\* A request does not come back to what has failed it: an entry is called at
\* most once, and after a failure other than a model-level one of a local
\* provider no other entry of that provider is called.
NeverRetried ==
    \A r \in Requests : pc[r] = "call" => \A t \in tried[r] :
        /\ list[r][t[1]] # Entry(r)
        /\ list[r][t[1]][1] = Prov(r) => Prov(r) \notin Remote /\ t[2] = "model"

\* A request is only turned away after every entry of its list was looked at,
\* or dropped with its provider: because a call had failed the whole provider,
\* or because it, or one of its models, had no slot left (README.md:74: "falls
\* through the full list until something succeeds").
FullListTried ==
    \A r \in Requests : pc[r] = "failed" => \A i \in DOMAIN list[r] :
        \/ \E j \in considered[r] : list[r][j] = list[r][i]
        \/ list[r][i][1] \in full[r]
        \/ \E t \in tried[r] : /\ list[r][t[1]][1] = list[r][i][1]
                               /\ t[2] # "model" \/ list[r][i][1] \in Remote

\* Every answer is counted once, as a request served or as lack of capacity,
\* and every failed call once (router.go:193, 200, 222, 256, 266), wherever the
\* loop is left.
Counted(r) == pc[r] \in {"done", "failed"} \/ (r \in Streaming /\ outcome[r] = "ok")

Unsettled(r) ==
    pc[r] \in {"release", "modelrelease", "settle"} /\ outcome[r] # "ok"

MetricsBalance ==
    /\ metrics.noCapacity = Cardinality({r \in Requests : pc[r] = "failed"})
    /\ metrics.requests + metrics.noCapacity = Cardinality({r \in Requests : Counted(r)})
    /\ metrics.failures + Cardinality({r \in Requests : Unsettled(r)})
         = Cardinality(UNION {{r} \X tried[r] : r \in Requests})

\* No sanction lasts longer than what the configuration grants it: a provider
\* that failed or ran out of quota is tried again, nothing piles up
\* (router.go:139-143, manager.go:79-107).
RecoveryWindows(p) == {Configs[g].recovery[p] : g \in Generations}

LimitWindows(p) ==
    UNION {{Configs[g].limits[p][i].window : i \in DOMAIN Configs[g].limits[p]} :
              g \in Generations}

SanctionsExpire ==
    \A p \in Providers :
        /\ now < blocked[p] => \E d \in RecoveryWindows(p) : blocked[p] <= now + d
        /\ now < exhausted[p] => \E d \in LimitWindows(p) : exhausted[p] <= now + d

\* As long as the recovery windows stay the same, whatever the order in which
\* the failures of concurrent requests are handled, no failure shortens the
\* block that another one has set.
BlocksOnlyExtend == [][\A p \in Providers : blocked'[p] >= blocked[p]]_vars

\* Every request is answered, whatever providers, clients, health checks and
\* reloads do.
EveryRequestAnswered ==
    \A r \in Requests : pc[r] = "select" ~> Answered(r)

-----------------------------------------------------------------------------
(* What it all amounts to *)

\* How the client sees where its request stands.
StageOf(r) ==
    CASE pc[r] = "idle" -> "waiting"
      [] pc[r] = "failed" -> "refused"
      [] pc[r] \notin {"idle", "failed"} /\ Answered(r) -> "answered"
      [] pc[r] \in {"call", "release", "modelrelease", "settle"} /\ ~Answered(r) -> "calling"
      [] OTHER -> "choosing"

\* What is left before its place has been passed over in this round.
PassedBy(r) == {i \in left[r] : i < cur[r]}

Stages == [r \in Requests |-> StageOf(r)]
Passed == [r \in Requests |-> PassedBy(r)]

\* The lists that the configurations give the models asked for.
Offered == {ResolveIn(Configs[g], model) : g \in Generations, model \in Asked}

Promise == INSTANCE Failover WITH
    stage <- Stages,
    passed <- Passed,
    Lists <- Offered

\* Under all the trackers, slots, quotas, sanctions and reloads the loops of
\* Route and Stream are the fall-through of module Failover: the first entry
\* left that is not passed over in this round is the one that is called, what
\* a failure drops never comes back, a client is turned away only by a round
\* that has passed over everything left, and is answered once
\* (router.go:104-134, 188-268 and 271-389).
ImplementsFailover == Promise!Spec

-----------------------------------------------------------------------------
(* The inductive invariant behind the properties of the slots *)

\* From "cooldown" to "settle" a request has an entry selected.
Selected == {"cooldown", "modelquota", "quota", "exhaust", "pin", "slot", "modelslot",
             "undo", "call", "stream", "release", "modelrelease", "settle"}

Pinned == {"slot", "modelslot", "undo", "call", "stream", "release", "modelrelease"}

\* What a request works with at each place is there.
Placed ==
    \A r \in Requests :
        /\ pc[r] = "state" => cur[r] \in DOMAIN list[r] \cup {Beyond(r)}
        /\ pc[r] \in Selected => cur[r] \in DOMAIN list[r]
        /\ pc[r] \in {"state", "cooldown", "modelquota", "quota", "exhaust"} =>
              view[r] \in Generations
        /\ pc[r] \in Pinned => pinned[r] \in Generations

\* A tracker is as new when it is installed, and counts nothing without a cap.
Unused ==
    \A g \in Generations : \A p \in Providers :
        g > gen \/ Configs[g].cap[p] = 0 => slots[g][p] = 0

\* While the first configuration is in use its trackers are exact.
FirstExact ==
    gen = 1 => \A p \in Providers : Configs[1].cap[p] > 0 =>
        /\ slots[1][p] = Cardinality(InFlight(p))
        /\ slots[1][p] <= Configs[1].cap[p]

SlotIInv == SlotsTyped /\ RequestsTyped /\ Placed /\ Unused /\ ModelSlotsExact
            /\ NoPhantomSlots /\ ActiveExact /\ FirstExact

-----------------------------------------------------------------------------
(* The inductive invariant behind the properties of the fall-through *)

\* The loop of selectProvider only looks at what has not been filtered out,
\* and has looked at everything before its place.
LoopOK(r) ==
    /\ pc[r] = "state" => cur[r] \in left[r] \cup {Beyond(r)}
    /\ pc[r] \in Selected => cur[r] \in left[r] \cap considered[r]
    /\ pc[r] \in Selected \cup {"state"} =>
          \A k \in left[r] : k < cur[r] => k \in considered[r]

\* There is an outcome from the end of the call on.
OutcomeOK(r) ==
    /\ pc[r] \notin {"stream", "release", "modelrelease", "settle", "done"} =>
          outcome[r] = "none"
    /\ pc[r] = "stream" => outcome[r] = "ok"
    /\ pc[r] = "settle" /\ outcome[r] = "ok" => r \notin Streaming

\* The call that failed last, while what to make of it is open.
Pending(r) == IF Unsettled(r) THEN {<<cur[r], outcome[r]>>} ELSE {}

\* After the failure t no position like i is left.
Costs(t, i, r) ==
    \/ list[r][i] = list[r][t[1]]
    \/ list[r][i][1] = list[r][t[1]][1] /\ (t[2] # "model" \/ list[r][i][1] \in Remote)

\* Every failure that has been dealt with has cost what NeverRetried says.
FailuresOK(r) ==
    /\ pc[r] = "idle" => tried[r] = {}
    /\ Pending(r) \subseteq tried[r]
    /\ \A t \in tried[r] : t[1] \in DOMAIN list[r]
    /\ \A t \in tried[r] \ Pending(r) : \A i \in left[r] : ~Costs(t, i, r)

\* What FullListTried accepts for a position.
Excused(r, i) ==
    \/ \E j \in considered[r] : list[r][j] = list[r][i]
    \/ list[r][i][1] \in full[r]
    \/ \E t \in tried[r] : /\ list[r][t[1]][1] = list[r][i][1]
                           /\ t[2] # "model" \/ list[r][i][1] \in Remote

\* Nothing is filtered out without an excuse.
DroppedExcused(r) ==
    /\ \A i \in DOMAIN list[r] \ left[r] : Excused(r, i)
    /\ pc[r] = "failed" => \A i \in DOMAIN list[r] : Excused(r, i)

FallThroughOK == \A r \in Requests :
    LoopOK(r) /\ OutcomeOK(r) /\ FailuresOK(r) /\ DroppedExcused(r)

\* A window ends no later than its length from now, and so does what a request
\* is about to take over from one.
DueOK ==
    /\ \A g \in Generations : \A p \in Providers : \A i \in DOMAIN Configs[g].limits[p] :
          windows[g][p][i].resetAt <= now + Configs[g].limits[p][i].window
    /\ \A r \in Requests : pc[r] = "exhaust" =>
          \E d \in LimitWindows(Prov(r)) : due[r] <= now + d

FallThroughIInv == FallThroughOK /\ DueOK

\* A round begins at the top, and only a stream outlives the call of Stream.
RoundsOK == \A r \in Requests :
    /\ pc[r] \in {"idle", "select"} => cur[r] = 0
    /\ pc[r] = "stream" => r \in Streaming

-----------------------------------------------------------------------------
(* What the documents promise and the code does not keep *)

\* A provider is blocked because it failed (README.md:73: "blocked (HTTP error)").
BlockedHasFailed == \A p \in Providers : blocked[p] # 0 => p \in faulty
=============================================================================
