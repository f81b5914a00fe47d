---------------------------- MODULE Router_proofs ----------------------------
(***************************************************************************)
(* For any number of requests, providers and models, any configurations    *)
(* and any sequence of reloads: slots and metrics are counted exactly, the *)
(* fall-through of a request neither repeats nor leaves out a candidate,   *)
(* and no sanction outlasts what the configuration grants it.              *)
(***************************************************************************)
EXTENDS Router, FiniteSetTheorems, TLAPS

\* What the source's config.yaml installs is typed.
LEMMA ConfigTyped ==
  ASSUME NEW g \in Generations
  PROVE  /\ Configs[g] \in Config
         /\ g \in Nat
         /\ \A p \in Providers : Configs[g].cap[p] \in Nat
         /\ \A e \in Entries : Configs[g].modelCap[e] \in Nat
<1>1. Configs[g] \in Config /\ g \in Nat
  BY ConfigsAssumption DEF Generations
<1> QED
  BY <1>1 DEF Config

LEMMA RecoveryTyped ==
  ASSUME NEW g \in Generations
  PROVE  Configs[g].recovery \in [Providers -> Nat]
<1>1. Configs[g] \in Config
  BY ConfigTyped
<1> QED
  BY <1>1 DEF Config

\* The list that a request works through consists of entries.
LEMMA ResolvedTyped ==
  ASSUME NEW g \in Generations, NEW model \in Asked
  PROVE  ResolveIn(Configs[g], model) \in Seq(Entries)
<1>1. Configs[g].globalList \in Seq(Entries) /\ Configs[g].default \in Models \cup {""}
      /\ Configs[g].forModel \in [Models -> Seq(Entries)]
  BY ConfigTyped DEF Config
<1>2. CASE model = "auto"
  BY <1>1, <1>2 DEF ResolveIn
<1>3. CASE model = "" /\ model # "auto"
  BY <1>1, <1>3 DEF ResolveIn
<1>4. CASE model # "auto" /\ model # ""
  BY <1>1, <1>4, AskedAssumption DEF ResolveIn
<1> QED
  BY <1>2, <1>3, <1>4

\* The next position of the loop is one that is left, or beyond the list.
LEMMA AdvanceTyped ==
  ASSUME RequestsTyped, NEW r \in Requests, NEW i, Advance(r, i)
  PROVE  \E j \in DOMAIN list[r] \cup {Beyond(r)} :
            j \in Nat /\ cur' = [cur EXCEPT ![r] = j]
<1>1. PICK j \in left[r] \cup {Beyond(r)} : cur' = [cur EXCEPT ![r] = j]
  BY DEF Advance
<1>2. list[r] \in Seq(Entries) /\ left[r] \subseteq DOMAIN list[r]
  BY DEF RequestsTyped
<1>3. Beyond(r) \in Nat /\ DOMAIN list[r] \subseteq Nat
  BY <1>2 DEF Beyond
<1> QED
  BY <1>1, <1>2, <1>3

\* Filtering keeps some of the positions.
LEMMA FilterTyped ==
  ASSUME RequestsTyped, NEW r \in Requests,
         FilterProvider(r) \/ FilterEntry(r) \/ UNCHANGED left
  PROVE  /\ left' \in [Requests -> SUBSET Nat]
         /\ \A q \in Requests : left'[q] \subseteq DOMAIN list[q]
<1>1. CASE FilterProvider(r)
  BY <1>1 DEF FilterProvider, Keep, RequestsTyped
<1>2. CASE FilterEntry(r)
  BY <1>2 DEF FilterEntry, Keep, RequestsTyped
<1>3. CASE UNCHANGED left
  BY <1>3 DEF RequestsTyped
<1> QED
  BY <1>1, <1>2, <1>3

\* Charging windows makes windows.
LEMMA ChargeOneTyped ==
  ASSUME NEW w \in Window, NEW cfg \in LimitConfig, NEW t \in Nat
  PROVE  Charge(w, cfg, t) \in Window
BY DEF Window, LimitConfig, NewWindow, LazyReset, Open, Charge

LEMMA ChargeTyped ==
  ASSUME NEW cfgs \in Seq(LimitConfig), NEW ws \in [DOMAIN cfgs -> Window], NEW t \in Nat
  PROVE  ChargeAll(ws, cfgs, t) \in [DOMAIN cfgs -> Window]
<1>1. ASSUME NEW i \in DOMAIN cfgs PROVE Charge(ws[i], cfgs[i], t) \in Window
  BY ChargeOneTyped
<1> QED
  BY <1>1 DEF ChargeAll

\* A request that has selected an entry works with an entry of some provider.
LEMMA SelectedEntry ==
  ASSUME RequestsTyped, Placed, NEW r \in Requests, pc[r] \in Selected
  PROVE  Entry(r) \in Entries /\ Prov(r) \in Providers
<1>1. list[r] \in Seq(Entries) /\ cur[r] \in DOMAIN list[r]
  BY DEF RequestsTyped, Placed
<1>2. list[r][cur[r]] \in Entries
  BY <1>1
<1> QED
  BY <1>2 DEF Entry, Prov, Entries

-----------------------------------------------------------------------------
(* Requests are where the code can be, with what they need there *)

LEMMA RequestsInit == Init => RequestsTyped /\ Placed
  BY ConfigsAssumption
  DEF Init, RequestsTyped, Placed, Locations, Outcomes, Selected, Pinned, Generations

LEMMA RequestsNext ==
  ASSUME RequestsTyped, Placed, StateTyped, gen \in Generations, [Next]_vars
  PROVE  RequestsTyped' /\ Placed'
<1> USE DEF Locations, Outcomes, Selected, Pinned
<1>1. ASSUME NEW r \in Requests, NEW model \in Asked, Resolve(r, model)
      PROVE  RequestsTyped' /\ Placed'
  <2>1. ResolveIn(Configs[gen], model) \in Seq(Entries)
    BY ResolvedTyped
  <2>2. RequestsTyped'
    <3>1. list' \in [Requests -> Seq(Entries)]
      BY <1>1, <2>1 DEF Resolve, RequestsTyped
    <3>2. left' \in [Requests -> SUBSET Nat]
          /\ \A q \in Requests : left'[q] \subseteq DOMAIN list'[q]
      BY <1>1, <2>1 DEF Resolve, RequestsTyped
    <3> QED
      BY <1>1, <3>1, <3>2 DEF Resolve, Goto, RequestsTyped
  <2>3. Placed'
    BY <1>1, <2>1 DEF Resolve, Goto, RequestsTyped, Placed, Beyond
  <2> QED
    BY <2>2, <2>3
<1>2. ASSUME NEW r \in Requests, GiveUp(r) PROVE RequestsTyped' /\ Placed'
  BY <1>2 DEF GiveUp, Goto, RequestsTyped, Placed, Beyond
<1>3. ASSUME NEW r \in Requests, Select(r) PROVE RequestsTyped' /\ Placed'
  <2>1. PICK j \in DOMAIN list[r] \cup {Beyond(r)} : j \in Nat /\ cur' = [cur EXCEPT ![r] = j]
    BY <1>3, AdvanceTyped DEF Select
  <2> QED
    BY <1>3, <2>1 DEF Select, Goto, RequestsTyped, Placed, Beyond
<1>4. ASSUME NEW r \in Requests, CheckState(r) PROVE RequestsTyped' /\ Placed'
  <2>1. CASE UNCHANGED cur
    BY <1>4, <2>1 DEF CheckState, Goto, RequestsTyped, Placed, Beyond
  <2>2. CASE Advance(r, cur[r]) /\ UNCHANGED pc
    <3>1. PICK j \in DOMAIN list[r] \cup {Beyond(r)} : j \in Nat /\ cur' = [cur EXCEPT ![r] = j]
      BY <2>2, AdvanceTyped
    <3> QED
      BY <1>4, <2>2, <3>1 DEF CheckState, RequestsTyped, Placed, Beyond
  <2> QED
    BY <1>4, <2>1, <2>2 DEF CheckState
<1>5. ASSUME NEW r \in Requests, CheckCooldown(r) \/ RecordModel(r)
      PROVE  RequestsTyped' /\ Placed'
  <2>1. CASE UNCHANGED cur
    <3>1. /\ UNCHANGED <<list, left, cur, pinned, due, outcome, gone>>
          /\ pc' = [pc EXCEPT ![r] = pc'[r]]
          /\ pc'[r] \in Locations
          /\ view' \in [Requests -> Generations \cup {0}]
      BY <1>5, <2>1 DEF CheckCooldown, RecordModel, Goto, RequestsTyped
    <3>2. RequestsTyped'
      BY <3>1 DEF RequestsTyped
    <3>3. Placed'
      BY <1>5, <2>1 DEF CheckCooldown, RecordModel, Goto, RequestsTyped, Placed, Beyond
    <3> QED
      BY <3>2, <3>3
  <2>2. CASE Advance(r, cur[r]) /\ Goto(r, "state")
    <3>1. PICK j \in DOMAIN list[r] \cup {Beyond(r)} : j \in Nat /\ cur' = [cur EXCEPT ![r] = j]
      BY <2>2, AdvanceTyped
    <3> QED
      BY <1>5, <2>2, <3>1
      DEF CheckCooldown, RecordModel, Goto, RequestsTyped, Placed, Beyond
  <2> QED
    BY <1>5, <2>1, <2>2 DEF CheckCooldown, RecordModel
<1>6. ASSUME NEW r \in Requests, SetExhausted(r) PROVE RequestsTyped' /\ Placed'
  <2>1. PICK j \in DOMAIN list[r] \cup {Beyond(r)} : j \in Nat /\ cur' = [cur EXCEPT ![r] = j]
    BY <1>6, AdvanceTyped DEF SetExhausted
  <2>2. /\ UNCHANGED <<list, left, view, pinned, outcome, gone>>
        /\ pc[r] = "exhaust" /\ Goto(r, "state") /\ due' = [due EXCEPT ![r] = 0]
    BY <1>6 DEF SetExhausted
  <2>3. view[r] \in Generations
    BY <2>2 DEF Placed
  <2>4. RequestsTyped'
    BY <2>1, <2>2 DEF Goto, RequestsTyped
  <2>5. Placed'
    BY <2>1, <2>2, <2>3 DEF Goto, RequestsTyped, Placed, Beyond
  <2> QED
    BY <2>4, <2>5
<1>7. ASSUME NEW r \in Requests, RecordProvider(r) PROVE RequestsTyped' /\ Placed'
  <2> DEFINE cfgs == Configs[gen].limits[Prov(r)]
             ws == ChargeAll(windows[gen][Prov(r)], cfgs, now)
  <2>1. Prov(r) \in Providers
    BY <1>7, SelectedEntry DEF RecordProvider
  <2>2. cfgs \in Seq(LimitConfig) /\ windows[gen][Prov(r)] \in [DOMAIN cfgs -> Window]
    <3>1. cfgs \in Seq(LimitConfig)
      BY <2>1, ConfigTyped DEF Config
    <3> QED
      BY <2>1, <3>1 DEF StateTyped
  <2>3. ws \in [DOMAIN cfgs -> Window]
    BY <2>2, ChargeTyped DEF StateTyped
  <2>4. \A i \in Over(ws, cfgs) : ws[i].resetAt \in Nat
    BY <2>3 DEF Over, Window
  <2>5. \/ \E d \in Nat : due' = [due EXCEPT ![r] = d] /\ Goto(r, "exhaust") /\ UNCHANGED view
        \/ Goto(r, "pin") /\ view' = [view EXCEPT ![r] = 0] /\ UNCHANGED due
    BY <1>7, <2>4 DEF RecordProvider
  <2> HIDE DEF cfgs, ws
  <2>6. UNCHANGED <<list, left, cur, pinned, outcome, gone>> /\ pc[r] = "quota"
    BY <1>7 DEF RecordProvider
  <2>7. RequestsTyped'
    <3>1. CASE \E d \in Nat : due' = [due EXCEPT ![r] = d] /\ Goto(r, "exhaust") /\ UNCHANGED view
      BY <2>6, <3>1 DEF Goto, RequestsTyped
    <3>2. CASE Goto(r, "pin") /\ view' = [view EXCEPT ![r] = 0] /\ UNCHANGED due
      BY <2>6, <3>2 DEF Goto, RequestsTyped
    <3> QED
      BY <2>5, <3>1, <3>2
  <2>8. Placed'
    BY <2>5, <2>6 DEF Goto, RequestsTyped, Placed, Beyond
  <2> QED
    BY <2>7, <2>8
<1>8. ASSUME NEW r \in Requests, PinTracker(r) \/ AcquireModel(r)
      PROVE  RequestsTyped' /\ Placed'
  <2>1. CASE PinTracker(r)
    BY <1>8, <2>1 DEF PinTracker, Goto, RequestsTyped, Placed, Beyond
  <2>2. CASE AcquireModel(r)
    <3>1. pc[r] = "modelslot" /\ (Goto(r, "call") \/ Goto(r, "undo")) /\ UNCHANGED locals
          /\ UNCHANGED gone
      BY <2>2 DEF AcquireModel
    <3> QED
      BY <3>1 DEF locals, Goto, RequestsTyped, Placed, Beyond
  <2> QED
    BY <1>8, <2>1, <2>2
<1>9. ASSUME NEW r \in Requests, AcquireProvider(r) \/ Undo(r)
      PROVE  RequestsTyped' /\ Placed'
  <2>1. left' \in [Requests -> SUBSET Nat] /\ \A q \in Requests : left'[q] \subseteq DOMAIN list[q]
    BY <1>9, FilterTyped DEF AcquireProvider, Undo
  <2>2. /\ UNCHANGED <<list, view, due, outcome, gone>>
        /\ \/ Goto(r, "modelslot") /\ pc[r] = "slot" /\ UNCHANGED <<cur, pinned>>
           \/ /\ Goto(r, "select")
              /\ cur' = [cur EXCEPT ![r] = 0]
              /\ pinned' = [pinned EXCEPT ![r] = 0]
    BY <1>9 DEF AcquireProvider, Undo
  <2>3. /\ pc' \in [Requests -> Locations] /\ cur' \in [Requests -> Nat]
        /\ pinned' \in [Requests -> Generations \cup {0}]
    <3>1. pc' \in [Requests -> Locations]
      BY <2>2 DEF Goto, RequestsTyped
    <3>2. cur' \in [Requests -> Nat]
      <4>1. cur \in [Requests -> Nat] /\ (cur' = cur \/ cur' = [cur EXCEPT ![r] = 0])
        BY <2>2 DEF RequestsTyped
      <4> QED
        BY <4>1
    <3>3. pinned' \in [Requests -> Generations \cup {0}]
      BY <2>2 DEF RequestsTyped
    <3> QED
      BY <3>1, <3>2, <3>3
  <2>4. RequestsTyped'
    BY <2>1, <2>2, <2>3 DEF RequestsTyped
  <2>5. Placed'
    BY <2>2 DEF Goto, RequestsTyped, Placed, Beyond
  <2> QED
    BY <2>4, <2>5
<1>10. ASSUME NEW r \in Requests, NEW a \in Answers(r), Return(r, a)
       PROVE  RequestsTyped' /\ Placed'
  <2>1. a \in Outcomes
    BY DEF Answers
  <2> QED
    BY <1>10, <2>1 DEF Return, Goto, RequestsTyped, Placed, Beyond
<1>11. ASSUME NEW r \in Requests,
              ReleaseProvider(r) \/ ReleaseModel(r) \/ Succeed(r) \/ StreamEnds(r)
       PROVE  RequestsTyped' /\ Placed'
  <2>1. /\ UNCHANGED <<list, left, cur, view, due, outcome, gone>>
        /\ pc' = [pc EXCEPT ![r] = pc'[r]]
        /\ pc'[r] \in Locations
        /\ pinned' \in [Requests -> Generations \cup {0}]
    BY <1>11 DEF ReleaseProvider, ReleaseModel, Succeed, StreamEnds, locals, Goto, RequestsTyped
  <2>2. RequestsTyped'
    BY <2>1 DEF RequestsTyped
  <2>3. Placed'
    BY <1>11
    DEF ReleaseProvider, ReleaseModel, Succeed, StreamEnds, locals, Goto, RequestsTyped,
        Placed, Beyond
  <2> QED
    BY <2>2, <2>3
<1>12. ASSUME NEW r \in Requests, CoolDown(r) \/ BlockProvider(r) \/ DropProvider(r)
       PROVE  RequestsTyped' /\ Placed'
  <2>1. left' \in [Requests -> SUBSET Nat] /\ \A q \in Requests : left'[q] \subseteq DOMAIN list[q]
    BY <1>12, FilterTyped DEF CoolDown, BlockProvider, DropProvider
  <2>2. /\ UNCHANGED <<list, view, pinned, due, gone>>
        /\ Goto(r, "select")
        /\ cur' = [cur EXCEPT ![r] = 0]
        /\ outcome' = [outcome EXCEPT ![r] = "none"]
    BY <1>12 DEF CoolDown, BlockProvider, DropProvider
  <2>3. outcome' \in [Requests -> Outcomes] /\ pc' \in [Requests -> Locations]
    BY <2>2 DEF Goto, RequestsTyped
  <2>4. RequestsTyped'
    BY <2>1, <2>2, <2>3 DEF RequestsTyped
  <2>5. Placed'
    BY <2>2 DEF Goto, RequestsTyped, Placed, Beyond
  <2> QED
    BY <2>4, <2>5
<1>13. ASSUME NEW r \in Leavers, Disconnect(r) PROVE RequestsTyped' /\ Placed'
  BY <1>13, RequestsAssumption
  DEF Disconnect, locals, RequestsTyped, Placed, Beyond
<1>14. CASE Update \/ Tick \/ AllDone \/ UNCHANGED vars \/ \E p \in Flaky : HealthChanges(p)
  BY <1>14
  DEF Update, Tick, AllDone, HealthChanges, vars, locals, RequestsTyped, Placed, Beyond
<1> QED
  BY <1>1, <1>2, <1>3, <1>4, <1>5, <1>6, <1>7, <1>8, <1>9, <1>10, <1>11, <1>12,
     <1>13, <1>14
  DEF Next, Step

-----------------------------------------------------------------------------
(* The slots *)

\* What the properties of the slots count.
Counters == ModelSlotsExact /\ NoPhantomSlots /\ ActiveExact /\ FirstExact /\ Unused

\* Those who took their slot from the tracker in use.
Current(p) == {r \in InFlight(p) : slotGen[r] = gen}

\* The sets that are counted are finite.
LEMMA CountedFinite ==
  /\ \A p : IsFiniteSet(InFlight(p)) /\ Cardinality(InFlight(p)) \in Nat
  /\ \A p : IsFiniteSet(Current(p)) /\ Cardinality(Current(p)) \in Nat
  /\ \A g, e : IsFiniteSet(ModelHolders(g, e)) /\ Cardinality(ModelHolders(g, e)) \in Nat
<1>1. \A S : S \subseteq Requests => IsFiniteSet(S) /\ Cardinality(S) \in Nat
  BY RequestsAssumption, FS_Subset, FS_CardinalityType
<1>2. \A p : InFlight(p) \subseteq Requests /\ Current(p) \subseteq Requests
  BY DEF InFlight, Current
<1>3. \A g, e : ModelHolders(g, e) \subseteq Requests
  BY DEF ModelHolders
<1> QED
  BY <1>1, <1>2, <1>3

\* A step that takes and gives back nothing.
Quiet ==
  /\ UNCHANGED <<gen, slots, modelSlots, active, slotGen>>
  /\ \A r \in Requests :
        /\ HoldsProviderSlot(r)' <=> HoldsProviderSlot(r)
        /\ HoldsModelSlot(r)' <=> HoldsModelSlot(r)
        /\ HoldsProviderSlot(r) \/ HoldsModelSlot(r) =>
              pinned'[r] = pinned[r] /\ list'[r] = list[r] /\ cur'[r] = cur[r]

LEMMA QuietKeeps ==
  ASSUME Counters, Quiet
  PROVE  Counters'
<1>1. \A r \in Requests : HoldsProviderSlot(r) \/ HoldsModelSlot(r) =>
          Entry(r)' = Entry(r) /\ Prov(r)' = Prov(r)
  BY DEF Quiet, Entry, Prov
<1>2. \A p : InFlight(p)' = InFlight(p)
  BY <1>1 DEF Quiet, InFlight
<1>3. \A p : Current(p)' = Current(p)
  BY <1>2 DEF Quiet, Current
<1>4. \A g, e : ModelHolders(g, e)' = ModelHolders(g, e)
  BY <1>1 DEF Quiet, ModelHolders
<1>5. ModelSlotsExact'
  BY <1>4 DEF Counters, Quiet, ModelSlotsExact
<1>6. NoPhantomSlots'
  BY <1>3 DEF Counters, Quiet, NoPhantomSlots, Current
<1>7. ActiveExact' /\ FirstExact' /\ Unused'
  BY <1>2 DEF Counters, Quiet, ActiveExact, FirstExact, Unused
<1> QED
  BY <1>5, <1>6, <1>7 DEF Counters

LEMMA QuietSteps ==
  ASSUME RequestsTyped, NEW r \in Requests,
         \/ GiveUp(r) \/ Select(r) \/ CheckState(r) \/ CheckCooldown(r)
         \/ RecordModel(r) \/ RecordProvider(r) \/ SetExhausted(r) \/ PinTracker(r)
         \/ Succeed(r) \/ CoolDown(r) \/ BlockProvider(r) \/ DropProvider(r)
         \/ StreamEnds(r)
         \/ \E model \in Asked : Resolve(r, model)
         \/ \E a \in Answers(r) : Return(r, a)
  PROVE  Quiet
<1> USE DEF Quiet, HoldsProviderSlot, HoldsModelSlot, Goto, RequestsTyped, Locations
<1>1. CASE GiveUp(r) \/ Select(r)
  BY <1>1 DEF GiveUp, Select, Advance, shared, history
<1>2. CASE CheckState(r)
  BY <1>2 DEF CheckState, Advance, shared
<1>3. CASE CheckCooldown(r) \/ RecordModel(r)
  BY <1>3 DEF CheckCooldown, RecordModel, Advance, history
<1>4. CASE RecordProvider(r)
  BY <1>4 DEF RecordProvider, history
<1>5. CASE SetExhausted(r) \/ PinTracker(r)
  BY <1>5 DEF SetExhausted, PinTracker, Advance, shared, history
<1>6. CASE Succeed(r) \/ CoolDown(r) \/ BlockProvider(r) \/ DropProvider(r)
  BY <1>6 DEF Succeed, CoolDown, BlockProvider, DropProvider, locals, history
<1>7. CASE StreamEnds(r)
  BY <1>7 DEF StreamEnds, shared, locals, history
<1>8. ASSUME NEW model \in Asked, Resolve(r, model) PROVE Quiet
  BY <1>8 DEF Resolve, history
<1>9. ASSUME NEW a \in Answers(r), Return(r, a) PROVE Quiet
  BY <1>9 DEF Return
<1> QED
  BY <1>1, <1>2, <1>3, <1>4, <1>5, <1>6, <1>7, <1>8, <1>9

LEMMA QuietRest ==
  ASSUME RequestsTyped,
         \/ Tick \/ AllDone \/ UNCHANGED vars
         \/ \E p \in Flaky : HealthChanges(p)
         \/ \E r \in Leavers : Disconnect(r)
  PROVE  Quiet
BY DEF Tick, AllDone, HealthChanges, Disconnect, vars, shared, locals, history, Quiet,
       HoldsProviderSlot, HoldsModelSlot

\* How the number of elements changes from S to T when they differ in x at most.
Counted1(S, T, x) ==
  /\ (x \in S <=> x \in T) => Cardinality(T) = Cardinality(S)
  /\ x \notin S /\ x \in T => Cardinality(T) = Cardinality(S) + 1
  /\ x \in S /\ x \notin T => Cardinality(T) = Cardinality(S) - 1

LEMMA DifferInOne ==
  ASSUME NEW S, NEW T, NEW x, IsFiniteSet(S), IsFiniteSet(T), S \ {x} = T \ {x},
         Cardinality(S) \in Nat, Cardinality(T) \in Nat
  PROVE  Counted1(S, T, x)
<1>1. Cardinality(S \ {x}) = IF x \in S THEN Cardinality(S) - 1 ELSE Cardinality(S)
  BY FS_RemoveElement
<1>2. Cardinality(T \ {x}) = IF x \in T THEN Cardinality(T) - 1 ELSE Cardinality(T)
  BY FS_RemoveElement
<1>3. Cardinality(S \ {x}) = Cardinality(T \ {x})
  OBVIOUS
<1> QED
  BY <1>1, <1>2, <1>3 DEF Counted1

\* A step of r takes nobody else in or out of the sets that are counted.
OnlyMoves(r) ==
  /\ UNCHANGED <<gen, list>>
  /\ \A q \in Requests \ {r} : /\ pc'[q] = pc[q] /\ cur'[q] = cur[q]
                             /\ pinned'[q] = pinned[q] /\ slotGen'[q] = slotGen[q]

LEMMA OnlyItself ==
  ASSUME NEW r \in Requests, OnlyMoves(r)
  PROVE  /\ \A p : InFlight(p)' \ {r} = InFlight(p) \ {r}
         /\ \A p : Current(p)' \ {r} = Current(p) \ {r}
         /\ \A g, e : ModelHolders(g, e)' \ {r} = ModelHolders(g, e) \ {r}
<1>1. \A q \in Requests \ {r} : /\ HoldsProviderSlot(q)' <=> HoldsProviderSlot(q)
                              /\ HoldsModelSlot(q)' <=> HoldsModelSlot(q)
                              /\ Entry(q)' = Entry(q) /\ Prov(q)' = Prov(q)
                              /\ pinned'[q] = pinned[q] /\ slotGen'[q] = slotGen[q]
  BY DEF OnlyMoves, HoldsProviderSlot, HoldsModelSlot, Entry, Prov
<1>2. ASSUME NEW p PROVE InFlight(p)' \ {r} = InFlight(p) \ {r}
  <2>1. \A q \in Requests \ {r} : q \in InFlight(p)' <=> q \in InFlight(p)
    BY DEF OnlyMoves, InFlight, HoldsProviderSlot, Prov, Entry
  <2>2. InFlight(p)' \subseteq Requests /\ InFlight(p) \subseteq Requests
    BY DEF InFlight
  <2> QED
    BY <2>1, <2>2
<1>3. ASSUME NEW p PROVE Current(p)' \ {r} = Current(p) \ {r}
  <2>1. \A q \in Requests \ {r} : q \in Current(p)' <=> q \in Current(p)
    BY <1>1, <1>2 DEF Current, OnlyMoves
  <2>2. Current(p)' \subseteq Requests /\ Current(p) \subseteq Requests
    BY DEF InFlight, Current
  <2> QED
    BY <2>1, <2>2
<1>4. ASSUME NEW g, NEW e PROVE ModelHolders(g, e)' \ {r} = ModelHolders(g, e) \ {r}
  <2>1. \A q \in Requests \ {r} : q \in ModelHolders(g, e)' <=> q \in ModelHolders(g, e)
    BY DEF OnlyMoves, ModelHolders, HoldsModelSlot, Entry
  <2>2. ModelHolders(g, e)' \subseteq Requests /\ ModelHolders(g, e) \subseteq Requests
    BY DEF ModelHolders
  <2> QED
    BY <2>1, <2>2
<1> QED
  BY <1>2, <1>3, <1>4

\* What such a step makes of the numbers: r comes in, leaves, or neither.
LEMMA Counting ==
  ASSUME NEW r \in Requests, OnlyMoves(r)
  PROVE  /\ \A p : Counted1(InFlight(p), InFlight(p)', r)
         /\ \A p : Counted1(Current(p), Current(p)', r)
         /\ \A g, e : Counted1(ModelHolders(g, e), ModelHolders(g, e)', r)
<1>1. /\ (\A p : IsFiniteSet(InFlight(p)) /\ Cardinality(InFlight(p)) \in Nat)'
      /\ (\A p : IsFiniteSet(Current(p)) /\ Cardinality(Current(p)) \in Nat)'
      /\ (\A g, e : IsFiniteSet(ModelHolders(g, e)) /\ Cardinality(ModelHolders(g, e)) \in Nat)'
  BY CountedFinite, PTL
<1>2. ASSUME NEW p PROVE Counted1(InFlight(p), InFlight(p)', r)
  BY <1>1, CountedFinite, OnlyItself, DifferInOne
<1>3. ASSUME NEW p PROVE Counted1(Current(p), Current(p)', r)
  BY <1>1, CountedFinite, OnlyItself, DifferInOne
<1>4. ASSUME NEW g, NEW e PROVE Counted1(ModelHolders(g, e), ModelHolders(g, e)', r)
  BY <1>1, CountedFinite, OnlyItself, DifferInOne
<1> QED
  BY <1>2, <1>3, <1>4

\* NoPhantomSlots, with its set by name.
LEMMA PhantomByName ==
  NoPhantomSlots <=> \A p \in Providers : slots[gen][p] <= Cardinality(Current(p))
BY DEF NoPhantomSlots, Current

LEMMA AcquireProviderKeeps ==
  ASSUME SlotIInv, NEW r \in Requests, AcquireProvider(r)
  PROVE  SlotsTyped' /\ Counters'
<1> DEFINE p == Prov(r)
           cap == Configs[gen].cap[p]
           n == slots[gen][p]
<1>1. pc[r] = "slot" /\ p \in Providers
  BY SelectedEntry DEF AcquireProvider, SlotIInv, Selected
<1>2. gen \in Generations /\ gen \in Nat /\ cap \in Nat /\ n \in Nat
  BY <1>1, ConfigTyped DEF SlotIInv, SlotsTyped
<1>3. CASE ~HasSlot(n, cap)
  <2>1. Quiet
    BY <1>3
    DEF AcquireProvider, Quiet, HoldsProviderSlot, HoldsModelSlot, Goto, SlotIInv,
        RequestsTyped
  <2>2. SlotsTyped'
    BY <2>1 DEF Quiet, SlotsTyped, SlotIInv
  <2> QED
    BY <2>1, <2>2, QuietKeeps DEF SlotIInv, Counters
<1>4. CASE HasSlot(n, cap)
  <2>1. /\ UNCHANGED <<gen, list, cur, pinned, modelSlots>>
        /\ pc' = [pc EXCEPT ![r] = "modelslot"] /\ slotGen' = [slotGen EXCEPT ![r] = gen]
        /\ slots' = [slots EXCEPT ![gen][p] = Taken(@, cap)]
        /\ active' = [active EXCEPT ![p] = @ + 1]
    BY <1>4 DEF AcquireProvider, Goto
  <2> HIDE DEF p, cap, n
  <2>2. OnlyMoves(r)
    BY <2>1 DEF OnlyMoves, SlotIInv, RequestsTyped, SlotsTyped
  <2>3. Prov(r)' = p /\ pc'[r] = "modelslot" /\ slotGen'[r] = gen /\ gen' = gen
    BY <2>1 DEF p, Prov, Entry, SlotIInv, RequestsTyped, SlotsTyped
  <2>4. \A x : r \notin InFlight(x) /\ r \notin Current(x)
             /\ (r \in InFlight(x)' <=> x = p) /\ (r \in Current(x)' <=> x = p)
    BY <1>1, <2>3 DEF InFlight, Current, HoldsProviderSlot
  <2>5. \A g, e : r \notin ModelHolders(g, e) /\ r \notin ModelHolders(g, e)'
    BY <1>1, <2>3 DEF ModelHolders, HoldsModelSlot
  <2>6. \A x : /\ Cardinality(InFlight(x)') =
                    IF x = p THEN Cardinality(InFlight(x)) + 1 ELSE Cardinality(InFlight(x))
               /\ Cardinality(Current(x)') =
                    IF x = p THEN Cardinality(Current(x)) + 1 ELSE Cardinality(Current(x))
    BY <2>2, <2>4, Counting DEF Counted1
  <2>7. \A g, e : Cardinality(ModelHolders(g, e)') = Cardinality(ModelHolders(g, e))
    BY <2>2, <2>5, Counting DEF Counted1
  <2>8. \A g \in Generations, x \in Providers :
          slots'[g][x] = IF g = gen /\ x = p THEN Taken(n, cap) ELSE slots[g][x]
    BY <1>1, <1>2, <2>1 DEF n, SlotIInv, SlotsTyped
  <2>9. \A x \in Providers : active'[x] = IF x = p THEN active[x] + 1 ELSE active[x]
    BY <1>1, <2>1 DEF SlotIInv, SlotsTyped
  <2>10. Taken(n, cap) \in Nat /\ Taken(n, cap) <= n + 1
         /\ (cap > 0 => Taken(n, cap) = n + 1 /\ n + 1 <= cap)
    BY <1>2, <1>4 DEF Taken, HasSlot
  <2>11. SlotsTyped'
    <3>1. slots' \in [Generations -> [Providers -> Nat]]
      BY <1>1, <1>2, <2>1, <2>10 DEF n, SlotIInv, SlotsTyped
    <3>2. active' \in [Providers -> Int] /\ slotGen' \in [Requests -> Generations \cup {0}]
      BY <1>1, <1>2, <2>1 DEF SlotIInv, SlotsTyped
    <3> QED
      BY <2>1, <3>1, <3>2 DEF SlotIInv, SlotsTyped
  <2>12. ModelSlotsExact'
    BY <2>1, <2>7 DEF SlotIInv, ModelSlotsExact
  <2>13. NoPhantomSlots'
    <3>1. \A x \in Providers : slots[gen][x] <= Cardinality(Current(x))
      BY PhantomByName DEF SlotIInv
    <3>2. ASSUME NEW x \in Providers PROVE slots'[gen][x] <= Cardinality(Current(x)')
      <4>1. slots[gen][x] <= Cardinality(Current(x)) /\ Cardinality(Current(x)) \in Nat
        BY <3>1, CountedFinite
      <4>2. CASE x = p
        <5>1. slots'[gen][x] = Taken(n, cap) /\ slots[gen][x] = n
          BY <1>2, <2>8, <4>2 DEF n
        <5>2. Cardinality(Current(x)') = Cardinality(Current(x)) + 1
          BY <2>6, <4>2
        <5> QED
          BY <1>2, <2>10, <4>1, <5>1, <5>2
      <4>3. CASE x # p
        <5>1. slots'[gen][x] = slots[gen][x]
          BY <1>2, <2>8, <4>3
        <5> QED
          BY <2>6, <4>1, <4>3, <5>1
      <4> QED
        BY <4>2, <4>3
    <3> QED
      BY <2>1, <3>2 DEF NoPhantomSlots, Current
  <2>14. ActiveExact'
    <3>1. ASSUME NEW x \in Providers PROVE active'[x] = Cardinality(InFlight(x)')
      <4>1. active[x] = Cardinality(InFlight(x))
        BY DEF SlotIInv, ActiveExact
      <4> QED
        BY <2>6, <2>9, <4>1
    <3> QED
      BY <3>1 DEF ActiveExact
  <2>15. FirstExact'
    <3>1. ASSUME NEW x \in Providers, gen = 1, Configs[1].cap[x] > 0
          PROVE  /\ slots'[1][x] = Cardinality(InFlight(x)')
                 /\ slots'[1][x] <= Configs[1].cap[x]
      <4>1. slots[1][x] = Cardinality(InFlight(x)) /\ slots[1][x] <= Configs[1].cap[x]
        BY <3>1 DEF SlotIInv, FirstExact
      <4>2. CASE x = p
        <5>1. slots'[1][x] = Taken(n, cap) /\ slots[1][x] = n /\ cap = Configs[1].cap[x]
          BY <1>2, <2>8, <3>1, <4>2 DEF n, cap
        <5> QED
          BY <2>6, <2>10, <3>1, <4>1, <4>2, <5>1
      <4>3. CASE x # p
        <5>1. slots'[1][x] = slots[1][x]
          BY <1>2, <2>8, <3>1, <4>3
        <5> QED
          BY <2>6, <4>1, <4>3, <5>1
      <4> QED
        BY <4>2, <4>3
    <3> QED
      BY <2>1, <3>1 DEF FirstExact
  <2>16. Unused'
    BY <1>2, <2>1, <2>8 DEF n, cap, Taken, SlotIInv, Unused, Generations
  <2> QED
    BY <2>11, <2>12, <2>13, <2>14, <2>15, <2>16 DEF Counters
<1> QED
  BY <1>3, <1>4

\* Giving a provider slot back, on either of the two ways out.
LEMMA GiveBackKeeps ==
  ASSUME SlotIInv, NEW r \in Requests, pc[r] \in {"undo", "release"},
         NEW p, p = Prov(r), GiveProviderSlotBack(p), OnlyMoves(r), UNCHANGED modelSlots,
         slotGen' = [slotGen EXCEPT ![r] = 0],
         ~HoldsProviderSlot(r)', HoldsModelSlot(r)' <=> HoldsModelSlot(r),
         HoldsModelSlot(r) => pinned'[r] = pinned[r] /\ cur'[r] = cur[r]
  PROVE  SlotsTyped' /\ Counters'
<1> DEFINE cap == Configs[gen].cap[p]
           n == slots[gen][p]
<1>1. p \in Providers /\ HoldsProviderSlot(r) /\ gen' = gen
  BY SelectedEntry DEF SlotIInv, Selected, HoldsProviderSlot, OnlyMoves
<1>2. gen \in Generations /\ gen \in Nat /\ cap \in Nat /\ n \in Nat
  BY <1>1, ConfigTyped DEF SlotIInv, SlotsTyped
<1>3. /\ slots' = [slots EXCEPT ![gen][p] = Returned(@, cap)]
      /\ active' = [active EXCEPT ![p] = @ - 1]
  BY DEF GiveProviderSlotBack
<1> HIDE DEF cap, n
<1>4. \A x : /\ r \in InFlight(x) <=> x = p
             /\ r \in Current(x) <=> x = p /\ slotGen[r] = gen
             /\ r \notin InFlight(x)' /\ r \notin Current(x)'
  BY <1>1 DEF InFlight, Current
<1>5. \A g, e : r \in ModelHolders(g, e)' <=> r \in ModelHolders(g, e)
  BY DEF ModelHolders, Entry, OnlyMoves
<1>6. \A x : /\ Cardinality(InFlight(x)') =
                  IF x = p THEN Cardinality(InFlight(x)) - 1 ELSE Cardinality(InFlight(x))
             /\ Cardinality(Current(x)') =
                  IF x = p /\ slotGen[r] = gen
                  THEN Cardinality(Current(x)) - 1 ELSE Cardinality(Current(x))
  BY <1>4, Counting DEF Counted1
<1>7. \A g, e : Cardinality(ModelHolders(g, e)') = Cardinality(ModelHolders(g, e))
  BY <1>5, Counting DEF Counted1
<1>8. \A g \in Generations, x \in Providers :
        slots'[g][x] = IF g = gen /\ x = p THEN Returned(n, cap) ELSE slots[g][x]
  BY <1>1, <1>2, <1>3 DEF n, SlotIInv, SlotsTyped
<1>9. \A x \in Providers : active'[x] = IF x = p THEN active[x] - 1 ELSE active[x]
  BY <1>1, <1>3 DEF SlotIInv, SlotsTyped
<1>10. /\ Returned(n, cap) \in Nat /\ Returned(n, cap) <= n
       /\ n > 0 /\ cap > 0 => Returned(n, cap) = n - 1
       /\ n = 0 => Returned(n, cap) = 0
       /\ cap = 0 => n = 0
  BY <1>1, <1>2 DEF Returned, n, cap, SlotIInv, Unused
<1>11. SlotsTyped'
  <2>1. slots' \in [Generations -> [Providers -> Nat]]
    BY <1>1, <1>2, <1>3, <1>10 DEF n, SlotIInv, SlotsTyped
  <2>2. active' \in [Providers -> Int] /\ slotGen' \in [Requests -> Generations \cup {0}]
    BY <1>1, <1>3 DEF SlotIInv, SlotsTyped
  <2> QED
    BY <1>1, <2>1, <2>2 DEF SlotIInv, SlotsTyped
<1>12. ModelSlotsExact'
  BY <1>7 DEF SlotIInv, ModelSlotsExact
<1>13. NoPhantomSlots'
  <2>1. ASSUME NEW x \in Providers PROVE slots'[gen][x] <= Cardinality(Current(x)')
    <3>1. slots[gen][x] <= Cardinality(Current(x)) /\ Cardinality(Current(x)) \in Nat
      BY PhantomByName, CountedFinite DEF SlotIInv
    <3>2. CASE x = p
      <4>1. slots'[gen][x] = Returned(n, cap) /\ slots[gen][x] = n
        BY <1>2, <1>8, <3>2 DEF n
      <4>2. CASE slotGen[r] # gen
        BY <1>2, <1>6, <1>10, <3>1, <3>2, <4>1, <4>2
      <4>3. CASE slotGen[r] = gen
        <5>1. Cardinality(Current(x)') = Cardinality(Current(x)) - 1
          BY <1>6, <3>2, <4>3
        <5>2. r \in Current(x)
          BY <1>4, <3>2, <4>3
        <5>3. Cardinality(Current(x)) >= 1
          BY <3>1, <5>2, CountedFinite, FS_EmptySet
        <5> QED
          BY <1>2, <1>10, <3>1, <4>1, <5>1, <5>3
      <4> QED
        BY <4>2, <4>3
    <3>3. CASE x # p
      <4>1. slots'[gen][x] = slots[gen][x]
        BY <1>2, <1>8, <3>3
      <4> QED
        BY <1>6, <3>1, <3>3, <4>1
    <3> QED
      BY <3>2, <3>3
  <2> QED
    BY <1>1, <2>1 DEF NoPhantomSlots, Current
<1>14. ActiveExact'
  <2>1. ASSUME NEW x \in Providers PROVE active'[x] = Cardinality(InFlight(x)')
    <3>1. active[x] = Cardinality(InFlight(x))
      BY DEF SlotIInv, ActiveExact
    <3> QED
      BY <1>6, <1>9, <3>1
  <2> QED
    BY <2>1 DEF ActiveExact
<1>15. FirstExact'
  <2>1. ASSUME NEW x \in Providers, gen = 1, Configs[1].cap[x] > 0
        PROVE  /\ slots'[1][x] = Cardinality(InFlight(x)')
               /\ slots'[1][x] <= Configs[1].cap[x]
    <3>1. slots[1][x] = Cardinality(InFlight(x)) /\ slots[1][x] <= Configs[1].cap[x]
          /\ Cardinality(InFlight(x)) \in Nat /\ Configs[1].cap[x] \in Nat
      BY <1>2, <2>1, CountedFinite, ConfigTyped DEF SlotIInv, FirstExact
    <3>2. CASE x = p
      <4>1. slots'[1][x] = Returned(n, cap) /\ slots[1][x] = n /\ cap = Configs[1].cap[x]
        BY <1>2, <1>8, <2>1, <3>2 DEF n, cap
      <4>2. r \in InFlight(x)
        BY <1>4, <3>2
      <4>3. Cardinality(InFlight(x)) # 0
        BY <4>2, CountedFinite, FS_EmptySet
      <4> QED
        BY <1>2, <1>6, <1>10, <2>1, <3>1, <3>2, <4>1, <4>3
    <3>3. CASE x # p
      <4>1. slots'[1][x] = slots[1][x]
        BY <1>2, <1>8, <2>1, <3>3
      <4> QED
        BY <1>6, <3>1, <3>3, <4>1
    <3> QED
      BY <3>2, <3>3
  <2> QED
    BY <1>1, <2>1 DEF FirstExact
<1>16. Unused'
  BY <1>1, <1>2, <1>8, <1>10 DEF n, SlotIInv, Unused, Generations
<1> QED
  BY <1>11, <1>12, <1>13, <1>14, <1>15, <1>16 DEF Counters

LEMMA UndoKeeps ==
  ASSUME SlotIInv, NEW r \in Requests, Undo(r)
  PROVE  SlotsTyped' /\ Counters'
<1>1. pc[r] = "undo" /\ pc' = [pc EXCEPT ![r] = "select"]
  BY DEF Undo, Goto
<1>2. OnlyMoves(r)
  BY DEF Undo, Goto, OnlyMoves, SlotIInv, RequestsTyped, SlotsTyped
<1>3. ~HoldsProviderSlot(r)' /\ ~HoldsModelSlot(r)' /\ ~HoldsModelSlot(r)
  BY <1>1 DEF HoldsProviderSlot, HoldsModelSlot, SlotIInv, RequestsTyped
<1>4. GiveProviderSlotBack(Prov(r)) /\ UNCHANGED modelSlots
      /\ slotGen' = [slotGen EXCEPT ![r] = 0]
  BY DEF Undo
<1> QED
  BY <1>1, <1>2, <1>3, <1>4, GiveBackKeeps

LEMMA ReleaseProviderKeeps ==
  ASSUME SlotIInv, NEW r \in Requests, ReleaseProvider(r)
  PROVE  SlotsTyped' /\ Counters'
<1>1. pc[r] = "release" /\ pc' = [pc EXCEPT ![r] = "modelrelease"] /\ UNCHANGED locals
  BY DEF ReleaseProvider, Goto
<1>2. OnlyMoves(r)
  BY <1>1 DEF ReleaseProvider, locals, OnlyMoves, SlotIInv, RequestsTyped, SlotsTyped
<1>3. ~HoldsProviderSlot(r)' /\ (HoldsModelSlot(r)' <=> HoldsModelSlot(r))
  BY <1>1 DEF HoldsProviderSlot, HoldsModelSlot, SlotIInv, RequestsTyped
<1>4. GiveProviderSlotBack(Prov(r)) /\ UNCHANGED modelSlots
      /\ slotGen' = [slotGen EXCEPT ![r] = 0] /\ pinned' = pinned /\ cur' = cur
  BY <1>1 DEF ReleaseProvider, locals
<1> QED
  BY <1>1, <1>2, <1>3, <1>4, GiveBackKeeps

\* A step that neither takes nor gives back a provider slot.
LEMMA ProviderSlotsStay ==
  ASSUME SlotIInv, NEW r \in Requests, OnlyMoves(r), UNCHANGED <<slots, active, slotGen>>,
         HoldsProviderSlot(r)' <=> HoldsProviderSlot(r), Prov(r)' = Prov(r)
  PROVE  NoPhantomSlots' /\ ActiveExact' /\ FirstExact' /\ Unused'
<1>1. gen' = gen
  BY DEF OnlyMoves
<1>2. \A p : r \in InFlight(p)' <=> r \in InFlight(p)
  BY DEF InFlight
<1>3. \A p : r \in Current(p)' <=> r \in Current(p)
  BY <1>1, <1>2 DEF Current
<1>4. \A p : Cardinality(InFlight(p)') = Cardinality(InFlight(p))
  BY <1>2, Counting DEF Counted1
<1>5. \A p : Cardinality(Current(p)') = Cardinality(Current(p))
  BY <1>3, Counting DEF Counted1
<1>6. NoPhantomSlots'
  BY <1>1, <1>5 DEF SlotIInv, NoPhantomSlots, Current
<1>7. ActiveExact' /\ FirstExact' /\ Unused'
  BY <1>1, <1>4 DEF SlotIInv, ActiveExact, FirstExact, Unused
<1> QED
  BY <1>6, <1>7

LEMMA ModelSlotKeeps ==
  ASSUME SlotIInv, NEW r \in Requests, AcquireModel(r) \/ ReleaseModel(r)
  PROVE  SlotsTyped' /\ Counters'
<1>1. PICK g \in Generations, e \in Entries : g = pinned[r] /\ e = Entry(r)
  <2>1. pinned[r] \in Generations
    BY DEF AcquireModel, ReleaseModel, SlotIInv, Placed, Pinned
  <2>2. Entry(r) \in Entries
    BY SelectedEntry DEF AcquireModel, ReleaseModel, SlotIInv, Selected
  <2> QED
    BY <2>1, <2>2
<1> DEFINE n == modelSlots[g][e]
           cap == Configs[g].modelCap[e]
<1>2. n \in Nat /\ cap \in Nat
  BY ConfigTyped DEF SlotIInv, SlotsTyped
<1>3. cap > 0 => n = Cardinality(ModelHolders(g, e)) /\ n <= cap
  BY DEF SlotIInv, ModelSlotsExact
<1>4. OnlyMoves(r) /\ Entry(r)' = e /\ Prov(r)' = Prov(r)
      /\ UNCHANGED <<gen, slots, active, slotGen>>
  BY <1>1
  DEF AcquireModel, ReleaseModel, Goto, locals, history, OnlyMoves, Entry, Prov, SlotIInv,
      RequestsTyped
<1>5. HoldsProviderSlot(r)' <=> HoldsProviderSlot(r)
  BY DEF AcquireModel, ReleaseModel, Goto, HoldsProviderSlot, SlotIInv, RequestsTyped
<1>6. NoPhantomSlots' /\ ActiveExact' /\ FirstExact' /\ Unused'
  BY <1>4, <1>5, ProviderSlotsStay
<1>7. CASE AcquireModel(r) /\ ~HasSlot(n, cap)
  <2>1. UNCHANGED modelSlots /\ pc[r] = "modelslot" /\ pc' = [pc EXCEPT ![r] = "undo"]
    BY <1>1, <1>7 DEF AcquireModel, Goto
  <2>2. \A h, f : r \notin ModelHolders(h, f) /\ r \notin ModelHolders(h, f)'
    BY <2>1 DEF ModelHolders, HoldsModelSlot, SlotIInv, RequestsTyped
  <2>3. \A h, f : Cardinality(ModelHolders(h, f)') = Cardinality(ModelHolders(h, f))
    BY <1>4, <2>2, Counting DEF Counted1
  <2>4. ModelSlotsExact'
    BY <2>1, <2>3 DEF SlotIInv, ModelSlotsExact
  <2> QED
    BY <1>4, <1>6, <2>1, <2>4 DEF Counters, SlotIInv, SlotsTyped
<1>8. CASE AcquireModel(r) /\ HasSlot(n, cap)
  <2>1. /\ modelSlots' = [modelSlots EXCEPT ![g][e] = Taken(@, cap)]
        /\ pc[r] = "modelslot" /\ pc' = [pc EXCEPT ![r] = "call"] /\ pinned' = pinned
    BY <1>1, <1>8 DEF AcquireModel, Goto, locals
  <2>2. \A h, f : r \notin ModelHolders(h, f) /\ (r \in ModelHolders(h, f)' <=> h = g /\ f = e)
    BY <1>1, <1>4, <2>1 DEF ModelHolders, HoldsModelSlot, SlotIInv, RequestsTyped
  <2>3. \A h, f : Cardinality(ModelHolders(h, f)') =
                    IF h = g /\ f = e THEN Cardinality(ModelHolders(h, f)) + 1
                                      ELSE Cardinality(ModelHolders(h, f))
    BY <1>4, <2>2, Counting DEF Counted1
  <2>4. Taken(n, cap) \in Nat /\ (cap > 0 => Taken(n, cap) = n + 1 /\ n + 1 <= cap)
    BY <1>2, <1>8 DEF Taken, HasSlot
  <2>5. \A h \in Generations, f \in Entries :
          modelSlots'[h][f] = IF h = g /\ f = e THEN Taken(n, cap) ELSE modelSlots[h][f]
    BY <2>1 DEF SlotIInv, SlotsTyped
  <2>6. modelSlots' \in [Generations -> [Entries -> Nat]]
    BY <2>1, <2>4 DEF SlotIInv, SlotsTyped
  <2> HIDE DEF n, cap
  <2>7. ASSUME NEW h \in Generations, NEW f \in Entries, Configs[h].modelCap[f] > 0
        PROVE  /\ modelSlots'[h][f] = Cardinality(ModelHolders(h, f)')
               /\ modelSlots'[h][f] <= Configs[h].modelCap[f]
    <3>1. CASE h = g /\ f = e
      BY <1>3, <2>3, <2>4, <2>5, <2>7, <3>1 DEF cap
    <3>2. CASE ~(h = g /\ f = e)
      BY <2>3, <2>5, <2>7, <3>2 DEF SlotIInv, ModelSlotsExact
    <3> QED
      BY <3>1, <3>2
  <2>8. ModelSlotsExact'
    BY <2>7 DEF ModelSlotsExact
  <2> QED
    BY <1>4, <1>6, <2>6, <2>8 DEF Counters, SlotIInv, SlotsTyped
<1>9. CASE ReleaseModel(r)
  <2>1. /\ modelSlots' = [modelSlots EXCEPT ![g][e] = Returned(@, cap)]
        /\ pc[r] = "modelrelease"
        /\ pc'[r] \in {"done", "settle"}
    BY <1>1, <1>9 DEF ReleaseModel, GiveModelSlotBack, Goto, SlotIInv, RequestsTyped
  <2>2. \A h, f : (r \in ModelHolders(h, f) <=> h = g /\ f = e) /\ r \notin ModelHolders(h, f)'
    BY <1>1, <2>1 DEF ModelHolders, HoldsModelSlot
  <2>3. \A h, f : Cardinality(ModelHolders(h, f)') =
                    IF h = g /\ f = e THEN Cardinality(ModelHolders(h, f)) - 1
                                      ELSE Cardinality(ModelHolders(h, f))
    BY <1>4, <2>2, Counting DEF Counted1
  <2>4. Cardinality(ModelHolders(g, e)) # 0 /\ Cardinality(ModelHolders(g, e)) \in Nat
    BY <2>2, CountedFinite, FS_EmptySet
  <2>5. Returned(n, cap) \in Nat /\ (cap > 0 => Returned(n, cap) = n - 1 /\ n - 1 <= cap)
    BY <1>2, <1>3, <2>4 DEF Returned
  <2>6. \A h \in Generations, f \in Entries :
          modelSlots'[h][f] = IF h = g /\ f = e THEN Returned(n, cap) ELSE modelSlots[h][f]
    BY <2>1 DEF SlotIInv, SlotsTyped
  <2>7. modelSlots' \in [Generations -> [Entries -> Nat]]
    BY <2>1, <2>5 DEF SlotIInv, SlotsTyped
  <2> HIDE DEF n, cap
  <2>8. ASSUME NEW h \in Generations, NEW f \in Entries, Configs[h].modelCap[f] > 0
        PROVE  /\ modelSlots'[h][f] = Cardinality(ModelHolders(h, f)')
               /\ modelSlots'[h][f] <= Configs[h].modelCap[f]
    <3>1. CASE h = g /\ f = e
      BY <1>3, <2>3, <2>5, <2>6, <2>8, <3>1 DEF cap
    <3>2. CASE ~(h = g /\ f = e)
      BY <2>3, <2>6, <2>8, <3>2 DEF SlotIInv, ModelSlotsExact
    <3> QED
      BY <3>1, <3>2
  <2>9. ModelSlotsExact'
    BY <2>8 DEF ModelSlotsExact
  <2> QED
    BY <1>4, <1>6, <2>7, <2>9 DEF Counters, SlotIInv, SlotsTyped
<1> QED
  BY <1>7, <1>8, <1>9

\* A reload installs trackers that count nothing yet; the old model trackers
\* go on counting, and no later generation is 1.
LEMMA UpdateKeeps ==
  ASSUME SlotIInv, Update
  PROVE  SlotsTyped' /\ Counters'
<1>1. /\ gen' = gen + 1 /\ gen < Len(Configs)
      /\ UNCHANGED <<slots, modelSlots, active, slotGen, pc, list, cur, pinned>>
  BY DEF Update, shared, locals, history
<1>2. gen \in Nat /\ gen >= 1 /\ gen' \in Generations /\ Generations \subseteq Nat
  BY <1>1, ConfigsAssumption DEF SlotIInv, SlotsTyped, Generations
<1>3. SlotsTyped'
  BY <1>1, <1>2 DEF SlotIInv, SlotsTyped
<1>4. \A x : InFlight(x)' = InFlight(x)
  BY <1>1 DEF InFlight, HoldsProviderSlot, Prov, Entry
<1>5. \A h, f : ModelHolders(h, f)' = ModelHolders(h, f)
  BY <1>1 DEF ModelHolders, HoldsModelSlot, Entry
<1>6. ModelSlotsExact'
  BY <1>1, <1>5 DEF SlotIInv, ModelSlotsExact
<1>7. ActiveExact'
  BY <1>1, <1>4 DEF SlotIInv, ActiveExact
<1>8. FirstExact'
  BY <1>1, <1>2 DEF FirstExact
<1>9. Unused'
  BY <1>1, <1>2 DEF SlotIInv, Unused
<1>10. NoPhantomSlots'
  <2>1. \A x \in Providers : slots[gen'][x] = 0
    BY <1>1, <1>2 DEF SlotIInv, Unused
  <2>2. /\ (\A p : IsFiniteSet(InFlight(p)) /\ Cardinality(InFlight(p)) \in Nat)'
        /\ (\A p : IsFiniteSet(Current(p)) /\ Cardinality(Current(p)) \in Nat)'
        /\ (\A g, e : IsFiniteSet(ModelHolders(g, e)) /\ Cardinality(ModelHolders(g, e)) \in Nat)'
    BY CountedFinite, PTL
  <2>3. \A x \in Providers : slots'[gen'][x] <= Cardinality(Current(x))'
    BY <1>1, <2>1, <2>2
  <2> QED
    BY <2>3 DEF NoPhantomSlots, Current
<1> QED
  BY <1>3, <1>6, <1>7, <1>8, <1>9, <1>10 DEF Counters

LEMMA SlotsInit == Init => SlotsTyped /\ Counters
<1> SUFFICES ASSUME Init PROVE SlotsTyped /\ Counters
  OBVIOUS
<1>1. SlotsTyped
  BY ConfigsAssumption DEF Init, SlotsTyped, Generations
<1>2. \A x : InFlight(x) = {} /\ Current(x) = {}
  BY DEF Init, InFlight, Current, HoldsProviderSlot
<1>3. \A h, f : ModelHolders(h, f) = {}
  BY DEF Init, ModelHolders, HoldsModelSlot
<1>4. /\ gen = 1 /\ gen \in Generations
      /\ \A g \in Generations, x \in Providers : slots[g][x] = 0
      /\ \A g \in Generations, e \in Entries : modelSlots[g][e] = 0
      /\ \A x \in Providers : active[x] = 0
  BY ConfigsAssumption DEF Init, Generations
<1>5. Cardinality({}) = 0
  BY FS_EmptySet
<1>6. ModelSlotsExact
  <2>1. ASSUME NEW h \in Generations, NEW f \in Entries
        PROVE  modelSlots[h][f] = Cardinality(ModelHolders(h, f)) /\ Configs[h].modelCap[f] \in Nat
    BY <1>3, <1>4, <1>5, ConfigTyped
  <2> QED
    BY <1>4, <2>1 DEF ModelSlotsExact
<1>7. ActiveExact
  BY <1>2, <1>4, <1>5 DEF ActiveExact
<1>8. FirstExact
  <2>1. ASSUME NEW x \in Providers
        PROVE  slots[1][x] = Cardinality(InFlight(x)) /\ Configs[1].cap[x] \in Nat
    BY <1>2, <1>4, <1>5, ConfigTyped
  <2> QED
    BY <1>4, <2>1 DEF FirstExact
<1>9. Unused
  BY <1>4 DEF Unused
<1>10. NoPhantomSlots
  <2>1. ASSUME NEW x \in Providers PROVE slots[gen][x] <= Cardinality(Current(x))
    BY <1>2, <1>4, <1>5
  <2> QED
    BY <2>1, PhantomByName
<1> QED
  BY <1>1, <1>6, <1>7, <1>8, <1>9, <1>10 DEF Counters

-----------------------------------------------------------------------------
(* The tables of the program *)

LEMMA StateInit == Init => StateTyped
<1> SUFFICES ASSUME Init PROVE StateTyped
  OBVIOUS
<1> QED
  BY DEF Init, StateTyped, EnsureWindows, NewWindow, Window, Metrics

LEMMA StateNext ==
  ASSUME StateTyped, RequestsTyped, Placed, SlotsTyped, [Next]_vars
  PROVE  StateTyped'
<1> DEFINE Same == UNCHANGED <<now, blocked, exhausted, ready, windows, modelWindows,
                             cooldown, metrics>>
<1>1. ASSUME Same PROVE StateTyped'
  BY <1>1 DEF StateTyped
<1>2. ASSUME NEW r \in Requests, CheckCooldown(r) PROVE StateTyped'
  <2>1. view[r] \in Generations /\ Entry(r) \in Entries
    BY <1>2, SelectedEntry DEF CheckCooldown, Placed, Selected
  <2>2. PICK g \in Generations, e \in Entries : g = view[r] /\ e = Entry(r)
    BY <2>1
  <2>3. cooldown' = cooldown \/ cooldown' = [cooldown EXCEPT ![g][e] = 0]
    <3>1. CASE Cooling(view[r], Entry(r))
      BY <1>2, <3>1 DEF CheckCooldown
    <3>2. CASE ~Cooling(view[r], Entry(r))
      BY <1>2, <2>2, <3>2 DEF CheckCooldown
    <3> QED
      BY <3>1, <3>2
  <2>4. cooldown' \in [Generations -> [Entries -> Nat]]
    <3>1. cooldown \in [Generations -> [Entries -> Nat]]
      BY DEF StateTyped
    <3>2. CASE cooldown' = cooldown
      BY <3>1, <3>2
    <3>3. CASE cooldown' = [cooldown EXCEPT ![g][e] = 0]
      BY <3>1, <3>3
    <3> QED
      BY <2>3, <3>2, <3>3
  <2> QED
    BY <1>2, <2>4 DEF CheckCooldown, StateTyped
<1>3. ASSUME NEW r \in Requests, RecordModel(r) PROVE StateTyped'
  <2>1. PICK g \in Generations, e \in Entries : g = view[r] /\ e = Entry(r)
    BY <1>3, SelectedEntry DEF RecordModel, Placed, Selected
  <2> DEFINE cfgs == Configs[g].modelLimits[e]
             ws == ChargeAll(modelWindows[g][e], cfgs, now)
  <2>2. ws \in [DOMAIN cfgs -> Window]
    <3>1. cfgs \in Seq(LimitConfig)
      BY ConfigTyped DEF Config
    <3> QED
      BY <3>1, ChargeTyped DEF StateTyped
  <2>3. modelWindows' = [modelWindows EXCEPT ![g][e] = ws]
    BY <1>3, <2>1 DEF RecordModel
  <2>4. UNCHANGED <<now, blocked, exhausted, ready, windows, cooldown, metrics>>
    BY <1>3 DEF RecordModel
  <2> HIDE DEF ws
  <2>5. DOMAIN modelWindows' = Generations
    BY <2>3 DEF StateTyped
  <2>6. \A h \in Generations : DOMAIN modelWindows'[h] = Entries
    BY <2>3 DEF StateTyped
  <2>7. \A h \in Generations, f \in Entries :
          modelWindows'[h][f] \in [DOMAIN Configs[h].modelLimits[f] -> Window]
    BY <2>2, <2>3 DEF StateTyped
  <2> QED
    BY <2>4, <2>5, <2>6, <2>7 DEF StateTyped
<1>4. ASSUME NEW r \in Requests, RecordProvider(r) PROVE StateTyped'
  <2>1. PICK g \in Generations, p \in Providers : g = gen /\ p = Prov(r)
    BY <1>4, SelectedEntry DEF RecordProvider, SlotsTyped, Selected
  <2> DEFINE cfgs == Configs[g].limits[p]
             ws == ChargeAll(windows[g][p], cfgs, now)
  <2>2. ws \in [DOMAIN cfgs -> Window]
    <3>1. cfgs \in Seq(LimitConfig)
      BY ConfigTyped DEF Config
    <3> QED
      BY <3>1, ChargeTyped DEF StateTyped
  <2>3. windows' = [windows EXCEPT ![g][p] = ws]
    BY <1>4, <2>1 DEF RecordProvider
  <2>4. UNCHANGED <<now, blocked, exhausted, ready, modelWindows, cooldown, metrics>>
    BY <1>4 DEF RecordProvider
  <2> HIDE DEF ws
  <2>5. DOMAIN windows' = Generations
    BY <2>3 DEF StateTyped
  <2>6. \A h \in Generations : DOMAIN windows'[h] = Providers
    BY <2>3 DEF StateTyped
  <2>7. \A h \in Generations, q \in Providers :
          windows'[h][q] \in [DOMAIN Configs[h].limits[q] -> Window]
    BY <2>2, <2>3 DEF StateTyped
  <2> QED
    BY <2>4, <2>5, <2>6, <2>7 DEF StateTyped
<1>5. ASSUME NEW r \in Requests, SetExhausted(r) PROVE StateTyped'
  <2>1. due[r] \in Nat /\ Prov(r) \in Providers
    BY <1>5, SelectedEntry DEF SetExhausted, RequestsTyped, Selected
  <2> QED
    BY <1>5, <2>1 DEF SetExhausted, StateTyped
<1>6. ASSUME NEW field \in {"requests", "noCapacity", "failures"}, Count(field)
      PROVE  metrics' \in Metrics
  BY <1>6 DEF Count, Metrics, StateTyped
<1>7. ASSUME metrics' \in Metrics,
             UNCHANGED <<now, blocked, exhausted, ready, windows, modelWindows, cooldown>>
      PROVE  StateTyped'
  BY <1>7 DEF StateTyped
<1>8. ASSUME NEW r \in Requests,
             \/ GiveUp(r) \/ Succeed(r) \/ DropProvider(r)
             \/ \E model \in Asked : Resolve(r, model)
             \/ \E a \in Answers(r) : Return(r, a)
      PROVE  StateTyped'
  <2>1. /\ metrics' = metrics \/ \E f \in {"requests", "noCapacity", "failures"} : Count(f)
        /\ UNCHANGED <<now, blocked, exhausted, ready, windows, modelWindows, cooldown>>
    BY <1>8 DEF GiveUp, Succeed, DropProvider, Resolve, Return
  <2>2. metrics' \in Metrics
    BY <1>6, <2>1 DEF StateTyped
  <2> QED
    BY <1>7, <2>1, <2>2
<1>9. ASSUME NEW r \in Requests, CoolDown(r) PROVE StateTyped'
  <2>1. PICK g \in Generations, e \in Entries : g = gen /\ e = Entry(r) /\ Prov(r) \in Providers
    BY <1>9, SelectedEntry DEF CoolDown, SlotsTyped, Selected
  <2>2. Configs[gen].recovery \in [Providers -> Nat]
    BY <2>1, RecoveryTyped
  <2>3. \A d \in CooldownsOf(Prov(r)) : d \in Nat
    BY <2>1, <2>2, TimesAssumption DEF CooldownsOf
  <2>6. PICK d \in Nat : cooldown' = [cooldown EXCEPT ![g][e] = now + d]
    BY <1>9, <2>1, <2>3 DEF CoolDown
  <2>4. cooldown' \in [Generations -> [Entries -> Nat]]
    BY <2>6 DEF StateTyped
  <2>5. metrics' \in Metrics
    BY <1>6, <1>9 DEF CoolDown
  <2> QED
    BY <1>9, <2>4, <2>5 DEF CoolDown, StateTyped
<1>10. ASSUME NEW r \in Requests, BlockProvider(r) PROVE StateTyped'
  <2>1. PICK p \in Providers : p = Prov(r)
    BY <1>10, SelectedEntry DEF BlockProvider, Selected
  <2>2. Configs[gen].recovery \in [Providers -> Nat]
    BY RecoveryTyped DEF SlotsTyped
  <2>3. blocked' \in [Providers -> Nat]
    BY <1>10, <2>1, <2>2 DEF BlockProvider, Block, StateTyped
  <2>5. metrics' = [metrics EXCEPT !.failures = @ + 1, !.blocks = @ + 1]
    BY <1>10 DEF BlockProvider
  <2>6. metrics.failures + 1 \in Nat /\ metrics.blocks + 1 \in Nat
    BY DEF Metrics, StateTyped
  <2>7. PICK m \in Metrics : m = [metrics EXCEPT !.failures = metrics.failures + 1]
    BY <2>6 DEF Metrics, StateTyped
  <2>8. metrics' = [m EXCEPT !.blocks = metrics.blocks + 1]
    BY <2>5, <2>7, Zenon
  <2>4. metrics' \in Metrics
    BY <2>6, <2>8 DEF Metrics
  <2> QED
    BY <1>10, <2>3, <2>4 DEF BlockProvider, StateTyped
<1>11. ASSUME NEW r \in Requests,
              \/ Select(r) \/ CheckState(r) \/ PinTracker(r) \/ AcquireProvider(r)
              \/ AcquireModel(r) \/ Undo(r) \/ ReleaseProvider(r) \/ ReleaseModel(r)
              \/ StreamEnds(r)
       PROVE  Same
  BY <1>11
  DEF Select, CheckState, PinTracker, AcquireProvider, AcquireModel, Undo, ReleaseProvider,
      ReleaseModel, StreamEnds, shared
<1>12. ASSUME \/ Update \/ AllDone \/ UNCHANGED vars \/ \E r \in Leavers : Disconnect(r)
       PROVE  Same
  BY <1>12 DEF Update, AllDone, Disconnect, shared, vars
<1>13. ASSUME Tick PROVE StateTyped'
  BY <1>13 DEF Tick, shared, StateTyped
<1>14. ASSUME NEW p \in Flaky, HealthChanges(p) PROVE StateTyped'
  BY <1>14, ProvidersAssumption DEF HealthChanges, StateTyped
<1> HIDE DEF Same
<1> QED
  BY <1>1, <1>2, <1>3, <1>4, <1>5, <1>8, <1>9, <1>10, <1>11, <1>12, <1>13, <1>14
  DEF Next, Step

LEMMA HistoryInit == Init => HistoryTyped
  BY DEF Init, HistoryTyped

LEMMA HistoryNext ==
  ASSUME HistoryTyped, RequestsTyped, Placed, [Next]_vars
  PROVE  HistoryTyped'
<1>1. ASSUME UNCHANGED <<tried, considered, full, faulty>> PROVE HistoryTyped'
  BY <1>1 DEF HistoryTyped
<1>2. ASSUME NEW r \in Requests, CheckState(r) PROVE HistoryTyped'
  <2>1. cur[r] \in Nat
    BY DEF RequestsTyped
  <2> QED
    BY <1>2, <2>1 DEF CheckState, HistoryTyped
<1>3. ASSUME NEW r \in Requests, NEW answer \in Answers(r), Return(r, answer)
      PROVE  HistoryTyped'
  <2>1. pc[r] \in Selected /\ answer \in Outcomes
    BY <1>3 DEF Return, Selected, Answers, Outcomes
  <2>2. <<cur[r], answer>> \in Nat \X Outcomes /\ Prov(r) \in Providers
    BY <2>1, SelectedEntry DEF RequestsTyped
  <2>3. tried' \in [Requests -> SUBSET (Nat \X Outcomes)]
    BY <1>3, <2>2 DEF Return, HistoryTyped
  <2>4. faulty' \subseteq Providers
    BY <1>3, <2>2 DEF Return, HistoryTyped
  <2> QED
    BY <1>3, <2>3, <2>4 DEF Return, HistoryTyped
<1>4. ASSUME NEW r \in Requests,
             \/ GiveUp(r) \/ Select(r) \/ CheckCooldown(r) \/ RecordModel(r)
             \/ RecordProvider(r) \/ SetExhausted(r) \/ PinTracker(r)
             \/ AcquireModel(r) \/ ReleaseProvider(r) \/ ReleaseModel(r)
             \/ Succeed(r) \/ CoolDown(r) \/ BlockProvider(r) \/ DropProvider(r)
             \/ StreamEnds(r) \/ \E model \in Asked : Resolve(r, model)
      PROVE  UNCHANGED <<tried, considered, full, faulty>>
  BY <1>4
  DEF GiveUp, Select, CheckCooldown, RecordModel, RecordProvider, SetExhausted, PinTracker,
      AcquireModel, ReleaseProvider, ReleaseModel, Succeed, CoolDown,
      BlockProvider, DropProvider, StreamEnds, Resolve, history
<1>5. ASSUME \/ Update \/ Tick \/ AllDone \/ UNCHANGED vars
             \/ \E r \in Leavers : Disconnect(r)
             \/ \E p \in Flaky : HealthChanges(p)
      PROVE  UNCHANGED <<tried, considered, full, faulty>>
  BY <1>5 DEF Update, Tick, AllDone, Disconnect, HealthChanges, vars, history
<1>6. ASSUME NEW r \in Requests, AcquireProvider(r) \/ Undo(r) PROVE HistoryTyped'
  <2>1. Prov(r) \in Providers
    BY <1>6, SelectedEntry DEF AcquireProvider, Undo, Selected
  <2>2. /\ UNCHANGED <<tried, considered, faulty>>
        /\ full' = full \/ full' = [full EXCEPT ![r] = full[r] \cup {Prov(r)}]
    BY <1>6 DEF AcquireProvider, Undo, HistoryTyped
  <2>3. full' \in [Requests -> SUBSET Providers]
    <3>1. full \in [Requests -> SUBSET Providers]
      BY DEF HistoryTyped
    <3> QED
      BY <2>1, <2>2, <3>1
  <2> QED
    BY <2>2, <2>3 DEF HistoryTyped
<1> QED
  BY <1>1, <1>2, <1>3, <1>4, <1>5, <1>6 DEF Next, Step

-----------------------------------------------------------------------------
(* The theorems *)

\* SlotIInv with the types of the rest: what every step starts from.
IInv == StateTyped /\ HistoryTyped /\ SlotIInv

LEMMA SlotsNext ==
  ASSUME SlotIInv, StateTyped, [Next]_vars
  PROVE  SlotsTyped' /\ Counters'
<1>1. ASSUME NEW r \in Requests, AcquireProvider(r) PROVE SlotsTyped' /\ Counters'
  BY <1>1, AcquireProviderKeeps
<1>2. ASSUME NEW r \in Requests, Undo(r) PROVE SlotsTyped' /\ Counters'
  BY <1>2, UndoKeeps
<1>3. ASSUME NEW r \in Requests, ReleaseProvider(r) PROVE SlotsTyped' /\ Counters'
  BY <1>3, ReleaseProviderKeeps
<1>4. ASSUME NEW r \in Requests, AcquireModel(r) \/ ReleaseModel(r)
      PROVE  SlotsTyped' /\ Counters'
  BY <1>4, ModelSlotKeeps
<1>5. ASSUME Update PROVE SlotsTyped' /\ Counters'
  BY <1>5, UpdateKeeps
<1>6. ASSUME Quiet PROVE SlotsTyped' /\ Counters'
  <2>1. Counters'
    BY <1>6, QuietKeeps DEF SlotIInv, Counters
  <2> QED
    BY <1>6, <2>1 DEF Quiet, SlotIInv, SlotsTyped
<1>7. RequestsTyped
  BY DEF SlotIInv
<1>8. CASE \/ Tick \/ AllDone \/ UNCHANGED vars
           \/ \E p \in Flaky : HealthChanges(p)
           \/ \E r \in Leavers : Disconnect(r)
  BY <1>6, <1>7, <1>8, QuietRest
<1>9. ASSUME NEW r \in Requests,
             (\E model \in Asked : Resolve(r, model)) \/ Step(r) \/ StreamEnds(r)
      PROVE  SlotsTyped' /\ Counters'
  <2>1. CASE \/ AcquireProvider(r) \/ Undo(r) \/ ReleaseProvider(r)
             \/ AcquireModel(r) \/ ReleaseModel(r)
    BY <1>1, <1>2, <1>3, <1>4, <2>1
  <2>2. CASE \/ GiveUp(r) \/ Select(r) \/ CheckState(r) \/ CheckCooldown(r)
             \/ RecordModel(r) \/ RecordProvider(r) \/ SetExhausted(r) \/ PinTracker(r)
             \/ Succeed(r) \/ CoolDown(r) \/ BlockProvider(r) \/ DropProvider(r)
             \/ StreamEnds(r)
             \/ \E model \in Asked : Resolve(r, model)
             \/ \E a \in Answers(r) : Return(r, a)
    <3>1. Quiet
      BY <1>7, <2>2, QuietSteps
    <3> QED
      BY <1>6, <3>1
  <2> QED
    BY <1>9, <2>1, <2>2 DEF Step
<1> QED
  BY <1>5, <1>8, <1>9 DEF Next

\* IInv is inductive.
THEOREM Invariance == Spec => []IInv
<1>1. Init => IInv
  BY StateInit, HistoryInit, SlotsInit, RequestsInit DEF IInv, SlotIInv, Counters
<1>2. IInv /\ [Next]_vars => IInv'
  <2> SUFFICES ASSUME IInv, [Next]_vars PROVE IInv'
    OBVIOUS
  <2>1. /\ StateTyped /\ HistoryTyped /\ SlotIInv /\ RequestsTyped /\ Placed /\ SlotsTyped
        /\ gen \in Generations
    BY DEF IInv, SlotIInv, SlotsTyped
  <2>2. SlotsTyped' /\ Counters'
    BY <2>1, SlotsNext
  <2>3. RequestsTyped' /\ Placed'
    BY <2>1, RequestsNext
  <2>4. StateTyped' /\ HistoryTyped'
    BY <2>1, StateNext, HistoryNext
  <2> QED
    BY <2>2, <2>3, <2>4 DEF IInv, SlotIInv, Counters
<1> QED
  BY <1>1, <1>2, PTL DEF Spec

\* Every variable keeps its type: no lookup of a request fails, and no counter
\* of a tracker goes below zero.
THEOREM Typing == Spec => []TypeOK
<1>1. IInv => TypeOK
  BY DEF IInv, SlotIInv, TypeOK
<1> QED
  BY <1>1, Invariance, PTL

\* The model trackers, those of reloads ago included, count exactly the
\* requests that hold one of their slots, and keep to their caps
\* (router.go:171-184).
THEOREM ModelSlots == Spec => []ModelSlotsExact
<1>1. IInv => ModelSlotsExact
  BY DEF IInv, SlotIInv
<1> QED
  BY <1>1, Invariance, PTL

\* Whatever reloads do, the provider tracker in use counts no slot that no
\* running request took from it (router.go:164-184).
THEOREM NoPhantoms == Spec => []NoPhantomSlots
<1>1. IInv => NoPhantomSlots
  BY DEF IInv, SlotIInv
<1> QED
  BY <1>1, Invariance, PTL

\* The gauge concurrentActive is the number of requests in flight
\* (router.go:169, 173, 180).
THEOREM Gauge == Spec => []ActiveExact
<1>1. IInv => ActiveExact
  BY DEF IInv, SlotIInv
<1> QED
  BY <1>1, Invariance, PTL

\* Until the first reload no provider serves more requests at once than its
\* cap (README.md:290).  A reload breaks it: see ProviderCapHolds.
THEOREM ProviderCap == Spec => []CapUntilReload
<1>1. IInv => CapUntilReload
  <2> SUFFICES ASSUME IInv, gen = 1,
                      NEW p \in Providers, Configs[1].cap[p] > 0
               PROVE  Cardinality(InFlight(p)) <= Configs[1].cap[p]
    BY DEF CapUntilReload, ProviderCapHolds
  <2>1. /\ slots[1][p] = Cardinality(InFlight(p))
        /\ slots[1][p] <= Configs[1].cap[p]
    BY DEF IInv, SlotIInv, FirstExact
  <2> QED
    BY <2>1
<1> QED
  BY <1>1, Invariance, PTL
-----------------------------------------------------------------------------
(* The fall-through: what a request works through, call by call *)

\* What FallThroughOK says of one request, which depends on its own state only.
RequestOK(r) == LoopOK(r) /\ OutcomeOK(r) /\ FailuresOK(r) /\ DroppedExcused(r)

Same(q) == /\ pc'[q] = pc[q] /\ list'[q] = list[q] /\ left'[q] = left[q]
           /\ cur'[q] = cur[q] /\ outcome'[q] = outcome[q] /\ tried'[q] = tried[q]
           /\ considered'[q] = considered[q] /\ full'[q] = full[q]

LEMMA SameKeeps ==
  ASSUME NEW q, Same(q), RequestOK(q)
  PROVE  RequestOK(q)'
<1>1. LoopOK(q)'
  BY DEF Same, RequestOK, LoopOK, Beyond
<1>2. OutcomeOK(q)'
  BY DEF Same, RequestOK, OutcomeOK
<1>3. Pending(q)' = Pending(q) /\ \A t, i : Costs(t, i, q)' = Costs(t, i, q)
  BY DEF Same, Pending, Unsettled, Costs
<1>4. FailuresOK(q)'
  BY <1>3 DEF Same, RequestOK, FailuresOK
<1>5. \A i : Excused(q, i)' = Excused(q, i)
  BY DEF Same, Excused
<1>6. DroppedExcused(q)'
  BY <1>5 DEF Same, RequestOK, DroppedExcused
<1> QED
  BY <1>1, <1>2, <1>4, <1>6 DEF RequestOK

\* Nothing but its own steps touches what is said of a request.
LEMMA OthersSame ==
  ASSUME RequestsTyped, HistoryTyped, NEW r \in Requests,
         (\E model \in Asked : Resolve(r, model)) \/ Step(r) \/ StreamEnds(r),
         NEW q \in Requests \ {r}
  PROVE  Same(q)
<1> USE DEF Same, Goto, RequestsTyped, HistoryTyped
<1>1. CASE GiveUp(r) \/ Select(r) \/ \E model \in Asked : Resolve(r, model)
  BY <1>1 DEF GiveUp, Select, Resolve, Advance, history
<1>2. CASE CheckState(r) \/ CheckCooldown(r)
  BY <1>2 DEF CheckState, CheckCooldown, Advance, history
<1>3. CASE RecordModel(r) \/ RecordProvider(r)
  BY <1>3 DEF RecordModel, RecordProvider, Advance, history
<1>4. CASE SetExhausted(r) \/ PinTracker(r)
  BY <1>4 DEF SetExhausted, PinTracker, Advance, history
<1>5. CASE AcquireProvider(r) \/ Undo(r)
  BY <1>5 DEF AcquireProvider, Undo, FilterProvider, Keep
<1>6. CASE AcquireModel(r) \/ ReleaseProvider(r) \/ ReleaseModel(r)
  BY <1>6 DEF AcquireModel, ReleaseProvider, ReleaseModel, locals, history
<1>7. CASE \E answer \in Answers(r) : Return(r, answer)
  BY <1>7 DEF Return
<1>8. CASE Succeed(r) \/ StreamEnds(r)
  BY <1>8 DEF Succeed, StreamEnds, locals, history
<1>9. CASE CoolDown(r)
  BY <1>9 DEF CoolDown, FilterEntry, Keep, history
<1>10. CASE BlockProvider(r) \/ DropProvider(r)
  BY <1>10 DEF BlockProvider, DropProvider, FilterProvider, Keep, history
<1> QED
  BY <1>1, <1>2, <1>3, <1>4, <1>5, <1>6, <1>7, <1>8, <1>9, <1>10 DEF Step

LEMMA RestSame ==
  ASSUME \/ Update \/ Tick \/ AllDone \/ UNCHANGED vars
         \/ \E r \in Leavers : Disconnect(r)
         \/ \E p \in Flaky : HealthChanges(p),
         NEW q \in Requests
  PROVE  Same(q)
BY DEF Update, Tick, AllDone, Disconnect, HealthChanges, vars, locals, history, Same

\* What filtering leaves of the positions.
LEMMA FilterFacts ==
  ASSUME RequestsTyped, NEW r \in Requests
  PROVE  /\ FilterProvider(r) => left'[r] = {i \in left[r] : list[r][i][1] # Prov(r)}
         /\ FilterEntry(r) => left'[r] = {i \in left[r] : list[r][i] # Entry(r)}
BY DEF FilterProvider, FilterEntry, Keep, RequestsTyped

\* The loop moves on to the next position that is left.
LEMMA AdvanceFacts ==
  ASSUME RequestsTyped, NEW r \in Requests, NEW i \in Nat, Advance(r, i)
  PROVE  /\ cur'[r] \in left[r] \cup {Beyond(r)}
         /\ cur'[r] \in Nat
         /\ \A k \in left[r] : k \in Nat /\ (i < k => cur'[r] <= k)
<1>1. PICK j \in left[r] \cup {Beyond(r)} :
        /\ \A k \in left[r] : i < k => j <= k
        /\ cur' = [cur EXCEPT ![r] = j]
  BY DEF Advance
<1>2. list[r] \in Seq(Entries) /\ left[r] \subseteq DOMAIN list[r]
  BY DEF RequestsTyped
<1>3. Beyond(r) \in Nat /\ DOMAIN list[r] \subseteq Nat
  BY <1>2 DEF Beyond
<1>4. cur'[r] = j
  BY <1>1 DEF RequestsTyped
<1> QED
  BY <1>1, <1>2, <1>3, <1>4

\* A step that leaves everything about r but its place alone.
LEMMA SamePartsKeep ==
  ASSUME NEW r, RequestOK(r),
         list'[r] = list[r], left'[r] \subseteq left[r], tried[r] \subseteq tried'[r],
         considered[r] \subseteq considered'[r], full[r] \subseteq full'[r],
         pc'[r] # "failed",
         \A i \in left[r] \ left'[r] : Excused(r, i)'
  PROVE  DroppedExcused(r)'
<1>1. \A i : Excused(r, i) => Excused(r, i)'
  BY DEF Excused
<1> QED
  BY <1>1 DEF RequestOK, DroppedExcused

\* Where a request has no outcome yet.
Underway == Locations \ {"stream", "release", "modelrelease", "settle", "done", "failed"}

\* A step of the selection that filters nothing out.
LEMMA MoveKeeps ==
  ASSUME NEW r, RequestOK(r), LoopOK(r)',
         list'[r] = list[r], left'[r] = left[r], tried'[r] = tried[r], full'[r] = full[r],
         outcome'[r] = outcome[r], considered[r] \subseteq considered'[r],
         pc[r] \in Underway \ {"idle"}, pc'[r] \in Underway \ {"idle"}
  PROVE  RequestOK(r)'
<1>1. OutcomeOK(r)'
  BY DEF RequestOK, OutcomeOK, Underway, Locations
<1>2. Pending(r) = {} /\ Pending(r)' = {}
  BY DEF Pending, Unsettled, Underway, Locations
<1>3. \A t, i : Costs(t, i, r)' = Costs(t, i, r)
  BY DEF Costs
<1>4. FailuresOK(r)'
  BY <1>2, <1>3 DEF RequestOK, FailuresOK
<1>5. DroppedExcused(r)'
  BY SamePartsKeep DEF Underway, Locations
<1> QED
  BY <1>1, <1>4, <1>5 DEF RequestOK

\* The loop of selectProvider passes an entry over that it has considered.
LEMMA PassedOver ==
  ASSUME RequestsTyped, NEW r \in Requests, RequestOK(r), pc[r] \in Selected \cup {"state"},
         cur[r] \in considered'[r],
         considered[r] \subseteq considered'[r], Advance(r, cur[r]), pc'[r] = "state",
         list'[r] = list[r], left'[r] = left[r]
  PROVE  LoopOK(r)'
<1>1. cur[r] \in Nat
  BY DEF RequestsTyped
<1>2. /\ cur'[r] \in left[r] \cup {Beyond(r)} /\ cur'[r] \in Nat
      /\ \A k \in left[r] : k \in Nat /\ (cur[r] < k => cur'[r] <= k)
  BY <1>1, AdvanceFacts
<1>3. Beyond(r)' = Beyond(r)
  BY DEF Beyond
<1>4. \A k \in left[r] : k < cur[r] => k \in considered[r]
  BY DEF RequestOK, LoopOK
<1>5. ASSUME NEW k \in left[r], k < cur'[r] PROVE k \in considered'[r]
  BY <1>1, <1>2, <1>4, <1>5
<1> QED
  BY <1>2, <1>3, <1>5 DEF LoopOK, Selected

LEMMA SelectionKeeps ==
  ASSUME RequestsTyped, HistoryTyped, Placed, NEW r \in Requests, RequestOK(r),
         \/ Select(r) \/ CheckState(r) \/ CheckCooldown(r) \/ RecordModel(r)
         \/ RecordProvider(r) \/ SetExhausted(r) \/ PinTracker(r) \/ AcquireModel(r)
  PROVE  RequestOK(r)'
<1> USE DEF Goto, RequestsTyped, HistoryTyped, Underway, Locations
<1>1. CASE Select(r)
  <2>1. pc[r] = "select" /\ pc'[r] = "state"
        /\ UNCHANGED <<list, left, tried, full, outcome, considered>> /\ Advance(r, 0)
    BY <1>1 DEF Select, history
  <2>2. /\ cur'[r] \in left[r] \cup {Beyond(r)} /\ cur'[r] \in Nat
        /\ \A k \in left[r] : k \in Nat /\ (0 < k => cur'[r] <= k)
    BY <2>1, AdvanceFacts
  <2>3. \A k \in left[r] : 0 < k
    <3>1. list[r] \in Seq(Entries) /\ left[r] \subseteq DOMAIN list[r]
      OBVIOUS
    <3> QED
      BY <3>1
  <2>4. LoopOK(r)'
    BY <2>1, <2>2, <2>3 DEF LoopOK, Selected, Beyond
  <2> QED
    BY <2>1, <2>4, MoveKeeps
<1>2. CASE CheckState(r)
  <2>1. /\ pc[r] = "state" /\ UNCHANGED <<list, left, tried, full, outcome>>
        /\ considered'[r] = considered[r] \cup {cur[r]}
        /\ cur[r] # Beyond(r)
    BY <1>2 DEF CheckState
  <2>2. pc'[r] \in {"state", "cooldown"}
    BY <1>2 DEF CheckState
  <2>3. LoopOK(r)'
    <3>1. CASE UNCHANGED cur /\ Goto(r, "cooldown")
      BY <2>1, <3>1 DEF RequestOK, LoopOK, Selected
    <3>2. CASE Advance(r, cur[r]) /\ UNCHANGED pc
      BY <2>1, <3>2, PassedOver
    <3> QED
      BY <1>2, <3>1, <3>2 DEF CheckState
  <2> QED
    BY <2>1, <2>2, <2>3, MoveKeeps
<1>3. CASE CheckCooldown(r) \/ RecordModel(r) \/ RecordProvider(r) \/ SetExhausted(r)
  <2>1. /\ pc[r] \in {"cooldown", "modelquota", "quota", "exhaust"}
        /\ UNCHANGED <<list, left, tried, full, outcome, considered>>
    BY <1>3 DEF CheckCooldown, RecordModel, RecordProvider, SetExhausted, history
  <2>2. \/ UNCHANGED cur /\ pc'[r] \in {"modelquota", "quota", "exhaust", "pin"}
        \/ Advance(r, cur[r]) /\ pc'[r] = "state"
    BY <1>3 DEF CheckCooldown, RecordModel, RecordProvider, SetExhausted
  <2>3. cur[r] \in considered[r]
    BY <2>1 DEF RequestOK, LoopOK, Selected
  <2>4. LoopOK(r)'
    <3>1. CASE UNCHANGED cur /\ pc'[r] \in {"modelquota", "quota", "exhaust", "pin"}
      BY <2>1, <3>1 DEF RequestOK, LoopOK, Selected
    <3>2. CASE Advance(r, cur[r]) /\ pc'[r] = "state"
      BY <2>1, <2>3, <3>2, PassedOver DEF Selected
    <3> QED
      BY <2>2, <3>1, <3>2
  <2> QED
    BY <2>1, <2>2, <2>4, MoveKeeps
<1>4. CASE PinTracker(r) \/ AcquireModel(r)
  <2>1. /\ pc[r] \in {"pin", "modelslot"} /\ pc'[r] \in {"slot", "call", "undo"}
        /\ UNCHANGED <<list, left, cur, tried, full, outcome, considered>>
    BY <1>4 DEF PinTracker, AcquireModel, locals, history
  <2>2. LoopOK(r)'
    BY <2>1 DEF RequestOK, LoopOK, Selected
  <2> QED
    BY <2>1, <2>2, MoveKeeps
<1> QED
  BY <1>1, <1>2, <1>3, <1>4

LEMMA StartAndEndKeep ==
  ASSUME RequestsTyped, HistoryTyped, Placed, NEW r \in Requests, RequestOK(r),
         GiveUp(r) \/ \E model \in Asked : Resolve(r, model)
  PROVE  RequestOK(r)'
<1> USE DEF Goto, RequestsTyped, HistoryTyped
<1>1. CASE GiveUp(r)
  <2>1. /\ UNCHANGED <<list, left, tried, full, outcome, considered>>
        /\ pc'[r] = "failed" /\ pc[r] \in {"select", "state"}
    BY <1>1 DEF GiveUp, history
  <2>2. ASSUME NEW i \in DOMAIN list[r] PROVE Excused(r, i)
    <3>1. list[r] \in Seq(Entries) /\ i \in 1..Len(list[r]) /\ i < Beyond(r)
      BY DEF Beyond
    <3>2. CASE i \in left[r]
      <4>1. pc[r] = "state" /\ cur[r] = Beyond(r)
        BY <1>1, <3>2 DEF GiveUp
      <4>2. i \in considered[r]
        BY <3>1, <3>2, <4>1 DEF RequestOK, LoopOK
      <4> QED
        BY <4>2 DEF Excused
    <3>3. CASE i \notin left[r]
      BY <3>3 DEF RequestOK, DroppedExcused
    <3> QED
      BY <3>2, <3>3
  <2>3. \A i \in DOMAIN list[r] : Excused(r, i)'
    BY <2>1, <2>2 DEF Excused
  <2>4. LoopOK(r)' /\ OutcomeOK(r)' /\ DroppedExcused(r)'
    BY <2>1, <2>3 DEF LoopOK, OutcomeOK, DroppedExcused, RequestOK, Selected
  <2>5. Pending(r) = {} /\ Pending(r)' = {}
    BY <2>1 DEF Pending, Unsettled
  <2>6. FailuresOK(r)'
    BY <2>1, <2>5 DEF RequestOK, FailuresOK, Costs
  <2> QED
    BY <2>4, <2>6 DEF RequestOK
<1>2. ASSUME NEW model \in Asked, Resolve(r, model) PROVE RequestOK(r)'
  <2>1. /\ UNCHANGED <<tried, full, outcome, considered>>
        /\ pc[r] = "idle" /\ left'[r] = DOMAIN list'[r]
        /\ pc'[r] \in {"failed", "select"} /\ (pc'[r] = "failed" => list'[r] = <<>>)
    BY <1>2 DEF Resolve, history
  <2>2. tried[r] = {} /\ outcome[r] = "none"
    BY <2>1 DEF RequestOK, FailuresOK, OutcomeOK
  <2>3. Pending(r)' = {}
    BY <2>1 DEF Pending, Unsettled
  <2>4. FailuresOK(r)'
    BY <2>1, <2>2, <2>3 DEF FailuresOK
  <2>5. LoopOK(r)' /\ OutcomeOK(r)' /\ DroppedExcused(r)'
    BY <2>1, <2>2 DEF LoopOK, OutcomeOK, DroppedExcused, Selected
  <2> QED
    BY <2>4, <2>5 DEF RequestOK
<1> QED
  BY <1>1, <1>2

\* The provider of the selected entry had no slot, or its model had none.
LEMMA NoSlotKeeps ==
  ASSUME RequestsTyped, HistoryTyped, Placed, NEW r \in Requests, RequestOK(r),
         AcquireProvider(r) \/ Undo(r)
  PROVE  RequestOK(r)'
<1> USE DEF Goto, RequestsTyped, HistoryTyped
<1>1. CASE pc[r] = "slot" /\ UNCHANGED <<left, cur, full>> /\ Goto(r, "modelslot")
  <2>1. UNCHANGED <<list, tried, outcome, considered>>
    BY <1>1 DEF AcquireProvider, Undo
  <2>2. LoopOK(r)'
    BY <1>1, <2>1 DEF RequestOK, LoopOK, Selected
  <2> QED
    BY <1>1, <2>1, <2>2, MoveKeeps DEF Underway, Locations
<1>2. CASE FilterProvider(r) /\ full' = [full EXCEPT ![r] = @ \cup {Prov(r)}] /\ Goto(r, "select")
  <2>1. /\ UNCHANGED <<list, tried, outcome, considered>>
        /\ pc[r] \in {"slot", "undo"} /\ pc'[r] = "select"
    BY <1>2 DEF AcquireProvider, Undo
  <2>2. left'[r] = {i \in left[r] : list[r][i][1] # Prov(r)} /\ full'[r] = full[r] \cup {Prov(r)}
    BY <1>2, FilterFacts
  <2>3. LoopOK(r)' /\ OutcomeOK(r)'
    BY <2>1 DEF LoopOK, OutcomeOK, RequestOK, Selected
  <2>4. Pending(r) = {} /\ Pending(r)' = {}
    BY <2>1 DEF Pending, Unsettled
  <2>5. FailuresOK(r)'
    BY <2>1, <2>2, <2>4 DEF RequestOK, FailuresOK, Costs
  <2>6. \A i \in left[r] \ left'[r] : Excused(r, i)'
    BY <2>1, <2>2 DEF Excused
  <2>7. DroppedExcused(r)'
    BY <2>1, <2>2, <2>6, SamePartsKeep
  <2> QED
    BY <2>3, <2>5, <2>7 DEF RequestOK
<1> QED
  BY <1>1, <1>2 DEF AcquireProvider, Undo

\* A failed call has not been made before: no failure so far has left the
\* position that is called now.
LEMMA NewFailure ==
  ASSUME NEW r, RequestOK(r), pc[r] = "call"
  PROVE  /\ Pending(r) = {}
         /\ \A t \in tried[r] : t[1] # cur[r] /\ ~Costs(t, cur[r], r)
<1>1. Pending(r) = {} /\ cur[r] \in left[r]
  BY DEF Pending, Unsettled, RequestOK, LoopOK, Selected
<1>2. \A t \in tried[r] : ~Costs(t, cur[r], r)
  BY <1>1 DEF RequestOK, FailuresOK
<1> QED
  BY <1>1, <1>2 DEF Costs

LEMMA ReturnKeeps ==
  ASSUME RequestsTyped, HistoryTyped, Placed, NEW r \in Requests, RequestOK(r),
         NEW answer \in Answers(r), Return(r, answer)
  PROVE  RequestOK(r)'
<1> USE DEF Goto, RequestsTyped, HistoryTyped
<1>1. /\ UNCHANGED <<list, left, cur, considered, full>>
      /\ pc[r] = "call" /\ outcome'[r] = answer
      /\ \/ answer = "ok" /\ r \in Streaming /\ pc'[r] = "stream"
         \/ ~(answer = "ok" /\ r \in Streaming) /\ pc'[r] = "release"
      /\ tried'[r] = tried[r] \cup (IF answer = "ok" THEN {} ELSE {<<cur[r], answer>>})
  BY DEF Return
<1>2. LoopOK(r)' /\ OutcomeOK(r)'
  BY <1>1 DEF LoopOK, OutcomeOK, RequestOK, Selected
<1>3. Pending(r)' = IF answer = "ok" THEN {} ELSE {<<cur[r], answer>>}
  BY <1>1 DEF Pending, Unsettled
<1>4. \A t, i : Costs(t, i, r)' = Costs(t, i, r)
  BY <1>1 DEF Costs
<1>5. \A t \in tried[r] : \A i \in left[r] : ~Costs(t, i, r)
  BY <1>1, NewFailure DEF RequestOK, FailuresOK
<1>6. cur[r] \in DOMAIN list[r]
  BY <1>1 DEF Placed, Selected
<1>7. FailuresOK(r)'
  BY <1>1, <1>3, <1>4, <1>5, <1>6 DEF RequestOK, FailuresOK
<1>8. DroppedExcused(r)'
  BY <1>1, SamePartsKeep
<1> QED
  BY <1>2, <1>7, <1>8 DEF RequestOK

LEMMA ReleaseKeeps ==
  ASSUME RequestsTyped, HistoryTyped, Placed, NEW r \in Requests, RequestOK(r),
         StreamEnds(r) \/ ReleaseProvider(r) \/ ReleaseModel(r) \/ Succeed(r)
  PROVE  RequestOK(r)'
<1> USE DEF Goto, RequestsTyped, HistoryTyped
<1>1. /\ UNCHANGED <<list, left, cur, outcome, tried, considered, full>>
      /\ \/ pc[r] = "stream" /\ pc'[r] = "release"
         \/ pc[r] = "release" /\ pc'[r] = "modelrelease"
         \/ /\ pc[r] = "modelrelease" /\ pc'[r] \in {"done", "settle"}
            /\ pc'[r] = "done" => outcome[r] = "ok"
            /\ r \in Streaming /\ outcome[r] = "ok" => pc'[r] = "done"
         \/ pc[r] = "settle" /\ outcome[r] = "ok" /\ pc'[r] = "done"
  BY DEF StreamEnds, ReleaseProvider, ReleaseModel, Succeed, locals, history
<1>2. LoopOK(r)' /\ OutcomeOK(r)'
  BY <1>1 DEF LoopOK, OutcomeOK, RequestOK, Selected
<1>3. Pending(r)' = Pending(r)
  BY <1>1 DEF Pending, Unsettled, RequestOK, OutcomeOK
<1>4. FailuresOK(r)'
  BY <1>1, <1>3 DEF RequestOK, FailuresOK, Costs
<1>5. DroppedExcused(r)'
  BY <1>1, SamePartsKeep
<1> QED
  BY <1>2, <1>4, <1>5 DEF RequestOK

\* What becomes of a failure: it costs the entry or the provider, as it should.
LEMMA SettleKeeps ==
  ASSUME RequestsTyped, HistoryTyped, Placed, NEW r \in Requests, RequestOK(r),
         CoolDown(r) \/ BlockProvider(r) \/ DropProvider(r)
  PROVE  RequestOK(r)'
<1> USE DEF Goto, RequestsTyped, HistoryTyped
<1> DEFINE last == <<cur[r], outcome[r]>>
<1>1. /\ UNCHANGED <<list, tried, considered, full>>
      /\ pc[r] = "settle" /\ pc'[r] = "select" /\ outcome'[r] = "none" /\ outcome[r] # "ok"
  BY DEF CoolDown, BlockProvider, DropProvider, history
<1>2. LoopOK(r)' /\ OutcomeOK(r)'
  BY <1>1 DEF LoopOK, OutcomeOK, RequestOK, Selected
<1>3. Pending(r) = {last} /\ Pending(r)' = {}
  BY <1>1 DEF Pending, Unsettled
<1>4. last \in tried[r] /\ cur[r] \in considered[r]
  BY <1>1, <1>3 DEF RequestOK, FailuresOK, LoopOK, Selected
<1>5. \/ /\ left'[r] = {i \in left[r] : list[r][i] # Entry(r)}
         /\ outcome[r] = "model" /\ Prov(r) \notin Remote
      \/ /\ left'[r] = {i \in left[r] : list[r][i][1] # Prov(r)}
         /\ outcome[r] # "model" \/ Prov(r) \in Remote
  BY FilterFacts DEF CoolDown, BlockProvider, DropProvider
<1>6. \A i \in left'[r] : i \in left[r] /\ ~Costs(last, i, r)
  BY <1>5 DEF Costs, Entry, Prov
<1>7. ASSUME NEW t \in tried[r], NEW i \in left'[r] PROVE ~Costs(t, i, r)
  <2>1. CASE t = last
    BY <1>6, <2>1
  <2>2. CASE t # last
    BY <1>3, <1>6, <2>2 DEF RequestOK, FailuresOK
  <2> QED
    BY <2>1, <2>2
<1>8. FailuresOK(r)'
  <2>1. \A t, i : Costs(t, i, r)' = Costs(t, i, r)
    BY <1>1 DEF Costs
  <2> QED
    BY <1>1, <1>3, <1>7, <2>1 DEF RequestOK, FailuresOK
<1>9. ASSUME NEW i \in left[r] \ left'[r] PROVE Excused(r, i)'
  <2>1. CASE list[r][i] = Entry(r)
    BY <1>1, <1>4, <2>1 DEF Excused, Entry
  <2>2. CASE list[r][i] # Entry(r)
    BY <1>1, <1>4, <1>5, <2>2 DEF Excused, Entry, Prov
  <2> QED
    BY <2>1, <2>2
<1>10. DroppedExcused(r)'
  BY <1>1, <1>5, <1>9, SamePartsKeep
<1> QED
  BY <1>2, <1>8, <1>10 DEF RequestOK

LEMMA FallThroughNext ==
  ASSUME RequestsTyped, HistoryTyped, Placed, FallThroughOK, [Next]_vars
  PROVE  FallThroughOK'
<1>1. FallThroughOK <=> \A r \in Requests : RequestOK(r)
  BY DEF FallThroughOK, RequestOK
<1>2. FallThroughOK' <=> \A r \in Requests : RequestOK(r)'
  BY DEF FallThroughOK, RequestOK
<1>3. ASSUME NEW r \in Requests,
             (\E model \in Asked : Resolve(r, model)) \/ Step(r) \/ StreamEnds(r)
      PROVE  RequestOK(r)'
  BY <1>1, <1>3, SelectionKeeps, StartAndEndKeep, NoSlotKeeps, ReturnKeeps, ReleaseKeeps,
     SettleKeeps
  DEF Step
<1>4. ASSUME NEW r \in Requests,
             (\E model \in Asked : Resolve(r, model)) \/ Step(r) \/ StreamEnds(r),
             NEW q \in Requests
      PROVE  RequestOK(q)'
  <2>1. CASE q = r
    BY <1>3, <1>4, <2>1
  <2>2. CASE q # r
    BY <1>1, <1>4, <2>2, OthersSame, SameKeeps
  <2> QED
    BY <2>1, <2>2
<1>5. ASSUME \/ Update \/ Tick \/ AllDone \/ UNCHANGED vars
             \/ \E r \in Leavers : Disconnect(r)
             \/ \E p \in Flaky : HealthChanges(p),
             NEW q \in Requests
      PROVE  RequestOK(q)'
  BY <1>1, <1>5, RestSame, SameKeeps
<1> QED
  BY <1>2, <1>4, <1>5 DEF Next

LEMMA FallThroughInit == Init => FallThroughOK
<1> SUFFICES ASSUME Init, NEW r \in Requests PROVE RequestOK(r)
  BY DEF FallThroughOK, RequestOK
<1>1. /\ pc[r] = "idle" /\ list[r] = <<>> /\ left[r] = {} /\ outcome[r] = "none"
      /\ tried[r] = {}
  BY DEF Init
<1>2. Pending(r) = {}
  BY <1>1 DEF Pending, Unsettled
<1> QED
  BY <1>1, <1>2 DEF RequestOK, LoopOK, OutcomeOK, FailuresOK, DroppedExcused, Selected

-----------------------------------------------------------------------------
(* The sanctions *)

LEMMA WindowEnds ==
  ASSUME NEW w \in Window, NEW cfg \in LimitConfig, NEW t \in Nat,
         w.resetAt <= t + cfg.window
  PROVE  Charge(w, cfg, t).resetAt <= t + cfg.window
BY DEF Window, LimitConfig, NewWindow, LazyReset, Open, Charge

\* The instants and lengths that sanctions are made of are numbers.
LEMMA LengthsTyped ==
  ASSUME NEW p \in Providers
  PROVE  /\ \A d \in RecoveryWindows(p) \cup LimitWindows(p) : d \in Nat
         /\ \A g \in Generations : Configs[g].limits[p] \in Seq(LimitConfig)
<1>1. \A g \in Generations : Configs[g].recovery[p] \in Nat
  BY RecoveryTyped
<1>2. \A g \in Generations : Configs[g].limits[p] \in Seq(LimitConfig)
  BY ConfigTyped DEF Config
<1>3. \A g \in Generations : \A i \in DOMAIN Configs[g].limits[p] :
         Configs[g].limits[p][i] \in LimitConfig
  BY <1>2
<1>4. ASSUME NEW d \in LimitWindows(p) PROVE d \in Nat
  <2>1. PICK g \in Generations : \E i \in DOMAIN Configs[g].limits[p] :
                                    d = Configs[g].limits[p][i].window
    BY DEF LimitWindows
  <2> QED
    BY <1>3, <2>1 DEF LimitConfig
<1>5. \A d \in RecoveryWindows(p) : d \in Nat
  BY <1>1 DEF RecoveryWindows
<1> QED
  BY <1>2, <1>4, <1>5

\* A step that neither sanctions anybody nor prepares to.
Lenient ==
  /\ UNCHANGED <<now, windows, blocked, exhausted>>
  /\ \A q \in Requests : pc'[q] = "exhaust" =>
        /\ pc[q] = "exhaust" /\ due'[q] = due[q]
        /\ list'[q] = list[q] /\ cur'[q] = cur[q]

LEMMA LenientSteps ==
  ASSUME RequestsTyped, HistoryTyped,
         \/ Update \/ AllDone \/ UNCHANGED vars
         \/ \E r \in Leavers : Disconnect(r)
         \/ \E p \in Flaky : HealthChanges(p)
         \/ \E r \in Requests :
              \/ \E model \in Asked : Resolve(r, model)
              \/ GiveUp(r) \/ Select(r) \/ CheckState(r) \/ CheckCooldown(r)
              \/ RecordModel(r) \/ PinTracker(r) \/ AcquireProvider(r) \/ AcquireModel(r)
              \/ Undo(r) \/ (\E answer \in Answers(r) : Return(r, answer))
              \/ ReleaseProvider(r) \/ ReleaseModel(r) \/ Succeed(r) \/ CoolDown(r)
              \/ DropProvider(r) \/ StreamEnds(r)
  PROVE  Lenient
<1> USE DEF Lenient, Goto, RequestsTyped, shared, locals
<1>1. CASE \/ Update \/ AllDone \/ UNCHANGED vars
           \/ \E r \in Leavers : Disconnect(r)
           \/ \E p \in Flaky : HealthChanges(p)
  BY <1>1 DEF Update, AllDone, Disconnect, HealthChanges, vars
<1>2. ASSUME NEW r \in Requests,
             \/ \E model \in Asked : Resolve(r, model)
             \/ GiveUp(r) \/ Select(r)
      PROVE  Lenient
  BY <1>2 DEF Resolve, GiveUp, Select, Advance
<1>3. ASSUME NEW r \in Requests, CheckState(r) \/ CheckCooldown(r) \/ RecordModel(r)
      PROVE  Lenient
  BY <1>3 DEF CheckState, CheckCooldown, RecordModel, Advance
<1>4. ASSUME NEW r \in Requests,
             PinTracker(r) \/ AcquireProvider(r) \/ AcquireModel(r) \/ Undo(r)
      PROVE  Lenient
  BY <1>4 DEF PinTracker, AcquireProvider, AcquireModel, Undo
<1>5. ASSUME NEW r \in Requests,
             \/ \E answer \in Answers(r) : Return(r, answer)
             \/ ReleaseProvider(r) \/ ReleaseModel(r) \/ Succeed(r) \/ StreamEnds(r)
      PROVE  Lenient
  BY <1>5 DEF Return, ReleaseProvider, ReleaseModel, Succeed, StreamEnds
<1>6. ASSUME NEW r \in Requests, CoolDown(r) \/ DropProvider(r) PROVE Lenient
  BY <1>6 DEF CoolDown, DropProvider
<1> QED
  BY <1>1, <1>2, <1>3, <1>4, <1>5, <1>6

LEMMA LenientKeeps ==
  ASSUME DueOK, SanctionsExpire, Lenient
  PROVE  DueOK' /\ SanctionsExpire'
<1>1. \A q \in Requests : pc'[q] = "exhaust" => Prov(q)' = Prov(q)
  BY DEF Lenient, Prov, Entry
<1> QED
  BY <1>1 DEF Lenient, DueOK, SanctionsExpire

LEMMA TickSanctions ==
  ASSUME StateTyped, RequestsTyped, Placed, DueOK, SanctionsExpire, Tick
  PROVE  DueOK' /\ SanctionsExpire'
<1>1. /\ now \in Nat /\ now' = now + 1
      /\ UNCHANGED <<blocked, exhausted, windows, pc, list, cur, due>>
  BY DEF StateTyped, Tick, shared, locals
<1>2. ASSUME NEW g \in Generations, NEW p \in Providers, NEW i \in DOMAIN Configs[g].limits[p]
      PROVE  windows[g][p][i].resetAt <= now + 1 + Configs[g].limits[p][i].window
  <2>1. windows[g][p][i] \in Window /\ Configs[g].limits[p][i] \in LimitConfig
    BY LengthsTyped DEF StateTyped
  <2> QED
    BY <1>1, <2>1 DEF DueOK, Window, LimitConfig
<1>3. ASSUME NEW r \in Requests, pc[r] = "exhaust"
      PROVE  \E d \in LimitWindows(Prov(r)) : due[r] <= now + 1 + d
  <2>1. PICK d \in LimitWindows(Prov(r)) : due[r] <= now + d
    BY <1>3 DEF DueOK
  <2>2. d \in Nat /\ due[r] \in Nat
    BY <1>3, LengthsTyped, SelectedEntry DEF Selected, RequestsTyped
  <2> QED
    BY <1>1, <2>1, <2>2
<1>4. \A q \in Requests : Prov(q)' = Prov(q)
  BY <1>1 DEF Prov, Entry
<1>5. DueOK'
  BY <1>1, <1>2, <1>3, <1>4 DEF DueOK
<1>6. ASSUME NEW p \in Providers, NEW D, D \in {RecoveryWindows(p), LimitWindows(p)},
             NEW t \in Nat, now < t => \E d \in D : t <= now + d, now + 1 < t
      PROVE  \E d \in D : t <= now + 1 + d
  <2>1. PICK d \in D : t <= now + d
    BY <1>1, <1>6
  <2>2. d \in Nat
    BY <1>6, <2>1, LengthsTyped
  <2> QED
    BY <1>1, <2>1, <2>2
<1>7. SanctionsExpire'
  BY <1>1, <1>6 DEF SanctionsExpire, StateTyped
<1> QED
  BY <1>5, <1>7

LEMMA LimitOfLimitWindows ==
  ASSUME NEW q \in Providers, NEW g \in Generations, NEW i \in DOMAIN Configs[g].limits[q]
  PROVE  Configs[g].limits[q][i].window \in LimitWindows(q)
<1> DEFINE of(h) == {Configs[h].limits[q][j].window : j \in DOMAIN Configs[h].limits[q]}
<1>1. Configs[g].limits[q][i].window \in of(g)
  OBVIOUS
<1>2. LimitWindows(q) = UNION {of(h) : h \in Generations}
  BY DEF LimitWindows
<1> HIDE DEF of
<1> QED
  BY <1>1, <1>2

LEMMA RecordSanctions ==
  ASSUME StateTyped, RequestsTyped, SlotsTyped, Placed, DueOK, SanctionsExpire,
         NEW r \in Requests, RecordProvider(r)
  PROVE  DueOK' /\ SanctionsExpire'
<1> DEFINE p == Prov(r)
           cfgs == Configs[gen].limits[p]
           ws == ChargeAll(windows[gen][p], cfgs, now)
<1>1. /\ pc[r] = "quota" /\ p \in Providers /\ gen \in Generations /\ now \in Nat
      /\ windows[gen][p] \in [DOMAIN cfgs -> Window]
      /\ cfgs \in Seq(LimitConfig)
  BY SelectedEntry, LengthsTyped DEF RecordProvider, Selected, SlotsTyped, StateTyped
<1>2. \A i \in DOMAIN cfgs : ws[i].resetAt <= now + cfgs[i].window
  <2> SUFFICES ASSUME NEW i \in DOMAIN cfgs PROVE ws[i].resetAt <= now + cfgs[i].window
    OBVIOUS
  <2>1. windows[gen][p][i] \in Window /\ cfgs[i] \in LimitConfig
    BY <1>1
  <2>2. windows[gen][p][i].resetAt <= now + cfgs[i].window
    BY <1>1 DEF DueOK
  <2> QED
    BY <1>1, <2>1, <2>2, WindowEnds DEF ChargeAll
<1>3. \A i \in DOMAIN cfgs : cfgs[i].window \in LimitWindows(p)
  <2> HIDE DEF p
  <2> QED
    BY <1>1, LimitOfLimitWindows
<1>4. /\ windows' = [windows EXCEPT ![gen][p] = ws]
      /\ UNCHANGED <<now, blocked, exhausted, list, cur>>
      /\ pc'[r] = "exhaust" => \E i \in Over(ws, cfgs) : due'[r] = ws[i].resetAt
      /\ \A q \in Requests \ {r} : pc'[q] = pc[q] /\ due'[q] = due[q]
  <2>1. CASE Over(ws, cfgs) # {} /\ Goto(r, "exhaust")
             /\ \E i \in Over(ws, cfgs) : due' = [due EXCEPT ![r] = ws[i].resetAt]
    <3> HIDE DEF ws
    <3> QED
      BY <2>1 DEF RecordProvider, Goto, RequestsTyped, ws
  <2>2. CASE Goto(r, "pin") /\ UNCHANGED due
    <3> HIDE DEF ws
    <3> QED
      BY <2>2 DEF RecordProvider, Goto, RequestsTyped, ws
  <2> QED
    BY <2>1, <2>2 DEF RecordProvider
<1>5. Over(ws, cfgs) \subseteq DOMAIN cfgs
  BY DEF Over
<1> HIDE DEF ws
<1>6. \A q \in Requests : Prov(q)' = Prov(q)
  BY <1>4 DEF Prov, Entry
<1>7. DueOK'
  <2>1. ASSUME NEW g \in Generations, NEW x \in Providers,
               NEW i \in DOMAIN Configs[g].limits[x]
        PROVE  windows'[g][x][i].resetAt <= now + Configs[g].limits[x][i].window
    <3>1. CASE g = gen /\ x = p
      BY <1>1, <1>2, <1>4, <3>1 DEF StateTyped
    <3>2. CASE ~(g = gen /\ x = p)
      <4>1. windows'[g][x] = windows[g][x]
        BY <1>4, <3>2 DEF StateTyped
      <4> QED
        BY <4>1 DEF DueOK
    <3> QED
      BY <3>1, <3>2
  <2>2. ASSUME NEW q \in Requests, pc'[q] = "exhaust"
        PROVE  \E d \in LimitWindows(Prov(q)) : due'[q] <= now + d
    <3>1. CASE q = r
      BY <1>2, <1>3, <1>4, <1>5, <2>2, <3>1
    <3>2. CASE q # r
      BY <1>4, <2>2, <3>2 DEF DueOK
    <3> QED
      BY <3>1, <3>2
  <2> QED
    BY <1>4, <1>6, <2>1, <2>2 DEF DueOK
<1>8. SanctionsExpire'
  BY <1>4 DEF SanctionsExpire
<1> QED
  BY <1>7, <1>8

LEMMA ExhaustSanctions ==
  ASSUME StateTyped, RequestsTyped, Placed, DueOK, SanctionsExpire,
         NEW r \in Requests, SetExhausted(r)
  PROVE  DueOK' /\ SanctionsExpire'
<1>1. /\ pc[r] = "exhaust" /\ pc'[r] = "state"
      /\ exhausted' = [exhausted EXCEPT ![Prov(r)] = due[r]]
      /\ UNCHANGED <<now, blocked, windows, list>>
      /\ \A q \in Requests \ {r} : pc'[q] = pc[q] /\ due'[q] = due[q] /\ cur'[q] = cur[q]
  BY DEF SetExhausted, Goto, Advance, RequestsTyped
<1>2. \E d \in LimitWindows(Prov(r)) : due[r] <= now + d
  BY <1>1 DEF DueOK
<1>3. \A q \in Requests \ {r} : Prov(q)' = Prov(q)
  BY <1>1 DEF Prov, Entry
<1>4. DueOK'
  BY <1>1, <1>3 DEF DueOK
<1>5. SanctionsExpire'
  BY <1>1, <1>2 DEF SanctionsExpire, StateTyped
<1> QED
  BY <1>4, <1>5

LEMMA BlockSanctions ==
  ASSUME StateTyped, RequestsTyped, SlotsTyped, Placed, DueOK, SanctionsExpire,
         NEW r \in Requests, BlockProvider(r)
  PROVE  DueOK' /\ SanctionsExpire'
<1>1. /\ pc'[r] = "select"
      /\ blocked' = [blocked EXCEPT ![Prov(r)] = now + Configs[gen].recovery[Prov(r)]]
      /\ UNCHANGED <<now, exhausted, windows, list, due>>
      /\ \A q \in Requests \ {r} : pc'[q] = pc[q] /\ cur'[q] = cur[q]
  BY DEF BlockProvider, Block, Goto, RequestsTyped
<1>2. Configs[gen].recovery[Prov(r)] \in RecoveryWindows(Prov(r))
  BY DEF RecoveryWindows, SlotsTyped
<1>3. \A q \in Requests \ {r} : Prov(q)' = Prov(q)
  BY <1>1 DEF Prov, Entry
<1>4. DueOK'
  BY <1>1, <1>3 DEF DueOK
<1>5. Prov(r) \in Providers /\ Configs[gen].recovery[Prov(r)] \in Nat /\ now \in Nat
  BY SelectedEntry, RecoveryTyped DEF BlockProvider, Selected, SlotsTyped, StateTyped
<1>6. ASSUME NEW x \in Providers, now < blocked'[x]
      PROVE  \E d \in RecoveryWindows(x) : blocked'[x] <= now + d
  <2>1. CASE x = Prov(r)
    BY <1>1, <1>2, <1>5, <2>1 DEF StateTyped
  <2>2. CASE x # Prov(r)
    BY <1>1, <1>6, <2>2 DEF StateTyped, SanctionsExpire
  <2> QED
    BY <2>1, <2>2
<1>7. SanctionsExpire'
  BY <1>1, <1>6 DEF SanctionsExpire
<1> QED
  BY <1>4, <1>7

LEMMA SanctionsNext ==
  ASSUME IInv, DueOK, SanctionsExpire, [Next]_vars
  PROVE  DueOK' /\ SanctionsExpire'
<1>1. StateTyped /\ RequestsTyped /\ HistoryTyped /\ SlotsTyped /\ Placed
  BY DEF IInv, SlotIInv
<1>2. CASE Tick
  BY <1>1, <1>2, TickSanctions
<1>3. ASSUME NEW r \in Requests, RecordProvider(r) \/ SetExhausted(r) \/ BlockProvider(r)
      PROVE  DueOK' /\ SanctionsExpire'
  BY <1>1, <1>3, RecordSanctions, ExhaustSanctions, BlockSanctions
<1>4. ASSUME \/ Update \/ AllDone \/ UNCHANGED vars
             \/ \E r \in Leavers : Disconnect(r)
             \/ \E p \in Flaky : HealthChanges(p)
             \/ \E r \in Requests :
                  \/ \E model \in Asked : Resolve(r, model)
                  \/ GiveUp(r) \/ Select(r) \/ CheckState(r) \/ CheckCooldown(r)
                  \/ RecordModel(r) \/ PinTracker(r) \/ AcquireProvider(r) \/ AcquireModel(r)
                  \/ Undo(r) \/ (\E answer \in Answers(r) : Return(r, answer))
                  \/ ReleaseProvider(r) \/ ReleaseModel(r) \/ Succeed(r) \/ CoolDown(r)
                  \/ DropProvider(r) \/ StreamEnds(r)
      PROVE  DueOK' /\ SanctionsExpire'
  BY <1>1, <1>4, LenientSteps, LenientKeeps
<1> QED
  BY <1>2, <1>3, <1>4 DEF Next, Step

LEMMA SanctionsInit == Init => DueOK /\ SanctionsExpire
<1> SUFFICES ASSUME Init PROVE DueOK /\ SanctionsExpire
  OBVIOUS
<1>1. \A p \in Providers : blocked[p] = 0 /\ exhausted[p] = 0 /\ now = 1
  BY DEF Init
<1>2. ASSUME NEW g \in Generations, NEW p \in Providers, NEW i \in DOMAIN Configs[g].limits[p]
      PROVE  windows[g][p][i].resetAt <= now + Configs[g].limits[p][i].window
  <2>1. windows[g][p][i].resetAt = 0 /\ now = 1
    BY DEF Init, EnsureWindows, NewWindow
  <2>2. Configs[g].limits[p][i] \in LimitConfig
    BY LengthsTyped
  <2> QED
    BY <2>1, <2>2 DEF LimitConfig
<1>3. \A r \in Requests : pc[r] # "exhaust"
  BY DEF Init
<1> QED
  BY <1>1, <1>2, <1>3 DEF DueOK, SanctionsExpire

\* A reload does not change how long a failure blocks a provider.
SteadyRecovery ==
  \A g, h \in Generations : \A p \in Providers :
     Configs[g].recovery[p] = Configs[h].recovery[p]

LEMMA BlocksExtend ==
  ASSUME SteadyRecovery, IInv, SanctionsExpire, [Next]_vars, NEW p \in Providers
  PROVE  blocked'[p] >= blocked[p]
<1>1. StateTyped /\ RequestsTyped /\ HistoryTyped /\ SlotsTyped /\ Placed
      /\ blocked[p] \in Nat /\ now \in Nat /\ gen \in Generations
  BY DEF IInv, SlotIInv, StateTyped, SlotsTyped
<1>2. CASE blocked' = blocked
  BY <1>1, <1>2
<1>3. ASSUME NEW r \in Requests, BlockProvider(r), Prov(r) = p PROVE blocked'[p] >= blocked[p]
  <2>1. blocked'[p] = now + Configs[gen].recovery[p]
    BY <1>1, <1>3 DEF BlockProvider, Block, StateTyped
  <2>2. Configs[gen].recovery[p] \in Nat
    BY <1>1, RecoveryTyped
  <2>3. blocked[p] <= now + Configs[gen].recovery[p]
    <3>1. CASE now < blocked[p]
      BY <1>1, <3>1 DEF SanctionsExpire, RecoveryWindows, SteadyRecovery
    <3>2. CASE ~(now < blocked[p])
      BY <1>1, <2>2, <3>2
    <3> QED
      BY <3>1, <3>2
  <2> QED
    BY <1>1, <2>1, <2>2, <2>3
<1>4. ASSUME NEW r \in Requests, BlockProvider(r), Prov(r) # p PROVE blocked'[p] >= blocked[p]
  <2>1. blocked'[p] = blocked[p]
    BY <1>4 DEF BlockProvider, Block, IInv, StateTyped
  <2> QED
    BY <1>1, <2>1
<1>5. CASE Tick \/ \E r \in Requests : RecordProvider(r) \/ SetExhausted(r)
  BY <1>2, <1>5 DEF Tick, RecordProvider, SetExhausted, shared
<1>6. CASE \/ Update \/ AllDone \/ UNCHANGED vars
           \/ \E r \in Leavers : Disconnect(r)
           \/ \E x \in Flaky : HealthChanges(x)
           \/ \E r \in Requests :
                \/ \E model \in Asked : Resolve(r, model)
                \/ GiveUp(r) \/ Select(r) \/ CheckState(r) \/ CheckCooldown(r)
                \/ RecordModel(r) \/ PinTracker(r) \/ AcquireProvider(r) \/ AcquireModel(r)
                \/ Undo(r) \/ (\E answer \in Answers(r) : Return(r, answer))
                \/ ReleaseProvider(r) \/ ReleaseModel(r) \/ Succeed(r) \/ CoolDown(r)
                \/ DropProvider(r) \/ StreamEnds(r)
  BY <1>1, <1>2, <1>6, LenientSteps DEF Lenient
<1> QED
  BY <1>3, <1>4, <1>5, <1>6 DEF Next, Step

-----------------------------------------------------------------------------
(* The balance of the metrics *)

FailedSet == {r \in Requests : pc[r] = "failed"}
CountedSet == {r \in Requests : Counted(r)}
UnsettledSet == {r \in Requests : Unsettled(r)}
Failures == UNION {{r} \X tried[r] : r \in Requests}

LEMMA BalanceByName ==
  MetricsBalance <=>
    /\ metrics.noCapacity = Cardinality(FailedSet)
    /\ metrics.requests + metrics.noCapacity = Cardinality(CountedSet)
    /\ metrics.failures + Cardinality(UnsettledSet) = Cardinality(Failures)
BY DEF MetricsBalance, FailedSet, CountedSet, UnsettledSet, Failures

LEMMA FateFinite ==
  /\ IsFiniteSet(FailedSet) /\ Cardinality(FailedSet) \in Nat
  /\ IsFiniteSet(CountedSet) /\ Cardinality(CountedSet) \in Nat
  /\ IsFiniteSet(UnsettledSet) /\ Cardinality(UnsettledSet) \in Nat
<1>1. \A S : S \subseteq Requests => IsFiniteSet(S) /\ Cardinality(S) \in Nat
  BY RequestsAssumption, FS_Subset, FS_CardinalityType
<1>2. FailedSet \subseteq Requests /\ CountedSet \subseteq Requests /\ UnsettledSet \subseteq Requests
  BY DEF FailedSet, CountedSet, UnsettledSet
<1> QED
  BY <1>1, <1>2

\* A step of r changes the fate of r alone.
LEMMA FateCounting ==
  ASSUME NEW r \in Requests, \A q \in Requests \ {r} : Same(q)
  PROVE  /\ Counted1(FailedSet, FailedSet', r)
         /\ Counted1(CountedSet, CountedSet', r)
         /\ Counted1(UnsettledSet, UnsettledSet', r)
<1>1. \A q \in Requests \ {r} : pc'[q] = pc[q] /\ outcome'[q] = outcome[q]
  BY DEF Same
<1>2. FailedSet' \ {r} = FailedSet \ {r}
  BY <1>1 DEF FailedSet
<1>3. CountedSet' \ {r} = CountedSet \ {r}
  <2>1. \A q \in Requests \ {r} : q \in CountedSet' <=> q \in CountedSet
    BY <1>1 DEF CountedSet, Counted
  <2>2. CountedSet' \subseteq Requests /\ CountedSet \subseteq Requests
    BY DEF CountedSet
  <2> QED
    BY <2>1, <2>2
<1>4. UnsettledSet' \ {r} = UnsettledSet \ {r}
  <2>1. \A q \in Requests \ {r} : q \in UnsettledSet' <=> q \in UnsettledSet
    BY <1>1 DEF UnsettledSet, Unsettled
  <2>2. UnsettledSet' \subseteq Requests /\ UnsettledSet \subseteq Requests
    BY DEF UnsettledSet
  <2> QED
    BY <2>1, <2>2
<1>5. /\ (IsFiniteSet(FailedSet) /\ Cardinality(FailedSet) \in Nat)'
      /\ (IsFiniteSet(CountedSet) /\ Cardinality(CountedSet) \in Nat)'
      /\ (IsFiniteSet(UnsettledSet) /\ Cardinality(UnsettledSet) \in Nat)'
  BY FateFinite, PTL
<1> QED
  BY <1>2, <1>3, <1>4, <1>5, FateFinite, DifferInOne

\* Who is counted, before a step and after it.
LEMMA FateMembers ==
  ASSUME NEW r \in Requests
  PROVE  /\ r \in FailedSet <=> pc[r] = "failed"
         /\ r \in CountedSet <=> Counted(r)
         /\ r \in UnsettledSet <=> Unsettled(r)
         /\ r \in FailedSet' <=> pc'[r] = "failed"
         /\ r \in CountedSet' <=> Counted(r)'
         /\ r \in UnsettledSet' <=> Unsettled(r)'
BY DEF FailedSet, CountedSet, UnsettledSet

LEMMA FailuresCount ==
  ASSUME HistoryTyped, NEW r \in Requests, NEW x, IsFiniteSet(Failures),
         tried' = [tried EXCEPT ![r] = tried[r] \cup {x}], x \notin tried[r]
  PROVE  /\ IsFiniteSet(Failures') /\ Cardinality(Failures) \in Nat
         /\ Cardinality(Failures') = Cardinality(Failures) + 1
<1>1. tried'[r] = tried[r] \cup {x} /\ \A q \in Requests \ {r} : tried'[q] = tried[q]
  BY DEF HistoryTyped
<1>2. \A y : y \in Failures <=> \E q \in Requests : \E z \in tried[q] : y = <<q, z>>
  BY DEF Failures
<1>3. \A y : y \in Failures' <=> \E q \in Requests : \E z \in tried'[q] : y = <<q, z>>
  BY DEF Failures
<1>4. Failures' = Failures \cup {<<r, x>>}
  <2>1. \A y : y \in Failures' => y \in Failures \cup {<<r, x>>}
    BY <1>1, <1>2, <1>3
  <2>2. \A y : y \in Failures => y \in Failures'
    BY <1>1, <1>2, <1>3
  <2>3. <<r, x>> \in Failures'
    BY <1>1, <1>3
  <2> QED
    BY <2>1, <2>2, <2>3
<1>5. <<r, x>> \notin Failures
  BY <1>2
<1> QED
  BY <1>4, <1>5, FS_AddElement, FS_CardinalityType

\* The balance, and what keeps the number of failures one.
BalanceOK == MetricsBalance /\ IsFiniteSet(Failures)

One(b) == IF b THEN 1 ELSE 0

\* A step of r that adds to the metrics what it adds to the sets keeps the balance.
LEMMA BalanceStep ==
  ASSUME BalanceOK, metrics \in Metrics, metrics' \in Metrics,
         NEW r \in Requests, \A q \in Requests \ {r} : Same(q),
         NEW n \in Nat, IsFiniteSet(Failures'), Cardinality(Failures') = Cardinality(Failures) + n,
         metrics'.noCapacity + One(pc[r] = "failed") = metrics.noCapacity + One(pc'[r] = "failed"),
         metrics'.requests + metrics'.noCapacity + One(Counted(r))
           = metrics.requests + metrics.noCapacity + One(Counted(r)'),
         metrics'.failures + One(Unsettled(r)') = metrics.failures + One(Unsettled(r)) + n
  PROVE  BalanceOK'
<1>1. /\ metrics.noCapacity = Cardinality(FailedSet)
      /\ metrics.requests + metrics.noCapacity = Cardinality(CountedSet)
      /\ metrics.failures + Cardinality(UnsettledSet) = Cardinality(Failures)
  BY BalanceByName DEF BalanceOK
<1>2. /\ metrics.requests \in Nat /\ metrics.noCapacity \in Nat /\ metrics.failures \in Nat
      /\ metrics'.requests \in Nat /\ metrics'.noCapacity \in Nat /\ metrics'.failures \in Nat
  BY DEF Metrics
<1>3. /\ Cardinality(FailedSet') + One(pc[r] = "failed")
           = Cardinality(FailedSet) + One(pc'[r] = "failed")
      /\ Cardinality(CountedSet') + One(Counted(r))
           = Cardinality(CountedSet) + One(Counted(r)')
      /\ Cardinality(UnsettledSet') + One(Unsettled(r))
           = Cardinality(UnsettledSet) + One(Unsettled(r)')
  BY FateCounting, FateMembers, FateFinite DEF Counted1, One
<1>4. Cardinality(FailedSet) \in Nat /\ Cardinality(CountedSet) \in Nat
      /\ Cardinality(UnsettledSet) \in Nat
  BY FateFinite
<1>5. (Cardinality(FailedSet) \in Nat /\ Cardinality(CountedSet) \in Nat
      /\ Cardinality(UnsettledSet) \in Nat)'
  BY FateFinite, PTL
<1>6. \A b \in BOOLEAN : One(b) \in Nat
  BY DEF One
<1>7. /\ One(pc[r] = "failed") \in Nat /\ One(pc'[r] = "failed") \in Nat
      /\ One(Counted(r)) \in Nat /\ One(Counted(r)') \in Nat
      /\ One(Unsettled(r)) \in Nat /\ One(Unsettled(r)') \in Nat
  BY DEF One
<1>8. /\ metrics'.noCapacity = Cardinality(FailedSet')
      /\ metrics'.requests + metrics'.noCapacity = Cardinality(CountedSet')
      /\ metrics'.failures + Cardinality(UnsettledSet') = Cardinality(Failures')
  BY <1>1, <1>2, <1>3, <1>4, <1>5, <1>7
<1>9. MetricsBalance'
  BY <1>8 DEF MetricsBalance, FailedSet, CountedSet, UnsettledSet, Failures
<1> QED
  BY <1>9 DEF BalanceOK

\* ... which is the case for a step that changes nothing of all that.
LEMMA NeutralKeeps ==
  ASSUME NEW r \in Requests, BalanceOK, metrics \in Metrics, UNCHANGED <<metrics, tried>>,
         \A q \in Requests \ {r} : Same(q),
         pc'[r] = "failed" <=> pc[r] = "failed",
         Counted(r)' <=> Counted(r), Unsettled(r)' <=> Unsettled(r)
  PROVE  BalanceOK'
<1>1. Failures' = Failures
  BY DEF Failures
<1>2. IsFiniteSet(Failures') /\ Cardinality(Failures') = Cardinality(Failures) + 0
  BY <1>1, FS_CardinalityType DEF BalanceOK
<1>3. /\ metrics.requests \in Nat /\ metrics.noCapacity \in Nat /\ metrics.failures \in Nat
  BY DEF Metrics
<1>4. /\ metrics'.noCapacity + One(pc[r] = "failed") = metrics.noCapacity + One(pc'[r] = "failed")
      /\ metrics'.requests + metrics'.noCapacity + One(Counted(r))
           = metrics.requests + metrics.noCapacity + One(Counted(r)')
      /\ metrics'.failures + One(Unsettled(r)') = metrics.failures + One(Unsettled(r)) + 0
  BY <1>3 DEF One
<1> QED
  BY <1>2, <1>4, BalanceStep

LEMMA CountFields ==
  ASSUME metrics \in Metrics, NEW f \in {"requests", "noCapacity", "failures"}, Count(f)
  PROVE  /\ metrics' \in Metrics
         /\ metrics'.requests = metrics.requests + One(f = "requests")
         /\ metrics'.noCapacity = metrics.noCapacity + One(f = "noCapacity")
         /\ metrics'.failures = metrics.failures + One(f = "failures")
BY DEF Count, Metrics, One

LEMMA SelectionBalance ==
  ASSUME RequestsTyped, FallThroughOK, StateTyped, BalanceOK,
         NEW r \in Requests, \A q \in Requests \ {r} : Same(q),
         \/ Select(r) \/ CheckState(r) \/ CheckCooldown(r) \/ RecordModel(r)
         \/ RecordProvider(r) \/ SetExhausted(r) \/ PinTracker(r) \/ AcquireProvider(r)
         \/ AcquireModel(r) \/ Undo(r)
  PROVE  BalanceOK'
<1> USE DEF Goto, RequestsTyped
<1> DEFINE Places == {"select", "state", "cooldown", "modelquota", "quota", "exhaust", "pin",
                      "slot", "modelslot", "undo", "call"}
<1>1. UNCHANGED <<metrics, tried, outcome>> /\ pc[r] \in Places /\ pc'[r] \in Places
  <2>1. CASE Select(r) \/ CheckState(r) \/ CheckCooldown(r)
    BY <2>1 DEF Select, CheckState, CheckCooldown, shared, history
  <2>2. CASE RecordModel(r) \/ RecordProvider(r) \/ SetExhausted(r)
    BY <2>2 DEF RecordModel, RecordProvider, SetExhausted, history
  <2>3. CASE PinTracker(r) \/ AcquireProvider(r) \/ AcquireModel(r) \/ Undo(r)
    BY <2>3 DEF PinTracker, AcquireProvider, AcquireModel, Undo, shared, locals, history
  <2> QED
    BY <2>1, <2>2, <2>3
<1>2. outcome[r] = "none"
  BY <1>1 DEF FallThroughOK, OutcomeOK
<1>3. /\ pc'[r] = "failed" <=> pc[r] = "failed"
      /\ Counted(r)' <=> Counted(r)
      /\ Unsettled(r)' <=> Unsettled(r)
  BY <1>1, <1>2 DEF Counted, Unsettled
<1> QED
  BY <1>1, <1>3, NeutralKeeps DEF StateTyped

LEMMA StartAndEndBalance ==
  ASSUME RequestsTyped, FallThroughOK, StateTyped, BalanceOK,
         NEW r \in Requests, \A q \in Requests \ {r} : Same(q),
         GiveUp(r) \/ \E model \in Asked : Resolve(r, model)
  PROVE  BalanceOK'
<1> USE DEF Goto, RequestsTyped
<1>1. /\ UNCHANGED <<tried, outcome>> /\ pc[r] \in {"idle", "select", "state"}
      /\ \/ pc'[r] = "failed" /\ Count("noCapacity")
         \/ pc'[r] = "select" /\ UNCHANGED metrics
  BY DEF GiveUp, Resolve, history
<1>2. outcome[r] = "none" /\ metrics \in Metrics
  BY <1>1 DEF FallThroughOK, OutcomeOK, StateTyped
<1>3. CASE pc'[r] = "select" /\ UNCHANGED metrics
  <2>1. /\ pc'[r] = "failed" <=> pc[r] = "failed"
        /\ Counted(r)' <=> Counted(r)
        /\ Unsettled(r)' <=> Unsettled(r)
    BY <1>1, <1>2, <1>3 DEF Counted, Unsettled
  <2> QED
    BY <1>1, <1>2, <1>3, <2>1, NeutralKeeps
<1>4. CASE pc'[r] = "failed" /\ Count("noCapacity")
  <2>1. Failures' = Failures
    BY <1>1 DEF Failures
  <2>2. IsFiniteSet(Failures') /\ Cardinality(Failures') = Cardinality(Failures) + 0
    BY <2>1, FS_CardinalityType DEF BalanceOK
  <2>3. /\ ~Counted(r) /\ Counted(r)' /\ ~Unsettled(r) /\ ~Unsettled(r)' /\ pc[r] # "failed"
    BY <1>1, <1>2, <1>4 DEF Counted, Unsettled
  <2>4. /\ metrics' \in Metrics
        /\ metrics'.requests = metrics.requests
        /\ metrics'.noCapacity = metrics.noCapacity + 1
        /\ metrics'.failures = metrics.failures
        /\ metrics.requests \in Nat /\ metrics.noCapacity \in Nat /\ metrics.failures \in Nat
    BY <1>2, <1>4, CountFields DEF Metrics, One
  <2>5. /\ metrics'.noCapacity + One(pc[r] = "failed") = metrics.noCapacity + One(pc'[r] = "failed")
        /\ metrics'.requests + metrics'.noCapacity + One(Counted(r))
             = metrics.requests + metrics.noCapacity + One(Counted(r)')
        /\ metrics'.failures + One(Unsettled(r)') = metrics.failures + One(Unsettled(r)) + 0
    <3>1. /\ One(pc[r] = "failed") = 0 /\ One(pc'[r] = "failed") = 1
          /\ One(Counted(r)) = 0 /\ One(Counted(r)') = 1
          /\ One(Unsettled(r)) = 0 /\ One(Unsettled(r)') = 0
      BY <1>4, <2>3 DEF One
    <3> HIDE DEF RequestsTyped
    <3> QED
      BY <2>4, <3>1
  <2> QED
    BY <1>2, <2>2, <2>4, <2>5, BalanceStep
<1> QED
  BY <1>1, <1>3, <1>4

\* A call ends: a failure is new, and has still to be counted.
LEMMA ReturnBalance ==
  ASSUME RequestsTyped, HistoryTyped, FallThroughOK, StateTyped, BalanceOK,
         NEW r \in Requests, \A q \in Requests \ {r} : Same(q),
         NEW answer \in Answers(r), Return(r, answer)
  PROVE  BalanceOK'
<1> USE DEF Goto, RequestsTyped
<1>1. pc[r] = "call" /\ outcome'[r] = answer /\ metrics \in Metrics
  BY DEF Return, StateTyped
<1>2. outcome[r] = "none" /\ ~Counted(r) /\ ~Unsettled(r)
  BY <1>1 DEF FallThroughOK, OutcomeOK, Counted, Unsettled
<1>3. /\ metrics.requests \in Nat /\ metrics.noCapacity \in Nat /\ metrics.failures \in Nat
  BY <1>1 DEF Metrics
<1>4. CASE answer = "ok"
  <2>1. tried' = tried
    BY <1>4 DEF Return, HistoryTyped
  <2>2. Failures' = Failures
    BY <2>1 DEF Failures
  <2>3. IsFiniteSet(Failures') /\ Cardinality(Failures') = Cardinality(Failures) + 0
    BY <2>2, FS_CardinalityType DEF BalanceOK
  <2>4. CASE r \in Streaming
    <3>1. Count("requests") /\ pc'[r] = "stream"
      BY <1>4, <2>4 DEF Return
    <3>2. Counted(r)' /\ ~Unsettled(r)'
      BY <1>1, <1>4, <2>4, <3>1 DEF Counted, Unsettled
    <3>3. /\ metrics' \in Metrics
          /\ metrics'.requests = metrics.requests + 1
          /\ metrics'.noCapacity = metrics.noCapacity
          /\ metrics'.failures = metrics.failures
      BY <1>1, <1>3, <3>1, CountFields DEF One
    <3>4. /\ metrics'.noCapacity + One(pc[r] = "failed")
               = metrics.noCapacity + One(pc'[r] = "failed")
          /\ metrics'.requests + metrics'.noCapacity + One(Counted(r))
               = metrics.requests + metrics.noCapacity + One(Counted(r)')
          /\ metrics'.failures + One(Unsettled(r)') = metrics.failures + One(Unsettled(r)) + 0
      <4>1. /\ One(pc[r] = "failed") = 0 /\ One(pc'[r] = "failed") = 0
            /\ One(Counted(r)) = 0 /\ One(Counted(r)') = 1
            /\ One(Unsettled(r)) = 0 /\ One(Unsettled(r)') = 0
        BY <1>1, <1>2, <3>1, <3>2 DEF One
      <4> QED
        BY <1>3, <3>3, <4>1
    <3> QED
      BY <1>1, <2>3, <3>3, <3>4, BalanceStep
  <2>5. CASE r \notin Streaming
    <3>1. UNCHANGED metrics /\ pc'[r] = "release"
      BY <2>5 DEF Return
    <3>2. ~Counted(r)' /\ ~Unsettled(r)'
      BY <1>1, <1>4, <2>5, <3>1 DEF Counted, Unsettled
    <3> QED
      BY <1>1, <1>2, <2>1, <3>1, <3>2, NeutralKeeps
  <2> QED
    BY <2>4, <2>5
<1>5. CASE answer # "ok"
  <2> DEFINE x == <<cur[r], answer>>
  <2>1. tried' = [tried EXCEPT ![r] = tried[r] \cup {x}]
    BY <1>5 DEF Return, HistoryTyped
  <2>2. x \notin tried[r]
    BY <1>1, NewFailure DEF RequestOK, FallThroughOK
  <2>3. IsFiniteSet(Failures') /\ Cardinality(Failures') = Cardinality(Failures) + 1
    <3> HIDE DEF x
    <3> QED
      BY <2>1, <2>2, FailuresCount DEF BalanceOK
  <2>4. metrics' = metrics /\ pc'[r] = "release"
    BY <1>5 DEF Return
  <2>5. ~Counted(r)' /\ Unsettled(r)'
    BY <1>1, <1>5, <2>4 DEF Counted, Unsettled
  <2>6. /\ metrics'.noCapacity + One(pc[r] = "failed")
             = metrics.noCapacity + One(pc'[r] = "failed")
        /\ metrics'.requests + metrics'.noCapacity + One(Counted(r))
             = metrics.requests + metrics.noCapacity + One(Counted(r)')
        /\ metrics'.failures + One(Unsettled(r)') = metrics.failures + One(Unsettled(r)) + 1
    BY <1>1, <1>2, <1>3, <2>4, <2>5 DEF One
  <2> QED
    BY <1>1, <2>3, <2>4, <2>6, BalanceStep
<1> QED
  BY <1>4, <1>5

LEMMA ReleaseBalance ==
  ASSUME RequestsTyped, FallThroughOK, StateTyped, BalanceOK,
         NEW r \in Requests, \A q \in Requests \ {r} : Same(q),
         StreamEnds(r) \/ ReleaseProvider(r) \/ ReleaseModel(r)
  PROVE  BalanceOK'
<1> USE DEF Goto, RequestsTyped
<1>1. /\ UNCHANGED <<metrics, tried, outcome>>
      /\ \/ pc[r] = "stream" /\ pc'[r] = "release"
         \/ pc[r] = "release" /\ pc'[r] = "modelrelease"
         \/ /\ pc[r] = "modelrelease" /\ pc'[r] \in {"done", "settle"}
            /\ pc'[r] = "done" => r \in Streaming /\ outcome[r] = "ok"
  BY DEF StreamEnds, ReleaseProvider, ReleaseModel, shared, locals, history
<1>2. pc[r] = "stream" => outcome[r] = "ok"
  BY DEF FallThroughOK, OutcomeOK
<1>3. /\ pc'[r] = "failed" <=> pc[r] = "failed"
      /\ Counted(r)' <=> Counted(r)
      /\ Unsettled(r)' <=> Unsettled(r)
  BY <1>1, <1>2 DEF Counted, Unsettled
<1> QED
  BY <1>1, <1>3, NeutralKeeps DEF StateTyped

\* What is made of an outcome is counted: a request served, or a failure.
LEMMA SettleBalance ==
  ASSUME RequestsTyped, FallThroughOK, StateTyped, BalanceOK,
         NEW r \in Requests, \A q \in Requests \ {r} : Same(q),
         Succeed(r) \/ CoolDown(r) \/ BlockProvider(r) \/ DropProvider(r)
  PROVE  BalanceOK'
<1> USE DEF Goto, RequestsTyped
<1>1. pc[r] = "settle" /\ tried' = tried /\ metrics \in Metrics
  BY DEF Succeed, CoolDown, BlockProvider, DropProvider, history, StateTyped
<1>2. Failures' = Failures
  BY <1>1 DEF Failures
<1>3. IsFiniteSet(Failures') /\ Cardinality(Failures') = Cardinality(Failures) + 0
  BY <1>2, FS_CardinalityType DEF BalanceOK
<1>4. /\ metrics.requests \in Nat /\ metrics.noCapacity \in Nat /\ metrics.failures \in Nat
  BY <1>1 DEF Metrics
<1>5. CASE Succeed(r)
  <2>1. Count("requests") /\ pc'[r] = "done" /\ outcome[r] = "ok" /\ outcome' = outcome
    BY <1>5 DEF Succeed, locals
  <2>2. ~Counted(r) /\ Counted(r)' /\ ~Unsettled(r) /\ ~Unsettled(r)'
    BY <1>1, <2>1 DEF Counted, Unsettled, FallThroughOK, OutcomeOK
  <2>3. /\ metrics' \in Metrics
        /\ metrics'.requests = metrics.requests + 1
        /\ metrics'.noCapacity = metrics.noCapacity
        /\ metrics'.failures = metrics.failures
    BY <1>1, <1>4, <2>1, CountFields DEF One
  <2>4. /\ metrics'.noCapacity + One(pc[r] = "failed")
             = metrics.noCapacity + One(pc'[r] = "failed")
        /\ metrics'.requests + metrics'.noCapacity + One(Counted(r))
             = metrics.requests + metrics.noCapacity + One(Counted(r)')
        /\ metrics'.failures + One(Unsettled(r)') = metrics.failures + One(Unsettled(r)) + 0
    BY <1>1, <1>4, <2>1, <2>2, <2>3 DEF One
  <2> QED
    BY <1>1, <1>3, <2>3, <2>4, BalanceStep
<1>6. CASE CoolDown(r) \/ BlockProvider(r) \/ DropProvider(r)
  <2>1. pc'[r] = "select" /\ outcome[r] # "ok" /\ outcome'[r] = "none"
    BY <1>6 DEF CoolDown, BlockProvider, DropProvider
  <2>2. ~Counted(r) /\ ~Counted(r)' /\ Unsettled(r) /\ ~Unsettled(r)'
    BY <1>1, <2>1 DEF Counted, Unsettled
  <2>3. /\ metrics' \in Metrics
        /\ metrics'.requests = metrics.requests
        /\ metrics'.noCapacity = metrics.noCapacity
        /\ metrics'.failures = metrics.failures + 1
    <3>1. CASE Count("failures")
      BY <1>1, <1>4, <3>1, CountFields DEF One
    <3>2. CASE BlockProvider(r)
      <4>1. metrics' = [metrics EXCEPT !.failures = @ + 1, !.blocks = @ + 1]
        BY <3>2 DEF BlockProvider
      <4>2. metrics.failures + 1 \in Nat /\ metrics.blocks + 1 \in Nat
        BY <1>1 DEF Metrics
      <4>3. PICK m \in Metrics : m = [metrics EXCEPT !.failures = metrics.failures + 1]
        BY <1>1, <4>2 DEF Metrics
      <4>4. metrics' = [m EXCEPT !.blocks = metrics.blocks + 1]
        BY <4>1, <4>3, Zenon
      <4>5. /\ m.requests = metrics.requests /\ m.noCapacity = metrics.noCapacity
            /\ m.failures = metrics.failures + 1
        BY <1>1, <4>3 DEF Metrics
      <4> QED
        BY <4>2, <4>4, <4>5 DEF Metrics
    <3> QED
      BY <1>6, <3>1, <3>2 DEF CoolDown, DropProvider
  <2>4. /\ metrics'.noCapacity + One(pc[r] = "failed")
             = metrics.noCapacity + One(pc'[r] = "failed")
        /\ metrics'.requests + metrics'.noCapacity + One(Counted(r))
             = metrics.requests + metrics.noCapacity + One(Counted(r)')
        /\ metrics'.failures + One(Unsettled(r)') = metrics.failures + One(Unsettled(r)) + 0
    BY <1>1, <1>4, <2>1, <2>2, <2>3 DEF One
  <2> QED
    BY <1>1, <1>3, <2>3, <2>4, BalanceStep
<1> QED
  BY <1>5, <1>6

LEMMA BalanceNext ==
  ASSUME IInv, FallThroughOK, BalanceOK, [Next]_vars
  PROVE  BalanceOK'
<1>1. StateTyped /\ RequestsTyped /\ HistoryTyped
  BY DEF IInv, SlotIInv
<1>2. ASSUME NEW r \in Requests,
             (\E model \in Asked : Resolve(r, model)) \/ Step(r) \/ StreamEnds(r)
      PROVE  BalanceOK'
  <2>1. \A q \in Requests \ {r} : Same(q)
    BY <1>1, <1>2, OthersSame
  <2>2. CASE GiveUp(r) \/ \E model \in Asked : Resolve(r, model)
    BY <1>1, <2>1, <2>2, StartAndEndBalance
  <2>3. CASE \/ Select(r) \/ CheckState(r) \/ CheckCooldown(r) \/ RecordModel(r)
             \/ RecordProvider(r) \/ SetExhausted(r) \/ PinTracker(r) \/ AcquireProvider(r)
             \/ AcquireModel(r) \/ Undo(r)
    BY <1>1, <2>1, <2>3, SelectionBalance
  <2>4. ASSUME NEW answer \in Answers(r), Return(r, answer) PROVE BalanceOK'
    BY <1>1, <2>1, <2>4, ReturnBalance
  <2>5. CASE StreamEnds(r) \/ ReleaseProvider(r) \/ ReleaseModel(r)
    BY <1>1, <2>1, <2>5, ReleaseBalance
  <2>6. CASE Succeed(r) \/ CoolDown(r) \/ BlockProvider(r) \/ DropProvider(r)
    BY <1>1, <2>1, <2>6, SettleBalance
  <2> QED
    BY <1>2, <2>2, <2>3, <2>4, <2>5, <2>6 DEF Step
<1>3. CASE \/ Update \/ Tick \/ AllDone \/ UNCHANGED vars
           \/ \E r \in Leavers : Disconnect(r)
           \/ \E p \in Flaky : HealthChanges(p)
  <2>1. UNCHANGED <<metrics, pc, outcome, tried>>
    BY <1>3
    DEF Update, Tick, AllDone, Disconnect, HealthChanges, vars, shared, locals, history
  <2> QED
    BY <2>1 DEF BalanceOK, Failures, MetricsBalance, Counted, Unsettled
<1> QED
  BY <1>2, <1>3 DEF Next

LEMMA BalanceInit == Init => BalanceOK
<1> SUFFICES ASSUME Init PROVE BalanceOK
  OBVIOUS
<1>1. FailedSet = {} /\ CountedSet = {} /\ UnsettledSet = {} /\ Failures = {}
  BY DEF Init, FailedSet, CountedSet, UnsettledSet, Failures, Counted, Unsettled
<1>2. metrics.noCapacity = 0 /\ metrics.requests = 0 /\ metrics.failures = 0
  BY DEF Init
<1> QED
  BY <1>1, <1>2, FS_EmptySet, BalanceByName DEF BalanceOK

-----------------------------------------------------------------------------
(* The theorems about the fall-through *)

\* The whole inductive invariant of the router.
RouterIInv == IInv /\ FallThroughIInv /\ SanctionsExpire /\ BalanceOK

\* RouterIInv is inductive.
THEOREM FallThrough == Spec => []RouterIInv
<1>1. Init => FallThroughIInv /\ SanctionsExpire /\ BalanceOK
  BY FallThroughInit, SanctionsInit, BalanceInit DEF FallThroughIInv
<1>2. IInv /\ FallThroughIInv /\ SanctionsExpire /\ BalanceOK /\ [Next]_vars
        => (FallThroughIInv /\ SanctionsExpire /\ BalanceOK)'
  <2> SUFFICES ASSUME IInv, FallThroughIInv, SanctionsExpire, BalanceOK, [Next]_vars
               PROVE  (FallThroughIInv /\ SanctionsExpire /\ BalanceOK)'
    OBVIOUS
  <2>1. /\ RequestsTyped /\ HistoryTyped /\ Placed /\ FallThroughOK /\ DueOK
    BY DEF IInv, SlotIInv, FallThroughIInv
  <2>2. FallThroughOK'
    BY <2>1, FallThroughNext
  <2>3. DueOK' /\ SanctionsExpire'
    BY <2>1, SanctionsNext
  <2>4. BalanceOK'
    BY <2>1, BalanceNext
  <2> QED
    BY <2>2, <2>3, <2>4 DEF FallThroughIInv
<1> QED
  BY <1>1, <1>2, Invariance, PTL DEF Spec, RouterIInv

\* However requests, reloads and disconnections interleave, a request comes back
\* neither to an entry that has failed it nor to a provider that a failure has
\* cost it (router.go:209-268, filterEntry and filterProvider).
THEOREM NoRetry == Spec => []NeverRetried
<1>1. RouterIInv => NeverRetried
  <2> SUFFICES ASSUME RouterIInv, NEW r \in Requests, pc[r] = "call", NEW t \in tried[r]
               PROVE  /\ list[r][t[1]] # Entry(r)
                      /\ list[r][t[1]][1] = Prov(r) => Prov(r) \notin Remote /\ t[2] = "model"
    BY DEF NeverRetried
  <2>1. ~Costs(t, cur[r], r)
    BY NewFailure DEF RouterIInv, FallThroughIInv, FallThroughOK, RequestOK
  <2> QED
    BY <2>1 DEF Costs, Entry, Prov
<1> QED
  BY <1>1, FallThrough, PTL

\* No request is turned away before every entry of its list was looked at, or
\* dropped with a provider that had failed or was full (router.go:90-158, 186-200).
THEOREM FullList == Spec => []FullListTried
<1>1. RouterIInv => FullListTried
  BY DEF RouterIInv, FallThroughIInv, FallThroughOK, DroppedExcused, FullListTried, Excused
<1> QED
  BY <1>1, FallThrough, PTL

\* Every answer and every failed call is counted exactly once, however many
\* requests run at the same time (router.go:193, 200, 222, 256, 266).
THEOREM Balance == Spec => []MetricsBalance
<1>1. RouterIInv => MetricsBalance
  BY DEF RouterIInv, BalanceOK
<1> QED
  BY <1>1, FallThrough, PTL

\* No block and no exhaustion ever reaches further into the future than one
\* recovery window, or one window of a limit, of some configuration
\* (router.go:139-143, manager.go:79-107).
THEOREM Expiry == Spec => []SanctionsExpire
<1>1. RouterIInv => SanctionsExpire
  BY DEF RouterIInv
<1> QED
  BY <1>1, FallThrough, PTL

\* Where reloads leave the recovery windows alone, no failure shortens the block
\* that another one has set (router.go:259-262, manager.go:79-90).
THEOREM Extension ==
  ASSUME SteadyRecovery
  PROVE  Spec => BlocksOnlyExtend
<1>1. RouterIInv /\ [Next]_vars => [\A p \in Providers : blocked'[p] >= blocked[p]]_vars
  BY BlocksExtend DEF RouterIInv
<1> QED
  BY <1>1, FallThrough, PTL DEF Spec, BlocksOnlyExtend

-----------------------------------------------------------------------------
(* Refinement: the loops of Route and Stream implement Failover *)

LEMMA RoundsNext ==
  ASSUME RequestsTyped, HistoryTyped, FallThroughOK, RoundsOK, [Next]_vars
  PROVE  RoundsOK'
<1> DEFINE OK(q) == /\ pc[q] \in {"idle", "select"} => cur[q] = 0
                    /\ pc[q] = "stream" => q \in Streaming
<1>1. ASSUME NEW r \in Requests,
             (\E model \in Asked : Resolve(r, model)) \/ Step(r) \/ StreamEnds(r)
      PROVE  OK(r)'
  <2> USE DEF Goto, RequestsTyped, RoundsOK
  <2>1. CASE GiveUp(r) \/ Select(r) \/ \E model \in Asked : Resolve(r, model)
    BY <2>1 DEF GiveUp, Select, Resolve
  <2>2. CASE CheckState(r) \/ CheckCooldown(r)
    BY <2>2 DEF CheckState, CheckCooldown
  <2>3. CASE RecordModel(r) \/ RecordProvider(r)
    BY <2>3 DEF RecordModel, RecordProvider
  <2>4. CASE SetExhausted(r) \/ PinTracker(r)
    BY <2>4 DEF SetExhausted, PinTracker
  <2>5. CASE AcquireProvider(r) \/ Undo(r)
    BY <2>5 DEF AcquireProvider, Undo
  <2>6. CASE AcquireModel(r) \/ ReleaseProvider(r) \/ ReleaseModel(r)
    BY <2>6 DEF AcquireModel, ReleaseProvider, ReleaseModel
  <2>7. CASE \E answer \in Answers(r) : Return(r, answer)
    BY <2>7 DEF Return
  <2>8. CASE Succeed(r) \/ StreamEnds(r)
    BY <2>8 DEF Succeed, StreamEnds
  <2>9. CASE CoolDown(r) \/ BlockProvider(r) \/ DropProvider(r)
    BY <2>9 DEF CoolDown, BlockProvider, DropProvider
  <2> QED
    BY <1>1, <2>1, <2>2, <2>3, <2>4, <2>5, <2>6, <2>7, <2>8, <2>9 DEF Step
<1>2. ASSUME NEW q \in Requests, Same(q) PROVE OK(q)'
  BY <1>2 DEF Same, RoundsOK
<1>3. ASSUME NEW r \in Requests,
             (\E model \in Asked : Resolve(r, model)) \/ Step(r) \/ StreamEnds(r),
             NEW q \in Requests
      PROVE  OK(q)'
  <2>1. CASE q = r
    BY <1>1, <1>3, <2>1
  <2>2. CASE q # r
    BY <1>2, <1>3, <2>2, OthersSame
  <2> QED
    BY <2>1, <2>2
<1>4. ASSUME \/ Update \/ Tick \/ AllDone \/ UNCHANGED vars
             \/ \E r \in Leavers : Disconnect(r)
             \/ \E p \in Flaky : HealthChanges(p),
             NEW q \in Requests
      PROVE  OK(q)'
  BY <1>2, <1>4, RestSame
<1>5. \A q \in Requests : OK(q)'
  BY <1>3, <1>4 DEF Next
<1> QED
  BY <1>5 DEF RoundsOK

\* What the refinement rests on.
RefinementIInv == RouterIInv /\ RoundsOK

THEOREM Rounds == Spec => []RefinementIInv
<1>1. Init => RoundsOK
  BY DEF Init, RoundsOK
<1>2. RouterIInv /\ RoundsOK /\ [Next]_vars => RoundsOK'
  BY RoundsNext DEF RouterIInv, IInv, SlotIInv, FallThroughIInv
<1> QED
  BY <1>1, <1>2, FallThrough, PTL DEF Spec, RefinementIInv

\* The part of RefinementIInv that concerns one request.
Sound(r) == RequestOK(r) /\ (pc[r] \in {"idle", "select"} => cur[r] = 0)
            /\ (pc[r] = "stream" => r \in Streaming)

LEMMA AllSound ==
  ASSUME RefinementIInv
  PROVE  RequestsTyped /\ Placed /\ SlotsTyped /\ HistoryTyped
         /\ \A r \in Requests : Sound(r)
BY DEF RefinementIInv, RouterIInv, IInv, SlotIInv, FallThroughIInv, FallThroughOK,
       RequestOK, RoundsOK, Sound

\* The stage of a request, by its place.
Choosing == {"select", "state", "cooldown", "modelquota", "quota", "exhaust", "pin",
             "slot", "modelslot", "undo"}

LEMMA StagesByPlace ==
  ASSUME NEW r
  PROVE  /\ pc[r] = "idle" => StageOf(r) = "waiting"
         /\ pc[r] = "failed" => StageOf(r) = "refused"
         /\ pc[r] \in {"stream", "done"} => StageOf(r) = "answered"
         /\ pc[r] \in Choosing /\ outcome[r] # "ok" => StageOf(r) = "choosing"
         /\ pc[r] \in {"call", "release", "modelrelease", "settle"} =>
               StageOf(r) = IF r \in Streaming /\ outcome[r] = "ok" THEN "answered"
                                                                   ELSE "calling"
<1>1. CASE pc[r] = "idle" \/ pc[r] = "failed"
  BY <1>1 DEF StageOf, Answered, Choosing
<1>4. CASE pc[r] = "stream" \/ pc[r] = "done"
  BY <1>4 DEF StageOf, Answered, Choosing
<1>2. CASE pc[r] \in Choosing
  BY <1>2 DEF StageOf, Answered, Choosing
<1>3. CASE pc[r] \in {"call", "release", "modelrelease", "settle"}
  BY <1>3 DEF StageOf, Answered, Choosing
<1> QED
  BY <1>1, <1>2, <1>3, <1>4

LEMMA StagesByPlaceNext ==
  ASSUME NEW r
  PROVE  /\ pc'[r] = "idle" => StageOf(r)' = "waiting"
         /\ pc'[r] = "failed" => StageOf(r)' = "refused"
         /\ pc'[r] \in {"stream", "done"} => StageOf(r)' = "answered"
         /\ pc'[r] \in Choosing /\ outcome'[r] # "ok" => StageOf(r)' = "choosing"
         /\ pc'[r] \in {"call", "release", "modelrelease", "settle"} =>
               StageOf(r)' = IF r \in Streaming /\ outcome'[r] = "ok" THEN "answered"
                                                                     ELSE "calling"
<1>1. CASE pc'[r] = "idle" \/ pc'[r] = "failed"
  BY <1>1 DEF StageOf, Answered, Choosing
<1>4. CASE pc'[r] = "stream" \/ pc'[r] = "done"
  BY <1>4 DEF StageOf, Answered, Choosing
<1>2. CASE pc'[r] \in Choosing
  BY <1>2 DEF StageOf, Answered, Choosing
<1>3. CASE pc'[r] \in {"call", "release", "modelrelease", "settle"}
  BY <1>3 DEF StageOf, Answered, Choosing
<1> QED
  BY <1>1, <1>2, <1>3, <1>4

LEMMA SameStage ==
  ASSUME NEW q, Same(q)
  PROVE  StageOf(q)' = StageOf(q) /\ PassedBy(q)' = PassedBy(q)
BY DEF Same, StageOf, Answered, PassedBy

\* A step of r moves nobody else in Failover either.
LEMMA Moves ==
  ASSUME RequestsTyped, RequestsTyped', NEW r \in Requests,
         \A q \in Requests \ {r} : Same(q)
  PROVE  /\ Stages' = [Stages EXCEPT ![r] = StageOf(r)']
         /\ Passed' = [Passed EXCEPT ![r] = PassedBy(r)']
         /\ list' = [list EXCEPT ![r] = list'[r]]
         /\ left' = [left EXCEPT ![r] = left'[r]]
         /\ Stages[r] = StageOf(r) /\ Passed[r] = PassedBy(r)
<1>1. \A q \in Requests \ {r} : /\ StageOf(q)' = StageOf(q) /\ PassedBy(q)' = PassedBy(q)
                                /\ list'[q] = list[q] /\ left'[q] = left[q]
  BY SameStage DEF Same
<1>2. Stages' = [Stages EXCEPT ![r] = StageOf(r)']
  BY <1>1 DEF Stages
<1>3. Passed' = [Passed EXCEPT ![r] = PassedBy(r)']
  BY <1>1 DEF Passed
<1>4. list' = [list EXCEPT ![r] = list'[r]] /\ left' = [left EXCEPT ![r] = left'[r]]
  BY <1>1 DEF RequestsTyped
<1> QED
  BY <1>2, <1>3, <1>4 DEF Stages, Passed

LEMMA NobodyMoves ==
  ASSUME RequestsTyped, RequestsTyped', \A q \in Requests : Same(q)
  PROVE  UNCHANGED Promise!vars
<1>1. \A q \in Requests : /\ StageOf(q)' = StageOf(q) /\ PassedBy(q)' = PassedBy(q)
                          /\ list'[q] = list[q] /\ left'[q] = left[q]
  BY SameStage DEF Same
<1>2. Stages' = Stages /\ Passed' = Passed
  BY <1>1 DEF Stages, Passed
<1>3. list' = list /\ left' = left
  BY <1>1 DEF RequestsTyped
<1> QED
  BY <1>2, <1>3 DEF Promise!vars

\* A step that the client does not notice.
LEMMA Unnoticed ==
  ASSUME RequestsTyped, RequestsTyped', NEW r \in Requests,
         \A q \in Requests \ {r} : Same(q),
         StageOf(r)' = StageOf(r), PassedBy(r)' = PassedBy(r),
         list'[r] = list[r], left'[r] = left[r]
  PROVE  UNCHANGED Promise!vars
<1>1. Stages' = [Stages EXCEPT ![r] = Stages[r]] /\ Passed' = [Passed EXCEPT ![r] = Passed[r]]
      /\ list' = [list EXCEPT ![r] = list[r]] /\ left' = [left EXCEPT ![r] = left[r]]
  BY Moves
<1>2. Stages' = Stages /\ Passed' = Passed
  BY <1>1 DEF Stages, Passed
<1>3. list' = list /\ left' = left
  BY <1>1 DEF RequestsTyped
<1> QED
  BY <1>2, <1>3 DEF Promise!vars

\* The entry at which a request stands is the next one in Failover.
LEMMA StandsAtNext ==
  ASSUME RequestsTyped, NEW r \in Requests, cur[r] \in left[r]
  PROVE  Promise!IsNext(r, cur[r])
<1>1. left[r] \subseteq Nat /\ cur[r] \in Nat
  BY DEF RequestsTyped
<1>2. Passed[r] = {i \in left[r] : i < cur[r]}
  BY DEF Passed, PassedBy
<1> QED
  BY <1>1, <1>2 DEF Promise!IsNext

\* Leaving an entry behind in the loop of selectProvider passes it over.
LEMMA LeavesBehind ==
  ASSUME RequestsTyped, RequestsTyped', NEW r \in Requests,
         \A q \in Requests \ {r} : Same(q),
         cur[r] \in left[r], Advance(r, cur[r]), StageOf(r) = "choosing",
         StageOf(r)' = "choosing", list'[r] = list[r], left'[r] = left[r]
  PROVE  Promise!PassOver(r, cur[r])
<1>1. PICK j \in left[r] \cup {Beyond(r)} :
        /\ cur[r] < j
        /\ \A k \in left[r] : cur[r] < k => j <= k
        /\ cur' = [cur EXCEPT ![r] = j]
  BY DEF Advance
<1>2. list[r] \in Seq(Entries) /\ left[r] \subseteq DOMAIN list[r] /\ cur[r] \in Nat
  BY DEF RequestsTyped
<1>3. j \in Nat /\ left[r] \subseteq Nat
  BY <1>2 DEF Beyond
<1>4. cur'[r] = j
  BY <1>1 DEF RequestsTyped
<1>5. PassedBy(r)' = PassedBy(r) \cup {cur[r]}
  BY <1>1, <1>2, <1>3, <1>4 DEF PassedBy
<1>6. Stages' = Stages /\ list' = list /\ left' = left
  <2>1. Stages' = [Stages EXCEPT ![r] = Stages[r]]
        /\ list' = [list EXCEPT ![r] = list[r]] /\ left' = [left EXCEPT ![r] = left[r]]
    BY Moves
  <2>2. Stages' = Stages
    BY <2>1 DEF Stages
  <2>3. list' = list /\ left' = left
    BY <2>1 DEF RequestsTyped
  <2> QED
    BY <2>2, <2>3
<1>7. Passed' = [Passed EXCEPT ![r] = @ \cup {cur[r]}]
  BY <1>5, Moves
<1> QED
  BY <1>6, <1>7, StandsAtNext, Moves DEF Promise!PassOver

\* Filtering is what Failover drops, and the next round begins at the top.
LEMMA Drops ==
  ASSUME RequestsTyped, RequestsTyped', NEW r \in Requests,
         \A q \in Requests \ {r} : Same(q), list'[r] = list[r], cur'[r] = 0
  PROVE  /\ FilterProvider(r) => Promise!DropProvider(r, cur[r])
         /\ FilterEntry(r) => Promise!DropEntry(r, cur[r])
<1>1. left[r] \subseteq DOMAIN list[r] /\ left'[r] \subseteq Nat
  BY DEF RequestsTyped
<1>2. PassedBy(r)' = {}
  BY <1>1 DEF PassedBy
<1>3. Passed' = [Passed EXCEPT ![r] = {}] /\ list' = list
  <2>1. list' = [list EXCEPT ![r] = list[r]]
    BY Moves
  <2>2. list' = list
    BY <2>1 DEF RequestsTyped
  <2> QED
    BY <1>2, <2>2, Moves
<1>4. ASSUME FilterProvider(r) PROVE Promise!DropProvider(r, cur[r])
  <2>1. left'[r] = {i \in left[r] : list[r][i][1] # list[r][cur[r]][1]}
    BY <1>4, FilterFacts DEF Prov, Entry
  <2>2. left'[r] = left[r] \ {k \in DOMAIN list[r] : list[r][k][1] = list[r][cur[r]][1]}
    BY <1>1, <2>1
  <2>3. left' = [left EXCEPT ![r] = @ \
                   {k \in DOMAIN list[r] : list[r][k][1] = list[r][cur[r]][1]}]
    BY <2>2, Moves
  <2> QED
    BY <1>3, <2>3 DEF Promise!DropProvider, Promise!Drop
<1>5. ASSUME FilterEntry(r) PROVE Promise!DropEntry(r, cur[r])
  <2>1. left'[r] = {i \in left[r] : list[r][i] # list[r][cur[r]]}
    BY <1>5, FilterFacts DEF Entry
  <2>2. left'[r] = left[r] \ {k \in DOMAIN list[r] : list[r][k] = list[r][cur[r]]}
    BY <1>1, <2>1
  <2>3. left' = [left EXCEPT ![r] = @ \
                   {k \in DOMAIN list[r] : list[r][k] = list[r][cur[r]]}]
    BY <2>2, Moves
  <2> QED
    BY <1>3, <2>3 DEF Promise!DropEntry, Promise!Drop
<1> QED
  BY <1>4, <1>5

\* What the steps of a request r find, and what holds after them.
Facing(r) == /\ RequestsTyped /\ RequestsTyped' /\ Placed /\ SlotsTyped /\ HistoryTyped
             /\ Sound(r) /\ Sound(r)'
             /\ \A q \in Requests \ {r} : Same(q)

\* The loop of selectProvider: an entry is looked at, or passed over.
LEMMA SelectionImplements ==
  ASSUME NEW r \in Requests, Facing(r),
         \/ CheckState(r) \/ CheckCooldown(r) \/ RecordModel(r) \/ SetExhausted(r)
  PROVE  Promise!PassOver(r, cur[r]) \/ UNCHANGED Promise!vars
<1>1. /\ pc[r] \in {"state", "cooldown", "modelquota", "exhaust"}
      /\ pc[r] = "state" => cur[r] # Beyond(r)
      /\ list' = list /\ left' = left /\ outcome' = outcome
      /\ \/ Advance(r, cur[r]) /\ pc'[r] = "state"
         \/ UNCHANGED cur /\ pc'[r] \in {"cooldown", "modelquota", "quota"}
  BY DEF Facing, RequestsTyped, CheckState, CheckCooldown, RecordModel, SetExhausted, Goto
<1>2. cur[r] \in left[r]
  BY <1>1 DEF Facing, Sound, RequestOK, LoopOK, Selected
<1>3. outcome[r] = "none" /\ outcome'[r] = "none"
  BY <1>1 DEF Facing, Sound, RequestOK, OutcomeOK
<1>4. StageOf(r) = "choosing"
  BY <1>1, <1>3, StagesByPlace DEF Choosing
<1>5. StageOf(r)' = "choosing"
  BY <1>1, <1>3, StagesByPlaceNext DEF Choosing
<1>6. CASE Advance(r, cur[r])
  BY <1>1, <1>2, <1>4, <1>5, <1>6, LeavesBehind DEF Facing
<1>7. CASE UNCHANGED cur
  <2>1. PassedBy(r)' = PassedBy(r)
    BY <1>1, <1>7 DEF PassedBy
  <2> QED
    BY <1>1, <1>4, <1>5, <2>1, Unnoticed DEF Facing
<1> QED
  BY <1>1, <1>6, <1>7

\* A round begins: nothing that is left lies before its first entry.
LEMMA SelectImplements ==
  ASSUME NEW r \in Requests, Facing(r), Select(r)
  PROVE  UNCHANGED Promise!vars
<1>1. /\ pc[r] = "select" /\ pc'[r] = "state" /\ Advance(r, 0)
      /\ list' = list /\ left' = left /\ outcome' = outcome
  BY DEF Facing, RequestsTyped, Select, Goto
<1>2. outcome[r] = "none" /\ outcome'[r] = "none" /\ cur[r] = 0
  BY <1>1 DEF Facing, Sound, RequestOK, OutcomeOK
<1>3. /\ \A k \in left[r] : k \in Nat /\ (0 < k => cur'[r] <= k)
      /\ cur'[r] \in Nat
  BY <1>1, AdvanceFacts DEF Facing
<1>4. \A k \in left[r] : 0 < k
  <2>1. list[r] \in Seq(Entries) /\ left[r] \subseteq DOMAIN list[r]
    BY DEF Facing, RequestsTyped
  <2> QED
    BY <2>1
<1>5. PassedBy(r) = {} /\ PassedBy(r)' = {}
  BY <1>1, <1>2, <1>3, <1>4 DEF PassedBy
<1>6. StageOf(r)' = StageOf(r)
  BY <1>1, <1>2, StagesByPlace, StagesByPlaceNext DEF Choosing
<1> QED
  BY <1>1, <1>5, <1>6, Unnoticed DEF Facing

\* Steps that neither the place in the list nor the stage tells of.
LEMMA StayImplements ==
  ASSUME NEW r \in Requests, Facing(r),
         RecordProvider(r) \/ PinTracker(r) \/ ReleaseProvider(r) \/ ReleaseModel(r)
           \/ StreamEnds(r)
  PROVE  UNCHANGED Promise!vars
<1>1. list' = list /\ left' = left /\ outcome' = outcome /\ cur' = cur
  BY DEF RecordProvider, PinTracker, ReleaseProvider, ReleaseModel, StreamEnds, locals
<1>2. PassedBy(r)' = PassedBy(r)
  BY <1>1 DEF PassedBy
<1>3. CASE RecordProvider(r) \/ PinTracker(r)
  <2>1. pc[r] \in {"quota", "pin"} /\ pc'[r] \in {"exhaust", "pin", "slot"}
    BY <1>3 DEF Facing, RequestsTyped, RecordProvider, PinTracker, Goto
  <2>2. outcome[r] = "none" /\ outcome'[r] = "none"
    BY <1>1, <2>1 DEF Facing, Sound, RequestOK, OutcomeOK
  <2>3. StageOf(r) = "choosing" /\ StageOf(r)' = "choosing"
    BY <2>1, <2>2, StagesByPlace, StagesByPlaceNext DEF Choosing
  <2> QED
    BY <1>1, <1>2, <2>3, Unnoticed DEF Facing
<1>4. CASE ReleaseProvider(r) \/ ReleaseModel(r)
  <2>1. /\ pc[r] \in {"release", "modelrelease"}
        /\ \/ pc'[r] \in {"modelrelease", "settle"}
           \/ pc'[r] = "done" /\ r \in Streaming /\ outcome[r] = "ok"
    BY <1>4 DEF Facing, RequestsTyped, ReleaseProvider, ReleaseModel, Goto
  <2>2. StageOf(r)' = StageOf(r)
    BY <1>1, <2>1, StagesByPlace, StagesByPlaceNext
  <2> QED
    BY <1>1, <1>2, <2>2, Unnoticed DEF Facing
<1>5. CASE StreamEnds(r)
  <2>1. pc[r] = "stream" /\ pc'[r] = "release"
    BY <1>5 DEF Facing, RequestsTyped, StreamEnds, Goto
  <2>2. r \in Streaming /\ outcome[r] = "ok"
    BY <2>1 DEF Facing, Sound, RequestOK, OutcomeOK
  <2>3. StageOf(r)' = StageOf(r)
    BY <1>1, <2>1, <2>2, StagesByPlace, StagesByPlaceNext
  <2> QED
    BY <1>1, <1>2, <2>3, Unnoticed DEF Facing
<1> QED
  BY <1>3, <1>4, <1>5

\* A request is accepted with a list of the configuration of the moment.
LEMMA ResolveImplements ==
  ASSUME NEW r \in Requests, Facing(r), NEW model \in Asked, Resolve(r, model)
  PROVE  Promise!Next
<1> DEFINE l == ResolveIn(Configs[gen], model)
<1>1. /\ pc[r] = "idle" /\ list'[r] = l /\ left'[r] = DOMAIN l
      /\ outcome' = outcome /\ cur' = cur
      /\ \/ l = <<>> /\ pc'[r] = "failed"
         \/ l # <<>> /\ pc'[r] = "select"
  BY DEF Facing, RequestsTyped, Resolve, Goto
<1>2. l \in Offered
  BY DEF Facing, SlotsTyped, Offered
<1>3. outcome'[r] = "none" /\ cur[r] = 0
  BY <1>1 DEF Facing, Sound, RequestOK, OutcomeOK
<1>4. StageOf(r) = "waiting"
  BY <1>1, StagesByPlace
<1>5. StageOf(r)' = IF l = <<>> THEN "refused" ELSE "choosing"
  BY <1>1, <1>3, StagesByPlaceNext DEF Choosing
<1>6. PassedBy(r) = {} /\ PassedBy(r)' = {}
  <2>1. left[r] \subseteq Nat /\ left'[r] \subseteq Nat
    BY DEF Facing, RequestsTyped
  <2> QED
    BY <1>1, <1>3, <2>1 DEF PassedBy
<1>7. Passed' = Passed
  <2>1. Passed' = [Passed EXCEPT ![r] = Passed[r]]
    BY <1>6, Moves DEF Facing
  <2> QED
    BY <2>1 DEF Passed
<1>8. Promise!Accept(r, l)
  BY <1>1, <1>4, <1>5, <1>7, Moves DEF Facing, Promise!Accept, Promise!Enter
<1> QED
  BY <1>2, <1>8 DEF Promise!Next

\* A request is turned away where nothing that is left has not been passed over.
LEMMA GiveUpImplements ==
  ASSUME NEW r \in Requests, Facing(r), GiveUp(r)
  PROVE  Promise!Refuse(r)
<1>1. /\ pc[r] \in {"select", "state"} /\ pc'[r] = "failed"
      /\ left[r] = {} \/ cur[r] = Beyond(r)
      /\ list' = list /\ left' = left /\ cur'[r] = 0
  BY DEF Facing, RequestsTyped, GiveUp, Goto
<1>2. outcome[r] = "none"
  BY <1>1 DEF Facing, Sound, RequestOK, OutcomeOK
<1>3. StageOf(r) = "choosing" /\ StageOf(r)' = "refused"
  BY <1>1, <1>2, StagesByPlace, StagesByPlaceNext DEF Choosing
<1>4. \A k \in left[r] : k \in Nat /\ k < Beyond(r)
  <2>1. list[r] \in Seq(Entries) /\ left[r] \subseteq DOMAIN list[r]
    BY DEF Facing, RequestsTyped
  <2> QED
    BY <2>1 DEF Beyond
<1>5. PassedBy(r) = left[r]
  BY <1>1, <1>4 DEF PassedBy
<1>6. PassedBy(r)' = {}
  BY <1>1, <1>4 DEF PassedBy
<1> QED
  BY <1>1, <1>3, <1>5, <1>6, Moves DEF Facing, Promise!Refuse, Promise!Enter

\* No slot: the provider is dropped, whichever of the two slots it was.
LEMMA NoSlotImplements ==
  ASSUME NEW r \in Requests, Facing(r), pc[r] \in {"slot", "undo"}, FilterProvider(r),
         pc'[r] = "select", cur'[r] = 0, list' = list
  PROVE  Promise!NoSlot(r, cur[r])
<1>1. cur[r] \in left[r] /\ outcome[r] = "none" /\ outcome'[r] = "none"
  BY DEF Facing, Sound, RequestOK, LoopOK, OutcomeOK, Selected
<1>2. StageOf(r) = "choosing" /\ StageOf(r)' = "choosing"
  BY <1>1, StagesByPlace, StagesByPlaceNext DEF Choosing
<1>3. Stages' = Stages
  <2>1. Stages' = [Stages EXCEPT ![r] = Stages[r]]
    BY <1>2, Moves DEF Facing
  <2> QED
    BY <2>1 DEF Stages
<1>4. Promise!DropProvider(r, cur[r])
  BY Drops DEF Facing
<1> QED
  BY <1>1, <1>2, <1>3, <1>4, StandsAtNext, Moves DEF Facing, Promise!NoSlot

LEMMA AcquireImplements ==
  ASSUME NEW r \in Requests, Facing(r),
         AcquireProvider(r) \/ AcquireModel(r) \/ Undo(r)
  PROVE  \/ Promise!NoSlot(r, cur[r]) \/ Promise!Call(r, cur[r])
         \/ UNCHANGED Promise!vars
<1>1. /\ pc[r] \in {"slot", "modelslot", "undo"} /\ list' = list /\ outcome' = outcome
      /\ \/ /\ pc[r] \in {"slot", "undo"} /\ FilterProvider(r)
            /\ pc'[r] = "select" /\ cur'[r] = 0
         \/ pc'[r] \in {"modelslot", "undo", "call"} /\ left' = left /\ cur' = cur
  BY DEF Facing, RequestsTyped, AcquireProvider, AcquireModel, Undo, Goto, locals
<1>2. CASE pc'[r] = "select"
  BY <1>1, <1>2, NoSlotImplements
<1>3. CASE pc'[r] # "select"
  <2>1. cur[r] \in left[r] /\ outcome[r] = "none" /\ outcome'[r] = "none"
    BY <1>1 DEF Facing, Sound, RequestOK, LoopOK, OutcomeOK, Selected
  <2>2. PassedBy(r)' = PassedBy(r)
    BY <1>1, <1>3 DEF PassedBy
  <2>3. StageOf(r) = "choosing"
    BY <1>1, <2>1, StagesByPlace DEF Choosing
  <2>4. CASE pc'[r] \in {"modelslot", "undo"}
    <3>1. StageOf(r)' = "choosing"
      BY <2>1, <2>4, StagesByPlaceNext DEF Choosing
    <3> QED
      BY <1>1, <1>3, <2>2, <2>3, <3>1, Unnoticed DEF Facing
  <2>5. CASE pc'[r] = "call"
    <3>1. StageOf(r)' = "calling"
      BY <2>1, <2>5, StagesByPlaceNext
    <3>2. Passed' = Passed
      <4>1. Passed' = [Passed EXCEPT ![r] = Passed[r]]
        BY <2>2, Moves DEF Facing
      <4> QED
        BY <4>1 DEF Passed
    <3> QED
      BY <1>1, <1>3, <2>1, <2>3, <3>1, <3>2, StandsAtNext, Moves
      DEF Facing, Promise!Call, Promise!Enter
  <2> QED
    BY <1>1, <1>3, <2>4, <2>5
<1> QED
  BY <1>2, <1>3

\* The stage becomes "answered" and nothing else changes.
LEMMA AnswerImplements ==
  ASSUME NEW r \in Requests, Facing(r), StageOf(r) = "calling", StageOf(r)' = "answered",
         list' = list, left' = left, cur' = cur
  PROVE  Promise!Answer(r)
<1>1. PassedBy(r)' = PassedBy(r)
  BY DEF PassedBy
<1>2. Passed' = Passed
  <2>1. Passed' = [Passed EXCEPT ![r] = Passed[r]]
    BY <1>1, Moves DEF Facing
  <2> QED
    BY <2>1 DEF Passed
<1> QED
  BY <1>2, Moves DEF Facing, Promise!Answer, Promise!Enter

\* A stream answers when it is open, any other request when it is settled.
LEMMA ReturnImplements ==
  ASSUME NEW r \in Requests, Facing(r), NEW answer \in Answers(r), Return(r, answer)
  PROVE  Promise!Answer(r) \/ UNCHANGED Promise!vars
<1>1. /\ pc[r] = "call" /\ list' = list /\ left' = left /\ cur' = cur
      /\ outcome'[r] = answer
      /\ \/ pc'[r] = "stream"
         \/ pc'[r] = "release" /\ ~(answer = "ok" /\ r \in Streaming)
  BY DEF Facing, RequestsTyped, Return, Goto
<1>2. outcome[r] = "none"
  BY <1>1 DEF Facing, Sound, RequestOK, OutcomeOK
<1>3. StageOf(r) = "calling"
  BY <1>1, <1>2, StagesByPlace
<1>4. CASE pc'[r] = "stream"
  <2>1. StageOf(r)' = "answered"
    BY <1>4, StagesByPlaceNext
  <2> QED
    BY <1>1, <1>3, <2>1, AnswerImplements
<1>5. CASE pc'[r] = "release"
  <2>1. StageOf(r)' = "calling"
    BY <1>1, <1>5, StagesByPlaceNext
  <2>2. PassedBy(r)' = PassedBy(r)
    BY <1>1 DEF PassedBy
  <2> QED
    BY <1>1, <1>3, <2>1, <2>2, Unnoticed DEF Facing
<1> QED
  BY <1>1, <1>4, <1>5

LEMMA SucceedImplements ==
  ASSUME NEW r \in Requests, Facing(r), Succeed(r)
  PROVE  Promise!Answer(r)
<1>1. /\ pc[r] = "settle" /\ outcome[r] = "ok" /\ pc'[r] = "done"
      /\ list' = list /\ left' = left /\ cur' = cur
  BY DEF Facing, RequestsTyped, Succeed, Goto, locals
<1>2. r \notin Streaming
  BY <1>1 DEF Facing, Sound, RequestOK, OutcomeOK
<1>3. StageOf(r) = "calling" /\ StageOf(r)' = "answered"
  BY <1>1, <1>2, StagesByPlace, StagesByPlaceNext
<1> QED
  BY <1>1, <1>3, AnswerImplements

\* A failure drops the provider, or, of a local one, maybe the entry alone.
LEMMA SettleImplements ==
  ASSUME NEW r \in Requests, Facing(r),
         CoolDown(r) \/ BlockProvider(r) \/ DropProvider(r)
  PROVE  Promise!Fail(r, cur[r])
<1>1. /\ pc[r] = "settle" /\ outcome[r] # "ok" /\ pc'[r] = "select" /\ list' = list
      /\ cur'[r] = 0 /\ outcome'[r] = "none"
      /\ \/ FilterProvider(r)
         \/ FilterEntry(r) /\ Prov(r) \notin Remote
  BY DEF Facing, RequestsTyped, CoolDown, BlockProvider, DropProvider, Goto
<1>2. StageOf(r) = "calling" /\ StageOf(r)' = "choosing"
  BY <1>1, StagesByPlace, StagesByPlaceNext DEF Choosing
<1>3. cur[r] \in left[r]
  BY <1>1 DEF Facing, Sound, RequestOK, LoopOK, Selected
<1>4. \/ Promise!DropProvider(r, cur[r])
      \/ list[r][cur[r]][1] \notin Remote /\ Promise!DropEntry(r, cur[r])
  BY <1>1, Drops DEF Facing, Prov, Entry
<1> QED
  BY <1>2, <1>3, <1>4, StandsAtNext, Moves DEF Facing, Promise!Fail, Promise!Enter

LEMMA StepImplements ==
  ASSUME NEW r \in Requests, Facing(r),
         (\E model \in Asked : Resolve(r, model)) \/ Step(r) \/ StreamEnds(r)
  PROVE  [Promise!Next]_(Promise!vars)
<1> DEFINE AtOne == \E i \in left[r] : \/ Promise!PassOver(r, i) \/ Promise!NoSlot(r, i)
                                       \/ Promise!Call(r, i) \/ Promise!Fail(r, i)
<1>1. AtOne \/ Promise!Answer(r) \/ Promise!Refuse(r) => Promise!Next
  BY DEF Promise!Next
<1>2. CASE \E model \in Asked : Resolve(r, model)
  BY <1>2, ResolveImplements
<1>3. CASE GiveUp(r) \/ Succeed(r) \/ \E answer \in Answers(r) : Return(r, answer)
  BY <1>1, <1>3, GiveUpImplements, SucceedImplements, ReturnImplements
<1>4. CASE \/ Select(r) \/ RecordProvider(r) \/ PinTracker(r)
           \/ ReleaseProvider(r) \/ ReleaseModel(r) \/ StreamEnds(r)
  BY <1>4, SelectImplements, StayImplements
<1>5. ASSUME \/ Promise!PassOver(r, cur[r]) \/ Promise!NoSlot(r, cur[r])
             \/ Promise!Call(r, cur[r]) \/ Promise!Fail(r, cur[r])
      PROVE  AtOne
  <2>1. cur[r] \in left[r]
    BY <1>5 DEF Promise!PassOver, Promise!NoSlot, Promise!Call, Promise!Fail, Promise!IsNext
  <2> QED
    BY <1>5, <2>1
<1>6. CASE CheckState(r) \/ CheckCooldown(r) \/ RecordModel(r) \/ SetExhausted(r)
  BY <1>1, <1>5, <1>6, SelectionImplements
<1>7. CASE AcquireProvider(r) \/ AcquireModel(r) \/ Undo(r)
  BY <1>1, <1>5, <1>7, AcquireImplements
<1>8. CASE CoolDown(r) \/ BlockProvider(r) \/ DropProvider(r)
  BY <1>1, <1>5, <1>8, SettleImplements
<1> QED
  BY <1>2, <1>3, <1>4, <1>6, <1>7, <1>8 DEF Step

\* Whatever trackers, slots, quotas, sanctions and reloads do, a request goes
\* through its entries the way Failover says: in their order, without those that
\* failures have dropped, until an answer or the end of a round that has passed
\* over all that is left (router.go:104-134, 188-268, 271-389).
THEOREM RouterRefinement == Spec => ImplementsFailover
<1>1. Init => Promise!Init
  <2> SUFFICES ASSUME Init PROVE Promise!Init
    OBVIOUS
  <2>1. \A r \in Requests : StageOf(r) = "waiting"
    BY StagesByPlace DEF Init
  <2>2. \A r \in Requests : PassedBy(r) = {}
    BY DEF Init, PassedBy
  <2>3. Stages = [r \in Requests |-> "waiting"] /\ Passed = [r \in Requests |-> {}]
    BY <2>1, <2>2 DEF Stages, Passed
  <2> QED
    BY <2>3 DEF Init, Promise!Init
<1>2. RefinementIInv /\ RefinementIInv' /\ [Next]_vars => [Promise!Next]_(Promise!vars)
  <2> SUFFICES ASSUME RefinementIInv, RefinementIInv', [Next]_vars
               PROVE  [Promise!Next]_(Promise!vars)
    OBVIOUS
  <2>1. /\ RequestsTyped /\ Placed /\ SlotsTyped /\ HistoryTyped
        /\ \A r \in Requests : Sound(r)
    BY AllSound
  <2>2. RequestsTyped' /\ \A r \in Requests : Sound(r)'
    BY DEF RefinementIInv, RouterIInv, IInv, SlotIInv, FallThroughIInv, FallThroughOK,
           RequestOK, RoundsOK, Sound
  <2>3. ASSUME NEW r \in Requests,
               (\E model \in Asked : Resolve(r, model)) \/ Step(r) \/ StreamEnds(r)
        PROVE  [Promise!Next]_(Promise!vars)
    <3>1. \A q \in Requests \ {r} : Same(q)
      BY <2>1, <2>3, OthersSame
    <3>2. Facing(r)
      BY <2>1, <2>2, <3>1 DEF Facing
    <3> QED
      BY <2>3, <3>2, StepImplements
  <2>4. CASE \/ Update \/ Tick \/ AllDone \/ UNCHANGED vars
             \/ \E r \in Leavers : Disconnect(r)
             \/ \E p \in Flaky : HealthChanges(p)
    <3>1. \A q \in Requests : Same(q)
      BY <2>4, RestSame
    <3> QED
      BY <2>1, <2>2, <3>1, NobodyMoves
  <2> QED
    BY <2>3, <2>4 DEF Next
<1> QED
  BY <1>1, <1>2, Rounds, PTL DEF Spec, ImplementsFailover, Promise!Spec
===============================================================================
