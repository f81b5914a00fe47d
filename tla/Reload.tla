-------------------------------- MODULE Reload --------------------------------
(***************************************************************************)
(* config.Watcher (internal/config/watcher.go), the callback of main.go    *)
(* (146-188) that installs what it has read, and the discovery of models   *)
(* at startup (main.go 317-339), with the registry that requests are       *)
(* routed by.                                                              *)
(*                                                                         *)
(* Two goroutines call reload(): one for file events, one for a ticker.    *)
(* Each reads the file, swaps w.current under w.mu, and runs the callback  *)
(* without a lock; so the callbacks interleave node by node, and may       *)
(* install what they have read in the opposite order.  Discovery works on  *)
(* the registry of the start, whether or not it is still in use.           *)
(*                                                                         *)
(* A configuration is known by the name of the file content it was loaded  *)
(* from.  Limiters and recovery windows, which the callback makes anew as  *)
(* well, are the business of module Router (its action Update).            *)
(***************************************************************************)
EXTENDS Registry

CONSTANTS
    Files,      \* name -> content of config.yaml
    Listers,    \* the providers whose adapter can list its models
    Answers,    \* the lists of models that they may return
    MaxEdits    \* bound on the edits of the file

ASSUME MaxEditsAssumption == MaxEdits \in Nat

Names == DOMAIN Files

ASSUME FilesAssumption == \A f \in Names : IsFile(Files[f])

ASSUME AnswersAssumption == Answers \subseteq Seq(Int)

\* Those that Load accepts, and what it makes of them.
Valid == {f \in Names : Loads(Files[f])}
Configs == [f \in Valid |-> Load(Files[f])]

ASSUME ValidAssumption == Valid # {}

\* watchLoop and periodicRefresh
Reloaders == {"events", "ticker"}

VARIABLES
    file,       \* the content of config.yaml
    edits,      \* how often it was edited
    raised,     \* the file system holds an event for watchLoop
    timer,      \* the debounce timer is running
    notified,   \* the channel reload of watchLoop is full
    current,    \* w.current
    reading,    \* reloader -> what it has loaded and not yet swapped in, or ""
    plan,       \* reloader -> the steps of the callback that are still to come
    monitored,  \* the nodes of health.Monitor
    installed,  \* the configuration of the router
    updated,    \* the router was given a registry by a reload
    boot,       \* the configuration of the start; it does not change
    startup,    \* the registry that was built from it, and discovery adds to
    asked,      \* the providers whose models are being listed
    discovered  \* history: provider -> the list it returned

watch == <<raised, timer, notified>>
discovery == <<boot, startup, asked, discovered>>
vars == <<file, edits, watch, current, reading, plan, monitored, installed,
          updated, discovery>>

ActiveIds(f) == Ids(Active(Configs[f]))
AllIds(f) == Ids(Configs[f].providers)      \* providerIDSet: the skipped ones too

\* The registry that requests are routed by.
Routing == IF updated THEN Build(Configs[installed]) ELSE startup

Init ==
    /\ file \in Valid
    /\ edits = 0
    /\ raised = FALSE /\ timer = FALSE /\ notified = FALSE
    /\ boot = file
    /\ current = file
    /\ reading = [w \in Reloaders |-> ""]
    /\ plan = [w \in Reloaders |-> <<>>]
    /\ monitored = Range(ActiveIds(file))
    /\ installed = file
    /\ updated = FALSE
    /\ startup = Build(Configs[file])
    /\ asked = Range(ActiveIds(file)) \cap Listers
    /\ discovered = <<>>

-----------------------------------------------------------------------------
(* The file and its events (watcher.go 41-82) *)

\* The event may be lost: the watch is on the file, and an editor that writes a
\* new file in its place ends it.  Several events are one to the loop.
Edit(f) ==
    /\ edits < MaxEdits
    /\ edits' = edits + 1
    /\ file' = f
    /\ raised' \in {raised, TRUE}
    /\ UNCHANGED <<timer, notified, current, reading, plan, monitored, installed,
                   updated, discovery>>

Idle(w) == reading[w] = "" /\ plan[w] = <<>>

\* watchLoop arms the debounce timer anew.
Notice ==
    /\ Idle("events")
    /\ raised
    /\ raised' = FALSE
    /\ timer' = TRUE
    /\ UNCHANGED <<file, edits, notified, current, reading, plan, monitored,
                   installed, updated, discovery>>

\* The timer has run for 100 ms: one token, which waits if there is one.
Fire ==
    /\ timer
    /\ timer' = FALSE
    /\ notified' = TRUE
    /\ UNCHANGED <<file, edits, raised, current, reading, plan, monitored,
                   installed, updated, discovery>>

-----------------------------------------------------------------------------
(* reload (watcher.go 97-111) *)

\* What starts a reload: the token, or a tick, at any time.
Due(w) ==
    /\ Idle(w)
    /\ IF w = "events" THEN notified /\ notified' = FALSE ELSE UNCHANGED notified

\* Load; a file that does not load is passed over.
Read(w) ==
    /\ Due(w)
    /\ reading' = IF file \in Valid THEN [reading EXCEPT ![w] = file] ELSE reading
    /\ UNCHANGED <<file, edits, raised, timer, current, plan, monitored, installed,
                   updated, discovery>>

Step(op, ids) == [i \in DOMAIN ids |-> [op |-> op, id |-> ids[i]]]

\* The ids of the first list that are not in the second.
Missing(ids, others) == MembersAt(ids, {i \in DOMAIN ids : ids[i] \notin Range(others)})

\* Mutant: buildProviders leaves the monitor alone.
CallbackNewOnly(old, new) ==
    Step("add", Missing(ActiveIds(new), AllIds(old)))
    \o Step("remove", Missing(AllIds(old), AllIds(new)))
    \o << [op |-> "install", config |-> new] >>

\* The callback: buildProviders adds every provider to the monitor, the
\* callback adds the new ones and removes those that are gone, and installs.
Callback(old, new) ==
    Step("add", ActiveIds(new))
    \o Step("add", Missing(ActiveIds(new), AllIds(old)))
    \o Step("remove", Missing(AllIds(old), AllIds(new)))
    \o << [op |-> "install", config |-> new] >>

\* Mutant: what has not changed is not installed again.
SwapIfChanged(w) ==
    /\ reading[w] # ""
    /\ current' = reading[w]
    /\ reading' = [reading EXCEPT ![w] = ""]
    /\ plan' = [plan EXCEPT ![w] = IF current = reading[w] THEN <<>>
                                   ELSE Callback(current, reading[w])]
    /\ UNCHANGED <<file, edits, watch, monitored, installed, updated, discovery>>

\* The critical section of w.mu: the old configuration is the one that the
\* callback will compare with.
Swap(w) ==
    /\ reading[w] # ""
    /\ current' = reading[w]
    /\ reading' = [reading EXCEPT ![w] = ""]
    /\ plan' = [plan EXCEPT ![w] = Callback(current, reading[w])]
    /\ UNCHANGED <<file, edits, watch, monitored, installed, updated, discovery>>

Ready(w, op) == plan[w] # <<>> /\ Head(plan[w]).op = op

Advance(w) == plan' = [plan EXCEPT ![w] = Tail(@)]

\* mon.AddNode: a node that is monitored keeps its worker.
AddNode(w) ==
    /\ Ready(w, "add")
    /\ monitored' = monitored \cup {Head(plan[w]).id}
    /\ Advance(w)
    /\ UNCHANGED <<file, edits, watch, current, reading, installed, updated, discovery>>

\* mon.RemoveNode
RemoveNode(w) ==
    /\ Ready(w, "remove")
    /\ monitored' = monitored \ {Head(plan[w]).id}
    /\ Advance(w)
    /\ UNCHANGED <<file, edits, watch, current, reading, installed, updated, discovery>>

\* r.Update with a registry that is built from the configuration alone.
Install(w) ==
    /\ Ready(w, "install")
    /\ installed' = Head(plan[w]).config
    /\ updated' = TRUE
    /\ Advance(w)
    /\ UNCHANGED <<file, edits, watch, current, reading, monitored, discovery>>

-----------------------------------------------------------------------------
(* discoverModels (main.go 317-339) *)

\* A provider lists its models.
Discover(p, models) ==
    /\ p \in asked
    /\ asked' = asked \ {p}
    /\ startup' = SetDiscoveredModels(startup, p, models)
    /\ discovered' = [q \in DOMAIN discovered \cup {p} |->
                        IF q = p THEN models ELSE discovered[q]]
    /\ UNCHANGED <<file, edits, watch, current, reading, plan, monitored, installed,
                   updated, boot>>

\* It does not: an error, or no answer within ten seconds.
DiscoverFails(p) ==
    /\ p \in asked
    /\ asked' = asked \ {p}
    /\ UNCHANGED <<file, edits, watch, current, reading, plan, monitored, installed,
                   updated, boot, startup, discovered>>

CallbackStep(w) == AddNode(w) \/ RemoveNode(w) \/ Install(w)

Reload(w) == Read(w) \/ Swap(w) \/ CallbackStep(w)

Next ==
    \/ \E f \in Names : Edit(f)
    \/ Notice \/ Fire
    \/ \E w \in Reloaders : Reload(w)
    \/ \E p \in asked : DiscoverFails(p) \/ \E models \in Answers : Discover(p, models)

\* The goroutines run, the timer fires, and the ticker ticks again; an event of
\* the file system need not ever come.
Fairness ==
    /\ WF_vars(Fire)
    /\ \A w \in Reloaders : WF_vars(Read(w)) /\ WF_vars(Swap(w)) /\ WF_vars(CallbackStep(w))

Spec == Init /\ [][Next]_vars /\ Fairness

-----------------------------------------------------------------------------
(* Properties *)

\* Whatever the order in which the providers answered, the registry is the one
\* in which each was merged into the configuration alone
\* (SetDiscoveredModels, registry.go:264-364, called from several goroutines).
OrderIrrelevant ==
    LET configured == Build(Configs[boot])
    IN startup.all = configured.all \cup
         UNION {SetDiscoveredModels(configured, p, discovered[p]).all : p \in DOMAIN discovered}

\* What a provider with a list of models offers beyond it comes after every
\* entry of the configuration (registry.go:288-309); not so for a provider
\* without a list, whose place among the others is its own.
DiscoveredLast ==
    \A d, e \in startup.all :
        d.discovered /\ AnyModel(startup, d.provider) = {} /\ ~e.discovered =>
            EntryLess(e, d)

\* The models that a file or a provider names.
Models ==
    UNION {UNION {{m.id : m \in Range(p.models)} : p \in Range(Files[f].providers)} : f \in Names}
    \cup {Files[f].default : f \in Names} \cup UNION {Range(a) : a \in Answers}

\* A request finds no provider twice in its list: each is looked at, and charged,
\* once (ForModel, registry.go:179-192).
NoProviderTwice ==
    \A m \in Models : \A d, e \in ForModel(Routing, m) : d.provider = e.provider => d = e

\* Nobody names a model twice for a provider, neither the file nor the provider.
\* validate does not ask for it, and SetDiscoveredModels does not look at it.
NamedOnce ==
    /\ \A f \in Valid : \A i \in DOMAIN Configs[f].providers :
         \A m, n \in Range(Configs[f].providers[i].models) : m.id = n.id => m = n
    /\ \A models \in Answers : IsInjective(models)

\* Whatever has been loaded, somebody serves the default model
\* (validate, rule 5, config.go:458-478).
DefaultServed ==
    LET m == Files[installed].default
    IN m # NoModel => ForModel(Routing, m) # {}

\* Discovery never takes a model from a provider: one that accepts any model
\* accepts those too that it does not list (registry.go:179-192).
NeverUnserved ==
    [][\A m \in Models :
         Providers(ForModel(startup, m)) \subseteq Providers(ForModel(startup', m))]_startup

\* When the file is left alone and loads, the router ends up with it, although
\* events are lost and callbacks overtake one another
\* (periodicRefresh, watcher.go:84-95).
Converges == \A f \in Valid : <>[](file = f) => <>[](installed = f)

\* In the end every provider in use is monitored, although a late callback may
\* have removed it (AddNode in buildProviders, main.go:248).
MonitorCovers == \A f \in Valid : <>[](file = f) => <>[](Range(ActiveIds(f)) \subseteq monitored)

-----------------------------------------------------------------------------
(* The inductive invariant *)

Steps == [op : {"add", "remove"}, id : Int] \cup [op : {"install"}, config : Valid]

\* What is installed, or is about to be, has been loaded; until the first reload
\* it is the configuration of the start.
TypeOK ==
    /\ file \in Names
    /\ boot \in Valid /\ current \in Valid /\ installed \in Valid
    /\ reading \in [Reloaders -> Valid \cup {""}]
    /\ plan \in [Reloaders -> Seq(Steps)]
    /\ monitored \subseteq Int
    /\ updated \in BOOLEAN /\ (~updated => installed = boot)
    /\ \A p \in DOMAIN discovered : discovered[p] \in Answers

\* The registry of the start is what the configuration makes of it and the lists
\* that have come in, each from a provider that is asked no more.
Merged ==
    /\ startup.any = Build(Configs[boot]).any
    /\ startup.injected = {p \in DOMAIN discovered : Known(Build(Configs[boot]), p) # {}}
    /\ DOMAIN discovered \cap asked = {}
    /\ OrderIrrelevant

ReloadIInv == TypeOK /\ Merged

=============================================================================
