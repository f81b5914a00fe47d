------------------------------- MODULE Registry -------------------------------
(***************************************************************************)
(* registry.Registry (internal/registry/registry.go): which providers can  *)
(* serve a model, and in which order.  A registry holds the entries that   *)
(* name a model (all), the providers that accept any model (any), and the  *)
(* providers whose models have been discovered (injected).                 *)
(*                                                                         *)
(* The lists are sorted by priority, provider and model.  EntryLess tells  *)
(* any two entries apart, so a list is the set of its entries.  The maps   *)
(* byModel and byProvider are made from all whenever it changes; here they *)
(* are selections from it.                                                 *)
(***************************************************************************)
EXTENDS Config

Entry(provider, model, priority, isRemote, isDiscovered) ==
    [provider |-> provider, model |-> model, priority |-> priority,
     remote |-> isRemote, discovered |-> isDiscovered]

EntryLess(a, b) ==
    \/ a.priority < b.priority
    \/ a.priority = b.priority /\ a.provider < b.provider
    \/ a.priority = b.priority /\ a.provider = b.provider /\ a.model < b.model

\* How many entries of either kind the providers before the i-th one make.
EntriesBefore(c, i) ==
    MapThenSumSet(LAMBDA k : Max({1, Len(c.providers[k].models)}),
                  {k \in Used(c) : k < i})

EntriesOf(p) == {Entry(p.id, m.id, m.priority, p.remote, FALSE) : m \in Range(p.models)}

AnyOf(c, i) == [provider |-> c.providers[i].id, priority |-> EntriesBefore(c, i) + 1,
                remote |-> c.providers[i].remote]

Build(c) ==
    [all |-> UNION {EntriesOf(c.providers[i]) : i \in Used(c)},
     any |-> {AnyOf(c, i) : i \in {k \in Used(c) : c.providers[k].models = <<>>}},
     injected |-> {}]

\* byModel[m]
ByModel(r, m) == {e \in r.all : e.model = m}

AsEntry(a, m) == Entry(a.provider, m, a.priority, a.remote, FALSE)

\* Mutant: a provider that accepts any model is listed beside its own entry.
ForModelBoth(r, m) == ByModel(r, m) \cup {AsEntry(a, m) : a \in r.any}

\* Mutant: a provider whose models are known serves no other model.
ForModelKnownOnly(r, m) ==
    ByModel(r, m) \cup {AsEntry(a, m) : a \in {x \in r.any : x.provider \notin r.injected}}

\* ForModel: the entries that name the model and the providers that accept any,
\* except those that discovery has given an entry of that model.
ForModel(r, m) ==
    LET already(a) == /\ a.provider \in r.injected
                      /\ \E e \in ByModel(r, m) : e.provider = a.provider
    IN ByModel(r, m) \cup {AsEntry(a, m) : a \in {x \in r.any : ~already(x)}}

AnyModel(r, p) == {a \in r.any : a.provider = p}

\* The entries of a provider that the configuration made.
Configured(r, p) == {e \in r.all : e.provider = p /\ ~e.discovered}

\* Mutant: the discovered entries of others count as well.
BasePriorityOverAll(r, p) ==
    IF AnyModel(r, p) # {} THEN Max({a.priority : a \in AnyModel(r, p)})
    ELSE 1 + Max({0} \cup {e.priority : e \in r.all})

\* Mutant: only the provider's own entries count.
BasePriorityOverOwn(r, p) ==
    IF AnyModel(r, p) # {} THEN Max({a.priority : a \in AnyModel(r, p)})
    ELSE 1 + Max({0} \cup {e.priority : e \in Configured(r, p)})

\* Where the discovered entries of a provider begin.
BasePriority(r, p) ==
    IF AnyModel(r, p) # {} THEN Max({a.priority : a \in AnyModel(r, p)})
    ELSE 1 + Max({0} \cup {e.priority : e \in {x \in r.all : ~x.discovered}})

\* What the configuration says of the provider.
Known(r, p) == AnyModel(r, p) \cup Configured(r, p)

\* The places of the models in the list that the configuration does not name.
Fresh(r, p, models) ==
    {i \in DOMAIN models : \A e \in Configured(r, p) : e.model # models[i]}

\* They become entries, in their order from the base priority on.
FreshEntries(r, p, models) ==
    LET fresh == Fresh(r, p, models)
        place(i) == BasePriority(r, p) + Cardinality({k \in fresh : k < i})
    IN {Entry(p, models[i], place(i), \E x \in Known(r, p) : x.remote, TRUE) : i \in fresh}

\* SetDiscoveredModels; a provider that the registry does not know changes
\* nothing.
SetDiscoveredModels(r, p, models) ==
    LET kept == {e \in r.all : ~(e.provider = p /\ e.discovered)}
    IN IF Known(r, p) = {} THEN r
       ELSE [all |-> kept \cup FreshEntries(r, p, models),
             any |-> r.any,
             injected |-> r.injected \cup {p}]

Providers(entries) == {e.provider : e \in entries}

=============================================================================
