-------------------------------- MODULE Config --------------------------------
(***************************************************************************)
(* config.Load (internal/config/config.go): what becomes of the content of *)
(* config.yaml.  There are two schemas.  In the older one providers name   *)
(* their models, with priorities that may be missing, and a provider whose *)
(* key expands to nothing is skipped.  In the newer one, sections local    *)
(* and remote, providers name no models and accept every model.            *)
(*                                                                         *)
(* A file is a record                                                      *)
(*   wellFormed  it can be read and parsed, types, endpoints, durations    *)
(*               and limits included                                       *)
(*   version, default (0: no default model)                                *)
(*   providers   sequence of [id, keyMissing, models], models being a      *)
(*               sequence of [id, priority]                                *)
(*   local, remote   sequences of ids                                      *)
(* Ids are numbers, in the order in which the strings are compared.  What  *)
(* is only handed on (endpoints, timeouts, keys) is left out.              *)
(***************************************************************************)
EXTENDS Integers, Sequences, FiniteSets, SequencesExt, FiniteSetsExt, Functions

NoModel == 0

ModelSpecs == [id : Int, priority : Int]

\* Ids and priorities are numbers, and the lists are finite.
IsFile(f) ==
    /\ f.providers \in Seq([id : Int, keyMissing : BOOLEAN, models : Seq(ModelSpecs)])
    /\ f.local \in Seq(Int) /\ f.remote \in Seq(Int)

\* isNewSchema
IsNewSchema(f) == f.local # <<>> \/ f.remote # <<>>

ProviderConfigs ==
    [id : Int, models : Seq(ModelSpecs), skipped : BOOLEAN, remote : BOOLEAN]

ProviderConfig(id, models, skipped, isRemote) ==
    [id |-> id, models |-> models, skipped |-> skipped, remote |-> isRemote]

\* A section of the newer schema, provider by provider.
Section(ids, isRemote) ==
    [i \in DOMAIN ids |-> ProviderConfig(ids[i], <<>>, FALSE, isRemote)]

\* The flat list.  In the older schema a provider is skipped when its key was
\* written down and expands to nothing; no provider of that list is remote.
FlatList(f) ==
    [i \in DOMAIN f.providers |->
        ProviderConfig(f.providers[i].id, f.providers[i].models,
                       ~IsNewSchema(f) /\ f.providers[i].keyMissing, FALSE)]

\* normaliseNewSchema appends both sections to the flat list.
NormaliseNewSchema(f) == FlatList(f) \o Section(f.local, FALSE) \o Section(f.remote, TRUE)

\* The largest priority that is written down, 0 if there is none.
MaxPriority(ps) ==
    Max({0} \cup UNION {{m.priority : m \in Range(ps[i].models)} : i \in DOMAIN ps})

\* The models of the providers before the i-th one, provider by provider.
ModelsBefore(ps, i) == UNION {{k} \X DOMAIN ps[k].models : k \in 1..(i - 1)}

\* The place of a model among all models of the file: the counter advances for
\* every model, with a priority or without.
Place(ps, i, j) == j + Cardinality(ModelsBefore(ps, i))

FillPriorities(ps) ==
    [i \in DOMAIN ps |-> [ps[i] EXCEPT !.models =
        [j \in DOMAIN ps[i].models |->
            IF ps[i].models[j].priority > 0 THEN ps[i].models[j]
            ELSE [ps[i].models[j] EXCEPT !.priority = MaxPriority(ps) + Place(ps, i, j)]]]]

UniqueIds(ps) == \A i, j \in DOMAIN ps : ps[i].id = ps[j].id => i = j

Offered(p, m) == \E k \in DOMAIN p.models : p.models[k].id = m

\* Mutant: the default model may belong to a provider that is skipped.
AcceptSkippedDefault(f, ps) ==
    /\ f.version = 2
    /\ UniqueIds(ps)
    /\ f.default = NoModel \/ \E i \in DOMAIN ps : Offered(ps[i], f.default)

\* validate.  That priorities are positive by now is fillPriorities' work.
Validate(f, ps) ==
    /\ f.version = 2
    /\ UniqueIds(ps)
    /\ f.default = NoModel
         \/ \E i \in DOMAIN ps : ~ps[i].skipped /\ Offered(ps[i], f.default)

\* validateNewSchema looks at neither version nor default.
ValidateNewSchema(ps) == UniqueIds(ps)

\* Load, in two parts: the configuration, and whether there is no error.
Load(f) ==
    [default |-> f.default,
     providers |-> IF IsNewSchema(f) THEN NormaliseNewSchema(f)
                                     ELSE FillPriorities(FlatList(f))]

Loads(f) ==
    /\ f.wellFormed
    /\ IF IsNewSchema(f) THEN ValidateNewSchema(Load(f).providers)
                         ELSE Validate(f, Load(f).providers)

-----------------------------------------------------------------------------
(* What main.go reads of a configuration *)

Ids(ps) == [i \in DOMAIN ps |-> ps[i].id]

\* The members of s at the places at, in their order.
MembersAt(s, at) ==
    [n \in 1..Cardinality(at) |->
        s[CHOOSE i \in at : Cardinality({k \in at : k <= i}) = n]]

\* The providers that are not skipped, in the order of the file.
Used(c) == {i \in DOMAIN c.providers : ~c.providers[i].skipped}
Active(c) == MembersAt(c.providers, Used(c))

=============================================================================
