------------------------------- MODULE Discovery -------------------------------
(***************************************************************************)
(* How a configuration comes into being where there is none: runDiscovery  *)
(* (cmd/localrouter/main.go) and internal/discovery.  The providers whose  *)
(* key is in the environment are asked for their models one after the      *)
(* other, then every address of the local networks is asked whether a      *)
(* LocalRouter answers there, and a file is written from what was found.   *)
(* With -discover the program then ends, otherwise it loads the file and   *)
(* goes on.  All of this shares one deadline, which may pass at any time.  *)
(*                                                                         *)
(* Files are those of module Config.  Networks and hosts are numbers; the  *)
(* limits, keys and endpoints that are written say nothing here.           *)
(***************************************************************************)
EXTENDS Config

CONSTANTS
    Known,      \* envProviders: sequence of [id, asked], asked: has an endpoint
    Answers,    \* the lists of models that somebody may answer with
    Plans,      \* sequences of networks: that of each address of this machine
    Hosts       \* hosts 1..Hosts are probed in each network (254 in the code)

\* No two providers of the table have one id, and no instance has that of a
\* provider.
ASSUME IdsAssumption ==
    /\ Hosts \in 1..999 /\ Plans \subseteq Seq(Nat \ {0})
    /\ Known \in Seq([id : 1..999, asked : BOOLEAN]) /\ UniqueIds(Known)

ASSUME AnswersAssumption == Answers \subseteq Seq(Nat)

VARIABLES
    pc,           \* "env", "fetch", "scan", "write", "load", "serving",
                  \*   "generated" or "failed"
    flag,         \* started with -discover
    networked,    \* ... and -network-discover, or without a file
    keys,         \* the providers whose key is in the environment
    networks,     \* the network of each address of this machine
    late,         \* the deadline has passed
    row,          \* how many rows of the table have been looked up
    todo,         \* providers not asked yet
    fetched,      \* sequence of [id, models]
    address,      \* the address whose network is scanned
    host,         \* the last host that was probed
    partial,      \* what the current scan has found: sequence of [id, models]
    instances,    \* what the scans before have found
    file,         \* what was written, NoFile until then
    answered      \* history: the ids that have answered a probe

given == <<flag, networked, keys, networks>>
asking == <<row, todo, fetched>>
scanning == <<address, host, partial, instances, answered>>
vars == <<pc, given, late, asking, scanning, file>>

NoFile == [wellFormed |-> FALSE]

\* main.go: discovery is asked for, or there is no file.
Init ==
    /\ pc = "env"
    /\ flag \in BOOLEAN
    /\ networked \in BOOLEAN /\ (flag \/ networked)
    /\ keys \in SUBSET Range(Known)
    /\ networks \in Plans
    /\ late = FALSE
    /\ row = 0 /\ todo = <<>> /\ fetched = <<>>
    /\ address = 1 /\ host = 0 /\ partial = <<>> /\ instances = <<>>
    /\ file = NoFile
    /\ answered = {}

\* DiscoverFromEnv, row by row: is the key of the provider set?
LookUp ==
    /\ pc = "env" /\ row < Len(Known)
    /\ row' = row + 1
    /\ todo' = IF Known[row'] \in keys THEN Append(todo, Known[row']) ELSE todo
    /\ UNCHANGED <<pc, given, late, fetched, scanning, file>>

LookedUp ==
    /\ pc = "env" /\ row = Len(Known)
    /\ pc' = "fetch"
    /\ UNCHANGED <<given, late, asking, scanning, file>>

\* A provider without an endpoint is not asked.
FetchModels ==
    /\ pc = "fetch" /\ todo # <<>>
    /\ Head(todo).asked => ~late
    /\ \E models \in IF Head(todo).asked THEN Answers ELSE {<<>>} :
        fetched' = Append(fetched, [id |-> Head(todo).id, models |-> models])
    /\ todo' = Tail(todo)
    /\ UNCHANGED <<pc, given, late, row, scanning, file>>

\* One provider that does not answer, or not in time, and all is given up.
FetchFails ==
    /\ pc = "fetch" /\ todo # <<>>
    /\ Head(todo).asked
    /\ pc' = "failed"
    /\ UNCHANGED <<given, late, asking, scanning, file>>

ModelsFetched ==
    /\ pc = "fetch" /\ todo = <<>>
    /\ pc' = IF networked THEN "scan" ELSE "write"
    /\ UNCHANGED <<given, late, asking, scanning, file>>

-----------------------------------------------------------------------------
(* The scan of the local networks *)

\* The id of an instance comes from its address.
InstanceId(network, h) == 1000 * network + h

Probe ==
    /\ pc = "scan" /\ address \in DOMAIN networks /\ host < Hosts
    /\ ~late
    /\ host' = host + 1
    /\ LET id == InstanceId(networks[address], host')
       IN  \/ \E models \in Answers :
                /\ partial' = Append(partial, [id |-> id, models |-> models])
                /\ answered' = answered \cup {id}
           \/ UNCHANGED <<partial, answered>>
    /\ UNCHANGED <<pc, given, late, asking, address, instances, file>>

NextAddress == address' = address + 1 /\ host' = 0 /\ partial' = <<>>

\* Mutant: the scan of a network forgets what the networks before had.
ScannedLast ==
    /\ pc = "scan" /\ address \in DOMAIN networks /\ host = Hosts
    /\ instances' = partial
    /\ NextAddress
    /\ UNCHANGED <<pc, given, late, asking, answered, file>>

\* Mutant: the next scan goes on with the list of this one.
ScannedNoReset ==
    /\ pc = "scan" /\ address \in DOMAIN networks /\ host = Hosts
    /\ instances' = instances \o partial
    /\ address' = address + 1 /\ host' = 0
    /\ UNCHANGED <<pc, given, late, asking, partial, answered, file>>

Scanned ==
    /\ pc = "scan" /\ address \in DOMAIN networks /\ host = Hosts
    /\ instances' = instances \o partial
    /\ NextAddress
    /\ UNCHANGED <<pc, given, late, asking, answered, file>>

\* A scan that is cut short is an error, and what it has found is dropped.
ScanCut ==
    /\ pc = "scan" /\ address \in DOMAIN networks /\ host < Hosts
    /\ late
    /\ NextAddress
    /\ UNCHANGED <<pc, given, late, asking, instances, answered, file>>

AllScanned ==
    /\ pc = "scan" /\ address \notin DOMAIN networks
    /\ pc' = "write"
    /\ UNCHANGED <<given, late, asking, scanning, file>>

-----------------------------------------------------------------------------
(* The file *)

FirstModel(providers) ==
    IF providers = <<>> \/ Head(providers).models = <<>> THEN NoModel
    ELSE Head(Head(providers).models)

\* That of the first provider, or else that of the first instance.
DefaultModel ==
    IF FirstModel(fetched) # NoModel THEN FirstModel(fetched) ELSE FirstModel(instances)

\* Every key that is written is in the environment, and no model has a priority.
\* AddNetworkInstance puts the instances among the providers.
Generated(providers) ==
    [wellFormed |-> TRUE, version |-> 2, default |-> DefaultModel,
     providers |-> [i \in DOMAIN providers |->
        [id |-> providers[i].id, keyMissing |-> FALSE,
         models |-> [j \in DOMAIN providers[i].models |->
            [id |-> providers[i].models[j], priority |-> 0]]]],
     local |-> <<>>, remote |-> <<>>]

Write ==
    /\ pc = "write"
    /\ fetched \o instances # <<>>
    /\ file' = Generated(fetched \o instances)
    /\ pc' = IF flag THEN "generated" ELSE "load"
    /\ UNCHANGED <<given, late, asking, scanning>>

NothingFound ==
    /\ pc = "write"
    /\ fetched \o instances = <<>>
    /\ pc' = "failed"
    /\ UNCHANGED <<given, late, asking, scanning, file>>

LoadConfig ==
    /\ pc = "load"
    /\ pc' = IF Loads(file) THEN "serving" ELSE "failed"
    /\ UNCHANGED <<given, late, asking, scanning, file>>

Deadline ==
    /\ pc \in {"env", "fetch", "scan"}
    /\ ~late
    /\ late' = TRUE
    /\ UNCHANGED <<pc, given, asking, scanning, file>>

Ended == pc \in {"generated", "serving", "failed"} /\ UNCHANGED vars

Next ==
    \/ LookUp \/ LookedUp \/ FetchModels \/ FetchFails \/ ModelsFetched
    \/ Probe \/ Scanned \/ ScanCut \/ AllScanned
    \/ Write \/ NothingFound \/ LoadConfig
    \/ Deadline \/ Ended

Spec == Init /\ [][Next]_vars

-----------------------------------------------------------------------------
(* Properties *)

\* What was generated can be loaded: where no two addresses of this machine
\* are in one network, validate accepts the file, its default model included,
\* whatever was found and whenever the deadline passed (GenerateConfigFromEnv,
\* GenerateConfigFromDiscovery, Load).
GeneratedLoads == file # NoFile /\ IsInjective(networks) => Loads(file)

\* Nothing that was found is lost on the way to the file: unless the deadline
\* has passed, every provider with a key and every instance that answered is in
\* it (DiscoverModelsForProviders, DiscoverLocalRouters).
NothingMissed ==
    file # NoFile /\ ~late =>
        LET written == Range(Ids(file.providers))
        IN  {p.id : p \in keys} \cup answered = written

-----------------------------------------------------------------------------
(* The inductive invariant *)

Found == [id : Nat, models : Seq(Nat)]

TypeOK ==
    /\ pc \in {"env", "fetch", "scan", "write", "load", "serving", "generated", "failed"}
    /\ flag \in BOOLEAN /\ networked \in BOOLEAN /\ late \in BOOLEAN
    /\ keys \in SUBSET Range(Known)
    /\ networks \in Plans
    /\ row \in 0..Len(Known)
    /\ todo \in Seq(Range(Known))
    /\ address \in Nat \ {0} /\ host \in 0..Hosts
    /\ fetched \in Seq(Found) /\ partial \in Seq(Found) /\ instances \in Seq(Found)

\* The providers that have been asked or are to be: those with a key among the
\* rows that have been looked up, each once.
Queue == Ids(fetched) \o Ids(todo)

KeysQueued ==
    /\ IsInjective(Queue)
    /\ Range(Queue) = {Known[i].id : i \in {k \in 1..row : Known[k] \in keys}}
    /\ pc # "env" => row = Len(Known)
    /\ pc \notin {"env", "fetch", "failed"} => todo = <<>>

\* An instance comes from a host of a network that is scanned, the present one
\* or one before.
Scan(a) == {InstanceId(networks[a], h) : h \in 1..Hosts}

InstancesScanned ==
    /\ partial # <<>> => pc = "scan" /\ address \in DOMAIN networks
    /\ \A i \in DOMAIN partial :
         \E h \in 1..host : partial[i].id = InstanceId(networks[address], h)
    /\ \A i \in DOMAIN instances :
         \E a \in DOMAIN networks : a < address /\ instances[i].id \in Scan(a)

\* No host answers twice, and no network is scanned twice if the plan does not
\* say so.
InstancesOnce ==
    /\ UniqueIds(partial)
    /\ IsInjective(networks) => UniqueIds(instances)

InstancesKept == ~late => answered = Range(Ids(instances)) \cup Range(Ids(partial))

FileWritten ==
    file # NoFile =>
        /\ pc \in {"load", "generated", "serving", "failed"}
        /\ todo = <<>>
        /\ file = Generated(fetched \o instances)
        /\ fetched \o instances # <<>>

DiscoveryIInv ==
    TypeOK /\ KeysQueued /\ InstancesScanned /\ InstancesOnce /\ InstancesKept /\ FileWritten

=============================================================================
