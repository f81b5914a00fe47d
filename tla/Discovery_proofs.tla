--------------------------- MODULE Discovery_proofs ---------------------------
(***************************************************************************)
(* What discovery writes can be loaded, and nothing that was found is lost *)
(* on the way to the file, for any table of providers, any plan of the     *)
(* networks and any answers.                                               *)
(*                                                                         *)
(* The argument follows the ids.  Those of the providers go from the table *)
(* to the queue of what is to be asked and from there to the file, each    *)
(* once; those of the instances say which host of which network answered,  *)
(* and a plan that names no network twice has no host scanned twice.       *)
(***************************************************************************)
EXTENDS Discovery, SequenceTheorems, TLAPS

-----------------------------------------------------------------------------
(* Sequences and their ids *)

\* One more element that was not there.
LEMMA OneMoreElement ==
    ASSUME NEW S, NEW q \in Seq(S), NEW x \in S, IsInjective(q), x \notin Range(q)
    PROVE  IsInjective(Append(q, x)) /\ Range(Append(q, x)) = Range(q) \cup {x}
<1>1. /\ Len(Append(q, x)) = Len(q) + 1 /\ DOMAIN Append(q, x) = 1..(Len(q) + 1)
      /\ \A i \in 1..Len(q) : Append(q, x)[i] = q[i]
      /\ Append(q, x)[Len(q) + 1] = x
  OBVIOUS
<1>2. DOMAIN q = 1..Len(q) /\ Len(q) \in Nat
  OBVIOUS
<1>3. \A i \in 1..Len(q) : q[i] \in Range(q)
  BY DEF Range
<1>4. IsInjective(Append(q, x))
  BY <1>1, <1>2, <1>3 DEF IsInjective
<1>5. Range(Append(q, x)) = Range(q) \cup {x}
  <2>1. ASSUME NEW y \in Range(Append(q, x))
        PROVE  y \in Range(q) \cup {x}
    BY <1>1, <1>2, <1>3 DEF Range
  <2>2. ASSUME NEW y \in Range(q) \cup {x}
        PROVE  y \in Range(Append(q, x))
    BY <1>1, <1>2 DEF Range
  <2> QED
    BY <2>1, <2>2
<1> QED
  BY <1>4, <1>5

LEMMA IdsOf ==
    ASSUME NEW T, NEW s \in Seq(T), \A e \in T : e.id \in Nat
    PROVE  /\ Ids(s) \in Seq(Nat) /\ Len(Ids(s)) = Len(s)
           /\ \A i \in 1..Len(s) : Ids(s)[i] = s[i].id
BY DEF Ids

\* An element at the end of a sequence is an id at the end of its ids.
LEMMA IdsAppend ==
    ASSUME NEW T, NEW s \in Seq(T), NEW e \in T, \A x \in T : x.id \in Nat
    PROVE  Ids(Append(s, e)) = Append(Ids(s), e.id)
<1>1. Append(s, e) \in Seq(T) /\ Len(Append(s, e)) = Len(s) + 1
  OBVIOUS
<1>2. /\ Ids(Append(s, e)) \in Seq(Nat) /\ Len(Ids(Append(s, e))) = Len(s) + 1
      /\ \A i \in 1..(Len(s) + 1) : Ids(Append(s, e))[i] = Append(s, e)[i].id
  BY <1>1, IdsOf
<1>3. /\ Ids(s) \in Seq(Nat) /\ Len(Ids(s)) = Len(s)
      /\ \A i \in 1..Len(s) : Ids(s)[i] = s[i].id
  BY IdsOf
<1>4. e.id \in Nat
  OBVIOUS
<1> DEFINE left == Ids(Append(s, e))
           right == Append(Ids(s), e.id)
<1>5. /\ right \in Seq(Nat) /\ Len(right) = Len(s) + 1
      /\ \A i \in 1..Len(s) : right[i] = s[i].id
      /\ right[Len(s) + 1] = e.id
  BY <1>3, <1>4
<1>6. /\ \A i \in 1..Len(s) : left[i] = s[i].id
      /\ left[Len(s) + 1] = e.id
  BY <1>2
<1>7. \A i \in 1..(Len(s) + 1) : left[i] = right[i]
  BY <1>5, <1>6
<1> HIDE DEF right, left
<1> QED
  BY <1>2, <1>5, <1>7, SeqEqual DEF left, right

LEMMA IdsTail ==
    ASSUME NEW T, NEW s \in Seq(T), s # <<>>, \A x \in T : x.id \in Nat
    PROVE  Ids(Tail(s)) = Tail(Ids(s)) /\ Head(Ids(s)) = Head(s).id /\ Ids(s) # <<>>
<1>1. /\ Ids(s) \in Seq(Nat) /\ Len(Ids(s)) = Len(s)
      /\ \A i \in 1..Len(s) : Ids(s)[i] = s[i].id
  BY IdsOf
<1>2. Tail(s) \in Seq(T) /\ Len(Tail(s)) = Len(s) - 1
  OBVIOUS
<1>3. /\ Ids(Tail(s)) \in Seq(Nat) /\ Len(Ids(Tail(s))) = Len(s) - 1
      /\ \A i \in 1..(Len(s) - 1) : Ids(Tail(s))[i] = Tail(s)[i].id
  BY <1>2, IdsOf
<1> DEFINE left == Ids(Tail(s))
           right == Tail(Ids(s))
<1>4. Ids(s) # <<>> /\ Head(Ids(s)) = Head(s).id
  BY <1>1
<1>5. /\ right \in Seq(Nat) /\ Len(right) = Len(s) - 1
      /\ \A i \in 1..(Len(s) - 1) : right[i] = s[i + 1].id
  BY <1>1, <1>4
<1>6. \A i \in 1..(Len(s) - 1) : left[i] = right[i]
  BY <1>3, <1>5
<1> HIDE DEF right, left
<1>7. left = right
  BY <1>3, <1>5, <1>6, SeqEqual DEF left
<1> QED
  BY <1>4, <1>7 DEF left, right

\* What goes from the head of one sequence to the end of the one before it stays
\* where it is.
LEMMA Moved ==
    ASSUME NEW S, NEW q \in Seq(S), NEW r \in Seq(S), r # <<>>
    PROVE  Append(q, Head(r)) \o Tail(r) = q \o r
<1> DEFINE left == Append(q, Head(r)) \o Tail(r)
           right == q \o r
<1>1. Len(left) = Len(right) /\ left \in Seq(S) /\ right \in Seq(S)
  OBVIOUS
<1>2. \A i \in 1..Len(right) : left[i] = right[i]
  OBVIOUS
<1> QED
  BY <1>1, <1>2

LEMMA AppendLast ==
    ASSUME NEW S, NEW q \in Seq(S), NEW r \in Seq(S), NEW x \in S
    PROVE  q \o Append(r, x) = Append(q \o r, x)
<1> DEFINE left == q \o Append(r, x)
           right == Append(q \o r, x)
<1>1. Len(left) = Len(right) /\ left \in Seq(S) /\ right \in Seq(S)
  OBVIOUS
<1>2. \A i \in 1..Len(right) : left[i] = right[i]
  OBVIOUS
<1> HIDE DEF left, right
<1>3. left = right
  BY <1>1, <1>2, SeqEqual
<1> QED
  BY <1>3 DEF left, right

LEMMA RangeOfIds ==
    ASSUME NEW T, NEW s \in Seq(T)
    PROVE  Range(Ids(s)) = {s[i].id : i \in 1..Len(s)}
BY DEF Range, Ids

\* The ids are different when those of both parts are and no id is in both.
LEMMA UniqueTogether ==
    ASSUME NEW T, NEW s \in Seq(T), NEW t \in Seq(T), UniqueIds(s), UniqueIds(t),
           \A i \in 1..Len(s), j \in 1..Len(t) : s[i].id # t[j].id
    PROVE  UniqueIds(s \o t)
<1>1. /\ Len(s \o t) = Len(s) + Len(t) /\ DOMAIN (s \o t) = 1..(Len(s) + Len(t))
      /\ \A i \in 1..Len(s) : (s \o t)[i] = s[i]
      /\ \A i \in (Len(s) + 1)..(Len(s) + Len(t)) : (s \o t)[i] = t[i - Len(s)]
  OBVIOUS
<1>2. Len(s) \in Nat /\ Len(t) \in Nat /\ DOMAIN s = 1..Len(s) /\ DOMAIN t = 1..Len(t)
  OBVIOUS
<1> SUFFICES ASSUME NEW i \in 1..(Len(s) + Len(t)), NEW j \in 1..(Len(s) + Len(t)),
                    (s \o t)[i].id = (s \o t)[j].id
             PROVE  i = j
  BY <1>1 DEF UniqueIds
<1>3. CASE i <= Len(s) /\ j <= Len(s)
  BY <1>1, <1>2, <1>3 DEF UniqueIds
<1>4. CASE i > Len(s) /\ j > Len(s)
  <2>1. i - Len(s) \in DOMAIN t /\ j - Len(s) \in DOMAIN t
    BY <1>2, <1>4
  <2>2. t[i - Len(s)].id = t[j - Len(s)].id
    BY <1>1, <1>2, <1>4
  <2>3. i - Len(s) = j - Len(s)
    BY <2>1, <2>2 DEF UniqueIds
  <2> QED
    BY <1>2, <2>3
<1>5. CASE i <= Len(s) /\ j > Len(s)
  <2>1. i \in 1..Len(s) /\ j - Len(s) \in 1..Len(t)
    BY <1>2, <1>5
  <2> QED
    BY <1>1, <1>2, <1>5, <2>1
<1>6. CASE i > Len(s) /\ j <= Len(s)
  <2>1. j \in 1..Len(s) /\ i - Len(s) \in 1..Len(t)
    BY <1>2, <1>6
  <2> QED
    BY <1>1, <1>2, <1>6, <2>1
<1> QED
  BY <1>2, <1>3, <1>4, <1>5, <1>6

-----------------------------------------------------------------------------
(* Initial states and steps *)

LEMMA TableTyped ==
    /\ Known \in Seq(Range(Known)) /\ Len(Known) \in Nat /\ DOMAIN Known = 1..Len(Known)
    /\ \A i \in 1..Len(Known) : Known[i] \in Range(Known)
    /\ \A k \in Range(Known) : \E i \in 1..Len(Known) : k = Known[i]
    /\ \A e \in Range(Known) : e.id \in Nat /\ e.id <= 999
<1> DEFINE S == [id : 1..999, asked : BOOLEAN]
<1>1. Known \in Seq(S)
  BY IdsAssumption
<1>2. \A e \in S : e.id \in Nat /\ e.id <= 999
  OBVIOUS
<1> HIDE DEF S
<1>3. /\ Len(Known) \in Nat /\ DOMAIN Known = 1..Len(Known)
      /\ \A i \in 1..Len(Known) : Known[i] \in S
  BY <1>1
<1>4. \A i \in 1..Len(Known) : Known[i] \in Range(Known)
  BY <1>3 DEF Range
<1>5. \A k \in Range(Known) : \E i \in 1..Len(Known) : k = Known[i]
  BY <1>3 DEF Range
<1>6. Known \in Seq(Range(Known))
  BY <1>1, <1>4
<1> QED
  BY <1>2, <1>3, <1>4, <1>5, <1>6

LEMMA FoundTyped == \A e \in Found : e.id \in Nat
BY DEF Found

LEMMA QueueTyped ==
    ASSUME TypeOK
    PROVE  /\ Ids(fetched) \in Seq(Nat) /\ Ids(todo) \in Seq(Nat)
           /\ Queue \in Seq(Nat)
<1>1. \A e \in Range(Known) : e.id \in Nat
  BY TableTyped
<1>2. Ids(fetched) \in Seq(Nat) /\ Ids(todo) \in Seq(Nat)
  BY <1>1, FoundTyped, IdsOf DEF TypeOK
<1> QED
  BY <1>2 DEF Queue

LEMMA InitFile == Init => DiscoveryIInv
<1> SUFFICES ASSUME Init
             PROVE  DiscoveryIInv
  OBVIOUS
<1>1. TypeOK
  <2>1. Hosts \in Nat /\ Len(Known) \in Nat
    BY IdsAssumption, TableTyped
  <2>2. row \in 0..Len(Known) /\ host \in 0..Hosts /\ address \in Nat \ {0}
    BY <2>1 DEF Init
  <2>3. todo \in Seq(Range(Known)) /\ fetched \in Seq(Found)
        /\ partial \in Seq(Found) /\ instances \in Seq(Found)
    BY DEF Init
  <2>4. keys \in SUBSET Range(Known) /\ networks \in Plans
    BY DEF Init
  <2> QED
    BY <2>2, <2>3, <2>4 DEF Init, TypeOK
<1>2. KeysQueued
  <2>1. Queue = <<>>
    BY DEF Init, Queue, Ids
  <2>2. IsInjective(<<>>) /\ Range(<<>>) = {}
    BY DEF IsInjective, Range
  <2>3. {Known[i].id : i \in {k \in 1..0 : Known[k] \in keys}} = {}
    OBVIOUS
  <2> QED
    BY <2>1, <2>2, <2>3 DEF Init, KeysQueued
<1>3. InstancesScanned /\ InstancesOnce
  BY DEF Init, InstancesScanned, InstancesOnce, UniqueIds
<1>4. InstancesKept
  <2>1. Range(Ids(<<>>)) = {}
    BY DEF Ids, Range
  <2> QED
    BY <2>1 DEF Init, InstancesKept
<1>5. FileWritten
  BY DEF Init, FileWritten
<1> QED
  BY <1>1, <1>2, <1>3, <1>4, <1>5 DEF DiscoveryIInv

\* Until it is written there is no file.
LEMMA NotWritten ==
    ASSUME DiscoveryIInv, pc \in {"env", "fetch", "scan", "write"}
    PROVE  file = NoFile
BY DEF DiscoveryIInv, FileWritten

\* A row whose key is set goes to the end of the queue.
LEMMA StepLookUp ==
    ASSUME DiscoveryIInv, LookUp
    PROVE  DiscoveryIInv'
<1> USE DEF DiscoveryIInv, LookUp
<1>1. row' \in 1..Len(Known) /\ row' = row + 1 /\ row \in Nat /\ Known[row'] \in Range(Known)
  BY TableTyped DEF TypeOK
<1>2. TypeOK'
  BY <1>1 DEF TypeOK, given, scanning
<1>3. KeysQueued'
  <2> DEFINE seen(n) == {Known[i].id : i \in {k \in 1..n : Known[k] \in keys}}
  <2>1. Range(Queue) = seen(row) /\ IsInjective(Queue) /\ Queue \in Seq(Nat)
    BY QueueTyped DEF KeysQueued
  <2>2. CASE Known[row'] \notin keys
    <3>1. seen(row') = seen(row)
      BY <1>1, <2>2
    <3> QED
      BY <2>1, <2>2, <3>1 DEF KeysQueued, Queue, given
  <2>3. CASE Known[row'] \in keys
    <3> DEFINE id == Known[row'].id
    <3>1. seen(row') = seen(row) \cup {id}
      BY <1>1, <2>3
    <3>2. id \notin seen(row)
      <4> SUFFICES ASSUME NEW i \in 1..row, Known[i].id = id
                   PROVE  FALSE
        OBVIOUS
      <4>1. i \in DOMAIN Known /\ row' \in DOMAIN Known /\ i # row'
        BY <1>1, IdsAssumption DEF TypeOK
      <4> QED
        BY <4>1, IdsAssumption DEF UniqueIds
    <3>3. Queue' = Append(Queue, id)
      <4>1. Ids(Append(todo, Known[row'])) = Append(Ids(todo), id)
        <5>1. todo \in Seq(Range(Known)) /\ Known[row'] \in Range(Known)
          BY <1>1 DEF TypeOK
        <5>2. \A x \in Range(Known) : x.id \in Nat
          BY TableTyped
        <5> HIDE DEF DiscoveryIInv, LookUp, seen
        <5> QED
          BY <5>1, <5>2, IdsAppend
      <4>2. Ids(fetched) \in Seq(Nat) /\ Ids(todo) \in Seq(Nat) /\ id \in Nat
        BY <1>1, QueueTyped, TableTyped
      <4>3. Ids(fetched) \o Append(Ids(todo), id) = Append(Ids(fetched) \o Ids(todo), id)
        <5> HIDE DEF DiscoveryIInv, LookUp, id, seen
        <5> QED
          BY <4>2, AppendLast
      <4> QED
        BY <2>3, <4>1, <4>3 DEF Queue
    <3>4. id \in Nat
      BY <1>1, TableTyped
    <3>5. IsInjective(Queue') /\ Range(Queue') = seen(row')
      <4> HIDE DEF id, seen
      <4>1. id \notin Range(Queue)
        BY <2>1, <3>2
      <4>2. IsInjective(Append(Queue, id)) /\ Range(Append(Queue, id)) = Range(Queue) \cup {id}
        BY <2>1, <3>4, <4>1, OneMoreElement
      <4> QED
        BY <2>1, <3>1, <3>3, <4>2
    <3> QED
      BY <3>5 DEF KeysQueued, given
  <2> QED
    BY <2>2, <2>3
<1>4. file = NoFile
  BY NotWritten
<1>5. InstancesScanned' /\ InstancesOnce' /\ InstancesKept' /\ FileWritten'
  BY <1>4 DEF InstancesScanned, InstancesOnce, InstancesKept, FileWritten, Scan, given, scanning
<1> QED
  BY <1>2, <1>3, <1>5

\* The queue does not change when its next provider has been asked.
LEMMA StepFetch ==
    ASSUME DiscoveryIInv, FetchModels
    PROVE  DiscoveryIInv'
<1> USE DEF DiscoveryIInv, FetchModels
<1>1. PICK models \in Seq(Nat) :
          fetched' = Append(fetched, [id |-> Head(todo).id, models |-> models])
  <2>1. Answers \subseteq Seq(Nat) /\ {<<>>} \subseteq Seq(Nat)
    BY AnswersAssumption
  <2> QED
    BY <2>1
<1>2. Head(todo) \in Range(Known) /\ Head(todo).id \in Nat /\ Tail(todo) \in Seq(Range(Known))
  BY TableTyped DEF TypeOK
<1> DEFINE e == [id |-> Head(todo).id, models |-> models]
<1>3. e \in Found /\ e.id = Head(todo).id
  BY <1>2 DEF Found
<1>4. TypeOK'
  BY <1>1, <1>2, <1>3 DEF TypeOK, given, scanning
<1>5. KeysQueued'
  <2>1. Ids(fetched') = Append(Ids(fetched), Head(todo).id)
    BY <1>1, <1>3, FoundTyped, IdsAppend DEF TypeOK
  <2>2. /\ Ids(todo') = Tail(Ids(todo)) /\ Head(Ids(todo)) = Head(todo).id
        /\ Ids(todo) # <<>>
    <3>1. todo \in Seq(Range(Known)) /\ todo # <<>> /\ todo' = Tail(todo)
      BY DEF TypeOK
    <3>2. \A x \in Range(Known) : x.id \in Nat
      BY TableTyped
    <3> HIDE DEF DiscoveryIInv, FetchModels, e
    <3> QED
      BY <3>1, <3>2, IdsTail
  <2>3. Queue' = Queue
    <3>1. Ids(fetched) \in Seq(Nat) /\ Ids(todo) \in Seq(Nat)
      BY QueueTyped
    <3> HIDE DEF DiscoveryIInv, FetchModels, e
    <3>2. Append(Ids(fetched), Head(Ids(todo))) \o Tail(Ids(todo)) = Ids(fetched) \o Ids(todo)
      BY <2>2, <3>1, Moved
    <3> QED
      BY <2>1, <2>2, <3>2 DEF Queue
  <2> QED
    BY <2>3 DEF KeysQueued, given
<1>6. file = NoFile
  BY NotWritten
<1>7. InstancesScanned' /\ InstancesOnce' /\ InstancesKept' /\ FileWritten'
  BY <1>6 DEF InstancesScanned, InstancesOnce, InstancesKept, FileWritten, Scan, given, scanning
<1> QED
  BY <1>4, <1>5, <1>7

\* Steps that only move on, or let the deadline pass.
LEMMA StepOn ==
    ASSUME DiscoveryIInv,
           \/ LookedUp \/ FetchFails \/ ModelsFetched \/ AllScanned \/ NothingFound
           \/ LoadConfig \/ Deadline \/ UNCHANGED vars
    PROVE  DiscoveryIInv'
<1> USE DEF DiscoveryIInv
<1>1. UNCHANGED <<given, asking, scanning, file>> /\ late' \in {late, TRUE}
  BY DEF LookedUp, FetchFails, ModelsFetched, AllScanned, NothingFound, LoadConfig, Deadline,
         vars, TypeOK
<1> USE <1>1 DEF given, asking, scanning
<1>2. /\ pc' \in {"env", "fetch", "scan", "write", "load", "serving", "generated", "failed"}
      /\ pc' # "env" => pc # "env" \/ row = Len(Known)
      /\ pc' \notin {"env", "fetch", "failed"} => todo = <<>>
      /\ partial # <<>> => pc' = "scan"
      /\ file # NoFile => pc' \in {"load", "generated", "serving", "failed"}
  BY NotWritten
     DEF LookedUp, FetchFails, ModelsFetched, AllScanned, NothingFound, LoadConfig, Deadline,
         vars, TypeOK, KeysQueued, InstancesScanned, FileWritten
<1>3. TypeOK'
  BY <1>2 DEF TypeOK
<1>4. KeysQueued'
  BY <1>2 DEF KeysQueued, Queue
<1>5. InstancesScanned' /\ InstancesOnce'
  BY <1>2 DEF InstancesScanned, InstancesOnce, Scan
<1>6. InstancesKept'
  BY DEF InstancesKept, TypeOK
<1>7. FileWritten'
  BY <1>2 DEF FileWritten, Generated, DefaultModel
<1> QED
  BY <1>3, <1>4, <1>5, <1>6, <1>7

LEMMA StepWrite ==
    ASSUME DiscoveryIInv, Write
    PROVE  DiscoveryIInv'
<1> USE DEF DiscoveryIInv, Write
<1>1. pc' \in {"load", "generated"} /\ todo = <<>> /\ partial = <<>>
  BY DEF KeysQueued, InstancesScanned
<1>2. UNCHANGED <<given, late, asking, scanning>>
  OBVIOUS
<1> USE <1>2 DEF given, asking, scanning
<1>3. TypeOK'
  BY <1>1 DEF TypeOK
<1>4. KeysQueued'
  BY <1>1 DEF KeysQueued, Queue
<1>5. InstancesScanned' /\ InstancesOnce' /\ InstancesKept'
  BY <1>1 DEF InstancesScanned, InstancesOnce, InstancesKept, Scan
<1>6. FileWritten'
  BY <1>1 DEF FileWritten, Generated, DefaultModel
<1> QED
  BY <1>3, <1>4, <1>5, <1>6

-----------------------------------------------------------------------------
(* The scans *)

LEMMA HostsApart ==
    ASSUME NEW m \in Nat, NEW n \in Nat, NEW g \in 1..Hosts, NEW h \in 1..Hosts,
           InstanceId(m, g) = InstanceId(n, h)
    PROVE  m = n /\ g = h
<1>1. g \in 1..999 /\ h \in 1..999
  BY IdsAssumption
<1>2. 1000 * m + g = 1000 * n + h
  BY DEF InstanceId
<1> QED
  BY <1>1, <1>2

LEMMA NetworksTyped ==
    ASSUME TypeOK
    PROVE  /\ networks \in Seq(Nat \ {0}) /\ DOMAIN networks = 1..Len(networks)
           /\ \A a \in DOMAIN networks : networks[a] \in Nat /\ networks[a] > 0
<1>1. networks \in Seq(Nat \ {0})
  BY IdsAssumption DEF TypeOK
<1> QED
  BY <1>1

LEMMA StepProbe ==
    ASSUME DiscoveryIInv, Probe
    PROVE  DiscoveryIInv'
<1> USE DEF DiscoveryIInv
<1> DEFINE id == InstanceId(networks[address], host')
<1>1. /\ pc = "scan" /\ address \in DOMAIN networks /\ ~late
      /\ host' = host + 1 /\ host \in Nat /\ host' \in 1..Hosts
      /\ UNCHANGED <<pc, given, late, asking, address, instances, file>>
  BY IdsAssumption DEF Probe, TypeOK
<1>2. id \in Nat
  BY <1>1, NetworksTyped DEF InstanceId
<1>3. file = NoFile
  BY <1>1, NotWritten
<1>4. KeysQueued' /\ FileWritten'
  BY <1>1, <1>3 DEF KeysQueued, Queue, FileWritten, given, asking
<1>5. CASE UNCHANGED <<partial, answered>>
  <2>1. TypeOK'
    BY <1>1, <1>5 DEF TypeOK, given, asking
  <2>2. InstancesScanned'
    BY <1>1, <1>5 DEF InstancesScanned, Scan, given
  <2>3. InstancesOnce' /\ InstancesKept'
    BY <1>1, <1>5 DEF InstancesOnce, InstancesKept, given
  <2> QED
    BY <1>4, <2>1, <2>2, <2>3
<1>6. CASE \E models \in Answers :
               /\ partial' = Append(partial, [id |-> id, models |-> models])
               /\ answered' = answered \cup {id}
  <2> PICK models \in Answers :
               /\ partial' = Append(partial, [id |-> id, models |-> models])
               /\ answered' = answered \cup {id}
    BY <1>6
  <2> HIDE DEF id
  <2> DEFINE e == [id |-> id, models |-> models]
  <2>1. e \in Found /\ e.id = id
    BY <1>2, AnswersAssumption DEF Found
  <2> HIDE DEF e
  <2>2. partial' = Append(partial, e)
    BY DEF e
  <2>3. /\ partial \in Seq(Found) /\ partial' \in Seq(Found)
        /\ Len(partial') = Len(partial) + 1
        /\ DOMAIN partial' = 1..(Len(partial) + 1) /\ DOMAIN partial = 1..Len(partial)
        /\ \A i \in 1..Len(partial) : partial'[i] = partial[i]
        /\ partial'[Len(partial) + 1] = e
        /\ Len(partial) \in Nat
    BY <2>1, <2>2 DEF TypeOK
  <2>4. TypeOK'
    BY <1>1, <2>3 DEF TypeOK, given, asking
  <2>5. InstancesScanned'
    <3>1. \A i \in DOMAIN partial' : \E h \in 1..host' :
              partial'[i].id = InstanceId(networks[address], h)
      <4> SUFFICES ASSUME NEW i \in DOMAIN partial'
                   PROVE  \E h \in 1..host' : partial'[i].id = InstanceId(networks[address], h)
        OBVIOUS
      <4>1. CASE i \in 1..Len(partial)
        <5>1. PICK h \in 1..host : partial[i].id = InstanceId(networks[address], h)
          BY <2>3, <4>1 DEF InstancesScanned
        <5> QED
          BY <1>1, <2>3, <4>1, <5>1
      <4>2. CASE i = Len(partial) + 1
        BY <1>1, <2>1, <2>3, <4>2 DEF id
      <4> QED
        BY <2>3, <4>1, <4>2
    <3> QED
      BY <1>1, <3>1 DEF InstancesScanned, Scan, given
  <2>6. InstancesOnce'
    <3>1. \A i \in 1..Len(partial) : partial[i].id # id
      <4> SUFFICES ASSUME NEW i \in 1..Len(partial), partial[i].id = id
                   PROVE  FALSE
        OBVIOUS
      <4>1. PICK h \in 1..host : partial[i].id = InstanceId(networks[address], h)
        BY <2>3 DEF InstancesScanned
      <4>2. h \in 1..Hosts /\ networks[address] \in Nat /\ h # host'
        BY <1>1, NetworksTyped, IdsAssumption
      <4> QED
        BY <1>1, <4>1, <4>2, HostsApart DEF id
    <3>2. UniqueIds(partial')
      BY <2>1, <2>3, <3>1 DEF UniqueIds, InstancesOnce
    <3> QED
      BY <1>1, <3>2 DEF InstancesOnce, given
  <2>7. InstancesKept'
    <3>1. Range(Ids(partial')) = Range(Ids(partial)) \cup {id}
      <4>1. Range(Ids(partial)) = {partial[i].id : i \in 1..Len(partial)}
        BY <2>3, RangeOfIds
      <4>2. Range(Ids(partial')) = {partial'[i].id : i \in 1..Len(partial')}
        <5>1. \A s \in Seq(Found) : Range(Ids(s)) = {s[i].id : i \in 1..Len(s)}
          BY RangeOfIds
        <5>2. partial' \in Seq(Found)
          BY <2>3
        <5> HIDE DEF DiscoveryIInv
        <5> QED
          BY <5>1, <5>2
      <4> QED
        BY <2>1, <2>3, <4>1, <4>2
    <3> QED
      BY <1>1, <3>1 DEF InstancesKept
  <2> QED
    BY <1>4, <2>4, <2>5, <2>6, <2>7
<1> QED
  BY <1>5, <1>6 DEF Probe

\* The instances of a network join those of the networks before.
LEMMA StepScanned ==
    ASSUME DiscoveryIInv, Scanned
    PROVE  DiscoveryIInv'
<1> USE DEF DiscoveryIInv
<1>1. /\ pc = "scan" /\ address \in DOMAIN networks /\ host = Hosts
      /\ instances' = instances \o partial
      /\ address' = address + 1 /\ host' = 0 /\ partial' = <<>>
      /\ UNCHANGED <<pc, given, late, asking, answered, file>>
  BY DEF Scanned, NextAddress
<1>2. file = NoFile
  BY <1>1, NotWritten
<1>3. KeysQueued' /\ FileWritten'
  BY <1>1, <1>2 DEF KeysQueued, Queue, FileWritten, given, asking
<1>4. /\ instances \in Seq(Found) /\ partial \in Seq(Found)
      /\ Len(instances) \in Nat /\ Len(partial) \in Nat
      /\ DOMAIN instances = 1..Len(instances) /\ DOMAIN partial = 1..Len(partial)
  BY DEF TypeOK
<1>5. /\ instances' \in Seq(Found) /\ Len(instances') = Len(instances) + Len(partial)
      /\ DOMAIN instances' = 1..(Len(instances) + Len(partial))
      /\ \A i \in 1..Len(instances) : instances'[i] = instances[i]
      /\ \A i \in (Len(instances) + 1)..(Len(instances) + Len(partial)) :
             instances'[i] = partial[i - Len(instances)]
  BY <1>1, <1>4
<1>6. TypeOK'
  BY <1>1, <1>5, IdsAssumption DEF TypeOK, given, asking
<1>7. \A i \in 1..Len(partial) : partial[i].id \in Scan(address)
  BY <1>1, <1>4 DEF InstancesScanned, Scan
<1>8. InstancesScanned'
  <2>1. ASSUME NEW i \in DOMAIN instances'
        PROVE  \E a \in DOMAIN networks : a < address + 1 /\ instances'[i].id \in Scan(a)
    <3>1. address \in Nat
      BY DEF TypeOK
    <3>2. CASE i \in 1..Len(instances)
      <4> PICK a \in DOMAIN networks : a < address /\ instances[i].id \in Scan(a)
        BY <1>4, <3>2 DEF InstancesScanned
      <4>1. a \in Nat
        BY NetworksTyped
      <4> QED
        BY <1>5, <3>1, <3>2, <4>1
    <3>3. CASE i \in (Len(instances) + 1)..(Len(instances) + Len(partial))
      <4>1. i - Len(instances) \in 1..Len(partial)
        BY <1>4, <3>3
      <4>2. instances'[i].id \in Scan(address)
        BY <1>5, <1>7, <3>3, <4>1
      <4> QED
        BY <1>1, <3>1, <4>2
    <3> QED
      BY <1>4, <1>5, <3>2, <3>3
  <2> QED
    BY <1>1, <2>1 DEF InstancesScanned, Scan, given
<1>9. InstancesOnce'
  <2>1. ASSUME IsInjective(networks)
        PROVE  UniqueIds(instances \o partial)
    <3>1. ASSUME NEW i \in 1..Len(instances), NEW j \in 1..Len(partial),
                 instances[i].id = partial[j].id
          PROVE  FALSE
      <4>1. PICK a \in DOMAIN networks : a < address /\ instances[i].id \in Scan(a)
        BY <1>4 DEF InstancesScanned
      <4>2. PICK g \in 1..Hosts : instances[i].id = InstanceId(networks[a], g)
        BY <4>1 DEF Scan
      <4>3. PICK h \in 1..Hosts : partial[j].id = InstanceId(networks[address], h)
        BY <1>7 DEF Scan
      <4>4. networks[a] \in Nat /\ networks[address] \in Nat
        BY <1>1, NetworksTyped
      <4>5. networks[a] = networks[address]
        BY <3>1, <4>2, <4>3, <4>4, HostsApart
      <4>6. a = address
        BY <1>1, <2>1, <4>5 DEF IsInjective
      <4> QED
        BY <4>1, <4>6, NetworksTyped
    <3>2. UniqueIds(instances) /\ UniqueIds(partial)
      BY <2>1 DEF InstancesOnce
    <3> QED
      BY <1>4, <3>1, <3>2, UniqueTogether
  <2>2. UniqueIds(<<>>)
    BY DEF UniqueIds
  <2> QED
    BY <1>1, <2>1, <2>2 DEF InstancesOnce, given
<1>10. InstancesKept'
  <2>1. Range(Ids(instances')) = Range(Ids(instances)) \cup Range(Ids(partial))
    <3>1. /\ Range(Ids(instances)) = {instances[i].id : i \in 1..Len(instances)}
          /\ Range(Ids(partial)) = {partial[i].id : i \in 1..Len(partial)}
          /\ Range(Ids(instances')) =
               {instances'[i].id : i \in 1..(Len(instances) + Len(partial))}
      BY <1>4, <1>5, RangeOfIds
    <3>2. \A i \in 1..Len(partial) :
              /\ Len(instances) + i \in (Len(instances) + 1)..(Len(instances) + Len(partial))
              /\ instances'[Len(instances) + i] = partial[i]
      <4> TAKE i \in 1..Len(partial)
      <4>1. /\ Len(instances) + i \in (Len(instances) + 1)..(Len(instances) + Len(partial))
            /\ Len(instances) + i - Len(instances) = i
        BY <1>4
      <4> HIDE DEF DiscoveryIInv
      <4> QED
        BY <1>5, <4>1
    <3>3. \A i \in (Len(instances) + 1)..(Len(instances) + Len(partial)) :
              i - Len(instances) \in 1..Len(partial)
      BY <1>4
    <3>4. \A i \in 1..(Len(instances) + Len(partial)) :
              \/ i \in 1..Len(instances)
              \/ i \in (Len(instances) + 1)..(Len(instances) + Len(partial))
      BY <1>4
    <3>5. \A i \in 1..Len(instances) : i \in 1..(Len(instances) + Len(partial))
      BY <1>4
    <3>6. \A x \in Range(Ids(instances')) : x \in Range(Ids(instances)) \cup Range(Ids(partial))
      BY <1>5, <3>1, <3>3, <3>4
    <3>7. \A i \in 1..Len(partial) : Len(instances) + i \in 1..(Len(instances) + Len(partial))
      BY <1>4
    <3>8. \A x \in Range(Ids(instances)) : x \in Range(Ids(instances'))
      BY <1>5, <3>1, <3>5
    <3>9. \A x \in Range(Ids(partial)) : x \in Range(Ids(instances'))
      BY <3>1, <3>2, <3>7
    <3> QED
      BY <3>6, <3>8, <3>9
  <2>2. Range(Ids(<<>>)) = {}
    BY DEF Ids, Range
  <2> QED
    BY <1>1, <2>1, <2>2 DEF InstancesKept
<1> QED
  BY <1>3, <1>6, <1>8, <1>9, <1>10

\* A scan that is cut short loses what it has found, but then it is too late.
LEMMA StepScanCut ==
    ASSUME DiscoveryIInv, ScanCut
    PROVE  DiscoveryIInv'
<1> USE DEF DiscoveryIInv
<1>1. /\ pc = "scan" /\ late
      /\ address' = address + 1 /\ host' = 0 /\ partial' = <<>> /\ address \in Nat
      /\ UNCHANGED <<pc, given, late, asking, instances, answered, file>>
  BY DEF ScanCut, NextAddress, TypeOK
<1>2. file = NoFile
  BY <1>1, NotWritten
<1>3. KeysQueued' /\ FileWritten'
  BY <1>1, <1>2 DEF KeysQueued, Queue, FileWritten, given, asking
<1>4. TypeOK'
  BY <1>1, IdsAssumption DEF TypeOK, given, asking
<1>5. InstancesScanned'
  <2>1. \A a \in DOMAIN networks : a < address => a < address + 1
    BY <1>1, NetworksTyped
  <2> QED
    BY <1>1, <2>1 DEF InstancesScanned, Scan, given
<1>6. InstancesOnce' /\ InstancesKept'
  BY <1>1 DEF InstancesOnce, InstancesKept, UniqueIds, given
<1> QED
  BY <1>3, <1>4, <1>5, <1>6

LEMMA StepFile == DiscoveryIInv /\ [Next]_vars => DiscoveryIInv'
BY StepLookUp, StepFetch, StepOn, StepProbe, StepScanned, StepScanCut, StepWrite
   DEF Next, Ended

-----------------------------------------------------------------------------
(* The file *)

\* The name of the first model of the first provider, if there is one.
LEMMA FirstModelIs ==
    ASSUME NEW ps \in Seq(Found), FirstModel(ps) # NoModel
    PROVE  /\ 1 \in 1..Len(ps)
           /\ 1 \in DOMAIN ps[1].models /\ ps[1].models[1] = FirstModel(ps)
<1>1. ps # <<>> /\ Head(ps).models # <<>> /\ FirstModel(ps) = Head(Head(ps).models)
  BY DEF FirstModel
<1>2. 1 \in 1..Len(ps) /\ Head(ps) = ps[1] /\ ps[1] \in Found
  BY <1>1
<1>3. ps[1].models \in Seq(Nat)
  BY <1>2 DEF Found
<1> QED
  BY <1>1, <1>2, <1>3

\* A provider of the generated file, as the flat list has it.
Unfilled(p) ==
    ProviderConfig(p.id, [j \in DOMAIN p.models |-> [id |-> p.models[j], priority |-> 0]],
                   FALSE, FALSE)

Flat(ps) == [i \in DOMAIN ps |-> Unfilled(ps[i])]

\* fillPriorities touches nothing but priorities.
LEMMA FilledIn ==
    ASSUME NEW ps, NEW flat, flat = Flat(ps), NEW i \in DOMAIN ps
    PROVE  /\ FillPriorities(flat)[i].id = ps[i].id /\ ~FillPriorities(flat)[i].skipped
           /\ DOMAIN FillPriorities(flat)[i].models = DOMAIN ps[i].models
           /\ \A j \in DOMAIN ps[i].models :
                  FillPriorities(flat)[i].models[j].id = ps[i].models[j]
<1> DEFINE q == FillPriorities(flat)[i]
           unfilled == [j \in DOMAIN ps[i].models |-> [id |-> ps[i].models[j], priority |-> 0]]
           prio(j) == MaxPriority(flat) + Place(flat, i, j)
           ms == [j \in DOMAIN flat[i].models |->
                     IF flat[i].models[j].priority > 0 THEN flat[i].models[j]
                     ELSE [flat[i].models[j] EXCEPT !.priority = prio(j)]]
<1>1. flat[i] = Unfilled(ps[i]) /\ DOMAIN flat = DOMAIN ps
  BY DEF Flat
<1>2. flat[i] = [id |-> ps[i].id, models |-> unfilled, skipped |-> FALSE, remote |-> FALSE]
  BY <1>1 DEF Unfilled, ProviderConfig
<1>3. q = [flat[i] EXCEPT !.models = ms]
  BY <1>1 DEF FillPriorities
<1>4. flat[i].models = unfilled
  BY <1>2
<1> HIDE DEF prio
<1>5. DOMAIN ms = DOMAIN ps[i].models /\ \A j \in DOMAIN ps[i].models : ms[j].id = ps[i].models[j]
  BY <1>4
<1> HIDE DEF ms, q, unfilled
<1>6. q = [[id |-> ps[i].id, models |-> unfilled, skipped |-> FALSE, remote |-> FALSE]
               EXCEPT !.models = ms]
  BY <1>2, <1>3, Zenon
<1>7. q.id = ps[i].id /\ q.skipped = FALSE /\ q.models = ms
  BY <1>6
<1> QED
  BY <1>5, <1>7 DEF q

LEMMA GeneratedIsValid ==
    ASSUME NEW ps \in Seq(Found), UniqueIds(ps),
           DefaultModel # NoModel =>
               \E i \in 1..Len(ps) : 1 \in DOMAIN ps[i].models /\ ps[i].models[1] = DefaultModel
    PROVE  Loads(Generated(ps))
<1> DEFINE f == Generated(ps)
           n == Len(ps)
           qs == FillPriorities(FlatList(f))
<1>1. n \in Nat /\ DOMAIN ps = 1..n
  OBVIOUS
<1>2. /\ f.wellFormed /\ f.version = 2 /\ f.default = DefaultModel
      /\ f.local = <<>> /\ f.remote = <<>>
      /\ f.providers = [i \in DOMAIN ps |->
            [id |-> ps[i].id, keyMissing |-> FALSE,
             models |-> [j \in DOMAIN ps[i].models |->
                [id |-> ps[i].models[j], priority |-> 0]]]]
  BY DEF Generated
<1>3. ~IsNewSchema(f)
  BY <1>2 DEF IsNewSchema
<1> HIDE DEF f, n
<1>4. FlatList(f) = Flat(ps)
  <2>1. DOMAIN f.providers = 1..n
    BY <1>1, <1>2
  <2>2. ASSUME NEW i \in 1..n
        PROVE  FlatList(f)[i] = Unfilled(ps[i])
    <3> DEFINE ms == [j \in DOMAIN ps[i].models |-> [id |-> ps[i].models[j], priority |-> 0]]
    <3>1. f.providers[i] = [id |-> ps[i].id, keyMissing |-> FALSE, models |-> ms]
      BY <1>1, <1>2
    <3> HIDE DEF ms
    <3>2. /\ f.providers[i].id = ps[i].id /\ f.providers[i].models = ms
          /\ f.providers[i].keyMissing = FALSE
      BY <3>1
    <3>3. (~IsNewSchema(f) /\ f.providers[i].keyMissing) = FALSE
      BY <3>2
    <3>4. FlatList(f)[i] = ProviderConfig(ps[i].id, ms, FALSE, FALSE)
      BY <2>1, <3>2, <3>3 DEF FlatList
    <3> QED
      BY <3>4 DEF Unfilled, ms
  <2>3. FlatList(f) = [i \in 1..n |-> FlatList(f)[i]]
    BY <2>1 DEF FlatList
  <2> QED
    BY <1>1, <2>2, <2>3 DEF Flat
<1>5. DOMAIN qs = 1..n
  BY <1>1, <1>4 DEF FillPriorities, Flat
<1>6. \A i \in 1..n : /\ qs[i].id = ps[i].id /\ ~qs[i].skipped
                      /\ DOMAIN qs[i].models = DOMAIN ps[i].models
                      /\ \A j \in DOMAIN ps[i].models : qs[i].models[j].id = ps[i].models[j]
  BY <1>1, <1>4, FilledIn
<1>7. Load(f).providers = qs
  BY <1>3 DEF Load
<1> HIDE DEF qs
<1>8. UniqueIds(qs)
  BY <1>1, <1>5, <1>6 DEF UniqueIds
<1>9. f.default = NoModel \/ \E i \in DOMAIN qs : ~qs[i].skipped /\ Offered(qs[i], f.default)
  <2> SUFFICES ASSUME DefaultModel # NoModel
               PROVE  \E i \in DOMAIN qs : ~qs[i].skipped /\ Offered(qs[i], DefaultModel)
    BY <1>2
  <2> PICK i \in 1..n : 1 \in DOMAIN ps[i].models /\ ps[i].models[1] = DefaultModel
    BY DEF n
  <2>1. /\ 1 \in DOMAIN qs[i].models /\ qs[i].models[1].id = DefaultModel /\ ~qs[i].skipped
    BY <1>6
  <2> QED
    BY <1>5, <2>1 DEF Offered
<1>10. Validate(f, qs)
  BY <1>2, <1>8, <1>9 DEF Validate
<1> QED
  BY <1>2, <1>3, <1>7, <1>10 DEF Loads, f

LEMMA WrittenLoads ==
    ASSUME DiscoveryIInv
    PROVE  GeneratedLoads
<1> USE DEF DiscoveryIInv
<1> SUFFICES ASSUME file # NoFile, IsInjective(networks)
             PROVE  Loads(file)
  BY DEF GeneratedLoads
<1> DEFINE ps == fetched \o instances
<1>1. /\ fetched \in Seq(Found) /\ instances \in Seq(Found) /\ ps \in Seq(Found)
      /\ Len(fetched) \in Nat /\ Len(instances) \in Nat
      /\ DOMAIN fetched = 1..Len(fetched) /\ DOMAIN instances = 1..Len(instances)
  BY DEF TypeOK
<1>2. todo = <<>> /\ file = Generated(ps)
  BY DEF FileWritten
<1>3. \A i \in 1..Len(fetched) : fetched[i].id <= 999
  <2> SUFFICES ASSUME NEW i \in 1..Len(fetched)
               PROVE  fetched[i].id <= 999
    OBVIOUS
  <2>1. Queue = Ids(fetched)
    <3>1. Ids(<<>>) = <<>>
      BY DEF Ids
    <3>2. Ids(fetched) \in Seq(Nat)
      BY QueueTyped
    <3> QED
      BY <1>2, <3>1, <3>2 DEF Queue
  <2>2. fetched[i].id \in Range(Queue)
    BY <1>1, <2>1, RangeOfIds
  <2>3. PICK k \in 1..row : Known[k].id = fetched[i].id /\ Known[k] \in keys
    BY <2>2 DEF KeysQueued
  <2>4. Known[k] \in Range(Known)
    BY <2>3 DEF TypeOK
  <2> QED
    BY <2>3, <2>4, TableTyped
<1>4. UniqueIds(fetched)
  <2>1. Ids(<<>>) = <<>>
    BY DEF Ids
  <2>2. Ids(fetched) \in Seq(Nat)
    BY QueueTyped
  <2>3. IsInjective(Ids(fetched))
    <3>1. Ids(fetched) \o <<>> = Ids(fetched)
      BY <2>2
    <3>2. Queue = Ids(fetched)
      BY <1>2, <2>1, <3>1 DEF Queue
    <3> QED
      BY <3>2 DEF KeysQueued
  <2> QED
    BY <2>3 DEF IsInjective, Ids, UniqueIds
<1>5. UniqueIds(ps)
  <2>1. ASSUME NEW i \in 1..Len(fetched), NEW j \in 1..Len(instances),
               fetched[i].id = instances[j].id
        PROVE  FALSE
    <3>1. PICK a \in DOMAIN networks : instances[j].id \in Scan(a)
      BY <1>1 DEF InstancesScanned
    <3>2. PICK h \in 1..Hosts : instances[j].id = InstanceId(networks[a], h)
      BY <3>1 DEF Scan
    <3>3. networks[a] \in Nat /\ networks[a] > 0 /\ h \in 1..999
      BY NetworksTyped, IdsAssumption
    <3>4. instances[j].id > 999
      BY <3>2, <3>3 DEF InstanceId
    <3>5. fetched[i] \in Found
      BY <1>1
    <3>6. fetched[i].id \in Nat /\ fetched[i].id <= 999
      BY <1>3, <3>5 DEF Found
    <3> QED
      BY <2>1, <3>4, <3>6
  <2>2. UniqueIds(instances)
    BY DEF InstancesOnce
  <2> QED
    BY <1>1, <1>4, <2>1, <2>2, UniqueTogether
<1>6. ASSUME DefaultModel # NoModel
      PROVE  \E i \in 1..Len(ps) : 1 \in DOMAIN ps[i].models /\ ps[i].models[1] = DefaultModel
  <2>1. CASE FirstModel(fetched) # NoModel
    <3>1. /\ 1 \in 1..Len(fetched) /\ 1 \in DOMAIN fetched[1].models
          /\ fetched[1].models[1] = DefaultModel
      BY <1>1, <2>1, FirstModelIs DEF DefaultModel
    <3>2. 1 \in 1..Len(ps) /\ ps[1] = fetched[1]
      BY <1>1, <3>1
    <3> QED
      BY <3>1, <3>2
  <2>2. CASE FirstModel(fetched) = NoModel
    <3>1. /\ 1 \in 1..Len(instances) /\ 1 \in DOMAIN instances[1].models
          /\ instances[1].models[1] = DefaultModel
      BY <1>1, <1>6, <2>2, FirstModelIs DEF DefaultModel
    <3>2. Len(fetched) + 1 \in 1..Len(ps) /\ ps[Len(fetched) + 1] = instances[1]
      BY <1>1, <3>1
    <3> QED
      BY <3>1, <3>2
  <2> QED
    BY <2>1, <2>2
<1> HIDE DEF ps
<1>7. Loads(Generated(ps))
  BY <1>1, <1>5, <1>6, GeneratedIsValid
<1> QED
  BY <1>2, <1>7

LEMMA WrittenComplete ==
    ASSUME DiscoveryIInv
    PROVE  NothingMissed
<1> USE DEF DiscoveryIInv
<1> SUFFICES ASSUME file # NoFile, ~late
             PROVE  {p.id : p \in keys} \cup answered = Range(Ids(file.providers))
  BY DEF NothingMissed
<1> DEFINE ps == fetched \o instances
<1>1. /\ fetched \in Seq(Found) /\ instances \in Seq(Found) /\ ps \in Seq(Found)
      /\ Len(fetched) \in Nat /\ Len(instances) \in Nat
      /\ Len(ps) = Len(fetched) + Len(instances)
      /\ \A i \in 1..Len(fetched) : ps[i] = fetched[i]
      /\ \A i \in 1..Len(instances) : ps[Len(fetched) + i] = instances[i]
      /\ \A i \in (Len(fetched) + 1)..Len(ps) : ps[i] = instances[i - Len(fetched)]
  BY DEF TypeOK
<1>2. /\ todo = <<>> /\ file = Generated(ps) /\ partial = <<>> /\ row = Len(Known)
  BY DEF FileWritten, InstancesScanned, KeysQueued
<1>3. {p.id : p \in keys} = Range(Ids(fetched))
  <2>1. Ids(<<>>) = <<>>
    BY DEF Ids
  <2>2. Ids(fetched) \in Seq(Nat)
    BY QueueTyped
  <2>3. Queue = Ids(fetched)
    BY <1>2, <2>1, <2>2 DEF Queue
  <2>4. Range(Queue) = {Known[i].id : i \in {k \in 1..Len(Known) : Known[k] \in keys}}
    BY <1>2 DEF KeysQueued
  <2>5. \A p \in keys : \E i \in 1..Len(Known) : p = Known[i]
    BY TableTyped DEF TypeOK
  <2>6. {p.id : p \in keys} = {Known[i].id : i \in {k \in 1..Len(Known) : Known[k] \in keys}}
    BY <2>5
  <2> QED
    BY <2>3, <2>4, <2>6
<1>4. answered = Range(Ids(instances))
  <2>1. Range(Ids(<<>>)) = {}
    BY DEF Ids, Range
  <2> QED
    BY <1>2, <2>1 DEF InstancesKept
<1>5. Range(Ids(file.providers)) = {ps[i].id : i \in 1..Len(ps)}
  <2>1. /\ DOMAIN file.providers = 1..Len(ps)
        /\ \A i \in 1..Len(ps) : file.providers[i].id = ps[i].id
    <3> HIDE DEF ps
    <3>1. DOMAIN ps = 1..Len(ps)
      BY <1>1
    <3> QED
      BY <1>2, <3>1 DEF Generated
  <2> HIDE DEF ps
  <2> QED
    BY <2>1 DEF Range, Ids
<1>6. {ps[i].id : i \in 1..Len(ps)} = Range(Ids(fetched)) \cup Range(Ids(instances))
  <2>1. /\ Range(Ids(fetched)) = {fetched[i].id : i \in 1..Len(fetched)}
        /\ Range(Ids(instances)) = {instances[i].id : i \in 1..Len(instances)}
    BY <1>1, RangeOfIds
  <2> HIDE DEF ps
  <2>2. ASSUME NEW i \in 1..Len(ps)
        PROVE  ps[i].id \in Range(Ids(fetched)) \cup Range(Ids(instances))
    <3>1. CASE i <= Len(fetched)
      BY <1>1, <2>1, <3>1
    <3>2. CASE i > Len(fetched)
      <4>1. i - Len(fetched) \in 1..Len(instances) /\ ps[i] = instances[i - Len(fetched)]
        BY <1>1, <3>2
      <4> QED
        BY <2>1, <4>1
    <3> QED
      BY <1>1, <3>1, <3>2
  <2>3. ASSUME NEW i \in 1..Len(fetched)
        PROVE  \E j \in 1..Len(ps) : fetched[i].id = ps[j].id
    BY <1>1
  <2>4. ASSUME NEW i \in 1..Len(instances)
        PROVE  \E j \in 1..Len(ps) : instances[i].id = ps[j].id
    <3>1. Len(fetched) + i \in 1..Len(ps)
      BY <1>1
    <3> QED
      BY <1>1, <3>1
  <2>5. {ps[i].id : i \in 1..Len(ps)} \subseteq Range(Ids(fetched)) \cup Range(Ids(instances))
    BY <2>2
  <2>6. Range(Ids(fetched)) \subseteq {ps[i].id : i \in 1..Len(ps)}
    BY <2>1, <2>3
  <2>7. Range(Ids(instances)) \subseteq {ps[i].id : i \in 1..Len(ps)}
    BY <2>1, <2>4
  <2> QED
    BY <2>5, <2>6, <2>7
<1> QED
  BY <1>3, <1>4, <1>5, <1>6

-----------------------------------------------------------------------------
(* The theorems *)

\* The inductive invariant.
THEOREM DiscoveryHolds == Spec => []DiscoveryIInv
BY InitFile, StepFile, PTL DEF Spec

\* What is generated can be loaded, whatever was found and whenever the deadline
\* passed, unless two addresses are in one network (GenerateConfigFromEnv,
\* GenerateConfigFromDiscovery, Load).
THEOREM FileLoads == Spec => []GeneratedLoads
BY DiscoveryHolds, WrittenLoads, PTL

\* Nothing that was found is lost on the way to the file
\* (DiscoverModelsForProviders, DiscoverLocalRouters).
THEOREM NothingForgotten == Spec => []NothingMissed
BY DiscoveryHolds, WrittenComplete, PTL

=============================================================================
