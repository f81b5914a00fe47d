---------------------------- MODULE Reload_proofs -----------------------------
(***************************************************************************)
(* What the registry says, for all files, adapters, answers and orders of  *)
(* steps.  What is installed has always been loaded, so that its default   *)
(* model is served.  The registry of the start is at every moment the one  *)
(* of the configuration with the lists that have come in, each merged into *)
(* it alone: an answer looks at what the configuration made only, and a    *)
(* provider answers once.  From this the order of the answers does not     *)
(* matter, nothing is taken away, what is discovered comes last, and a     *)
(* provider is listed once.                                                *)
(*                                                                         *)
(* The first part is about numbers and sequences: the greatest of a finite *)
(* set, and the places of the members that are selected from a sequence.   *)
(***************************************************************************)
EXTENDS Reload, FiniteSetTheorems, WellFoundedInduction, TLAPS

-----------------------------------------------------------------------------
(* Numbers and sequences *)

\* Every set of natural numbers that is not empty has a least one.  What is
\* proved by induction below is proved of the least counterexample.
LEMMA LeastNumber ==
    ASSUME NEW T \in SUBSET Nat, T # {}
    PROVE  \E n \in T : \A m \in T : n <= m
<1> DEFINE Less == {ss \in Nat \X Nat : ss[1] < ss[2]}
<1>1. OpToRel(<, Nat) = Less
  BY DEF OpToRel
<1>2. IsWellFoundedOn(Less, Nat)
  BY <1>1, NatLessThanWellFounded
<1>3. \A m, n \in Nat : <<m, n>> \in Less <=> m < n
  OBVIOUS
<1> HIDE DEF Less
<1>4. PICK n \in T : \A m \in T : <<m, n>> \notin Less
  BY <1>2, WFMin
<1>5. n \in Nat /\ \A m \in T : m \in Nat
  OBVIOUS
<1>6. \A m \in T : ~(m < n)
  BY <1>3, <1>4, <1>5
<1> QED
  BY <1>5, <1>6

\* A finite set of integers has a greatest one, Max.
LEMMA GreatestNumber ==
    ASSUME NEW S \in SUBSET Int, IsFiniteSet(S), S # {}
    PROVE  /\ Max(S) \in S
           /\ \A y \in S : y <= Max(S)
<1> DEFINE Has(s) == \E x \in s : \A y \in s : x >= y
           Bad == {n \in Nat : \E s \in SUBSET Int : /\ IsFiniteSet(s) /\ s # {}
                                                     /\ Cardinality(s) = n /\ ~Has(s)}
<1>1. ASSUME NEW n \in Bad, \A m \in Bad : n <= m
      PROVE  FALSE
  <2>1. PICK s \in SUBSET Int : IsFiniteSet(s) /\ s # {} /\ Cardinality(s) = n /\ ~Has(s)
    OBVIOUS
  <2>2. PICK x \in s : TRUE
    BY <2>1
  <2>3. /\ IsFiniteSet(s \ {x})
        /\ Cardinality(s \ {x}) = n - 1
        /\ n \in Nat /\ Cardinality(s \ {x}) \in Nat
    BY <2>1, FS_RemoveElement, FS_CardinalityType
  <2>4. s \ {x} # {}
    BY <2>1
  <2>5. Has(s \ {x})
    <3>1. n - 1 \notin Bad
      BY <1>1, <2>3
    <3> QED
      BY <2>3, <2>4, <3>1
  <2>6. PICK g \in s \ {x} : \A y \in s \ {x} : g >= y
    BY <2>5
  <2>7. x \in Int /\ g \in Int /\ \A y \in s : y \in Int
    OBVIOUS
  <2>8. CASE g >= x
    <3>1. \A y \in s : g >= y
      BY <2>6, <2>8
    <3> QED
      BY <2>1, <2>6, <3>1
  <2>9. CASE x >= g
    <3>1. \A y \in s : x >= y
      BY <2>6, <2>7, <2>9
    <3> QED
      BY <2>1, <3>1
  <2> QED
    BY <2>7, <2>8, <2>9
<1>2. Bad \in SUBSET Nat
  OBVIOUS
<1>3. Bad = {}
  <2> HIDE DEF Bad
  <2> QED
    BY <1>1, <1>2, LeastNumber
<1>4. Has(S)
  BY <1>3, FS_CardinalityType
<1>5. Max(S) \in S /\ \A y \in S : Max(S) >= y
  BY <1>4 DEF Max
<1> QED
  BY <1>5

\* The image of a finite set is finite.
LEMMA ImageFinite ==
    ASSUME NEW S, IsFiniteSet(S), NEW g
    PROVE  IsFiniteSet({g[x] : x \in S})
<1> DEFINE T == {g[x] : x \in S}
           h == [x \in S |-> g[x]]
<1>1. h \in Surjection(S, T)
  BY DEF Surjection
<1> HIDE DEF T, h
<1>2. IsFiniteSet(T)
  BY <1>1, FS_Surjection
<1> QED
  BY <1>2 DEF T

\* A sequence of members of T, and how one is made.
LEMMA SeqParts ==
    ASSUME NEW T, NEW s \in Seq(T)
    PROVE  /\ Len(s) \in Nat /\ DOMAIN s = 1..Len(s) /\ IsFiniteSet(DOMAIN s)
           /\ \A i \in DOMAIN s : s[i] \in T
<1>1. Len(s) \in Nat /\ DOMAIN s = 1..Len(s) /\ \A i \in DOMAIN s : s[i] \in T
  OBVIOUS
<1> QED
  BY <1>1, FS_Interval

LEMMA SeqMade ==
    ASSUME NEW T, NEW n \in Nat, NEW f, f = [i \in 1..n |-> f[i]],
           \A i \in 1..n : f[i] \in T
    PROVE  f \in Seq(T) /\ Len(f) = n /\ DOMAIN f = 1..n
OBVIOUS

\* The members of a finite sequence are finitely many.
LEMMA RangeFinite ==
    ASSUME NEW T, NEW s \in Seq(T)
    PROVE  IsFiniteSet(Range(s)) /\ Range(s) \subseteq T
<1>1. DOMAIN s = 1..Len(s) /\ Len(s) \in Nat
  OBVIOUS
<1>2. IsFiniteSet(DOMAIN s)
  BY <1>1, FS_Interval
<1>3. IsFiniteSet({s[x] : x \in DOMAIN s})
  BY <1>2, ImageFinite
<1> QED
  BY <1>3 DEF Range

\* There are as many numbers of a finite set up to one of them as we like.
LEMMA NthPlace ==
    ASSUME NEW at \in SUBSET Nat, IsFiniteSet(at), NEW n \in 1..Cardinality(at)
    PROVE  \E i \in at : Cardinality({k \in at : k <= i}) = n
<1> DEFINE Upto(i) == {k \in at : k <= i}
           Enough == {i \in at : Cardinality(Upto(i)) >= n}
<1>0. Cardinality(at) \in Nat /\ n \in Nat \ {0} /\ n <= Cardinality(at)
  BY FS_CardinalityType
<1>1. \A i : Upto(i) \in SUBSET at /\ IsFiniteSet(Upto(i)) /\ Cardinality(Upto(i)) \in Nat
  BY FS_Subset, FS_CardinalityType
<1>2. Enough # {}
  <2>1. at # {}
    BY <1>0, FS_EmptySet
  <2>2. Max(at) \in at /\ \A y \in at : y <= Max(at)
    BY <2>1, GreatestNumber
  <2>3. Upto(Max(at)) = at
    BY <2>2
  <2> QED
    BY <1>0, <2>2, <2>3
<1>3. Enough \in SUBSET Nat
  OBVIOUS
<1>4. PICK i \in Enough : \A j \in Enough : i <= j
  <2> HIDE DEF Enough
  <2> QED
    BY <1>2, <1>3, LeastNumber
<1>5. i \in at /\ i \in Nat /\ Cardinality(Upto(i)) >= n
  OBVIOUS
<1>6. CASE Cardinality(Upto(i)) > n
  <2> DEFINE Below == {k \in at : k < i}
  <2>0. \A k \in at : k \in Nat /\ (k < i <=> k <= i /\ k # i)
    BY <1>5
  <2>1. Below = Upto(i) \ {i} /\ i \in Upto(i)
    <3>1. i <= i
      BY <1>5
    <3>2. \A k : k \in Below <=> k \in Upto(i) /\ k # i
      BY <2>0, Zenon
    <3>3. i \in Upto(i)
      BY <1>5, <3>1
    <3> HIDE DEF Below, Upto
    <3> QED
      BY <3>2, <3>3, Zenon
  <2>2. IsFiniteSet(Below) /\ Cardinality(Below) = Cardinality(Upto(i)) - 1
    <3> HIDE DEF Below, Upto
    <3> QED
      BY <1>1, <2>1, FS_RemoveElement
  <2>3. Cardinality(Below) >= n /\ Cardinality(Below) \in Nat
    <3> HIDE DEF Below, Upto
    <3> QED
      BY <1>0, <1>1, <1>6, <2>2
  <2>4a. Below \in SUBSET Int
    <3>1. \A k \in Below : k \in Nat
      BY <2>0, Zenon
    <3>2. \A k \in Nat : k \in Int
      OBVIOUS
    <3> HIDE DEF Below
    <3> QED
      BY <3>1, <3>2
  <2>4. Below # {}
    <3> HIDE DEF Below
    <3> QED
      BY <1>0, <2>3, FS_EmptySet
  <2>5. Max(Below) \in Below /\ \A y \in Below : y <= Max(Below)
    <3> HIDE DEF Below
    <3> QED
      BY <2>2, <2>4, <2>4a, GreatestNumber
  <2>6. PICK j \in Below : \A y \in Below : y <= j
    BY <2>5
  <2>7. Upto(j) = Below
    <3>1. \A k \in at : k <= j <=> k < i
      BY <1>5, <2>0, <2>6
    <3> QED
      BY <3>1
  <2>8. j \in Enough
    BY <2>3, <2>6, <2>7
  <2>9. j < i /\ j \in Nat
    OBVIOUS
  <2> QED
    BY <1>4, <1>5, <2>8, <2>9
<1>7. CASE Cardinality(Upto(i)) = n
  BY <1>5, <1>7
<1> QED
  <2> HIDE DEF Upto, Enough
  <2> QED
    BY <1>0, <1>1, <1>5, <1>6, <1>7

\* Selecting members of a sequence makes a sequence of such members.
LEMMA MembersAtType ==
    ASSUME NEW T, NEW s \in Seq(T), NEW at \in SUBSET DOMAIN s
    PROVE  MembersAt(s, at) \in Seq(T)
<1> DEFINE N == Cardinality(at)
           Ith(n) == CHOOSE i \in at : Cardinality({k \in at : k <= i}) = n
<1>1. DOMAIN s = 1..Len(s) /\ Len(s) \in Nat /\ at \in SUBSET Nat
  OBVIOUS
<1>2. IsFiniteSet(at) /\ N \in Nat
  <2>1. IsFiniteSet(DOMAIN s)
    BY <1>1, FS_Interval
  <2> QED
    BY <2>1, FS_Subset, FS_CardinalityType
<1>3. \A n \in 1..N : Ith(n) \in at
  BY <1>1, <1>2, NthPlace
<1>4. \A n \in 1..N : s[Ith(n)] \in T
  <2> HIDE DEF Ith, N
  <2> QED
    BY <1>3
<1>5. MembersAt(s, at) = [n \in 1..N |-> s[Ith(n)]]
  BY DEF MembersAt
<1> HIDE DEF Ith, N
<1> QED
  BY <1>2, <1>4, <1>5

-----------------------------------------------------------------------------
(* Configurations *)

LEMMA ModelsType ==
    ASSUME NEW p \in ProviderConfigs
    PROVE  p.models \in Seq(ModelSpecs) /\ p.id \in Int /\ p.skipped \in BOOLEAN
BY DEF ProviderConfigs

LEMMA MaxPriorityType ==
    ASSUME NEW ps \in Seq(ProviderConfigs)
    PROVE  MaxPriority(ps) \in Int
<1> DEFINE Of(p) == {m.priority : m \in Range(p.models)}
           g == [i \in DOMAIN ps |-> Of(ps[i])]
           S == {0} \cup UNION {g[i] : i \in DOMAIN ps}
<1>1. IsFiniteSet(DOMAIN ps)
  BY SeqParts
<1>2. ASSUME NEW i \in DOMAIN ps
      PROVE  IsFiniteSet(Of(ps[i])) /\ Of(ps[i]) \subseteq Int
  <2>1. ps[i].models \in Seq(ModelSpecs)
    BY SeqParts, ModelsType
  <2> DEFINE R == Range(ps[i].models)
             h == [m \in R |-> m.priority]
  <2>2. IsFiniteSet(R) /\ R \subseteq ModelSpecs
    BY <2>1, RangeFinite
  <2>3. IsFiniteSet({h[m] : m \in R})
    <3> HIDE DEF R, h
    <3> QED
      BY <2>2, ImageFinite
  <2>4. {h[m] : m \in R} = Of(ps[i])
    <3> HIDE DEF R
    <3>1. Of(ps[i]) = {m.priority : m \in R}
      BY DEF R
    <3> HIDE DEF Of
    <3> QED
      BY <3>1
  <2>5. Of(ps[i]) \subseteq Int
    BY <2>2 DEF ModelSpecs
  <2> QED
    BY <2>3, <2>4, <2>5
<1>3. \A i \in DOMAIN ps : g[i] = Of(ps[i])
  OBVIOUS
<1>4. MaxPriority(ps) = Max(S)
  <2>1. {{m.priority : m \in Range(ps[i].models)} : i \in DOMAIN ps} = {g[i] : i \in DOMAIN ps}
    OBVIOUS
  <2> QED
    BY <2>1 DEF MaxPriority
<1> HIDE DEF g, Of
<1>5. IsFiniteSet(UNION {g[i] : i \in DOMAIN ps})
  <2>1. IsFiniteSet({g[i] : i \in DOMAIN ps})
    BY <1>1, ImageFinite
  <2>2. \A t \in {g[i] : i \in DOMAIN ps} : IsFiniteSet(t)
    BY <1>2, <1>3
  <2> QED
    BY <2>1, <2>2, FS_UNION
<1>6. IsFiniteSet(S) /\ S \subseteq Int /\ S # {}
  <2>1. IsFiniteSet({0})
    BY FS_Singleton
  <2>2. UNION {g[i] : i \in DOMAIN ps} \subseteq Int
    BY <1>2, <1>3
  <2>3. IsFiniteSet(S)
    BY <1>5, <2>1, FS_Union
  <2> QED
    BY <2>2, <2>3
<1> HIDE DEF S
<1> QED
  BY <1>4, <1>6, GreatestNumber

LEMMA PlaceType ==
    ASSUME NEW ps \in Seq(ProviderConfigs), NEW i \in DOMAIN ps, NEW j \in Int
    PROVE  Place(ps, i, j) \in Int
<1> DEFINE g == [k \in 1..(i - 1) |-> {k} \X DOMAIN ps[k].models]
<1>1. i \in 1..Len(ps) /\ Len(ps) \in Nat
  OBVIOUS
<1>2. ASSUME NEW k \in 1..(i - 1)
      PROVE  IsFiniteSet(g[k])
  <2>1. k \in DOMAIN ps
    BY <1>1
  <2>2. ps[k].models \in Seq(ModelSpecs)
    BY <2>1, SeqParts, ModelsType
  <2>4. IsFiniteSet(DOMAIN ps[k].models)
    BY <2>2, SeqParts
  <2>5. IsFiniteSet({k})
    BY FS_Singleton
  <2> QED
    BY <2>4, <2>5, FS_Product
<1>3. ModelsBefore(ps, i) = UNION {g[k] : k \in 1..(i - 1)}
  BY DEF ModelsBefore
<1> HIDE DEF g
<1>4. IsFiniteSet(1..(i - 1))
  BY <1>1, FS_Interval
<1>5. IsFiniteSet({g[k] : k \in 1..(i - 1)})
  BY <1>4, ImageFinite
<1>6. \A t \in {g[k] : k \in 1..(i - 1)} : IsFiniteSet(t)
  BY <1>2
<1>7. Cardinality(ModelsBefore(ps, i)) \in Nat
  BY <1>3, <1>5, <1>6, FS_UNION, FS_CardinalityType
<1> QED
  BY <1>7 DEF Place

\* What fillPriorities leaves of a model.
LEMMA Filled ==
    ASSUME NEW ps \in Seq(ProviderConfigs)
    PROVE  /\ FillPriorities(ps) \in Seq(ProviderConfigs)
           /\ DOMAIN FillPriorities(ps) = DOMAIN ps
           /\ \A i \in DOMAIN ps :
                /\ FillPriorities(ps)[i].id = ps[i].id
                /\ FillPriorities(ps)[i].skipped = ps[i].skipped
                /\ DOMAIN FillPriorities(ps)[i].models = DOMAIN ps[i].models
                /\ \A j \in DOMAIN ps[i].models :
                     FillPriorities(ps)[i].models[j].id = ps[i].models[j].id
<1> DEFINE M(i, j) == IF ps[i].models[j].priority > 0 THEN ps[i].models[j]
                      ELSE [ps[i].models[j] EXCEPT !.priority = MaxPriority(ps) + Place(ps, i, j)]
           L(i) == [j \in DOMAIN ps[i].models |-> M(i, j)]
           P(i) == [ps[i] EXCEPT !.models = L(i)]
<1>1. FillPriorities(ps) = [i \in DOMAIN ps |-> P(i)]
  BY DEF FillPriorities
<1>2. ASSUME NEW i \in DOMAIN ps, NEW j \in DOMAIN ps[i].models
      PROVE  M(i, j) \in ModelSpecs /\ M(i, j).id = ps[i].models[j].id
  <2>1. ps[i].models \in Seq(ModelSpecs)
    BY SeqParts, ModelsType
  <2>2. ps[i].models[j] \in ModelSpecs /\ j \in Int
    BY <2>1, SeqParts
  <2>3. MaxPriority(ps) + Place(ps, i, j) \in Int
    BY <2>2, MaxPriorityType, PlaceType
  <2> QED
    BY <2>2, <2>3 DEF ModelSpecs
<1>3. ASSUME NEW i \in DOMAIN ps
      PROVE  L(i) \in Seq(ModelSpecs)
  <2>1. ps[i].models \in Seq(ModelSpecs)
    BY SeqParts, ModelsType
  <2>2. DOMAIN ps[i].models = 1..Len(ps[i].models) /\ Len(ps[i].models) \in Nat
    BY <2>1, SeqParts
  <2>3. \A j \in 1..Len(ps[i].models) : M(i, j) \in ModelSpecs
    BY <1>2, <2>2
  <2> HIDE DEF M
  <2> QED
    BY <2>2, <2>3, SeqMade
<1> HIDE DEF M
<1>4. ASSUME NEW i \in DOMAIN ps
      PROVE  /\ P(i) \in ProviderConfigs
             /\ P(i).id = ps[i].id /\ P(i).skipped = ps[i].skipped /\ P(i).models = L(i)
  <2>1. ps[i] \in ProviderConfigs
    OBVIOUS
  <2> HIDE DEF L
  <2> QED
    BY <1>3, <2>1 DEF ProviderConfigs
<1> HIDE DEF P
<1>5. DOMAIN ps = 1..Len(ps) /\ Len(ps) \in Nat
  BY SeqParts
<1>6. FillPriorities(ps) \in Seq(ProviderConfigs)
  <2>1. \A i \in 1..Len(ps) : P(i) \in ProviderConfigs
    BY <1>4, <1>5
  <2> QED
    BY <1>1, <1>5, <2>1, SeqMade
<1>7. ASSUME NEW i \in DOMAIN ps
      PROVE  /\ FillPriorities(ps)[i].id = ps[i].id
             /\ FillPriorities(ps)[i].skipped = ps[i].skipped
             /\ DOMAIN FillPriorities(ps)[i].models = DOMAIN ps[i].models
             /\ \A j \in DOMAIN ps[i].models :
                  FillPriorities(ps)[i].models[j].id = ps[i].models[j].id
  <2>1. FillPriorities(ps)[i] = P(i)
    BY <1>1
  <2>2. \A j \in DOMAIN ps[i].models : L(i)[j].id = ps[i].models[j].id
    BY <1>2
  <2> QED
    BY <1>4, <2>1, <2>2
<1> QED
  BY <1>1, <1>6, <1>7

LEMMA SectionType ==
    ASSUME NEW ids \in Seq(Int), NEW isRemote \in BOOLEAN
    PROVE  Section(ids, isRemote) \in Seq(ProviderConfigs)
<1> DEFINE P(i) == ProviderConfig(ids[i], <<>>, FALSE, isRemote)
<1>1. Len(ids) \in Nat /\ DOMAIN ids = 1..Len(ids) /\ \A i \in DOMAIN ids : ids[i] \in Int
  BY SeqParts
<1>2. \A i \in 1..Len(ids) : P(i) \in ProviderConfigs
  <2>1. <<>> \in Seq(ModelSpecs)
    OBVIOUS
  <2> QED
    BY <1>1, <2>1 DEF ProviderConfig, ProviderConfigs
<1>3. Section(ids, isRemote) = [i \in 1..Len(ids) |-> P(i)]
  BY <1>1 DEF Section
<1> HIDE DEF P
<1> QED
  BY <1>1, <1>2, <1>3, SeqMade

LEMMA FlatListType ==
    ASSUME NEW f, IsFile(f)
    PROVE  FlatList(f) \in Seq(ProviderConfigs)
<1> DEFINE P(i) == ProviderConfig(f.providers[i].id, f.providers[i].models,
                                  ~IsNewSchema(f) /\ f.providers[i].keyMissing, FALSE)
<1> DEFINE FileProviders == [id : Int, keyMissing : BOOLEAN, models : Seq(ModelSpecs)]
           N == Len(f.providers)
<1>1. /\ N \in Nat /\ DOMAIN f.providers = 1..N
      /\ \A i \in 1..N : f.providers[i] \in FileProviders
  <2>1. f.providers \in Seq(FileProviders)
    BY DEF IsFile
  <2> HIDE DEF FileProviders
  <2> QED
    BY <2>1, SeqParts
<1>2. \A i \in 1..N : P(i) \in ProviderConfigs
  <2>1. (~IsNewSchema(f)) \in BOOLEAN
    BY DEF IsNewSchema
  <2> HIDE DEF N
  <2> QED
    BY <1>1, <2>1 DEF ProviderConfig, ProviderConfigs
<1>3. FlatList(f) = [i \in 1..N |-> P(i)]
  BY <1>1 DEF FlatList
<1> HIDE DEF P, N
<1> QED
  BY <1>1, <1>2, <1>3, SeqMade

\* What Load makes of a file.
LEMMA LoadType ==
    ASSUME NEW f, IsFile(f)
    PROVE  Load(f).providers \in Seq(ProviderConfigs)
<1>1. NormaliseNewSchema(f) \in Seq(ProviderConfigs)
  <2>1. /\ FlatList(f) \in Seq(ProviderConfigs)
        /\ Section(f.local, FALSE) \in Seq(ProviderConfigs)
        /\ Section(f.remote, TRUE) \in Seq(ProviderConfigs)
    BY FlatListType, SectionType DEF IsFile
  <2>2. \A a, b, c \in Seq(ProviderConfigs) : a \o b \o c \in Seq(ProviderConfigs)
    OBVIOUS
  <2> QED
    BY <2>1, <2>2 DEF NormaliseNewSchema
<1>2. FillPriorities(FlatList(f)) \in Seq(ProviderConfigs)
  BY FlatListType, Filled
<1> QED
  BY <1>1, <1>2 DEF Load

\* A configuration of the newer schema has a provider that accepts any model.
LEMMA SectionsAcceptAny ==
    ASSUME NEW f, IsFile(f), IsNewSchema(f)
    PROVE  \E i \in DOMAIN NormaliseNewSchema(f) :
              /\ NormaliseNewSchema(f)[i].models = <<>>
              /\ ~NormaliseNewSchema(f)[i].skipped
<1> DEFINE A == FlatList(f)
           B == Section(f.local, FALSE)
           C == Section(f.remote, TRUE)
<1>1. A \in Seq(ProviderConfigs) /\ B \in Seq(ProviderConfigs) /\ C \in Seq(ProviderConfigs)
  BY FlatListType, SectionType DEF IsFile
<1>2. /\ Len(B) = Len(f.local) /\ \A i \in 1..Len(B) : B[i].models = <<>> /\ ~B[i].skipped
      /\ Len(C) = Len(f.remote) /\ \A i \in 1..Len(C) : C[i].models = <<>> /\ ~C[i].skipped
  <2>1. /\ DOMAIN f.local = 1..Len(f.local) /\ Len(f.local) \in Nat
        /\ DOMAIN f.remote = 1..Len(f.remote) /\ Len(f.remote) \in Nat
    BY DEF IsFile
  <2> QED
    BY <2>1 DEF Section, ProviderConfig
<1>3. Len(B) > 0 \/ Len(C) > 0
  <2>1. f.local \in Seq(Int) /\ f.remote \in Seq(Int) /\ (f.local # <<>> \/ f.remote # <<>>)
    BY DEF IsFile, IsNewSchema
  <2>2. \A s \in Seq(Int) : s # <<>> => Len(s) > 0
    OBVIOUS
  <2> HIDE DEF B, C
  <2> QED
    BY <1>2, <2>1, <2>2
<1>4. NormaliseNewSchema(f) = A \o B \o C
  BY DEF NormaliseNewSchema
<1> HIDE DEF A, B, C
<1> DEFINE N == A \o B \o C
<1>5. /\ Len(A) \in Nat /\ Len(B) \in Nat /\ Len(C) \in Nat
      /\ DOMAIN N = 1..(Len(A) + Len(B) + Len(C))
      /\ \A i \in 1..Len(B) : N[Len(A) + i] = B[i]
      /\ \A i \in 1..Len(C) : N[Len(A) + Len(B) + i] = C[i]
  BY <1>1
<1> HIDE DEF N
<1>6. CASE Len(B) > 0
  <2>1. 1 \in 1..Len(B) /\ Len(A) + 1 \in DOMAIN N
    BY <1>5, <1>6
  <2> QED
    <3>1. N[Len(A) + 1] = B[1]
      BY <1>5, <2>1
    <3> QED
      BY <1>2, <1>4, <2>1, <3>1 DEF N
<1>7. CASE Len(C) > 0
  <2>1. 1 \in 1..Len(C) /\ Len(A) + Len(B) + 1 \in DOMAIN N
    BY <1>5, <1>7
  <2> QED
    <3>1. N[Len(A) + Len(B) + 1] = C[1]
      BY <1>5, <2>1
    <3> QED
      BY <1>2, <1>4, <2>1, <3>1 DEF N
<1> QED
  BY <1>3, <1>6, <1>7

-----------------------------------------------------------------------------
(* Registries *)

\* The entries that Build makes.
LEMMA BuiltEntries ==
    ASSUME NEW c, NEW e
    PROVE  e \in Build(c).all <=>
             \E i \in Used(c) : \E m \in Range(c.providers[i].models) :
                e = Entry(c.providers[i].id, m.id, m.priority, c.providers[i].remote, FALSE)
<1>1. Build(c).all = UNION {EntriesOf(c.providers[i]) : i \in Used(c)}
  BY DEF Build
<1>2. e \in Build(c).all <=> \E i \in Used(c) : e \in EntriesOf(c.providers[i])
  BY <1>1
<1> QED
  BY <1>2 DEF EntriesOf

LEMMA NothingDiscoveredYet ==
    ASSUME NEW c
    PROVE  \A e \in Build(c).all : ~e.discovered
BY BuiltEntries DEF Entry

\* The entries that an answer makes, one for each fresh model of the list.
FreshPriority(r, p, models, i) ==
    BasePriority(r, p) + Cardinality({k \in Fresh(r, p, models) : k < i})

FreshEntry(r, p, models, i) ==
    Entry(p, models[i], FreshPriority(r, p, models, i), \E x \in Known(r, p) : x.remote, TRUE)

LEMMA FreshEntriesShape ==
    ASSUME NEW r, NEW p, NEW models
    PROVE  FreshEntries(r, p, models) =
             {FreshEntry(r, p, models, i) : i \in Fresh(r, p, models)}
BY DEF FreshEntries, FreshEntry, FreshPriority

LEMMA FreshEntryFields ==
    ASSUME NEW r, NEW p, NEW models, NEW i
    PROVE  LET e == FreshEntry(r, p, models, i)
           IN /\ e.provider = p /\ e.model = models[i] /\ e.discovered
              /\ e.priority = FreshPriority(r, p, models, i)
<1> DEFINE remote == \E x \in Known(r, p) : x.remote
           e == FreshEntry(r, p, models, i)
<1>1. e = Entry(p, models[i], FreshPriority(r, p, models, i), remote, TRUE)
  BY DEF FreshEntry
<1> HIDE DEF remote, e
<1>2. /\ e.provider = p /\ e.model = models[i]
      /\ e.priority = FreshPriority(r, p, models, i)
  BY <1>1 DEF Entry
<1>3. e.discovered
  BY <1>1 DEF Entry
<1> QED
  BY <1>2, <1>3 DEF e

LEMMA FreshEntriesOwn ==
    ASSUME NEW r, NEW p, NEW models, NEW e \in FreshEntries(r, p, models)
    PROVE  e.provider = p /\ e.discovered
BY FreshEntriesShape, FreshEntryFields

\* An answer adds entries of its provider, when it has none from before.
LEMMA AnswerAdds ==
    ASSUME NEW r, NEW p, NEW models,
           \A e \in r.all : e.discovered => e.provider # p
    PROVE  SetDiscoveredModels(r, p, models) =
             IF Known(r, p) = {} THEN r
             ELSE [all |-> r.all \cup FreshEntries(r, p, models),
                   any |-> r.any,
                   injected |-> r.injected \cup {p}]
<1>1. {e \in r.all : ~(e.provider = p /\ e.discovered)} = r.all
  OBVIOUS
<1> QED
  BY <1>1 DEF SetDiscoveredModels

\* What an answer makes depends on the configuration alone.
LEMMA SameKnowledge ==
    ASSUME NEW r, NEW s, s.any = r.any,
           {e \in s.all : ~e.discovered} = {e \in r.all : ~e.discovered},
           NEW p, NEW models
    PROVE  /\ AnyModel(s, p) = AnyModel(r, p)
           /\ Known(s, p) = Known(r, p)
           /\ BasePriority(s, p) = BasePriority(r, p)
           /\ FreshEntries(s, p, models) = FreshEntries(r, p, models)
<1>1. AnyModel(s, p) = AnyModel(r, p)
  BY DEF AnyModel
<1>2. Configured(s, p) = Configured(r, p)
  <2>1. \A t : Configured(t, p) = {e \in {x \in t.all : ~x.discovered} : e.provider = p}
    BY DEF Configured
  <2> QED
    BY <2>1
<1>3. BasePriority(s, p) = BasePriority(r, p)
  BY <1>1 DEF BasePriority
<1>4. Known(s, p) = Known(r, p)
  BY <1>1, <1>2 DEF Known
<1>5. Fresh(s, p, models) = Fresh(r, p, models)
  BY <1>2 DEF Fresh
<1> QED
  BY <1>1, <1>3, <1>4, <1>5 DEF FreshEntries

\* A registry that has more entries, and the same providers of any model, has
\* for each model at least the same providers.
LEMMA MoreEntriesMoreProviders ==
    ASSUME NEW r, NEW s, NEW m,
           s.any = r.any,
           r.all \subseteq s.all
    PROVE  Providers(ForModel(r, m)) \subseteq Providers(ForModel(s, m))
<1> SUFFICES ASSUME NEW e \in ForModel(r, m)
             PROVE  \E f \in ForModel(s, m) : f.provider = e.provider
  BY DEF Providers
<1>1. CASE e \in ByModel(r, m)
  BY <1>1 DEF ForModel, ByModel
<1>2. CASE \E a \in r.any : e = AsEntry(a, m)
  <2> PICK a \in r.any : e = AsEntry(a, m)
    BY <1>2
  <2>1. e.provider = a.provider
    BY DEF AsEntry, Entry
  <2>2. CASE \E f \in ByModel(s, m) : f.provider = a.provider
    BY <2>1, <2>2 DEF ForModel
  <2>3. CASE ~ \E f \in ByModel(s, m) : f.provider = a.provider
    BY <2>3 DEF ForModel
  <2> QED
    BY <2>2, <2>3
<1> QED
  BY <1>1, <1>2 DEF ForModel

-----------------------------------------------------------------------------
(* The types *)

LEMMA StepType ==
    ASSUME NEW ids \in Seq(Int), NEW op \in {"add", "remove"}
    PROVE  Step(op, ids) \in Seq(Steps)
<1> DEFINE S(i) == [op |-> op, id |-> ids[i]]
<1>1. Len(ids) \in Nat /\ DOMAIN ids = 1..Len(ids) /\ \A i \in DOMAIN ids : ids[i] \in Int
  BY SeqParts
<1>2. \A i \in 1..Len(ids) : S(i) \in Steps
  BY <1>1 DEF Steps
<1>3. Step(op, ids) = [i \in 1..Len(ids) |-> S(i)]
  BY <1>1 DEF Step
<1> HIDE DEF S
<1> QED
  BY <1>1, <1>2, <1>3, SeqMade

LEMMA IdsType ==
    ASSUME NEW ps \in Seq(ProviderConfigs)
    PROVE  Ids(ps) \in Seq(Int)
<1>1. Len(ps) \in Nat /\ DOMAIN ps = 1..Len(ps)
  BY SeqParts
<1>2. \A i \in 1..Len(ps) : ps[i].id \in Int
  BY <1>1, SeqParts, ModelsType
<1>3. Ids(ps) = [i \in 1..Len(ps) |-> ps[i].id]
  BY <1>1 DEF Ids
<1> QED
  BY <1>1, <1>2, <1>3, SeqMade

\* A configuration that has been loaded, and the ids in it.
LEMMA ConfigType ==
    ASSUME NEW f \in Valid
    PROVE  /\ f \in Names /\ IsFile(Files[f]) /\ Loads(Files[f])
           /\ Configs[f] = Load(Files[f])
           /\ Configs[f].providers \in Seq(ProviderConfigs)
           /\ ActiveIds(f) \in Seq(Int)
           /\ AllIds(f) \in Seq(Int)
<1>1. f \in Names /\ Loads(Files[f])
  BY DEF Valid
<1>2. IsFile(Files[f])
  BY <1>1, FilesAssumption
<1>3. Configs[f] = Load(Files[f])
  BY DEF Configs
<1>4. Configs[f].providers \in Seq(ProviderConfigs)
  BY <1>2, <1>3, LoadType
<1>5. Active(Configs[f]) \in Seq(ProviderConfigs)
  BY <1>4, MembersAtType DEF Active, Used
<1> QED
  BY <1>1, <1>2, <1>3, <1>4, <1>5, IdsType DEF ActiveIds, AllIds

LEMMA CallbackType ==
    ASSUME NEW old \in Valid, NEW new \in Valid
    PROVE  Callback(old, new) \in Seq(Steps)
<1>1. \A ids \in Seq(Int) : \A others : Missing(ids, others) \in Seq(Int)
  BY MembersAtType DEF Missing
<1>2. /\ Step("add", ActiveIds(new)) \in Seq(Steps)
      /\ Step("add", Missing(ActiveIds(new), AllIds(old))) \in Seq(Steps)
      /\ Step("remove", Missing(AllIds(old), AllIds(new))) \in Seq(Steps)
  BY <1>1, ConfigType, StepType
<1>3. << [op |-> "install", config |-> new] >> \in Seq(Steps)
  <2>1. [op |-> "install", config |-> new] \in Steps
    BY DEF Steps
  <2> QED
    BY <2>1
<1>4. \A a, b, c, d \in Seq(Steps) : a \o b \o c \o d \in Seq(Steps)
  OBVIOUS
<1> QED
  BY <1>2, <1>3, <1>4 DEF Callback

LEMMA InitTypes == Init => TypeOK
<1> SUFFICES ASSUME Init
             PROVE  TypeOK
  OBVIOUS
<1>1. file \in Valid /\ file \in Names
  BY DEF Init, Valid
<1>2. ActiveIds(file) \in Seq(Int)
  BY <1>1, ConfigType
<1>3. Range(ActiveIds(file)) \subseteq Int
  BY <1>2, RangeFinite
<1>4. DOMAIN discovered = {}
  <2>1. DOMAIN <<>> = {}
    OBVIOUS
  <2> QED
    BY <2>1 DEF Init
<1>5. plan \in [Reloaders -> Seq(Steps)]
  <2>1. <<>> \in Seq(Steps)
    OBVIOUS
  <2> QED
    BY <2>1 DEF Init
<1> QED
  BY <1>1, <1>3, <1>4, <1>5 DEF Init, TypeOK

\* The steps of the plan that are still to come.
LEMMA PlanAdvances ==
    ASSUME TypeOK, NEW w \in Reloaders, NEW op, Ready(w, op), Advance(w)
    PROVE  /\ Head(plan[w]) \in Steps
           /\ plan' \in [Reloaders -> Seq(Steps)]
<1>1. plan[w] \in Seq(Steps) /\ plan[w] # <<>>
  BY DEF TypeOK, Ready
<1>2. \A s \in Seq(Steps) : s # <<>> => Head(s) \in Steps /\ Tail(s) \in Seq(Steps)
  OBVIOUS
<1> QED
  BY <1>1, <1>2 DEF Advance, TypeOK

LEMMA StepTypes == TypeOK /\ [Next]_vars => TypeOK'
<1> SUFFICES ASSUME TypeOK, [Next]_vars
             PROVE  TypeOK'
  OBVIOUS
<1>1. ASSUME NEW f \in Names, Edit(f)
      PROVE  TypeOK'
  BY <1>1 DEF Edit, TypeOK, discovery
<1>2. CASE Notice
  BY <1>2 DEF Notice, TypeOK, discovery
<1>3. CASE Fire
  BY <1>3 DEF Fire, TypeOK, discovery
<1>4. ASSUME NEW w \in Reloaders, Read(w)
      PROVE  TypeOK'
  BY <1>4 DEF Read, TypeOK, discovery
<1>5. ASSUME NEW w \in Reloaders, Swap(w)
      PROVE  TypeOK'
  <2>1. reading[w] \in Valid
    BY <1>5 DEF Swap, TypeOK
  <2>2. Callback(current, reading[w]) \in Seq(Steps)
    BY <2>1, CallbackType DEF TypeOK
  <2>3. plan' \in [Reloaders -> Seq(Steps)] /\ reading' \in [Reloaders -> Valid \cup {""}]
    BY <1>5, <2>1, <2>2 DEF Swap, TypeOK
  <2> QED
    BY <1>5, <2>1, <2>3 DEF Swap, TypeOK, discovery
<1>6. ASSUME NEW w \in Reloaders, AddNode(w)
      PROVE  TypeOK'
  <2>1. /\ Head(plan[w]) \in Steps /\ Head(plan[w]).op = "add"
        /\ plan' \in [Reloaders -> Seq(Steps)]
    BY <1>6, PlanAdvances DEF AddNode, Ready
  <2>2. Head(plan[w]).id \in Int
    BY <2>1 DEF Steps
  <2> QED
    BY <1>6, <2>1, <2>2 DEF AddNode, TypeOK, discovery
<1>7. ASSUME NEW w \in Reloaders, RemoveNode(w)
      PROVE  TypeOK'
  <2>1. plan' \in [Reloaders -> Seq(Steps)]
    BY <1>7, PlanAdvances DEF RemoveNode
  <2> QED
    BY <1>7, <2>1 DEF RemoveNode, TypeOK, discovery
<1>8. ASSUME NEW w \in Reloaders, Install(w)
      PROVE  TypeOK'
  <2>1. /\ Head(plan[w]) \in Steps /\ Head(plan[w]).op = "install"
        /\ plan' \in [Reloaders -> Seq(Steps)]
    BY <1>8, PlanAdvances DEF Install, Ready
  <2>2. Head(plan[w]).config \in Valid
    BY <2>1 DEF Steps
  <2> QED
    BY <1>8, <2>1, <2>2 DEF Install, TypeOK, discovery
<1>9. ASSUME NEW p \in asked, NEW models \in Answers, Discover(p, models)
      PROVE  TypeOK'
  <2>1. \A q \in DOMAIN discovered' : discovered'[q] \in Answers
    BY <1>9 DEF Discover, TypeOK
  <2> QED
    BY <1>9, <2>1 DEF Discover, TypeOK
<1>10. ASSUME NEW p \in asked, DiscoverFails(p)
       PROVE  TypeOK'
  BY <1>10 DEF DiscoverFails, TypeOK
<1>11. CASE UNCHANGED vars
  BY <1>11 DEF vars, TypeOK, discovery
<1> QED
  BY <1>1, <1>2, <1>3, <1>4, <1>5, <1>6, <1>7, <1>8, <1>9, <1>10, <1>11
     DEF Next, Reload, CallbackStep

-----------------------------------------------------------------------------
(* What discovery makes of the registry of the start *)

\* The registry that the configuration of the start makes alone.
Alone == Build(Configs[boot])

\* An answer merged into it.
LEMMA MergedAlone ==
    ASSUME NEW c, NEW p, NEW models
    PROVE  SetDiscoveredModels(Build(c), p, models).all =
             IF Known(Build(c), p) = {} THEN Build(c).all
             ELSE Build(c).all \cup FreshEntries(Build(c), p, models)
<1> DEFINE r == Build(c)
<1>1. \A e \in r.all : e.discovered => e.provider # p
  BY NothingDiscoveredYet
<1> HIDE DEF r
<1>2. SetDiscoveredModels(r, p, models) =
        IF Known(r, p) = {} THEN r
        ELSE [all |-> r.all \cup FreshEntries(r, p, models),
              any |-> r.any,
              injected |-> r.injected \cup {p}]
  BY <1>1, AnswerAdds
<1>3. SetDiscoveredModels(r, p, models).all =
        IF Known(r, p) = {} THEN r.all ELSE r.all \cup FreshEntries(r, p, models)
  BY <1>2
<1> QED
  BY <1>3 DEF r

\* The entries of the registry, as Merged describes them.
LEMMA MergedEntries ==
    ASSUME Merged, NEW e
    PROVE  e \in startup.all <=>
             \/ e \in Alone.all
             \/ \E p \in DOMAIN discovered :
                  Known(Alone, p) # {} /\ e \in FreshEntries(Alone, p, discovered[p])
<1> DEFINE With(p) == SetDiscoveredModels(Alone, p, discovered[p]).all
<1>1. startup.all = Alone.all \cup UNION {With(p) : p \in DOMAIN discovered}
  BY DEF Merged, OrderIrrelevant, Alone
<1>2. \A p : With(p) = IF Known(Alone, p) = {} THEN Alone.all
                       ELSE Alone.all \cup FreshEntries(Alone, p, discovered[p])
  BY MergedAlone DEF Alone
<1> HIDE DEF With
<1>3. e \in startup.all <=> e \in Alone.all \/ \E p \in DOMAIN discovered : e \in With(p)
  BY <1>1
<1> QED
  BY <1>2, <1>3

LEMMA MergedParts ==
    ASSUME Merged
    PROVE  /\ Alone.all \subseteq startup.all
           /\ \A e \in Alone.all : ~e.discovered
           /\ {e \in startup.all : ~e.discovered} = {e \in Alone.all : ~e.discovered}
           /\ \A e \in startup.all : e.discovered =>
                /\ e.provider \in DOMAIN discovered
                /\ Known(Alone, e.provider) # {}
                /\ e \in FreshEntries(Alone, e.provider, discovered[e.provider])
<1>1. \A e \in Alone.all : ~e.discovered
  BY NothingDiscoveredYet DEF Alone
<1>2. ASSUME NEW p, NEW e \in FreshEntries(Alone, p, discovered[p])
      PROVE  e.discovered /\ e.provider = p
  BY FreshEntriesOwn
<1>3. Alone.all \subseteq startup.all
  BY MergedEntries
<1>4. ASSUME NEW e \in startup.all, e.discovered
      PROVE  /\ e.provider \in DOMAIN discovered
             /\ Known(Alone, e.provider) # {}
             /\ e \in FreshEntries(Alone, e.provider, discovered[e.provider])
  <2>1. PICK p \in DOMAIN discovered :
              Known(Alone, p) # {} /\ e \in FreshEntries(Alone, p, discovered[p])
    BY <1>1, <1>4, MergedEntries
  <2>2. e.provider = p
    BY <1>2, <2>1
  <2> QED
    BY <2>1, <2>2
<1>5. ASSUME NEW e \in startup.all, ~e.discovered
      PROVE  e \in Alone.all
  BY <1>2, <1>5, MergedEntries
<1> QED
  BY <1>1, <1>3, <1>4, <1>5

\* A provider that is asked has no entry from an earlier answer.
LEMMA AskedOnce ==
    ASSUME Merged, NEW p \in asked
    PROVE  \A e \in startup.all : e.discovered => e.provider # p
BY MergedParts DEF Merged

LEMMA InitMerged == Init => Merged
<1> SUFFICES ASSUME Init
             PROVE  Merged
  OBVIOUS
<1>1. DOMAIN discovered = {}
  <2>1. DOMAIN <<>> = {}
    OBVIOUS
  <2> QED
    BY <2>1 DEF Init
<1>2. startup = Build(Configs[boot])
  BY DEF Init
<1>3. startup.injected = {}
  BY <1>2 DEF Build
<1> QED
  BY <1>1, <1>2, <1>3 DEF Merged, OrderIrrelevant

LEMMA AnswerMerged ==
    ASSUME Merged, NEW p \in asked, NEW models \in Answers, Discover(p, models)
    PROVE  Merged'
<1> DEFINE F(q) == FreshEntries(Alone, q, discovered[q])
           With(q) == SetDiscoveredModels(Alone, q, discovered'[q]).all
<1>1. /\ boot' = boot /\ asked' = asked \ {p}
      /\ DOMAIN discovered' = DOMAIN discovered \cup {p}
      /\ discovered'[p] = models
      /\ \A q \in DOMAIN discovered : q # p /\ discovered'[q] = discovered[q]
      /\ startup' = SetDiscoveredModels(startup, p, models)
  BY DEF Discover, Merged
<1>2. /\ startup.any = Alone.any
      /\ startup.injected = {q \in DOMAIN discovered : Known(Alone, q) # {}}
  BY DEF Merged, Alone
<1>3. /\ Known(startup, p) = Known(Alone, p)
      /\ FreshEntries(startup, p, models) = FreshEntries(Alone, p, models)
  BY <1>2, MergedParts, SameKnowledge
<1>4. startup' = IF Known(Alone, p) = {} THEN startup
                 ELSE [all |-> startup.all \cup FreshEntries(Alone, p, models),
                       any |-> startup.any,
                       injected |-> startup.injected \cup {p}]
  BY <1>1, <1>3, AskedOnce, AnswerAdds
<1>5. startup'.any = Alone.any
  BY <1>2, <1>4
<1>6. startup'.injected = {q \in DOMAIN discovered' : Known(Alone, q) # {}}
  BY <1>1, <1>2, <1>4
<1>7. \A e : e \in startup'.all <=>
                 \/ e \in startup.all
                 \/ Known(Alone, p) # {} /\ e \in FreshEntries(Alone, p, models)
  BY <1>4
<1>8. \A q : With(q) = IF Known(Alone, q) = {} THEN Alone.all
                       ELSE Alone.all \cup FreshEntries(Alone, q, discovered'[q])
  BY MergedAlone DEF Alone
<1>9. ASSUME NEW e
      PROVE  e \in startup'.all <=> e \in Alone.all \/ \E q \in DOMAIN discovered' : e \in With(q)
  <2> HIDE DEF With
  <2>1. e \in startup.all <=>
          \/ e \in Alone.all
          \/ \E q \in DOMAIN discovered : Known(Alone, q) # {} /\ e \in F(q)
    BY MergedEntries
  <2>2. \A q \in DOMAIN discovered :
          e \in With(q) <=> e \in Alone.all \/ (Known(Alone, q) # {} /\ e \in F(q))
    BY <1>1, <1>8
  <2>3. e \in With(p) <=>
          e \in Alone.all \/ (Known(Alone, p) # {} /\ e \in FreshEntries(Alone, p, models))
    BY <1>1, <1>8
  <2> HIDE DEF F
  <2> QED
    BY <1>1, <1>7, <2>1, <2>2, <2>3
<1>10. startup'.all = Alone.all \cup UNION {With(q) : q \in DOMAIN discovered'}
  <2> HIDE DEF With
  <2> QED
    BY <1>9
<1>11. OrderIrrelevant'
  BY <1>1, <1>10 DEF OrderIrrelevant, Alone
<1>12. DOMAIN discovered' \cap asked' = {}
  BY <1>1 DEF Merged
<1> QED
  BY <1>1, <1>5, <1>6, <1>11, <1>12 DEF Merged, Alone

LEMMA StepMerged == Merged /\ [Next]_vars => Merged'
<1> SUFFICES ASSUME Merged, [Next]_vars
             PROVE  Merged'
  OBVIOUS
<1>1. ASSUME UNCHANGED discovery
      PROVE  Merged'
  BY <1>1 DEF Merged, OrderIrrelevant, discovery
<1>2. ASSUME NEW p \in asked, DiscoverFails(p)
      PROVE  Merged'
  BY <1>2 DEF DiscoverFails, Merged, OrderIrrelevant
<1>3. ASSUME NEW w \in Reloaders, Reload(w)
      PROVE  UNCHANGED discovery
  BY <1>3 DEF Reload, Read, Swap, CallbackStep, AddNode, RemoveNode, Install
<1>4. CASE (\E f \in Names : Edit(f)) \/ Notice \/ Fire
  BY <1>1, <1>4 DEF Edit, Notice, Fire
<1>5. CASE UNCHANGED vars
  BY <1>1, <1>5 DEF vars
<1> QED
  BY <1>1, <1>2, <1>3, <1>4, <1>5, AnswerMerged DEF Next

\* The inductive invariant (config.Watcher, main.go:146-188, and discoverModels).
THEOREM ReloadHolds == Spec => []ReloadIInv
<1>1. Init => ReloadIInv
  BY InitTypes, InitMerged DEF ReloadIInv
<1>2. ReloadIInv /\ [Next]_vars => ReloadIInv'
  BY StepTypes, StepMerged DEF ReloadIInv
<1> QED
  BY <1>1, <1>2, PTL DEF Spec

-----------------------------------------------------------------------------
(* The order of answers, and what discovery takes away *)

\* Whatever the order in which the providers answered, the registry is the one
\* in which each was merged into the configuration alone
\* (SetDiscoveredModels, registry.go:264-364).
THEOREM OneOrder == Spec => []OrderIrrelevant
<1>1. ReloadIInv => OrderIrrelevant
  BY DEF ReloadIInv, Merged
<1> QED
  BY <1>1, ReloadHolds, PTL

\* Discovery never takes a model from a provider (ForModel, registry.go:179-192,
\* SetDiscoveredModels, registry.go:264-364).
THEOREM NothingLost == Spec => NeverUnserved
<1>1. ASSUME ReloadIInv, [Next]_vars, NEW m \in Models
      PROVE  Providers(ForModel(startup, m)) \subseteq Providers(ForModel(startup', m))
  <2>1. CASE \E p \in asked : \E models \in Answers : Discover(p, models)
    <3> PICK p \in asked, models \in Answers : Discover(p, models)
      BY <2>1
    <3>1. \A e \in startup.all : e.discovered => e.provider # p
      BY <1>1, AskedOnce DEF ReloadIInv
    <3>2. startup' = IF Known(startup, p) = {} THEN startup
                     ELSE [all |-> startup.all \cup FreshEntries(startup, p, models),
                           any |-> startup.any,
                           injected |-> startup.injected \cup {p}]
      BY <3>1, AnswerAdds DEF Discover
    <3>3. startup'.any = startup.any /\ startup.all \subseteq startup'.all
      BY <3>2
    <3> QED
      BY <3>3, MoreEntriesMoreProviders
  <2>2. CASE startup' = startup
    BY <2>2
  <2> QED
    BY <1>1, <2>1, <2>2
       DEF Next, vars, discovery, Edit, Notice, Fire, Reload, Read, Swap, CallbackStep,
           AddNode, RemoveNode, Install, DiscoverFails
<1>2. ReloadIInv /\ [Next]_vars =>
        [\A m \in Models :
           Providers(ForModel(startup, m)) \subseteq Providers(ForModel(startup', m))]_startup
  BY <1>1
<1> QED
  BY <1>2, ReloadHolds, PTL DEF Spec, NeverUnserved

-----------------------------------------------------------------------------
(* The default model *)

\* A provider that accepts any model serves this one, by that or by an entry.
LEMMA AnyServes ==
    ASSUME NEW r, NEW m, r.any # {}
    PROVE  ForModel(r, m) # {}
<1> PICK a \in r.any : TRUE
  OBVIOUS
<1>1. CASE ByModel(r, m) # {}
  BY <1>1 DEF ForModel
<1>2. CASE ByModel(r, m) = {}
  <2>1. AsEntry(a, m) \in ForModel(r, m)
    BY <1>2 DEF ForModel
  <2> QED
    BY <2>1
<1> QED
  BY <1>1, <1>2

\* The registry that is built from a file serves its default model.
LEMMA BuiltServes ==
    ASSUME NEW f \in Valid, Files[f].default # NoModel
    PROVE  ForModel(Build(Configs[f]), Files[f].default) # {}
<1> DEFINE m == Files[f].default
           c == Configs[f]
           ps == Load(Files[f]).providers
<1>1. Loads(Files[f]) /\ IsFile(Files[f]) /\ c.providers = ps
  BY ConfigType
<1>2. CASE IsNewSchema(Files[f])
  <2>1. PICK i \in DOMAIN ps : ps[i].models = <<>> /\ ~ps[i].skipped
    BY <1>1, <1>2, SectionsAcceptAny DEF Load
  <2>2. i \in {k \in Used(c) : c.providers[k].models = <<>>}
    BY <1>1, <2>1 DEF Used
  <2> HIDE DEF c
  <2>3. AnyOf(c, i) \in Build(c).any
    BY <2>2 DEF Build
  <2> QED
    BY <2>3, AnyServes DEF c
<1>3. CASE ~IsNewSchema(Files[f])
  <2>1. PICK i \in DOMAIN ps : ~ps[i].skipped /\ Offered(ps[i], m)
    BY <1>1, <1>3 DEF Loads, Validate
  <2>2. PICK k \in DOMAIN ps[i].models : ps[i].models[k].id = m
    BY <2>1 DEF Offered
  <2>3. i \in Used(c)
    BY <1>1, <2>1 DEF Used
  <2> DEFINE n == c.providers[i].models[k]
             e == Entry(c.providers[i].id, n.id, n.priority, c.providers[i].remote, FALSE)
  <2>4. n \in Range(c.providers[i].models) /\ n.id = m
    BY <1>1, <2>2 DEF Range
  <2>5. e.model = m
    BY <2>4 DEF Entry
  <2>6. e \in Build(c).all
    <3> HIDE DEF c, n
    <3> QED
      BY <2>3, <2>4, BuiltEntries
  <2> HIDE DEF e, c, m
  <2> QED
    BY <2>5, <2>6 DEF ForModel, ByModel, c, m
<1> QED
  BY <1>2, <1>3

\* Whatever has been loaded, somebody serves the default model
\* (validate, rule 5, config.go:458-478).
THEOREM DefaultModelServed == Spec => []DefaultServed
<1>1. ASSUME ReloadIInv
      PROVE  DefaultServed
  <2> DEFINE m == Files[installed].default
  <2> SUFFICES ASSUME m # NoModel
               PROVE  ForModel(Routing, m) # {}
    BY DEF DefaultServed
  <2>1. installed \in Valid /\ (~updated => installed = boot)
    BY <1>1 DEF ReloadIInv, TypeOK
  <2>2. ForModel(Build(Configs[installed]), m) # {}
    BY <2>1, BuiltServes
  <2>3. CASE updated
    BY <2>2, <2>3 DEF Routing
  <2>4. CASE ~updated
    <3>1. ForModel(Alone, m) # {}
      BY <2>1, <2>2, <2>4 DEF Alone
    <3>2. Providers(ForModel(Alone, m)) \subseteq Providers(ForModel(startup, m))
      <4>1. Alone.all \subseteq startup.all /\ startup.any = Alone.any
        BY <1>1, MergedParts DEF ReloadIInv, Merged, Alone
      <4> QED
        BY <4>1, MoreEntriesMoreProviders
    <3>3. ForModel(startup, m) # {}
      BY <3>1, <3>2 DEF Providers
    <3> QED
      BY <2>4, <3>3 DEF Routing
  <2> QED
    BY <2>3, <2>4
<1> QED
  BY <1>1, ReloadHolds, PTL

-----------------------------------------------------------------------------
(* The place of what has been discovered *)

\* The entries of a configuration are finitely many, and their priorities numbers.
LEMMA BuiltPriorities ==
    ASSUME NEW f \in Valid
    PROVE  LET P == {e.priority : e \in Build(Configs[f]).all}
           IN IsFiniteSet(P) /\ P \subseteq Int
<1> DEFINE ps == Configs[f].providers
           U == Used(Configs[f])
           g == [i \in U |-> EntriesOf(ps[i])]
           A == Build(Configs[f]).all
           h == [e \in A |-> e.priority]
<1>1. ps \in Seq(ProviderConfigs)
  BY ConfigType
<1>2. IsFiniteSet(U) /\ U \subseteq DOMAIN ps
  <2>1. IsFiniteSet(DOMAIN ps) /\ U \subseteq DOMAIN ps
    BY <1>1, SeqParts DEF Used
  <2> HIDE DEF U, ps
  <2> QED
    BY <2>1, FS_Subset
<1>3. ASSUME NEW i \in U
      PROVE  /\ IsFiniteSet(EntriesOf(ps[i]))
             /\ \A e \in EntriesOf(ps[i]) : e.priority \in Int
  <2> DEFINE R == Range(ps[i].models)
             k == [m \in R |-> Entry(ps[i].id, m.id, m.priority, ps[i].remote, FALSE)]
  <2>1. ps[i].models \in Seq(ModelSpecs)
    BY <1>1, <1>2, SeqParts, ModelsType
  <2>2. IsFiniteSet(R) /\ R \subseteq ModelSpecs
    BY <2>1, RangeFinite
  <2>3. EntriesOf(ps[i]) = {k[m] : m \in R}
    BY DEF EntriesOf
  <2>4. \A m \in R : k[m].priority \in Int
    <3>1. \A m \in R : k[m].priority = m.priority
      BY DEF Entry
    <3>2. \A m \in R : m.priority \in Int
      BY <2>2 DEF ModelSpecs
    <3> QED
      BY <3>1, <3>2
  <2> HIDE DEF R, k
  <2> QED
    BY <2>2, <2>3, <2>4, ImageFinite
<1>4. A = UNION {g[i] : i \in U}
  BY DEF Build
<1>5. \A i \in U : g[i] = EntriesOf(ps[i])
  OBVIOUS
<1> HIDE DEF A, U, g, ps
<1>6. IsFiniteSet(A)
  <2>1. IsFiniteSet({g[i] : i \in U})
    BY <1>2, ImageFinite
  <2>2. \A t \in {g[i] : i \in U} : IsFiniteSet(t)
    BY <1>3, <1>5
  <2> QED
    BY <1>4, <2>1, <2>2, FS_UNION
<1>7. \A e \in A : e.priority \in Int
  BY <1>3, <1>4, <1>5
<1>8. IsFiniteSet({h[e] : e \in A})
  <2> HIDE DEF h
  <2> QED
    BY <1>6, ImageFinite
<1>9. {h[e] : e \in A} = {e.priority : e \in A}
  OBVIOUS
<1>10. IsFiniteSet({e.priority : e \in A}) /\ {e.priority : e \in A} \subseteq Int
  BY <1>7, <1>8, <1>9
<1> QED
  BY <1>10 DEF A

\* What a provider with a list of models offers beyond it comes after every
\* entry of the configuration (registry.go:288-309).
THEOREM DiscoveredBehind == Spec => []DiscoveredLast
<1>1. ASSUME ReloadIInv
      PROVE  DiscoveredLast
  <2> SUFFICES ASSUME NEW d \in startup.all, NEW e \in startup.all, d.discovered,
                      AnyModel(startup, d.provider) = {}, ~e.discovered
               PROVE  EntryLess(e, d)
    BY DEF DiscoveredLast
  <2> DEFINE p == d.provider
             list == discovered[p]
             fresh == Fresh(Alone, p, list)
             P == {x.priority : x \in Alone.all}
             Q == {0} \cup P
  <2>1. Merged /\ boot \in Valid
    BY <1>1 DEF ReloadIInv, TypeOK
  <2>2. /\ p \in DOMAIN discovered
        /\ d \in FreshEntries(Alone, p, list)
        /\ e \in Alone.all
    BY <2>1, MergedParts
  <2>3. AnyModel(Alone, p) = {}
    BY <2>1 DEF Merged, Alone, AnyModel
  <2>4. PICK i \in fresh : d = FreshEntry(Alone, p, list, i)
    <3> HIDE DEF list, p
    <3> QED
      BY <2>2, FreshEntriesShape
  <2>5. d.priority = BasePriority(Alone, p) + Cardinality({k \in fresh : k < i})
    <3> HIDE DEF list, p
    <3> QED
      BY <2>4, FreshEntryFields DEF FreshPriority
  <2>6. BasePriority(Alone, p) = 1 + Max(Q)
    <3>1. {x \in Alone.all : ~x.discovered} = Alone.all
      BY <2>1, MergedParts
    <3> QED
      BY <2>3, <3>1 DEF BasePriority
  <2>7. Cardinality({k \in fresh : k < i}) \in Nat
    <3>1. list \in Answers
      BY <1>1, <2>2 DEF ReloadIInv, TypeOK
    <3>2. list \in Seq(Int)
      BY <3>1, AnswersAssumption
    <3> HIDE DEF list, p
    <3>3. IsFiniteSet(DOMAIN list) /\ fresh \subseteq DOMAIN list
      BY <3>2, SeqParts DEF Fresh
    <3> HIDE DEF fresh
    <3>4. {k \in fresh : k < i} \in SUBSET DOMAIN list
      BY <3>3
    <3> QED
      BY <3>3, <3>4, FS_Subset, FS_CardinalityType
  <2>8. IsFiniteSet(P) /\ P \subseteq Int
    BY <2>1, BuiltPriorities DEF Alone
  <2>9. IsFiniteSet(Q) /\ Q \subseteq Int /\ Q # {}
    <3> HIDE DEF P
    <3>1. IsFiniteSet({0})
      BY FS_Singleton
    <3> QED
      BY <2>8, <3>1, FS_Union
  <2>10. e.priority \in Q
    BY <2>2
  <2> HIDE DEF Q, P, fresh, list, p
  <2>11. Max(Q) \in Int /\ e.priority \in Int /\ e.priority <= Max(Q)
    BY <2>9, <2>10, GreatestNumber
  <2>12. e.priority < d.priority
    BY <2>5, <2>6, <2>7, <2>11
  <2> QED
    BY <2>12 DEF EntryLess
<1> QED
  BY <1>1, ReloadHolds, PTL

-----------------------------------------------------------------------------
(* No provider twice *)

\* What makes the lists of a registry free of repetition.
Separate(r) ==
    /\ \A a, b \in r.any : a.provider = b.provider => a = b
    /\ \A d, e \in r.all : d.provider = e.provider /\ d.model = e.model => d = e
    /\ \A a \in r.any, e \in r.all :
         a.provider = e.provider => e.discovered /\ a.provider \in r.injected

LEMMA SeparateLists ==
    ASSUME NEW r, Separate(r), NEW m, NEW d \in ForModel(r, m), NEW e \in ForModel(r, m),
           d.provider = e.provider
    PROVE  d = e
<1>1. \A x \in ForModel(r, m) :
        \/ x \in ByModel(r, m)
        \/ \E a \in r.any : /\ x = AsEntry(a, m)
                            /\ ~(/\ a.provider \in r.injected
                                 /\ \E y \in ByModel(r, m) : y.provider = a.provider)
  BY DEF ForModel
<1>2. \A a : AsEntry(a, m).provider = a.provider
  BY DEF AsEntry, Entry
<1>3. \A y \in ByModel(r, m) : y \in r.all /\ y.model = m
  BY DEF ByModel
<1>4. \A a \in r.any, y \in ByModel(r, m) :
         a.provider = y.provider => a.provider \in r.injected
  BY <1>3 DEF Separate
<1>5. CASE d \in ByModel(r, m) /\ e \in ByModel(r, m)
  BY <1>3, <1>5 DEF Separate
<1>6. CASE d \notin ByModel(r, m) /\ e \notin ByModel(r, m)
  BY <1>1, <1>2, <1>6 DEF Separate
<1> QED
  BY <1>1, <1>2, <1>4, <1>5, <1>6

LEMMA BuiltSeparate ==
    ASSUME NamedOnce, NEW f \in Valid
    PROVE  Separate(Build(Configs[f]))
<1> DEFINE c == Configs[f]
           ps == c.providers
<1>1. UniqueIds(ps)
  <2>1. Loads(Files[f]) /\ ps = Load(Files[f]).providers
    BY ConfigType
  <2> QED
    BY <2>1 DEF Loads, Validate, ValidateNewSchema
<1>2. \A i \in Used(c) : i \in DOMAIN ps
  BY DEF Used
<1>3. \A i \in DOMAIN ps : \A m, n \in Range(ps[i].models) : m.id = n.id => m = n
  BY DEF NamedOnce
<1> HIDE DEF c
<1>4. \A a \in Build(c).any : \E i \in Used(c) : a = AnyOf(c, i) /\ ps[i].models = <<>>
  BY DEF Build
<1>5. \A i : AnyOf(c, i).provider = ps[i].id
  BY DEF AnyOf
<1>6. ASSUME NEW e \in Build(c).all
      PROVE  \E i \in Used(c) : \E m \in Range(ps[i].models) :
                /\ e = Entry(ps[i].id, m.id, m.priority, ps[i].remote, FALSE)
                /\ e.provider = ps[i].id /\ e.model = m.id
  <2>1. PICK i \in Used(c) : \E m \in Range(ps[i].models) :
               e = Entry(ps[i].id, m.id, m.priority, ps[i].remote, FALSE)
    BY <1>6, BuiltEntries
  <2>2. PICK m \in Range(ps[i].models) :
               e = Entry(ps[i].id, m.id, m.priority, ps[i].remote, FALSE)
    BY <2>1
  <2>3. e.provider = ps[i].id /\ e.model = m.id
    BY <2>2 DEF Entry
  <2> QED
    BY <2>2, <2>3
<1> HIDE DEF ps
<1>7. ASSUME NEW a \in Build(c).any, NEW b \in Build(c).any, a.provider = b.provider
      PROVE  a = b
  BY <1>1, <1>2, <1>4, <1>5, <1>7 DEF UniqueIds
<1>8. ASSUME NEW d \in Build(c).all, NEW e \in Build(c).all,
             d.provider = e.provider, d.model = e.model
      PROVE  d = e
  <2>0. PICK i \in Used(c) : \E m \in Range(ps[i].models) :
               /\ d = Entry(ps[i].id, m.id, m.priority, ps[i].remote, FALSE)
               /\ d.provider = ps[i].id /\ d.model = m.id
    BY <1>6
  <2>1. PICK m \in Range(ps[i].models) :
               /\ d = Entry(ps[i].id, m.id, m.priority, ps[i].remote, FALSE)
               /\ d.provider = ps[i].id /\ d.model = m.id
    BY <2>0
  <2>2a. PICK j \in Used(c) : \E n \in Range(ps[j].models) :
               /\ e = Entry(ps[j].id, n.id, n.priority, ps[j].remote, FALSE)
               /\ e.provider = ps[j].id /\ e.model = n.id
    BY <1>6
  <2>2. PICK n \in Range(ps[j].models) :
               /\ e = Entry(ps[j].id, n.id, n.priority, ps[j].remote, FALSE)
               /\ e.provider = ps[j].id /\ e.model = n.id
    BY <2>2a
  <2>3. i = j
    BY <1>1, <1>2, <1>8, <2>1, <2>2 DEF UniqueIds
  <2>4. m = n
    BY <1>2, <1>3, <1>8, <2>1, <2>2, <2>3
  <2> QED
    BY <2>1, <2>2, <2>3, <2>4
<1>9. ASSUME NEW a \in Build(c).any, NEW e \in Build(c).all, a.provider = e.provider
      PROVE  FALSE
  <2>1. PICK i \in Used(c) : a.provider = ps[i].id /\ ps[i].models = <<>>
    BY <1>4, <1>5
  <2>2. PICK j \in Used(c) : e.provider = ps[j].id /\ Range(ps[j].models) # {}
    BY <1>6
  <2>3. i = j
    BY <1>1, <1>2, <1>9, <2>1, <2>2 DEF UniqueIds
  <2>4. Range(<<>>) = {}
    BY DEF Range
  <2> QED
    BY <2>1, <2>2, <2>3, <2>4
<1>10. Separate(Build(c))
  BY <1>7, <1>8, <1>9 DEF Separate
<1> QED
  BY <1>10 DEF c

LEMMA MergedSeparate ==
    ASSUME NamedOnce, ReloadIInv
    PROVE  Separate(startup)
<1>1. Merged /\ boot \in Valid /\ \A p \in DOMAIN discovered : discovered[p] \in Answers
  BY DEF ReloadIInv, TypeOK
<1>2. Separate(Alone) /\ \A e \in Alone.all : ~e.discovered
  BY <1>1, BuiltSeparate, MergedParts DEF Alone
<1>3. startup.any = Alone.any
  BY <1>1 DEF Merged, Alone
<1>4. \A e \in startup.all : ~e.discovered => e \in Alone.all
  BY <1>1, MergedParts
<1>5. ASSUME NEW e \in startup.all, e.discovered
      PROVE  /\ e.provider \in startup.injected
             /\ e.provider \in DOMAIN discovered
             /\ \E i \in Fresh(Alone, e.provider, discovered[e.provider]) :
                  /\ e = FreshEntry(Alone, e.provider, discovered[e.provider], i)
                  /\ e.model = discovered[e.provider][i]
  <2> DEFINE p == e.provider
             list == discovered[p]
  <2>1. p \in DOMAIN discovered /\ Known(Alone, p) # {} /\ e \in FreshEntries(Alone, p, list)
    BY <1>1, <1>5, MergedParts
  <2>2. p \in startup.injected
    BY <1>1, <2>1 DEF Merged, Alone
  <2> HIDE DEF list, p
  <2>3. PICK i \in Fresh(Alone, p, list) : e = FreshEntry(Alone, p, list, i)
    BY <2>1, FreshEntriesShape
  <2>4. e.model = list[i]
    BY <2>3, FreshEntryFields
  <2> QED
    BY <2>1, <2>2, <2>3, <2>4 DEF list, p
<1>6. ASSUME NEW d \in startup.all, NEW e \in startup.all,
             d.provider = e.provider, d.model = e.model, d.discovered
      PROVE  d = e
  <2> DEFINE p == d.provider
             list == discovered[p]
  <2>1. PICK i \in Fresh(Alone, p, list) :
               d = FreshEntry(Alone, p, list, i) /\ d.model = list[i]
    BY <1>5, <1>6
  <2>2. CASE e.discovered
    <3>1. PICK j \in Fresh(Alone, p, list) :
                 e = FreshEntry(Alone, p, list, j) /\ e.model = list[j]
      BY <1>5, <1>6, <2>2
    <3>2. IsInjective(list)
      BY <1>1, <1>5, <1>6 DEF NamedOnce
    <3>3. i = j
      BY <1>6, <2>1, <3>1, <3>2 DEF IsInjective, Fresh
    <3> QED
      BY <2>1, <3>1, <3>3
  <2>3. CASE ~e.discovered
    <3>1. e \in Configured(Alone, p)
      BY <1>4, <1>6, <2>3 DEF Configured
    <3> QED
      BY <1>6, <2>1, <3>1 DEF Fresh
  <2> QED
    BY <2>2, <2>3
<1>7. \A d, e \in startup.all : d.provider = e.provider /\ d.model = e.model => d = e
  <2> SUFFICES ASSUME NEW d \in startup.all, NEW e \in startup.all,
                      d.provider = e.provider, d.model = e.model
               PROVE  d = e
    OBVIOUS
  <2>1. CASE d.discovered
    BY <1>6, <2>1
  <2>2. CASE e.discovered
    BY <1>6, <2>2
  <2>3. CASE ~d.discovered /\ ~e.discovered
    BY <1>2, <1>4, <2>3 DEF Separate
  <2> QED
    BY <2>1, <2>2, <2>3
<1>8. ASSUME NEW a \in startup.any, NEW e \in startup.all, a.provider = e.provider
      PROVE  e.discovered /\ a.provider \in startup.injected
  <2>1. CASE e.discovered
    BY <1>5, <1>8, <2>1
  <2>2. CASE ~e.discovered
    BY <1>2, <1>3, <1>4, <1>8, <2>2 DEF Separate
  <2> QED
    BY <2>1, <2>2
<1> QED
  BY <1>2, <1>3, <1>7, <1>8 DEF Separate

\* A request finds no provider twice in its list, if nobody names a model twice
\* for a provider (ForModel, registry.go:179-192).
THEOREM NoneTwice ==
    ASSUME NamedOnce
    PROVE  Spec => []NoProviderTwice
<1>1. ASSUME ReloadIInv
      PROVE  NoProviderTwice
  <2>1. Separate(Routing)
    <3>1. installed \in Valid
      BY <1>1 DEF ReloadIInv, TypeOK
    <3> QED
      BY <1>1, <3>1, BuiltSeparate, MergedSeparate DEF Routing
  <2> QED
    BY <2>1, SeparateLists DEF NoProviderTwice
<1> QED
  BY <1>1, ReloadHolds, PTL

=============================================================================
