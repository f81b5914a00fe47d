-------------------------- MODULE ReportState_proofs --------------------------
(***************************************************************************)
(* A report shows a list of one moment and totals of a later one, for any  *)
(* providers, requests and reporters.  While a report is in a section of   *)
(* its own nobody records, so that the rows made so far are up to date and *)
(* the totals lack what is still to be visited; between sections the       *)
(* outcomes that are recorded only grow.                                   *)
(*                                                                         *)
(* Rows and totals are compared through sums over sets of providers, which *)
(* are recursive: the first part proves what is needed of them.            *)
(*                                                                         *)
(* The last part is about the other account of a provider, the verdicts of *)
(* HealthMonitor: the streaks of a status tell of the latest results of    *)
(* its node, so that the results earn every change of its state.           *)
(***************************************************************************)
EXTENDS ReportState, FiniteSetTheorems, SequenceTheorems, WellFoundedInduction, TLAPS

-----------------------------------------------------------------------------
(* Sums over finite sets *)

\* The element that is taken first, and the recursion of MapThenSumSet.
Picked(s) == CHOOSE x \in s : TRUE

SumBody(h, f, s) == IF s = {} THEN 0 ELSE f[Picked(s)] + h[s \ {Picked(s)}]

IsSum(h, f, S) == h = [s \in SUBSET S |-> SumBody(h, f, s)]

\* Every set of numbers that is not empty has a least one.  What is proved by
\* induction below is proved of the least counterexample.
LEMMA LeastNumber ==
    ASSUME NEW T \in SUBSET Nat, T # {}
    PROVE  \E n \in T : \A m \in T : n <= m
<1> DEFINE Less == {ss \in Nat \X Nat : ss[1] < ss[2]}
<1>1. OpToRel(<, Nat) = Less
  BY DEF OpToRel
<1>2. IsWellFoundedOn(Less, Nat)
  BY <1>1, NatLessThanWellFounded
<1>3. \A m, n \in Nat : <<m, n>> \in Less <=> m < n
  OBVIOUS
<1> HIDE DEF Less
<1>4. PICK n \in T : \A m \in T : <<m, n>> \notin Less
  BY <1>2, WFMin
<1>5. n \in Nat /\ \A m \in T : m \in Nat
  OBVIOUS
<1>6. \A m \in T : ~(m < n)
  BY <1>3, <1>4, <1>5
<1> QED
  BY <1>5, <1>6

\* A finite set without the element that the sum takes first.
LEMMA PickedSmaller ==
    ASSUME NEW s, IsFiniteSet(s), s # {}
    PROVE  /\ Picked(s) \in s
           /\ Cardinality(s) \in Nat \ {0}
           /\ IsFiniteSet(s \ {Picked(s)})
           /\ Cardinality(s \ {Picked(s)}) = Cardinality(s) - 1
<1>1. Picked(s) \in s
  BY DEF Picked
<1> QED
  BY <1>1, FS_RemoveElement, FS_CardinalityType, FS_EmptySet

\* The recursive function of the sum exists, on the subsets of a finite set.
LEMMA SumExists ==
    ASSUME NEW f, NEW S, IsFiniteSet(S)
    PROVE  \E h : IsSum(h, f, S)
<1> DEFINE Upto(h, n) == \A s \in SUBSET S : Cardinality(s) <= n => h[s] = SumBody(h, f, s)
           Bad == {n \in Nat : ~ \E h : Upto(h, n)}
<1>0. \A s \in SUBSET S : /\ IsFiniteSet(s) /\ Cardinality(s) \in Nat
                          /\ Cardinality(s) <= Cardinality(S)
                          /\ (Cardinality(s) = 0 <=> s = {})
  BY FS_Subset, FS_CardinalityType, FS_EmptySet
<1>1. ASSUME NEW n \in Bad, \A m \in Bad : n <= m
      PROVE  FALSE
  <2>1. n \in Nat /\ ~ \E h : Upto(h, n)
    OBVIOUS
  <2>2. CASE n = 0
    <3> DEFINE h == [s \in SUBSET S |-> 0]
    <3>1. Upto(h, 0)
      BY <1>0 DEF SumBody
    <3> QED
      BY <2>1, <2>2, <3>1
  <2>3. CASE n # 0
    <3>1. n - 1 \in Nat /\ n - 1 \notin Bad
      BY <1>1, <2>1, <2>3
    <3> PICK g : Upto(g, n - 1)
      BY <3>1
    <3> DEFINE h == [s \in SUBSET S |-> IF Cardinality(s) < n THEN g[s] ELSE SumBody(g, f, s)]
    <3>2. ASSUME NEW s \in SUBSET S, Cardinality(s) <= n
          PROVE  h[s] = SumBody(h, f, s)
      <4>1. h[s] = SumBody(g, f, s)
        BY <1>0, <2>1, <3>2
      <4>2. CASE s = {}
        BY <4>1, <4>2 DEF SumBody
      <4>3. CASE s # {}
        <5> DEFINE t == s \ {Picked(s)}
        <5>1. t \in SUBSET S /\ Cardinality(t) < n
          BY <1>0, <2>1, <3>2, <4>3, PickedSmaller
        <5>2. h[t] = g[t]
          BY <5>1
        <5> QED
          BY <4>1, <4>3, <5>2 DEF SumBody
      <4> QED
        BY <4>2, <4>3
    <3> QED
      BY <2>1, <3>2
  <2> QED
    BY <2>2, <2>3
<1>2. Cardinality(S) \notin Bad
  BY <1>1, LeastNumber
<1>3. Cardinality(S) \in Nat
  BY FS_CardinalityType
<1> PICK h : Upto(h, Cardinality(S))
  BY <1>2, <1>3
<1> DEFINE k == [s \in SUBSET S |-> h[s]]
<1>4. ASSUME NEW s \in SUBSET S
      PROVE  k[s] = SumBody(k, f, s)
  <2>1. h[s] = SumBody(h, f, s)
    BY <1>0
  <2>2. s \ {Picked(s)} \in SUBSET S
    OBVIOUS
  <2> QED
    BY <2>1, <2>2 DEF SumBody
<1>5. k = [s \in SUBSET S |-> SumBody(k, f, s)]
  <2> DEFINE kk == [s \in SUBSET S |-> SumBody(k, f, s)]
  <2>1. \A s \in SUBSET S : k[s] = kk[s]
    BY <1>4
  <2> QED
    BY <2>1
<1> QED
  BY <1>5 DEF IsSum

\* What it gives for a set does not depend on the set it was started with.
LEMMA SumUnique ==
    ASSUME NEW f, NEW S, NEW T, IsFiniteSet(S), T \subseteq S,
           NEW h, NEW k, IsSum(h, f, S), IsSum(k, f, T)
    PROVE  h[T] = k[T]
<1> DEFINE Bad == {Cardinality(s) : s \in {u \in SUBSET T : h[u] # k[u]}}
<1>0. \A s \in SUBSET T : IsFiniteSet(s) /\ Cardinality(s) \in Nat
  BY FS_Subset, FS_CardinalityType
<1>1. ASSUME NEW n \in Bad, \A m \in Bad : n <= m
      PROVE  FALSE
  <2> PICK s \in SUBSET T : h[s] # k[s] /\ n = Cardinality(s)
    OBVIOUS
  <2>1. h[s] = SumBody(h, f, s) /\ k[s] = SumBody(k, f, s)
    <3>1. s \in SUBSET S
      OBVIOUS
    <3> QED
      BY <3>1, Zenon DEF IsSum
  <2>2. s # {}
    BY <2>1 DEF SumBody
  <2> DEFINE t == s \ {Picked(s)}
  <2>3. t \in SUBSET T /\ Cardinality(t) < n
    BY <1>0, <2>2, PickedSmaller
  <2>4. h[t] = k[t]
    BY <1>0, <1>1, <2>3
  <2> QED
    BY <2>1, <2>2, <2>4 DEF SumBody
<1>2. Bad \in SUBSET Nat
  BY <1>0
<1>3. Bad = {}
  BY <1>1, <1>2, LeastNumber
<1> QED
  BY <1>3

\* The sum is what such a function gives.
LEMMA SumIsSum ==
    ASSUME NEW f, NEW S, IsFiniteSet(S)
    PROVE  \E h : IsSum(h, f, S) /\ SumOver(f, S) = h[S]
<1> DEFINE H == CHOOSE h : IsSum(h, f, S)
<1>1. IsSum(H, f, S)
  BY SumExists, Zenon
<1>2. SumOver(f, S) = H[S]
  BY DEF SumOver, MapThenSumSet, MapThenFoldSet, IsSum, SumBody, Picked
<1> QED
  BY <1>1, <1>2

\* The sum over the empty set.
LEMMA SumOfNothing ==
    ASSUME NEW f
    PROVE  SumOver(f, {}) = 0
<1> PICK h : IsSum(h, f, {}) /\ SumOver(f, {}) = h[{}]
  BY FS_EmptySet, SumIsSum
<1> QED
  BY DEF IsSum, SumBody

\* The sum takes the elements one by one.
LEMMA SumPicked ==
    ASSUME NEW f, NEW S, IsFiniteSet(S), S # {}
    PROVE  SumOver(f, S) = f[Picked(S)] + SumOver(f, S \ {Picked(S)})
<1> DEFINE T == S \ {Picked(S)}
<1>1. IsFiniteSet(T) /\ T \subseteq S
  BY PickedSmaller
<1> PICK h : IsSum(h, f, S) /\ SumOver(f, S) = h[S]
  BY SumIsSum
<1> PICK k : IsSum(k, f, T) /\ SumOver(f, T) = k[T]
  BY <1>1, SumIsSum
<1>2. h[T] = k[T]
  BY <1>1, SumUnique
<1>3. h[S] = SumBody(h, f, S)
  BY Zenon DEF IsSum
<1> QED
  BY <1>2, <1>3 DEF SumBody

\* A sum of numbers is a number.
LEMMA SumNat ==
    ASSUME NEW f, NEW S, IsFiniteSet(S), \A x \in S : f[x] \in Nat
    PROVE  SumOver(f, S) \in Nat
<1> DEFINE Bad == {Cardinality(s) : s \in {u \in SUBSET S : SumOver(f, u) \notin Nat}}
<1>0. \A s \in SUBSET S : IsFiniteSet(s) /\ Cardinality(s) \in Nat
  BY FS_Subset, FS_CardinalityType
<1>1. ASSUME NEW n \in Bad, \A m \in Bad : n <= m
      PROVE  FALSE
  <2> PICK s \in SUBSET S : SumOver(f, s) \notin Nat /\ n = Cardinality(s)
    OBVIOUS
  <2>1. s # {}
    BY SumOfNothing
  <2> DEFINE c == Picked(s)
             t == s \ {c}
  <2>2. c \in s /\ t \in SUBSET S /\ Cardinality(t) < n
    BY <1>0, <2>1, PickedSmaller
  <2>3. SumOver(f, s) = f[c] + SumOver(f, t)
    BY <1>0, <2>1, SumPicked
  <2> HIDE DEF c, t
  <2>4. SumOver(f, t) \in Nat
    BY <1>0, <1>1, <2>2
  <2>5. f[c] \in Nat
    BY <2>2
  <2> QED
    BY <2>3, <2>4, <2>5
<1>2. Bad \in SUBSET Nat
  BY <1>0
<1>3. Bad = {}
  BY <1>1, <1>2, LeastNumber
<1> QED
  BY <1>3

\* The order is irrelevant: any element may be taken first.
LEMMA SumRemove ==
    ASSUME NEW f, NEW S, IsFiniteSet(S), \A x \in S : f[x] \in Nat,
           NEW x \in S
    PROVE  SumOver(f, S) = f[x] + SumOver(f, S \ {x})
<1> DEFINE Wrong(s, y) == SumOver(f, s) # f[y] + SumOver(f, s \ {y})
           Bad == {Cardinality(s) : s \in {u \in SUBSET S : \E y \in u : Wrong(u, y)}}
<1>0. \A s \in SUBSET S : /\ IsFiniteSet(s) /\ Cardinality(s) \in Nat
                          /\ SumOver(f, s) \in Nat
  BY FS_Subset, FS_CardinalityType, SumNat
<1>1. ASSUME NEW n \in Bad, \A m \in Bad : n <= m
      PROVE  FALSE
  <2> PICK s \in SUBSET S : (\E y \in s : Wrong(s, y)) /\ n = Cardinality(s)
    OBVIOUS
  <2> PICK y \in s : Wrong(s, y)
    OBVIOUS
  <2>0. ASSUME NEW u \in SUBSET S, NEW z \in u, Cardinality(u) < n
        PROVE  SumOver(f, u) = f[z] + SumOver(f, u \ {z})
    <3>1. n \in Nat /\ Cardinality(u) \in Nat
      BY <1>0
    <3>2. Cardinality(u) \notin Bad
      <4> HIDE DEF Bad
      <4> QED
        BY <1>1, <2>0, <3>1
    <3> QED
      BY <3>2
  <2> DEFINE c == Picked(s)
  <2>1. c \in s /\ Cardinality(s \ {c}) < n
    BY <1>0, PickedSmaller
  <2>2. SumOver(f, s) = f[c] + SumOver(f, s \ {c})
    BY <1>0, SumPicked
  <2> HIDE DEF c
  <2>3. y # c
    BY <2>2
  <2>4. Cardinality(s \ {y}) < n
    BY <1>0, FS_RemoveElement
  <2>5. SumOver(f, s \ {c}) = f[y] + SumOver(f, (s \ {c}) \ {y})
    <3>1. s \ {c} \in SUBSET S /\ y \in s \ {c}
      BY <2>3
    <3> QED
      BY <2>0, <2>1, <3>1
  <2>6. SumOver(f, s \ {y}) = f[c] + SumOver(f, (s \ {y}) \ {c})
    <3>1. s \ {y} \in SUBSET S /\ c \in s \ {y}
      BY <2>1, <2>3
    <3> QED
      BY <2>0, <2>4, <3>1
  <2>7. (s \ {c}) \ {y} = (s \ {y}) \ {c}
    OBVIOUS
  <2>8. SumOver(f, (s \ {y}) \ {c}) \in Nat /\ f[c] \in Nat /\ f[y] \in Nat
    BY <1>0, <2>1
  <2>9. SumOver(f, s) # f[y] + SumOver(f, s \ {y})
    OBVIOUS
  <2> HIDE DEF Wrong
  <2> QED
    BY <2>2, <2>5, <2>6, <2>7, <2>8, <2>9
<1>2. Bad \in SUBSET Nat
  BY <1>0
<1>3. Bad = {}
  BY <1>1, <1>2, LeastNumber
<1> QED
  BY <1>3

\* Elements that count nothing may be left out.
LEMMA SumSupport ==
    ASSUME NEW f, NEW g, NEW S, NEW T \in SUBSET S, IsFiniteSet(S),
           \A x \in S : f[x] \in Nat,
           \A x \in T : f[x] = g[x],
           \A x \in S \ T : f[x] = 0
    PROVE  SumOver(f, S) = SumOver(g, T)
<1> DEFINE Wrong(s) == SumOver(f, s) # SumOver(g, s \cap T)
           Bad == {Cardinality(s) : s \in {u \in SUBSET S : Wrong(u)}}
<1>0. \A s \in SUBSET S : IsFiniteSet(s) /\ Cardinality(s) \in Nat /\ SumOver(f, s) \in Nat
  BY FS_Subset, FS_CardinalityType, SumNat
<1>1. ASSUME NEW n \in Bad, \A m \in Bad : n <= m
      PROVE  FALSE
  <2> PICK s \in SUBSET S : Wrong(s) /\ n = Cardinality(s)
    OBVIOUS
  <2>1. s # {}
    <3>1. {} \cap T = {}
      OBVIOUS
    <3> QED
      BY <3>1, SumOfNothing
  <2> PICK x \in s : TRUE
    BY <2>1
  <2> DEFINE t == s \ {x}
  <2>2. t \in SUBSET S /\ Cardinality(t) < n
    BY <1>0, FS_RemoveElement
  <2>3. SumOver(f, s) = f[x] + SumOver(f, t)
    BY <1>0, SumRemove
  <2>4. SumOver(f, t) = SumOver(g, t \cap T)
    BY <1>0, <1>1, <2>2
  <2>5. CASE x \in T
    <3>1. IsFiniteSet(s \cap T) /\ x \in s \cap T
      BY <1>0, <2>5, FS_Subset
    <3>2. \A y \in s \cap T : g[y] \in Nat
      OBVIOUS
    <3>3. SumOver(g, s \cap T) = g[x] + SumOver(g, (s \cap T) \ {x})
      BY <3>1, <3>2, SumRemove
    <3>4. (s \cap T) \ {x} = t \cap T
      OBVIOUS
    <3>5. g[x] = f[x]
      BY <2>5
    <3> QED
      BY <2>3, <2>4, <3>3, <3>4, <3>5
  <2>6. CASE x \notin T
    <3>1. s \cap T = t \cap T /\ f[x] = 0
      BY <2>6
    <3>2. SumOver(f, t) \in Nat
      BY <1>0, <2>2
    <3>3. SumOver(f, s) = SumOver(f, t)
      BY <2>3, <3>1, <3>2
    <3> QED
      BY <2>4, <3>1, <3>3
  <2> QED
    BY <2>5, <2>6
<1>2. Bad \in SUBSET Nat
  BY <1>0
<1>3. Bad = {}
  BY <1>1, <1>2, LeastNumber
<1>4. S \cap T = T
  OBVIOUS
<1> QED
  BY <1>3, <1>4

\* One more in one place is one more in the sum.
LEMMA SumIncrement ==
    ASSUME NEW f, NEW g, NEW S, IsFiniteSet(S), NEW x \in S,
           \A y \in S : f[y] \in Nat,
           g[x] = f[x] + 1,
           \A y \in S \ {x} : g[y] = f[y]
    PROVE  SumOver(g, S) = SumOver(f, S) + 1
<1> DEFINE T == S \ {x}
<1>1. IsFiniteSet(T)
  BY FS_Subset
<1>2. \A y \in S : g[y] \in Nat
  OBVIOUS
<1>3. SumOver(f, S) = f[x] + SumOver(f, T)
  BY SumRemove
<1>4. SumOver(g, S) = g[x] + SumOver(g, T)
  BY <1>2, SumRemove
<1>5. SumOver(f, T) \in Nat
  BY <1>1, SumNat
<1>6. SumOver(g, T) = SumOver(f, T)
  BY <1>1, SumSupport
<1> HIDE DEF T
<1> QED
  BY <1>3, <1>4, <1>5, <1>6

-----------------------------------------------------------------------------
(* The counts *)

LEMMA OutcomesAreNumbers ==
    ASSUME NEW S, NEW counts \in [S -> Counts]
    PROVE  /\ DOMAIN Outcomes(counts) = S
           /\ \A p \in S : /\ Outcomes(counts)[p] = counts[p].requests + counts[p].failures
                           /\ Outcomes(counts)[p] \in Nat
BY DEF Outcomes, Counts

\* The providers without an outcome add nothing.
LEMMA KnownCounts ==
    ASSUME TypeOK
    PROVE  SumOver(Outcomes(total), Known) = SumOver(Outcomes(total), Providers)
<1>1. total \in [Providers -> Counts]
  BY DEF TypeOK
<1>2. \A p \in Providers : Outcomes(total)[p] \in Nat
  BY <1>1, OutcomesAreNumbers
<1>3. \A p \in Providers \ Known : Outcomes(total)[p] = 0
  BY <1>1, OutcomesAreNumbers DEF Known, Counts
<1>4. Known \in SUBSET Providers
  BY DEF Known
<1> QED
  BY <1>2, <1>3, <1>4, ProvidersAssumption, SumSupport

-----------------------------------------------------------------------------
(* The initial states *)

LEMMA InitReport == Init => ReportIInv
<1> SUFFICES ASSUME Init
             PROVE  ReportIInv
  OBVIOUS
<1>1. TypeOK
  BY DEF Init, TypeOK, Counts, NoTotals, Errors
<1>2. AllCounted
  <2> DEFINE nothing == [p \in {} |-> 0]
  <2>1. total \in [Providers -> Counts]
    BY <1>1 DEF TypeOK
  <2>2. \A p \in Providers : total[p].requests + total[p].failures = 0
    BY DEF Init
  <2>3. \A p \in Providers : Outcomes(total)[p] = 0
    BY <2>1, <2>2, OutcomesAreNumbers
  <2>4. SumOver(Outcomes(total), Providers) = SumOver(nothing, {})
    BY <2>3, ProvidersAssumption, SumSupport
  <2> QED
    BY <2>4, SumOfNothing DEF AllCounted, Init
<1>3. ListOfNow /\ RowsOfOneMoment /\ TotalsOfNow /\ TotalsLater
  BY DEF Init, ListOfNow, RowsOfOneMoment, TotalsOfNow, TotalsLater
<1> QED
  BY <1>1, <1>2, <1>3 DEF ReportIInv

-----------------------------------------------------------------------------
(* The steps *)

\* An outcome is one more of one provider.
LEMMA OneMoreOutcome ==
    ASSUME ReportIInv, NEW p \in Providers,
           \/ total' = [total EXCEPT ![p].requests = @ + 1]
           \/ total' = [total EXCEPT ![p].failures = @ + 1]
    PROVE  /\ total' \in [Providers -> Counts]
           /\ SumOver(Outcomes(total'), Providers) = SumOver(Outcomes(total), Providers) + 1
<1>1. total \in [Providers -> Counts]
  BY DEF ReportIInv, TypeOK
<1>2. total' \in [Providers -> Counts]
  BY <1>1 DEF Counts
<1>3. total'[p].requests + total'[p].failures = total[p].requests + total[p].failures + 1
  BY <1>1 DEF Counts
<1>4. \A x \in Providers \ {p} : total'[x] = total[x]
  BY <1>1
<1>5. Outcomes(total')[p] = Outcomes(total)[p] + 1
  BY <1>1, <1>2, <1>3, OutcomesAreNumbers
<1>6. \A x \in Providers \ {p} : Outcomes(total')[x] = Outcomes(total)[x]
  BY <1>1, <1>2, <1>4, OutcomesAreNumbers
<1>7. \A x \in Providers : Outcomes(total)[x] \in Nat
  BY <1>1, OutcomesAreNumbers
<1>8. SumOver(Outcomes(total'), Providers) = SumOver(Outcomes(total), Providers) + 1
  BY <1>5, <1>6, <1>7, ProvidersAssumption, SumIncrement
<1> QED
  BY <1>2, <1>8

\* Recording waits until no report is in a section.
LEMMA StepRecord ==
    ASSUME ReportIInv, NEW q \in Requests, Record(q)
    PROVE  ReportIInv'
<1> USE DEF ReportIInv
<1>1. \A r \in Reporters : section[r] # "list" /\ section[r] # "totals"
  BY DEF Record, Readers
<1>2. UNCHANGED reader
  BY DEF Record
<1> PICK p \in Providers :
          \/ RecordRequestSuccess(p) /\ recorded' = recorded + 1
          \/ RecordRequestFailure(p) /\ recorded' = recorded + 1
          \/ RecordProbeResult(p) /\ UNCHANGED recorded
  BY DEF Record
<1>3. /\ total' \in [Providers -> Counts]
      /\ recorded' \in {recorded, recorded + 1}
      /\ AllCounted'
  <2>1. CASE RecordProbeResult(p) /\ UNCHANGED recorded
    BY <2>1 DEF RecordProbeResult, TypeOK, AllCounted
  <2>2. CASE (RecordRequestSuccess(p) \/ RecordRequestFailure(p)) /\ recorded' = recorded + 1
    BY <2>2, OneMoreOutcome DEF RecordRequestSuccess, RecordRequestFailure, AllCounted
  <2> QED
    BY <2>1, <2>2
<1>4. probeFailed' \subseteq Providers /\ lastError' \in [Providers -> Errors \cup {"none"}]
  BY DEF TypeOK, RecordRequestSuccess, RecordRequestFailure, RecordProbeResult
<1>5. TypeOK'
  BY <1>2, <1>3, <1>4 DEF TypeOK, Record, reader
<1>6. ListOfNow' /\ TotalsOfNow'
  BY <1>1, <1>2 DEF ListOfNow, TotalsOfNow, reader
<1>7. RowsOfOneMoment' /\ TotalsLater'
  BY <1>2, <1>3 DEF RowsOfOneMoment, RowsTotal, TotalsLater, reader, TypeOK
<1> QED
  BY <1>3, <1>5, <1>6, <1>7

LEMMA StepBeginList ==
    ASSUME ReportIInv, NEW r \in Reporters, BeginList(r)
    PROVE  ReportIInv'
<1> USE DEF ReportIInv, BeginList, Enter
<1>1. TypeOK'
  <2>1. rows' = [s \in Reporters |-> rows'[s]]
    BY DEF TypeOK
  <2>2. \A s \in Reporters : rows'[s] \in [DOMAIN rows'[s] -> Counts] /\ DOMAIN rows'[s] \subseteq Providers
    <3>1. <<>> \in [DOMAIN <<>> -> Counts] /\ DOMAIN <<>> \subseteq Providers
      OBVIOUS
    <3>2. rows'[r] = <<>> /\ \A s \in Reporters \ {r} : rows'[s] = rows[s]
      BY DEF TypeOK
    <3> QED
      BY <3>1, <3>2 DEF TypeOK
  <2>3. Known \subseteq Providers
    BY DEF Known
  <2> QED
    BY <2>1, <2>2, <2>3 DEF TypeOK, store
<1>2. AllCounted'
  BY DEF AllCounted, store
<1>3. ListOfNow'
  <2>1. ASSUME NEW s \in Reporters, s # r
        PROVE  /\ section'[s] = section[s] /\ rows'[s] = rows[s]
               /\ todo'[s] = todo[s] /\ asOf'[s] = asOf[s]
    BY <2>1 DEF TypeOK
  <2>2. /\ rows'[r] = <<>> /\ todo'[r] = Known /\ asOf'[r] = recorded
    BY DEF TypeOK
  <2>3. Known' = Known /\ recorded' = recorded /\ total' = total
    BY DEF store, Known
  <2> QED
    BY <2>1, <2>2, <2>3 DEF ListOfNow
<1>4. RowsOfOneMoment'
  <2>1. section'[r] = "list"
    BY DEF TypeOK
  <2>2. \A s \in Reporters \ {r} : /\ section'[s] = section[s] /\ rows'[s] = rows[s]
                                   /\ asOf'[s] = asOf[s]
    BY DEF TypeOK
  <2> QED
    BY <2>1, <2>2 DEF RowsOfOneMoment, RowsTotal
<1>5. TotalsOfNow'
  <2>1. section'[r] = "list"
    BY DEF TypeOK
  <2>2. \A s \in Reporters \ {r} : section'[s] = section[s] /\ todo'[s] = todo[s]
    BY DEF TypeOK
  <2> QED
    BY <2>1, <2>2 DEF TotalsOfNow, store
<1>6. TotalsLater'
  BY DEF TotalsLater, TypeOK, store
<1> QED
  BY <1>1, <1>2, <1>3, <1>4, <1>5, <1>6

LEMMA StepVisitRow ==
    ASSUME ReportIInv, NEW r \in Reporters, VisitRow(r)
    PROVE  ReportIInv'
<1> USE DEF ReportIInv
<1> PICK p \in Providers :
          /\ Visit(r, "list", p)
          /\ rows' = [rows EXCEPT ![r] = [x \in DOMAIN @ \cup {p} |->
                                             IF x = p THEN total[p] ELSE @[x]]]
          /\ UNCHANGED header
  BY DEF VisitRow
<1> USE DEF Visit
<1>1. /\ rows'[r] = [x \in DOMAIN rows[r] \cup {p} |-> IF x = p THEN total[p] ELSE rows[r][x]]
      /\ todo'[r] = todo[r] \ {p}
      /\ section[r] = "list"
  BY DEF TypeOK
<1>2. \A s \in Reporters \ {r} : rows'[s] = rows[s] /\ todo'[s] = todo[s]
  BY DEF TypeOK
<1>3. TypeOK'
  <2>1. rows' = [s \in Reporters |-> rows'[s]]
    BY DEF TypeOK
  <2>2. rows'[r] \in [DOMAIN rows'[r] -> Counts] /\ DOMAIN rows'[r] \subseteq Providers
    BY <1>1 DEF TypeOK
  <2>3. \A s \in Reporters \ {r} :
            rows'[s] \in [DOMAIN rows'[s] -> Counts] /\ DOMAIN rows'[s] \subseteq Providers
    BY <1>2 DEF TypeOK
  <2> QED
    BY <2>1, <2>2, <2>3 DEF TypeOK, store
<1>4. AllCounted'
  BY DEF AllCounted, store
<1>5. ListOfNow'
  <2>1. Known' = Known
    BY DEF store, Known
  <2>2. /\ DOMAIN rows'[r] \cup todo'[r] = Known
        /\ DOMAIN rows'[r] \cap todo'[r] = {}
        /\ \A x \in DOMAIN rows'[r] : rows'[r][x] = total[x]
    BY <1>1 DEF ListOfNow
  <2> QED
    BY <1>1, <1>2, <2>1, <2>2 DEF ListOfNow, store
<1>6. RowsOfOneMoment'
  BY <1>1, <1>2 DEF RowsOfOneMoment, RowsTotal
<1>7. TotalsOfNow'
  BY <1>1, <1>2 DEF TotalsOfNow, store
<1>8. TotalsLater'
  BY DEF TotalsLater, store
<1> QED
  BY <1>3, <1>4, <1>5, <1>6, <1>7, <1>8

\* A list that is complete adds up to the outcomes recorded when it was begun.
LEMMA StepLeaveList ==
    ASSUME ReportIInv, NEW r \in Reporters, Leave(r, "list", "between")
    PROVE  ReportIInv'
<1> USE DEF ReportIInv, Leave
<1>1. section'[r] = "between" /\ section[r] = "list"
  BY DEF TypeOK
<1>2. \A s \in Reporters \ {r} : section'[s] = section[s]
  BY DEF TypeOK
<1>3. TypeOK'
  BY DEF TypeOK, store
<1>4. AllCounted'
  BY DEF AllCounted, store
<1>5. ListOfNow'
  BY <1>1, <1>2 DEF ListOfNow, store, Known
<1>6. RowsTotal(r) = asOf[r]
  <2>1. DOMAIN rows[r] = Known /\ \A p \in Known : rows[r][p] = total[p]
    BY <1>1 DEF ListOfNow
  <2>2. Known \subseteq Providers /\ total \in [Providers -> Counts]
    BY DEF Known, TypeOK
  <2>3. rows[r] \in [Known -> Counts]
    BY <2>1 DEF TypeOK
  <2>4. \A p \in Known : Outcomes(rows[r])[p] = Outcomes(total)[p] /\ Outcomes(rows[r])[p] \in Nat
    BY <2>1, <2>2, <2>3, OutcomesAreNumbers
  <2>5. IsFiniteSet(Known)
    BY <2>2, ProvidersAssumption, FS_Subset
  <2>6. SumOver(Outcomes(rows[r]), Known) = SumOver(Outcomes(total), Known)
    BY <2>4, <2>5, SumSupport
  <2>7. SumOver(Outcomes(total), Known) = recorded
    BY KnownCounts DEF AllCounted
  <2> QED
    BY <1>1, <2>1, <2>6, <2>7 DEF RowsTotal, ListOfNow
<1>7. RowsOfOneMoment'
  <2>1. \A s \in Reporters : RowsTotal(s)' = RowsTotal(s) /\ asOf'[s] = asOf[s]
    BY DEF RowsTotal
  <2> QED
    BY <1>1, <1>2, <1>6, <2>1 DEF RowsOfOneMoment
<1>8. TotalsOfNow'
  BY <1>1, <1>2 DEF TotalsOfNow, store
<1>9. TotalsLater'
  BY <1>1, <1>2 DEF TotalsLater, store
<1> QED
  BY <1>3, <1>4, <1>5, <1>7, <1>8, <1>9

LEMMA StepBeginTotals ==
    ASSUME ReportIInv, NEW r \in Reporters, BeginTotals(r)
    PROVE  ReportIInv'
<1> USE DEF ReportIInv, BeginTotals, Enter
<1>1. /\ section[r] = "between" /\ section'[r] = "totals"
      /\ header'[r] = NoTotals /\ todo'[r] = Known
  BY DEF TypeOK
<1>2. \A s \in Reporters \ {r} : /\ section'[s] = section[s] /\ header'[s] = header[s]
                                 /\ todo'[s] = todo[s]
  BY DEF TypeOK
<1>3. TypeOK'
  BY DEF TypeOK, store, Known, NoTotals
<1>4. AllCounted'
  BY DEF AllCounted, store
<1>5. ListOfNow'
  BY <1>1, <1>2 DEF ListOfNow, store, Known
<1>6. RowsOfOneMoment'
  BY <1>1, <1>2 DEF RowsOfOneMoment, RowsTotal
<1>7. TotalsOfNow'
  <2>1. header'[r].requests + header'[r].failures = 0
    BY <1>1 DEF NoTotals
  <2>2. SumOver(Outcomes(total'), todo'[r]) = recorded'
    BY <1>1, KnownCounts DEF AllCounted, store
  <2>3. recorded' \in Nat
    BY DEF TypeOK, store
  <2>4. header'[r].requests + header'[r].failures + SumOver(Outcomes(total'), todo'[r])
            = recorded'
    BY <2>1, <2>2, <2>3
  <2> QED
    BY <1>2, <2>4 DEF TotalsOfNow, store
<1>8. TotalsLater'
  BY <1>1, <1>2 DEF TotalsLater, store
<1> QED
  BY <1>3, <1>4, <1>5, <1>6, <1>7, <1>8

\* A provider goes from what is still to be visited to the totals.
LEMMA StepVisitTotals ==
    ASSUME ReportIInv, NEW r \in Reporters, VisitTotals(r)
    PROVE  ReportIInv'
<1> USE DEF ReportIInv
<1> PICK p \in Providers :
          /\ Visit(r, "totals", p)
          /\ header' = [header EXCEPT
                  ![r].requests = @ + total[p].requests,
                  ![r].failures = @ + total[p].failures,
                  ![r].blocked = @ + (IF Down(p) THEN 1 ELSE 0),
                  ![r].active = @ + (IF Down(p) THEN 0 ELSE 1)]
          /\ UNCHANGED rows
  BY DEF VisitTotals
<1> USE DEF Visit
<1>1. /\ section[r] = "totals" /\ p \in todo[r]
      /\ todo'[r] = todo[r] \ {p}
  BY DEF TypeOK
<1>2. /\ header'[r] \in [requests : Nat, failures : Nat, active : Nat, blocked : Nat]
      /\ header'[r].requests = header[r].requests + total[p].requests
      /\ header'[r].failures = header[r].failures + total[p].failures
  BY DEF TypeOK, Counts
<1>3. \A s \in Reporters \ {r} : header'[s] = header[s] /\ todo'[s] = todo[s]
  BY DEF TypeOK
<1>4. TypeOK'
  <2>1. header' \in [Reporters -> [requests : Nat, failures : Nat, active : Nat, blocked : Nat]]
    BY <1>2, <1>3 DEF TypeOK
  <2> QED
    BY <2>1 DEF TypeOK, store
<1>5. AllCounted'
  BY DEF AllCounted, store
<1>6. ListOfNow'
  BY <1>1, <1>3 DEF ListOfNow, store, Known
<1>7. RowsOfOneMoment'
  BY <1>1 DEF RowsOfOneMoment, RowsTotal
<1>8. TotalsOfNow'
  <2> DEFINE f == Outcomes(total)
  <2>1. total \in [Providers -> Counts] /\ todo[r] \subseteq Providers
    BY DEF TypeOK
  <2>2. IsFiniteSet(todo[r]) /\ IsFiniteSet(todo[r] \ {p})
    BY <2>1, ProvidersAssumption, FS_Subset
  <2>3. \A x \in Providers : f[x] \in Nat
    BY <2>1, OutcomesAreNumbers
  <2>4. f[p] = total[p].requests + total[p].failures
    BY <2>1, OutcomesAreNumbers
  <2>5. SumOver(f, todo[r]) = f[p] + SumOver(f, todo[r] \ {p})
    BY <1>1, <2>1, <2>2, <2>3, SumRemove
  <2>6. SumOver(f, todo[r] \ {p}) \in Nat
    BY <2>1, <2>2, <2>3, SumNat
  <2>7. header[r].requests + header[r].failures + SumOver(f, todo[r]) = recorded
    BY <1>1 DEF TotalsOfNow
  <2>8. /\ total[p].requests \in Nat /\ total[p].failures \in Nat
        /\ header[r].requests \in Nat /\ header[r].failures \in Nat
    BY DEF TypeOK, Counts
  <2> HIDE DEF f
  <2>9. header'[r].requests + header'[r].failures + SumOver(f, todo[r] \ {p}) = recorded
    BY <1>2, <2>4, <2>5, <2>6, <2>7, <2>8
  <2>10. \A s \in Reporters \ {r} : section[s] = "totals" =>
            header[s].requests + header[s].failures + SumOver(f, todo[s]) = recorded
    BY DEF TotalsOfNow, f
  <2>11. Outcomes(total') = f /\ recorded' = recorded /\ section' = section
    BY DEF f, store
  <2> QED
    BY <1>1, <1>3, <2>9, <2>10, <2>11 DEF TotalsOfNow
<1>9. TotalsLater'
  BY <1>1, <1>3 DEF TotalsLater, store
<1> QED
  BY <1>4, <1>5, <1>6, <1>7, <1>8, <1>9

\* Totals that are complete add up to all outcomes, those of the list included.
LEMMA StepLeaveTotals ==
    ASSUME ReportIInv, NEW r \in Reporters, Leave(r, "totals", "done")
    PROVE  ReportIInv'
<1> USE DEF ReportIInv, Leave
<1>1. section'[r] = "done" /\ section[r] = "totals"
  BY DEF TypeOK
<1>2. \A s \in Reporters \ {r} : section'[s] = section[s]
  BY DEF TypeOK
<1>3. TypeOK'
  BY DEF TypeOK, store
<1>4. AllCounted'
  BY DEF AllCounted, store
<1>5. ListOfNow'
  BY <1>1, <1>2 DEF ListOfNow, store, Known
<1>6. RowsOfOneMoment'
  BY <1>1, <1>2 DEF RowsOfOneMoment, RowsTotal
<1>7. TotalsOfNow'
  BY <1>1, <1>2 DEF TotalsOfNow, store
<1>8. header[r].requests + header[r].failures = recorded
  <2>1. header[r].requests + header[r].failures + SumOver(Outcomes(total), {}) = recorded
    BY <1>1 DEF TotalsOfNow
  <2>2. header[r].requests \in Nat /\ header[r].failures \in Nat
    BY DEF TypeOK
  <2> QED
    BY <2>1, <2>2, SumOfNothing
<1>9. TotalsLater'
  <2>1. asOf[r] \in Nat /\ recorded \in Nat /\ asOf[r] <= recorded
    BY DEF TypeOK, TotalsLater
  <2> QED
    BY <1>1, <1>2, <1>8, <2>1 DEF TotalsLater, store
<1> QED
  BY <1>3, <1>4, <1>5, <1>6, <1>7, <1>9

LEMMA StepAnswer ==
    ASSUME ReportIInv, NEW r \in Reporters, Answer(r)
    PROVE  ReportIInv'
<1> USE DEF ReportIInv, Answer
<1>1. section'[r] = "idle"
  BY DEF TypeOK
<1>2. \A s \in Reporters \ {r} : section'[s] = section[s]
  BY DEF TypeOK
<1>3. TypeOK'
  BY DEF TypeOK, store
<1>4. AllCounted'
  BY DEF AllCounted, store
<1>5. ListOfNow' /\ RowsOfOneMoment' /\ TotalsOfNow' /\ TotalsLater'
  BY <1>1, <1>2 DEF ListOfNow, RowsOfOneMoment, RowsTotal, TotalsOfNow, TotalsLater, store, Known
<1> QED
  BY <1>3, <1>4, <1>5

\* Steps that change neither the store nor what the reports have.
LEMMA StepElsewhere ==
    ASSUME ReportIInv,
           \/ \E q \in Requests : Announce(q)
           \/ UNCHANGED vars
    PROVE  ReportIInv'
<1>1. UNCHANGED <<store, reader>> /\ writer' \in Requests \cup {Nobody}
  BY DEF ReportIInv, TypeOK, Announce, vars
<1> USE <1>1 DEF ReportIInv, store, reader
<1>2. TypeOK' /\ AllCounted'
  BY DEF TypeOK, AllCounted
<1>3. ListOfNow' /\ RowsOfOneMoment' /\ TotalsOfNow' /\ TotalsLater'
  BY DEF ListOfNow, RowsOfOneMoment, RowsTotal, TotalsOfNow, TotalsLater, Known
<1> QED
  BY <1>2, <1>3

LEMMA StepReport == ReportIInv /\ [Next]_vars => ReportIInv'
<1> SUFFICES ASSUME ReportIInv, [Next]_vars
             PROVE  ReportIInv'
  OBVIOUS
<1>1. ASSUME NEW q \in Requests, Announce(q) \/ Record(q)
      PROVE  ReportIInv'
  BY <1>1, StepRecord, StepElsewhere
<1>2. ASSUME NEW r \in Reporters, HandleReport(r)
      PROVE  ReportIInv'
  BY <1>2, StepBeginList, StepVisitRow, StepLeaveList, StepBeginTotals, StepVisitTotals,
     StepLeaveTotals, StepAnswer DEF HandleReport
<1>3. CASE UNCHANGED vars
  BY <1>3, StepElsewhere
<1> QED
  BY <1>1, <1>2, <1>3 DEF Next

-----------------------------------------------------------------------------
(* The theorems *)

\* The inductive invariant.
THEOREM ReportHolds == Spec => []ReportIInv
BY InitReport, StepReport, PTL DEF Spec

\* The list of a report adds up to the outcomes that had been recorded when it
\* was begun (GetAllProviderStates under the read lock, report_state.go).
THEOREM OneMoment == Spec => []RowsOfOneMoment
<1>1. ReportIInv => RowsOfOneMoment
  BY DEF ReportIInv
<1> QED
  BY <1>1, ReportHolds, PTL

\* The totals of the page are never less than what its rows add up to
\* (handleReport reads the list first, handlers.go:190, 208).
THEOREM TotalsCover == Spec => []TotalsCoverRows
<1>1. ReportIInv => TotalsCoverRows
  <2> SUFFICES ASSUME ReportIInv, NEW r \in Reporters, section[r] = "done"
               PROVE  header[r].requests + header[r].failures >= RowsTotal(r)
    BY DEF TotalsCoverRows
  <2> QED
    BY DEF ReportIInv, RowsOfOneMoment, TotalsLater
<1> QED
  BY <1>1, ReportHolds, PTL

-----------------------------------------------------------------------------
(* Health: the monitor whose verdicts stand beside the counts of a report *)

CONSTANTS Nodes, Probed, MaxWorkers
VARIABLES states, current, started, node, pc, cancelled, result, answer, toProbe, posted

Health == INSTANCE HealthMonitor

\* q is the history p with one more result r, as far as it is kept.
Continues(q, p, r) ==
    /\ Len(q) >= 1 /\ q[Len(q)] = r
    /\ Len(q) >= 2 <=> Len(p) >= 1
    /\ Len(q) >= 3 <=> Len(p) >= 2
    /\ Len(q) >= 4 <=> Len(p) >= 3
    /\ Len(p) >= 1 => q[Len(q) - 1] = p[Len(p)]
    /\ Len(p) >= 2 => q[Len(q) - 2] = p[Len(p) - 1]
    /\ Len(p) >= 3 => q[Len(q) - 3] = p[Len(p) - 2]

\* A history with one more result at the end.
LEMMA Appended ==
    ASSUME NEW p \in Seq(Health!Marks), NEW r \in Health!Marks
    PROVE  /\ Append(p, r) \in Seq(Health!Marks) /\ Len(Append(p, r)) = Len(p) + 1
           /\ Len(p) \in Nat /\ Append(p, r)[Len(p) + 1] = r
           /\ \A i \in 1..Len(p) : Append(p, r)[i] = p[i]
  OBVIOUS

\* A history that is not full gets one more result.
LEMMA AppendContinues ==
    ASSUME NEW p \in Seq(Health!Marks), Len(p) < 4, NEW r \in Health!Marks
    PROVE  /\ Append(p, r) \in Seq(Health!Marks) /\ Len(Append(p, r)) <= 4
           /\ Continues(Append(p, r), p, r)
<1> DEFINE a == Append(p, r)
<1>1. /\ a \in Seq(Health!Marks) /\ Len(a) = Len(p) + 1 /\ Len(p) \in Nat
      /\ a[Len(p) + 1] = r /\ \A i \in 1..Len(p) : a[i] = p[i]
  OBVIOUS
<1> HIDE DEF a
<1>2. /\ Len(a) - 1 = Len(p) /\ Len(a) - 2 = Len(p) - 1 /\ Len(a) - 3 = Len(p) - 2
  BY <1>1
<1>3. Continues(a, p, r)
  BY <1>1, <1>2 DEF Continues
<1> QED
  BY <1>1, <1>3 DEF a

\* A full history loses its oldest result for the new one.
LEMMA TailContinues ==
    ASSUME NEW p \in Seq(Health!Marks), Len(p) = 4, NEW r \in Health!Marks
    PROVE  /\ Tail(Append(p, r)) \in Seq(Health!Marks) /\ Len(Tail(Append(p, r))) <= 4
           /\ Continues(Tail(Append(p, r)), p, r)
<1> DEFINE a == Append(p, r)
           q == Tail(a)
<1>1. /\ a \in Seq(Health!Marks) /\ Len(a) = Len(p) + 1 /\ Len(p) = 4
      /\ a[Len(p) + 1] = r /\ \A i \in 1..Len(p) : a[i] = p[i]
  BY Appended
<1> HIDE DEF a
<1>2. Len(a) = 5 /\ a[5] = r /\ a[4] = p[4] /\ a[3] = p[3] /\ a[2] = p[2]
  BY <1>1
<1>3. a # <<>>
  BY <1>2
<1>4. q \in Seq(Health!Marks) /\ Len(q) = Len(a) - 1 /\ \A i \in 1..Len(q) : q[i] = a[i + 1]
  BY <1>1, <1>3, HeadTailProperties, Zenon
<1> HIDE DEF q
<1>5. Len(q) = 4 /\ \A i \in 1..4 : q[i] = a[i + 1]
  BY <1>2, <1>4
<1>6. q[4] = a[5] /\ q[3] = a[4] /\ q[2] = a[3] /\ q[1] = a[2]
  <2>1. q[4] = a[4 + 1] /\ q[3] = a[3 + 1] /\ q[2] = a[2 + 1] /\ q[1] = a[1 + 1]
    BY <1>5
  <2> QED
    BY <2>1
<1>7. Len(q) - 1 = 3 /\ Len(q) - 2 = 2 /\ Len(q) - 3 = 1 /\ Len(p) - 1 = 3 /\ Len(p) - 2 = 2
  BY <1>1, <1>5
<1>8. Continues(q, p, r)
  BY <1>1, <1>2, <1>5, <1>6, <1>7 DEF Continues
<1>9. Len(q) <= 4
  BY <1>5
<1> QED
  BY <1>4, <1>8, <1>9, Zenon DEF q, a

\* Remember keeps the end of the history, and the histories of the others.
LEMMA RememberContinues ==
    ASSUME posted \in [Nodes -> Seq(Health!Marks)], NEW n \in Nodes, Len(posted[n]) <= 4,
           NEW r \in Health!Marks, Health!Remember(n, r)
    PROVE  /\ posted'[n] \in Seq(Health!Marks) /\ Len(posted'[n]) <= 4
           /\ Continues(posted'[n], posted[n], r)
           /\ posted' = [posted EXCEPT ![n] = posted'[n]]
<1> DEFINE p == posted[n]
           a == Append(p, r)
<1>1. p \in Seq(Health!Marks) /\ Len(p) \in Nat /\ Len(p) <= 4
  OBVIOUS
<1>2. /\ posted' = [posted EXCEPT ![n] = posted'[n]]
      /\ posted'[n] = IF Len(a) > 4 THEN Tail(a) ELSE a
  BY DEF Health!Remember
<1>3. Len(a) = Len(p) + 1
  BY <1>1
<1> HIDE DEF p, a
<1>4. CASE Len(p) < 4
  <2>1. posted'[n] = a
    BY <1>1, <1>2, <1>3, <1>4
  <2>2. a \in Seq(Health!Marks) /\ Len(a) <= 4 /\ Continues(a, p, r)
    BY <1>1, <1>4, AppendContinues DEF a
  <2> QED
    BY <1>2, <2>1, <2>2 DEF p
<1>5. CASE Len(p) = 4
  <2>1. posted'[n] = Tail(a)
    BY <1>1, <1>2, <1>3, <1>5
  <2>2. Tail(a) \in Seq(Health!Marks) /\ Len(Tail(a)) <= 4 /\ Continues(Tail(a), p, r)
    BY <1>1, <1>5, TailContinues DEF a
  <2> QED
    BY <1>2, <2>1, <2>2 DEF p
<1>6. Len(p) < 4 \/ Len(p) = 4
  <2>1. \A k \in Nat : k <= 4 => k < 4 \/ k = 4
    OBVIOUS
  <2> QED
    BY <1>1, <2>1, Zenon
<1> QED
  BY <1>4, <1>5, <1>6, Zenon

\* The patterns that streaks tell of, result by result.
LEMMA LatestByPlace ==
    ASSUME NEW p \in Seq(Health!Marks), NEW S
    PROVE  /\ Health!LatestIn(p, 1, S) <=> Len(p) >= 1 /\ p[Len(p)] \in S
           /\ Health!LatestIn(p, 2, S) <=>
                 Len(p) >= 2 /\ p[Len(p)] \in S /\ p[Len(p) - 1] \in S
           /\ Health!LatestIn(p, 3, S) <=>
                 /\ Len(p) >= 3 /\ p[Len(p)] \in S
                 /\ p[Len(p) - 1] \in S /\ p[Len(p) - 2] \in S
<1>1. 0..(1-1) = {0} /\ 0..(2-1) = {0, 1} /\ 0..(3-1) = {0, 1, 2}
  OBVIOUS
<1>2. Len(p) \in Nat /\ Len(p) - 0 = Len(p)
  OBVIOUS
<1> QED
  BY <1>1, <1>2 DEF Health!LatestIn

\* And from one history to the next.
LEMMA LatestOfMore ==
    ASSUME NEW p \in Seq(Health!Marks), NEW q \in Seq(Health!Marks), NEW r, NEW S,
           Continues(q, p, r)
    PROVE  /\ Health!LatestIn(q, 1, S) <=> r \in S
           /\ Health!LatestIn(q, 2, S) <=> r \in S /\ Health!LatestIn(p, 1, S)
           /\ Health!LatestIn(q, 3, S) <=> r \in S /\ Health!LatestIn(p, 2, S)
BY LatestByPlace DEF Continues

\* A sequence turned round.
LEMMA Reversed ==
    ASSUME NEW p \in Seq(Health!Marks)
    PROVE  /\ Health!Reverse(p) \in Seq(Health!Marks) /\ Len(Health!Reverse(p)) = Len(p)
           /\ \A i \in 1..Len(p) : Health!Reverse(p)[i] = p[Len(p) - i + 1]
<1> DEFINE b == [i \in 1..Len(p) |-> p[(Len(p) - i) + 1]]
<1>1. Len(p) \in Nat /\ \A i \in 1..Len(p) : p[i] \in Health!Marks
  OBVIOUS
<1>2. \A i \in 1..Len(p) : (Len(p) - i) + 1 \in 1..Len(p)
  BY <1>1
<1>3. b \in [1..Len(p) -> Health!Marks]
  BY <1>1, <1>2
<1>4. b \in Seq(Health!Marks)
  BY <1>1, <1>3, SeqDef
<1>5. Len(b) \in Nat /\ DOMAIN b = 1..Len(b)
  BY <1>4, LenProperties
<1>6. DOMAIN b = 1..Len(p)
  OBVIOUS
<1>7. \A i \in 1..Len(p) : b[i] = p[(Len(p) - i) + 1]
  OBVIOUS
<1>8. b = Health!Reverse(p)
  BY DEF Health!Reverse
<1> HIDE DEF b
<1>9. Len(b) = Len(p)
  <2>1. 1..Len(b) = 1..Len(p)
    BY <1>5, <1>6
  <2> QED
    BY <1>1, <1>5, <2>1
<1> QED
  BY <1>4, <1>7, <1>8, <1>9

\* Suffixes, place by place from the end.
LEMMA Suffix ==
    ASSUME NEW p \in Seq(Health!Marks), NEW s \in Seq(Health!Marks)
    PROVE  Health!IsSuffix(s, p) <=>
             /\ Len(s) <= Len(p)
             /\ \A i \in 1..Len(s) : s[Len(s) - i + 1] = p[Len(p) - i + 1]
<1> DEFINE a == Health!Reverse(s)
           b == Health!Reverse(p)
<1>1. Len(s) \in Nat /\ Len(p) \in Nat
  OBVIOUS
<1>2. /\ a \in Seq(Health!Marks) /\ Len(a) = Len(s)
      /\ \A i \in 1..Len(s) : a[i] = s[Len(s) - i + 1]
      /\ b \in Seq(Health!Marks) /\ Len(b) = Len(p)
      /\ \A i \in 1..Len(p) : b[i] = p[Len(p) - i + 1]
  BY Reversed
<1>3. Health!IsSuffix(s, p) <=>
        Len(a) <= Len(b) /\ SubSeq(a, 1, Len(a)) = SubSeq(b, 1, Len(a))
  BY DEF Health!IsSuffix, Health!IsPrefix
<1> HIDE DEF a, b
<1>4. CASE Len(s) <= Len(p)
  <2>1. /\ \A i \in 1..Len(s) : a[i] \in Health!Marks
        /\ \A i \in 1..Len(s) : b[i] \in Health!Marks
    BY <1>1, <1>2, <1>4
  <2> DEFINE x == SubSeq(a, 1, Len(s))
             y == SubSeq(b, 1, Len(s))
  <2>2. x \in Seq(Health!Marks) /\ Len(x) = Len(s) /\ \A i \in 1..Len(s) : x[i] = a[i]
    BY <1>1, <1>2, <2>1
  <2>3. y \in Seq(Health!Marks) /\ Len(y) = Len(s) /\ \A i \in 1..Len(s) : y[i] = b[i]
    BY <1>1, <1>2, <1>4, <2>1
  <2>4. Health!IsSuffix(s, p) <=> x = y
    BY <1>2, <1>3, <1>4
  <2> HIDE DEF x, y
  <2>5. x = y <=> \A i \in 1..Len(s) : x[i] = y[i]
    <3>1. ASSUME \A i \in 1..Len(s) : x[i] = y[i] PROVE x = y
      <4>1. Len(x) = Len(y) /\ \A i \in 1..Len(x) : x[i] = y[i]
        BY <2>2, <2>3, <3>1
      <4> QED
        BY <2>2, <2>3, <4>1, SeqEqual, Zenon
    <3> QED
      BY <3>1
  <2>6. \A i \in 1..Len(s) : i \in 1..Len(p)
    BY <1>1, <1>4
  <2>7. \A i \in 1..Len(s) :
          x[i] = s[Len(s) - i + 1] /\ y[i] = p[Len(p) - i + 1]
    BY <1>2, <2>2, <2>3, <2>6, Zenon
  <2>8. x = y <=> \A i \in 1..Len(s) : s[Len(s) - i + 1] = p[Len(p) - i + 1]
    BY <2>5, <2>7
  <2> QED
    BY <1>4, <2>4, <2>8
<1>5. CASE ~(Len(s) <= Len(p))
  BY <1>2, <1>3, <1>5
<1> QED
  BY <1>4, <1>5

\* What earns a state, from the last result and the ones before it.
LEMMA EarnedBy ==
    ASSUME NEW p \in Seq(Health!Marks), NEW q \in Seq(Health!Marks), NEW r,
           Continues(q, p, r)
    PROVE  /\ r = "fail" /\ Health!LatestIn(p, 2, {"fail"}) => Health!Earned(q)["unavailable"]
           /\ r = "slow" /\ Health!LatestIn(p, 2, {"slow"}) => Health!Earned(q)["degraded"]
           /\ r = "probe" => Health!Earned(q)["ready"]
           /\ r = "fast" /\ Health!LatestIn(p, 1, {"slow", "fast"})
                /\ ~Health!LatestIn(p, 3, {"slow"}) => Health!Earned(q)["ready"]
<1>0. Len(q) \in Nat /\ Len(p) \in Nat
  OBVIOUS
<1>1. ASSUME NEW a \in Health!Marks, NEW b \in Health!Marks
      PROVE  Health!IsSuffix(<<a, b>>, q) <=>
               Len(q) >= 2 /\ q[Len(q)] = b /\ q[Len(q) - 1] = a
  <2> DEFINE s == <<a, b>>
  <2>1. s \in Seq(Health!Marks) /\ Len(s) = 2 /\ s[1] = a /\ s[2] = b
    OBVIOUS
  <2> HIDE DEF s
  <2>2. Health!IsSuffix(s, q) <=>
          Len(s) <= Len(q) /\ \A i \in 1..Len(s) : s[Len(s) - i + 1] = q[Len(q) - i + 1]
    BY <2>1, Suffix
  <2>3. Health!IsSuffix(s, q) <=>
          /\ 2 <= Len(q)
          /\ s[2 - 1 + 1] = q[Len(q) - 1 + 1] /\ s[2 - 2 + 1] = q[Len(q) - 2 + 1]
    BY <2>1, <2>2
  <2>4. /\ 2 - 1 + 1 = 2 /\ 2 - 2 + 1 = 1
        /\ Len(q) - 1 + 1 = Len(q) /\ Len(q) - 2 + 1 = Len(q) - 1
    BY <1>0
  <2> QED
    BY <1>0, <2>1, <2>3, <2>4 DEF s
<1>2. ASSUME NEW a \in Health!Marks, NEW b \in Health!Marks, NEW c \in Health!Marks
      PROVE  Health!IsSuffix(<<a, b, c>>, q) <=>
               Len(q) >= 3 /\ q[Len(q)] = c /\ q[Len(q) - 1] = b /\ q[Len(q) - 2] = a
  <2> DEFINE s == <<a, b, c>>
  <2>1. s \in Seq(Health!Marks) /\ Len(s) = 3 /\ s[1] = a /\ s[2] = b /\ s[3] = c
    OBVIOUS
  <2> HIDE DEF s
  <2>2. Health!IsSuffix(s, q) <=>
          Len(s) <= Len(q) /\ \A i \in 1..Len(s) : s[Len(s) - i + 1] = q[Len(q) - i + 1]
    BY <2>1, Suffix
  <2>3. Health!IsSuffix(s, q) <=>
          /\ 3 <= Len(q)
          /\ s[3 - 1 + 1] = q[Len(q) - 1 + 1] /\ s[3 - 2 + 1] = q[Len(q) - 2 + 1]
          /\ s[3 - 3 + 1] = q[Len(q) - 3 + 1]
    BY <2>1, <2>2
  <2>4. /\ 3 - 1 + 1 = 3 /\ 3 - 2 + 1 = 2 /\ 3 - 3 + 1 = 1
        /\ Len(q) - 1 + 1 = Len(q) /\ Len(q) - 2 + 1 = Len(q) - 1
        /\ Len(q) - 3 + 1 = Len(q) - 2
    BY <1>0
  <2> QED
    BY <1>0, <2>1, <2>3, <2>4 DEF s
<1>3. ASSUME Health!IsSuffix(<<"slow", "slow", "slow", "fast">>, q)
      PROVE  Health!LatestIn(p, 3, {"slow"})
  <2> DEFINE s == <<"slow", "slow", "slow", "fast">>
  <2>1. /\ s \in Seq(Health!Marks) /\ Len(s) = 4
        /\ s[1] = "slow" /\ s[2] = "slow" /\ s[3] = "slow"
    BY DEF Health!Marks, Health!Results
  <2>2. Health!IsSuffix(s, q)
    BY <1>3
  <2> HIDE DEF s
  <2>3. Len(s) <= Len(q) /\ \A i \in 1..Len(s) : s[Len(s) - i + 1] = q[Len(q) - i + 1]
    BY <2>1, <2>2, Suffix
  <2>4. /\ 4 <= Len(q) /\ s[4 - 2 + 1] = q[Len(q) - 2 + 1]
        /\ s[4 - 3 + 1] = q[Len(q) - 3 + 1] /\ s[4 - 4 + 1] = q[Len(q) - 4 + 1]
    BY <2>1, <2>3
  <2>5. /\ 4 - 2 + 1 = 3 /\ 4 - 3 + 1 = 2 /\ 4 - 4 + 1 = 1
        /\ Len(q) - 2 + 1 = Len(q) - 1 /\ Len(q) - 3 + 1 = Len(q) - 2
        /\ Len(q) - 4 + 1 = Len(q) - 3
    BY <1>0
  <2>6. 4 <= Len(q) /\ q[Len(q) - 1] = "slow" /\ q[Len(q) - 2] = "slow" /\ q[Len(q) - 3] = "slow"
    BY <2>1, <2>4, <2>5
  <2>7. /\ Len(p) >= 3 /\ p[Len(p)] \in {"slow"} /\ p[Len(p) - 1] \in {"slow"}
        /\ p[Len(p) - 2] \in {"slow"}
    BY <1>0, <2>6 DEF Continues
  <2> QED
    BY <2>7, LatestByPlace
<1>4. {"fail", "slow", "fast", "probe"} = Health!Marks
  BY DEF Health!Marks, Health!Results
<1>5. ASSUME r = "fail", Health!LatestIn(p, 2, {"fail"}) PROVE Health!Earned(q)["unavailable"]
  <2>1. Health!IsSuffix(<<"fail", "fail", "fail">>, q)
    BY <1>0, <1>2, <1>4, <1>5, LatestByPlace DEF Continues
  <2> QED
    BY <2>1 DEF Health!Earned
<1>6. ASSUME r = "slow", Health!LatestIn(p, 2, {"slow"}) PROVE Health!Earned(q)["degraded"]
  <2>1. Health!IsSuffix(<<"slow", "slow", "slow">>, q)
    BY <1>0, <1>2, <1>4, <1>6, LatestByPlace DEF Continues
  <2> QED
    BY <2>1 DEF Health!Earned
<1>7. ASSUME r = "probe" PROVE Health!Earned(q)["ready"]
  <2>1. Health!Last(q) = "probe"
    BY <1>7 DEF Health!Last, Continues
  <2> QED
    BY <2>1 DEF Health!Earned
<1>8. ASSUME r = "fast", Health!LatestIn(p, 1, {"slow", "fast"}),
             ~Health!LatestIn(p, 3, {"slow"})
      PROVE  Health!Earned(q)["ready"]
  <2>1. Len(p) >= 1 /\ p[Len(p)] \in {"slow", "fast"}
    BY <1>8, LatestByPlace
  <2>2. Len(q) >= 2 /\ q[Len(q)] = "fast" /\ q[Len(q) - 1] \in {"slow", "fast"}
    BY <1>0, <1>8, <2>1 DEF Continues
  <2>3. Health!IsSuffix(<<"fast", "fast">>, q) \/ Health!IsSuffix(<<"slow", "fast">>, q)
    BY <1>1, <1>4, <2>2
  <2>4. ~Health!IsSuffix(<<"slow", "slow", "slow", "fast">>, q)
    BY <1>3, <1>8
  <2> QED
    BY <2>3, <2>4 DEF Health!Earned
<1> QED
  BY <1>5, <1>6, <1>7, <1>8

\* The streaks, one by one.
LEMMA StreaksByNumber ==
    ASSUME NEW s, NEW p, Health!StreaksTell(s, p)
    PROVE  /\ s.failureRun >= 1 => Health!LatestIn(p, 1, {"fail"})
           /\ s.failureRun >= 2 => Health!LatestIn(p, 2, {"fail"})
           /\ s.latencyBreaches >= 1 <=> Health!LatestIn(p, 1, {"slow"})
           /\ s.latencyBreaches >= 2 <=> Health!LatestIn(p, 2, {"slow"})
           /\ s.state # "ready" /\ s.successRun > 0 =>
                 Health!LatestIn(p, 1, {"slow", "fast"}) /\ ~Health!LatestIn(p, 3, {"slow"})
<1>1. 1 \in 1..3 /\ 2 \in 1..3 /\ 3 \in 1..3
  OBVIOUS
<1> QED
  BY <1>1 DEF Health!StreaksTell, Health!FailThreshold, Health!LatencyBreachThreshold

\* And back: what has to be shown of a status and its history.
LEMMA StreaksFromNumbers ==
    ASSUME NEW t, NEW q,
           t.failureRun >= 1 => Health!LatestIn(q, 1, {"fail"}),
           t.failureRun >= 2 => Health!LatestIn(q, 2, {"fail"}),
           t.failureRun >= 3 => Health!LatestIn(q, 3, {"fail"}),
           t.latencyBreaches >= 1 <=> Health!LatestIn(q, 1, {"slow"}),
           t.latencyBreaches >= 2 <=> Health!LatestIn(q, 2, {"slow"}),
           t.latencyBreaches >= 3 <=> Health!LatestIn(q, 3, {"slow"}),
           t.state # "ready" /\ t.successRun > 0 =>
              Health!LatestIn(q, 1, {"slow", "fast"}) /\ ~Health!LatestIn(q, 3, {"slow"})
    PROVE  Health!StreaksTell(t, q)
<1>1. 1..3 = {1, 2, 3}
  OBVIOUS
<1> QED
  BY <1>1 DEF Health!StreaksTell, Health!FailThreshold, Health!LatencyBreachThreshold

\* A status, field by field.
LEMMA StatusFields ==
    ASSUME NEW s \in Health!NodeStatus
    PROVE  /\ s.state \in {"unavailable", "degraded", "ready"} /\ s.successRun \in 0..2
           /\ s.failureRun \in 0..3 /\ s.latencyBreaches \in 0..3
           /\ s = [state |-> s.state, successRun |-> s.successRun,
                   failureRun |-> s.failureRun, latencyBreaches |-> s.latencyBreaches]
<1>1. s \in [state : {"unavailable", "degraded", "ready"}, successRun : 0..2,
            failureRun : 0..3, latencyBreaches : 0..3]
  BY DEF Health!NodeStatus, Health!States, Health!SuccessThreshold, Health!FailThreshold,
         Health!LatencyBreachThreshold
<1> QED
  BY <1>1

\* And a status made of its fields.
LEMMA StatusMade ==
    ASSUME NEW a \in {"unavailable", "degraded", "ready"}, NEW b \in 0..2,
           NEW c \in 0..3, NEW d \in 0..3
    PROVE  [state |-> a, successRun |-> b, failureRun |-> c, latencyBreaches |-> d]
              \in Health!NodeStatus
  BY DEF Health!NodeStatus, Health!States, Health!SuccessThreshold, Health!FailThreshold,
         Health!LatencyBreachThreshold

\* A failure: the runs of successes and slow answers are over, and the third
\* failure in a row makes the node unavailable.
LEMMA AfterFailure ==
    ASSUME NEW s \in Health!NodeStatus,
           NEW p \in Seq(Health!Marks), NEW q \in Seq(Health!Marks),
           Continues(q, p, "fail"), Health!StreaksTell(s, p)
    PROVE  /\ Health!Failed(s) \in Health!NodeStatus
           /\ Health!StreaksTell(Health!Failed(s), q)
           /\ Health!Failed(s).state # s.state =>
                 Health!Earned(q)[Health!Failed(s).state]
<1> DEFINE t == Health!Failed(s)
<1>1. /\ s.state \in {"unavailable", "degraded", "ready"} /\ s.successRun \in 0..2
      /\ s.failureRun \in 0..3 /\ s.latencyBreaches \in 0..3
  BY StatusFields
<1>2. /\ t \in Health!NodeStatus /\ t.successRun = 0 /\ t.latencyBreaches = 0
      /\ t.failureRun = (IF s.failureRun < 3 THEN s.failureRun + 1 ELSE s.failureRun)
      /\ t.state = IF t.failureRun >= 3 THEN "unavailable" ELSE s.state
  <2> DEFINE n == IF s.failureRun < 3 THEN s.failureRun + 1 ELSE s.failureRun
  <2>1. t = [s EXCEPT !.failureRun = n, !.successRun = 0, !.latencyBreaches = 0,
                      !.state = IF n >= 3 THEN "unavailable" ELSE @]
    BY DEF Health!Failed, Health!OneMore, Health!SuccessThreshold, Health!FailThreshold,
           Health!LatencyBreachThreshold
  <2>2. /\ n \in 0..3 /\ 0 \in 0..2 /\ 0 \in 0..3
        /\ (IF n >= 3 THEN "unavailable" ELSE s.state) \in {"unavailable", "degraded", "ready"}
    BY <1>1
  <2>3. t = [state |-> IF n >= 3 THEN "unavailable" ELSE s.state, successRun |-> 0,
              failureRun |-> n, latencyBreaches |-> 0]
    BY <2>1, StatusFields
  <2> HIDE DEF t
  <2>4. t \in Health!NodeStatus
    BY <2>2, <2>3, StatusMade
  <2> QED
    BY <1>1, <2>2, <2>3, <2>4
<1> HIDE DEF t
<1>3. /\ t.failureRun >= 2 => s.failureRun >= 1
      /\ t.failureRun >= 3 => s.failureRun >= 2
  BY <1>1, <1>2
<1>4. /\ s.failureRun >= 1 => Health!LatestIn(p, 1, {"fail"})
      /\ s.failureRun >= 2 => Health!LatestIn(p, 2, {"fail"})
  BY StreaksByNumber
<1>5. /\ Health!LatestIn(q, 1, {"fail"})
      /\ Health!LatestIn(q, 2, {"fail"}) <=> Health!LatestIn(p, 1, {"fail"})
      /\ Health!LatestIn(q, 3, {"fail"}) <=> Health!LatestIn(p, 2, {"fail"})
      /\ ~Health!LatestIn(q, 1, {"slow"}) /\ ~Health!LatestIn(q, 2, {"slow"})
      /\ ~Health!LatestIn(q, 3, {"slow"})
  <2>1. "fail" \in {"fail"} /\ "fail" \notin {"slow"}
    OBVIOUS
  <2> QED
    BY <2>1, LatestOfMore, Zenon
<1>6. Health!StreaksTell(t, q)
  BY <1>2, <1>3, <1>4, <1>5, StreaksFromNumbers
<1>7. t.state # s.state => Health!Earned(q)[t.state]
  BY <1>2, <1>3, <1>4, EarnedBy
<1> QED
  BY <1>2, <1>6, <1>7 DEF t

\* A slow answer: the third in a row degrades the node, and the run of
\* successes starts again.
LEMMA AfterSlow ==
    ASSUME NEW s \in Health!NodeStatus,
           NEW p \in Seq(Health!Marks), NEW q \in Seq(Health!Marks),
           Continues(q, p, "slow"), Health!StreaksTell(s, p)
    PROVE  /\ Health!Slow(s) \in Health!NodeStatus
           /\ Health!StreaksTell(Health!Slow(s), q)
           /\ Health!Slow(s).state # s.state =>
                 Health!Earned(q)[Health!Slow(s).state]
<1> DEFINE t == Health!Slow(s)
<1>1. /\ s.state \in {"unavailable", "degraded", "ready"} /\ s.successRun \in 0..2
      /\ s.failureRun \in 0..3 /\ s.latencyBreaches \in 0..3
  BY StatusFields
<1>2. /\ t \in Health!NodeStatus /\ t.failureRun = 0
      /\ t.latencyBreaches =
            (IF s.latencyBreaches < 3 THEN s.latencyBreaches + 1 ELSE s.latencyBreaches)
      /\ t.latencyBreaches >= 3 => t.successRun = 0
      /\ t.state = IF t.latencyBreaches >= 3 THEN "degraded" ELSE s.state
  <2> DEFINE n == IF s.latencyBreaches < 3 THEN s.latencyBreaches + 1
                                        ELSE s.latencyBreaches
             m == IF s.successRun < 2 THEN s.successRun + 1 ELSE s.successRun
  <2>1. t = [s EXCEPT !.failureRun = 0, !.latencyBreaches = n,
                      !.successRun = IF n >= 3 THEN 0 ELSE m,
                      !.state = IF n >= 3 THEN "degraded" ELSE @]
    BY DEF Health!Slow, Health!OneMore, Health!SuccessThreshold, Health!FailThreshold,
           Health!LatencyBreachThreshold
  <2>2. /\ n \in 0..3 /\ 0 \in 0..3 /\ (IF n >= 3 THEN 0 ELSE m) \in 0..2
        /\ (IF n >= 3 THEN "degraded" ELSE s.state) \in {"unavailable", "degraded", "ready"}
    BY <1>1
  <2>3. t = [state |-> IF n >= 3 THEN "degraded" ELSE s.state, successRun |-> IF n >= 3 THEN 0 ELSE m,
              failureRun |-> 0, latencyBreaches |-> n]
    BY <2>1, StatusFields
  <2> HIDE DEF t
  <2>4. t \in Health!NodeStatus
    BY <2>2, <2>3, StatusMade
  <2> QED
    BY <1>1, <2>2, <2>3, <2>4
<1> HIDE DEF t
<1>3. /\ t.latencyBreaches >= 1
      /\ t.latencyBreaches >= 2 <=> s.latencyBreaches >= 1
      /\ t.latencyBreaches >= 3 <=> s.latencyBreaches >= 2
  BY <1>1, <1>2
<1>4. /\ s.latencyBreaches >= 1 <=> Health!LatestIn(p, 1, {"slow"})
      /\ s.latencyBreaches >= 2 <=> Health!LatestIn(p, 2, {"slow"})
  BY StreaksByNumber
<1>5. /\ Health!LatestIn(q, 1, {"slow"}) /\ Health!LatestIn(q, 1, {"slow", "fast"})
      /\ Health!LatestIn(q, 2, {"slow"}) <=> Health!LatestIn(p, 1, {"slow"})
      /\ Health!LatestIn(q, 3, {"slow"}) <=> Health!LatestIn(p, 2, {"slow"})
  BY LatestOfMore
<1>6. t.successRun > 0 => ~Health!LatestIn(q, 3, {"slow"})
  BY <1>2, <1>3, <1>4, <1>5
<1>7. Health!StreaksTell(t, q)
  BY <1>2, <1>3, <1>4, <1>5, <1>6, StreaksFromNumbers
<1>8. t.state # s.state => Health!Earned(q)[t.state]
  BY <1>2, <1>3, <1>4, EarnedBy
<1> QED
  BY <1>2, <1>7, <1>8 DEF t

\* A fast answer: a node that is not ready becomes ready with the second
\* success, and what came before it was no failure and not three slow answers.
LEMMA AfterFast ==
    ASSUME NEW s \in Health!NodeStatus,
           NEW p \in Seq(Health!Marks), NEW q \in Seq(Health!Marks),
           Continues(q, p, "fast"), Health!StreaksTell(s, p)
    PROVE  /\ Health!Fast(s) \in Health!NodeStatus
           /\ Health!StreaksTell(Health!Fast(s), q)
           /\ Health!Fast(s).state # s.state =>
                 Health!Earned(q)[Health!Fast(s).state]
<1> DEFINE t == Health!Fast(s)
<1>1. /\ s.state \in {"unavailable", "degraded", "ready"} /\ s.successRun \in 0..2
      /\ s.failureRun \in 0..3 /\ s.latencyBreaches \in 0..3
  BY StatusFields
<1>2. /\ t \in Health!NodeStatus /\ t.failureRun = 0 /\ t.latencyBreaches = 0
      /\ t.successRun = (IF s.successRun < 2 THEN s.successRun + 1 ELSE s.successRun)
      /\ t.state = IF t.successRun >= 2 THEN "ready" ELSE s.state
  <2> DEFINE n == IF s.successRun < 2 THEN s.successRun + 1 ELSE s.successRun
  <2>1. t = [s EXCEPT !.failureRun = 0, !.latencyBreaches = 0, !.successRun = n,
                      !.state = IF n >= 2 THEN "ready" ELSE @]
    BY DEF Health!Fast, Health!OneMore, Health!SuccessThreshold, Health!FailThreshold,
           Health!LatencyBreachThreshold
  <2>2. /\ n \in 0..2 /\ 0 \in 0..3
        /\ (IF n >= 2 THEN "ready" ELSE s.state) \in {"unavailable", "degraded", "ready"}
    BY <1>1
  <2>3. t = [state |-> IF n >= 2 THEN "ready" ELSE s.state, successRun |-> n,
              failureRun |-> 0, latencyBreaches |-> 0]
    BY <2>1, StatusFields
  <2> HIDE DEF t
  <2>4. t \in Health!NodeStatus
    BY <2>2, <2>3, StatusMade
  <2> QED
    BY <1>1, <2>2, <2>3, <2>4
<1> HIDE DEF t
<1>3. t.successRun >= 2 => s.successRun > 0
  BY <1>1, <1>2
<1>4. /\ Health!LatestIn(q, 1, {"slow", "fast"})
      /\ ~Health!LatestIn(q, 1, {"slow"}) /\ ~Health!LatestIn(q, 2, {"slow"})
      /\ ~Health!LatestIn(q, 3, {"slow"})
  <2>1. "fast" \in {"slow", "fast"} /\ "fast" \notin {"slow"}
    OBVIOUS
  <2> QED
    BY <2>1, LatestOfMore, Zenon
<1>5. Health!StreaksTell(t, q)
  BY <1>2, <1>4, StreaksFromNumbers
<1>6. ASSUME t.state # s.state PROVE Health!Earned(q)[t.state]
  <2>1. t.state = "ready" /\ s.state # "ready" /\ s.successRun > 0
    BY <1>2, <1>3, <1>6
  <2>2. Health!LatestIn(p, 1, {"slow", "fast"}) /\ ~Health!LatestIn(p, 3, {"slow"})
    BY <2>1, StreaksByNumber
  <2> QED
    BY <2>1, <2>2, EarnedBy
<1> QED
  BY <1>2, <1>5, <1>6 DEF t

\* Whatever the check has found.
LEMMA AfterVerdict ==
    ASSUME NEW s \in Health!NodeStatus, NEW r \in Health!Results,
           NEW p \in Seq(Health!Marks), NEW q \in Seq(Health!Marks),
           Continues(q, p, r), Health!StreaksTell(s, p)
    PROVE  /\ Health!Verdict(s, r) \in Health!NodeStatus
           /\ Health!StreaksTell(Health!Verdict(s, r), q)
           /\ Health!Verdict(s, r).state # s.state =>
                 Health!Earned(q)[Health!Verdict(s, r).state]
<1>1. CASE r = "fail"
  <2>1. Health!Verdict(s, r) = Health!Failed(s)
    BY <1>1 DEF Health!Verdict
  <2> QED
    BY <1>1, <2>1, AfterFailure
<1>2. CASE r = "slow"
  <2>1. Health!Verdict(s, r) = Health!Slow(s)
    BY <1>2 DEF Health!Verdict
  <2> QED
    BY <1>2, <2>1, AfterSlow
<1>3. CASE r = "fast"
  <2>1. Health!Verdict(s, r) = Health!Fast(s)
    BY <1>3 DEF Health!Verdict
  <2> QED
    BY <1>3, <2>1, AfterFast
<1> QED
  BY <1>1, <1>2, <1>3 DEF Health!Results

\* A startup probe that has found the provider up.
LEMMA AfterProbe ==
    ASSUME NEW s \in Health!NodeStatus,
           NEW p \in Seq(Health!Marks), NEW q \in Seq(Health!Marks),
           Continues(q, p, "probe")
    PROVE  /\ Health!MarkedReady(s) \in Health!NodeStatus
           /\ Health!StreaksTell(Health!MarkedReady(s), q)
           /\ Health!Earned(q)[Health!MarkedReady(s).state]
<1> DEFINE t == Health!MarkedReady(s)
<1>1. /\ t \in Health!NodeStatus /\ t.state = "ready" /\ t.failureRun = 0
      /\ t.latencyBreaches = 0
  <2>0. s = [state |-> s.state, successRun |-> s.successRun,
             failureRun |-> s.failureRun, latencyBreaches |-> s.latencyBreaches]
    BY StatusFields
  <2>1. t = [s EXCEPT !.state = "ready", !.successRun = 2, !.failureRun = 0,
                      !.latencyBreaches = 0]
    BY DEF Health!MarkedReady, Health!SuccessThreshold
  <2>2. t = [state |-> "ready", successRun |-> 2, failureRun |-> 0, latencyBreaches |-> 0]
    BY <2>0, <2>1
  <2> HIDE DEF t
  <2>3. "ready" \in {"unavailable", "degraded", "ready"} /\ 2 \in 0..2 /\ 0 \in 0..3
    OBVIOUS
  <2>4. t \in Health!NodeStatus
    BY <2>2, <2>3, StatusMade
  <2> QED
    BY <2>2, <2>4
<1> HIDE DEF t
<1>2. /\ ~Health!LatestIn(q, 1, {"slow"}) /\ ~Health!LatestIn(q, 2, {"slow"})
      /\ ~Health!LatestIn(q, 3, {"slow"})
  <2>1. "probe" \notin {"slow"}
    OBVIOUS
  <2> QED
    BY <2>1, LatestOfMore, Zenon
<1>3. Health!StreaksTell(t, q)
  BY <1>1, <1>2, StreaksFromNumbers
<1>4. Health!Earned(q)[t.state]
  BY <1>1, EarnedBy
<1> QED
  BY <1>1, <1>3, <1>4 DEF t

\* A node that has just been added.
LEMMA NewStreaks ==
    /\ Health!NewStatus \in Health!NodeStatus
    /\ Health!StreaksTell(Health!NewStatus, <<>>)
<1> DEFINE t == Health!NewStatus
<1>1. /\ t \in Health!NodeStatus /\ t.successRun = 0 /\ t.failureRun = 0
      /\ t.latencyBreaches = 0
  BY DEF Health!NewStatus, Health!NodeStatus, Health!States, Health!SuccessThreshold,
         Health!FailThreshold, Health!LatencyBreachThreshold
<1> HIDE DEF t
<1>2. \A S : \A k \in {1, 2, 3} : ~Health!LatestIn(<<>>, k, S)
  BY DEF Health!LatestIn
<1>3. Health!StreaksTell(t, <<>>)
  BY <1>1, <1>2, StreaksFromNumbers
<1> QED
  BY <1>1, <1>3 DEF t
-----------------------------------------------------------------------------
(* Health: the invariant *)

\* The status of one node is written; those of the others stay.
LEMMA StatusWritten ==
    ASSUME Health!MonitorTyped, NEW n \in Nodes, NEW s \in Health!NodeStatus,
           Health!WithStatus(n, s)
    PROVE  /\ DOMAIN states' \subseteq Nodes
           /\ states' \in [DOMAIN states' -> Health!NodeStatus]
           /\ Health!HasEntry(n)' /\ Health!StatusOf(n)' = s
           /\ DOMAIN states' = DOMAIN states \cup {n} /\ states'[n] = s
           /\ \A m \in Nodes \ {n} : /\ Health!HasEntry(m)' <=> Health!HasEntry(m)
                                     /\ Health!StatusOf(m)' = Health!StatusOf(m)
                                     /\ m \in DOMAIN states => states'[m] = states[m]
<1>1. DOMAIN states \subseteq Nodes /\ states \in [DOMAIN states -> Health!NodeStatus]
  BY DEF Health!MonitorTyped
<1>2. states' = [m \in DOMAIN states \cup {n} |-> IF m = n THEN s ELSE states[m]]
  BY DEF Health!WithStatus
<1>3. DOMAIN states' = DOMAIN states \cup {n} /\ states'[n] = s
  BY <1>2
<1>4. \A m \in DOMAIN states \ {n} : states'[m] = states[m]
  BY <1>2
<1>5. states' \in [DOMAIN states' -> Health!NodeStatus]
  <2>1. \A m \in DOMAIN states \cup {n} :
          (IF m = n THEN s ELSE states[m]) \in Health!NodeStatus
    BY <1>1
  <2> QED
    BY <1>2, <1>3, <2>1
<1> QED
  BY <1>1, <1>3, <1>4, <1>5 DEF Health!HasEntry, Health!StatusOf

\* A node with an entry has its status there, one without a new one.
LEMMA StatusTyped ==
    ASSUME Health!MonitorTyped, NEW n \in Nodes
    PROVE  Health!StatusOf(n) \in Health!NodeStatus
  BY NewStreaks DEF Health!MonitorTyped, Health!StatusOf, Health!HasEntry

\* One result more for a node, and its verdict: the whole of the invariant
\* that speaks of statuses and histories.
LEMMA ResultCounted ==
    ASSUME Health!HealthIInv, NEW n \in Nodes, NEW r \in Health!Marks,
           NEW s \in Health!NodeStatus, Health!WithStatus(n, s), Health!Remember(n, r),
           \A q \in Seq(Health!Marks) :
              Continues(q, posted[n], r) =>
                 /\ Health!StreaksTell(s, q)
                 /\ s.state # Health!StatusOf(n).state => Health!Earned(q)[s.state]
    PROVE  /\ DOMAIN states' \subseteq Nodes
           /\ states' \in [DOMAIN states' -> Health!NodeStatus]
           /\ posted' \in [Nodes -> Seq(Health!Marks)]
           /\ \A m \in Nodes : Len(posted'[m]) <= 4
           /\ \A m \in Nodes : Health!StreaksTell(Health!StatusOf(m)', posted'[m])
           /\ \A m \in Nodes : Health!HasEntry(m)' \/ posted'[m] = <<>>
           /\ \A m \in DOMAIN states \cap DOMAIN states' :
                states[m].state # states'[m].state =>
                   Health!Earned(posted'[m])[states'[m].state]
<1>1. /\ posted \in [Nodes -> Seq(Health!Marks)] /\ Health!MonitorTyped
      /\ DOMAIN states \subseteq Nodes
      /\ \A m \in Nodes : Len(posted[m]) <= 4
      /\ \A m \in Nodes : Health!StreaksTell(Health!StatusOf(m), posted[m])
      /\ \A m \in Nodes : Health!HasEntry(m) \/ posted[m] = <<>>
  BY DEF Health!HealthIInv, Health!MonitorTyped
<1>2. /\ posted'[n] \in Seq(Health!Marks) /\ Len(posted'[n]) <= 4
      /\ Continues(posted'[n], posted[n], r)
      /\ posted' = [posted EXCEPT ![n] = posted'[n]]
  BY <1>1, RememberContinues
<1>3. /\ posted' \in [Nodes -> Seq(Health!Marks)]
      /\ \A m \in Nodes \ {n} : posted'[m] = posted[m]
  BY <1>1, <1>2
<1>4. /\ DOMAIN states' \subseteq Nodes
      /\ states' \in [DOMAIN states' -> Health!NodeStatus]
      /\ Health!HasEntry(n)' /\ Health!StatusOf(n)' = s
      /\ states'[n] = s
      /\ \A m \in Nodes \ {n} : /\ Health!HasEntry(m)' <=> Health!HasEntry(m)
                                /\ Health!StatusOf(m)' = Health!StatusOf(m)
                                /\ m \in DOMAIN states => states'[m] = states[m]
  BY <1>1, StatusWritten
<1>5. /\ Health!StreaksTell(s, posted'[n])
      /\ s.state # Health!StatusOf(n).state => Health!Earned(posted'[n])[s.state]
  BY <1>2
<1>6. ASSUME NEW m \in Nodes
      PROVE  /\ Len(posted'[m]) <= 4
             /\ Health!StreaksTell(Health!StatusOf(m)', posted'[m])
             /\ Health!HasEntry(m)' \/ posted'[m] = <<>>
  <2>1. CASE m = n
    BY <1>2, <1>4, <1>5, <2>1, Zenon
  <2>2. CASE m # n
    <3>1. /\ posted'[m] = posted[m] /\ Health!StatusOf(m)' = Health!StatusOf(m)
          /\ Health!HasEntry(m)' <=> Health!HasEntry(m)
      BY <1>3, <1>4, <2>2
    <3> QED
      BY <1>1, <3>1, Zenon
  <2> QED
    BY <2>1, <2>2
<1>7. ASSUME NEW m \in DOMAIN states \cap DOMAIN states', states[m].state # states'[m].state
      PROVE  Health!Earned(posted'[m])[states'[m].state]
  <2>1. m \in Nodes /\ m \in DOMAIN states
    BY <1>1
  <2>2. m = n
    BY <1>4, <1>7, <2>1
  <2>3. Health!StatusOf(n) = states[n]
    BY <2>1, <2>2 DEF Health!StatusOf, Health!HasEntry
  <2> QED
    BY <1>4, <1>5, <1>7, <2>2, <2>3, Zenon
<1> QED
  BY <1>3, <1>4, <1>6, <1>7

\* The workers, the answers of the providers and their types.
WorkersTyped ==
    /\ started \in Nat
    /\ node \in Seq(Nodes) /\ Len(node) = started
    /\ result \in Seq(Health!Results) /\ Len(result) = started
    /\ answer \in [Nodes -> Health!Results]

\* The part that a step changes for no more than one node.
NodesTyped ==
    /\ DOMAIN states \subseteq Nodes /\ states \in [DOMAIN states -> Health!NodeStatus]
    /\ posted \in [Nodes -> Seq(Health!Marks)]
    /\ \A n \in Nodes : Len(posted[n]) <= 4
    /\ \A n \in Nodes : Health!StreaksTell(Health!StatusOf(n), posted[n])
    /\ \A n \in Nodes : Health!HasEntry(n) \/ posted[n] = <<>>

LEMMA HealthParts == Health!HealthIInv <=> WorkersTyped /\ NodesTyped
  BY DEF Health!HealthIInv, Health!MonitorTyped, WorkersTyped, NodesTyped

\* What a step says of the states that it changes.
StepEarned ==
    \A n \in DOMAIN states \cap DOMAIN states' :
        states[n].state # states'[n].state /\ posted'[n] # <<>> =>
            Health!Earned(posted'[n])[states'[n].state]

\* The initial states.
LEMMA HealthInit == Health!Init => Health!HealthIInv
<1> SUFFICES ASSUME Health!Init PROVE Health!HealthIInv
  OBVIOUS
<1>1. WorkersTyped
  BY DEF Health!Init, WorkersTyped
<1>2. NodesTyped
  <2>1. states = <<>> /\ posted = [n \in Nodes |-> <<>>]
    BY DEF Health!Init
  <2>2. DOMAIN states = {}
    BY <2>1
  <2>3. states \in [DOMAIN states -> Health!NodeStatus]
    BY <2>1, <2>2
  <2>4. \A n \in Nodes : posted[n] = <<>> /\ Health!StatusOf(n) = Health!NewStatus
    BY <2>1, <2>2 DEF Health!StatusOf, Health!HasEntry
  <2>5. posted \in [Nodes -> Seq(Health!Marks)] /\ Len(<<>>) <= 4
    BY <2>1
  <2> QED
    BY <2>2, <2>3, <2>4, <2>5, NewStreaks DEF NodesTyped
<1> QED
  BY <1>1, <1>2, HealthParts

\* Steps that leave statuses and histories alone.
LEMMA NothingPosted ==
    ASSUME NodesTyped, UNCHANGED <<states, posted>>
    PROVE  NodesTyped' /\ StepEarned
<1>1. \A n \in Nodes : Health!StatusOf(n)' = Health!StatusOf(n)
  BY DEF Health!StatusOf, Health!HasEntry
<1>2. \A n \in Nodes : Health!HasEntry(n)' <=> Health!HasEntry(n)
  BY DEF Health!HasEntry
<1>3. NodesTyped'
  <2>1. \A n \in Nodes : Health!StreaksTell(Health!StatusOf(n)', posted'[n])
    BY <1>1 DEF NodesTyped
  <2> QED
    BY <1>2, <2>1 DEF NodesTyped
<1>4. StepEarned
  BY DEF StepEarned
<1> QED
  BY <1>3, <1>4

\* Steps after which a node has no history, and a new status or none.
LEMMA NodeForgotten ==
    ASSUME NodesTyped, NEW n \in Nodes, posted' = [posted EXCEPT ![n] = <<>>],
           DOMAIN states' \subseteq Nodes,
           states' \in [DOMAIN states' -> Health!NodeStatus],
           Health!StatusOf(n)' = Health!NewStatus,
           \A m \in Nodes \ {n} : /\ Health!HasEntry(m)' <=> Health!HasEntry(m)
                                  /\ Health!StatusOf(m)' = Health!StatusOf(m)
                                  /\ m \in DOMAIN states => states'[m] = states[m]
    PROVE  NodesTyped' /\ StepEarned
<1>1. posted'[n] = <<>> /\ \A m \in Nodes \ {n} : posted'[m] = posted[m]
  BY DEF NodesTyped
<1>2. posted' \in [Nodes -> Seq(Health!Marks)] /\ Len(<<>>) <= 4
  BY DEF NodesTyped
<1>3. ASSUME NEW m \in Nodes
      PROVE  /\ Len(posted'[m]) <= 4
             /\ Health!StreaksTell(Health!StatusOf(m)', posted'[m])
             /\ Health!HasEntry(m)' \/ posted'[m] = <<>>
  <2>1. CASE m = n
    BY <1>1, <1>2, <2>1, NewStreaks, Zenon
  <2>2. CASE m # n
    BY <1>1, <2>2 DEF NodesTyped
  <2> QED
    BY <2>1, <2>2
<1>4. NodesTyped'
  BY <1>2, <1>3 DEF NodesTyped
<1>5. StepEarned
  BY <1>1 DEF StepEarned
<1> QED
  BY <1>4, <1>5

\* One step per operation of the monitor and per step of a worker.
LEMMA HealthStep ==
    ASSUME Health!HealthIInv, [Health!Next]_(Health!vars)
    PROVE  WorkersTyped' /\ NodesTyped' /\ StepEarned
<1>0. WorkersTyped /\ NodesTyped /\ Health!MonitorTyped
  BY HealthParts DEF Health!HealthIInv
<1>1. ASSUME NEW n \in Nodes, Health!AddNode(n)
      PROVE  WorkersTyped' /\ NodesTyped' /\ StepEarned
  <2>1. WorkersTyped'
    BY <1>0, <1>1 DEF Health!AddNode, WorkersTyped, Health!Results
  <2>2. Health!WithStatus(n, Health!NewStatus) /\ posted' = [posted EXCEPT ![n] = <<>>]
    BY <1>1 DEF Health!AddNode
  <2> QED
    BY <1>0, <2>1, <2>2, StatusWritten, NewStreaks, NodeForgotten
<1>2. ASSUME NEW n \in Nodes, Health!RemoveNode(n)
      PROVE  WorkersTyped' /\ NodesTyped' /\ StepEarned
  <2>1. WorkersTyped'
    BY <1>0, <1>2 DEF Health!RemoveNode, Health!workers, WorkersTyped
  <2>2. /\ states' = [m \in DOMAIN states \ {n} |-> states[m]]
        /\ posted' = [posted EXCEPT ![n] = <<>>]
    BY <1>2 DEF Health!RemoveNode
  <2>3. /\ DOMAIN states' = DOMAIN states \ {n}
        /\ \A m \in DOMAIN states \ {n} : states'[m] = states[m]
    BY <2>2
  <2>4. DOMAIN states \subseteq Nodes /\ states \in [DOMAIN states -> Health!NodeStatus]
    BY <1>0 DEF NodesTyped
  <2>5. states' \in [DOMAIN states' -> Health!NodeStatus]
    BY <2>2, <2>4
  <2>6. Health!StatusOf(n)' = Health!NewStatus
    BY <2>3 DEF Health!StatusOf, Health!HasEntry
  <2>7. \A m \in Nodes \ {n} : /\ Health!HasEntry(m)' <=> Health!HasEntry(m)
                               /\ Health!StatusOf(m)' = Health!StatusOf(m)
                               /\ m \in DOMAIN states => states'[m] = states[m]
    BY <2>3 DEF Health!StatusOf, Health!HasEntry
  <2> QED
    BY <1>0, <2>1, <2>2, <2>3, <2>4, <2>5, <2>6, <2>7, NodeForgotten
<1>3. ASSUME NEW n \in Nodes, Health!ProbeEnds(n)
      PROVE  WorkersTyped' /\ NodesTyped' /\ StepEarned
  <2>1. WorkersTyped'
    BY <1>0, <1>3 DEF Health!ProbeEnds, Health!workers, WorkersTyped
  <2>2. CASE UNCHANGED <<states, posted>>
    BY <1>0, <2>1, <2>2, NothingPosted
  <2>3. CASE /\ Health!HasEntry(n) /\ Health!Remember(n, "probe")
             /\ Health!WithStatus(n, Health!MarkedReady(states[n]))
    <3>1. "probe" \in Health!Marks
      BY DEF Health!Marks
    <3>2. states[n] \in Health!NodeStatus /\ posted[n] \in Seq(Health!Marks)
      BY <1>0, <2>3 DEF NodesTyped, Health!HasEntry
    <3>3. posted'[n] \in Seq(Health!Marks) /\ Continues(posted'[n], posted[n], "probe")
      BY <1>0, <2>3, <3>1, RememberContinues DEF NodesTyped
    <3> DEFINE t == Health!MarkedReady(states[n])
    <3> HIDE DEF t
    <3>4. /\ t \in Health!NodeStatus /\ Health!WithStatus(n, t)
          /\ \A q \in Seq(Health!Marks) :
               Continues(q, posted[n], "probe") =>
                  /\ Health!StreaksTell(t, q)
                  /\ t.state # Health!StatusOf(n).state => Health!Earned(q)[t.state]
      <4>1. t \in Health!NodeStatus
        BY <3>2, <3>3, AfterProbe, Zenon DEF t
      <4>2. \A q \in Seq(Health!Marks) :
              Continues(q, posted[n], "probe") =>
                 Health!StreaksTell(t, q) /\ Health!Earned(q)[t.state]
        BY <3>2, AfterProbe, Zenon DEF t
      <4> QED
        BY <2>3, <4>1, <4>2, Zenon DEF t
    <3> QED
      BY <2>1, <2>3, <3>1, <3>4, ResultCounted DEF NodesTyped, StepEarned
  <2> QED
    BY <1>3, <2>2, <2>3 DEF Health!ProbeEnds
<1>4. ASSUME NEW n \in Nodes, Health!ProviderChanges(n)
      PROVE  WorkersTyped' /\ NodesTyped' /\ StepEarned
  <2>1. WorkersTyped'
    BY <1>0, <1>4 DEF Health!ProviderChanges, Health!workers, WorkersTyped
  <2> QED
    BY <1>0, <1>4, <2>1, NothingPosted DEF Health!ProviderChanges
<1>5. ASSUME NEW w \in Health!Started, Health!Wake(w)
      PROVE  WorkersTyped' /\ NodesTyped' /\ StepEarned
  <2>1. WorkersTyped'
    BY <1>0, <1>5 DEF Health!Wake, WorkersTyped
  <2> QED
    BY <1>0, <1>5, <2>1, NothingPosted DEF Health!Wake
<1>6. ASSUME NEW w \in Health!Started, Health!Check(w)
      PROVE  WorkersTyped' /\ NodesTyped' /\ StepEarned
  <2>1. w \in 1..Len(node) /\ w \in 1..Len(result) /\ node[w] \in Nodes
    BY <1>0 DEF Health!Started, WorkersTyped
  <2>2. (IF w \in cancelled THEN "fail" ELSE answer[node[w]]) \in Health!Results
    BY <1>0, <2>1 DEF WorkersTyped, Health!Results
  <2>3. /\ result' = [result EXCEPT ![w] =
                        IF w \in cancelled THEN "fail" ELSE answer[node[w]]]
        /\ UNCHANGED <<states, posted, started, node, answer>>
    BY <1>6 DEF Health!Check
  <2>4. result' \in Seq(Health!Results) /\ Len(result') = Len(result)
    BY <1>0, <2>1, <2>2, <2>3, ExceptSeq DEF WorkersTyped
  <2>5. WorkersTyped'
    BY <1>0, <2>3, <2>4 DEF WorkersTyped
  <2> QED
    BY <1>0, <2>3, <2>5, NothingPosted
<1>7. ASSUME NEW w \in Health!Started, Health!Post(w)
      PROVE  WorkersTyped' /\ NodesTyped' /\ StepEarned
  <2> DEFINE n == node[w]
             t == Health!Verdict(Health!StatusOf(n), result[w])
  <2>1. n \in Nodes /\ result[w] \in Health!Results /\ result[w] \in Health!Marks
    BY <1>0 DEF Health!Started, WorkersTyped, Health!Marks
  <2>2. WorkersTyped'
    BY <1>0, <1>7 DEF Health!Post, WorkersTyped
  <2>3. Health!WithStatus(n, t) /\ Health!Remember(n, result[w])
    BY <1>7 DEF Health!Post
  <2> HIDE DEF n, t
  <2>4. /\ Health!StatusOf(n) \in Health!NodeStatus /\ posted[n] \in Seq(Health!Marks)
        /\ Health!StreaksTell(Health!StatusOf(n), posted[n])
    BY <1>0, <2>1, StatusTyped DEF NodesTyped
  <2>5. /\ t \in Health!NodeStatus
        /\ \A q \in Seq(Health!Marks) :
             Continues(q, posted[n], result[w]) =>
                /\ Health!StreaksTell(t, q)
                /\ t.state # Health!StatusOf(n).state => Health!Earned(q)[t.state]
    <3>1. \A q \in Seq(Health!Marks) :
             Continues(q, posted[n], result[w]) =>
                /\ Health!StreaksTell(t, q)
                /\ t.state # Health!StatusOf(n).state => Health!Earned(q)[t.state]
      BY <2>1, <2>4, AfterVerdict, Zenon DEF t
    <3>2. posted'[n] \in Seq(Health!Marks) /\ Continues(posted'[n], posted[n], result[w])
      BY <1>0, <2>1, <2>3, RememberContinues DEF NodesTyped
    <3>3. t \in Health!NodeStatus
      BY <2>1, <2>4, <3>2, AfterVerdict, Zenon DEF t
    <3> QED
      BY <3>1, <3>3
  <2> QED
    BY <2>1, <2>2, <2>3, <2>5, ResultCounted DEF NodesTyped, StepEarned
<1>8. ASSUME Health!Stop PROVE WorkersTyped' /\ NodesTyped' /\ StepEarned
  <2>1. WorkersTyped'
    BY <1>0, <1>8 DEF Health!Stop, Health!workers, WorkersTyped
  <2> QED
    BY <1>0, <1>8, <2>1, NothingPosted DEF Health!Stop
<1>9. CASE UNCHANGED Health!vars
  <2>1. WorkersTyped'
    BY <1>0, <1>9 DEF Health!vars, Health!workers, WorkersTyped
  <2> QED
    BY <1>0, <1>9, <2>1, NothingPosted DEF Health!vars
<1> QED
  BY <1>1, <1>2, <1>3, <1>4, <1>5, <1>6, <1>7, <1>8, <1>9
  DEF Health!Next, Health!Worker

\* The inductive invariant of the monitor.
THEOREM HealthInvariance == Health!Spec => []Health!HealthIInv
<1>1. Health!HealthIInv /\ [Health!Next]_(Health!vars) => Health!HealthIInv'
  <2> SUFFICES ASSUME Health!HealthIInv, [Health!Next]_(Health!vars)
               PROVE  Health!HealthIInv'
    OBVIOUS
  <2>1. WorkersTyped' /\ NodesTyped'
    BY HealthStep
  <2> QED
    BY <2>1 DEF Health!HealthIInv, Health!MonitorTyped, WorkersTyped, NodesTyped
<1> QED
  BY <1>1, HealthInit, PTL DEF Health!Spec

\* Hysteresis (monitor.go): for any nodes and any number of workers, and whatever
\* the order of checks, probes and reloads, the latest results of a node earn it
\* every state that it is found in.
THEOREM Hysteresis == Health!Spec => Health!VerdictsEarned
<1> DEFINE Step == [StepEarned]_(Health!vars)
<1>1. Health!HealthIInv /\ [Health!Next]_(Health!vars) => Step
  <2> SUFFICES ASSUME Health!HealthIInv, [Health!Next]_(Health!vars) PROVE StepEarned
    OBVIOUS
  <2> QED
    BY HealthStep
<1>2. [][StepEarned]_(Health!vars) <=> Health!VerdictsEarned
  BY DEF StepEarned, Health!VerdictsEarned
<1> QED
  BY <1>1, <1>2, HealthInvariance, PTL DEF Health!Spec
=============================================================================
