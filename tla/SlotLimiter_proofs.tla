-------------------------- MODULE SlotLimiter_proofs --------------------------
(***************************************************************************)
(* For any set of callers and any cap: the counter of SlotLimiter counts   *)
(* exactly the slots held, never passes the cap, and the two loops         *)
(* implement Semaphore.                                                    *)
(***************************************************************************)
EXTENDS SlotLimiter, FiniteSetTheorems, TLAPS

\* The counts that are restored at startup are natural numbers within the cap
\* (tracker.go:192).
LEMMA RestoredInRange == Restored \in Nat /\ (Limit > 0 => Restored <= Limit)
  BY LimitAssumption, PersistedAssumption DEF Restored

\* The set of holders is finite, so that it can be counted.
LEMMA HoldersFinite == IsFiniteSet(Holders) /\ Cardinality(Holders) \in Nat
  BY CallersAssumption, FS_Subset, FS_CardinalityType DEF Holders

\* A caller that takes a slot adds one to the number of holders.
LEMMA OneMoreHolder ==
  ASSUME NEW c \in Callers, c \notin Holders, Holders' = Holders \cup {c}
  PROVE  Cardinality(Holders') = Cardinality(Holders) + 1
  BY HoldersFinite, FS_AddElement

\* A caller that gives its slot back takes one from the number of holders.
LEMMA OneHolderLess ==
  ASSUME NEW c \in Callers, c \in Holders, Holders' = Holders \ {c}
  PROVE  Cardinality(Holders') = Cardinality(Holders) - 1
  BY HoldersFinite, FS_RemoveElement

LEMMA InitIInv == Init => IInv
<1> SUFFICES ASSUME Init PROVE IInv
  OBVIOUS
<1>1. Holders = {}
  BY DEF Init, Holders
<1>2. Cardinality(Holders) = 0
  BY <1>1, FS_EmptySet
<1> QED
  BY <1>2, RestoredInRange
  DEF Init, IInv, TypeOK, Locations, CountExact, CapHolds, LoadedUnderCap,
      LoadedPositive

LEMMA NextIInv == IInv /\ [Next]_vars => IInv'
<1> SUFFICES ASSUME IInv, [Next]_vars PROVE IInv'
  OBVIOUS
<1> USE LimitAssumption DEF IInv
<1>0. Restored \in Nat /\ Cardinality(Holders) \in Nat
  BY RestoredInRange, HoldersFinite
<1>1. ASSUME NEW c \in Callers, Limit = 0, AcquireUnlimited(c) PROVE IInv'
  <2>1. c \notin Holders /\ Holders' = Holders \cup {c}
    BY <1>1 DEF AcquireUnlimited, Goto, Holders, TypeOK
  <2>2. active' = active + 1
    BY <1>1 DEF AcquireUnlimited
  <2>3. CountExact'
    <3>1. Cardinality(Holders') = Cardinality(Holders) + 1
      BY <2>1, OneMoreHolder
    <3> QED
      BY <1>0, <2>2, <3>1 DEF CountExact
  <2> QED
    <3>1. TypeOK'
      BY <1>1 DEF AcquireUnlimited, Goto, TypeOK, Locations
    <3>2. CapHolds' /\ LoadedUnderCap' /\ LoadedPositive'
      BY <1>1
      DEF AcquireUnlimited, Goto, TypeOK, CapHolds, LoadedUnderCap, LoadedPositive
    <3> QED
      BY <2>3, <3>1, <3>2
<1>2. ASSUME NEW c \in Callers,
             (Limit # 0 /\ StartAcquire(c)) \/ AcquireLoad(c) \/ Leave(c)
                 \/ StartRelease(c)
      PROVE  IInv'
  <2>1. TypeOK'
    BY <1>2
    DEF StartAcquire, AcquireLoad, Leave, StartRelease, Goto, TypeOK, Locations
  <2>2. active' = active
    BY <1>2 DEF StartAcquire, AcquireLoad, Leave, StartRelease
  <2>3. Holders' = Holders
    BY <1>2
    DEF StartAcquire, AcquireLoad, Leave, StartRelease, Goto, TypeOK, Holders
  <2>4. CountExact' /\ CapHolds'
    BY <2>2, <2>3 DEF CountExact, CapHolds
  <2>5. LoadedUnderCap' /\ LoadedPositive'
    BY <1>2
    DEF StartAcquire, AcquireLoad, Leave, StartRelease, Goto, TypeOK,
        LoadedUnderCap, LoadedPositive
  <2> QED
    BY <2>1, <2>4, <2>5
<1>3. ASSUME NEW c \in Callers, AcquireCas(c) PROVE IInv'
  <2>1. CASE CasSucceeds(c)
    <3>1. c \notin Holders /\ Holders' = Holders \cup {c}
      BY <1>3, <2>1 DEF AcquireCas, Goto, Holders, TypeOK
    <3>2. active' = active + 1 /\ active < Limit
      BY <1>3, <2>1 DEF AcquireCas, CasSucceeds, LoadedUnderCap, TypeOK
    <3>3. CountExact'
      <4>1. Cardinality(Holders') = Cardinality(Holders) + 1
        BY <3>1, OneMoreHolder
      <4> QED
        BY <1>0, <3>2, <4>1 DEF CountExact
    <3>4. TypeOK'
      BY <1>3, <2>1, <3>2 DEF AcquireCas, Goto, TypeOK, Locations
    <3>5. CapHolds' /\ LoadedUnderCap' /\ LoadedPositive'
      BY <1>3, <2>1, <3>2
      DEF AcquireCas, Goto, TypeOK, CapHolds, LoadedUnderCap, LoadedPositive
    <3> QED
      BY <3>3, <3>4, <3>5
  <2>2. CASE ~CasSucceeds(c)
    <3>1. Holders' = Holders
      BY <1>3, <2>2 DEF AcquireCas, Goto, Holders, TypeOK
    <3> QED
      BY <1>3, <2>2, <3>1
      DEF AcquireCas, Goto, TypeOK, Locations, CountExact, CapHolds,
          LoadedUnderCap, LoadedPositive
  <2> QED
    BY <2>1, <2>2
<1>4. ASSUME NEW c \in Callers, ReleaseLoad(c) PROVE IInv'
  <2>1. c \in Holders
    BY <1>4 DEF ReleaseLoad, Holders
  <2>2. Cardinality(Holders) # 0
    BY <2>1, HoldersFinite, FS_EmptySet
  <2>3. active > 0
    BY <1>0, <2>2 DEF CountExact, TypeOK
  <2>4. Holders' = Holders
    BY <1>4, <2>3 DEF ReleaseLoad, Goto, Holders, TypeOK
  <2> QED
    <3>1. TypeOK'
      BY <1>4, <2>3 DEF ReleaseLoad, Goto, TypeOK, Locations
    <3>2. CountExact' /\ CapHolds'
      BY <1>4, <2>4 DEF ReleaseLoad, CountExact, CapHolds
    <3>3. LoadedUnderCap' /\ LoadedPositive'
      BY <1>4, <2>3
      DEF ReleaseLoad, Goto, TypeOK, LoadedUnderCap, LoadedPositive
    <3> QED
      BY <3>1, <3>2, <3>3
<1>5. ASSUME NEW c \in Callers, ReleaseCas(c) PROVE IInv'
  <2>1. CASE CasSucceeds(c)
    <3>1. c \in Holders /\ Holders' = Holders \ {c}
      BY <1>5, <2>1 DEF ReleaseCas, Goto, Holders, TypeOK
    <3>2. active' = active - 1 /\ active > 0
      BY <1>5, <2>1 DEF ReleaseCas, CasSucceeds, LoadedPositive, TypeOK
    <3>3. CountExact'
      <4>1. Cardinality(Holders') = Cardinality(Holders) - 1
        BY <3>1, OneHolderLess
      <4> QED
        BY <1>0, <3>2, <4>1 DEF CountExact
    <3>4. TypeOK'
      BY <1>5, <2>1, <3>2 DEF ReleaseCas, Goto, TypeOK, Locations
    <3>5. CapHolds' /\ LoadedUnderCap' /\ LoadedPositive'
      BY <1>5, <2>1, <3>2
      DEF ReleaseCas, Goto, TypeOK, CapHolds, LoadedUnderCap, LoadedPositive
    <3> QED
      BY <3>3, <3>4, <3>5
  <2>2. CASE ~CasSucceeds(c)
    <3>1. Holders' = Holders
      BY <1>5, <2>2 DEF ReleaseCas, Goto, Holders, TypeOK
    <3> QED
      BY <1>5, <2>2, <3>1
      DEF ReleaseCas, Goto, TypeOK, Locations, CountExact, CapHolds,
          LoadedUnderCap, LoadedPositive
  <2> QED
    BY <2>1, <2>2
<1>6. CASE UNCHANGED vars
  BY <1>6
  DEF vars, TypeOK, CountExact, CapHolds, LoadedUnderCap, LoadedPositive, Holders
<1> QED
  BY <1>1, <1>2, <1>3, <1>4, <1>5, <1>6 DEF Next, TryAcquire

\* The inductive invariant of the tracker.
THEOREM Invariance == Spec => []IInv
<1> QED
  BY InitIInv, NextIInv, PTL DEF Spec

-----------------------------------------------------------------------------
(* Refinement: the two loops implement Semaphore *)

\* A caller holds a slot of the semaphore when it holds one of the tracker.
LEMMA SameHolders == TypeOK => Sem!Holding = Holders
  BY DEF TypeOK, Locations, Sem!Holding, Abstract, Holders

\* The semaphore has a free slot exactly when the counter is under the cap.
LEMMA SameFree ==
  TypeOK /\ CountExact => (Sem!Free <=> (Limit = 0 \/ active < Limit))
<1> SUFFICES ASSUME TypeOK, CountExact
             PROVE  Sem!Free <=> (Limit = 0 \/ active < Limit)
  OBVIOUS
<1>1. Sem!Cardinality(Sem!Holding) = Cardinality(Sem!Holding)
  BY DEF Cardinality, Sem!Cardinality
<1>2. Cardinality(Sem!Holding) = Cardinality(Holders)
  BY SameHolders
<1> QED
  BY <1>1, <1>2 DEF CountExact, Sem!Free

LEMMA RefineInit == Init => Sem!Init
  BY DEF Init, Sem!Init, Abstract

LEMMA RefineNext ==
  IInv /\ [Next]_vars => [Sem!Next]_Abstract
<1> SUFFICES ASSUME IInv, [Next]_vars PROVE Sem!Next \/ UNCHANGED Abstract
  OBVIOUS
<1> USE LimitAssumption DEF IInv
<1>0. pc \in [Callers -> Locations] /\ active \in Nat
  BY DEF TypeOK
<1>1. ASSUME NEW c \in Callers, NEW a, NEW l \in Locations,
             pc' = [pc EXCEPT ![c] = l],
             a = CASE l \in {"idle", "acqLoad", "acqCas"} -> "idle"
                   [] l = "refused" -> "refused"
                   [] OTHER -> "holding"
      PROVE  Abstract' = [Abstract EXCEPT ![c] = a]
  BY <1>0, <1>1 DEF Abstract
<1>2. ASSUME NEW c \in Callers, Limit = 0, AcquireUnlimited(c) PROVE Sem!Grant(c)
  <2>1. Abstract[c] = "idle" /\ Abstract' = [Abstract EXCEPT ![c] = "holding"]
    BY <1>1, <1>2 DEF AcquireUnlimited, Goto, Abstract, Locations
  <2> QED
    BY <1>2, <2>1, SameFree DEF AcquireUnlimited, Sem!Grant
<1>3. ASSUME NEW c \in Callers,
             StartAcquire(c) \/ StartRelease(c) \/ ReleaseLoad(c)
      PROVE  UNCHANGED Abstract \/ Sem!Return(c)
  <2>1. CASE StartAcquire(c)
    BY <1>0, <2>1 DEF StartAcquire, Goto, Abstract
  <2>2. CASE StartRelease(c)
    BY <1>0, <2>2 DEF StartRelease, Goto, Abstract
  <2>3. CASE ReleaseLoad(c)
    <3>1. active # 0
      <4>1. c \in Holders
        BY <2>3 DEF ReleaseLoad, Holders
      <4> QED
        BY <4>1, HoldersFinite, FS_EmptySet, RestoredInRange DEF CountExact
    <3> QED
      BY <1>0, <2>3, <3>1 DEF ReleaseLoad, Goto, Abstract
  <2> QED
    BY <1>3, <2>1, <2>2, <2>3
<1>4. ASSUME NEW c \in Callers, AcquireLoad(c)
      PROVE  UNCHANGED Abstract \/ Sem!Refuse(c)
  <2>1. CASE active >= Limit
    <3>1. Limit # 0
      BY <1>4, <2>1 DEF AcquireLoad, LoadedUnderCap, TypeOK
    <3> QED
      <4>1. Abstract[c] = "idle" /\ Abstract' = [Abstract EXCEPT ![c] = "refused"]
        BY <1>0, <1>1, <1>4, <2>1 DEF AcquireLoad, Goto, Abstract, Locations
      <4>2. ~Sem!Free
        BY <1>0, <2>1, <3>1, SameFree
      <4> QED
        BY <4>1, <4>2 DEF Sem!Refuse
  <2>2. CASE active < Limit
    BY <1>0, <1>4, <2>2 DEF AcquireLoad, Goto, Abstract
  <2> QED
    BY <1>0, <2>1, <2>2
<1>5. ASSUME NEW c \in Callers, AcquireCas(c)
      PROVE  UNCHANGED Abstract \/ Sem!Grant(c)
  <2>1. CASE CasSucceeds(c)
    <3>1. Abstract[c] = "idle" /\ Abstract' = [Abstract EXCEPT ![c] = "holding"]
      BY <1>1, <1>5, <2>1 DEF AcquireCas, Goto, Abstract, Locations
    <3>2. active < Limit
      BY <1>5, <2>1 DEF AcquireCas, CasSucceeds, LoadedUnderCap
    <3> QED
      BY <3>1, <3>2, SameFree DEF Sem!Grant
  <2>2. CASE ~CasSucceeds(c)
    BY <1>0, <1>5, <2>2 DEF AcquireCas, Goto, Abstract
  <2> QED
    BY <2>1, <2>2
<1>6. ASSUME NEW c \in Callers, ReleaseCas(c)
      PROVE  UNCHANGED Abstract \/ Sem!Return(c)
  <2>1. CASE CasSucceeds(c)
    <3>1. Abstract[c] = "holding" /\ Abstract' = [Abstract EXCEPT ![c] = "idle"]
      BY <1>1, <1>6, <2>1 DEF ReleaseCas, Goto, Abstract, Locations
    <3> QED
      BY <3>1 DEF Sem!Return
  <2>2. CASE ~CasSucceeds(c)
    BY <1>0, <1>6, <2>2 DEF ReleaseCas, Goto, Abstract
  <2> QED
    BY <2>1, <2>2
<1>7. ASSUME NEW c \in Callers, Leave(c) PROVE Sem!GiveUp(c)
  <2>1. Abstract[c] = "refused" /\ Abstract' = [Abstract EXCEPT ![c] = "idle"]
    BY <1>1, <1>7 DEF Leave, Goto, Abstract, Locations
  <2> QED
    BY <2>1 DEF Sem!GiveUp
<1>8. CASE UNCHANGED vars
  BY <1>8 DEF vars, Abstract
<1> QED
  BY <1>2, <1>3, <1>4, <1>5, <1>6, <1>7, <1>8 DEF Next, TryAcquire, Sem!Next

\* The lock-free tracker is a semaphore: a slot is taken or given back at one
\* instant, and TryAcquire returns false only at an instant at which every
\* slot is taken.
THEOREM Refinement == Spec => ImplementsSemaphore
<1> QED
  BY Invariance, RefineInit, RefineNext, PTL
  DEF Spec, ImplementsSemaphore, Sem!Spec
-----------------------------------------------------------------------------
\* tracker.go:28-67: the counter is a natural number and the callers are
\* where the code can be.
THEOREM Typing == Spec => []TypeOK
  BY Invariance, PTL DEF IInv

\* The counter is exact whatever the interleaving of the two loops.
THEOREM ExactCount == Spec => []CountExact
  BY Invariance, PTL DEF IInv

\* No interleaving of the two loops takes the counter over the cap
\* (README.md: "max in-flight requests").
THEOREM CapNeverPassed == Spec => []CapHolds
  BY Invariance, PTL DEF IInv
=============================================================================
