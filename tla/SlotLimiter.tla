----------------------------- MODULE SlotLimiter -----------------------------
(***************************************************************************)
(* limits.ConcurrencyTracker (internal/limits/tracker.go:28-67): one       *)
(* atomic counter, a load / compare-and-swap loop in TryAcquire and one in *)
(* Release.  A caller is a request goroutine; its pc says between which    *)
(* two atomic operations it stands, seen is its local variable cur.        *)
(*                                                                         *)
(*   idle      outside the tracker, holds no slot                          *)
(*   acqLoad   in TryAcquire, about to (re)load the counter                *)
(*   acqCas    in TryAcquire, about to compare and swap                    *)
(*   refused   TryAcquire has returned false                               *)
(*   holding   TryAcquire has returned true                                *)
(*   relLoad   in Release, about to (re)load the counter                   *)
(*   relCas    in Release, about to compare and swap                       *)
(***************************************************************************)
EXTENDS Integers, FiniteSets

CONSTANTS
    Callers,     \* the goroutines that use the tracker
    Limit,       \* the configured cap, 0 = unlimited
    Persisted    \* the in-flight count that RestoreActiveRequests is given

ASSUME CallersAssumption == IsFiniteSet(Callers)
ASSUME LimitAssumption == Limit \in Nat
ASSUME PersistedAssumption == Persisted \in Int

VARIABLES active, pc, seen

vars == <<active, pc, seen>>

Locations == {"idle", "acqLoad", "acqCas", "refused",
              "holding", "relLoad", "relCas"}

\* RestoreActiveRequests: a count below zero or over the cap is ignored.
Restored ==
    IF Persisted < 0 \/ (Limit > 0 /\ Persisted > Limit) THEN 0 ELSE Persisted

Init ==
    /\ active = Restored
    /\ pc = [c \in Callers |-> "idle"]
    /\ seen = [c \in Callers |-> 0]

Goto(c, l) == pc' = [pc EXCEPT ![c] = l]

-----------------------------------------------------------------------------
(* TryAcquire *)

\* Without a cap the counter is only a count.
AcquireUnlimited(c) ==
    /\ pc[c] = "idle"
    /\ active' = active + 1
    /\ Goto(c, "holding")
    /\ UNCHANGED seen

StartAcquire(c) ==
    /\ pc[c] = "idle"
    /\ Goto(c, "acqLoad")
    /\ UNCHANGED <<active, seen>>

TryAcquire(c) == IF Limit = 0 THEN AcquireUnlimited(c) ELSE StartAcquire(c)

AcquireLoad(c) ==
    /\ pc[c] = "acqLoad"
    /\ seen' = [seen EXCEPT ![c] = active]
    /\ \/ active >= Limit /\ Goto(c, "refused")
       \/ active < Limit /\ Goto(c, "acqCas")
    /\ UNCHANGED active

CasSucceeds(c) == active = seen[c]

\* Mutant: a plain store instead of the compare and swap.
AcquireStore(c) ==
    /\ pc[c] = "acqCas"
    /\ active' = seen[c] + 1
    /\ Goto(c, "holding")
    /\ UNCHANGED seen

\* Mutant: a lost compare and swap is retried without a new load.
AcquireCasNoReload(c) ==
    /\ pc[c] = "acqCas"
    /\ \/ CasSucceeds(c) /\ active' = seen[c] + 1 /\ Goto(c, "holding")
       \/ ~CasSucceeds(c) /\ active' = active /\ Goto(c, "acqCas")
    /\ UNCHANGED seen

AcquireCas(c) ==
    /\ pc[c] = "acqCas"
    /\ \/ CasSucceeds(c) /\ active' = seen[c] + 1 /\ Goto(c, "holding")
       \/ ~CasSucceeds(c) /\ active' = active /\ Goto(c, "acqLoad")
    /\ UNCHANGED seen

\* The caller of a refused TryAcquire moves on.
Leave(c) ==
    /\ pc[c] = "refused"
    /\ Goto(c, "idle")
    /\ UNCHANGED <<active, seen>>

-----------------------------------------------------------------------------
(* Release *)

StartRelease(c) ==
    /\ pc[c] = "holding"
    /\ Goto(c, "relLoad")
    /\ UNCHANGED <<active, seen>>

\* The test for zero of the loop (tracker.go:54): a release that finds no
\* occupied slot returns without touching the counter.
ReleaseLoad(c) ==
    /\ pc[c] = "relLoad"
    /\ seen' = [seen EXCEPT ![c] = active]
    /\ Goto(c, IF active <= 0 THEN "idle" ELSE "relCas")
    /\ UNCHANGED active

\* Mutant: Release forgets to return after its swap.
ReleaseCasNoReturn(c) ==
    /\ pc[c] = "relCas"
    /\ \/ CasSucceeds(c) /\ active' = seen[c] - 1 /\ Goto(c, "relLoad")
       \/ ~CasSucceeds(c) /\ active' = active /\ Goto(c, "relLoad")
    /\ UNCHANGED seen

ReleaseCas(c) ==
    /\ pc[c] = "relCas"
    /\ \/ CasSucceeds(c) /\ active' = seen[c] - 1 /\ Goto(c, "idle")
       \/ ~CasSucceeds(c) /\ active' = active /\ Goto(c, "relLoad")
    /\ UNCHANGED seen

-----------------------------------------------------------------------------
Next ==
    \E c \in Callers :
        \/ TryAcquire(c) \/ AcquireLoad(c) \/ AcquireCas(c) \/ Leave(c)
        \/ StartRelease(c) \/ ReleaseLoad(c) \/ ReleaseCas(c)

Spec == Init /\ [][Next]_vars

\* A goroutine inside TryAcquire or Release keeps running; whether a request
\* ever ends is the business of the provider, and is not assumed.
Fairness ==
    \A c \in Callers :
        WF_vars(AcquireLoad(c) \/ AcquireCas(c) \/ ReleaseLoad(c) \/ ReleaseCas(c))

FairSpec == Spec /\ Fairness

-----------------------------------------------------------------------------
(* Properties *)

TypeOK ==
    /\ active \in Nat
    /\ pc \in [Callers -> Locations]
    /\ seen \in [Callers -> Nat]

Holders == {c \in Callers : pc[c] \in {"holding", "relLoad", "relCas"}}

\* The counter is exact: whatever the interleaving of the two
\* compare-and-swap loops, no slot is counted twice, lost, or given back by
\* someone who did not take it.
CountExact == active = Restored + Cardinality(Holders)

\* The cap holds at every instant, in-between states of the loops included
\* (README.md: "max in-flight requests").
CapHolds == Limit > 0 => active <= Limit

\* What makes AcquireCas safe: only a capped tracker has a loop, and a loaded
\* value that passed the test against the cap is under it when it is swapped in.
LoadedUnderCap ==
    \A c \in Callers :
        /\ pc[c] = "acqLoad" => Limit > 0
        /\ pc[c] = "acqCas" => seen[c] < Limit

\* And what makes ReleaseCas safe: it never takes the counter below zero.
LoadedPositive == \A c \in Callers : pc[c] = "relCas" => seen[c] > 0

IInv == TypeOK /\ CountExact /\ CapHolds /\ LoadedUnderCap /\ LoadedPositive

InLoop(c) == pc[c] \in {"acqLoad", "acqCas", "relLoad", "relCas"}

\* The loops are lock-free: a goroutine can lose its compare-and-swap again
\* and again only because others succeed, so whenever someone is in a loop
\* some call completes.
SomeoneCompletes ==
    <>[](\E c \in Callers : InLoop(c)) =>
        []<><<\E c \in Callers : InLoop(c) /\ ~InLoop(c)'>>_vars

\* The two loops implement the semaphore that the router reasons with.
Abstract ==
    [c \in Callers |->
        CASE pc[c] \in {"idle", "acqLoad", "acqCas"} -> "idle"
          [] pc[c] = "refused" -> "refused"
          [] OTHER -> "holding"]

Sem == INSTANCE Semaphore WITH status <- Abstract

ImplementsSemaphore == Sem!Spec
=============================================================================
