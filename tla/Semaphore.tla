------------------------------ MODULE Semaphore ------------------------------
(***************************************************************************)
(* What the rest of LocalRouter expects of one concurrency cap             *)
(* (limits.ConcurrencyTracker): TryAcquire and Release take effect at one  *)
(* instant, a caller is refused only at an instant at which every slot is  *)
(* taken, and Limit = 0 means that there is no cap.  Occupied slots that   *)
(* belong to no caller are those restored from disk at startup.            *)
(***************************************************************************)
EXTENDS Integers, FiniteSets

CONSTANTS Callers, Limit, Restored

VARIABLE status          \* each caller: "idle", "holding" or "refused"

Holding == {c \in Callers : status[c] = "holding"}

Free == Limit = 0 \/ Restored + Cardinality(Holding) < Limit

Init == status = [c \in Callers |-> "idle"]

Grant(c) ==
    /\ status[c] = "idle"
    /\ Free
    /\ status' = [status EXCEPT ![c] = "holding"]

Refuse(c) ==
    /\ status[c] = "idle"
    /\ ~Free
    /\ status' = [status EXCEPT ![c] = "refused"]

Return(c) ==
    /\ status[c] = "holding"
    /\ status' = [status EXCEPT ![c] = "idle"]

\* A refused caller goes on to another provider and may come back later.
GiveUp(c) ==
    /\ status[c] = "refused"
    /\ status' = [status EXCEPT ![c] = "idle"]

Next == \E c \in Callers : Grant(c) \/ Refuse(c) \/ Return(c) \/ GiveUp(c)

Spec == Init /\ [][Next]_status
=============================================================================
