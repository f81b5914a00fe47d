------------------------------- MODULE Failover -------------------------------
(***************************************************************************)
(* What a client may expect of LocalRouter's fall-through, without         *)
(* trackers, slots, quotas, timers and reloads: the entries for its model  *)
(* are tried in their order; an entry may be passed over, for this round;  *)
(* what fails a call is dropped for good, the entry alone or all of its    *)
(* provider, and the next round begins at the top of what is left; a       *)
(* client is refused only when a round has passed over all that is left;   *)
(* and an answer is given once.                                            *)
(***************************************************************************)
EXTENDS Integers, Sequences

CONSTANTS
    Requests,
    Remote,    \* the providers that are not local
    Lists      \* what the configurations list for the models asked for

VARIABLES
    stage,     \* "waiting", "choosing", "calling", "answered" or "refused"
    list,      \* the entries for the model that the client asked for
    left,      \* the positions that have not been dropped
    passed     \* those of them that this round has passed over

vars == <<stage, list, left, passed>>

Enter(r, s) == stage' = [stage EXCEPT ![r] = s]

Init ==
    /\ stage = [r \in Requests |-> "waiting"]
    /\ list = [r \in Requests |-> <<>>]
    /\ left = [r \in Requests |-> {}]
    /\ passed = [r \in Requests |-> {}]

Accept(r, l) ==
    /\ stage[r] = "waiting"
    /\ list' = [list EXCEPT ![r] = l]
    /\ left' = [left EXCEPT ![r] = DOMAIN l]
    /\ Enter(r, IF l = <<>> THEN "refused" ELSE "choosing")
    /\ UNCHANGED passed

\* The first position that is left and has not been passed over.
IsNext(r, i) ==
    /\ i \in left[r] /\ i \notin passed[r]
    /\ \A k \in left[r] : k \in passed[r] \/ i <= k

PassOver(r, i) ==
    /\ stage[r] = "choosing"
    /\ IsNext(r, i)
    /\ passed' = [passed EXCEPT ![r] = @ \cup {i}]
    /\ UNCHANGED <<stage, list, left>>

Drop(r, positions) ==
    /\ left' = [left EXCEPT ![r] = @ \ positions]
    /\ passed' = [passed EXCEPT ![r] = {}]
    /\ UNCHANGED list

DropEntry(r, i) == Drop(r, {k \in DOMAIN list[r] : list[r][k] = list[r][i]})

DropProvider(r, i) == Drop(r, {k \in DOMAIN list[r] : list[r][k][1] = list[r][i][1]})

\* The provider has no slot for the request.
NoSlot(r, i) ==
    /\ stage[r] = "choosing"
    /\ IsNext(r, i)
    /\ DropProvider(r, i)
    /\ UNCHANGED stage

Call(r, i) ==
    /\ stage[r] = "choosing"
    /\ IsNext(r, i)
    /\ Enter(r, "calling")
    /\ UNCHANGED <<list, left, passed>>

\* Only a local provider may keep its other entries.
Fail(r, i) ==
    /\ stage[r] = "calling"
    /\ IsNext(r, i)
    /\ \/ DropProvider(r, i)
       \/ list[r][i][1] \notin Remote /\ DropEntry(r, i)
    /\ Enter(r, "choosing")

Answer(r) ==
    /\ stage[r] = "calling"
    /\ Enter(r, "answered")
    /\ UNCHANGED <<list, left, passed>>

Refuse(r) ==
    /\ stage[r] = "choosing"
    /\ passed[r] = left[r]
    /\ Enter(r, "refused")
    /\ passed' = [passed EXCEPT ![r] = {}]
    /\ UNCHANGED <<list, left>>

Next == \E r \in Requests :
    \/ \E l \in Lists : Accept(r, l)
    \/ Answer(r) \/ Refuse(r)
    \/ \E i \in left[r] : PassOver(r, i) \/ NoSlot(r, i) \/ Call(r, i) \/ Fail(r, i)

Spec == Init /\ [][Next]_vars
===============================================================================
