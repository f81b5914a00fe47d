------------------------------- MODULE MCRouter -------------------------------
(***************************************************************************)
(* Configurations of LocalRouter for the runs of module Router: a local    *)
(* provider with two models and a remote one.                              *)
(***************************************************************************)
EXTENDS Router, TLC

CONSTANTS local, remote, r1, r2

MCProviders == {local, remote}
MCModels == {"m1", "m2"}
MCEntries == MCProviders \X MCModels

NoLimit == <<>>

\* Two models of the local provider, then the remote one.
TwoThenRemote == << <<local, "m1">>, <<local, "m2">>, <<remote, "m1">> >>

Base == [members |-> MCProviders,
         globalList |-> TwoThenRemote,
         forModel |-> [m \in MCModels |-> SelectSeq(TwoThenRemote, LAMBDA e : e[2] = m)],
         default |-> "",
         limits |-> [p \in MCProviders |-> NoLimit],
         modelLimits |-> [e \in MCEntries |-> NoLimit],
         cap |-> [p \in MCProviders |-> 0],
         modelCap |-> [e \in MCEntries |-> 0],
         recovery |-> [p \in MCProviders |-> IF p = remote THEN 1 ELSE 0]]

\* Caps that contend for two requests: one slot of the local provider, two of
\* the remote one, but one of its model.
Capped == [Base EXCEPT !.cap = (local :> 1) @@ (remote :> 2),
                       !.modelCap[<<remote, "m1">>] = 1]

\* One request per window for the remote provider, two for the local model m1.
Limited == [Base EXCEPT !.limits[remote] = <<[requests |-> 1, window |-> 1]>>,
                        !.modelLimits[<<local, "m1">>] = <<[requests |-> 2, window |-> 1]>>]

OneLimited == <<Limited>>

\* A reload that removes the remote provider; nobody serves the model m2.
NoM2 == [Capped EXCEPT !.forModel["m2"] = <<>>]

ShrunkAway == <<NoM2, [NoM2 EXCEPT !.members = {local},
                                   !.globalList = << <<local, "m1">>, <<local, "m2">> >>,
                                   !.forModel["m1"] = << <<local, "m1">> >>,
                                   !.cap[remote] = 0,
                                   !.recovery[remote] = 0]>>
=============================================================================
