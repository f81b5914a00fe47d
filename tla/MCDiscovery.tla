------------------------------ MODULE MCDiscovery ------------------------------
(* Discovery with three known providers, one of which is never asked. *)
EXTENDS Discovery

KnownProviders ==
    <<[id |-> 1, asked |-> TRUE], [id |-> 2, asked |-> FALSE], [id |-> 3, asked |-> TRUE]>>

Lists == {<<>>, <<1>>, <<2, 1>>}

\* No network, one, two, and two addresses in one network.
Addresses == {<<>>, <<1>>, <<1, 2>>, <<1, 1>>}
=============================================================================
