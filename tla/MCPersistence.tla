---------------------------- MODULE MCPersistence ----------------------------
EXTENDS Persistence, TLC

CONSTANTS p1, p2

\* One request per tick for the first provider, no limit for the second.
MCLimits == [p \in Providers |-> IF p = p1 THEN <<[requests |-> 1, window |-> 1]>> ELSE <<>>]

=============================================================================
