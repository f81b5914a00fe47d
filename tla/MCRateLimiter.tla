---------------------------- MODULE MCRateLimiter ----------------------------
EXTENDS RateLimiter, TLC

CONSTANTS burst, free     \* a key with two windows, and one without limits

MCKeys == {burst, free}

\* Two requests per tick and a half, three per four ticks.
MCLimits ==
    (burst :> <<[requests |-> 2, window |-> 2], [requests |-> 3, window |-> 4]>>)
    @@ (free :> <<>>)

\* Never opened, ended, and still running at startup.
MCSaved == {NewWindow, [count |-> 2, resetAt |-> 1], [count |-> 1, resetAt |-> 3]}

\* Requests on the key without limits change nothing but the history.
MCMaxGranted == (burst :> 7) @@ (free :> 1)
=============================================================================
