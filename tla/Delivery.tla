------------------------------- MODULE Delivery -------------------------------
(***************************************************************************)
(* What a client and an operator may expect of a streamed answer, without  *)
(* goroutines and channels: the chunks of the provider reach the client in *)
(* their order, none twice and none left out; a slow client holds the      *)
(* provider back; an ending says how the provider's stream has ended; and  *)
(* the concurrency slots are given back when the provider has finished.    *)
(***************************************************************************)
EXTENDS Integers, Sequences

CONSTANT Buffer    \* how many chunks may be on their way

VARIABLES
    read,      \* how many chunks the provider has sent
    source,    \* the provider's stream: "going", "whole" or "broken"
    client,    \* the chunks that the client was sent
    ending,    \* what the client was told in the end, "open" until then
    hungUp,    \* the client has hung up
    slot       \* the concurrency slots are taken

vars == <<read, source, client, ending, hungUp, slot>>

Init ==
    /\ read = 0 /\ source = "going"
    /\ client = <<>> /\ ending = "open"
    /\ hungUp = FALSE
    /\ slot = TRUE

Produce ==
    /\ source = "going"
    /\ read - Len(client) < Buffer
    /\ read' = read + 1
    /\ UNCHANGED <<source, client, ending, hungUp, slot>>

EndOfSource ==
    /\ source = "going"
    /\ source' \in {"whole", "broken"}
    /\ UNCHANGED <<read, client, ending, hungUp, slot>>

Deliver ==
    /\ ending = "open"
    /\ Len(client) < read
    /\ client' = Append(client, Len(client) + 1)
    /\ UNCHANGED <<read, source, ending, hungUp, slot>>

AllDelivered == Len(client) = read

\* Only to a client that has hung up may the ending say anything.
End ==
    /\ ending = "open"
    /\ \/ ending' = "done" /\ ((source = "whole" /\ AllDelivered) \/ hungUp)
       \/ ending' = "error" /\ source = "broken" /\ AllDelivered
       \/ ending' = "cut" /\ hungUp
    /\ UNCHANGED <<read, source, client, hungUp, slot>>

HangUp ==
    /\ hungUp' = TRUE
    /\ UNCHANGED <<read, source, client, ending, slot>>

Release ==
    /\ source # "going"
    /\ slot' = FALSE
    /\ UNCHANGED <<read, source, client, ending, hungUp>>

Next == Produce \/ EndOfSource \/ Deliver \/ End \/ HangUp \/ Release

Spec == Init /\ [][Next]_vars
=============================================================================
