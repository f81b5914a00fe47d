----------------------------- MODULE StreamRelay -----------------------------
(***************************************************************************)
(* One streamed answer on its way through three goroutines and two         *)
(* bounded channels: the adapter reads the provider's body into ch         *)
(* (Adapter.Stream of the four adapters), the forwarder of Router.Stream   *)
(* copies ch to out and then gives the concurrency slots back, the SSE     *)
(* handler (handleStream) writes out to the client.  The client may hang   *)
(* up at any time, which cancels the context that adapter and handler      *)
(* watch; the forwarder does not watch it.                                 *)
(*                                                                         *)
(* The chunks of the answer are the numbers 1, 2, ...; Error is a chunk    *)
(* that carries an error.  The 15 s pings change no state.                 *)
(***************************************************************************)
EXTENDS Integers, Sequences

CONSTANTS
    MaxChunks,     \* bound on the chunks of an answer
    ChCap,         \* capacity of ch (10 in the code)
    OutCap         \* capacity of out (1 in the code)

ASSUME CapsAssumption == MaxChunks \in Nat /\ ChCap \in Nat \ {0} /\ OutCap \in Nat \ {0}

VARIABLES
    adapter,    \* "scan", "put", "leaving" or "ended"
    failed,     \* the adapter has put an Error into ch
    read,       \* how many chunks the adapter has read from the body
    item,       \* what the adapter is about to put into ch
    ch, chClosed,
    router,     \* "waiting" for the first chunk, "committed" or "rejected"
    forwarder,  \* "none", "recv", "send", "release", "close" or "ended"
    carried,    \* what the forwarder is about to put into out
    out, outClosed,
    slot,       \* the request holds its concurrency slots
    handler,    \* "waiting" for the router, "relaying" or "returned"
    cancelled,  \* the context of the request is cancelled
    hungUp,     \* ... because the client has hung up
    client,     \* the chunks that the client was sent
    ending      \* how the client's stream ended: "open", "done", "error", "cut"

\* A chunk with an error, and an empty hand.
Error == 0
Nothing == -1

upstream == <<adapter, failed, read, item>>
relay == <<router, forwarder, carried>>
downstream == <<handler, client, ending>>
vars == <<upstream, ch, chClosed, relay, out, outClosed, slot, downstream,
          cancelled, hungUp>>

Init ==
    /\ adapter = "scan" /\ failed = FALSE /\ read = 0 /\ item = Nothing
    /\ ch = <<>> /\ chClosed = FALSE
    /\ router = "waiting" /\ forwarder = "none" /\ carried = Nothing
    /\ out = <<>> /\ outClosed = FALSE
    /\ slot = TRUE
    /\ handler = "waiting" /\ client = <<>> /\ ending = "open"
    /\ cancelled = FALSE /\ hungUp = FALSE

-----------------------------------------------------------------------------
(* The adapter's goroutine *)

\* The next line of the body holds a chunk.
ReadChunk ==
    /\ adapter = "scan"
    /\ ~cancelled
    /\ read < MaxChunks
    /\ read' = read + 1
    /\ item' = read'
    /\ adapter' = "put"
    /\ UNCHANGED <<failed, ch, chClosed, relay, out, outClosed, slot, downstream, cancelled, hungUp>>

\* A line that cannot be parsed, or a body that breaks off (a cancelled context
\* or the client timeout end the read with an error too).
ReadError ==
    /\ adapter = "scan"
    /\ item' = Error
    /\ adapter' = "put"
    /\ UNCHANGED <<failed, read, ch, chClosed, relay, out, outClosed, slot, downstream,
                   cancelled, hungUp>>

\* [DONE], the end of the body, or the context is seen to be cancelled.
EndOfBody ==
    /\ adapter = "scan"
    /\ adapter' = "leaving"
    /\ UNCHANGED <<failed, read, item, ch, chClosed, relay, out, outClosed, slot, downstream,
                   cancelled, hungUp>>

\* An error is the last thing that the adapter puts.
AfterPut ==
    /\ failed' = (item = Error)
    /\ adapter' = IF item = Error THEN "leaving" ELSE "scan"
    /\ item' = Nothing

Put ==
    /\ adapter = "put"
    /\ Len(ch) < ChCap
    /\ ch' = Append(ch, item)
    /\ AfterPut
    /\ UNCHANGED <<read, chClosed, relay, out, outClosed, slot, downstream, cancelled, hungUp>>

\* The other branch of the select: <-ctx.Done().
AbandonPut ==
    /\ adapter = "put"
    /\ cancelled
    /\ adapter' = "leaving"
    /\ item' = Nothing
    /\ UNCHANGED <<failed, read, ch, chClosed, relay, out, outClosed, slot, downstream,
                   cancelled, hungUp>>

\* The deferred calls: the body and ch are closed.
CloseCh ==
    /\ adapter = "leaving"
    /\ adapter' = "ended"
    /\ chClosed' = TRUE
    /\ UNCHANGED <<failed, read, item, ch, relay, out, outClosed, slot, downstream,
                   cancelled, hungUp>>

-----------------------------------------------------------------------------
(* Router.Stream and its forwarder *)

\* The first chunk decides: with an error, or none, another provider is tried.
FirstChunk ==
    /\ router = "waiting"
    /\ ch # <<>>
    /\ ch' = Tail(ch)
    /\ \/ /\ Head(ch) = Error
          /\ router' = "rejected"
          /\ slot' = FALSE
          /\ UNCHANGED <<forwarder, out, handler>>
       \/ /\ Head(ch) # Error
          /\ router' = "committed"
          /\ out' = <<Head(ch)>>
          /\ forwarder' = "recv"
          /\ handler' = "relaying"
          /\ UNCHANGED slot
    /\ UNCHANGED <<upstream, chClosed, carried, outClosed, client, ending,
                   cancelled, hungUp>>

EmptyStream ==
    /\ router = "waiting"
    /\ ch = <<>> /\ chClosed
    /\ router' = "rejected"
    /\ slot' = FALSE
    /\ UNCHANGED <<upstream, ch, chClosed, forwarder, carried, out, outClosed,
                   downstream, cancelled, hungUp>>

Receive ==
    /\ forwarder = "recv"
    /\ \/ /\ ch # <<>>
          /\ carried' = Head(ch)
          /\ ch' = Tail(ch)
          /\ forwarder' = "send"
       \/ /\ ch = <<>> /\ chClosed
          /\ forwarder' = "release"
          /\ UNCHANGED <<ch, carried>>
    /\ UNCHANGED <<upstream, chClosed, router, out, outClosed, slot, downstream,
                   cancelled, hungUp>>

\* out <- chunk: nothing but a reader of out ends the wait.
Send ==
    /\ forwarder = "send"
    /\ Len(out) < OutCap
    /\ out' = Append(out, carried)
    /\ carried' = Nothing
    /\ forwarder' = "recv"
    /\ UNCHANGED <<upstream, ch, chClosed, router, outClosed, slot, downstream,
                   cancelled, hungUp>>

\* The deferred calls, last one first.
Release ==
    /\ forwarder = "release"
    /\ slot' = FALSE
    /\ forwarder' = "close"
    /\ UNCHANGED <<upstream, ch, chClosed, router, carried, out, outClosed,
                   downstream, cancelled, hungUp>>

CloseOut ==
    /\ forwarder = "close"
    /\ outClosed' = TRUE
    /\ forwarder' = "ended"
    /\ UNCHANGED <<upstream, ch, chClosed, router, carried, out, slot, downstream,
                   cancelled, hungUp>>

-----------------------------------------------------------------------------
(* The SSE handler; net/http cancels the context when it returns *)

ReturnWith(how) == handler' = "returned" /\ ending' = how /\ cancelled' = TRUE

\* Mutant: an error chunk is taken for the end of the stream.
RelayErrorAsEnd ==
    /\ handler = "relaying"
    /\ out # <<>>
    /\ out' = Tail(out)
    /\ \/ /\ Head(out) = Error
          /\ ReturnWith("done")
          /\ UNCHANGED client
       \/ /\ Head(out) # Error
          /\ client' = Append(client, Head(out))
          /\ UNCHANGED <<handler, ending, cancelled>>
    /\ UNCHANGED <<upstream, ch, chClosed, relay, outClosed, slot, hungUp>>

Relay ==
    /\ handler = "relaying"
    /\ out # <<>>
    /\ out' = Tail(out)
    /\ \/ /\ Head(out) = Error
          /\ ReturnWith("error")
          /\ UNCHANGED client
       \/ /\ Head(out) # Error
          /\ client' = Append(client, Head(out))
          /\ UNCHANGED <<handler, ending, cancelled>>
    /\ UNCHANGED <<upstream, ch, chClosed, relay, outClosed, slot, hungUp>>

\* Mutant: the handler does not look at ok, and takes what a closed channel
\* yields for one more chunk, an empty one, for ever.
FinishUnseen ==
    /\ handler = "relaying"
    /\ out = <<>> /\ outClosed
    /\ UNCHANGED vars

Finish ==
    /\ handler = "relaying"
    /\ out = <<>> /\ outClosed
    /\ ReturnWith("done")
    /\ UNCHANGED <<upstream, ch, chClosed, relay, out, outClosed, slot, client, hungUp>>

SeeCancelled ==
    /\ handler = "relaying"
    /\ cancelled
    /\ ReturnWith("cut")
    /\ UNCHANGED <<upstream, ch, chClosed, relay, out, outClosed, slot, client, hungUp>>

HangUp ==
    /\ handler # "returned"
    /\ ~hungUp
    /\ cancelled' = TRUE
    /\ hungUp' = TRUE
    /\ UNCHANGED <<upstream, ch, chClosed, relay, out, outClosed, slot, downstream>>

\* The request is over, as far as this provider is concerned.
Over ==
    /\ \/ router = "rejected"
       \/ handler = "returned" /\ forwarder = "ended"
    /\ adapter = "ended"
    /\ UNCHANGED vars

Adapter == ReadChunk \/ ReadError \/ EndOfBody \/ Put \/ AbandonPut \/ CloseCh
Forwarder == FirstChunk \/ EmptyStream \/ Receive \/ Send \/ Release \/ CloseOut
Handler == Relay \/ Finish \/ SeeCancelled

Next == Adapter \/ Forwarder \/ Handler \/ HangUp \/ Over

Spec == Init /\ [][Next]_vars

\* Goroutines that can run do run, and a provider goes on sending or the
\* http.Client's Timeout ends the body.
FairSpec == Spec /\ WF_vars(Adapter) /\ WF_vars(Forwarder) /\ WF_vars(Handler)
-----------------------------------------------------------------------------
(* Properties *)

\* What has become of the provider's stream.
source ==
    CASE adapter \notin {"leaving", "ended"} -> "going"
      [] failed -> "broken"
      [] OTHER -> "whole"

Promise == INSTANCE Delivery WITH Buffer <- ChCap + OutCap + 2

\* Whatever the schedule of the three goroutines, the client is sent every chunk
\* in order, finish_reason "stop" and [DONE] (sse.go:236-256) tell a client that
\* is still there that the answer is whole, the slots are given back only when
\* the provider has finished (router.go:364-372), and what is on its way fits in
\* two channels and the hands of two goroutines.
ImplementsDelivery == Promise!Spec

\* A stream whose client stays comes to its end, and its slots come back.
StreamEnds == (router = "committed") ~> (hungUp \/ (handler = "returned" /\ ~slot))

\* router.go:363: "release is called by the goroutine when the upstream channel
\* closes."
ReleasedWhenClosed == chClosed ~> ~slot
=============================================================================
