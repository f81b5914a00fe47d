--------------------------- MODULE StreamRelay_proofs ---------------------------
(***************************************************************************)
(* For any number of chunks and any capacities: the three goroutines and   *)
(* their channels implement the delivery that Delivery promises.           *)
(*                                                                         *)
(* The invariant gives everything on its way its place in the answer: the  *)
(* client has the first Len(client) chunks, out the next ones, then what   *)
(* the forwarder has in hand, then ch, then what the adapter has in hand.  *)
(* An error comes after the last chunk that was read.                      *)
(***************************************************************************)
EXTENDS StreamRelay, SequenceTheorems, TLAPS

One(hand) == IF hand = Nothing THEN 0 ELSE 1

\* How many places are taken up to the end of out, of the forwarder's hand, of ch.
ToOut == Len(client) + Len(out)
ToCarried == ToOut + One(carried)
ToCh == ToCarried + Len(ch)

\* What may be at place k once the adapter has let it go.
Fits(v, k) == (v = k /\ k <= read) \/ (v = Error /\ k = read + 1 /\ failed)

Typed ==
  /\ adapter \in {"scan", "put", "leaving", "ended"}
  /\ failed \in BOOLEAN /\ chClosed \in BOOLEAN /\ outClosed \in BOOLEAN
  /\ slot \in BOOLEAN /\ cancelled \in BOOLEAN /\ hungUp \in BOOLEAN
  /\ read \in Nat /\ item \in Int /\ carried \in Int
  /\ ch \in Seq(Int) /\ out \in Seq(Int) /\ client \in Seq(Int)
  /\ Len(ch) <= ChCap /\ Len(out) <= OutCap
  /\ router \in {"waiting", "committed", "rejected"}
  /\ forwarder \in {"none", "recv", "send", "release", "close", "ended"}
  /\ handler \in {"waiting", "relaying", "returned"}

InPlace ==
  /\ Len(client) <= read
  /\ \A i \in 1..Len(out) : Fits(out[i], Len(client) + i)
  /\ carried # Nothing => Fits(carried, ToOut + 1)
  /\ \A i \in 1..Len(ch) : Fits(ch[i], ToCarried + i)

\* Nothing is left out, but by an adapter that sees the cancelled context.
NothingLeftOut ==
  /\ adapter = "scan" => ToCh = read /\ item = Nothing
  /\ adapter = "put" =>
      \/ item = Error /\ ToCh = read
      \/ item = read /\ ToCh = read - 1 /\ item > 0
  /\ adapter \in {"leaving", "ended"} => item = Nothing
  /\ adapter \in {"leaving", "ended"} /\ ~failed /\ ~cancelled => ToCh = read
  /\ failed /\ handler # "returned" /\ router # "rejected" => ToCh = read + 1

Control ==
  /\ failed => adapter \in {"leaving", "ended"}
  /\ chClosed <=> adapter = "ended"
  /\ cancelled => hungUp \/ handler = "returned"
  /\ router # "committed" <=> handler = "waiting"
  /\ handler = "waiting" => forwarder = "none" /\ client = <<>> /\ out = <<>>
  /\ forwarder = "none" => handler = "waiting"
  /\ handler # "returned" => ending = "open"
  /\ carried # Nothing <=> forwarder = "send"
  /\ forwarder \in {"release", "close", "ended"} => chClosed /\ ch = <<>>
  /\ outClosed => forwarder = "ended"

IInv == Typed /\ InPlace /\ NothingLeftOut /\ Control

-----------------------------------------------------------------------------

LEMMA AppendFacts ==
  ASSUME NEW s \in Seq(Int), NEW e \in Int
  PROVE  /\ Append(s, e) \in Seq(Int) /\ Len(Append(s, e)) = Len(s) + 1
         /\ Len(s) \in Nat
         /\ \A i \in 1..Len(s) : Append(s, e)[i] = s[i]
         /\ Append(s, e)[Len(s) + 1] = e
  BY AppendProperties

LEMMA TailFacts ==
  ASSUME NEW s \in Seq(Int), s # <<>>
  PROVE  /\ Len(s) \in Nat \ {0}
         /\ Head(s) = s[1] /\ Head(s) \in Int
         /\ Tail(s) \in Seq(Int) /\ Len(Tail(s)) = Len(s) - 1
         /\ \A i \in 1..Len(Tail(s)) : Tail(s)[i] = s[i + 1]
  OBVIOUS

\* Every place is a number, and nothing is beyond the error.
LEMMA Places ==
  ASSUME IInv
  PROVE  /\ Len(client) \in Nat /\ Len(out) \in Nat /\ Len(ch) \in Nat
         /\ ToOut \in Nat /\ ToCarried \in Nat /\ ToCh \in Nat
         /\ Len(client) <= ToOut /\ ToOut <= ToCarried /\ ToCarried <= ToCh
         /\ ToCh <= Len(client) + OutCap + 1 + ChCap
         /\ ChCap \in Nat \ {0} /\ OutCap \in Nat \ {0}
  BY CapsAssumption DEF IInv, Typed, ToOut, ToCarried, ToCh, One

LEMMA InitIInv == Init => IInv
<1> SUFFICES ASSUME Init PROVE IInv
  OBVIOUS
<1>1. <<>> \in Seq(Int) /\ Len(<<>>) = 0
  OBVIOUS
<1>2. Typed
  <2>1. /\ ch \in Seq(Int) /\ out \in Seq(Int) /\ client \in Seq(Int)
        /\ Len(ch) <= ChCap /\ Len(out) <= OutCap
    BY <1>1, CapsAssumption DEF Init
  <2>2. /\ failed \in BOOLEAN /\ chClosed \in BOOLEAN /\ outClosed \in BOOLEAN
        /\ slot \in BOOLEAN /\ cancelled \in BOOLEAN /\ hungUp \in BOOLEAN
    BY DEF Init
  <2>3. read \in Nat /\ item \in Int /\ carried \in Int
    BY DEF Init, Nothing
  <2>4. /\ adapter = "scan" /\ router = "waiting" /\ forwarder = "none"
        /\ handler = "waiting"
    BY DEF Init
  <2> QED
    BY <2>1, <2>2, <2>3, <2>4 DEF Typed
<1>3. ToCh = 0
  BY <1>1 DEF Init, ToOut, ToCarried, ToCh, One
<1>4. InPlace /\ NothingLeftOut /\ Control
  BY <1>1, <1>3 DEF Init, InPlace, NothingLeftOut, Control
<1> QED
  BY <1>2, <1>4 DEF IInv

-----------------------------------------------------------------------------
(* The adapter *)

LEMMA ReadChunkStep ==
  ASSUME IInv, ReadChunk
  PROVE  IInv' /\ Promise!Produce
<1> USE DEF IInv
<1>1. /\ UNCHANGED <<ch, chClosed, relay, out, outClosed, slot, downstream, cancelled, hungUp>>
      /\ failed' = failed /\ read' = read + 1 /\ item' = read + 1 /\ adapter' = "put"
      /\ adapter = "scan" /\ ~cancelled
  BY DEF ReadChunk
<1>2. Typed' /\ Control'
  BY <1>1 DEF Typed, Control, relay, downstream
<1>3. ~failed
  BY <1>1 DEF Control
<1>4. InPlace' /\ NothingLeftOut'
  <2>1. InPlace'
    BY <1>1, <1>3 DEF Typed, InPlace, Fits, relay, downstream, ToOut, ToCarried
  <2>2. NothingLeftOut'
    BY <1>1, <1>3, Places DEF Typed, NothingLeftOut, relay, downstream, ToOut, ToCarried, ToCh
  <2> QED
    BY <2>1, <2>2
<1>5. Promise!Produce
  BY <1>1, <1>3, Places DEF Typed, NothingLeftOut, Promise!Produce, source, relay, downstream
<1> QED
  BY <1>2, <1>4, <1>5

LEMMA ReadErrorStep ==
  ASSUME IInv, ReadError
  PROVE  IInv' /\ UNCHANGED Promise!vars
<1> USE DEF IInv
<1>1. /\ UNCHANGED <<ch, chClosed, relay, out, outClosed, slot, downstream, cancelled, hungUp>>
      /\ failed' = failed /\ read' = read /\ item' = Error /\ adapter' = "put"
      /\ adapter = "scan"
  BY DEF ReadError
<1>2. Typed' /\ Control'
  BY <1>1 DEF Typed, Control, relay, downstream, Error
<1>3. InPlace' /\ NothingLeftOut'
  BY <1>1, Places DEF Typed, InPlace, NothingLeftOut, Fits, relay, downstream,
     ToOut, ToCarried, ToCh, Control
<1>4. UNCHANGED Promise!vars
  BY <1>1 DEF Promise!vars, source, relay, downstream
<1> QED
  BY <1>2, <1>3, <1>4

LEMMA EndOfBodyStep ==
  ASSUME IInv, EndOfBody
  PROVE  IInv' /\ Promise!EndOfSource
<1> USE DEF IInv
<1>1. /\ UNCHANGED <<ch, chClosed, relay, out, outClosed, slot, downstream, cancelled, hungUp>>
      /\ failed' = failed /\ read' = read /\ item' = item /\ adapter' = "leaving"
      /\ adapter = "scan"
  BY DEF EndOfBody
<1>2. ~failed
  BY <1>1 DEF Control
<1>3. Typed' /\ Control'
  BY <1>1 DEF Typed, Control, relay, downstream
<1>4. InPlace' /\ NothingLeftOut'
  BY <1>1, <1>2, Places DEF Typed, InPlace, NothingLeftOut, Fits, relay, downstream,
     ToOut, ToCarried, ToCh
<1>5. Promise!EndOfSource
  BY <1>1, <1>2 DEF Promise!EndOfSource, source, relay, downstream
<1> QED
  BY <1>3, <1>4, <1>5

LEMMA PutStep ==
  ASSUME IInv, Put
  PROVE  IInv' /\ (Promise!EndOfSource \/ UNCHANGED Promise!vars)
<1> USE DEF IInv
<1>1. /\ UNCHANGED <<chClosed, relay, out, outClosed, slot, downstream, cancelled, hungUp>>
      /\ read' = read /\ item' = Nothing
      /\ adapter' = IF item = Error THEN "leaving" ELSE "scan"
      /\ adapter = "put" /\ Len(ch) < ChCap /\ ch' = Append(ch, item)
  BY DEF Put, AfterPut
<1>2. ~failed /\ read \in Nat /\ failed' \in BOOLEAN /\ (failed' <=> item = Error)
  <2>1. failed' \in BOOLEAN /\ (failed' <=> item = Error)
    BY Zenon DEF Put, AfterPut
  <2> QED
    BY <1>1, <2>1 DEF Control, Typed
<1>3. /\ ch' \in Seq(Int) /\ Len(ch') = Len(ch) + 1
      /\ \A i \in 1..Len(ch) : ch'[i] = ch[i]
      /\ ch'[Len(ch) + 1] = item
  <2>1. ch \in Seq(Int) /\ item \in Int
    BY DEF Typed
  <2> QED
    BY <1>1, <2>1, AppendFacts
<1>4. Typed' /\ Control'
  <2>1. Typed'
    BY <1>1, <1>2, <1>3, CapsAssumption, Places DEF Typed, relay, downstream, Nothing
  <2>2. Control'
    BY <1>1, <1>2 DEF Control, relay, downstream
  <2> QED
    BY <2>1, <2>2
<1>5. ToOut' = ToOut /\ ToCarried' = ToCarried /\ ToCh' = ToCh + 1 /\ client' = client
  BY <1>1, <1>3, Places DEF relay, downstream, ToOut, ToCarried, ToCh
<1>6. \/ item = Error /\ ToCh = read
      \/ item = read /\ ToCh = read - 1 /\ item > 0
  BY <1>1 DEF NothingLeftOut
<1>7. InPlace'
  <2>1. (\A i \in 1..Len(out) : Fits(out[i], Len(client) + i))'
    BY <1>1, <1>2 DEF InPlace, Fits, relay, downstream
  <2>2. (carried # Nothing => Fits(carried, ToOut + 1))'
    BY <1>1, <1>2, <1>5 DEF InPlace, Fits, relay
  <2>3. ASSUME NEW i \in 1..Len(ch')
        PROVE  Fits(ch[i], ToCarried + i)'
    <3>1. CASE i \in 1..Len(ch)
      BY <1>1, <1>2, <1>3, <1>5, <3>1 DEF InPlace, Fits
    <3>2. CASE i = Len(ch) + 1
      <4>1. ch'[i] = item /\ ToCarried' + i = ToCh + 1
        BY <1>3, <1>5, <3>2, Places DEF ToCh
      <4> QED
        BY <1>1, <1>2, <1>6, <4>1 DEF Fits, Error
    <3> QED
      BY <1>3, <3>1, <3>2, Places
  <2> QED
    BY <1>1, <2>1, <2>2, <2>3 DEF InPlace, downstream
<1>8. NothingLeftOut'
  <2>1. CASE item = Error
    BY <1>1, <1>2, <1>5, <1>6, <2>1, Places DEF NothingLeftOut, Error
  <2>2. CASE item # Error
    BY <1>1, <1>2, <1>5, <1>6, <2>2, Places DEF NothingLeftOut, Error
  <2> QED
    BY <2>1, <2>2
<1>9. Promise!EndOfSource \/ UNCHANGED Promise!vars
  BY <1>1, <1>2 DEF Promise!EndOfSource, Promise!vars, source, relay, downstream
<1> QED
  BY <1>4, <1>7, <1>8, <1>9

LEMMA AbandonPutStep ==
  ASSUME IInv, AbandonPut
  PROVE  IInv' /\ Promise!EndOfSource
<1> USE DEF IInv
<1>1. /\ UNCHANGED <<ch, chClosed, relay, out, outClosed, slot, downstream, cancelled, hungUp>>
      /\ failed' = failed /\ read' = read /\ item' = Nothing /\ adapter' = "leaving"
      /\ adapter = "put" /\ cancelled
  BY DEF AbandonPut
<1>2. ~failed
  BY <1>1 DEF Control
<1>3. Typed' /\ Control'
  BY <1>1 DEF Typed, Control, relay, downstream, Nothing
<1>4. InPlace' /\ NothingLeftOut'
  BY <1>1, <1>2, Places DEF Typed, InPlace, NothingLeftOut, Fits, relay, downstream,
     ToOut, ToCarried, ToCh
<1>5. Promise!EndOfSource
  BY <1>1, <1>2 DEF Promise!EndOfSource, source, relay, downstream
<1> QED
  BY <1>3, <1>4, <1>5

LEMMA CloseChStep ==
  ASSUME IInv, CloseCh
  PROVE  IInv' /\ UNCHANGED Promise!vars
<1> USE DEF IInv
<1>1. /\ UNCHANGED <<ch, relay, out, outClosed, slot, downstream, cancelled, hungUp>>
      /\ failed' = failed /\ read' = read /\ item' = item /\ adapter' = "ended"
      /\ adapter = "leaving" /\ chClosed' = TRUE
  BY DEF CloseCh
<1>2. Typed' /\ Control'
  BY <1>1 DEF Typed, Control, relay, downstream
<1>3. InPlace' /\ NothingLeftOut'
  BY <1>1, Places DEF Typed, InPlace, NothingLeftOut, Fits, relay, downstream,
     ToOut, ToCarried, ToCh
<1>4. UNCHANGED Promise!vars
  BY <1>1 DEF Promise!vars, source, relay, downstream
<1> QED
  BY <1>2, <1>3, <1>4

-----------------------------------------------------------------------------
(* The forwarder *)

\* What is taken out of a channel is its first element, the rest moves up.
LEMMA TakeFromCh ==
  ASSUME IInv, ch # <<>>
  PROVE  /\ Head(ch) \in Int /\ Fits(Head(ch), ToCarried + 1)
         /\ Tail(ch) \in Seq(Int) /\ Len(Tail(ch)) = Len(ch) - 1
         /\ Len(Tail(ch)) \in Nat
         /\ \A i \in 1..Len(Tail(ch)) : Fits(Tail(ch)[i], ToCarried + 1 + i)
         /\ Head(ch) = Error => failed /\ ToCarried = read /\ Len(ch) = 1
<1>1. /\ ch \in Seq(Int)
      /\ \A i \in 1..Len(ch) : Fits(ch[i], ToCarried + i)
  BY DEF IInv, Typed, InPlace
<1>2. /\ Len(ch) \in Nat \ {0} /\ Head(ch) = ch[1] /\ Head(ch) \in Int
      /\ Tail(ch) \in Seq(Int) /\ Len(Tail(ch)) = Len(ch) - 1
      /\ \A i \in 1..Len(Tail(ch)) : Tail(ch)[i] = ch[i + 1]
  BY <1>1, TailFacts
<1>3. Fits(Head(ch), ToCarried + 1)
  BY <1>1, <1>2
<1>4. ASSUME NEW i \in 1..Len(Tail(ch))
      PROVE  Fits(Tail(ch)[i], ToCarried + 1 + i)
  <2>1. i + 1 \in 1..Len(ch) /\ ToCarried + (i + 1) = ToCarried + 1 + i
    BY <1>2, Places
  <2> QED
    BY <1>1, <1>2, <2>1
<1>5. ASSUME Head(ch) = Error PROVE failed /\ ToCarried = read /\ Len(ch) = 1
  <2>1. failed /\ ToCarried = read
    <3>1. ToCarried \in Nat /\ read \in Nat
      BY Places DEF IInv, Typed
    <3>2. Head(ch) = 0
      BY <1>5 DEF Error
    <3> QED
      BY <1>3, <3>1, <3>2 DEF Fits, Error
  <2>2. Len(ch) >= 2 => Fits(ch[2], ToCarried + 2)
    BY <1>1, <1>2
  <2>3. ~Fits(ch[2], ToCarried + 2)
    BY <2>1, Places DEF Fits, IInv, Typed
  <2> QED
    BY <1>2, <2>1, <2>2, <2>3
<1> QED
  BY <1>2, <1>3, <1>4, <1>5

\* The provider has finished when an error is on its way, or ch is closed.
LEMMA Finished ==
  ASSUME IInv, failed \/ chClosed
  PROVE  source # "going"
  BY DEF IInv, Control, source

LEMMA RejectStep ==
  ASSUME IInv, FirstChunk, Head(ch) = Error
  PROVE  IInv' /\ Promise!Release
<1> USE DEF IInv
<1>1. /\ UNCHANGED <<upstream, chClosed, carried, outClosed, client, ending,
                     cancelled, hungUp, forwarder, out, handler>>
      /\ router = "waiting" /\ router' = "rejected"
      /\ ch # <<>> /\ ch' = Tail(ch) /\ slot' = FALSE
  BY DEF FirstChunk
<1>2. /\ failed /\ ToCarried = read /\ ch' \in Seq(Int) /\ Len(ch') = 0 /\ Len(ch) = 1
  BY <1>1, TakeFromCh
<1>3. handler = "waiting" /\ adapter \in {"leaving", "ended"} /\ carried = Nothing
  BY <1>1, <1>2 DEF Control
<1>4. Typed'
  <2>1. Len(ch') <= ChCap
    BY <1>2, CapsAssumption
  <2>2. slot' \in BOOLEAN
    BY <1>1
  <2> QED
    BY <1>1, <1>2, <2>1, <2>2 DEF Typed, upstream
<1>5. Control'
  BY <1>1, <1>2, <1>3 DEF Control, upstream
<1>6. InPlace'
  BY <1>1, <1>2, <1>3 DEF InPlace, Fits, upstream
<1>7. NothingLeftOut'
  BY <1>1, <1>2, <1>3 DEF NothingLeftOut, upstream
<1>8. Promise!Release
  BY <1>1, <1>2, Finished DEF Promise!Release, source, upstream
<1> QED
  BY <1>4, <1>5, <1>6, <1>7, <1>8

LEMMA CommitStep ==
  ASSUME IInv, FirstChunk, Head(ch) # Error
  PROVE  IInv' /\ UNCHANGED Promise!vars
<1> USE DEF IInv
<1>1. /\ UNCHANGED <<upstream, chClosed, carried, outClosed, client, ending,
                     cancelled, hungUp, slot>>
      /\ router = "waiting" /\ router' = "committed"
      /\ ch # <<>> /\ ch' = Tail(ch) /\ out' = <<Head(ch)>>
      /\ forwarder' = "recv" /\ handler' = "relaying"
  BY DEF FirstChunk
<1>2. handler = "waiting" /\ carried = Nothing /\ client = <<>> /\ out = <<>> /\ ~outClosed
      /\ forwarder = "none" /\ ending = "open" /\ (cancelled => hungUp)
  BY <1>1 DEF Control
<1>3. /\ Head(ch) \in Int /\ Fits(Head(ch), ToCarried + 1)
      /\ ch' \in Seq(Int) /\ Len(ch') = Len(ch) - 1
      /\ \A i \in 1..Len(ch') : Fits(ch'[i], ToCarried + 1 + i)
  BY <1>1, TakeFromCh
<1>4. out' \in Seq(Int) /\ Len(out') = 1 /\ out'[1] = Head(ch)
  BY <1>1, <1>3
<1>5. Len(client) = 0 /\ Len(out) = 0 /\ ToCarried = 0
  BY <1>2 DEF ToCarried, ToOut, One
<1>6. ToOut' = 1 /\ ToCarried' = 1 /\ ToCh' = ToCh
  BY <1>1, <1>2, <1>3, <1>4, <1>5, Places DEF ToOut, ToCarried, ToCh, One
<1>7. Typed'
  BY <1>1, <1>3, <1>4, CapsAssumption, Places DEF Typed, upstream
<1>8. Control'
  BY <1>1, <1>2 DEF Control, upstream
<1>9. InPlace'
  BY <1>1, <1>2, <1>3, <1>4, <1>5, <1>6 DEF InPlace, Fits, upstream
<1>10. NothingLeftOut'
  BY <1>1, <1>2, <1>6 DEF NothingLeftOut, upstream
<1>11. UNCHANGED Promise!vars
  BY <1>1 DEF Promise!vars, source, upstream
<1> QED
  BY <1>7, <1>8, <1>9, <1>10, <1>11

LEMMA EmptyStreamStep ==
  ASSUME IInv, EmptyStream
  PROVE  IInv' /\ Promise!Release
<1> USE DEF IInv
<1>1. /\ UNCHANGED <<upstream, ch, chClosed, forwarder, carried, out, outClosed,
                     downstream, cancelled, hungUp>>
      /\ router = "waiting" /\ router' = "rejected" /\ chClosed /\ slot' = FALSE
  BY DEF EmptyStream
<1>2. Typed' /\ Control'
  BY <1>1 DEF Typed, Control, upstream, downstream
<1>3. InPlace' /\ NothingLeftOut'
  BY <1>1 DEF InPlace, NothingLeftOut, Fits, upstream, downstream, ToOut, ToCarried, ToCh
<1>4. Promise!Release
  BY <1>1, Finished DEF Promise!Release, source, upstream, downstream
<1> QED
  BY <1>2, <1>3, <1>4

LEMMA ReceiveStep ==
  ASSUME IInv, Receive
  PROVE  IInv' /\ UNCHANGED Promise!vars
<1> USE DEF IInv
<1>1. /\ UNCHANGED <<upstream, chClosed, router, out, outClosed, slot, downstream,
                     cancelled, hungUp>>
      /\ forwarder = "recv"
  BY DEF Receive
<1>2. carried = Nothing /\ handler # "waiting" /\ ~outClosed /\ router = "committed"
  BY <1>1 DEF Control, Typed
<1>3. UNCHANGED Promise!vars
  BY <1>1 DEF Promise!vars, source, upstream, downstream
<1>4. CASE ch # <<>> /\ carried' = Head(ch) /\ ch' = Tail(ch) /\ forwarder' = "send"
  <2>1. /\ Head(ch) \in Int /\ Fits(Head(ch), ToCarried + 1)
        /\ ch' \in Seq(Int) /\ Len(ch') = Len(ch) - 1
        /\ \A i \in 1..Len(ch') : Fits(ch'[i], ToCarried + 1 + i)
    BY <1>4, TakeFromCh
  <2>2. carried' # Nothing /\ carried' \in Int
    BY <1>4, <2>1, Places DEF Fits, Error, Nothing
  <2>3. ToOut' = ToOut /\ ToCarried = ToOut /\ ToCarried' = ToOut + 1 /\ ToCh' = ToCh
    BY <1>1, <1>2, <2>1, <2>2, Places DEF ToOut, ToCarried, ToCh, One, downstream
  <2>4. Typed'
    BY <1>1, <1>4, <2>1, <2>2, CapsAssumption, Places DEF Typed, upstream, downstream
  <2>5. Control'
    BY <1>1, <1>2, <1>4, <2>2 DEF Control, upstream, downstream
  <2>6. InPlace'
    BY <1>1, <1>4, <2>1, <2>3 DEF InPlace, Fits, upstream, downstream
  <2>7. NothingLeftOut'
    BY <1>1, <2>3 DEF NothingLeftOut, upstream, downstream
  <2> QED
    BY <1>3, <2>4, <2>5, <2>6, <2>7
<1>5. CASE ch = <<>> /\ chClosed /\ forwarder' = "release" /\ UNCHANGED <<ch, carried>>
  <2>1. Typed' /\ Control'
    BY <1>1, <1>2, <1>5 DEF Typed, Control, upstream, downstream
  <2>2. InPlace' /\ NothingLeftOut'
    BY <1>1, <1>5 DEF InPlace, NothingLeftOut, Fits, upstream, downstream,
       ToOut, ToCarried, ToCh
  <2> QED
    BY <1>3, <2>1, <2>2
<1> QED
  BY <1>4, <1>5 DEF Receive

LEMMA SendStep ==
  ASSUME IInv, Send
  PROVE  IInv' /\ UNCHANGED Promise!vars
<1> USE DEF IInv
<1>1. /\ UNCHANGED <<upstream, ch, chClosed, router, outClosed, slot, downstream,
                     cancelled, hungUp>>
      /\ forwarder = "send" /\ Len(out) < OutCap /\ out' = Append(out, carried)
      /\ carried' = Nothing /\ forwarder' = "recv"
  BY DEF Send
<1>2. carried # Nothing /\ handler # "waiting" /\ ~outClosed /\ router = "committed"
  BY <1>1 DEF Control, Typed
<1>3. /\ out' \in Seq(Int) /\ Len(out') = Len(out) + 1
      /\ \A i \in 1..Len(out) : out'[i] = out[i]
      /\ out'[Len(out) + 1] = carried
  <2>1. out \in Seq(Int) /\ carried \in Int
    BY DEF Typed
  <2> QED
    BY <1>1, <2>1, AppendFacts
<1>4. /\ ToOut' = ToOut + 1 /\ ToCarried' = ToCarried /\ ToCh' = ToCh
      /\ client' = client /\ ch' = ch
  BY <1>1, <1>2, <1>3, Places DEF ToOut, ToCarried, ToCh, One, downstream
<1>5. Typed'
  BY <1>1, <1>3, Places DEF Typed, upstream, downstream, Nothing
<1>6. Control'
  BY <1>1, <1>2 DEF Control, upstream, downstream
<1>7. InPlace'
  <2>1. ASSUME NEW i \in 1..Len(out')
        PROVE  Fits(out[i], Len(client) + i)'
    <3>1. CASE i \in 1..Len(out)
      BY <1>1, <1>3, <1>4, <3>1 DEF InPlace, Fits, upstream
    <3>2. CASE i = Len(out) + 1
      <4>1. out'[i] = carried /\ Len(client') + i = ToOut + 1
        BY <1>3, <1>4, <3>2, Places DEF ToOut
      <4> QED
        BY <1>1, <1>2, <4>1 DEF InPlace, Fits, upstream
    <3> QED
      BY <1>3, <3>1, <3>2, Places
  <2> QED
    BY <1>1, <1>4, <2>1 DEF InPlace, Fits, upstream
<1>8. NothingLeftOut'
  BY <1>1, <1>4 DEF NothingLeftOut, upstream, downstream
<1>9. UNCHANGED Promise!vars
  BY <1>1 DEF Promise!vars, source, upstream, downstream
<1> QED
  BY <1>5, <1>6, <1>7, <1>8, <1>9

LEMMA ReleaseStep ==
  ASSUME IInv, Release
  PROVE  IInv' /\ Promise!Release
<1> USE DEF IInv
<1>1. /\ UNCHANGED <<upstream, ch, chClosed, router, carried, out, outClosed,
                     downstream, cancelled, hungUp>>
      /\ forwarder = "release" /\ forwarder' = "close" /\ slot' = FALSE
  BY DEF Release
<1>2. Typed' /\ Control'
  BY <1>1 DEF Typed, Control, upstream, downstream
<1>3. InPlace' /\ NothingLeftOut'
  BY <1>1 DEF InPlace, NothingLeftOut, Fits, upstream, downstream, ToOut, ToCarried, ToCh
<1>4. chClosed
  BY <1>1 DEF Control
<1>5. Promise!Release
  BY <1>1, <1>4, Finished DEF Promise!Release, source, upstream, downstream
<1> QED
  BY <1>2, <1>3, <1>5

LEMMA CloseOutStep ==
  ASSUME IInv, CloseOut
  PROVE  IInv' /\ UNCHANGED Promise!vars
<1> USE DEF IInv
<1>1. /\ UNCHANGED <<upstream, ch, chClosed, router, carried, out, slot,
                     downstream, cancelled, hungUp>>
      /\ forwarder = "close" /\ forwarder' = "ended" /\ outClosed' = TRUE
  BY DEF CloseOut
<1>2. Typed' /\ Control'
  BY <1>1 DEF Typed, Control, upstream, downstream
<1>3. InPlace' /\ NothingLeftOut'
  BY <1>1 DEF InPlace, NothingLeftOut, Fits, upstream, downstream, ToOut, ToCarried, ToCh
<1>4. UNCHANGED Promise!vars
  BY <1>1 DEF Promise!vars, source, upstream, downstream
<1> QED
  BY <1>2, <1>3, <1>4

-----------------------------------------------------------------------------
(* The handler and the client *)

LEMMA TakeFromOut ==
  ASSUME IInv, out # <<>>
  PROVE  /\ Head(out) \in Int /\ Fits(Head(out), Len(client) + 1)
         /\ Tail(out) \in Seq(Int) /\ Len(Tail(out)) = Len(out) - 1
         /\ Len(Tail(out)) \in Nat
         /\ \A i \in 1..Len(Tail(out)) : Fits(Tail(out)[i], Len(client) + 1 + i)
         /\ Head(out) = Error =>
              /\ failed /\ Len(client) = read /\ Len(out) = 1
              /\ carried = Nothing /\ Len(ch) = 0
<1>1. /\ out \in Seq(Int)
      /\ \A i \in 1..Len(out) : Fits(out[i], Len(client) + i)
      /\ \A i \in 1..Len(ch) : Fits(ch[i], ToCarried + i)
      /\ carried # Nothing => Fits(carried, ToOut + 1)
  BY DEF IInv, Typed, InPlace
<1>2. /\ Len(out) \in Nat \ {0} /\ Head(out) = out[1] /\ Head(out) \in Int
      /\ Tail(out) \in Seq(Int) /\ Len(Tail(out)) = Len(out) - 1
      /\ \A i \in 1..Len(Tail(out)) : Tail(out)[i] = out[i + 1]
  BY <1>1, TailFacts
<1>3. Fits(Head(out), Len(client) + 1)
  BY <1>1, <1>2
<1>4. ASSUME NEW i \in 1..Len(Tail(out))
      PROVE  Fits(Tail(out)[i], Len(client) + 1 + i)
  <2>1. i + 1 \in 1..Len(out) /\ Len(client) + (i + 1) = Len(client) + 1 + i
    BY <1>2, Places
  <2> QED
    BY <1>1, <1>2, <2>1
<1>5. ASSUME Head(out) = Error
      PROVE  /\ failed /\ Len(client) = read /\ Len(out) = 1
             /\ carried = Nothing /\ Len(ch) = 0
  <2>1. failed /\ Len(client) = read
    <3>1. Len(client) \in Nat /\ read \in Nat
      BY Places DEF IInv, Typed
    <3>2. Head(out) = 0
      BY <1>5 DEF Error
    <3> HIDE DEF IInv
    <3> QED
      BY <1>3, <3>1, <3>2 DEF Fits, Error
  <2>2. \A k \in Nat : \A v : Fits(v, k) => k <= read + 1
    BY DEF Fits, IInv, Typed
  <2>3. Len(out) = 1
    <3>1. Len(out) >= 2 => Fits(out[2], Len(client) + 2)
      BY <1>1, <1>2
    <3> QED
      <4>1. Len(client) \in Nat /\ read \in Nat
        BY Places DEF IInv, Typed
      <4>2. ~(Len(client) + 2 <= read + 1)
        BY <2>1, <4>1
      <4>3. Len(client) + 2 \in Nat
        BY <4>1
      <4>4. ~(Len(out) >= 2)
        BY <2>2, <3>1, <4>2, <4>3
      <4> QED
        BY <1>2, <4>4
  <2>4. carried = Nothing
    BY <1>1, <2>1, <2>2, <2>3, Places DEF ToOut
  <2>5. Len(ch) = 0
    <3>1. Len(ch) >= 1 => Fits(ch[1], ToCarried + 1)
      BY <1>1, Places
    <3> QED
      BY <2>1, <2>2, <2>3, <3>1, Places DEF ToOut
  <2> QED
    BY <2>1, <2>3, <2>4, <2>5
<1> QED
  <2>1. \A i \in 1..Len(Tail(out)) : Fits(Tail(out)[i], Len(client) + 1 + i)
    BY <1>4
  <2>2. Head(out) = Error =>
          failed /\ Len(client) = read /\ Len(out) = 1 /\ carried = Nothing /\ Len(ch) = 0
    BY <1>5
  <2>3. /\ Head(out) \in Int /\ Tail(out) \in Seq(Int)
        /\ Len(Tail(out)) = Len(out) - 1 /\ Len(Tail(out)) \in Nat
    BY <1>2
  <2> QED
    BY <1>3, <2>1, <2>2, <2>3

LEMMA RelayErrorStep ==
  ASSUME IInv, Relay, Head(out) = Error
  PROVE  IInv' /\ Promise!End
<1> USE DEF IInv
<1>1. /\ UNCHANGED <<upstream, ch, chClosed, relay, outClosed, slot, hungUp, client>>
      /\ handler = "relaying" /\ handler' = "returned" /\ ending' = "error"
      /\ cancelled' = TRUE /\ out # <<>> /\ out' = Tail(out)
  BY DEF Relay, ReturnWith
<1>2. /\ failed /\ Len(client) = read /\ carried = Nothing /\ Len(ch) = 0
      /\ out' \in Seq(Int) /\ Len(out') = 0
  BY <1>1, TakeFromOut
<1>3. adapter \in {"leaving", "ended"} /\ ending = "open" /\ router = "committed"
      /\ forwarder # "none"
  BY <1>1, <1>2 DEF Control, Typed
<1>4. Typed'
  <2>1. Len(out') <= OutCap /\ cancelled' \in BOOLEAN
    BY <1>1, <1>2, CapsAssumption
  <2> QED
    BY <1>1, <1>2, <2>1 DEF Typed, upstream, relay
<1>5. Control'
  BY <1>1, <1>3 DEF Control, upstream, relay
<1>6. InPlace'
  BY <1>1, <1>2 DEF InPlace, Fits, upstream, relay
<1>7. NothingLeftOut'
  BY <1>1, <1>2, <1>3 DEF NothingLeftOut, upstream, relay
<1>8. source = "broken"
  BY <1>2, <1>3 DEF source
<1>9. Promise!End
  BY <1>1, <1>2, <1>3, <1>8 DEF Promise!End, Promise!AllDelivered, source, upstream
<1> QED
  BY <1>4, <1>5, <1>6, <1>7, <1>9

LEMMA RelayChunkStep ==
  ASSUME IInv, Relay, Head(out) # Error
  PROVE  IInv' /\ Promise!Deliver
<1> USE DEF IInv
<1>1. /\ UNCHANGED <<upstream, ch, chClosed, relay, outClosed, slot, hungUp,
                     handler, ending, cancelled>>
      /\ handler = "relaying" /\ client' = Append(client, Head(out))
      /\ out # <<>> /\ out' = Tail(out)
  BY DEF Relay
<1>2. /\ Head(out) \in Int /\ Fits(Head(out), Len(client) + 1)
      /\ out' \in Seq(Int) /\ Len(out') = Len(out) - 1 /\ Len(out') \in Nat
      /\ \A i \in 1..Len(out') : Fits(out'[i], Len(client) + 1 + i)
  BY <1>1, TakeFromOut
<1>3. Head(out) = Len(client) + 1 /\ Len(client) + 1 <= read
  BY <1>1, <1>2 DEF Fits
<1>4. client' \in Seq(Int) /\ Len(client') = Len(client) + 1
  <2>1. client \in Seq(Int)
    BY DEF Typed
  <2> QED
    BY <1>1, <1>2, <2>1, AppendFacts
<1>5. ToOut' = ToOut /\ ToCarried' = ToCarried /\ ToCh' = ToCh
  BY <1>1, <1>2, <1>4, Places DEF ToOut, ToCarried, ToCh, relay
<1>6. Typed'
  BY <1>1, <1>2, <1>4, Places DEF Typed, upstream, relay
<1>7. Control'
  BY <1>1 DEF Control, upstream, relay
<1>8. InPlace'
  BY <1>1, <1>2, <1>4, <1>5 DEF InPlace, Fits, upstream, relay
<1>9. NothingLeftOut'
  BY <1>1, <1>5 DEF NothingLeftOut, upstream, relay
<1>10. Promise!Deliver
  <2>1. ending = "open" /\ Len(client) < read
    BY <1>1, <1>3, Places DEF Control, Typed
  <2> QED
    BY <1>1, <1>3, <2>1 DEF Promise!Deliver, source, upstream
<1> QED
  BY <1>6, <1>7, <1>8, <1>9, <1>10

LEMMA FinishStep ==
  ASSUME IInv, Finish
  PROVE  IInv' /\ Promise!End
<1> USE DEF IInv
<1>1. /\ UNCHANGED <<upstream, ch, chClosed, relay, out, outClosed, slot, client, hungUp>>
      /\ handler = "relaying" /\ handler' = "returned" /\ ending' = "done"
      /\ cancelled' = TRUE /\ out = <<>> /\ outClosed
  BY DEF Finish, ReturnWith
<1>2. /\ chClosed /\ ch = <<>> /\ carried = Nothing /\ adapter = "ended"
      /\ ending = "open" /\ router = "committed" /\ (cancelled => hungUp)
      /\ forwarder # "none"
  BY <1>1 DEF Control, Typed
<1>3. Typed' /\ Control'
  BY <1>1, <1>2 DEF Typed, Control, upstream, relay
<1>4. InPlace' /\ NothingLeftOut'
  BY <1>1, <1>2 DEF InPlace, NothingLeftOut, Fits, upstream, relay,
     ToOut, ToCarried, ToCh
<1>5. (source = "whole" /\ Len(client) = read) \/ hungUp
  <2> SUFFICES ASSUME ~hungUp PROVE source = "whole" /\ Len(client) = read
    OBVIOUS
  <2>1. Len(out) = 0 /\ Len(ch) = 0
    BY <1>1, <1>2
  <2>2. ToCh = Len(client)
    BY <1>2, <2>1, Places DEF ToOut, ToCarried, ToCh, One
  <2>3. ~failed
    <3>1. SUFFICES ASSUME failed PROVE FALSE
      OBVIOUS
    <3>2. Len(client) = read + 1
      BY <1>1, <1>2, <2>2, <3>1 DEF NothingLeftOut
    <3> QED
      BY <3>2, Places DEF InPlace, Typed
  <2> QED
    BY <1>2, <2>2, <2>3 DEF NothingLeftOut, source
<1>6. Promise!End
  BY <1>1, <1>2, <1>5 DEF Promise!End, Promise!AllDelivered, source, upstream
<1> QED
  BY <1>3, <1>4, <1>6

LEMMA SeeCancelledStep ==
  ASSUME IInv, SeeCancelled
  PROVE  IInv' /\ Promise!End
<1> USE DEF IInv
<1>1. /\ UNCHANGED <<upstream, ch, chClosed, relay, out, outClosed, slot, client, hungUp>>
      /\ handler = "relaying" /\ handler' = "returned" /\ ending' = "cut"
      /\ cancelled' = TRUE /\ cancelled
  BY DEF SeeCancelled, ReturnWith
<1>2. hungUp /\ ending = "open" /\ router = "committed" /\ forwarder # "none"
  BY <1>1 DEF Control, Typed
<1>3. Typed' /\ Control'
  BY <1>1, <1>2 DEF Typed, Control, upstream, relay
<1>4. InPlace' /\ NothingLeftOut'
  BY <1>1, <1>2 DEF InPlace, NothingLeftOut, Fits, upstream, relay,
     ToOut, ToCarried, ToCh
<1>5. Promise!End
  BY <1>1, <1>2 DEF Promise!End, source, upstream
<1> QED
  BY <1>3, <1>4, <1>5

LEMMA HangUpStep ==
  ASSUME IInv, HangUp
  PROVE  IInv' /\ Promise!HangUp
<1> USE DEF IInv
<1>1. /\ UNCHANGED <<upstream, ch, chClosed, relay, out, outClosed, slot, downstream>>
      /\ cancelled' = TRUE /\ hungUp' = TRUE
  BY DEF HangUp
<1>2. Typed' /\ Control'
  BY <1>1 DEF Typed, Control, upstream, relay, downstream
<1>3. InPlace' /\ NothingLeftOut'
  BY <1>1 DEF InPlace, NothingLeftOut, Fits, upstream, relay, downstream,
     ToOut, ToCarried, ToCh
<1>4. Promise!HangUp
  BY <1>1 DEF Promise!HangUp, source, upstream, downstream
<1> QED
  BY <1>2, <1>3, <1>4

-----------------------------------------------------------------------------

LEMMA InitPromise == Init => Promise!Init
  BY DEF Init, Promise!Init, source

LEMMA NextStep ==
  IInv /\ [Next]_vars => IInv' /\ [Promise!Next]_(Promise!vars)
<1> SUFFICES ASSUME IInv, [Next]_vars
             PROVE  IInv' /\ [Promise!Next]_(Promise!vars)
  OBVIOUS
<1>1. CASE Adapter
  BY <1>1, ReadChunkStep, ReadErrorStep, EndOfBodyStep, PutStep, AbandonPutStep, CloseChStep
     DEF Adapter, Promise!Next
<1>2. CASE Forwarder
  BY <1>2, RejectStep, CommitStep, EmptyStreamStep, ReceiveStep, SendStep, ReleaseStep,
     CloseOutStep
     DEF Forwarder, Promise!Next
<1>3. CASE Handler
  BY <1>3, RelayErrorStep, RelayChunkStep, FinishStep, SeeCancelledStep
     DEF Handler, Promise!Next
<1>4. CASE HangUp
  BY <1>4, HangUpStep DEF Promise!Next
<1>5. CASE UNCHANGED vars
  <2>1. UNCHANGED Promise!vars
    BY <1>5 DEF vars, Promise!vars, source, upstream, downstream
  <2>2. IInv'
    BY <1>5 DEF vars, IInv, Typed, InPlace, NothingLeftOut, Control, Fits,
       ToOut, ToCarried, ToCh, upstream, relay, downstream
  <2> QED
    BY <2>1, <2>2
<1> QED
  BY <1>1, <1>2, <1>3, <1>4, <1>5 DEF Next, Over

\* Whatever the capacities and the length of an answer, the adapter, the
\* forwarder and the handler with their two channels deliver it as promised:
\* every step of theirs is a step of Delivery or leaves it as it is
\* (router.go:312-379, sse.go:232-265).
THEOREM RelayImplementsDelivery == Spec => ImplementsDelivery
<1>1. Spec => Promise!Spec
  BY InitIInv, NextStep, InitPromise, PTL DEF Spec, Promise!Spec
<1> QED
  BY <1>1 DEF ImplementsDelivery

=============================================================================
