-------------------------- MODULE RateLimiter_proofs --------------------------
(***************************************************************************)
(* For any keys, limits, persisted windows and bounds: a window never lets *)
(* through more requests than its limit, no stretch of its length more     *)
(* than twice as many, and a refusal lasts as long as its window does.     *)
(***************************************************************************)
EXTENDS RateLimiter, FiniteSetTheorems, TLAPS

\* Charging a window: it stays a window, and either goes on counting while it
\* lasts or starts again at the present instant (tracker.go:218-227).
LEMMA ChargeFacts ==
  ASSUME NEW w \in Window, NEW cfg \in LimitConfig, NEW t \in Nat
  PROVE  /\ Charge(w, cfg, t) \in Window
         /\ LazyReset(w, t).resetAt # 0 =>
              /\ t <= w.resetAt
              /\ Charge(w, cfg, t) = [count |-> w.count + 1, resetAt |-> w.resetAt]
         /\ LazyReset(w, t).resetAt = 0 =>
              /\ w.resetAt = 0 \/ w.resetAt < t
              /\ Charge(w, cfg, t).resetAt = t + cfg.window
              /\ Charge(w, cfg, t).count >= 1
  BY DEF Window, LimitConfig, NewWindow, LazyReset, Open, Charge

LEMMA LimitTypes ==
  ASSUME NEW k \in Keys, NEW i \in DOMAIN Limits[k]
  PROVE  Limits[k][i] \in LimitConfig
  BY LimitsAssumption

LEMMA InitIInv == Init => IInv
<1> SUFFICES ASSUME Init PROVE IInv
  OBVIOUS
<1>1. TypeOK
  BY DEF Init, TypeOK, Window, EnsureWindows, NewWindow
<1>2. \A k \in Keys, lo, hi \in Nat : Granted(k, lo, hi) = {}
  BY DEF Init, Granted
<1>3. \A k \in Keys : \A i \in DOMAIN Limits[k] :
        Cardinality(Granted(k, opened[k][i], now)) = 0
  BY <1>1, <1>2, FS_EmptySet DEF TypeOK
<1>4. LogOK /\ WindowsCoverLog /\ now > 0
  BY FS_EmptySet DEF Init, LogOK, WindowsCoverLog
<1>5. CountCovers /\ WindowQuota
  <2>1. \A k \in Keys : \A i \in DOMAIN Limits[k] :
          carried[k][i] = 0 /\ windows[k][i].count = 0
    BY DEF Init, EnsureWindows, NewWindow
  <2> QED
    BY <1>3, <2>1 DEF CountCovers, WindowQuota
<1> QED
  BY <1>1, <1>4, <1>5 DEF IInv

\* Nothing but Record and Tick touches the history or the clock.
LEMMA TickIInv == IInv /\ Tick => IInv'
<1> SUFFICES ASSUME IInv, Tick PROVE IInv'
  OBVIOUS
<1> USE DEF IInv
<1>1. TypeOK'
  BY DEF Tick, TypeOK, history
<1>2. LogOK' /\ WindowsCoverLog' /\ now' > 0
  <2>1. \A k \in Keys : \A c \in log[k] : c.at \in Nat
    BY DEF TypeOK, Call
  <2>2. \A k \in Keys : opened[k] \in [DOMAIN Limits[k] -> Nat]
    BY DEF TypeOK
  <2> QED
    BY <2>1, <2>2 DEF Tick, TypeOK, LogOK, WindowsCoverLog, history
<1>3. ASSUME NEW k \in Keys, NEW i \in DOMAIN Limits[k]
      PROVE  Granted(k, opened[k][i], now)' = Granted(k, opened[k][i], now)
  <2>1. \A c \in log[k] : c.at \in Nat /\ c.at <= now
    BY DEF TypeOK, Call, LogOK
  <2> QED
    BY <2>1 DEF Tick, history, Granted, TypeOK
<1> QED
  BY <1>1, <1>2, <1>3 DEF Tick, history, CountCovers, WindowQuota

LEMMA RestoreIInv ==
  ASSUME IInv, NEW k \in Keys, NEW saved \in [DOMAIN Limits[k] -> Saved],
         RestoreWindows(k, saved)
  PROVE  IInv'
<1> USE SavedAssumption DEF IInv
<1>1. \A i \in DOMAIN Limits[k] : Restore(windows[k][i], saved[i], now) \in Window
  BY DEF Restore, TypeOK
<1>2. TypeOK'
  <2>1. windows'[k] = [i \in DOMAIN Limits[k] |-> Restore(windows[k][i], saved[i], now)]
    BY DEF RestoreWindows, TypeOK
  <2>2. windows'[k] \in [DOMAIN Limits[k] -> Window]
    BY <1>1, <2>1
  <2>3. carried'[k] \in [DOMAIN Limits[k] -> Nat]
    BY <2>2 DEF RestoreWindows, TypeOK, Window
  <2> QED
    BY <2>2, <2>3 DEF RestoreWindows, TypeOK
<1>3. log' = log /\ now' = now /\ opened' = opened /\ serving' = serving
  BY DEF RestoreWindows
<1>4. \A j \in Keys : log[j] = {}
  BY DEF RestoreWindows, LogOK
<1>5. \A j \in Keys : \A i \in DOMAIN Limits[j] :
        Cardinality(Granted(j, opened[j][i], now)') = 0
  <2>1. \A j \in Keys : \A i \in DOMAIN Limits[j] :
          Granted(j, opened[j][i], now)' = {}
    BY <1>3, <1>4 DEF Granted
  <2> QED
    BY <2>1, FS_EmptySet
<1>6. \A i \in DOMAIN Limits[k] : carried'[k][i] = windows'[k][i].count
  BY DEF RestoreWindows, TypeOK
<1>7. \A j \in Keys \ {k} : windows'[j] = windows[j] /\ carried'[j] = carried[j]
  BY DEF RestoreWindows, TypeOK
<1>8. CountCovers'
  <2> SUFFICES ASSUME NEW j \in Keys, NEW i \in DOMAIN Limits[j]
               PROVE  carried'[j][i] + 0 <= windows'[j][i].count
    BY <1>5 DEF CountCovers
  <2>1. CASE j = k
    BY <1>2, <1>6, <2>1 DEF TypeOK, Window
  <2>2. CASE j # k
    <3>1. Cardinality(Granted(j, opened[j][i], now)) = 0
      BY <1>3, <1>5 DEF Granted
    <3> QED
      BY <1>7, <2>2, <3>1 DEF CountCovers, TypeOK
  <2> QED
    BY <2>1, <2>2
<1>9. LogOK' /\ WindowsCoverLog' /\ WindowQuota'
  BY <1>3, <1>4, <1>5 DEF LogOK, WindowsCoverLog, WindowQuota
<1> QED
  BY <1>2, <1>3, <1>8, <1>9

\* One Record adds at most one request, dated now, to the history of its key.
LEMMA RecordLog ==
  ASSUME IInv, NEW k \in Keys, Record(k)
  PROVE  /\ log' \in [Keys -> SUBSET Call]
         /\ LogOK'
         /\ \A c \in log'[k] \ log[k] : c.at = now
         /\ \A j \in Keys \ {k} : log'[j] = log[j]
         /\ log'[k] # log[k] =>
              /\ Over(ChargeAll(windows[k], Limits[k], now), Limits[k]) = {}
              /\ \E c \in Call : c \notin log[k] /\ c.at = now /\ log'[k] = log[k] \cup {c}
<1> USE DEF IInv
<1> DEFINE new == [at |-> now, n |-> Cardinality(log[k]) + 1]
<1>1. IsFiniteSet(log[k]) /\ Cardinality(log[k]) \in Nat
  BY FS_CardinalityType DEF LogOK
<1>2. new \in Call
  BY <1>1 DEF Call, TypeOK
<1>3. new \notin log[k]
  BY <1>1 DEF LogOK
<1>4. CASE log' = log
  BY <1>4 DEF LogOK, TypeOK, Record
<1>5. CASE Grant(k)
  <2>1. log' = [log EXCEPT ![k] = log[k] \cup {new}]
    BY <1>5 DEF Grant, TypeOK
  <2>2. log'[k] = log[k] \cup {new} /\ \A j \in Keys \ {k} : log'[j] = log[j]
    BY <2>1 DEF TypeOK
  <2>3. log' \in [Keys -> SUBSET Call]
    BY <1>2, <2>1 DEF TypeOK
  <2>4. IsFiniteSet(log'[k]) /\ Cardinality(log'[k]) = Cardinality(log[k]) + 1
    <3>1. /\ IsFiniteSet(log[k] \cup {new})
          /\ Cardinality(log[k] \cup {new}) = Cardinality(log[k]) + 1
      <4> HIDE DEF new
      <4> QED
        BY <1>1, <1>3, FS_AddElement
    <3> QED
      BY <2>2, <3>1
  <2>5. \A c \in log'[k] : c.n <= Cardinality(log'[k]) /\ c.at <= now
    <3>1. \A c \in log[k] : c.n \in Nat
      BY DEF TypeOK, Call
    <3> QED
      BY <1>1, <2>2, <2>4, <3>1 DEF LogOK, TypeOK
  <2>6. LogOK'
    <3>1. now' = now /\ serving'
      BY DEF Record
    <3> QED
      BY <2>2, <2>4, <2>5, <3>1 DEF LogOK
  <2>7. Over(ChargeAll(windows[k], Limits[k], now), Limits[k]) = {}
    <3>1. log'[k] # log[k]
      BY <1>3, <2>2
    <3> QED
      BY <3>1 DEF Record
  <2> QED
    BY <1>2, <1>3, <2>2, <2>3, <2>6, <2>7
<1> QED
  BY <1>4, <1>5 DEF Record

\* What one Record does to one window of its key: it either goes on counting
\* or is opened now.
LEMMA RecordWindow ==
  ASSUME IInv, NEW k \in Keys, Record(k), NEW i \in DOMAIN Limits[k]
  PROVE  /\ windows'[k][i] \in Window
         /\ \/ /\ ~Reopens(k, i)
               /\ windows'[k][i].count = windows[k][i].count + 1
               /\ windows'[k][i].resetAt = windows[k][i].resetAt
               /\ now <= windows[k][i].resetAt
               /\ opened'[k][i] = opened[k][i]
               /\ carried'[k][i] = carried[k][i]
            \/ /\ Reopens(k, i)
               /\ windows'[k][i].count >= 1
               /\ windows'[k][i].resetAt = now + Limits[k][i].window
               /\ windows[k][i].resetAt < now
               /\ opened'[k][i] = now
               /\ carried'[k][i] = 0
<1> USE DEF IInv
<1>1. windows[k][i] \in Window /\ Limits[k][i] \in LimitConfig /\ now \in Nat
  BY LimitTypes DEF TypeOK
<1>2. windows'[k][i] = Charge(windows[k][i], Limits[k][i], now)
  BY DEF Record, ChargeAll, TypeOK
<1>3. /\ opened'[k][i] = IF Reopens(k, i) THEN now ELSE opened[k][i]
      /\ carried'[k][i] = IF Reopens(k, i) THEN 0 ELSE carried[k][i]
  BY DEF Record, TypeOK
<1>4. /\ windows'[k][i] \in Window
      /\ ~Reopens(k, i) =>
           /\ now <= windows[k][i].resetAt
           /\ windows'[k][i] =
                [count |-> windows[k][i].count + 1, resetAt |-> windows[k][i].resetAt]
      /\ Reopens(k, i) =>
           /\ windows[k][i].resetAt = 0 \/ windows[k][i].resetAt < now
           /\ windows'[k][i].resetAt = now + Limits[k][i].window
           /\ windows'[k][i].count >= 1
  BY <1>1, <1>2, ChargeFacts DEF Reopens
<1>5. now > 0
  OBVIOUS
<1> QED
  BY <1>1, <1>3, <1>4, <1>5

LEMMA RecordIInv ==
  ASSUME IInv, NEW k \in Keys, Record(k)
  PROVE  IInv'
<1> USE DEF IInv
<1>1. now' = now /\ serving' = serving /\ now \in Nat /\ now > 0
  BY DEF Record, TypeOK
<1>2. \A j \in Keys \ {k} : /\ windows'[j] = windows[j]
                            /\ opened'[j] = opened[j]
                            /\ carried'[j] = carried[j]
                            /\ log'[j] = log[j]
  BY RecordLog DEF Record, TypeOK
<1>3. TypeOK'
  <2>1. /\ DOMAIN windows'[k] = DOMAIN Limits[k]
        /\ windows'[k] = [i \in DOMAIN Limits[k] |-> windows'[k][i]]
    BY DEF Record, ChargeAll, TypeOK
  <2>2. windows'[k] \in [DOMAIN Limits[k] -> Window]
    BY <2>1, RecordWindow
  <2>3. /\ opened'[k] \in [DOMAIN Limits[k] -> Nat]
        /\ carried'[k] \in [DOMAIN Limits[k] -> Nat]
    BY <1>1 DEF Record, TypeOK
  <2> QED
    BY <1>1, <1>2, <2>2, <2>3, RecordLog DEF TypeOK, Record
<1>4. WindowsCoverLog'
  <2> SUFFICES ASSUME NEW i \in DOMAIN Limits[k]
               PROVE  /\ opened'[k][i] <= now
                      /\ \A c \in log'[k] : c.at <= windows'[k][i].resetAt
    BY <1>1, <1>2 DEF WindowsCoverLog
  <2>1. \A c \in log[k] : c.at \in Nat /\ c.at <= now /\ c.at <= windows[k][i].resetAt
    BY DEF TypeOK, Call, LogOK, WindowsCoverLog
  <2>2. \A c \in log'[k] : c \in log[k] \/ c.at = now
    BY RecordLog
  <2>3. Limits[k][i].window \in Nat /\ windows[k][i].resetAt \in Nat
    BY LimitTypes DEF LimitConfig, TypeOK, Window
  <2> QED
    BY <1>1, <2>1, <2>2, <2>3, RecordWindow DEF WindowsCoverLog
<1>5. ASSUME NEW i \in DOMAIN Limits[k]
      PROVE  LET g  == Cardinality(Granted(k, opened[k][i], now))
                 g1 == Cardinality(Granted(k, opened[k][i], now)')
             IN  /\ carried'[k][i] + g1 <= windows'[k][i].count
                 /\ g1 > 0 => carried'[k][i] + g1 <= Limits[k][i].requests
  <2> DEFINE G  == Granted(k, opened[k][i], now)
  <2> DEFINE G1 == Granted(k, opened[k][i], now)'
  <2>0. /\ windows[k][i] \in Window /\ windows'[k][i] \in Window
        /\ Limits[k][i] \in LimitConfig
        /\ carried[k][i] \in Nat /\ opened[k][i] \in Nat /\ opened[k][i] <= now
    BY LimitTypes, RecordWindow DEF TypeOK, WindowsCoverLog
  <2>1. IsFiniteSet(G) /\ IsFiniteSet(G1) /\ Cardinality(G) \in Nat /\ Cardinality(G1) \in Nat
    <3>1. G \subseteq log[k] /\ G1 \subseteq log'[k]
      BY DEF Granted
    <3>2. IsFiniteSet(log[k]) /\ IsFiniteSet(log'[k])
      BY RecordLog DEF LogOK
    <3> QED
      BY <3>1, <3>2, FS_Subset, FS_CardinalityType
  <2>2. log'[k] # log[k] => windows'[k][i].count <= Limits[k][i].requests
    <3>1. windows'[k][i] = ChargeAll(windows[k], Limits[k], now)[i]
      BY DEF Record, TypeOK
    <3> QED
      BY <2>0, <3>1, RecordLog DEF Over, Window, LimitConfig
  <2>3. CASE ~Reopens(k, i)
    <3>1. G1 = {c \in log'[k] : opened[k][i] <= c.at /\ c.at <= now}
      BY <1>1, <2>3, RecordWindow DEF Granted
    <3>2. CASE log'[k] = log[k]
      <4>1. G1 = G
        BY <3>1, <3>2 DEF Granted
      <4>2. carried[k][i] + Cardinality(G) <= windows[k][i].count
        BY DEF CountCovers
      <4>3. Cardinality(G) > 0 => carried[k][i] + Cardinality(G) <= Limits[k][i].requests
        BY DEF WindowQuota
      <4>4. /\ windows'[k][i].count = windows[k][i].count + 1
            /\ carried'[k][i] = carried[k][i]
        BY <2>3, RecordWindow
      <4> QED
        BY <2>0, <2>1, <4>1, <4>2, <4>3, <4>4 DEF Window
    <3>3. CASE log'[k] # log[k]
      <4>1. PICK c \in Call : c \notin log[k] /\ c.at = now /\ log'[k] = log[k] \cup {c}
        BY <3>3, RecordLog
      <4>2. G1 = G \cup {c} /\ c \notin G
        BY <1>1, <2>0, <3>1, <4>1 DEF Granted
      <4>3. Cardinality(G1) = Cardinality(G) + 1
        BY <2>1, <4>2, FS_AddElement
      <4>4. carried[k][i] + Cardinality(G) <= windows[k][i].count
        BY DEF CountCovers
      <4>5. /\ windows'[k][i].count = windows[k][i].count + 1
            /\ carried'[k][i] = carried[k][i]
        BY <2>3, RecordWindow
      <4> QED
        BY <2>0, <2>1, <2>2, <3>3, <4>3, <4>4, <4>5 DEF Window, LimitConfig
    <3> QED
      BY <3>2, <3>3
  <2>4. CASE Reopens(k, i)
    <3>1. \A c \in log[k] : c.at < now
      <4>1. \A c \in log[k] : c.at \in Nat /\ c.at <= windows[k][i].resetAt
        BY DEF TypeOK, Call, WindowsCoverLog
      <4>2. windows[k][i].resetAt < now
        BY <2>4, RecordWindow
      <4> QED
        BY <1>1, <2>0, <4>1, <4>2 DEF Window
    <3>2. G1 = {c \in log'[k] : now <= c.at /\ c.at <= now}
      BY <1>1, <2>4, RecordWindow DEF Granted
    <3>3. windows'[k][i].count >= 1 /\ carried'[k][i] = 0
      BY <2>4, RecordWindow
    <3>4. CASE log'[k] = log[k]
      <4>1. G1 = {}
        BY <1>1, <3>1, <3>2, <3>4 DEF TypeOK, Call
      <4>2. Cardinality(G1) = 0
        BY <4>1, FS_EmptySet
      <4> QED
        BY <2>0, <3>3, <4>2 DEF Window
    <3>5. CASE log'[k] # log[k]
      <4>1. PICK c \in Call : c \notin log[k] /\ c.at = now /\ log'[k] = log[k] \cup {c}
        BY <3>5, RecordLog
      <4>2. G1 = {c}
        BY <1>1, <3>1, <3>2, <4>1 DEF TypeOK, Call
      <4>3. Cardinality(G1) = 1
        BY <4>2, FS_Singleton
      <4> QED
        BY <2>0, <2>2, <3>3, <3>5, <4>3 DEF Window, LimitConfig
    <3> QED
      BY <3>4, <3>5
  <2> QED
    BY <2>3, <2>4
<1>6. ASSUME NEW j \in Keys \ {k}, NEW i \in DOMAIN Limits[j]
      PROVE  Granted(j, opened[j][i], now)' = Granted(j, opened[j][i], now)
  BY <1>1, <1>2 DEF Granted
<1>7. CountCovers'
  BY <1>2, <1>5, <1>6 DEF CountCovers
<1>8. WindowQuota'
  BY <1>2, <1>5, <1>6 DEF WindowQuota
<1> QED
  BY <1>1, <1>3, <1>4, <1>7, <1>8, RecordLog

LEMMA NextIInv == IInv /\ [Next]_vars => IInv'
<1> SUFFICES ASSUME IInv, [Next]_vars PROVE IInv'
  OBVIOUS
<1>1. CASE Serve
  BY <1>1
  DEF IInv, Serve, history, TypeOK, LogOK, WindowsCoverLog, CountCovers,
      WindowQuota, Granted
<1>2. CASE Tick
  BY <1>2, TickIInv
<1>3. ASSUME NEW k \in Keys, NEW saved \in [DOMAIN Limits[k] -> Saved],
             RestoreWindows(k, saved)
      PROVE  IInv'
  BY <1>3, RestoreIInv
<1>4. ASSUME NEW k \in Keys, Record(k) PROVE IInv'
  BY <1>4, RecordIInv
<1>5. CASE UNCHANGED vars
  BY <1>5
  DEF vars, IInv, TypeOK, LogOK, WindowsCoverLog, CountCovers, WindowQuota, Granted
<1> QED
  BY <1>1, <1>2, <1>3, <1>4, <1>5 DEF Next

\* The inductive invariant of the tracker.
THEOREM Invariance == Spec => []IInv
  BY InitIInv, NextIInv, PTL DEF Spec

\* The windows of a key stay one per configured limit, and well formed.
THEOREM Typing == Spec => []TypeOK
  BY Invariance, PTL DEF IInv

\* However the calls and the clock interleave, a fixed window lets through at
\* most its number of requests, across a restart too (tracker.go:203-246).
THEOREM QuotaHolds == Spec => []WindowQuota
  BY Invariance, PTL DEF IInv

-----------------------------------------------------------------------------
(* Refusals, and requests across two windows *)

\* No stretch of time as long as a window sees more than twice its requests,
\* whenever it starts.
SlidingAlways ==
  \A k \in Keys : \A i \in DOMAIN Limits[k] : \A t \in Nat :
     Cardinality(Granted(k, t, t + Limits[k][i].window)) <= 2 * Limits[k][i].requests

\* What is counted is finite.
LEMMA GrantedFinite ==
  ASSUME IInv, NEW k \in Keys
  PROVE  /\ \A lo, hi : IsFiniteSet(Granted(k, lo, hi)) /\ Cardinality(Granted(k, lo, hi)) \in Nat
         /\ \A i : IsFiniteSet(Recent(k, i)) /\ Cardinality(Recent(k, i)) \in Nat
<1>1. \A S : S \subseteq log[k] => IsFiniteSet(S) /\ Cardinality(S) \in Nat
  BY FS_Subset, FS_CardinalityType DEF IInv, LogOK
<1>2. \A lo, hi : Granted(k, lo, hi) \subseteq log[k]
  BY DEF Granted
<1>3. \A i : Recent(k, i) \subseteq log[k]
  BY DEF Recent
<1> QED
  BY <1>1, <1>2, <1>3

\* The present window has let through no more than its requests.
LEMMA PresentQuota ==
  ASSUME IInv, NEW k \in Keys, NEW i \in DOMAIN Limits[k]
  PROVE  Cardinality(Granted(k, opened[k][i], now)) <= Limits[k][i].requests
<1>1. Cardinality(Granted(k, opened[k][i], now)) \in Nat
  BY GrantedFinite
<1>2. carried[k][i] \in Nat /\ Limits[k][i].requests \in Nat
  BY LimitTypes DEF IInv, TypeOK, LimitConfig
<1> QED
  BY <1>1, <1>2 DEF IInv, WindowQuota

\* A stretch that reaches the present window sees that window and, before it,
\* recent requests only.
LEMMA Overlap ==
  ASSUME IInv, RecentQuota, NEW k \in Keys, NEW i \in DOMAIN Limits[k], NEW t \in Nat,
         opened[k][i] <= t + Limits[k][i].window
  PROVE  Cardinality(Granted(k, t, t + Limits[k][i].window)) <= 2 * Limits[k][i].requests
<1> DEFINE G == Granted(k, t, t + Limits[k][i].window)
           P == Granted(k, opened[k][i], now)
           R == Recent(k, i)
<1>1. /\ opened[k][i] \in Nat /\ now \in Nat
      /\ Limits[k][i].window \in Nat /\ Limits[k][i].requests \in Nat
      /\ \A c \in log[k] : c.at \in Nat /\ c.at <= now
  BY LimitTypes DEF IInv, TypeOK, LimitConfig, LogOK, Call
<1>2. G \subseteq R \cup P
  BY <1>1 DEF Granted, Recent
<1>3. IsFiniteSet(R) /\ IsFiniteSet(P) /\ Cardinality(R) \in Nat /\ Cardinality(P) \in Nat
      /\ Cardinality(G) \in Nat
  BY GrantedFinite
<1>4. Cardinality(R) <= Limits[k][i].requests /\ Cardinality(P) <= Limits[k][i].requests
  BY PresentQuota DEF RecentQuota
<1>5. /\ IsFiniteSet(R \cup P)
      /\ Cardinality(R \cup P) = Cardinality(R) + Cardinality(P) - Cardinality(R \cap P)
  BY <1>3, FS_Union
<1>6. Cardinality(G) <= Cardinality(R \cup P)
  BY <1>2, <1>5, FS_Subset
<1>7. Cardinality(R \cap P) \in Nat
  BY <1>3, FS_Intersection, FS_CardinalityType
<1> HIDE DEF G, P, R
<1>8. Cardinality(G) <= 2 * Limits[k][i].requests
  BY <1>1, <1>3, <1>4, <1>5, <1>6, <1>7
<1> QED
  BY <1>8 DEF G

\* The same for all windows, with a name.
OverlapQuota ==
  \A k \in Keys : \A i \in DOMAIN Limits[k] : \A t \in Nat :
     opened[k][i] <= t + Limits[k][i].window =>
        Cardinality(Granted(k, t, t + Limits[k][i].window)) <= 2 * Limits[k][i].requests

LEMMA Overlaps == IInv /\ RecentQuota => OverlapQuota
  BY Overlap DEF OverlapQuota

LEMMA SlideInit == Init => SlideIInv /\ SlidingAlways
<1> SUFFICES ASSUME Init PROVE SlideIInv /\ SlidingAlways
  OBVIOUS
<1>1. \A k \in Keys : \A i \in DOMAIN Limits[k] :
        /\ opened[k][i] = 0 /\ windows[k][i].resetAt = 0 /\ windows[k][i].count = 0
        /\ log[k] = {} /\ Limits[k][i].requests \in Nat
  BY LimitTypes DEF Init, EnsureWindows, NewWindow, LimitConfig
<1>2. \A k \in Keys : \A i \in DOMAIN Limits[k] : Cardinality(Recent(k, i)) = 0
  BY <1>1, FS_EmptySet DEF Recent
<1>3. \A k \in Keys : \A i \in DOMAIN Limits[k] : \A t \in Nat :
        Cardinality(Granted(k, t, t + Limits[k][i].window)) = 0
  <2>1. \A k \in Keys : \A i \in DOMAIN Limits[k] : \A lo, hi : Granted(k, lo, hi) = {}
    BY <1>1 DEF Granted
  <2> QED
    BY <2>1, FS_EmptySet
<1>4. SlideIInv
  BY <1>1, <1>2 DEF SlideIInv, Spans, RecentQuota
<1>5. SlidingAlways
  BY <1>1, <1>3 DEF SlidingAlways
<1> QED
  BY <1>4, <1>5

\* One Record, seen from one window of its key.
LEMMA RecordSpans ==
  ASSUME IInv, Spans, NEW k \in Keys, Record(k), NEW i \in DOMAIN Limits[k]
  PROVE  /\ opened'[k][i] # 0 =>
              windows'[k][i].resetAt = opened'[k][i] + Limits[k][i].window
         /\ windows'[k][i].resetAt # 0
<1>1. /\ now \in Nat /\ now > 0 /\ Limits[k][i].window \in Nat
      /\ windows[k][i] \in Window /\ windows'[k][i] \in Window
  BY LimitTypes, RecordWindow DEF IInv, TypeOK, LimitConfig
<1>2. CASE Reopens(k, i)
  BY <1>1, <1>2, RecordWindow
<1>3. CASE ~Reopens(k, i)
  BY <1>1, <1>3, RecordWindow DEF Spans, Window
<1> QED
  BY <1>2, <1>3

\* A window that is opened now: what was let through recently all belongs to
\* the window that is over.
LEMMA RecordRecent ==
  ASSUME IInv, SlideIInv, NEW k \in Keys, Record(k), NEW i \in DOMAIN Limits[k]
  PROVE  Cardinality(Recent(k, i)') <= Limits[k][i].requests
<1>1. /\ now \in Nat /\ now > 0 /\ opened[k][i] \in Nat /\ opened[k][i] <= now
      /\ Limits[k][i].window \in Nat /\ Limits[k][i].requests \in Nat
      /\ \A c \in log[k] : c.at \in Nat /\ c.at <= now
  BY LimitTypes DEF IInv, TypeOK, LimitConfig, LogOK, WindowsCoverLog, Call
<1>2. \A c \in log'[k] : c \in log[k] \/ c.at = now
  BY RecordLog
<1>3. log[k] \subseteq log'[k]
  BY RecordLog
<1>4. CASE ~Reopens(k, i)
  <2>1. opened'[k][i] = opened[k][i]
    BY <1>4, RecordWindow
  <2>2. Recent(k, i)' = Recent(k, i)
    BY <1>1, <1>2, <1>3, <2>1 DEF Recent
  <2> QED
    BY <2>2 DEF SlideIInv, RecentQuota
<1>5. CASE Reopens(k, i)
  <2>1. opened'[k][i] = now /\ windows[k][i].resetAt < now /\ windows[k][i].resetAt \in Nat
    BY <1>5, RecordWindow DEF IInv, TypeOK, Window
  <2>2. opened[k][i] # 0 => opened[k][i] + Limits[k][i].window < now
    BY <2>1 DEF SlideIInv, Spans
  <2>3. Recent(k, i)' \subseteq Granted(k, opened[k][i], now)
    BY <1>1, <1>2, <2>1, <2>2 DEF Recent, Granted
  <2>4. /\ IsFiniteSet(Granted(k, opened[k][i], now))
        /\ Cardinality(Granted(k, opened[k][i], now)) \in Nat
    BY GrantedFinite
  <2>5. /\ Cardinality(Recent(k, i)') <= Cardinality(Granted(k, opened[k][i], now))
        /\ Cardinality(Recent(k, i)') \in Nat
    BY <2>3, <2>4, FS_Subset, FS_CardinalityType
  <2> QED
    BY <1>1, <2>4, <2>5, PresentQuota
<1> QED
  BY <1>4, <1>5

LEMMA RecordSlides ==
  ASSUME IInv, SlideIInv, SlidingAlways, NEW k \in Keys, Record(k)
  PROVE  SlideIInv' /\ SlidingAlways'
<1>1. IInv'
  BY RecordIInv
<1>2. /\ now' = now /\ serving' = serving /\ serving
      /\ \A j \in Keys \ {k} : /\ windows'[j] = windows[j] /\ opened'[j] = opened[j]
                               /\ log'[j] = log[j]
  BY RecordLog DEF Record, IInv, TypeOK
<1>3. Spans'
  BY <1>2, RecordSpans DEF SlideIInv, Spans
<1>4. RecentQuota'
  <2> SUFFICES ASSUME NEW j \in Keys, NEW i \in DOMAIN Limits[j]
               PROVE  Cardinality(Recent(j, i)') <= Limits[j][i].requests
    BY DEF RecentQuota
  <2>1. CASE j = k
    BY <2>1, RecordRecent
  <2>2. CASE j # k
    <3>1. Recent(j, i)' = Recent(j, i)
      BY <1>2, <2>2 DEF Recent
    <3> QED
      BY <3>1 DEF SlideIInv, RecentQuota
  <2> QED
    BY <2>1, <2>2
<1>5. SlidingAlways'
  <2> SUFFICES ASSUME NEW j \in Keys, NEW i \in DOMAIN Limits[j], NEW t \in Nat
               PROVE  Cardinality(Granted(j, t, t + Limits[j][i].window)')
                        <= 2 * Limits[j][i].requests
    BY DEF SlidingAlways
  <2>1. CASE (opened[j][i] <= t + Limits[j][i].window)'
    <3>1. OverlapQuota'
      BY <1>1, <1>4, Overlaps, PTL
    <3> QED
      BY <2>1, <3>1 DEF OverlapQuota
  <2>2. CASE ~(opened[j][i] <= t + Limits[j][i].window)'
    <3>1. Granted(j, t, t + Limits[j][i].window)' = Granted(j, t, t + Limits[j][i].window)
      <4>1. opened'[j][i] <= now /\ opened'[j][i] \in Nat /\ now \in Nat
            /\ Limits[j][i].window \in Nat
        BY <1>1, <1>2, LimitTypes DEF IInv, TypeOK, WindowsCoverLog, LimitConfig
      <4>2. log[j] \subseteq log'[j] /\ \A c \in log'[j] : c \in log[j] \/ c.at = now
        BY <1>2, RecordLog
      <4> QED
        BY <2>2, <4>1, <4>2 DEF Granted
    <3> QED
      BY <3>1 DEF SlidingAlways
  <2> QED
    BY <2>1, <2>2
<1> QED
  BY <1>3, <1>4, <1>5 DEF SlideIInv

LEMMA RestoreSlides ==
  ASSUME IInv, SlideIInv, SlidingAlways,
         NEW k \in Keys, NEW saved \in [DOMAIN Limits[k] -> Saved], RestoreWindows(k, saved)
  PROVE  SlideIInv' /\ SlidingAlways'
<1>1. /\ log' = log /\ opened' = opened /\ serving' = serving /\ now' = now /\ ~serving
      /\ \A j \in Keys \ {k} : windows'[j] = windows[j]
  BY DEF RestoreWindows, IInv, TypeOK
<1>2. /\ \A j \in Keys : \A i : Recent(j, i)' = Recent(j, i)
      /\ \A j \in Keys : \A lo, hi : Granted(j, lo, hi)' = Granted(j, lo, hi)
  BY <1>1 DEF Recent, Granted
<1>3. \A j \in Keys : \A i \in DOMAIN Limits[j] : opened[j][i] = 0
  BY <1>1 DEF SlideIInv, Spans
<1>4. ASSUME NEW j \in Keys, NEW i \in DOMAIN Limits[j], windows'[j][i].resetAt = 0
      PROVE  windows'[j][i].count = 0
  <2>1. CASE j = k
    <3>1. windows'[k][i] = Restore(windows[k][i], saved[i], now)
      BY <2>1 DEF RestoreWindows, IInv, TypeOK
    <3>2. saved[i] \in Window /\ now \in Nat
      BY <2>1, SavedAssumption DEF IInv, TypeOK
    <3>3. windows'[k][i] = windows[k][i]
      BY <1>4, <2>1, <3>1, <3>2 DEF Restore, Window
    <3> QED
      BY <1>4, <2>1, <3>3 DEF SlideIInv, Spans
  <2>2. CASE j # k
    BY <1>1, <1>4, <2>2 DEF SlideIInv, Spans
  <2> QED
    BY <2>1, <2>2
<1>5. Spans'
  BY <1>1, <1>3, <1>4 DEF Spans
<1> QED
  BY <1>2, <1>5 DEF SlideIInv, RecentQuota, SlidingAlways

LEMMA SlideNext ==
  ASSUME IInv, SlideIInv, SlidingAlways, [Next]_vars
  PROVE  SlideIInv' /\ SlidingAlways'
<1>1. CASE Serve
  BY <1>1
  DEF Serve, history, SlideIInv, Spans, RecentQuota, Recent, SlidingAlways, Granted
<1>2. CASE Tick
  BY <1>2
  DEF Tick, history, SlideIInv, Spans, RecentQuota, Recent, SlidingAlways, Granted
<1>3. CASE UNCHANGED vars
  BY <1>3 DEF vars, SlideIInv, Spans, RecentQuota, Recent, SlidingAlways, Granted
<1>4. ASSUME NEW k \in Keys,
             Record(k) \/ \E saved \in [DOMAIN Limits[k] -> Saved] : RestoreWindows(k, saved)
      PROVE  SlideIInv' /\ SlidingAlways'
  BY <1>4, RecordSlides, RestoreSlides
<1> QED
  BY <1>1, <1>2, <1>3, <1>4 DEF Next

\* SlideIInv and SlidingAlways are invariants, on top of IInv.
THEOREM Sliding == Spec => [](IInv /\ SlideIInv /\ SlidingAlways)
<1>1. Init => SlideIInv /\ SlidingAlways
  BY SlideInit
<1>2. IInv /\ SlideIInv /\ SlidingAlways /\ [Next]_vars => SlideIInv' /\ SlidingAlways'
  BY SlideNext
<1> QED
  BY <1>1, <1>2, Invariance, PTL DEF Spec

\* No stretch of time as long as a window sees more than twice its requests,
\* restarts included (tracker.go:203-246).
THEOREM TwiceAtMost == Spec => []SlidingQuota
<1>1. SlidingAlways => SlidingQuota
  BY DEF SlidingAlways, SlidingQuota
<1> QED
  BY <1>1, Sliding, PTL

\* Once all windows of a key are over, its next request is let through, however
\* many were refused: no key is exhausted for good (tracker.go:218-227).
THEOREM RefusalsEnd == Spec => []RefusalEnds
<1>1. IInv /\ SlideIInv => RefusalEnds
  <2> SUFFICES ASSUME IInv, SlideIInv, NEW k \in Keys,
                      \A i \in DOMAIN Limits[k] : Limits[k][i].requests > 0,
                      NEW t \in Horizon(k)
               PROVE  Over(ChargeAll(windows[k], Limits[k], t), Limits[k]) = {}
    BY DEF RefusalEnds
  <2>1. ASSUME NEW i \in DOMAIN Limits[k]
        PROVE  ~(ChargeAll(windows[k], Limits[k], t)[i].count > Limits[k][i].requests)
    <3>1. /\ windows[k][i] \in Window /\ Limits[k][i] \in LimitConfig
          /\ Limits[k][i].requests > 0 /\ t > windows[k][i].resetAt
          /\ windows[k][i].resetAt = 0 => windows[k][i].count = 0
      BY LimitTypes DEF IInv, TypeOK, Horizon, SlideIInv, Spans
    <3>2. Charge(windows[k][i], Limits[k][i], t).count = 1
      BY <3>1 DEF Charge, LazyReset, Open, NewWindow, Window, LimitConfig
    <3>3. ChargeAll(windows[k], Limits[k], t)[i].count = 1
      BY <3>2 DEF ChargeAll
    <3> QED
      BY <3>1, <3>3 DEF LimitConfig
  <2> QED
    BY <2>1 DEF Over
<1> QED
  BY <1>1, Sliding, PTL

\* While a window that has refused a request lasts, every request is refused
\* (tracker.go:226-242).
THEOREM RefusalsLast == Spec => RefusalLasts
<1>1. IInv /\ [Next]_vars =>
        [\A k \in Keys : \A i \in DOMAIN Limits[k] :
           /\ windows[k][i].count > Limits[k][i].requests
           /\ now <= windows[k][i].resetAt
           => log'[k] = log[k]]_vars
  <2> SUFFICES ASSUME IInv, [Next]_vars, NEW k \in Keys, NEW i \in DOMAIN Limits[k],
                      windows[k][i].count > Limits[k][i].requests,
                      now <= windows[k][i].resetAt
               PROVE  log'[k] = log[k]
    OBVIOUS
  <2>1. CASE Record(k)
    <3>1. /\ windows[k][i] \in Window /\ Limits[k][i] \in LimitConfig /\ now \in Nat /\ now > 0
      BY LimitTypes DEF IInv, TypeOK
    <3>2. Charge(windows[k][i], Limits[k][i], now).count > Limits[k][i].requests
      BY <3>1 DEF Charge, LazyReset, Open, NewWindow, Window, LimitConfig
    <3>3. i \in Over(ChargeAll(windows[k], Limits[k], now), Limits[k])
      BY <3>2 DEF Over, ChargeAll
    <3> QED
      BY <2>1, <3>3, RecordLog
  <2>2. ASSUME NEW j \in Keys, Record(j), j # k PROVE log'[k] = log[k]
    BY <2>2, RecordLog
  <2>3. CASE \/ Serve \/ Tick \/ UNCHANGED vars
             \/ \E j \in Keys : \E saved \in [DOMAIN Limits[j] -> Saved] :
                   RestoreWindows(j, saved)
    BY <2>3 DEF Serve, Tick, RestoreWindows, vars, history
  <2> QED
    BY <2>1, <2>2, <2>3 DEF Next
<1> QED
  BY <1>1, Invariance, PTL DEF Spec, RefusalLasts
=============================================================================
