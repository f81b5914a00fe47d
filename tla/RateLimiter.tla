----------------------------- MODULE RateLimiter -----------------------------
(***************************************************************************)
(* The fixed-window request limits of limits.Tracker, per key (a provider, *)
(* or a provider/model pair).  Every operation runs under t.mu and reads   *)
(* the clock inside the lock, hence is one step.  The cooldowns of the     *)
(* tracker are in module Router, its slots in module SlotLimiter.          *)
(*                                                                         *)
(* Time is a number of ticks, several calls can share one.  A configured   *)
(* limit may have requests = 0 (nothing validates the limits of a model).  *)
(***************************************************************************)
EXTENDS Windows, FiniteSets

CONSTANTS
    Keys,
    Limits,       \* [Keys -> Seq(LimitConfig)], empty when no limit is set
    Saved,        \* the windows a settings file may hold
    MaxTime,      \* bound on the clock
    MaxCount,     \* bound on the count of a window
    MaxGranted    \* bound on the requests let through per key

ASSUME LimitsAssumption == Limits \in [Keys -> Seq(LimitConfig)]
ASSUME SavedAssumption == Saved \subseteq Window
ASSUME BoundsAssumption ==
    MaxTime \in Nat /\ MaxCount \in Nat /\ MaxGranted \in [Keys -> Nat]

VARIABLES
    now,
    serving,    \* FALSE while main restores the persisted state
    windows,    \* [Keys -> sequence of windows]
    log,        \* history: the requests let through, per key
    opened,     \* history: when the current window was opened (0: never, or
                \*   before the restart)
    carried     \* history: the count the current window was restored with

vars == <<now, serving, windows, log, opened, carried>>
history == <<log, opened, carried>>

\* The n-th request let through on a key, at a time.
Call == [at : Nat, n : Nat]

Init ==
    /\ now = 1
    /\ serving = FALSE
    /\ windows = [k \in Keys |-> EnsureWindows(Limits[k])]
    /\ log = [k \in Keys |-> {}]
    /\ opened = [k \in Keys |-> [i \in DOMAIN Limits[k] |-> 0]]
    /\ carried = [k \in Keys |-> [i \in DOMAIN Limits[k] |-> 0]]

-----------------------------------------------------------------------------
\* main.go restores what the settings directory holds, then serves.
RestoreWindows(k, saved) ==
    /\ ~serving
    /\ windows' = [windows EXCEPT ![k] =
         [i \in DOMAIN Limits[k] |-> Restore(@[i], saved[i], now)]]
    /\ carried' = [carried EXCEPT ![k] =
         [i \in DOMAIN Limits[k] |-> windows'[k][i].count]]
    /\ UNCHANGED <<now, serving, log, opened>>

Serve ==
    /\ ~serving
    /\ serving' = TRUE
    /\ UNCHANGED <<now, windows, history>>

\* A window that is opened by this call starts a new count.
Reopens(k, i) == LazyReset(windows[k][i], now).resetAt = 0

WithinBounds(k) ==
    /\ Cardinality(log[k]) < MaxGranted[k]
    /\ \A i \in DOMAIN Limits[k] : LazyReset(windows[k][i], now).count < MaxCount

Grant(k) == log' = [log EXCEPT ![k] = @ \cup {[at |-> now, n |-> Cardinality(@) + 1]}]

Record(k) ==
    LET ws == ChargeAll(windows[k], Limits[k], now)
    IN  /\ serving
        /\ WithinBounds(k)
        /\ windows' = [windows EXCEPT ![k] = ws]
        /\ \/ Over(ws, Limits[k]) = {} /\ Grant(k)
           \/ Over(ws, Limits[k]) # {} /\ UNCHANGED log
        /\ opened' = [opened EXCEPT ![k] =
             [i \in DOMAIN Limits[k] |-> IF Reopens(k, i) THEN now ELSE @[i]]]
        /\ carried' = [carried EXCEPT ![k] =
             [i \in DOMAIN Limits[k] |-> IF Reopens(k, i) THEN 0 ELSE @[i]]]
        /\ UNCHANGED <<now, serving>>

Tick ==
    /\ serving
    /\ now < MaxTime
    /\ now' = now + 1
    /\ UNCHANGED <<serving, windows, history>>

Next ==
    \/ Serve \/ Tick
    \/ \E k \in Keys :
        \/ \E saved \in [DOMAIN Limits[k] -> Saved] : RestoreWindows(k, saved)
        \/ Record(k)

Spec == Init /\ [][Next]_vars
-----------------------------------------------------------------------------
(* Properties *)

TypeOK ==
    /\ now \in Nat
    /\ serving \in BOOLEAN
    /\ DOMAIN windows = Keys /\ DOMAIN opened = Keys /\ DOMAIN carried = Keys
    /\ \A k \in Keys :
        /\ windows[k] \in [DOMAIN Limits[k] -> Window]
        /\ opened[k] \in [DOMAIN Limits[k] -> Nat]
        /\ carried[k] \in [DOMAIN Limits[k] -> Nat]
    /\ log \in [Keys -> SUBSET Call]

\* The requests on key k that were let through from lo to hi.
Granted(k, lo, hi) == {c \in log[k] : lo <= c.at /\ c.at <= hi}

\* A fixed window lets through at most its number of requests, those of the
\* same window before a restart included (tracker.go:203-246, 165-183).
WindowQuota ==
    \A k \in Keys : \A i \in DOMAIN Limits[k] :
        LET g == Cardinality(Granted(k, opened[k][i], now))
        IN  g > 0 => carried[k][i] + g <= Limits[k][i].requests

-----------------------------------------------------------------------------
(* The inductive invariant behind WindowQuota *)

\* The history is numbered and dated, and empty until the program serves.
LogOK ==
    \A k \in Keys :
        /\ IsFiniteSet(log[k])
        /\ \A c \in log[k] : c.n <= Cardinality(log[k]) /\ c.at <= now
        /\ serving \/ log[k] = {}

\* Every window was opened in the past and still lasted at the latest request.
WindowsCoverLog ==
    \A k \in Keys : \A i \in DOMAIN Limits[k] :
        /\ opened[k][i] <= now
        /\ \A c \in log[k] : c.at <= windows[k][i].resetAt

\* The count of a window is at least what it was restored with and what it
\* let through: no request is let through without being charged.
CountCovers ==
    \A k \in Keys : \A i \in DOMAIN Limits[k] :
        carried[k][i] + Cardinality(Granted(k, opened[k][i], now))
            <= windows[k][i].count

IInv == TypeOK /\ now > 0 /\ LogOK /\ WindowsCoverLog /\ CountCovers /\ WindowQuota
-----------------------------------------------------------------------------

\* Fixed windows are not sliding ones, but no stretch of time as long as the
\* window sees more than twice its requests: two windows never overlap it
\* completely, and a third never touches it.
SlidingQuota ==
    \A k \in Keys : \A i \in DOMAIN Limits[k] : \A t \in 1..MaxTime :
        Cardinality(Granted(k, t, t + Limits[k][i].window))
            <= 2 * Limits[k][i].requests

\* The far side of every window that is open now.
Horizon(k) == {t \in now..(now + MaxTime) :
                  \A i \in DOMAIN Limits[k] : t > windows[k][i].resetAt}

\* No key is exhausted for good: once all its windows are over, a request is
\* let through, however many requests were refused meanwhile.
RefusalEnds ==
    \A k \in Keys :
        (\A i \in DOMAIN Limits[k] : Limits[k][i].requests > 0) =>
            \A t \in Horizon(k) :
                Over(ChargeAll(windows[k], Limits[k], t), Limits[k]) = {}

\* Exhaustion is not forgotten early: while a window that has refused a
\* request lasts, every further request is refused.
RefusalLasts ==
    [][\A k \in Keys : \A i \in DOMAIN Limits[k] :
         /\ windows[k][i].count > Limits[k][i].requests
         /\ now <= windows[k][i].resetAt
         => log'[k] = log[k]]_vars
-----------------------------------------------------------------------------
(* The inductive invariant behind SlidingQuota and RefusalEnds *)

\* A window that was opened here lasts for its length from then on; what has
\* never been charged counts nothing.
Spans ==
    \A k \in Keys : \A i \in DOMAIN Limits[k] :
        /\ opened[k][i] # 0 =>
              windows[k][i].resetAt = opened[k][i] + Limits[k][i].window
        /\ serving \/ opened[k][i] = 0
        /\ windows[k][i].resetAt = 0 => windows[k][i].count = 0

\* The requests let through before the present window was opened, but less
\* than its length before.
Recent(k, i) == {c \in log[k] : /\ c.at < opened[k][i]
                               /\ opened[k][i] <= c.at + Limits[k][i].window}

\* They all belong to one window, the one before.
RecentQuota ==
    \A k \in Keys : \A i \in DOMAIN Limits[k] :
        Cardinality(Recent(k, i)) <= Limits[k][i].requests

SlideIInv == Spans /\ RecentQuota
=============================================================================
