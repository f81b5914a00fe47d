------------------------------- MODULE Windows -------------------------------
(***************************************************************************)
(* The arithmetic of the fixed windows of limits.Tracker                   *)
(* (internal/limits/tracker.go): a window is a count and the instant at    *)
(* which it resets, 0 standing for the zero time.Time.  A key has one      *)
(* window per configured limit [requests, window].                         *)
(***************************************************************************)
EXTENDS Integers, Sequences

Window == [count : Nat, resetAt : Nat]

LimitConfig == [requests : Nat, window : Nat]

NewWindow == [count |-> 0, resetAt |-> 0]

\* Mutant: one window whatever the number of limits.
EnsureWindowsOne(cfgs) == <<NewWindow>>

\* ensureWindows: as many windows as limits.
EnsureWindows(cfgs) == [i \in DOMAIN cfgs |-> NewWindow]

\* Mutant: the window is reset at its very end, not after it.
LazyResetAtEnd(w, t) ==
    IF w.resetAt # 0 /\ t >= w.resetAt THEN NewWindow ELSE w

\* Mutant: the reset keeps the count of the window that is over.
LazyResetKeepsCount(w, t) ==
    IF w.resetAt # 0 /\ t > w.resetAt THEN [w EXCEPT !.resetAt = 0] ELSE w

LazyReset(w, t) == IF w.resetAt # 0 /\ t > w.resetAt THEN NewWindow ELSE w

Open(w, cfg, t) == IF w.resetAt = 0 THEN [w EXCEPT !.resetAt = t + cfg.window] ELSE w

\* What one Record at time t makes of one window.
Charge(w, cfg, t) ==
    LET o == Open(LazyReset(w, t), cfg, t) IN [o EXCEPT !.count = o.count + 1]

ChargeAll(ws, cfgs, t) == [i \in DOMAIN cfgs |-> Charge(ws[i], cfgs[i], t)]

\* Mutant: the limit itself is already over the limit plus one.
OverOffByOne(ws, cfgs) == {i \in DOMAIN cfgs : ws[i].count > cfgs[i].requests + 1}

\* The charged windows that are over their limit.
Over(ws, cfgs) == {i \in DOMAIN cfgs : ws[i].count > cfgs[i].requests}

\* The earliest reset among the windows that are over their limit.
IsEarliestReset(t, ws, over) ==
    /\ \E i \in over : t = ws[i].resetAt
    /\ \A i \in over : t <= ws[i].resetAt

\* RestoreWindows: a persisted window counts only while it has not ended.
Restore(w, saved, t) == IF t < saved.resetAt THEN saved ELSE w
=============================================================================
