---------------------------- MODULE HealthMonitor ----------------------------
(***************************************************************************)
(* health.Monitor (internal/health/monitor.go): one worker goroutine per   *)
(* node checks the provider again and again and turns the results into a   *)
(* state with hysteresis.  A reload adds and removes nodes while their     *)
(* workers are checking, and the startup probes of main.go (281-315) mark  *)
(* nodes ready from goroutines of their own.                               *)
(*                                                                         *)
(* A worker looks at its context only where it waits for the next check;   *)
(* a check that is over is posted, whatever has become of the node.        *)
(*                                                                         *)
(* The streaks are compared with their thresholds and nothing else, so     *)
(* they are not counted beyond them.  Intervals, jitter and backoff only   *)
(* say how long a worker waits.                                            *)
(***************************************************************************)
EXTENDS Integers, Sequences, SequencesExt

CONSTANTS
    Nodes,
    Probed,        \* the nodes that main probes at startup
    MaxWorkers     \* bound on the workers ever started

ASSUME ProbedAssumption == Probed \subseteq Nodes
ASSUME MaxWorkersAssumption == MaxWorkers \in Nat

FailThreshold == 3
SuccessThreshold == 2
LatencyBreachThreshold == 3

\* What a check can find: an error, or an answer within latencyThresholdMs or
\* not.
Results == {"fail", "slow", "fast"}

States == {"unavailable", "degraded", "ready"}

NodeStatus == [state : States, successRun : 0..SuccessThreshold,
               failureRun : 0..FailThreshold, latencyBreaches : 0..LatencyBreachThreshold]

VARIABLES
    states,      \* node -> NodeStatus, for the nodes that have an entry
    current,     \* node -> its worker in Monitor.workers, or 0
    started,     \* how many workers were ever started
    node,        \* worker -> the node it checks
    pc,          \* worker -> "waiting", "checking", "posting" or "ended"
    cancelled,   \* the workers whose context is cancelled
    result,      \* worker -> the result that it is about to post
    answer,      \* node -> what its provider answers at present
    toProbe,     \* the nodes whose startup probe is still to come
    posted       \* history: node -> its latest results, since it was added or
                 \*   removed, its startup probe among them

workers == <<node, pc, result>>
vars == <<states, current, started, workers, cancelled, answer, toProbe, posted>>

Started == 1..started

Init ==
    /\ states = <<>>
    /\ current = [n \in Nodes |-> 0]
    /\ started = 0
    /\ node = <<>> /\ pc = <<>> /\ result = <<>>
    /\ cancelled = {}
    /\ answer \in [Nodes -> Results]
    /\ toProbe = Probed
    /\ posted = [n \in Nodes |-> <<>>]

HasEntry(n) == n \in DOMAIN states

\* IsReady: what the router asks.
IsReady(n) == HasEntry(n) /\ states[n].state = "ready"

-----------------------------------------------------------------------------
(* What a result makes of the status of its node *)

NewStatus == [state |-> "unavailable", successRun |-> 0, failureRun |-> 0,
              latencyBreaches |-> 0]

OneMore(run, threshold) == IF run < threshold THEN run + 1 ELSE run

Failed(s) ==
    LET failures == OneMore(s.failureRun, FailThreshold)
    IN  [s EXCEPT !.failureRun = failures,
                  !.successRun = 0,
                  !.latencyBreaches = 0,
                  !.state = IF failures >= FailThreshold THEN "unavailable" ELSE @]

\* Mutant: a node that turns degraded keeps its run of successes.
SlowKeepsRun(s) ==
    LET breaches == OneMore(s.latencyBreaches, LatencyBreachThreshold)
    IN  [s EXCEPT !.failureRun = 0,
                  !.latencyBreaches = breaches,
                  !.successRun = OneMore(@, SuccessThreshold),
                  !.state = IF breaches >= LatencyBreachThreshold THEN "degraded" ELSE @]

Slow(s) ==
    LET breaches == OneMore(s.latencyBreaches, LatencyBreachThreshold)
        degraded == breaches >= LatencyBreachThreshold
    IN  [s EXCEPT !.failureRun = 0,
                  !.latencyBreaches = breaches,
                  !.successRun = IF degraded THEN 0 ELSE OneMore(@, SuccessThreshold),
                  !.state = IF degraded THEN "degraded" ELSE @]

Fast(s) ==
    LET successes == OneMore(s.successRun, SuccessThreshold)
    IN  [s EXCEPT !.failureRun = 0,
                  !.latencyBreaches = 0,
                  !.successRun = successes,
                  !.state = IF successes >= SuccessThreshold THEN "ready" ELSE @]

Verdict(s, r) == CASE r = "fail" -> Failed(s) [] r = "slow" -> Slow(s) [] OTHER -> Fast(s)

WithStatus(n, s) ==
    states' = [m \in DOMAIN states \cup {n} |-> IF m = n THEN s ELSE states[m]]

\* The history is as long as the longest pattern that a property looks for.
Remember(n, r) ==
    LET p == Append(posted[n], r)
    IN  posted' = [posted EXCEPT ![n] = IF Len(p) > 4 THEN Tail(p) ELSE p]

-----------------------------------------------------------------------------
(* The operations of the Monitor, each under its lock *)

AddNode(n) ==
    /\ current[n] = 0
    /\ started < MaxWorkers
    /\ started' = started + 1
    /\ WithStatus(n, NewStatus)
    /\ current' = [current EXCEPT ![n] = started']
    /\ node' = Append(node, n)
    /\ pc' = Append(pc, "waiting")
    /\ result' = Append(result, "fail")
    /\ posted' = [posted EXCEPT ![n] = <<>>]
    /\ UNCHANGED <<cancelled, answer, toProbe>>

\* Mutant: the worker stays in the table, and the node is never added again.
RemoveNodeKeepsWorker(n) ==
    /\ HasEntry(n) \/ current[n] # 0
    /\ cancelled' = cancelled \cup ({current[n]} \ {0})
    /\ states' = [m \in DOMAIN states \ {n} |-> states[m]]
    /\ posted' = [posted EXCEPT ![n] = <<>>]
    /\ UNCHANGED <<current, started, workers, answer, toProbe>>

RemoveNode(n) ==
    /\ HasEntry(n) \/ current[n] # 0
    /\ cancelled' = cancelled \cup ({current[n]} \ {0})
    /\ current' = [current EXCEPT ![n] = 0]
    /\ states' = [m \in DOMAIN states \ {n} |-> states[m]]
    /\ posted' = [posted EXCEPT ![n] = <<>>]
    /\ UNCHANGED <<started, workers, answer, toProbe>>

MarkedReady(s) == [s EXCEPT !.state = "ready", !.successRun = SuccessThreshold,
                            !.failureRun = 0, !.latencyBreaches = 0]

\* A startup probe ends, and has found the provider up (SetReady) or not.
\* SetReady of a node without an entry does nothing.
ProbeEnds(n) ==
    /\ n \in toProbe
    /\ toProbe' = toProbe \ {n}
    /\ \/ /\ HasEntry(n)
          /\ WithStatus(n, MarkedReady(states[n]))
          /\ Remember(n, "probe")
       \/ UNCHANGED <<states, posted>>
    /\ UNCHANGED <<current, started, workers, cancelled, answer>>

\* The workers end, the states stay.
Stop ==
    /\ cancelled' = cancelled \cup ({current[n] : n \in Nodes} \ {0})
    /\ current' = [n \in Nodes |-> 0]
    /\ UNCHANGED <<states, started, workers, answer, toProbe, posted>>

-----------------------------------------------------------------------------
(* The goroutine of a worker *)

Move(w, l) == pc' = [pc EXCEPT ![w] = l]

\* The wait is over.  If the worker is cancelled while it waits, select may find
\* that the interval is over too, and take either.
Wake(w) ==
    /\ pc[w] = "waiting"
    /\ \/ Move(w, "checking")
       \/ w \in cancelled /\ Move(w, "ended")
    /\ UNCHANGED <<states, current, started, node, result, cancelled, answer, toProbe, posted>>

\* HealthCheck returns; a cancelled context makes it fail.
Check(w) ==
    /\ pc[w] = "checking"
    /\ result' = [result EXCEPT ![w] = IF w \in cancelled THEN "fail" ELSE answer[node[w]]]
    /\ Move(w, "posting")
    /\ UNCHANGED <<states, current, started, node, cancelled, answer, toProbe, posted>>

\* A node without an entry has the zero NodeStatus, which is NewStatus.
StatusOf(n) == IF HasEntry(n) THEN states[n] ELSE NewStatus

\* Back at the wait, a worker that is cancelled ends at once: its next interval
\* has only begun.
Post(w) ==
    LET n == node[w]
    IN  /\ pc[w] = "posting"
        /\ WithStatus(n, Verdict(StatusOf(n), result[w]))
        /\ Remember(n, result[w])
        /\ Move(w, IF w \in cancelled THEN "ended" ELSE "waiting")
        /\ UNCHANGED <<current, started, node, cancelled, result, answer, toProbe>>

Worker(w) == Wake(w) \/ Check(w) \/ Post(w)

ProviderChanges(n) ==
    /\ \E a \in Results \ {answer[n]} : answer' = [answer EXCEPT ![n] = a]
    /\ UNCHANGED <<states, current, started, workers, cancelled, toProbe, posted>>

Next ==
    \/ \E n \in Nodes : AddNode(n) \/ RemoveNode(n) \/ ProbeEnds(n) \/ ProviderChanges(n)
    \/ \E w \in Started : Worker(w)
    \/ Stop

Spec == Init /\ [][Next]_vars

\* A worker goes on checking: every check has a timeout.
FairSpec == Spec /\ \A w \in 1..MaxWorkers : WF_vars(w \in Started /\ Worker(w))
-----------------------------------------------------------------------------
(* Properties *)

\* Hysteresis (2026-04-22-localrouter-design.md:301-304): whatever the order of
\* checks, probes and reloads, a node is found unavailable after three failures
\* in a row, degraded after three slow answers in a row, and ready after two
\* answers, the last of them fast, that have both come since it was degraded.
Earned(p) ==
    [unavailable |-> IsSuffix(<<"fail", "fail", "fail">>, p),
     degraded |-> IsSuffix(<<"slow", "slow", "slow">>, p),
     ready |-> \/ Last(p) = "probe"
               \/ /\ IsSuffix(<<"fast", "fast">>, p) \/ IsSuffix(<<"slow", "fast">>, p)
                  /\ ~IsSuffix(<<"slow", "slow", "slow", "fast">>, p)]

VerdictsEarned ==
    [][\A n \in DOMAIN states \cap DOMAIN states' :
         LET verdict == states'[n].state
         IN  states[n].state # verdict /\ posted'[n] # <<>> => Earned(posted'[n])[verdict]]_vars

\* A node that stays, and whose provider goes on answering in one way, ends up
\* in the state for it, whatever workers of its former lives still post.
StateFor == [fail |-> "unavailable", slow |-> "degraded", fast |-> "ready"]

Settles ==
    \A n \in Nodes : \A a \in Results :
        <>[](current[n] # 0 /\ answer[n] = a)
            => <>[](HasEntry(n) /\ states[n].state = StateFor[a])

-----------------------------------------------------------------------------
(* The inductive invariant behind VerdictsEarned *)

Marks == Results \cup {"probe"}

MonitorTyped ==
    /\ DOMAIN states \subseteq Nodes /\ states \in [DOMAIN states -> NodeStatus]
    /\ started \in Nat
    /\ node \in Seq(Nodes) /\ Len(node) = started
    /\ result \in Seq(Results) /\ Len(result) = started
    /\ answer \in [Nodes -> Results]
    /\ posted \in [Nodes -> Seq(Marks)]
    /\ \A n \in Nodes : Len(posted[n]) <= 4

\* The latest k results are there, and are all in S.
LatestIn(p, k, S) == Len(p) >= k /\ \A i \in 0..(k - 1) : p[Len(p) - i] \in S

\* What the streaks of a status say of the latest results: failures and slow
\* answers were that many in a row, and a node that is not ready only counts
\* successes since it was degraded last.
StreaksTell(s, p) ==
    /\ \A k \in 1..FailThreshold : s.failureRun >= k => LatestIn(p, k, {"fail"})
    /\ \A k \in 1..LatencyBreachThreshold :
          s.latencyBreaches >= k <=> LatestIn(p, k, {"slow"})
    /\ s.state # "ready" /\ s.successRun > 0 =>
          LatestIn(p, 1, {"slow", "fast"}) /\ ~LatestIn(p, LatencyBreachThreshold, {"slow"})

HealthIInv ==
    /\ MonitorTyped
    /\ \A n \in Nodes : StreaksTell(StatusOf(n), posted[n])
    /\ \A n \in Nodes : HasEntry(n) \/ posted[n] = <<>>
=============================================================================
