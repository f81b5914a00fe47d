----------------------------- MODULE ReportState -----------------------------
(***************************************************************************)
(* The StateManager (internal/state/report_state.go) behind GET /report:   *)
(* requests record their outcomes under its RWMutex, and handleReport      *)
(* reads it in two critical sections, the list of the providers            *)
(* (GetAllProviderStates), then the totals (GetGlobalState).  Each section *)
(* holds the read lock, and determineStatus takes it once more for every   *)
(* provider.                                                               *)
(*                                                                         *)
(* The lock is Go's: a writer that waits announces itself, and from then   *)
(* on no reader gets in until it has had its turn.                         *)
(*                                                                         *)
(* The blocked and exhausted maps of the StateManager are never written    *)
(* (the routing decisions use the other manager), and no probe is recorded *)
(* as successful, so a probe result is a failed one or absent.             *)
(***************************************************************************)
EXTENDS Integers, FiniteSetsExt

CONSTANTS
    Providers,
    Requests,      \* goroutines that record outcomes
    Reporters,     \* goroutines in handleReport
    Nobody,        \* no writer
    MaxRecords     \* bound on the outcomes recorded

ASSUME ProvidersAssumption == IsFiniteSet(Providers)
ASSUME NobodyAssumption == Nobody \notin Requests
ASSUME MaxRecordsAssumption == MaxRecords \in Nat

VARIABLES
    total,         \* provider -> [requests, failures]: metrics
    probeFailed,   \* the providers with a (failed) probe result
    lastError,     \* provider -> LastError.Type of its outcome
    recorded,      \* how many outcomes have been recorded
    writer,        \* the request in Lock(), waiting or about to write
    section,       \* reporter -> "idle", "list", "between", "totals", "done"
    todo,          \* reporter -> the providers its section has still to visit
    rows,          \* reporter -> its list: provider -> row, for those visited
    header,        \* reporter -> its totals
    asOf           \* reporter -> value of recorded when its list was begun

store == <<total, probeFailed, lastError, recorded>>
reader == <<section, todo, rows, header, asOf>>
vars == <<store, writer, reader>>

\* Kinds of failure: 404 and 405, 429, and the others (timeout, 5xx, empty).
Errors == {"misconfigured", "rate_limit", "other"}

NoTotals == [requests |-> 0, failures |-> 0, active |-> 0, blocked |-> 0]

Init ==
    /\ total = [p \in Providers |-> [requests |-> 0, failures |-> 0]]
    /\ probeFailed = {}
    /\ lastError = [p \in Providers |-> "none"]
    /\ recorded = 0
    /\ writer = Nobody
    /\ section = [r \in Reporters |-> "idle"]
    /\ todo = [r \in Reporters |-> {}]
    /\ rows = [r \in Reporters |-> <<>>]
    /\ header = [r \in Reporters |-> NoTotals]
    /\ asOf = [r \in Reporters |-> 0]

\* The entries of sm.metrics: made by the first outcome.
Known == {p \in Providers : total[p].requests + total[p].failures > 0}

\* The lock is held for reading.
Readers == {r \in Reporters : section[r] \in {"list", "totals"}}

-----------------------------------------------------------------------------
(* Recording *)

\* sm.mu.Lock(): from here on RLock() waits.
Announce(q) ==
    /\ writer = Nobody
    /\ recorded < MaxRecords
    /\ writer' = q
    /\ UNCHANGED <<store, reader>>

RecordRequestSuccess(p) ==
    /\ total' = [total EXCEPT ![p].requests = @ + 1]
    /\ UNCHANGED <<probeFailed, lastError>>

RecordRequestFailure(p) ==
    /\ total' = [total EXCEPT ![p].failures = @ + 1]
    /\ \E e \in Errors : lastError' = [lastError EXCEPT ![p] = e]
    /\ UNCHANGED probeFailed

\* Follows the failure of a request to a remote provider; a stream that breaks
\* off in its first chunk records this alone (router.go:353-355).
RecordProbeResult(p) ==
    /\ probeFailed' = probeFailed \cup {p}
    /\ UNCHANGED <<total, lastError>>

\* Mutant: the outcomes are written without waiting for the readers.
RecordUnlocked(q) ==
    /\ writer = q
    /\ \E p \in Providers : RecordRequestSuccess(p) /\ recorded' = recorded + 1
    /\ writer' = Nobody
    /\ UNCHANGED reader

\* The writer writes when the readers have left.
Record(q) ==
    /\ writer = q
    /\ Readers = {}
    /\ \E p \in Providers :
          \/ RecordRequestSuccess(p) /\ recorded' = recorded + 1
          \/ RecordRequestFailure(p) /\ recorded' = recorded + 1
          \/ RecordProbeResult(p) /\ UNCHANGED recorded
    /\ writer' = Nobody
    /\ UNCHANGED reader

-----------------------------------------------------------------------------
(* Reporting *)

\* determineStatus: what the outcome says, unless there is a probe result.
ByOutcome(p) ==
    CASE lastError[p] = "none" -> "healthy"
      [] lastError[p] = "misconfigured" -> "misconfigured"
      [] lastError[p] = "rate_limit" -> "blocked"
      [] OTHER -> "degraded"

\* determineStatus as GetGlobalState calls it: a probe result counts before the
\* outcome.
Status(p) == IF p \in probeFailed THEN "unreachable" ELSE ByOutcome(p)

Down(p) == Status(p) \in {"blocked", "unreachable"}

\* RLock() at the start of a section.
Enter(r, from, to) ==
    /\ section[r] = from
    /\ writer = Nobody
    /\ section' = [section EXCEPT ![r] = to]
    /\ todo' = [todo EXCEPT ![r] = Known]

BeginList(r) ==
    /\ Enter(r, "idle", "list")
    /\ rows' = [rows EXCEPT ![r] = <<>>]
    /\ asOf' = [asOf EXCEPT ![r] = recorded]
    /\ UNCHANGED <<store, writer, header>>

\* One provider: the second RLock(), of determineStatus, waits for a writer.
Visit(r, in, p) ==
    /\ section[r] = in
    /\ p \in todo[r]
    /\ writer = Nobody
    /\ todo' = [todo EXCEPT ![r] = @ \ {p}]
    /\ UNCHANGED <<store, writer, section, asOf>>

VisitRow(r) == \E p \in Providers :
    /\ Visit(r, "list", p)
    /\ rows' = [rows EXCEPT ![r] = [x \in DOMAIN @ \cup {p} |->
                                       IF x = p THEN total[p] ELSE @[x]]]
    /\ UNCHANGED header

\* Mutant: GetGlobalState counts the providers that are up only.
VisitTotalsUp(r) == \E p \in Providers :
    /\ Visit(r, "totals", p)
    /\ header' = IF Down(p)
                 THEN [header EXCEPT ![r].blocked = @ + 1]
                 ELSE [header EXCEPT ![r].requests = @ + total[p].requests,
                                     ![r].failures = @ + total[p].failures,
                                     ![r].active = @ + 1]
    /\ UNCHANGED rows

VisitTotals(r) == \E p \in Providers :
    /\ Visit(r, "totals", p)
    /\ header' = [header EXCEPT
              ![r].requests = @ + total[p].requests,
              ![r].failures = @ + total[p].failures,
              ![r].blocked = @ + (IF Down(p) THEN 1 ELSE 0),
              ![r].active = @ + (IF Down(p) THEN 0 ELSE 1)]
    /\ UNCHANGED rows

\* RUnlock() at the end of a section.
Leave(r, from, to) ==
    /\ section[r] = from
    /\ todo[r] = {}
    /\ section' = [section EXCEPT ![r] = to]
    /\ UNCHANGED <<store, writer, todo, rows, header, asOf>>

BeginTotals(r) ==
    /\ Enter(r, "between", "totals")
    /\ header' = [header EXCEPT ![r] = NoTotals]
    /\ UNCHANGED <<store, writer, rows, asOf>>

\* The page is written; the next request for it starts again.
Answer(r) ==
    /\ section[r] = "done"
    /\ section' = [section EXCEPT ![r] = "idle"]
    /\ UNCHANGED <<store, writer, todo, rows, header, asOf>>

HandleReport(r) ==
    \/ BeginList(r) \/ VisitRow(r) \/ Leave(r, "list", "between")
    \/ BeginTotals(r) \/ VisitTotals(r) \/ Leave(r, "totals", "done")
    \/ Answer(r)

Next ==
    \/ \E q \in Requests : Announce(q) \/ Record(q)
    \/ \E r \in Reporters : HandleReport(r)

Spec == Init /\ [][Next]_vars

\* Whoever holds the lock, or can get it, is scheduled in the end.
FairSpec ==
    /\ Spec
    /\ \A q \in Requests : WF_vars(Record(q))
    /\ \A r \in Reporters : WF_vars(HandleReport(r))
-----------------------------------------------------------------------------
(* Properties *)

\* What the counts of each provider add up to, and those of a set of them.
Outcomes(counts) == [p \in DOMAIN counts |-> counts[p].requests + counts[p].failures]

SumOver(f, S) == MapThenSumSet(LAMBDA p : f[p], S)

RowsTotal(r) == SumOver(Outcomes(rows[r]), DOMAIN rows[r])

\* The list of a report shows one moment: its rows add up to the outcomes that
\* had been recorded when it was begun, none of a request in between.
RowsOfOneMoment ==
    \A r \in Reporters : section[r] \in {"between", "totals", "done"} => RowsTotal(r) = asOf[r]

\* The totals are of a later moment than the list (handlers.go:190, 208), so
\* the page never shows a sum that is less than what its rows add up to.
TotalsCoverRows ==
    \A r \in Reporters :
        section[r] = "done" => header[r].requests + header[r].failures >= RowsTotal(r)

\* report_state.go:482, "returns provider state without locking (caller must
\* lock)": once a report has the lock, its list comes to an end.
ListEnds == \A r \in Reporters : (section[r] = "list") ~> (section[r] # "list")

-----------------------------------------------------------------------------
(* The inductive invariant *)

Counts == [requests : Nat, failures : Nat]

TypeOK ==
    /\ total \in [Providers -> Counts]
    /\ probeFailed \subseteq Providers
    /\ lastError \in [Providers -> Errors \cup {"none"}]
    /\ recorded \in Nat
    /\ writer \in Requests \cup {Nobody}
    /\ section \in [Reporters -> {"idle", "list", "between", "totals", "done"}]
    /\ todo \in [Reporters -> SUBSET Providers]
    /\ rows = [r \in Reporters |-> rows[r]]
    /\ \A r \in Reporters : /\ rows[r] \in [DOMAIN rows[r] -> Counts]
                            /\ DOMAIN rows[r] \subseteq Providers
    /\ header \in [Reporters -> [requests : Nat, failures : Nat, active : Nat, blocked : Nat]]
    /\ asOf \in [Reporters -> Nat]

AllCounted == SumOver(Outcomes(total), Providers) = recorded

\* While a list is made, nothing is recorded: a row that is made is up to date,
\* and each provider has its row or is still to be visited.
ListOfNow ==
    \A r \in Reporters : section[r] = "list" =>
        /\ asOf[r] = recorded
        /\ DOMAIN rows[r] \cup todo[r] = Known
        /\ DOMAIN rows[r] \cap todo[r] = {}
        /\ \A p \in DOMAIN rows[r] : rows[r][p] = total[p]

\* While the totals are made: what they lack is what is still to be visited.
TotalsOfNow ==
    \A r \in Reporters : section[r] = "totals" =>
        header[r].requests + header[r].failures + SumOver(Outcomes(total), todo[r]) = recorded

TotalsLater ==
    \A r \in Reporters :
        /\ asOf[r] <= recorded
        /\ section[r] = "done" => header[r].requests + header[r].failures >= asOf[r]

ReportIInv ==
    TypeOK /\ AllCounted /\ ListOfNow /\ RowsOfOneMoment /\ TotalsOfNow /\ TotalsLater
=============================================================================
