---------------------------- MODULE HealthMonitor ----------------------------
(***************************************************************************)
(* internal/domain/health/monitor.go: HealthMonitorImpl, which asks the    *)
(* front end for the state of the backends, keeps the last answer, and     *)
(* tells every change to the tablet manager from a goroutine of its own.   *)
(*                                                                         *)
(* Threads: runBackendChecks and runTabletChecks, the callers of           *)
(* ForceRefresh, and the caller of StartMonitoring and StopMonitoring.  A  *)
(* section under hm.mutex is one step, but for StopMonitoring, which keeps *)
(* the mutex while it waits for the two check goroutines.                  *)
(*                                                                         *)
(* Abstracted: what the front end reports (each backend alive, dead or not *)
(* named) and whether the distribution of tablets shows a bad one are open *)
(* choices.  Left out: which front end is asked, alerts, metrics.          *)
(***************************************************************************)
EXTENDS Integers, FiniteSets

CONSTANTS
  Backends,    \* the backends a front end may name
  Refreshers,  \* threads that call ForceRefresh
  CriticalLimit, \* config.CriticalBackendThreshold, percent
  Unhealthy,   \* config.UnhealthyBackendThreshold, percent
  Reports,     \* bound: the answers of the front end, "absent" if not named
  MaxReports,  \* bound: how many answers
  MaxStarts    \* bound: calls of StartMonitoring that start

Known  == {"absent", "alive", "dead"}
Report == [Backends -> Known]

ASSUME MonitorAssumption ==
  /\ IsFiniteSet(Backends) /\ Reports \subseteq Report
  /\ Refreshers \cap {"backends", "tablets"} = {}
  /\ CriticalLimit \in Nat /\ Unhealthy \in Nat
  /\ MaxReports \in Nat /\ MaxStarts \in Nat

VARIABLES
  monitoring,  \* hm.monitoring
  cancelled,   \* the context of the check goroutines is cancelled
  stopping,    \* StopMonitoring waits, holding hm.mutex
  last,        \* hm.lastBackendStates, and the Alive flags of hm.backends
  badTablets,  \* currentMetrics names unhealthy or under-replicated tablets
  health,      \* hm.currentState
  checker,     \* per thread that checks: its program point and the report
  notes,       \* goroutines of handleBackendStateChange not yet running
  told,        \* history: per backend the state in its last note
  sent,        \* history: notes sent so far
  reports,     \* answers of the front end so far
  starts       \* calls of StartMonitoring that started

lifeVars  == <<monitoring, cancelled, stopping, starts>>
stateVars == <<last, badTablets, health>>
noteVars  == <<notes, told, sent>>
monitorVars == <<lifeVars, stateVars, noteVars, checker, reports>>

Checkers == {"backends", "tablets"}
Off      == [at |-> "off", report |-> [b \in Backends |-> "absent"]]
At(c, p) == [checker[c] EXCEPT !.at = p]

-----------------------------------------------------------------------------
(* The cluster's state as hm.backends and the metrics show it.             *)

Named(bs) == {b \in Backends : bs[b] # "absent"}
Alive(bs) == {b \in Backends : bs[b] = "alive"}

\* healthyBackends / totalBackends * 100 against a threshold.
Below(bs, threshold) == 100 * Cardinality(Alive(bs)) < threshold * Cardinality(Named(bs))

Judge(bs, bad) ==
  CASE Named(bs) = {}                      -> "UNKNOWN"
    [] Named(bs) # {} /\ Below(bs, CriticalLimit)  -> "CRITICAL"
    [] Named(bs) # {} /\ ~Below(bs, CriticalLimit) /\ Below(bs, Unhealthy) -> "UNHEALTHY"
    [] OTHER -> IF Alive(bs) # Named(bs) \/ bad THEN "DEGRADED" ELSE "HEALTHY"

-----------------------------------------------------------------------------
(* StartMonitoring and StopMonitoring.                                     *)

StartMonitoring ==
  /\ ~stopping /\ ~monitoring /\ starts < MaxStarts
  /\ monitoring' = TRUE /\ cancelled' = FALSE /\ starts' = starts + 1
  /\ checker' = [checker EXCEPT !["backends"].at = "first", !["tablets"].at = "wait"]
  /\ UNCHANGED <<stopping, stateVars, noteVars, reports>>

\* The mutex is taken and the context cancelled; wg.Wait follows.
StopMonitoring ==
  /\ ~stopping /\ monitoring
  /\ cancelled' = TRUE /\ stopping' = TRUE
  /\ UNCHANGED <<monitoring, starts, stateVars, noteVars, checker, reports>>

\* Mutant: the callers of ForceRefresh are waited for too.
WaitIsOverForAll == \A c \in Checkers \cup Refreshers : checker[c].at = "off"

WaitIsOver == \A c \in Checkers : checker[c].at = "off"

StopReturn ==
  /\ stopping /\ WaitIsOver
  /\ stopping' = FALSE /\ monitoring' = FALSE
  /\ UNCHANGED <<cancelled, starts, stateVars, noteVars, checker, reports>>

-----------------------------------------------------------------------------
(* The checks.  A thread goes query, update, state for the backends, and   *)
(* ask, analyze, judge for the tablets; ForceRefresh does both and         *)
(* computes the state once more.                                           *)

\* One goroutine per round of the ticker, or of ForceRefresh: select takes
\* either ready case, so a tick may be served after the cancellation.
Tick(c) ==
  /\ checker[c].at = "wait"
  /\ checker' = [checker EXCEPT ![c] = At(c, IF c = "backends" THEN "query" ELSE "ask")]
  /\ UNCHANGED <<lifeVars, stateVars, noteVars, reports>>

Leave(c) ==
  /\ checker[c].at = "wait" /\ cancelled
  /\ checker' = [checker EXCEPT ![c] = Off]
  /\ UNCHANGED <<lifeVars, stateVars, noteVars, reports>>

ForceRefresh(f) ==
  /\ checker[f].at = "off" /\ ~stopping /\ monitoring
  /\ checker' = [checker EXCEPT ![f] = At(f, "query")]
  /\ UNCHANGED <<lifeVars, stateVars, noteVars, reports>>

\* executeWithRetry answers nothing once the context is cancelled; a
\* ForceRefresh has a context of its own.
Query(c) ==
  /\ checker[c].at \in {"first", "query"} /\ reports < MaxReports
  /\ c \in Checkers => ~cancelled
  /\ \E r \in Reports : checker' = [checker EXCEPT ![c] = [at |-> "update", report |-> r]]
  /\ reports' = reports + 1
  /\ UNCHANGED <<lifeVars, stateVars, noteVars>>

Ask(c) ==
  /\ checker[c].at = "ask"
  /\ c \in Checkers => ~cancelled
  /\ checker' = [checker EXCEPT ![c] = At(c, "analyze")]
  /\ UNCHANGED <<lifeVars, stateVars, noteVars, reports>>

\* No attempt is answered: a round of the ticker rotates the front end, under
\* hm.mutex; the first check does not, and ForceRefresh returns.
Fail(c) ==
  /\ checker[c].at \in {"first", "query", "ask"}
  /\ checker' = [checker EXCEPT ![c] =
       IF c \in Refreshers THEN Off ELSE At(c, IF @.at = "first" THEN "wait" ELSE "rotate")]
  /\ UNCHANGED <<lifeVars, stateVars, noteVars, reports>>

Rotate(c) ==
  /\ checker[c].at = "rotate" /\ ~stopping
  /\ checker' = [checker EXCEPT ![c] = At(c, "wait")]
  /\ UNCHANGED <<lifeVars, stateVars, noteVars, reports>>

\* The changes against the last answer: a backend known before whose state is
\* another, or that is not named any more.  One that was not known is no
\* change.
Changed(report) == {b \in Named(last) : report[b] # last[b]}

StateIn(report, b) == IF report[b] = "alive" THEN "alive" ELSE "dead"

\* updateBackendHealth, with handleBackendStateChange for every change.
Observe(report) ==
  LET changed == Changed(report)
  IN /\ last' = report
     /\ notes' = notes \cup {[backend |-> b, state |-> StateIn(report, b), n |-> sent + 1] : b \in changed}
     /\ told' = [b \in Backends |-> IF b \in changed THEN StateIn(report, b) ELSE told[b]]
     /\ sent' = IF changed = {} THEN sent ELSE sent + 1

\* Mutant: the cluster's state is not computed anew.
UpdateBackendHealthOnly(c) ==
  /\ checker[c].at = "update" /\ ~stopping
  /\ Observe(checker[c].report)
  /\ checker' = [checker EXCEPT ![c] = [Off EXCEPT !.at = IF c \in Checkers THEN "wait" ELSE "ask"]]
  /\ UNCHANGED <<lifeVars, badTablets, health, reports>>

UpdateBackendHealth(c) ==
  /\ checker[c].at = "update" /\ ~stopping
  /\ Observe(checker[c].report)
  /\ checker' = [checker EXCEPT ![c] = [Off EXCEPT !.at = "state"]]
  /\ UNCHANGED <<lifeVars, badTablets, health, reports>>

AnalyzeTabletDistribution(c) ==
  /\ checker[c].at = "analyze" /\ ~stopping
  /\ badTablets' \in BOOLEAN
  /\ checker' = [checker EXCEPT ![c] = At(c, "judge")]
  /\ UNCHANGED <<lifeVars, last, health, noteVars, reports>>

\* updateHealthState; "state" ends the check of the backends, "judge" that of
\* the tablets, "again" a ForceRefresh.
UpdateHealthState(c) ==
  /\ checker[c].at \in {"state", "judge", "again"} /\ ~stopping
  /\ health' = Judge(last, badTablets)
  /\ checker' = [checker EXCEPT ![c] =
       IF c \in Checkers THEN At(c, "wait")
       ELSE CASE checker[c].at = "state" -> At(c, "ask")
              [] checker[c].at = "judge" -> At(c, "again")
              [] OTHER                   -> Off]
  /\ UNCHANGED <<lifeVars, last, badTablets, noteVars, reports>>

-----------------------------------------------------------------------------
MonitorInit ==
  /\ monitoring = FALSE /\ cancelled = FALSE /\ stopping = FALSE /\ starts = 0
  /\ last = [b \in Backends |-> "absent"] /\ badTablets = FALSE /\ health = "UNKNOWN"
  /\ checker = [c \in Checkers \cup Refreshers |-> Off]
  /\ notes = {} /\ told = [b \in Backends |-> "absent"] /\ sent = 0 /\ reports = 0

CheckStep(c) ==
  \/ Tick(c) \/ Leave(c) \/ Query(c) \/ Ask(c) \/ Fail(c) \/ Rotate(c)
  \/ UpdateBackendHealth(c) \/ AnalyzeTabletDistribution(c) \/ UpdateHealthState(c)

MonitorNext ==
  \/ StartMonitoring \/ StopMonitoring \/ StopReturn
  \/ \E c \in Checkers \cup Refreshers : CheckStep(c)
  \/ \E f \in Refreshers : ForceRefresh(f)

\* The goroutines run, and select serves a cancelled context in the end; the
\* front end need not answer, but a request ends.
MonitorFairness ==
  /\ WF_monitorVars(StopReturn)
  /\ \A c \in Checkers : WF_monitorVars(CheckStep(c)) /\ SF_monitorVars(Leave(c))

-----------------------------------------------------------------------------
MonitorTypeOK ==
  /\ monitoring \in BOOLEAN /\ cancelled \in BOOLEAN /\ stopping \in BOOLEAN
  /\ last \in Report /\ told \in Report /\ badTablets \in BOOLEAN
  /\ health \in {"UNKNOWN", "CRITICAL", "UNHEALTHY", "DEGRADED", "HEALTHY"}
  /\ checker \in [Checkers \cup Refreshers ->
       [at : {"off", "wait", "first", "query", "ask", "rotate", "update", "analyze", "state", "judge", "again"},
        report : Report]]
  /\ notes \subseteq [backend : Backends, state : {"alive", "dead"}, n : 1..sent]
  /\ sent \in 0..MaxReports /\ reports \in 0..MaxReports /\ starts \in 0..MaxStarts

\* The cluster's published state is the one its backends and tablets show,
\* but between the two sections of a check (the update and updateHealthState
\* take the mutex apart, and two checks may be between them at once).
HealthIsCurrent ==
  (\A c \in Checkers \cup Refreshers : checker[c].at \notin {"state", "judge", "again"})
    => health = Judge(last, badTablets)

\* StopMonitoring returns when both check goroutines wait for their tickers
\* (or have left) as it begins to wait, and neither serves one more tick: a
\* goroutine that is anywhere else needs the mutex that StopMonitoring holds.
Stopping == stopping /\ \A c \in Checkers : checker[c].at \in {"wait", "off"}
=============================================================================
