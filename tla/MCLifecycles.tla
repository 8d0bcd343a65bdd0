----------------------------- MODULE MCLifecycles -----------------------------
(***************************************************************************)
(* The components that are started, run in the background and are stopped, *)
(* side by side: "part" chooses the one that runs, the others stay in      *)
(* their initial state.  No action that fairness is asked of is enabled    *)
(* there (of the aggregators' initial states, the one without a batch is   *)
(* taken), so that a part that stands still breaks no fairness.            *)
(***************************************************************************)
EXTENDS BatchAggregator, MySQLServer, TLC

CONSTANTS
  m1,  \* the only message: it does not fill a batch
  HealthCallers, Scopes, Subscribers, Filters, ChannelSize, MaxHistory, MaxHealthCalls,
  Backends, Refreshers, CriticalLimit, Unhealthy, Reports, MaxReports, MaxStarts

VARIABLES
  part,
  healthCall, healthHistory, issues, issuesMutex, lastHealthStatus, subscription, healthClock, made,
  monitoring, monitorCancelled, stopping, last, badTablets, health, checker, notes, told, sent,
  reports, starts,
  proxyStatus, startAt, stopAt, signalled, on, httpServer, shutdownWg, ctxDone, shutdownClosed,
  waiter, overlap, mainAt, component, mainCtxDone, clientOpen,
  monitorRunning, monitorCtxDone, monitorLoop, monitorStop, loadMutex

healthServiceVars == <<healthCall, healthHistory, issues, issuesMutex, lastHealthStatus, subscription,
                       healthClock, made>>
monitorVars == <<monitoring, monitorCancelled, stopping, last, badTablets, health, checker, notes, told,
                 sent, reports, starts>>
proxyVars == <<proxyStatus, startAt, stopAt, signalled, on, httpServer, shutdownWg, ctxDone, shutdownClosed,
               waiter, overlap>>
mainVars == <<mainAt, component, mainCtxDone, clientOpen>>
loadVars == <<monitorRunning, monitorCtxDone, monitorLoop, monitorStop, loadMutex>>

vars == <<part, aggregatorVars, serverVars, healthServiceVars, monitorVars, proxyVars, mainVars, loadVars>>

S == INSTANCE HealthService
M == INSTANCE HealthMonitor WITH cancelled <- monitorCancelled
Y == INSTANCE ProxyLifecycle
L == INSTANCE PerformanceMonitor

\* What the monitor assumes of its constants.
ASSUME LifecycleAssumption == M!MonitorAssumption

-----------------------------------------------------------------------------
MCKey     == m1 :> "k1"
MCSize    == m1 :> 1
MCFilters == {[scopes |-> {}, targets |-> {}, levels |-> {}, types |-> {}],
              [scopes |-> {"tablet"}, targets |-> {"*"}, levels |-> {3, 4}, types |-> {"issue_detected"}]}
MCReports == {[b \in Backends |-> "alive"], [b \in Backends |-> "dead"]}

Init ==
  /\ part \in {"aggregator", "server", "health", "monitor", "proxy", "main", "load"}
  /\ AggregatorInit /\ (part # "aggregator" => multi)
  /\ ServerInit /\ S!HealthServiceInit /\ M!MonitorInit /\ Y!ProxyInit /\ Y!MainInit /\ L!LoadInit

Next ==
  /\ UNCHANGED part
  /\ IF part = "aggregator" THEN AggregatorNext ELSE UNCHANGED aggregatorVars
  /\ IF part = "server" THEN ServerNext ELSE UNCHANGED serverVars
  /\ IF part = "health" THEN S!HealthServiceNext ELSE UNCHANGED healthServiceVars
  /\ IF part = "monitor" THEN M!MonitorNext ELSE UNCHANGED monitorVars
  /\ IF part = "proxy" THEN Y!ProxyNext ELSE UNCHANGED proxyVars
  /\ IF part = "main" THEN Y!MainNext ELSE UNCHANGED mainVars
  /\ IF part = "load" THEN L!LoadNext ELSE UNCHANGED loadVars

Fairness ==
  /\ AggregatorFairness /\ ServerFairness /\ S!HealthServiceFairness /\ M!MonitorFairness
  /\ Y!ProxyFairness /\ L!LoadFairness

Spec == Init /\ [][Next]_vars /\ Fairness

-----------------------------------------------------------------------------
(* MySQL server: the counter covers the handlers, and a handle stands for  *)
(* the statement it was given for.                                         *)
SessionsAreCounted == ServerTypeOK /\ CountCoversHandlers /\ HandlesDenote

(* Health monitor and health service: what is published is what was last   *)
(* observed, and at least as bad as each of the findings.                  *)
HealthIsJudged == M!HealthIsCurrent /\ S!LevelCoversFindings

(* main stops its components in the reverse of the order of their start:   *)
(* one whose stop has not returned is outlived by those listed before it.  *)
StopsInReverse == Y!StopsInReverse

(* Every Stop returns, but in the cases its component's module names.  As  *)
(* one component runs at a time, the four properties of the modules are    *)
(* one.                                                                    *)
Stopping    == ServerStopping \/ M!Stopping \/ Y!ProxyStopping \/ L!MonitorStopping
StopsReturn == Stopping ~> ~Stopping

(* A health call returns, unless some call finds a level that is not       *)
(* normal: ReportHealthIssue waits for the mutex that it holds.            *)
HealthyCallsReturn == S!HealthyCallsReturn
=============================================================================
