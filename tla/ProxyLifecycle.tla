---------------------------- MODULE ProxyLifecycle ----------------------------
(***************************************************************************)
(* How the process starts and stops.  ProxyInit and ProxyNext: the proxy   *)
(* (core/proxy/proxy.go), whose Start launches goroutines counted by       *)
(* shutdownWg and whose Stop ends them; WaitForShutdown waits for both.    *)
(* MainInit and MainNext: main (cmd/staravail/main.go), which starts four  *)
(* components in goroutines of their own and stops them in reverse.        *)
(*                                                                         *)
(* Start runs once.  The shutdown channel is closed once: a second run of  *)
(* Stop, possible when Start ends after Stop, would close it again and     *)
(* panic, and is not taken further.                                        *)
(***************************************************************************)
EXTENDS Integers, Sequences

VARIABLES
    proxyStatus,
    startAt, stopAt,    \* the next step of Start and of Stop
    signalled,          \* the signal goroutine runs Stop
    on,                 \* the components that run
    httpServer,         \* "none", "created", "serving" or "shutdown"
    shutdownWg,         \* the goroutines it counts
    ctxDone,
    shutdownClosed,     \* shutdownCh
    waiter,             \* WaitForShutdown of ProxyServer.Run
    overlap             \* Stop began before Start had ended

proxyVars == <<proxyStatus, startAt, stopAt, signalled, on, httpServer, shutdownWg, ctxDone,
               shutdownClosed, waiter, overlap>>

\* The steps of Start; the first three are startComponents, where the MySQL server is not started.
StartSteps == <<"metrics_registry", "health_monitor", "api_router", "http", "mysql", "metrics",
                "signals", "running">>
StopSteps == <<"cancel", "http", "mysql_server", "health_monitor", "metrics_registry", "close">>

After(steps, s) ==
    LET i == CHOOSE i \in DOMAIN steps : steps[i] = s
    IN  IF i = Len(steps) THEN "done" ELSE steps[i + 1]

StartBegin ==
    /\ startAt = "idle"
    /\ proxyStatus' = "starting" /\ startAt' = StartSteps[1]
    /\ UNCHANGED <<stopAt, signalled, on, httpServer, shutdownWg, ctxDone, shutdownClosed, waiter, overlap>>

\* A component fails: what was started before it keeps running.
StartComponent ==
    /\ startAt \in {"metrics_registry", "health_monitor", "api_router"}
    /\ \/ /\ startAt' = After(StartSteps, startAt)
          /\ on' = on \cup ({startAt} \ {"api_router"})
          /\ UNCHANGED proxyStatus
       \/ /\ startAt' = "failed" /\ proxyStatus' = "error"
          /\ UNCHANGED on
    /\ UNCHANGED <<stopAt, signalled, httpServer, shutdownWg, ctxDone, shutdownClosed, waiter, overlap>>

\* Launches one goroutine; startHealthMonitor only registers a check.
Launch ==
    /\ startAt \in {"http", "mysql", "metrics", "signals"}
    /\ startAt' = After(StartSteps, startAt)
    /\ shutdownWg' = shutdownWg \cup {startAt}
    /\ httpServer' = IF startAt = "http" THEN "created" ELSE httpServer
    /\ UNCHANGED <<proxyStatus, stopAt, signalled, on, ctxDone, shutdownClosed, waiter, overlap>>

\* Whatever Stop has done meanwhile.
SetRunning ==
    /\ startAt = "running"
    /\ startAt' = "done" /\ proxyStatus' = "running" /\ waiter' = "waiting"
    /\ UNCHANGED <<stopAt, signalled, on, httpServer, shutdownWg, ctxDone, shutdownClosed, overlap>>
------------------------------------------------------------------------------
Exit(g) == shutdownWg' = shutdownWg \ {g}

\* ListenAndServe returns an error, which is logged, or serves until Shutdown.
HTTPGoroutine ==
    /\ "http" \in shutdownWg
    /\ \/ httpServer = "created" /\ httpServer' = "serving" /\ UNCHANGED shutdownWg
       \/ httpServer = "created" /\ Exit("http") /\ UNCHANGED httpServer
       \/ httpServer = "shutdown" /\ Exit("http") /\ UNCHANGED httpServer
    /\ UNCHANGED <<proxyStatus, startAt, stopAt, signalled, on, ctxDone, shutdownClosed, waiter, overlap>>

\* The MySQL server starts, even if it was stopped before, or fails.
MySQLGoroutine ==
    /\ "mysql" \in shutdownWg /\ Exit("mysql")
    /\ on' \in {on, on \cup {"mysql_server"}}
    /\ UNCHANGED <<proxyStatus, startAt, stopAt, signalled, httpServer, ctxDone, shutdownClosed, waiter, overlap>>

MetricsGoroutine ==
    /\ "metrics" \in shutdownWg /\ ctxDone /\ Exit("metrics")
    /\ UNCHANGED <<proxyStatus, startAt, stopAt, signalled, on, httpServer, ctxDone, shutdownClosed, waiter, overlap>>

\* Between two signals the goroutine sees that the context is done.
SignalGoroutine ==
    /\ "signals" \in shutdownWg /\ ctxDone /\ ~signalled /\ Exit("signals")
    /\ UNCHANGED <<proxyStatus, startAt, stopAt, signalled, on, httpServer, ctxDone, shutdownClosed, waiter, overlap>>
------------------------------------------------------------------------------
\* Stop by the signal goroutine or by another caller; a second one returns at once.
StopBegin ==
    /\ proxyStatus \notin {"stopping", "stopped"} /\ stopAt = "idle" /\ startAt # "idle"
    /\ proxyStatus' = "stopping" /\ stopAt' = StopSteps[1]
    /\ signalled' \in {b \in BOOLEAN : b => "signals" \in shutdownWg}
    /\ overlap' = (startAt \notin {"done", "failed"})
    /\ UNCHANGED <<startAt, on, httpServer, shutdownWg, ctxDone, shutdownClosed, waiter>>

\* The mutant that cancels only when a signal asked for the stop.
CancelsOnSignal == ctxDone' = signalled

Cancels == ctxDone' = TRUE

StopCancel ==
    /\ stopAt = "cancel"
    /\ Cancels /\ stopAt' = After(StopSteps, stopAt)
    /\ UNCHANGED <<proxyStatus, startAt, signalled, on, httpServer, shutdownWg, shutdownClosed, waiter, overlap>>

\* Shutdown gives up waiting for requests after 30 s; the listener is closed at once.
StopHTTP ==
    /\ stopAt = "http" /\ stopAt' = After(StopSteps, stopAt)
    /\ httpServer' = IF httpServer = "none" THEN "none" ELSE "shutdown"
    /\ UNCHANGED <<proxyStatus, startAt, signalled, on, shutdownWg, ctxDone, shutdownClosed, waiter, overlap>>

\* An error is logged.  A component's Stop is assumed to return: see ProxyFairness.
StopComponent ==
    /\ stopAt \in {"mysql_server", "health_monitor", "metrics_registry"}
    /\ stopAt' = After(StopSteps, stopAt) /\ on' \in {on, on \ {stopAt}}
    /\ UNCHANGED <<proxyStatus, startAt, signalled, httpServer, shutdownWg, ctxDone, shutdownClosed, waiter, overlap>>

StopClose ==
    /\ stopAt = "close"
    /\ shutdownClosed' = TRUE /\ proxyStatus' = "stopped" /\ stopAt' = "done"
    /\ shutdownWg' = IF signalled THEN shutdownWg \ {"signals"} ELSE shutdownWg
    /\ UNCHANGED <<startAt, signalled, on, httpServer, ctxDone, waiter, overlap>>

WaitForShutdown ==
    /\ waiter = "waiting" /\ shutdownClosed /\ shutdownWg = {}
    /\ waiter' = "returned"
    /\ UNCHANGED <<proxyStatus, startAt, stopAt, signalled, on, httpServer, shutdownWg, ctxDone, shutdownClosed, overlap>>

ProxyInit ==
    /\ proxyStatus = "initializing" /\ startAt = "idle" /\ stopAt = "idle" /\ signalled = FALSE
    /\ on = {} /\ httpServer = "none" /\ shutdownWg = {} /\ ctxDone = FALSE
    /\ shutdownClosed = FALSE /\ waiter = "none" /\ overlap = FALSE

ProxyStep ==
    \/ StartComponent \/ Launch \/ SetRunning
    \/ HTTPGoroutine \/ MySQLGoroutine \/ MetricsGoroutine \/ SignalGoroutine
    \/ StopCancel \/ StopHTTP \/ StopComponent \/ StopClose \/ WaitForShutdown

ProxyNext == StartBegin \/ StopBegin \/ ProxyStep

\* Whatever has been started goes on; nobody is obliged to start or to stop the proxy.  That the
\* Stops of its components return is assumed: of the MySQL server's and the health monitor's,
\* their own modules say when they do not.
ProxyFairness == WF_proxyVars(ProxyStep)

(* A stop of the started proxy ends every goroutine that WaitForShutdown   *)
(* waits for, so that Run returns: whatever the HTTP and the MySQL         *)
(* goroutine have done by then, and whoever asked for the stop.            *)
ProxyStopping == startAt = "done" /\ stopAt # "idle" /\ ~overlap /\ waiter # "returned"
------------------------------------------------------------------------------
VARIABLES
    mainAt,             \* "sleep", "serving", "stop" or "exit"
    component,          \* per component, in the order of the list
    mainCtxDone,
    clientOpen

mainVars == <<mainAt, component, mainCtxDone, clientOpen>>

\* The health monitor, the proxy core, the HTTP server, the MySQL server.
Components == 1..4

MainInit ==
    /\ mainAt = "sleep" /\ component = [i \in Components |-> "starting"]
    /\ mainCtxDone = FALSE /\ clientOpen = TRUE

\* A start that ends after its stop leaves the component running: "late".
ComponentStarts(i) ==
    /\ component[i] \in {"starting", "unstarted"} /\ mainAt # "exit"
    /\ \/ /\ component' = [component EXCEPT ![i] = IF @ = "starting" THEN "running" ELSE "late"]
          /\ UNCHANGED mainCtxDone
       \/ /\ component' = [component EXCEPT ![i] = IF @ = "starting" THEN "failed" ELSE "stopped"]
          /\ mainCtxDone' = TRUE
    /\ UNCHANGED <<mainAt, clientOpen>>

\* Half a second after the launch; a later failure is only logged.
AfterSleep ==
    /\ mainAt = "sleep"
    /\ mainAt' = IF mainCtxDone THEN "exit" ELSE "serving"
    /\ UNCHANGED <<component, mainCtxDone, clientOpen>>

ReceiveSignal ==
    /\ mainAt = "serving" /\ mainAt' = "stop"
    /\ UNCHANGED <<component, mainCtxDone, clientOpen>>

\* The mutant whose loop ends before the first component.
LeftToStopButFirst == {i \in Components \ {1} : component[i] \in {"starting", "running", "failed"}}

\* The loop counts down over all of the list, whatever has come of the starts.
LeftToStop == {i \in Components : component[i] \in {"starting", "running", "failed"}}

\* A stop that reports an error is logged and the loop goes on: the component may run on,
\* "unstopped".  A stopper that does not return holds the loop where it is.
Outcomes(state) ==
    CASE state = "starting" -> {"unstarted"}
      [] state = "running" -> {"stopped", "unstopped"}
      [] OTHER -> {"stopped"}

StopNext ==
    /\ mainAt = "stop" /\ LeftToStop # {}
    /\ LET i == CHOOSE i \in LeftToStop : \A j \in LeftToStop : j <= i
       IN  \E outcome \in Outcomes(component[i]) : component' = [component EXCEPT ![i] = outcome]
    /\ UNCHANGED <<mainAt, mainCtxDone, clientOpen>>

CloseStarRocksClient ==
    /\ mainAt = "stop" /\ LeftToStop = {}
    /\ clientOpen' = FALSE /\ mainAt' = "exit"
    /\ UNCHANGED <<component, mainCtxDone>>

MainNext ==
    \/ \E i \in Components : ComponentStarts(i)
    \/ AfterSleep \/ ReceiveSignal \/ StopNext \/ CloseStarRocksClient

(* While a component runs whose stop has not returned, no stop of one      *)
(* listed before it has, and the client is open: a component is outlived   *)
(* by those it builds on, unless its stop failed or came before its start  *)
(* had ended, and it runs on.                                              *)
StopsInReverse ==
    \A i \in Components : component[i] = "running" =>
        /\ clientOpen
        /\ \A j \in Components : j < i => component[j] \notin {"stopped", "unstopped", "unstarted", "late"}
==============================================================================
