-------------------------- MODULE PerformanceMonitor --------------------------
(***************************************************************************)
(* PerformanceMonitor of batch/strategy.go: a loop that measures the load  *)
(* for the adaptive strategies, from Start to Stop.                        *)
(***************************************************************************)
VARIABLES
    monitorRunning, monitorCtxDone,
    monitorLoop,        \* "none", "wait", "measured" or "ended"
    monitorStop,        \* "idle" or "waiting"
    loadMutex           \* "free", or held by Stop

loadVars == <<monitorRunning, monitorCtxDone, monitorLoop, monitorStop, loadMutex>>

\* A second Start after a Stop runs a loop that ends at once: the context stays done.
StartMonitor ==
    /\ ~monitorRunning /\ loadMutex = "free" /\ monitorLoop \in {"none", "ended"} /\ monitorStop = "idle"
    /\ monitorRunning' = TRUE /\ monitorLoop' = "wait"
    /\ UNCHANGED <<monitorCtxDone, monitorStop, loadMutex>>

\* The mutant that unlocks only when Stop returns.
WhileWaitingLocked == "stop"

WhileWaiting == "free"

StopMonitor ==
    /\ monitorRunning /\ loadMutex = "free"
    /\ monitorRunning' = FALSE /\ monitorCtxDone' = TRUE /\ monitorStop' = "waiting"
    /\ loadMutex' = WhileWaiting
    /\ UNCHANGED monitorLoop

StopMonitorReturns ==
    /\ monitorStop = "waiting" /\ monitorLoop = "ended"
    /\ monitorStop' = "idle" /\ loadMutex' = "free"
    /\ UNCHANGED <<monitorRunning, monitorCtxDone, monitorLoop>>

\* The ticker or the context, whichever the select takes.
LoopMeasures ==
    /\ monitorLoop = "wait" /\ monitorLoop' = "measured"
    /\ UNCHANGED <<monitorRunning, monitorCtxDone, monitorStop, loadMutex>>

LoopEnds ==
    /\ monitorLoop = "wait" /\ monitorCtxDone /\ monitorLoop' = "ended"
    /\ UNCHANGED <<monitorRunning, monitorCtxDone, monitorStop, loadMutex>>

\* updateMetrics stores the new load under the lock.
LoopStores ==
    /\ monitorLoop = "measured" /\ loadMutex = "free" /\ monitorLoop' = "wait"
    /\ UNCHANGED <<monitorRunning, monitorCtxDone, monitorStop, loadMutex>>

LoadInit ==
    /\ monitorRunning = FALSE /\ monitorCtxDone = FALSE /\ monitorLoop = "none"
    /\ monitorStop = "idle" /\ loadMutex = "free"

LoadNext == StartMonitor \/ StopMonitor \/ StopMonitorReturns \/ LoopMeasures \/ LoopEnds \/ LoopStores

\* The loop runs, and its select does not pass the context over for ever.
LoadFairness ==
    WF_loadVars(LoopStores) /\ SF_loadVars(LoopEnds) /\ WF_loadVars(StopMonitorReturns)

(* Stop of the performance monitor returns: it waits for the loop, which   *)
(* stores what it measured under the mutex that Stop takes.                *)
MonitorStopping == monitorStop = "waiting"
==============================================================================
