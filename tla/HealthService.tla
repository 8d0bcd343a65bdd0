---------------------------- MODULE HealthService ----------------------------
(***************************************************************************)
(* The health service (application/services/health_service.go): a health   *)
(* call asks the checker and the tablet manager, records the level in the  *)
(* history, reports an issue when the level is not normal, remembers the   *)
(* level and tells the subscribers.  The monitoring goroutine is one of    *)
(* the callers.                                                            *)
(*                                                                         *)
(* ReportHealthIssue takes issuesMutex for writing and, holding it, calls  *)
(* updateIssueCountMetrics, which takes it for reading: the call stays at  *)
(* "counting" and the mutex is never released.  No action leads out of it. *)
(*                                                                         *)
(* The level is computed when the call starts: nothing else depends on it.*)
(* Times are numbers drawn from one clock, in the order of time.Now().     *)
(***************************************************************************)
EXTENDS Integers, SequencesExt

CONSTANTS
    HealthCallers,
    Scopes,             \* a subset of AllScopes, one target each
    Subscribers,
    Filters,            \* what a subscriber may ask for: [scopes, targets, levels, types]
    ChannelSize,        \* 100 in the code
    MaxHistory,         \* 100 in the code
    MaxHealthCalls      \* bound of the model: calls made in all

VARIABLES
    healthCall,         \* what each caller is doing
    healthHistory,      \* per scope, newest first
    issues,             \* per scope, how often the issue was detected
    issuesMutex,        \* the caller that holds it for writing, or "free"
    lastHealthStatus,
    subscription,       \* per subscriber: the registration and its channel
    healthClock,
    made                \* calls made so far

healthServiceVars == <<healthCall, healthHistory, issues, issuesMutex, lastHealthStatus,
                       subscription, healthClock, made>>

AllScopes == {"cluster", "database", "table", "partition", "tablet", "backend"}
\* The levels, and no level.
Unknown == 0
Normal == 1
Warning == 2
Degraded == 3
Critical == 4
Failed == 5             \* not a level: the look-up in the tablet manager failed

convertHealthStatusToLevel == {Normal, Degraded, Critical, Unknown}

\* What the tablet manager tells of the tablets or replicas, and of the backend's disk and load.
TabletFindings == SUBSET {"impaired", "unavailable"}
StatusFindings == SUBSET {"badstatus", "badunavailable"}
DiskFindings == {{}, {"elevated"}, {"high"}, {"veryhigh"}, {"dead"}}
LoadFindings == SUBSET {"busy", "overloaded"}

\* Degraded and Warning never replace a worse level.
AtLeast(level, by) == IF level \in by..Critical THEN level ELSE by

TabletLevel(level, found) ==
    IF "unavailable" \in found THEN Critical
    ELSE IF "impaired" \in found THEN AtLeast(level, Degraded) ELSE level

StatusLevel(level, found) ==
    IF "badunavailable" \in found THEN Critical
    ELSE IF "badstatus" \in found THEN AtLeast(level, Degraded) ELSE level

DiskLevel(level, found) ==
    IF "dead" \in found \/ "veryhigh" \in found THEN Critical
    ELSE IF "high" \in found THEN AtLeast(level, Degraded)
    ELSE IF "elevated" \in found THEN AtLeast(level, Warning) ELSE level

\* CPU and memory, the one after the other: neither makes the level better.
LoadLevel(level, found) ==
    IF "overloaded" \in found THEN AtLeast(level, Degraded)
    ELSE IF "busy" \in found THEN AtLeast(level, Warning) ELSE level

\* The mutant that lets the load set the level whatever the disk said.
BackendLevelByLoad(level, found) == LoadLevel(Normal, found)

BackendLevel(level, found) == LoadLevel(DiskLevel(level, found), found)

\* What each kind of call makes of the checker's level: the findings and the level they end with.
GetClusterHealth(level) == {[found |-> {}, level |-> level]}
GetDatabaseHealth(level) == {[found |-> {}, level |-> l] : l \in {level, Failed}}
GetTableHealth(level) ==
    {[found |-> f, level |-> TabletLevel(level, f)] : f \in TabletFindings}
        \cup {[found |-> {}, level |-> Failed]}
GetPartitionHealth(level) ==
    {[found |-> f, level |-> TabletLevel(level, f)] : f \in TabletFindings}
        \cup {[found |-> {}, level |-> Failed]}
GetTabletHealth(level) ==
    {[found |-> f \cup g, level |-> StatusLevel(TabletLevel(level, f), g)] :
        f \in TabletFindings, g \in StatusFindings} \cup {[found |-> {}, level |-> Failed]}
GetBackendHealth(level) ==
    {[found |-> f \cup g, level |-> BackendLevel(level, f \cup g)] :
        f \in DiskFindings, g \in LoadFindings} \cup {[found |-> {}, level |-> Failed]}

\* GetHealthDiagnosis picks the call by the scope in the same way.
Judgements(scope, level) ==
    CASE scope = "cluster" -> GetClusterHealth(level)
      [] scope = "database" -> GetDatabaseHealth(level)
      [] scope = "table" -> GetTableHealth(level)
      [] scope = "partition" -> GetPartitionHealth(level)
      [] scope = "tablet" -> GetTabletHealth(level)
      [] scope = "backend" -> GetBackendHealth(level)
------------------------------------------------------------------------------
NoHealthCall == [at |-> "idle", scope |-> "cluster", level |-> Unknown, time |-> 0]

Step(c, at) == healthCall' = [healthCall EXCEPT ![c].at = at]

\* The goroutine of startHealthMonitoring asks for the cluster on every tick.
ScopesAsked(c) == IF c = "monitoring" THEN Scopes \cap {"cluster"} ELSE Scopes

\* A health call, or the one a diagnosis makes: a failed look-up ends it.
Check(c) ==
    /\ healthCall[c].at = "idle" /\ made < MaxHealthCalls
    /\ made' = made + 1
    /\ \E s \in ScopesAsked(c), level \in convertHealthStatusToLevel : \E j \in Judgements(s, level) :
          healthCall' = IF j.level = Failed THEN healthCall
                        ELSE [healthCall EXCEPT ![c] =
                                 [at |-> "relevant", scope |-> s, level |-> j.level, time |-> 0]]
    /\ UNCHANGED <<healthHistory, issues, issuesMutex, lastHealthStatus, subscription, healthClock>>

\* addRelevantIssues reads under issuesMutex; then the call takes its time.
AddRelevantIssues(c) ==
    LET h == healthCall[c] IN
    /\ h.at = "relevant" /\ issuesMutex = "free"
    /\ healthClock' = healthClock + 1
    /\ healthCall' = [healthCall EXCEPT ![c] =
           [h EXCEPT !.at = "history", !.time = healthClock]]
    /\ UNCHANGED <<healthHistory, issues, issuesMutex, lastHealthStatus, subscription, made>>

\* The mutant that reports every level.
AfterHistoryAlways(level) == "report"

\* detectAndUpdateIssues skips a normal level.
AfterHistory(level) == IF level = Normal THEN "remember" ELSE "report"

UpdateHealthHistory(c) ==
    LET h == healthCall[c]
        entries == <<[level |-> h.level, time |-> h.time]>> \o healthHistory[h.scope]
    IN  /\ h.at = "history"
        /\ healthHistory' = [healthHistory EXCEPT ![h.scope] =
               SubSeq(entries, 1, IF Len(entries) > MaxHistory THEN MaxHistory ELSE Len(entries))]
        /\ Step(c, AfterHistory(h.level))
        /\ UNCHANGED <<issues, issuesMutex, lastHealthStatus, subscription, healthClock, made>>

Event(type, h) == [type |-> type, scope |-> h.scope, level |-> h.level]

\* An empty list asks for everything; a target stands for the scope it belongs to.
Lists(list, x) == list = {} \/ x \in list \/ "*" \in list

eventMatchesSubscription(event, wants) ==
    /\ wants.scopes = {} \/ event.scope \in wants.scopes
    /\ Lists(wants.targets, event.scope)
    /\ wants.levels = {} \/ event.level \in wants.levels
    /\ Lists(wants.types, event.type)

\* A full channel drops the event; a closed one is no longer registered.
notifyHealthSubscribersForEvent(event) ==
    subscription' = [s \in Subscribers |->
        IF /\ subscription[s].registered /\ eventMatchesSubscription(event, subscription[s].wants)
           /\ Len(subscription[s].channel) < ChannelSize
        THEN [subscription[s] EXCEPT !.channel = Append(@, event)] ELSE subscription[s]]

\* ReportHealthIssue up to updateIssueCountMetrics, where the caller waits for itself.
ReportHealthIssue(c) ==
    LET h == healthCall[c] IN
    /\ h.at = "report" /\ issuesMutex = "free"
    /\ issuesMutex' = c
    /\ issues' = [issues EXCEPT ![h.scope] = @ + 1]
    /\ notifyHealthSubscribersForEvent(
           Event(IF issues[h.scope] > 0 THEN "issue_updated" ELSE "issue_detected", h))
    /\ Step(c, "counting")
    /\ UNCHANGED <<healthHistory, lastHealthStatus, healthClock, made>>

UpdateLastHealthStatus(c) ==
    /\ healthCall[c].at = "remember"
    /\ lastHealthStatus' = [lastHealthStatus EXCEPT ![healthCall[c].scope] = healthCall[c].level]
    /\ Step(c, "notify")
    /\ UNCHANGED <<healthHistory, issues, issuesMutex, subscription, healthClock, made>>

\* The previous status is the one just remembered, unless another call came between.
NotifyHealthSubscribers(c) ==
    LET h == healthCall[c] IN
    /\ h.at = "notify"
    /\ notifyHealthSubscribersForEvent(
           Event(IF lastHealthStatus[h.scope] # h.level THEN "status_change" ELSE "status_update", h))
    /\ healthCall' = [healthCall EXCEPT ![c] = NoHealthCall]
    /\ UNCHANGED <<healthHistory, issues, issuesMutex, lastHealthStatus, healthClock, made>>
------------------------------------------------------------------------------
Subscribe(s) ==
    /\ subscription[s].state = "new"
    /\ \E w \in Filters : subscription' =
           [subscription EXCEPT ![s] = [@ EXCEPT !.state = "open", !.registered = TRUE, !.wants = w]]
    /\ UNCHANGED <<healthCall, healthHistory, issues, issuesMutex, lastHealthStatus, healthClock, made>>

\* By the subscriber or by the goroutine that waits for its context; the second one is an error.
Unsubscribe(s) ==
    /\ subscription[s].registered
    /\ subscription' = [subscription EXCEPT ![s] = [@ EXCEPT !.state = "closed", !.registered = FALSE]]
    /\ UNCHANGED <<healthCall, healthHistory, issues, issuesMutex, lastHealthStatus, healthClock, made>>

ReadEvent(s) ==
    /\ subscription[s].channel # <<>>
    /\ subscription' = [subscription EXCEPT ![s].channel = Tail(@)]
    /\ UNCHANGED <<healthCall, healthHistory, issues, issuesMutex, lastHealthStatus, healthClock, made>>
------------------------------------------------------------------------------
Everything == [scopes |-> {}, targets |-> {}, levels |-> {}, types |-> {}]

HealthServiceInit ==
    /\ healthCall = [c \in HealthCallers |-> NoHealthCall]
    /\ healthHistory = [s \in Scopes |-> <<>>]
    /\ issues = [s \in Scopes |-> 0]
    /\ issuesMutex = "free"
    /\ lastHealthStatus = [s \in Scopes |-> Unknown]
    /\ subscription = [s \in Subscribers |-> 
           [state |-> "new", registered |-> FALSE, wants |-> Everything, channel |-> <<>>]]
    /\ healthClock = 1 /\ made = 0

CallerStep(c) ==
    \/ AddRelevantIssues(c) \/ UpdateHealthHistory(c) \/ ReportHealthIssue(c)
    \/ UpdateLastHealthStatus(c) \/ NotifyHealthSubscribers(c)

HealthServiceNext ==
    \/ \E c \in HealthCallers : Check(c) \/ CallerStep(c)
    \/ \E s \in Subscribers : Subscribe(s) \/ Unsubscribe(s) \/ ReadEvent(s)

\* A goroutine that can go on goes on; a mutex that is free is granted in the end.
HealthServiceFairness == \A c \in HealthCallers : SF_healthServiceVars(CallerStep(c))
------------------------------------------------------------------------------
Severity(finding) ==
    CASE finding \in {"dead", "veryhigh", "unavailable", "badunavailable"} -> Critical
      [] finding \in {"high", "overloaded", "impaired", "badstatus"} -> Degraded
      [] OTHER -> Warning

(* The level of a call is at least as bad as the checker's and as each of  *)
(* the findings: the order of the tests loses none of them.                *)
LevelCoversFindings ==
    \A s \in AllScopes, level \in convertHealthStatusToLevel : \A j \in Judgements(s, level) :
        j.level # Failed => j.level >= level /\ \A f \in j.found : j.level >= Severity(f)

(* A health call returns, unless some call finds a level that is not       *)
(* normal: what the other callers and the subscribers do holds none of     *)
(* them up.                                                                *)
FoundNormal ==
    \A c \in HealthCallers : healthCall[c].at \notin {"idle", "relevant"} => healthCall[c].level = Normal

HealthyCallsReturn ==
    \A c \in HealthCallers : healthCall[c].at # "idle" ~> (healthCall[c].at = "idle" \/ ~FoundNormal)
==============================================================================
