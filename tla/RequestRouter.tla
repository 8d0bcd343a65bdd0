---------------------------- MODULE RequestRouter ----------------------------
(***************************************************************************)
(* The request router of the proxy (core/proxy/router.go): a decision is   *)
(* taken from the cache, or made from the healthy targets and cached; the  *)
(* targets are refreshed from the configuration, which clears the cache.   *)
(*                                                                         *)
(* The statement, the user and the database of all requests are the same:  *)
(* the key of the cache tells only analytical queries, other queries and   *)
(* batch writes apart.  It holds neither the hints nor the consistency.    *)
(* A failing health check counts as unhealthy.                             *)
(***************************************************************************)
EXTENDS Integers, SequencesExt

CONSTANTS
    RouteCallers,
    Configurations,     \* the sequences of targets that may be configured
    AnalyticalQueryMinWeight,
    MaxRoutes           \* bound of the model: requests in all

VARIABLES
    configured,         \* the targets in the configuration
    targets,            \* the targets of the router
    refreshing,         \* RefreshTargets has stored the targets and not yet cleared the cache
    decisionCache,      \* key -> decision or NoDecision
    targetUsageCounts,
    routing,            \* per caller: the decision it is about to cache
    routed              \* requests so far

ASSUME RouterAssumption == \A l \in Configurations : l \in Seq({l[i] : i \in DOMAIN l})

routerVars == <<configured, targets, refreshing, decisionCache, targetUsageCounts, routing, routed>>

IDs == UNION {{l[i].id : i \in DOMAIN l} : l \in Configurations}
CacheKeys == {"analytical", "query", "batch"}
RoutingStrategies == {"prefer_availability", "prefer_consistency", "balanced"}
defaultStrategy == "balanced"

NoDecision == [kind |-> "none", target |-> <<>>, fallbacks |-> <<>>, eligible |-> {}]

QueryRequests == [kind : {"query"}, hint : IDs \cup {"none"}, strategy : {"none", "balanced"},
                  consistency : {"strong", "weak", "balanced", ""}, analytical : BOOLEAN,
                  system : BOOLEAN]
WriteRequests == [kind : {"write"}, hint : IDs \cup {"none"}, consistency : {"strict", ""},
                  batch : BOOLEAN]

determineQueryRoutingStrategy(req) ==
    IF req.strategy # "none" THEN req.strategy
    ELSE CASE req.consistency = "strong" -> "prefer_consistency"
           [] req.consistency = "weak" \/ (req.consistency = "" /\ req.analytical) -> "prefer_availability"
           [] req.consistency = "balanced" -> "balanced"
           [] OTHER -> defaultStrategy

CacheKey(req) ==
    IF req.kind = "write" THEN (IF req.batch THEN "batch" ELSE "none")
    ELSE IF req.analytical THEN "analytical" ELSE "query"

\* The loops that collect the targets of a list that are in S, in their order.
Only(list, S) == FoldLeft(LAMBDA kept, t : IF t \in S THEN Append(kept, t) ELSE kept, <<>>, list)

Hinted(list, hint) == Only(list, {t \in ToSet(list) : t.id = hint})
Preferred(list) == Only(list, {t \in ToSet(list) : t.isPreferred})
Writable(list) == Only(list, {t \in ToSet(list) : ~t.isReadOnly})
Others(list, best) == Only(list, ToSet(list) \ {best})

filterTargetsForQuery(list, req) ==
    LET suits(t) == IF req.analytical THEN t.weight > AnalyticalQueryMinWeight
                    ELSE req.system => t.isPreferred
        suited == Only(list, {t \in ToSet(list) : suits(t)})
    IN  IF Hinted(list, req.hint) # <<>> THEN Hinted(list, req.hint)
        ELSE IF suited = <<>> THEN list ELSE suited

\* The mutant that follows a hint to a read-only target.
filterTargetsForWriteByHint(list, req) ==
    IF Hinted(list, req.hint) # <<>> THEN Hinted(list, req.hint) ELSE Writable(list)

\* A strict write skips a target that is not preferred once it has found another.
Taken(list, strict) ==
    LET take(found, t) == IF ~t.isPreferred /\ strict /\ found # <<>> THEN found ELSE Append(found, t)
    IN  FoldLeft(take, <<>>, list)

filterTargetsForWrite(list, req) ==
    LET writable == Writable(list)
    IN  IF Hinted(writable, req.hint) # <<>> THEN Hinted(writable, req.hint)
        ELSE Taken(writable, req.consistency = "strict")

\* The scan of selectQueryTarget: the selected target so far and its fallbacks; "better" holds
\* the pairs whose first is better.  The first target is compared with itself and becomes a
\* fallback of its own under two strategies.
Scan(list, better) ==
    LET step(s, t) == IF <<t, s.best>> \in better
                      THEN [best |-> t, fallbacks |-> Append(s.fallbacks, s.best)]
                      ELSE [best |-> s.best, fallbacks |-> Append(s.fallbacks, t)]
    IN  FoldLeft(step, [best |-> Head(list), fallbacks |-> <<>>], list)

PairsOf(list) == ToSet(list) \X ToSet(list)

Share(t) == targetUsageCounts[t.id] \div (t.weight + 1)

\* The mutant that loses the target that was selected before a better one.
ByAvailabilityForgets(list) ==
    LET best == CHOOSE t \in ToSet(list) : \A u \in ToSet(list) : u.weight <= t.weight
    IN  [best |-> best, fallbacks |-> Only(list, ToSet(list) \ {best, Head(list)})]

\* The balanced scan starts above every share: the first target is put behind itself too.
ByAvailability(list) == Scan(list, {p \in PairsOf(list) : p[1].weight > p[2].weight})
ByShare(list) == Scan(list, {p \in PairsOf(list) : Share(p[1]) < Share(p[2])})

ByConsistency(list) ==
    IF Preferred(list) = <<>> THEN [best |-> Head(list), fallbacks |-> list]
    ELSE LET best == Head(Preferred(list))
         IN  [best |-> best, fallbacks |-> Others(list, best)]

selectQueryTarget(list, strategy) ==
    IF Len(list) = 1 THEN [best |-> list[1], fallbacks |-> <<>>]
    ELSE CASE strategy = "prefer_availability" -> ByAvailability(list)
           [] strategy = "prefer_consistency" -> ByConsistency(list)
           [] OTHER -> ByShare(list)

\* The first of the least used targets.
LeastUsed(list, counts) ==
    LET least(best, t) == IF counts[t.id] < counts[best.id] THEN t ELSE best
    IN  FoldLeft(least, Head(list), list)

\* The least used of the preferred targets, or of all when none is preferred.
selectWriteTarget(list) ==
    LET pool == IF Preferred(list) = <<>> THEN list ELSE Preferred(list)
        best == LeastUsed(pool, targetUsageCounts)
    IN  [best |-> best, fallbacks |-> Others(list, best)]

Eligible(list, req) ==
    IF req.kind = "query" THEN filterTargetsForQuery(list, req) ELSE filterTargetsForWrite(list, req)

Decide(list, req) ==
    LET eligible == Eligible(list, req)
        s == IF req.kind = "query" THEN selectQueryTarget(eligible, determineQueryRoutingStrategy(req))
             ELSE selectWriteTarget(eligible)
    IN  [kind |-> req.kind, target |-> s.best, fallbacks |-> s.fallbacks, eligible |-> ToSet(eligible)]
------------------------------------------------------------------------------
Count(d) == targetUsageCounts' = [targetUsageCounts EXCEPT ![d.target.id] = @ + 1]

RouteFromCache(c, req) ==
    /\ CacheKey(req) # "none" /\ decisionCache[CacheKey(req)] # NoDecision
    /\ Count(decisionCache[CacheKey(req)])
    /\ UNCHANGED <<decisionCache, routing>>

\* No healthy or no writable target is an error; the targets are those of this moment.
RouteFromTargets(c, req) ==
    /\ CacheKey(req) # "none" => decisionCache[CacheKey(req)] = NoDecision
    /\ \E healthy \in SUBSET IDs :
          LET list == Only(targets, {t \in ToSet(targets) : t.id \in healthy}) IN
          /\ list # <<>> /\ Eligible(list, req) # <<>>
          /\ routing' = [routing EXCEPT ![c] = [key |-> CacheKey(req), decision |-> Decide(list, req)]]
    /\ UNCHANGED <<decisionCache, targetUsageCounts>>

Route(c) ==
    /\ routing[c].decision = NoDecision /\ routed < MaxRoutes
    /\ routed' = routed + 1
    /\ \E req \in QueryRequests \cup WriteRequests : RouteFromCache(c, req) \/ RouteFromTargets(c, req)
    /\ UNCHANGED <<configured, targets, refreshing>>

CacheDecision(c) ==
    LET r == routing[c] IN
    /\ r.decision # NoDecision
    /\ decisionCache' = IF r.key = "none" THEN decisionCache
                        ELSE [decisionCache EXCEPT ![r.key] = r.decision]
    /\ Count(r.decision)
    /\ routing' = [routing EXCEPT ![c] = [key |-> "none", decision |-> NoDecision]]
    /\ UNCHANGED <<configured, targets, refreshing, routed>>

\* The decision outlives its TTL.
ExpireDecision(k) ==
    /\ decisionCache[k] # NoDecision
    /\ decisionCache' = [decisionCache EXCEPT ![k] = NoDecision]
    /\ UNCHANGED <<configured, targets, refreshing, targetUsageCounts, routing, routed>>

Reconfigure ==
    /\ configured' \in Configurations \ {configured}
    /\ UNCHANGED <<targets, refreshing, decisionCache, targetUsageCounts, routing, routed>>

RefreshTargets ==
    /\ ~refreshing
    /\ targets' = configured /\ refreshing' = TRUE
    /\ UNCHANGED <<configured, decisionCache, targetUsageCounts, routing, routed>>

ClearCache ==
    /\ refreshing
    /\ decisionCache' = [k \in CacheKeys |-> NoDecision] /\ refreshing' = FALSE
    /\ UNCHANGED <<configured, targets, targetUsageCounts, routing, routed>>
------------------------------------------------------------------------------
RouterInit ==
    /\ configured \in Configurations /\ targets = configured /\ refreshing = FALSE
    /\ decisionCache = [k \in CacheKeys |-> NoDecision]
    /\ targetUsageCounts = [id \in IDs |-> 0]
    /\ routing = [c \in RouteCallers |-> [key |-> "none", decision |-> NoDecision]]
    /\ routed = 0

RouterNext ==
    \/ \E c \in RouteCallers : Route(c) \/ CacheDecision(c)
    \/ \E k \in CacheKeys : ExpireDecision(k)
    \/ Reconfigure \/ RefreshTargets \/ ClearCache
------------------------------------------------------------------------------
Decisions == {decisionCache[k] : k \in CacheKeys} \cup {routing[c].decision : c \in RouteCallers}

(* Every decision names each eligible target, as the target or as a        *)
(* fallback, and none that was not eligible; a write is never sent, nor    *)
(* falls back, to a read-only target, whichever way the decision is        *)
(* reached: hint, strategy, strict consistency, cache.                     *)
DecisionsMayServe ==
    \A d \in Decisions \ {NoDecision} :
        /\ d.eligible = {d.target} \cup ToSet(d.fallbacks)
        /\ d.kind = "write" => \A t \in d.eligible : ~t.isReadOnly
==============================================================================
