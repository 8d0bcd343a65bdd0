---------------------------- MODULE BatchStrategy ----------------------------
(***************************************************************************)
(* When a batch is created (batch/strategy.go).  Two parts that share no   *)
(* state: an evaluator with its strategy (EvaluatorInit, EvaluatorNext)    *)
(* and the manager that keeps one strategy per target (ManagerInit,        *)
(* ManagerNext).                                                           *)
(*                                                                         *)
(* A simple strategy is [type, max, min]; a hybrid one asks any or all of  *)
(* its parts; an adaptive one changes its own limits with the load and     *)
(* asks the strategy below, whose limits no code can change.  Strategies   *)
(* nest to any depth: a strategy is a sequence of nodes, each after those  *)
(* it asks, whose numbers are its parts or its below; the last one is the  *)
(* strategy itself.  One unit of time is a second.                         *)
(***************************************************************************)
EXTENDS Integers, Sequences, FiniteSets, FiniteSetsExt

CONSTANTS
    Configs,                    \* the configurations of the strategy that are tried
    MessageSizes,
    LoadLevels,                 \* the percentages by which load scales the limits, 100 among them
    AdaptInterval,
    MaxInt,                     \* the largest integer of the code
    MaxTime, MaxMessages,       \* bounds of the model
    Targets, StrategyUsers, MaxStrategies

Simple == {"time", "size", "count"}
Default == [time |-> [max |-> 10, min |-> 1], size |-> [max |-> 10, min |-> 1], count |-> [max |-> 10, min |-> 1]]

\* The strategies that a node asks, and whether it wants all of them.
Asked(k) ==
    CASE k.type = "hybrid" -> k.parts
      [] k.type = "adaptive" -> {k.below}
      [] OTHER -> {}

RequiresAll(k) == k.type = "hybrid" /\ k.all

\* createTimeIntervalStrategy and its siblings: defaults, then a maximum below the minimum is raised.
CreateSimple(c) ==
    LET pick(x, d) == IF x <= 0 THEN d ELSE x
        min == pick(c.min, Default[c.type].min)
        max == pick(c.max, Default[c.type].max)
    IN  [c EXCEPT !.min = min, !.max = IF max < min THEN min ELSE max]

\* A hybrid one needs parts, an adaptive one as many thresholds as factors: its default
\* configuration has one less.  One node that cannot be created fails the whole.
Creatable(c) ==
    \A i \in DOMAIN c :
        /\ c[i].type = "hybrid" => c[i].parts # {}
        /\ c[i].type = "adaptive" => c[i].thresholds = c[i].factors

CreateStrategy(c) ==
    [i \in DOMAIN c |-> IF c[i].type \in Simple THEN CreateSimple(c[i]) ELSE c[i]]
------------------------------------------------------------------------------
VARIABLES
    theStrategy,
    batch,              \* the messages since the last Reset, in numbers
    now,
    scale,              \* of the limits of an adaptive strategy, in percent
    lastAdaptTime

evaluatorVars == <<theStrategy, batch, now, scale, lastAdaptTime>>

EmptyBatch(t) == [start |-> t, last |-> t, size |-> 0, count |-> 0]

Measure(s, b, t) ==
    CASE s.type = "time" -> t - b.start
      [] s.type = "size" -> b.size
      [] OTHER -> b.count

\* The mutant that waits until a limit is passed.
SimpleReadyLate(s, b, t) ==
    /\ b.count > 0
    /\ \/ Measure(s, b, t) > s.max
       \/ Measure(s, b, t) >= s.min /\ t - b.last >= (IF s.type = "time" THEN s.min \div 2 ELSE 1)

\* At the maximum at once, at the minimum when no message has come for a while.
SimpleReady(s, b, t) ==
    /\ b.count > 0
    /\ \/ Measure(s, b, t) >= s.max
       \/ Measure(s, b, t) >= s.min /\ t - b.last >= (IF s.type = "time" THEN s.min \div 2 ELSE 1)

\* What each node answers.
Verdicts(s, b, t) ==
    LET says[i \in DOMAIN s] ==
            IF s[i].type \in Simple THEN SimpleReady(s[i], b, t)
            ELSE IF RequiresAll(s[i]) THEN \A p \in Asked(s[i]) : says[p]
            ELSE \E p \in Asked(s[i]) : says[p]
    IN  says

ShouldCreateBatch(s, b, t) == b.count > 0 /\ Verdicts(s, b, t)[Len(s)]

\* The delay that stands for none is 24 h.
Unlimited(type) == IF type = "time" THEN 86400 ELSE MaxInt
SimpleLimit(k, type) == IF k.type = type THEN k.max ELSE Unlimited(type)

\* What GetMaxBatchSize, GetMaxBatchCount and GetMaxBatchDelay answer before any adaptation:
\* a hybrid strategy takes over the smallest limit of its parts, an adaptive one that below.
Announced(s, type) ==
    Min({SimpleLimit(s[i], type) : i \in {j \in DOMAIN s : s[j].type \in Simple}}
        \cup {Unlimited(type) : i \in {j \in DOMAIN s : s[j].type = "hybrid"}})

\* Only the strategy that is asked for its limits shows its adaptation, not one below it.
\* What the conversion makes of the limit that stands for none is left open: see KeepsItsLimits.
Limit(s, type) ==
    IF s[Len(s)].type = "adaptive" THEN (Announced(s, type) * scale) \div 100 ELSE Announced(s, type)

AddMessage(size) ==
    /\ batch.count < MaxMessages
    /\ batch' = [batch EXCEPT !.size = @ + size, !.count = @ + 1, !.last = now]
    /\ UNCHANGED <<theStrategy, now, scale, lastAdaptTime>>

Tick ==
    /\ now < MaxTime /\ now' = now + 1
    /\ UNCHANGED <<theStrategy, batch, scale, lastAdaptTime>>

adaptIfNeeded ==
    IF theStrategy[Len(theStrategy)].type = "adaptive" /\ batch.count > 0 /\ now - lastAdaptTime >= AdaptInterval
    THEN scale' \in LoadLevels /\ lastAdaptTime' = now
    ELSE UNCHANGED <<scale, lastAdaptTime>>

\* The evaluator asks; when the answer is yes the batch is created and the evaluator reset.
Evaluate ==
    /\ adaptIfNeeded
    /\ batch' = IF ShouldCreateBatch(theStrategy, batch, now) THEN EmptyBatch(now) ELSE batch
    /\ UNCHANGED <<theStrategy, now>>

EvaluatorInit ==
    /\ theStrategy \in {CreateStrategy(c) : c \in {k \in Configs : Creatable(k)}}
    /\ batch = EmptyBatch(0) /\ now = 0 /\ scale = 100 /\ lastAdaptTime = 0

EvaluatorNext == (\E size \in MessageSizes : AddMessage(size)) \/ Tick \/ Evaluate

(* A strategy never creates an empty batch, and creates one                *)
(*   - as soon as one of the limits it announces is reached, unless it     *)
(*     asks, at any depth, a hybrid one that requires all, or has adapted: *)
(*     these announce limits that nobody keeps;                            *)
(*   - in any case when each simple strategy below it has reached its own  *)
(*     maximum, however deep it lies and whatever the load.                *)
KeepsItsLimits ==
    /\ batch.count = 0 => ~ShouldCreateBatch(theStrategy, batch, now)
    /\ (batch.count > 0 /\ scale = 100 /\ \A i \in DOMAIN theStrategy : ~RequiresAll(theStrategy[i])) =>
        \A type \in Simple :
            (/\ Announced(theStrategy, type) < Unlimited(type)
             /\ Measure([type |-> type], batch, now) >= Limit(theStrategy, type))
                => ShouldCreateBatch(theStrategy, batch, now)
    /\ (/\ batch.count > 0
        /\ \A i \in DOMAIN theStrategy : theStrategy[i].type \in Simple =>
                Measure(theStrategy[i], batch, now) >= theStrategy[i].max)
           => ShouldCreateBatch(theStrategy, batch, now)
------------------------------------------------------------------------------
VARIABLES
    Strategies,         \* target -> the number of its strategy, 0 when it has none
    created,            \* strategies created so far
    wanting,            \* per user: the target it did not find, or "none"
    holding             \* per user: the strategy it got and whether it was replaced since

managerVars == <<Strategies, created, wanting, holding>>

FindStrategy(u, t) ==
    /\ wanting[u] = "none"
    /\ IF Strategies[t] # 0
       THEN holding' = [holding EXCEPT ![u] = [target |-> t, strategy |-> Strategies[t], replaced |-> FALSE]]
            /\ UNCHANGED wanting
       ELSE wanting' = [wanting EXCEPT ![u] = t] /\ UNCHANGED holding
    /\ UNCHANGED <<Strategies, created>>

\* The mutant that does not look again under the write lock.
StillMissingUnchecked(t) == TRUE

StillMissing(t) == Strategies[t] = 0

\* The second half of GetStrategy, under the write lock; the factory may fail.
MakeStrategy(u) ==
    LET t == wanting[u] IN
    /\ t # "none" /\ created < MaxStrategies
    /\ wanting' = [wanting EXCEPT ![u] = "none"]
    /\ \/ ~StillMissing(t)
          /\ holding' = [holding EXCEPT ![u] = [target |-> t, strategy |-> Strategies[t], replaced |-> FALSE]]
          /\ UNCHANGED <<Strategies, created>>
       \/ StillMissing(t)
          /\ created' = created + 1
          /\ Strategies' = [Strategies EXCEPT ![t] = created']
          /\ holding' = [holding EXCEPT ![u] = [target |-> t, strategy |-> created', replaced |-> FALSE]]
       \/ StillMissing(t) /\ UNCHANGED <<Strategies, created, holding>>

Replaced(ts) ==
    holding' = [u \in StrategyUsers |->
        [holding[u] EXCEPT !.replaced = @ \/ holding[u].target \in ts]]

\* The old strategy is closed and stays with those that hold it.
SetStrategyConfig(t) ==
    /\ created < MaxStrategies /\ created' = created + 1
    /\ Strategies' = [Strategies EXCEPT ![t] = created']
    /\ Replaced({t}) /\ UNCHANGED wanting

CloseManager ==
    /\ Strategies' = [t \in Targets |-> 0]
    /\ Replaced(Targets) /\ UNCHANGED <<created, wanting>>

ManagerInit ==
    /\ Strategies = [t \in Targets |-> 0] /\ created = 0
    /\ wanting = [u \in StrategyUsers |-> "none"]
    /\ holding = [u \in StrategyUsers |-> [target |-> "none", strategy |-> 0, replaced |-> FALSE]]

ManagerNext ==
    \/ \E u \in StrategyUsers : MakeStrategy(u) \/ \E t \in Targets : FindStrategy(u, t)
    \/ \E t \in Targets : SetStrategyConfig(t)
    \/ CloseManager

(* All that got the strategy of a target hold the same one, the one of the *)
(* map, until it is configured anew or the manager is closed: two first    *)
(* calls at once do not make two.                                          *)
StrategyIsShared ==
    \A u \in StrategyUsers : (holding[u].target # "none" /\ ~holding[u].replaced) =>
        holding[u].strategy = Strategies[holding[u].target]
=============================================================================
