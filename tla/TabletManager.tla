---------------------------- MODULE TabletManager ----------------------------
(***************************************************************************)
(* internal/domain/tablet/manager.go: TabletManagerImpl, its cache of      *)
(* tablets over the repository, and its cached statuses of a partition,    *)
(* its table and its database.                                             *)
(*                                                                         *)
(* Threads: every call is a thread's.  A section under cacheMutex and a    *)
(* call of the repository are one step each; UpdateTabletStatus holds      *)
(* tabletStateLock throughout, so at most one is under way.  A find        *)
(* returns objects of its own: an update marks the object it got from the  *)
(* cache, and a fill that takes place meanwhile replaces that object.      *)
(*                                                                         *)
(* Abstracted: one partition, its table and its database; a status is      *)
(* whether it says available; a cached status may expire at any time.      *)
(* Left out: subscriptions, metrics, the other attributes of a tablet.     *)
(***************************************************************************)
EXTENDS Integers, FiniteSets

CONSTANTS
  Threads,    \* threads that call the manager
  Tablets,    \* the tablets of the partition
  Hosts,      \* per tablet: GetBackendIDs
  Primary,    \* per tablet: GetPrimaryBackendID, or NoBackend
  NoBackend,  \* -1
  Targets,    \* states a caller of UpdateTabletStatus asks for
  MaxFaults,  \* bound: calls of the repository that fail
  MaxCalls    \* bound: calls of the manager other than the monitor's

States == {"NORMAL", "UNAVAILABLE", "MOVING", "CLONING", "RESTORING"}
Levels == {"partition", "table", "database"}

ASSUME TabletAssumption ==
  /\ Targets \subseteq States
  /\ \A t \in Tablets : IsFiniteSet(Hosts[t]) /\ NoBackend \notin Hosts[t]
  /\ \A t \in Tablets : Primary[t] \in Hosts[t] \cup {NoBackend}
  /\ MaxFaults \in Nat /\ MaxCalls \in Nat

VARIABLES
  repo,       \* per tablet: the state in the repository
  cache,      \* tm.tabletCache: the state of the cached object, or "absent"
  status,     \* the three status caches: "absent", "up" or "down"
  update,     \* the UpdateTabletStatus that holds tabletStateLock
  thread,     \* per thread: its call
  faults,     \* calls of the repository that failed
  calls,      \* calls so far
  unsaved,    \* history: tablets marked in the cache and not saved
  late,       \* history: tablets cached in a state older than a save
  lateStatus, \* history: levels whose status was wrong when it was cached
  touched,    \* history: tablets a call other than the monitor's updates
  missed      \* history: tablets that did not get the state the monitor's call wanted

boundVars  == <<faults, calls>>
lateVars   == <<late, unsaved>>
tabletVars == <<repo, cache, status, update, thread, boundVars, lateVars, lateStatus, touched, missed>>

Absent  == "absent"
Nothing == [t \in Tablets |-> Absent]
Free    == [by |-> "none", tablet |-> "none", want |-> "none", shared |-> FALSE, at |-> "free"]
Idle    == [op |-> "none", at |-> "none", got |-> Nothing, todo |-> {}, want |-> "none",
            level |-> "none", value |-> Absent]

Is(th, op, at) == thread[th].op = op /\ thread[th].at = at
Goto(th, at)   == thread' = [thread EXCEPT ![th].at = at]
End(th)        == thread' = [thread EXCEPT ![th] = Idle]

\* A call of the repository fails.
Fault == faults < MaxFaults /\ faults' = faults + 1

\* IsAvailable of the partition, of its table and of its database.
Up(states) == IF \E t \in Tablets : states[t] = "UNAVAILABLE" THEN "down" ELSE "up"

\* The backends whose state a tablet's state depends on: its only one, and
\* its primary's.
Decides(b, t) == Hosts[t] = {b} \/ Primary[t] = b

-----------------------------------------------------------------------------
(* Calls of the manager.  "todo" holds the tablets a call has to update,   *)
(* with the state for each, or "?" while it is not yet known.              *)

Begin(th, call) == thread[th] = Idle /\ thread' = [thread EXCEPT ![th] = call]

\* The monitor's note: "level" carries the backend.
HandleBackendStateChange(th, b, state) ==
  /\ Begin(th, [Idle EXCEPT !.op = "handle", !.at = "find", !.level = b,
                            !.want = IF state = "alive" THEN "NORMAL" ELSE "UNAVAILABLE"])
  /\ UNCHANGED <<repo, cache, status, update, boundVars, lateVars, lateStatus, touched, missed>>

Call(th, call) ==
  /\ calls < MaxCalls /\ calls' = calls + 1
  /\ Begin(th, call)
  /\ UNCHANGED <<repo, cache, status, update, faults, lateVars, lateStatus, missed>>

UpdateTabletStatus(th) == \E t \in Tablets, s \in Targets :
  /\ Call(th, [Idle EXCEPT !.op = "update", !.at = "next", !.todo = {<<t, s>>}])
  /\ touched' = touched \cup {t}

\* RefreshPartitionStatus, RefreshTableStatus, RefreshDatabaseStatus.
RefreshStatus(th) == \E l \in Levels :
  /\ Call(th, [Idle EXCEPT !.op = "refresh", !.at = "find", !.level = l])
  /\ touched' = Tablets

\* GetPartitionStatus, GetTableStatus, GetDatabaseStatus.
GetStatus(th) == \E l \in Levels :
  /\ Call(th, [Idle EXCEPT !.op = "status", !.at = l, !.level = l])
  /\ UNCHANGED touched

-----------------------------------------------------------------------------
(* Fetching tablets: a find of the repository, then the fill of the cache. *)

\* FindByBackendID for the monitor, FindByPartitionID or FindByDatabaseID else.
Scope(th) ==
  IF thread[th].op = "handle" THEN {t \in Tablets : thread[th].level \in Hosts[t]} ELSE Tablets

\* Mutant: only a primary counts.
IsPrimaryOn(b, t) == Primary[t] = b
\* Mutant: every tablet with a replica on the backend counts.
IsOn(b, t) == b \in Hosts[t]

\* isOnlyBackend || IsPrimaryOnBackend.
IsToUpdate(b, t) == Hosts[t] = {b} \/ Primary[t] = b

\* What is to be done with the tablets found.
Work(th) ==
  CASE thread[th].op = "handle"  -> {<<t, thread[th].want>> : t \in {x \in Scope(th) : IsToUpdate(thread[th].level, x)}}
    [] thread[th].op = "refresh" -> {<<t, "?">> : t \in Scope(th)}
    [] OTHER                     -> {}

Find(th) ==
  /\ thread[th].at = "find"
  /\ thread' = [thread EXCEPT ![th] =
       [@ EXCEPT !.at = "fill", !.todo = Work(th),
                 !.got = [t \in Tablets |-> IF t \in Scope(th) THEN repo[t] ELSE Absent]]]
  /\ UNCHANGED <<repo, cache, status, update, boundVars, lateVars, lateStatus, touched, missed>>

\* A status is an error then, but for a partition whose table is asked for:
\* GetTableStatus leaves it out and still answers.
FindFails(th) ==
  /\ thread[th].at = "find" /\ Fault
  /\ IF thread[th].op = "status" /\ thread[th].want = "partition" /\ thread[th].level # "partition"
     THEN thread' = [thread EXCEPT ![th] = [@ EXCEPT !.at = "put", !.want = "table", !.value = "up"]]
     ELSE End(th)
  /\ missed' = IF thread[th].op = "handle"
               THEN missed \cup {t \in Tablets : Decides(thread[th].level, t)} ELSE missed
  /\ UNCHANGED <<repo, cache, status, update, calls, lateVars, lateStatus, touched>>

\* An update past its mark loses the cached object to this fill.  A status is
\* counted from the tablets found.
Fill(th) ==
  LET got    == thread[th].got
      filled == {t \in Tablets : got[t] # Absent}
  IN /\ thread[th].at = "fill"
     /\ cache' = [t \in Tablets |-> IF t \in filled THEN got[t] ELSE cache[t]]
     /\ update' = IF update.tablet \in filled THEN [update EXCEPT !.shared = FALSE] ELSE update
     /\ late' = (late \ filled) \cup {t \in filled : got[t] # repo[t]}
     /\ unsaved' = unsaved \ filled
     /\ thread' = [thread EXCEPT ![th] =
          CASE @.op # "status"        -> [@ EXCEPT !.at = "next", !.got = Nothing]
            [] @.op = "status" /\ @.want = "partition" -> [@ EXCEPT !.at = "put", !.value = Up(got), !.got = Nothing]
            [] OTHER                  -> [@ EXCEPT !.at = "table", !.got = Nothing]]
     /\ UNCHANGED <<repo, status, boundVars, lateStatus, touched, missed>>

-----------------------------------------------------------------------------
(* UpdateTabletStatus, in its own call or within another.                  *)

\* The update of tablet t returns to thread th.
Done(th, t) ==
  thread' = [thread EXCEPT ![th] = [@ EXCEPT !.at = "next", !.todo = {p \in thread[th].todo : p[1] # t}]]

\* The monitor's call leaves t in another state than s.
Missed(th, t, s) ==
  IF thread[th].op = "handle" /\ repo[t] # s THEN missed \cup {t} ELSE missed

\* The lock is taken; the tablet is cached, or fetched (the find and the fill
\* are one step: no save can come between them).  In the wanted state already,
\* there is nothing to do; otherwise the cached object is marked.
Update(th, t, s) ==
  LET found == IF cache[t] = Absent THEN repo[t] ELSE cache[t]
  IN /\ update = Free
     /\ cache' = [cache EXCEPT ![t] = s]
     /\ IF found = s
        THEN /\ Done(th, t)
             /\ missed' = Missed(th, t, s)
             /\ UNCHANGED <<update, unsaved>>
        ELSE /\ update' = [by |-> th, tablet |-> t, want |-> s, shared |-> TRUE, at |-> "save"]
             /\ Goto(th, "updating")
             /\ unsaved' = unsaved \cup {t}
             /\ UNCHANGED missed
     /\ UNCHANGED <<repo, status, boundVars, late, lateStatus, touched>>

UpdateNotFound(th, t, s) ==
  /\ update = Free /\ cache[t] = Absent /\ Fault
  /\ Done(th, t)
  /\ missed' = Missed(th, t, s)
  /\ UNCHANGED <<repo, cache, status, update, calls, lateVars, lateStatus, touched>>

UpdateNext(th) ==
  /\ thread[th].at = "next"
  /\ \E p \in thread[th].todo :
       p[2] # "?" /\ (Update(th, p[1], p[2]) \/ UpdateNotFound(th, p[1], p[2]))

Save ==
  /\ update.at = "save"
  /\ repo' = [repo EXCEPT ![update.tablet] = update.want]
  /\ update' = [update EXCEPT !.at = "set"]
  /\ unsaved' = unsaved \ {update.tablet}
  /\ missed' = missed \ {update.tablet}
  /\ UNCHANGED <<cache, status, thread, boundVars, late, lateStatus, touched>>

\* The error is returned; the object that is still cached keeps its mark.
SaveFails ==
  /\ update.at = "save" /\ Fault
  /\ Done(update.by, update.tablet)
  /\ missed' = Missed(update.by, update.tablet, update.want)
  /\ unsaved' = IF update.shared THEN unsaved ELSE unsaved \ {update.tablet}
  /\ update' = Free
  /\ UNCHANGED <<repo, cache, status, calls, late, lateStatus, touched>>

\* Mutant: the object is not put back into the cache.
SetForgets ==
  /\ update.at = "set"
  /\ late' = late \ {update.tablet}
  /\ update' = [update EXCEPT !.at = "invalidate"]
  /\ UNCHANGED <<repo, cache, status, thread, boundVars, unsaved, lateStatus, touched, missed>>

Set ==
  /\ update.at = "set"
  /\ cache' = [cache EXCEPT ![update.tablet] = update.want]
  /\ late' = late \ {update.tablet}
  /\ update' = [update EXCEPT !.at = "invalidate"]
  /\ UNCHANGED <<repo, status, thread, boundVars, unsaved, lateStatus, touched, missed>>

\* Mutant: the database is forgotten.
InvalidateTwo ==
  /\ update.at = "invalidate"
  /\ status' = [l \in Levels |-> IF l = "database" THEN status[l] ELSE Absent]
  /\ lateStatus' = {}
  /\ Done(update.by, update.tablet)
  /\ update' = Free
  /\ UNCHANGED <<repo, cache, boundVars, lateVars, touched, missed>>

\* invalidateRelatedCaches, and the event.
Invalidate ==
  /\ update.at = "invalidate"
  /\ status' = [l \in Levels |-> Absent] /\ lateStatus' = {}
  /\ Done(update.by, update.tablet)
  /\ update' = Free
  /\ UNCHANGED <<repo, cache, boundVars, lateVars, touched, missed>>

-----------------------------------------------------------------------------
(* The rest of a call, once its tablets are found.                         *)

\* RefreshTabletStatus: the state by the primary, which is alive, or not, or
\* cannot be read; an update only if the tablet is in another state.
RefreshTablet(th, t) ==
  /\ Is(th, "refresh", "next") /\ <<t, "?">> \in thread[th].todo
  /\ \A p \in thread[th].todo : p[2] = "?"
  /\ \E s \in IF Primary[t] = NoBackend THEN {"UNAVAILABLE"} ELSE {"NORMAL", "UNAVAILABLE"} :
       thread' = [thread EXCEPT ![th].todo =
         (@ \ {<<t, "?">>}) \cup (IF Hosts[t] = {} \/ cache[t] = s THEN {} ELSE {<<t, s>>})]
  /\ UNCHANGED <<repo, cache, status, update, boundVars, lateVars, lateStatus, touched, missed>>

\* The statuses up to the level asked for, one section of cacheMutex each.
Upper(l) == CASE l = "partition" -> "table" [] l = "table" -> "database" [] OTHER -> "partition"

RefreshEnd(th) ==
  /\ thread[th].op = "refresh" /\ thread[th].at \in {"next"} \cup Levels /\ thread[th].todo = {}
  /\ LET l == Upper(thread[th].at)
     IN /\ status' = [status EXCEPT ![l] = Absent] /\ lateStatus' = lateStatus \ {l}
        /\ IF l = thread[th].level THEN End(th) ELSE Goto(th, l)
  /\ UNCHANGED <<repo, cache, update, boundVars, lateVars, touched, missed>>

UpdatesEnd(th) ==
  /\ thread[th].op \in {"handle", "update"} /\ thread[th].at = "next" /\ thread[th].todo = {}
  /\ End(th)
  /\ UNCHANGED <<repo, cache, status, update, boundVars, lateVars, lateStatus, touched, missed>>

\* A status that is cached is the answer, or goes into the level above.  The
\* database fetches its tablets before it asks for its table; "want" is the
\* level the tablets are fetched for.
StatusLookup(th) ==
  /\ thread[th].op = "status" /\ thread[th].at \in Levels
  /\ LET l == thread[th].at
     IN thread' = [thread EXCEPT ![th] =
          IF status[l] # Absent
          THEN IF l = @.level THEN Idle ELSE [@ EXCEPT !.at = "put", !.want = Upper(l), !.value = status[l]]
          ELSE IF l = "table" THEN [@ EXCEPT !.at = "partition"] ELSE [@ EXCEPT !.at = "find", !.want = l]]
  /\ UNCHANGED <<repo, cache, status, update, boundVars, lateVars, lateStatus, touched, missed>>

StatusPut(th) ==
  /\ Is(th, "status", "put")
  /\ LET l == thread[th].want
     IN /\ status' = [status EXCEPT ![l] = thread[th].value]
        /\ lateStatus' = IF thread[th].value = Up(repo) THEN lateStatus \ {l} ELSE lateStatus \cup {l}
        /\ thread' = [thread EXCEPT ![th] = IF l = @.level THEN Idle ELSE [@ EXCEPT !.want = Upper(l)]]
  /\ UNCHANGED <<repo, cache, update, boundVars, lateVars, touched, missed>>

\* The partitions of the table cannot be read, or those of its tablets within
\* the refresh of a table or a database: a database counts a table without a
\* status as unavailable, and a refresh goes on with the levels above.
PartitionsFail(th) ==
  /\ Fault
  /\ \/ /\ Is(th, "status", "table") /\ status["table"] = Absent
        /\ thread' = [thread EXCEPT ![th] =
             IF @.level = "table" THEN Idle ELSE [@ EXCEPT !.at = "put", !.want = "database", !.value = "down"]]
     \/ /\ thread[th].op = "refresh"
        /\ \E l \in {"partition", "table"} :
             /\ \/ thread[th].level = "table" /\ thread[th].at = "find" /\ l = "partition"
                \/ thread[th].level = "database" /\ thread[th].at = "next" /\ thread[th].todo = Work(th)
             /\ thread' = [thread EXCEPT ![th] = [@ EXCEPT !.at = l, !.todo = {}]]
  /\ UNCHANGED <<repo, cache, status, update, calls, lateVars, lateStatus, touched, missed>>

\* cleanupExpiredCacheEntries; a reader takes an expired entry as absent.
Expire(l) ==
  /\ status[l] # Absent
  /\ status' = [status EXCEPT ![l] = Absent] /\ lateStatus' = lateStatus \ {l}
  /\ UNCHANGED <<repo, cache, update, thread, boundVars, lateVars, touched, missed>>

-----------------------------------------------------------------------------
TabletInit ==
  /\ repo = [t \in Tablets |-> "NORMAL"] /\ cache = Nothing /\ status = [l \in Levels |-> Absent]
  /\ update = Free /\ thread = [th \in Threads |-> Idle]
  /\ faults = 0 /\ calls = 0
  /\ unsaved = {} /\ late = {} /\ lateStatus = {} /\ touched = {} /\ missed = {}

CallStep(th) ==
  \/ Find(th) \/ FindFails(th) \/ Fill(th) \/ UpdateNext(th)
  \/ \E t \in Tablets : RefreshTablet(th, t)
  \/ RefreshEnd(th) \/ UpdatesEnd(th) \/ StatusLookup(th) \/ StatusPut(th)
  \/ PartitionsFail(th)

UpdateStep == Save \/ SaveFails \/ Set \/ Invalidate

TabletNext ==
  \/ \E th \in Threads : UpdateTabletStatus(th) \/ RefreshStatus(th) \/ GetStatus(th) \/ CallStep(th)
  \/ UpdateStep
  \/ \E l \in Levels : Expire(l)

-----------------------------------------------------------------------------
TabletTypeOK ==
  /\ repo \in [Tablets -> States] /\ cache \in [Tablets -> States \cup {Absent}]
  /\ status \in [Levels -> {Absent, "up", "down"}]
  /\ update = Free \/ (update.by \in Threads /\ thread[update.by].at = "updating")
  /\ unsaved \subseteq Tablets /\ late \subseteq Tablets /\ touched \subseteq Tablets
  /\ missed \subseteq Tablets /\ lateStatus \subseteq Levels
  /\ faults \in 0..MaxFaults /\ calls \in 0..MaxCalls

\* A cached tablet is in the state the repository has, but while its update is
\* under way, when it was filled with what had been read before a save, and
\* when the save of its mark failed: whichever of two threads' objects is in
\* the cache.
CacheFollowsRepository ==
  \A t \in Tablets \ (late \cup unsaved) :
    update.tablet # t => cache[t] \in {Absent, repo[t]}

\* A cached status says what the tablets in the repository say, but while an
\* update has saved and not yet invalidated, and unless it was wrong already
\* when it was cached.
StatusFollowsTablets ==
  update.at \notin {"set", "invalidate"}
    => \A l \in Levels \ lateStatus : status[l] \in {Absent, Up(repo)}
=============================================================================
