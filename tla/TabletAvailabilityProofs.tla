----------------------- MODULE TabletAvailabilityProofs -----------------------
(***************************************************************************)
(* Proofs about TabletAvailability and its TabletManager, for any number   *)
(* of backends, tablets, threads, calls and failures: what the caches      *)
(* hold, what the tablets of a backend become, and that the repository     *)
(* implements TabletOutage.                                                *)
(***************************************************************************)
EXTENDS TabletAvailability, TLAPS

-----------------------------------------------------------------------------
(* Shapes.                                                                 *)

Points == {"none", "find", "fill", "next", "updating", "put"} \cup Levels

CallRecord == [op : {"none", "handle", "update", "refresh", "status"}, at : Points,
               got : [Tablets -> States \cup {Absent}],
               todo : SUBSET (Tablets \X (States \cup {"?"})),
               want : States \cup Levels \cup {"none"},
               level : Levels \cup Backends \cup {"none"},
               value : {Absent, "up", "down"}]

UpdateRecord == [by : Threads, tablet : Tablets, want : States, shared : BOOLEAN,
                 at : {"save", "set", "invalidate"}]

\* The thread that holds tabletStateLock waits for its update, which is one it
\* has to do.
UpdateShape ==
  \/ update = Free
  \/ /\ update \in UpdateRecord
     /\ thread[update.by].at = "updating"
     /\ <<update.tablet, update.want>> \in thread[update.by].todo

TabletShape ==
  /\ repo \in [Tablets -> States] /\ cache \in [Tablets -> States \cup {Absent}]
  /\ status \in [Levels -> {Absent, "up", "down"}]
  /\ thread \in [Threads -> CallRecord]
  /\ UpdateShape

LEMMA IdleIsCall == Idle \in CallRecord
  BY DEF Idle, CallRecord, Points, Nothing, Absent

LEMMA FreeIsNone == Free.at = "free" /\ Free.shared = FALSE
  BY DEF Free

\* A step of a thread that is not in the middle of an update.
LEMMA ThreadMoves ==
  ASSUME TabletShape, NEW th \in Threads, NEW c \in CallRecord,
         thread' = [thread EXCEPT ![th] = c], thread[th].at # "updating",
         UNCHANGED <<repo, cache, status, update>>
  PROVE  TabletShape'
  BY DEF TabletShape, UpdateShape, UpdateRecord

\* The fields of a call after a change of some of them.
LEMMA CallChanges ==
  ASSUME NEW c \in CallRecord
  PROVE  /\ \A p \in Points : [c EXCEPT !.at = p] \in CallRecord
         /\ \A p \in Points, l \in Levels : [c EXCEPT !.at = p, !.want = l] \in CallRecord
         /\ \A l \in Levels : [c EXCEPT !.want = l] \in CallRecord
         /\ \A S \in SUBSET (Tablets \X (States \cup {"?"})) :
               /\ [c EXCEPT !.todo = S] \in CallRecord
               /\ \A p \in Points : [c EXCEPT !.at = p, !.todo = S] \in CallRecord
               /\ \A p \in Points, g \in [Tablets -> States \cup {Absent}] :
                     [c EXCEPT !.at = p, !.todo = S, !.got = g] \in CallRecord
         /\ \A p \in Points, g \in [Tablets -> States \cup {Absent}] :
               [c EXCEPT !.at = p, !.got = g] \in CallRecord
         /\ \A p \in Points, l \in Levels, v \in {Absent, "up", "down"} :
               [c EXCEPT !.at = p, !.want = l, !.value = v] \in CallRecord
         /\ \A p \in Points, g \in [Tablets -> States \cup {Absent}], v \in {Absent, "up", "down"} :
               [c EXCEPT !.at = p, !.value = v, !.got = g] \in CallRecord
<1>1. /\ \A p \in Points : [c EXCEPT !.at = p] \in CallRecord
      /\ \A p \in Points, l \in Levels : [c EXCEPT !.at = p, !.want = l] \in CallRecord
      /\ \A l \in Levels : [c EXCEPT !.want = l] \in CallRecord
  BY DEF CallRecord
<1>2. ASSUME NEW S \in SUBSET (Tablets \X (States \cup {"?"}))
      PROVE  /\ [c EXCEPT !.todo = S] \in CallRecord
             /\ \A p \in Points : [c EXCEPT !.at = p, !.todo = S] \in CallRecord
             /\ \A p \in Points, g \in [Tablets -> States \cup {Absent}] :
                   [c EXCEPT !.at = p, !.todo = S, !.got = g] \in CallRecord
  BY DEF CallRecord
<1>3. \A p \in Points, g \in [Tablets -> States \cup {Absent}] : [c EXCEPT !.at = p, !.got = g] \in CallRecord
  BY DEF CallRecord
<1>4. \A p \in Points, l \in Levels, v \in {Absent, "up", "down"} :
        [c EXCEPT !.at = p, !.want = l, !.value = v] \in CallRecord
  BY DEF CallRecord
<1>5. \A p \in Points, g \in [Tablets -> States \cup {Absent}], v \in {Absent, "up", "down"} :
        [c EXCEPT !.at = p, !.value = v, !.got = g] \in CallRecord
  BY DEF CallRecord
<1>6. QED BY <1>1, <1>2, <1>3, <1>4, <1>5

\* The tablets a call finds, and what it has to do with them.
LEMMA WorkType ==
  ASSUME NEW th \in Threads, TabletShape
  PROVE  /\ Scope(th) \subseteq Tablets
         /\ thread[th].op = "handle" /\ thread[th].want \in States => Work(th) \subseteq Tablets \X (States \cup {"?"})
         /\ thread[th].op # "handle" => Work(th) \subseteq Tablets \X (States \cup {"?"})
  BY DEF Work, Scope, TabletShape, CallRecord

\* What a status or a refresh goes on with when partitions cannot be read.
LEMMA WithoutPartitions ==
  ASSUME NEW th, PartitionsFail(th)
  PROVE  /\ thread[th].op \in {"status", "refresh"} /\ thread[th].at # "updating"
         /\ UNCHANGED <<repo, cache, status, update, late, unsaved, lateStatus, touched, missed>>
         /\ \/ thread' = [thread EXCEPT ![th] = Idle]
            \/ thread' = [thread EXCEPT ![th] =
                 [thread[th] EXCEPT !.at = "put", !.want = "database", !.value = "down"]]
            \/ \E l \in {"partition", "table"} :
                 thread' = [thread EXCEPT ![th] = [thread[th] EXCEPT !.at = l, !.todo = {}]]
  BY DEF PartitionsFail, Is, lateVars

\* What the monitor's call wants of its tablets is a state.
WantsState == \A th \in Threads : thread[th].op = "handle" => thread[th].want \in {"NORMAL", "UNAVAILABLE"}

\* Each step of a call keeps the shapes.
LEMMA CallShape ==
  ASSUME TabletShape, WantsState, TabletAssumption, NEW th \in Threads, CallStep(th)
  PROVE  TabletShape'
<1>1. thread[th] \in CallRecord BY DEF TabletShape
<1>2. CASE Find(th)
  <2> DEFINE c == [thread[th] EXCEPT !.at = "fill", !.todo = Work(th),
                     !.got = [t \in Tablets |-> IF t \in Scope(th) THEN repo[t] ELSE Absent]]
  <2>1. [t \in Tablets |-> IF t \in Scope(th) THEN repo[t] ELSE Absent] \in [Tablets -> States \cup {Absent}]
    BY DEF TabletShape
  <2>2. Work(th) \in SUBSET (Tablets \X (States \cup {"?"}))
    BY WorkType DEF WantsState, States
  <2>3. c \in CallRecord BY <1>1, <2>1, <2>2, CallChanges DEF Points
  <2>4. thread' = [thread EXCEPT ![th] = c] BY <1>2 DEF Find
  <2>5. QED BY <1>2, <2>3, <2>4, ThreadMoves DEF Find
<1>3. CASE FindFails(th)
  <2>1. [thread[th] EXCEPT !.at = "put", !.want = "table", !.value = "up"] \in CallRecord
    BY <1>1, CallChanges DEF Points, Levels
  <2>2. PICK c \in CallRecord : thread' = [thread EXCEPT ![th] = c]
    BY <1>3, <2>1, IdleIsCall DEF FindFails, End
  <2>3. QED BY <1>3, <2>2, ThreadMoves DEF FindFails
<1>4. CASE Fill(th)
  <2> DEFINE got == thread[th].got
  <2>1. got \in [Tablets -> States \cup {Absent}] BY <1>1 DEF CallRecord
  <2>2. Nothing \in [Tablets -> States \cup {Absent}] BY DEF Nothing
  <2>3. Up(got) \in {Absent, "up", "down"} BY DEF Up
  <2>4. PICK c \in CallRecord : thread' = [thread EXCEPT ![th] = c]
    BY <1>1, <1>4, <2>2, <2>3, CallChanges DEF Fill, Points, Levels
  <2>5. cache' \in [Tablets -> States \cup {Absent}] BY <1>4, <2>1 DEF Fill, TabletShape
  <2>6. thread' \in [Threads -> CallRecord] BY <2>4 DEF TabletShape
  <2>7. UpdateShape'
    <3>1. CASE update = Free
      BY <1>4, <3>1 DEF Fill, UpdateShape, Free
    <3>2. CASE update # Free
      <4>1. update \in UpdateRecord /\ thread[update.by].at = "updating" /\ update.by # th
        BY <1>4, <3>2 DEF TabletShape, UpdateShape, Fill
      <4>2. update' \in UpdateRecord /\ update'.by = update.by /\ update'.tablet = update.tablet
                                     /\ update'.want = update.want
        BY <1>4, <4>1 DEF Fill, UpdateRecord
      <4>3. thread'[update.by] = thread[update.by]
        BY <2>4, <4>1 DEF UpdateRecord, TabletShape
      <4>4. QED BY <3>2, <4>1, <4>2, <4>3 DEF TabletShape, UpdateShape
    <3>3. QED BY <3>1, <3>2
  <2>8. QED BY <1>4, <2>5, <2>6, <2>7 DEF Fill, TabletShape
<1>5. CASE UpdateNext(th)
  <2>1. PICK p \in thread[th].todo : p[2] # "?" /\ (Update(th, p[1], p[2]) \/ UpdateNotFound(th, p[1], p[2]))
    BY <1>5 DEF UpdateNext
  <2>2. p[1] \in Tablets /\ p[2] \in States /\ p = <<p[1], p[2]>> BY <1>1, <2>1 DEF CallRecord
  <2> DEFINE rest == {q \in thread[th].todo : q[1] # p[1]}
  <2>3. /\ [thread[th] EXCEPT !.at = "next", !.todo = rest] \in CallRecord
        /\ [thread[th] EXCEPT !.at = "updating"] \in CallRecord
    <3>1. rest \in SUBSET (Tablets \X (States \cup {"?"})) BY <1>1 DEF CallRecord
    <3>2. QED BY <1>1, <3>1, CallChanges DEF Points
  <2>4. CASE UpdateNotFound(th, p[1], p[2])
    BY <1>5, <2>3, <2>4, ThreadMoves DEF UpdateNotFound, Done, UpdateNext
  <2>5. CASE Update(th, p[1], p[2]) /\ UNCHANGED update
    <3>0. update # [by |-> th, tablet |-> p[1], want |-> p[2], shared |-> TRUE, at |-> "save"]
      BY <2>5 DEF Update, Free
    <3>1. thread' \in [Threads -> CallRecord]
      <4>1. Done(th, p[1]) BY <2>5, <3>0 DEF Update
      <4>2. QED BY <2>3, <4>1 DEF Done, TabletShape
    <3>2. cache' \in [Tablets -> States \cup {Absent}] BY <2>2, <2>5 DEF Update, TabletShape
    <3>3. QED BY <2>5, <3>1, <3>2 DEF Update, TabletShape, UpdateShape
  <2>6. CASE Update(th, p[1], p[2]) /\ update' # update
    <3>1. update' = [by |-> th, tablet |-> p[1], want |-> p[2], shared |-> TRUE, at |-> "save"]
          /\ thread' = [thread EXCEPT ![th].at = "updating"]
      BY <2>6 DEF Update, Goto
    <3>2. thread' \in [Threads -> CallRecord] /\ thread'[th].at = "updating" /\ thread'[th].todo = thread[th].todo
      BY <1>1, <2>3, <3>1 DEF TabletShape, CallRecord
    <3>3. cache' \in [Tablets -> States \cup {Absent}] BY <2>2, <2>6 DEF Update, TabletShape
    <3>4. UpdateShape' BY <2>1, <2>2, <3>1, <3>2 DEF UpdateShape, UpdateRecord
    <3>5. QED BY <2>6, <3>2, <3>3, <3>4 DEF Update, TabletShape
  <2>7. QED BY <2>1, <2>4, <2>5, <2>6
<1>6. ASSUME NEW t \in Tablets, RefreshTablet(th, t) PROVE TabletShape'
  <2>1. PICK s \in {"NORMAL", "UNAVAILABLE"} : thread' = [thread EXCEPT ![th].todo =
          (@ \ {<<t, "?">>}) \cup (IF Hosts[t] = {} \/ cache[t] = s THEN {} ELSE {<<t, s>>})]
    BY <1>6 DEF RefreshTablet
  <2> DEFINE S == (thread[th].todo \ {<<t, "?">>}) \cup (IF Hosts[t] = {} \/ cache[t] = s THEN {} ELSE {<<t, s>>})
  <2>2. S \in SUBSET (Tablets \X (States \cup {"?"})) BY <1>1 DEF CallRecord, States
  <2>3. [thread[th] EXCEPT !.todo = S] \in CallRecord BY <1>1, <2>2, CallChanges
  <2>4. thread' = [thread EXCEPT ![th] = [thread[th] EXCEPT !.todo = S]] BY <2>1
  <2>5. QED BY <1>6, <2>3, <2>4, ThreadMoves DEF RefreshTablet, Is
<1>7. CASE RefreshEnd(th)
  <2>1. \A p \in Levels : [thread[th] EXCEPT !.at = p] \in CallRecord BY <1>1, CallChanges DEF Points
  <2>2. Upper(thread[th].at) \in Levels BY DEF Upper, Levels
  <2>3. PICK c \in CallRecord : thread' = [thread EXCEPT ![th] = c]
    BY <1>7, <2>1, <2>2, IdleIsCall DEF RefreshEnd, End, Goto
  <2>4. status' \in [Levels -> {Absent, "up", "down"}] BY <1>7 DEF RefreshEnd, TabletShape
  <2>5. thread' \in [Threads -> CallRecord] BY <2>3 DEF TabletShape
  <2>6. thread[th].at # "updating" BY <1>7 DEF RefreshEnd, Levels
  <2>7. UpdateShape' BY <1>7, <2>3, <2>6 DEF RefreshEnd, TabletShape, UpdateShape, UpdateRecord
  <2>8. QED BY <1>7, <2>4, <2>5, <2>7 DEF RefreshEnd, TabletShape
<1>8. CASE UpdatesEnd(th)
  BY <1>8, IdleIsCall, ThreadMoves DEF UpdatesEnd, End
<1>9. CASE StatusLookup(th)
  <2> DEFINE l == thread[th].at
  <2>1. l \in Levels /\ Upper(l) \in Levels /\ status[l] \in {Absent, "up", "down"}
    BY <1>9 DEF StatusLookup, Upper, Levels, TabletShape
  <2>2. /\ [thread[th] EXCEPT !.at = "put", !.want = Upper(l), !.value = status[l]] \in CallRecord
        /\ [thread[th] EXCEPT !.at = "partition"] \in CallRecord
        /\ [thread[th] EXCEPT !.at = "find", !.want = l] \in CallRecord
    BY <1>1, <2>1, CallChanges DEF Points, Levels
  <2>3. PICK c \in CallRecord : thread' = [thread EXCEPT ![th] = c]
    BY <1>9, <2>2, IdleIsCall DEF StatusLookup
  <2>4. thread[th].at # "updating" BY <2>1 DEF Levels
  <2>5. UNCHANGED <<repo, cache, status, update>> BY <1>9 DEF StatusLookup
  <2>6. QED BY <2>3, <2>4, <2>5, ThreadMoves
<1>10. CASE StatusPut(th)
  <2>1. Upper(thread[th].want) \in Levels BY DEF Upper, Levels
  <2>2. [thread[th] EXCEPT !.want = Upper(thread[th].want)] \in CallRecord BY <1>1, <2>1, CallChanges
  <2>3. PICK c \in CallRecord : thread' = [thread EXCEPT ![th] = c]
    BY <1>10, <2>2, IdleIsCall DEF StatusPut
  <2>4. status' \in [Levels -> {Absent, "up", "down"}] BY <1>1, <1>10 DEF StatusPut, TabletShape, CallRecord
  <2>5. thread' \in [Threads -> CallRecord] BY <2>3 DEF TabletShape
  <2>6. UpdateShape' BY <1>10, <2>3 DEF StatusPut, Is, TabletShape, UpdateShape, UpdateRecord
  <2>7. QED BY <1>10, <2>4, <2>5, <2>6 DEF StatusPut, TabletShape
<1>11. CASE PartitionsFail(th)
  <2>1. /\ [thread[th] EXCEPT !.at = "put", !.want = "database", !.value = "down"] \in CallRecord
        /\ \A l \in {"partition", "table"} : [thread[th] EXCEPT !.at = l, !.todo = {}] \in CallRecord
    BY <1>1, CallChanges DEF Points, Levels
  <2>2. PICK c \in CallRecord : thread' = [thread EXCEPT ![th] = c]
    BY <1>11, <2>1, IdleIsCall, WithoutPartitions
  <2>3. QED BY <1>11, <2>2, ThreadMoves, WithoutPartitions
<1>12. QED BY <1>2, <1>3, <1>4, <1>5, <1>6, <1>7, <1>8, <1>9, <1>10, <1>11 DEF CallStep

\* A step of the update under way.
LEMMA UpdateStepShape ==
  ASSUME TabletShape, UpdateStep
  PROVE  TabletShape'
<1>1. update \in UpdateRecord /\ thread[update.by].at = "updating"
  BY DEF UpdateStep, Save, SaveFails, Set, Invalidate, TabletShape, UpdateShape, Free
<1> DEFINE th == update.by
           rest == {p \in thread[th].todo : p[1] # update.tablet}
<1>2. th \in Threads /\ thread[th] \in CallRecord /\ update.tablet \in Tablets /\ update.want \in States
  BY <1>1 DEF UpdateRecord, TabletShape
<1>3. [thread[th] EXCEPT !.at = "next", !.todo = rest] \in CallRecord
  <2>1. rest \in SUBSET (Tablets \X (States \cup {"?"})) BY <1>2 DEF CallRecord
  <2>2. QED BY <1>2, <2>1, CallChanges DEF Points
<1>4. ASSUME Done(th, update.tablet) PROVE thread' \in [Threads -> CallRecord]
  BY <1>3, <1>4 DEF Done, TabletShape
<1>5. ASSUME NEW a \in {"set", "invalidate"}, update' = [update EXCEPT !.at = a], thread' = thread
      PROVE  UpdateShape'
  BY <1>1, <1>5 DEF UpdateShape, TabletShape, UpdateRecord, Free
<1>6. CASE Save
  BY <1>2, <1>5, <1>6 DEF Save, TabletShape
<1>7. CASE SaveFails
  BY <1>4, <1>7 DEF SaveFails, TabletShape, UpdateShape
<1>8. CASE Set
  BY <1>2, <1>5, <1>8 DEF Set, TabletShape
<1>9. CASE Invalidate
  BY <1>4, <1>9 DEF Invalidate, TabletShape, UpdateShape
<1>10. QED BY <1>6, <1>7, <1>8, <1>9 DEF UpdateStep

\* A call begins.
LEMMA BeginShape ==
  ASSUME TabletShape, NEW th \in Threads, NEW c \in CallRecord, Begin(th, c),
         UNCHANGED <<repo, cache, status, update>>
  PROVE  TabletShape'
<1>1. thread[th].at # "updating" /\ thread' = [thread EXCEPT ![th] = c] BY DEF Begin, Idle
<1>2. QED BY <1>1, ThreadMoves

LEMMA CallsShape ==
  ASSUME TabletShape, TabletAssumption, NEW th \in Threads,
         UpdateTabletStatus(th) \/ RefreshStatus(th) \/ GetStatus(th)
  PROVE  TabletShape'
<1>1. ASSUME NEW t \in Tablets, NEW s \in Targets
      PROVE  [Idle EXCEPT !.op = "update", !.at = "next", !.todo = {<<t, s>>}] \in CallRecord
  <2>1. {<<t, s>>} \in SUBSET (Tablets \X (States \cup {"?"})) BY DEF TabletAssumption
  <2>2. QED BY <2>1 DEF Idle, CallRecord, Points, Nothing, Absent
<1>2. ASSUME NEW l \in Levels
      PROVE  /\ [Idle EXCEPT !.op = "refresh", !.at = "find", !.level = l] \in CallRecord
             /\ [Idle EXCEPT !.op = "status", !.at = l, !.level = l] \in CallRecord
  BY DEF Idle, CallRecord, Points, Nothing, Absent
<1>3. PICK c \in CallRecord : Call(th, c)
  BY <1>1, <1>2 DEF UpdateTabletStatus, RefreshStatus, GetStatus
<1>4. QED BY <1>3, BeginShape DEF Call

-----------------------------------------------------------------------------
(* What the calls under way may do to a tablet was heard of a backend that *)
(* decides on it, or the tablet is touched by somebody else.               *)

StateFor(s) == IF s = "alive" THEN "NORMAL" ELSE "UNAVAILABLE"

Justified(t, s) ==
  \/ t \in touched
  \/ \E b \in Backends, v \in {"alive", "dead"} : <<b, v>> \in heard /\ Decides(b, t) /\ s = StateFor(v)

CallJustified(c) ==
  /\ c.op = "handle" => /\ c.level \in Backends
                        /\ \E v \in {"alive", "dead"} : <<c.level, v>> \in heard /\ c.want = StateFor(v)
  /\ c.op = "refresh" => Tablets \subseteq touched
  /\ \A p \in c.todo : p[2] = "?" \/ Justified(p[1], p[2])

NotesHeard ==
  \A note \in notes : /\ note.backend \in Backends /\ note.state \in {"alive", "dead"}
                      /\ <<note.backend, note.state>> \in heard

HeardInv == /\ touched \subseteq Tablets
            /\ NotesHeard
            /\ \A th \in Threads : CallJustified(thread[th])

\* What was heard, and who is touched, is never forgotten.
LEMMA JustifiedStays ==
  ASSUME heard \subseteq heard', touched \subseteq touched', NEW c, CallJustified(c)
  PROVE  CallJustified(c)'
<1>1. ASSUME NEW t, NEW s, Justified(t, s) PROVE Justified(t, s)'
  BY <1>1 DEF Justified
<1>2. QED BY <1>1 DEF CallJustified

\* A call that keeps its purpose and has no more to do.
LEMMA Narrows ==
  ASSUME NEW c, CallJustified(c), NEW d,
         d.op = c.op, c.op = "handle" => (d.level = c.level /\ d.want = c.want), d.todo \subseteq c.todo
  PROVE  CallJustified(d)
  BY DEF CallJustified

LEMMA IdleJustified == CallJustified(Idle)
  BY DEF CallJustified, Idle

\* A step of a call, with the tablets touched as they are.
LEMMA CallStaysJustified ==
  ASSUME TabletShape, HeardInv, NEW th \in Threads, CallStep(th)
  PROVE  /\ \E c : thread' = [thread EXCEPT ![th] = c] /\ CallJustified(c)
         /\ UNCHANGED touched
<1> DEFINE o == thread[th]
<1>1. o \in CallRecord /\ CallJustified(o) BY DEF TabletShape, HeardInv
<1>2. ASSUME NEW c, thread' = [thread EXCEPT ![th] = c], CallJustified(c), UNCHANGED touched
      PROVE  /\ \E d : thread' = [thread EXCEPT ![th] = d] /\ CallJustified(d)
             /\ UNCHANGED touched
  BY <1>2
<1>3. CASE Find(th)
  <2> DEFINE got == [t \in Tablets |-> IF t \in Scope(th) THEN repo[t] ELSE Absent]
             c == [o EXCEPT !.at = "fill", !.todo = Work(th), !.got = got]
  <2>1. c.op = o.op /\ c.level = o.level /\ c.want = o.want /\ c.todo = Work(th)
    BY <1>1 DEF CallRecord
  <2>2. ASSUME NEW p \in Work(th) PROVE p[2] = "?" \/ Justified(p[1], p[2])
    <3>1. CASE o.op = "handle"
      <4>1. PICK t \in Tablets : p = <<t, o.want>> /\ IsToUpdate(o.level, t)
        BY <2>2, <3>1 DEF Work, Scope
      <4>2. PICK v \in {"alive", "dead"} : <<o.level, v>> \in heard /\ o.want = StateFor(v)
        BY <1>1, <3>1 DEF CallJustified
      <4>3. o.level \in Backends BY <1>1, <3>1 DEF CallJustified
      <4>4. Justified(t, o.want) BY <4>1, <4>2, <4>3 DEF Justified, IsToUpdate, Decides
      <4>5. p[1] = t /\ p[2] = o.want BY <4>1
      <4>6. QED BY <4>4, <4>5
    <3>2. CASE o.op # "handle"
      BY <2>2, <3>2 DEF Work
    <3>3. QED BY <3>1, <3>2
  <2>3. CallJustified(c) BY <1>1, <2>1, <2>2 DEF CallJustified
  <2>4. thread' = [thread EXCEPT ![th] = c] /\ UNCHANGED touched BY <1>3 DEF Find
  <2>5. QED BY <1>2, <2>3, <2>4
<1>4. CASE FindFails(th)
  <2> DEFINE c == [o EXCEPT !.at = "put", !.want = "table", !.value = "up"]
  <2>1. o.op = "status" => CallJustified(c) BY <1>1, Narrows DEF CallRecord
  <2>2. QED BY <1>2, <1>4, <2>1, IdleJustified DEF FindFails, End
<1>5. CASE Fill(th)
  <2> DEFINE c1 == [o EXCEPT !.at = "next", !.got = Nothing]
             c2 == [o EXCEPT !.at = "put", !.value = Up(o.got), !.got = Nothing]
             c3 == [o EXCEPT !.at = "table", !.got = Nothing]
  <2>1. CallJustified(c1) /\ CallJustified(c2) /\ CallJustified(c3)
    <3>1. /\ c1.op = o.op /\ c1.level = o.level /\ c1.want = o.want /\ c1.todo = o.todo
          /\ c2.op = o.op /\ c2.level = o.level /\ c2.want = o.want /\ c2.todo = o.todo
          /\ c3.op = o.op /\ c3.level = o.level /\ c3.want = o.want /\ c3.todo = o.todo
      BY <1>1 DEF CallRecord
    <3>2. QED BY <1>1, <3>1, Narrows
  <2>2. UNCHANGED touched BY <1>5 DEF Fill
  <2>3. \/ thread' = [thread EXCEPT ![th] = c1]
        \/ thread' = [thread EXCEPT ![th] = c2]
        \/ thread' = [thread EXCEPT ![th] = c3]
    BY <1>5 DEF Fill
  <2>4. QED BY <1>2, <2>1, <2>2, <2>3
<1>6. CASE UpdateNext(th)
  <2>1. PICK p \in o.todo : Update(th, p[1], p[2]) \/ UpdateNotFound(th, p[1], p[2])
    BY <1>6 DEF UpdateNext
  <2> DEFINE c1 == [o EXCEPT !.at = "next", !.todo = {q \in o.todo : q[1] # p[1]}]
             c2 == [o EXCEPT !.at = "updating"]
  <2>2. CallJustified(c1) /\ CallJustified(c2)
    <3>1. /\ c1.op = o.op /\ c1.level = o.level /\ c1.want = o.want /\ c1.todo \subseteq o.todo
          /\ c2.op = o.op /\ c2.level = o.level /\ c2.want = o.want /\ c2.todo = o.todo
      BY <1>1 DEF CallRecord
    <3>2. QED BY <1>1, <3>1, Narrows
  <2>3. UNCHANGED touched BY <2>1 DEF Update, UpdateNotFound
  <2>4. thread' = [thread EXCEPT ![th] = c1] \/ thread' = [thread EXCEPT ![th] = c2]
    BY <2>1 DEF Update, UpdateNotFound, Done, Goto
  <2>5. QED BY <1>2, <2>2, <2>3, <2>4
<1>7. ASSUME NEW t \in Tablets, RefreshTablet(th, t)
      PROVE  (\E c : thread' = [thread EXCEPT ![th] = c] /\ CallJustified(c)) /\ UNCHANGED touched
  <2>1. PICK s : thread' = [thread EXCEPT ![th].todo =
          (@ \ {<<t, "?">>}) \cup (IF Hosts[t] = {} \/ cache[t] = s THEN {} ELSE {<<t, s>>})]
    BY <1>7 DEF RefreshTablet
  <2> DEFINE S == (o.todo \ {<<t, "?">>}) \cup (IF Hosts[t] = {} \/ cache[t] = s THEN {} ELSE {<<t, s>>})
             c == [o EXCEPT !.todo = S]
  <2>2. c.op = "refresh" /\ c.todo = S /\ o.op = "refresh"
    BY <1>1, <1>7 DEF CallRecord, RefreshTablet, Is
  <2>3. \A p \in S : p[2] = "?" \/ Justified(p[1], p[2])
    BY <1>1, <1>7, <2>2 DEF CallJustified, Justified
  <2>4. CallJustified(c) BY <1>1, <2>2, <2>3 DEF CallJustified
  <2>5. thread' = [thread EXCEPT ![th] = c] /\ UNCHANGED touched BY <1>7, <2>1 DEF RefreshTablet
  <2>6. QED BY <1>2, <2>4, <2>5
<1>8. CASE RefreshEnd(th)
  <2>1. ASSUME NEW l PROVE CallJustified([o EXCEPT !.at = l])
    BY <1>1, Narrows DEF CallRecord
  <2>2. UNCHANGED touched BY <1>8 DEF RefreshEnd
  <2>3. thread' = [thread EXCEPT ![th] = Idle] \/ \E l : thread' = [thread EXCEPT ![th] = [o EXCEPT !.at = l]]
    BY <1>8 DEF RefreshEnd, End, Goto
  <2>4. QED BY <1>2, <2>1, <2>2, <2>3, IdleJustified
<1>9. CASE UpdatesEnd(th)
  BY <1>2, <1>9, IdleJustified DEF UpdatesEnd, End
<1>10. CASE StatusLookup(th)
  <2> DEFINE c1 == [o EXCEPT !.at = "put", !.want = Upper(o.at), !.value = status[o.at]]
             c2 == [o EXCEPT !.at = "partition"]
             c3 == [o EXCEPT !.at = "find", !.want = o.at]
  <2>1. CallJustified(c1) /\ CallJustified(c2) /\ CallJustified(c3)
    <3>1. /\ c1.op = o.op /\ c1.todo = o.todo /\ c2.op = o.op /\ c2.todo = o.todo
          /\ c3.op = o.op /\ c3.todo = o.todo /\ o.op = "status"
      BY <1>1, <1>10 DEF CallRecord, StatusLookup
    <3>2. QED BY <1>1, <3>1, Narrows
  <2>2. UNCHANGED touched BY <1>10 DEF StatusLookup
  <2>3. \/ thread' = [thread EXCEPT ![th] = c1] \/ thread' = [thread EXCEPT ![th] = c2]
        \/ thread' = [thread EXCEPT ![th] = c3] \/ thread' = [thread EXCEPT ![th] = Idle]
    BY <1>10 DEF StatusLookup
  <2>4. QED BY <1>2, <2>1, <2>2, <2>3, IdleJustified
<1>11. CASE StatusPut(th)
  <2>1. ASSUME NEW l PROVE CallJustified([o EXCEPT !.want = l])
    <3>1. o.op = "status" BY <1>11 DEF StatusPut, Is
    <3>2. QED BY <1>1, <3>1, Narrows DEF CallRecord
  <2>2. QED BY <1>2, <1>11, <2>1, IdleJustified DEF StatusPut
<1>12. CASE PartitionsFail(th)
  <2> DEFINE c1 == [o EXCEPT !.at = "put", !.want = "database", !.value = "down"]
  <2>1. o.op # "handle" BY <1>12, WithoutPartitions
  <2>2. CallJustified(c1)
    <3>1. c1.op = o.op /\ c1.todo = o.todo BY <1>1 DEF CallRecord
    <3>2. QED BY <1>1, <2>1, <3>1, Narrows
  <2>3. ASSUME NEW l PROVE CallJustified([o EXCEPT !.at = l, !.todo = {}])
    <3>1. [o EXCEPT !.at = l, !.todo = {}].op = o.op /\ [o EXCEPT !.at = l, !.todo = {}].todo = {}
      BY <1>1 DEF CallRecord
    <3>2. QED BY <1>1, <2>1, <3>1, Narrows
  <2>4. UNCHANGED touched BY <1>12, WithoutPartitions
  <2>5. \/ thread' = [thread EXCEPT ![th] = Idle] \/ thread' = [thread EXCEPT ![th] = c1]
        \/ \E l : thread' = [thread EXCEPT ![th] = [o EXCEPT !.at = l, !.todo = {}]]
    BY <1>12, WithoutPartitions
  <2>6. QED BY <1>2, <2>2, <2>3, <2>4, <2>5, IdleJustified
<1>13. QED BY <1>3, <1>4, <1>5, <1>6, <1>7, <1>8, <1>9, <1>10, <1>11, <1>12 DEF CallStep

LEMMA HeardIsWanted ==
  ASSUME HeardInv
  PROVE  WantsState
  BY DEF HeardInv, CallJustified, WantsState, StateFor

\* A step that moves at most one thread, to a justified call, and forgets
\* nothing.
LEMMA HeardMoves ==
  ASSUME HeardInv, heard \subseteq heard', touched \subseteq touched', touched' \subseteq Tablets, NotesHeard',
         NEW th \in Threads, NEW c, thread' = [thread EXCEPT ![th] = c], CallJustified(c)',
         thread \in [Threads -> CallRecord]
  PROVE  HeardInv'
<1>1. ASSUME NEW x \in Threads PROVE CallJustified(thread[x])'
  <2>1. CASE x = th
    <3>1. thread'[x] = c BY <2>1
    <3>2. QED BY <3>1
  <2>2. CASE x # th
    <3>1. PICK d : d = thread[x] OBVIOUS
    <3>2. CallJustified(d) BY <3>1 DEF HeardInv
    <3>3. CallJustified(d)' BY <3>2, JustifiedStays
    <3>4. thread'[x] = d BY <2>2, <3>1
    <3>5. QED BY <3>3, <3>4
  <2>3. QED BY <2>1, <2>2
<1>2. QED BY <1>1 DEF HeardInv

-----------------------------------------------------------------------------
(* The shapes and what was heard are an inductive invariant.               *)

Base == TabletShape /\ HeardInv

LEMMA BaseInit == Init => Base
<1> SUFFICES ASSUME Init PROVE Base OBVIOUS
<1>1. thread = [th \in Threads |-> Idle] /\ notes = {} /\ touched = {} /\ update = Free
  BY DEF Init, TabletInit, MonitorInit
<1>2. TabletShape
  BY <1>1, IdleIsCall DEF Init, TabletInit, TabletShape, UpdateShape, Nothing, States, Absent
<1>3. HeardInv BY <1>1, IdleJustified DEF HeardInv, NotesHeard
<1>4. QED BY <1>2, <1>3 DEF Base

LEMMA CheckBase == Base /\ Check => Base'
<1> SUFFICES ASSUME Base, Check PROVE Base' OBVIOUS
<1>1. TabletShape'
  BY DEF Base, Check, TabletShape, UpdateShape, tabletVars, boundVars, lateVars
<1>2. /\ heard \subseteq heard' /\ thread' = thread /\ touched' = touched
      /\ heard' = heard \cup {<<note.backend, note.state>> : note \in notes' \ notes}
  BY DEF Check, tabletVars
<1>3. NotesHeard'
  <2>1. PICK report \in Reports : Observe(report) BY DEF Check
  <2> SUFFICES ASSUME NEW note \in notes'
               PROVE  /\ note.backend \in Backends /\ note.state \in {"alive", "dead"}
                      /\ <<note.backend, note.state>> \in heard'
    BY DEF NotesHeard
  <2>2. CASE note \in notes BY <1>2, <2>2 DEF Base, HeardInv, NotesHeard
  <2>3. CASE note \notin notes
    <3>1. PICK b \in Changed(report) : note = [backend |-> b, state |-> StateIn(report, b), n |-> sent + 1]
      BY <2>1, <2>3 DEF Observe
    <3>2. note.backend = b /\ note.state = StateIn(report, b) BY <3>1
    <3>3. b \in Backends /\ StateIn(report, b) \in {"alive", "dead"} BY DEF Changed, Named, StateIn
    <3>4. QED BY <1>2, <2>3, <3>2, <3>3
  <2>4. QED BY <2>2, <2>3
<1>4. ASSUME NEW th \in Threads PROVE CallJustified(thread[th])'
  <2>1. PICK d : d = thread[th] OBVIOUS
  <2>2. CallJustified(d) BY <2>1 DEF Base, HeardInv
  <2>3. CallJustified(d)' BY <1>2, <2>2, JustifiedStays
  <2>4. QED BY <1>2, <2>1, <2>3
<1>5. HeardInv' BY <1>2, <1>3, <1>4 DEF Base, HeardInv
<1>6. QED BY <1>1, <1>5 DEF Base

LEMMA DeliverBase ==
  ASSUME Base, NEW th \in Threads, NEW note \in notes, Deliver(th, note), UNCHANGED <<crossed, heard>>
  PROVE  Base'
<1> DEFINE c == [Idle EXCEPT !.op = "handle", !.at = "find", !.level = note.backend,
                             !.want = IF note.state = "alive" THEN "NORMAL" ELSE "UNAVAILABLE"]
<1>1. /\ note.backend \in Backends /\ note.state \in {"alive", "dead"}
      /\ <<note.backend, note.state>> \in heard
  BY DEF Base, HeardInv, NotesHeard
<1>2. c \in CallRecord
  <2>1. Nothing \in [Tablets -> States \cup {Absent}] BY DEF Nothing
  <2>2. QED BY <1>1, <2>1 DEF CallRecord, Idle, Points, Absent, States
<1>3. Begin(th, c) /\ UNCHANGED <<repo, cache, status, update, touched>>
  BY DEF Deliver, HandleBackendStateChange
<1>4. TabletShape' BY <1>2, <1>3, BeginShape DEF Base
<1>5. CallJustified(c)' BY <1>1 DEF CallJustified, Idle, StateFor
<1>6. NotesHeard' BY DEF Deliver, Base, HeardInv, NotesHeard
<1>7. PICK d : d = c OBVIOUS
<1>8. HeardInv' BY <1>3, <1>5, <1>6, <1>7, HeardMoves DEF Begin, Base, TabletShape, HeardInv
<1>9. QED BY <1>4, <1>8 DEF Base

LEMMA UpdateStepBase ==
  ASSUME Base, UpdateStep, UNCHANGED <<monitorVars, crossed, heard>>
  PROVE  Base'
<1>1. TabletShape' BY UpdateStepShape DEF Base
<1>2. UNCHANGED touched BY DEF UpdateStep, Save, SaveFails, Set, Invalidate
<1>3. NotesHeard' BY DEF Base, HeardInv, NotesHeard, monitorVars, noteVars
<1>4. CASE UNCHANGED thread
  <2>1. UNCHANGED heard OBVIOUS
  <2>2. ASSUME NEW th \in Threads PROVE CallJustified(thread[th])'
    <3>1. CallJustified(thread[th]) BY DEF Base, HeardInv
    <3>2. QED BY <1>2, <1>4, <2>1, <3>1 DEF CallJustified, Justified
  <2>3. QED BY <1>1, <1>2, <1>3, <2>2 DEF Base, HeardInv
<1>5. CASE Done(update.by, update.tablet)
  <2> DEFINE th == update.by
             rest == {p \in thread[th].todo : p[1] # update.tablet}
             c == [thread[th] EXCEPT !.at = "next", !.todo = rest]
  <2>1. th \in Threads /\ thread[th] \in CallRecord
    BY DEF UpdateStep, Save, SaveFails, Set, Invalidate, Base, TabletShape, UpdateShape, UpdateRecord, Free
  <2>2. CallJustified(thread[th]) BY <2>1 DEF Base, HeardInv
  <2>3. c.op = thread[th].op /\ c.level = thread[th].level /\ c.want = thread[th].want /\ c.todo = rest
    BY <2>1 DEF CallRecord
  <2>4. PICK d : d = c OBVIOUS
  <2>5. CallJustified(d) BY <2>2, <2>3, <2>4, Narrows
  <2>6. CallJustified(d)' BY <1>2, <2>5, JustifiedStays
  <2>7. thread' = [thread EXCEPT ![th] = d] BY <1>5, <2>4 DEF Done
  <2>8. QED BY <1>1, <1>2, <1>3, <2>1, <2>6, <2>7, HeardMoves DEF Base, HeardInv, TabletShape
<1>6. (UNCHANGED thread) \/ Done(update.by, update.tablet)
  BY DEF UpdateStep, Save, SaveFails, Set, Invalidate
<1>7. QED BY <1>4, <1>5, <1>6

LEMMA CallStepBase ==
  ASSUME TabletAssumption, Base, NEW th \in Threads, CallStep(th), UNCHANGED <<monitorVars, crossed, heard>>
  PROVE  Base'
<1>1. TabletShape' BY CallShape, HeardIsWanted DEF Base
<1>2. PICK c : thread' = [thread EXCEPT ![th] = c] /\ CallJustified(c)
  BY CallStaysJustified DEF Base
<1>3. UNCHANGED touched BY CallStaysJustified DEF Base
<1>4. NotesHeard' BY DEF Base, HeardInv, NotesHeard, monitorVars, noteVars
<1>5. CallJustified(c)' BY <1>2, <1>3, JustifiedStays
<1>6. HeardInv' BY <1>2, <1>3, <1>4, <1>5, HeardMoves DEF Base, HeardInv, TabletShape
<1>7. QED BY <1>1, <1>6 DEF Base

LEMMA CallsBase ==
  ASSUME TabletAssumption, Base, NEW th \in Threads, UNCHANGED <<monitorVars, crossed, heard>>,
         UpdateTabletStatus(th) \/ RefreshStatus(th) \/ GetStatus(th)
  PROVE  Base'
<1>1. TabletShape' BY CallsShape DEF Base
<1>2. NotesHeard' BY DEF Base, HeardInv, NotesHeard, monitorVars, noteVars
<1>3. touched \subseteq Tablets /\ thread \in [Threads -> CallRecord] BY DEF Base, HeardInv, TabletShape
<1>4. CASE UpdateTabletStatus(th)
  <2>1. PICK t \in Tablets, s \in Targets :
          /\ Call(th, [Idle EXCEPT !.op = "update", !.at = "next", !.todo = {<<t, s>>}])
          /\ touched' = touched \cup {t}
    BY <1>4 DEF UpdateTabletStatus
  <2> DEFINE c == [Idle EXCEPT !.op = "update", !.at = "next", !.todo = {<<t, s>>}]
  <2>2. CallJustified(c)' BY <2>1 DEF CallJustified, Justified, Idle
  <2>3. thread' = [thread EXCEPT ![th] = c] BY <2>1 DEF Call, Begin
  <2>4. HeardInv' BY <1>2, <1>3, <2>1, <2>2, <2>3, HeardMoves DEF Base
  <2>5. QED BY <1>1, <2>4 DEF Base
<1>5. CASE RefreshStatus(th)
  <2>1. PICK l \in Levels : /\ Call(th, [Idle EXCEPT !.op = "refresh", !.at = "find", !.level = l])
                            /\ touched' = Tablets
    BY <1>5 DEF RefreshStatus
  <2> DEFINE c == [Idle EXCEPT !.op = "refresh", !.at = "find", !.level = l]
  <2>2. CallJustified(c)' BY <2>1 DEF CallJustified, Justified, Idle
  <2>3. thread' = [thread EXCEPT ![th] = c] BY <2>1 DEF Call, Begin
  <2>4. HeardInv' BY <1>2, <1>3, <2>1, <2>2, <2>3, HeardMoves DEF Base
  <2>5. QED BY <1>1, <2>4 DEF Base
<1>6. CASE GetStatus(th)
  <2>1. PICK l \in Levels : Call(th, [Idle EXCEPT !.op = "status", !.at = l, !.level = l])
    BY <1>6 DEF GetStatus
  <2> DEFINE c == [Idle EXCEPT !.op = "status", !.at = l, !.level = l]
  <2>2. CallJustified(c)' BY DEF CallJustified, Justified, Idle
  <2>3. thread' = [thread EXCEPT ![th] = c] BY <2>1 DEF Call, Begin
  <2>4. UNCHANGED touched BY <1>6 DEF GetStatus
  <2>5. HeardInv' BY <1>2, <1>3, <2>4, <2>2, <2>3, HeardMoves DEF Base
  <2>6. QED BY <1>1, <2>5 DEF Base
<1>7. QED BY <1>4, <1>5, <1>6

LEMMA ExpireBase ==
  ASSUME Base, NEW l \in Levels, Expire(l), UNCHANGED <<monitorVars, crossed, heard>>
  PROVE  Base'
<1>1. UNCHANGED <<repo, cache, update, thread, touched, notes, heard>>
  BY DEF Expire, monitorVars, noteVars
<1>2. status' \in [Levels -> {Absent, "up", "down"}] BY DEF Expire, Base, TabletShape
<1>3. QED BY <1>1, <1>2 DEF Base, TabletShape, UpdateShape, HeardInv, NotesHeard, CallJustified, Justified

LEMMA BaseStep == TabletAssumption /\ Base /\ [Next]_vars => Base'
<1> SUFFICES ASSUME TabletAssumption, Base, [Next]_vars PROVE Base' OBVIOUS
<1>1. CASE Check BY <1>1, CheckBase
<1>2. ASSUME NEW th \in Threads, UNCHANGED <<monitorVars, crossed, heard>>,
             UpdateTabletStatus(th) \/ RefreshStatus(th) \/ GetStatus(th)
      PROVE Base'
  BY <1>2, CallsBase
<1>3. ASSUME NEW th \in Threads, UNCHANGED <<monitorVars, crossed, heard>>, CallStep(th) PROVE Base'
  BY <1>3, CallStepBase
<1>4. CASE UpdateStep /\ UNCHANGED <<monitorVars, crossed, heard>> BY <1>4, UpdateStepBase
<1>5. ASSUME NEW l \in Levels, Expire(l), UNCHANGED <<monitorVars, crossed, heard>> PROVE Base'
  BY <1>5, ExpireBase
<1>6. ASSUME NEW th \in Threads, NEW note \in notes, Deliver(th, note), UNCHANGED <<crossed, heard>>
      PROVE Base'
  BY <1>6, DeliverBase
<1>7. CASE UNCHANGED vars
  BY <1>7 DEF vars, monitorVars, noteVars, tabletVars, boundVars, lateVars,
              Base, TabletShape, UpdateShape, HeardInv, NotesHeard, CallJustified, Justified
<1>8. QED BY <1>1, <1>2, <1>3, <1>4, <1>5, <1>6, <1>7 DEF Next, TabletNext

LEMMA SpecBase == Spec => []Base
<1>1. TabletAssumption BY TabletAssumption
<1>2. QED BY <1>1, BaseInit, BaseStep, PTL DEF Spec

-----------------------------------------------------------------------------
(* The repository implements TabletOutage.                                 *)

LEMMA StepIsLocal ==
  ASSUME TabletAssumption, Base, [Next]_vars
  PROVE  [Outage!Next]_<<repo, heard, touched>>
<1>1. CASE Check
  <2>1. heard' = heard \cup {<<note.backend, note.state>> : note \in notes' \ notes}
    BY <1>1 DEF Check
  <2>2. NotesHeard'
    BY <1>1, CheckBase DEF Base, HeardInv
  <2> DEFINE h == {<<note.backend, note.state>> : note \in notes' \ notes}
  <2>3. h \subseteq Backends \X {"alive", "dead"} BY <2>2 DEF NotesHeard
  <2>4. UNCHANGED <<repo, touched>> BY <1>1 DEF Check, tabletVars
  <2>5. Outage!Hear BY <2>1, <2>3, <2>4 DEF Outage!Hear
  <2>6. QED BY <2>5 DEF Outage!Next
<1>2. ASSUME NEW th \in Threads, UNCHANGED <<monitorVars, crossed, heard>>,
             UpdateTabletStatus(th) \/ RefreshStatus(th) \/ GetStatus(th)
      PROVE Outage!Give
  <2>1. UNCHANGED <<repo, heard>>
    BY <1>2 DEF UpdateTabletStatus, RefreshStatus, GetStatus, Call
  <2>2. touched \subseteq touched'
    BY <1>2, ZenonT(60) DEF UpdateTabletStatus, RefreshStatus, GetStatus, Base, HeardInv
  <2>3. QED BY <2>1, <2>2 DEF Outage!Give
<1>3. ASSUME NEW th \in Threads, UNCHANGED <<monitorVars, crossed, heard>>, CallStep(th)
      PROVE UNCHANGED <<repo, heard, touched>>
  BY <1>3, CallStaysJustified
     DEF Base, CallStep, Find, FindFails, Fill, UpdateNext, Update, UpdateNotFound, RefreshTablet,
         RefreshEnd, UpdatesEnd, StatusLookup, StatusPut, PartitionsFail
<1>4. CASE Save /\ UNCHANGED <<monitorVars, crossed, heard>>
  <2> DEFINE t == update.tablet
             s == update.want
  <2>1. /\ update \in UpdateRecord /\ <<t, s>> \in thread[update.by].todo
    BY <1>4 DEF Save, Base, TabletShape, UpdateShape, Free
  <2>2. t \in Tablets /\ s \in States BY <2>1 DEF UpdateRecord
  <2>3. s # "?" BY <2>2 DEF States
  <2>4. CallJustified(thread[update.by]) BY <2>1 DEF Base, HeardInv, UpdateRecord
  <2>5. Justified(t, s) BY <2>1, <2>3, <2>4 DEF CallJustified
  <2>6. repo' = [repo EXCEPT ![t] = s] /\ UNCHANGED <<heard, touched>> BY <1>4 DEF Save
  <2>7. CASE t \in touched
    <3>1. Outage!Change(t) BY <2>6, <2>7 DEF Outage!Change, Base, TabletShape
    <3>2. QED BY <2>2, <3>1 DEF Outage!Next
  <2>8. CASE t \notin touched
    <3>1. Outage!Follow(t) BY <2>5, <2>6, <2>8 DEF Outage!Follow, Outage!Follows, Justified, StateFor
    <3>2. QED BY <2>2, <3>1 DEF Outage!Next
  <2>9. QED BY <2>7, <2>8
<1>5. CASE (SaveFails \/ Set \/ Invalidate) /\ UNCHANGED <<monitorVars, crossed, heard>>
  BY <1>5 DEF SaveFails, Set, Invalidate
<1>6. ASSUME NEW l \in Levels, Expire(l), UNCHANGED <<monitorVars, crossed, heard>>
      PROVE UNCHANGED <<repo, heard, touched>>
  BY <1>6 DEF Expire
<1>7. ASSUME NEW th \in Threads, NEW note \in notes, Deliver(th, note), UNCHANGED <<crossed, heard>>
      PROVE UNCHANGED <<repo, heard, touched>>
  BY <1>7 DEF Deliver, HandleBackendStateChange
<1>8. CASE UNCHANGED vars BY <1>8 DEF vars, tabletVars
<1>9. QED BY <1>1, <1>2, <1>3, <1>4, <1>5, <1>6, <1>7, <1>8 DEF Next, TabletNext, UpdateStep, Outage!Next

\* The manager with its caches, its threads and the monitor's notes, which may
\* run in either order, implements TabletOutage: a tablet takes only the state
\* of a backend that decides on it and was heard to be in that state, unless a
\* call other than the monitor's may change it.  The steps of
\* HandleBackendStateChange and UpdateTabletStatus carry the reason of each
\* update from the note to the save.
THEOREM OutageIsImplemented == Spec => OutageIsLocal
<1>1. TabletAssumption BY TabletAssumption
<1>2. Init => Outage!Init BY DEF Init, TabletInit, Outage!Init
<1>3. QED BY <1>1, <1>2, SpecBase, StepIsLocal, PTL DEF Spec, OutageIsLocal, Outage!Spec

-----------------------------------------------------------------------------
(* The cached statuses.                                                    *)

\* A step that leaves repository and statuses alone, and leaves the update
\* between its save and its invalidation if it is there.
LEMMA StatusStays ==
  ASSUME StatusFollowsTablets, UNCHANGED <<repo, status, lateStatus>>,
         update.at \in {"set", "invalidate"} => update'.at \in {"set", "invalidate"}
  PROVE  StatusFollowsTablets'
  BY DEF StatusFollowsTablets, Up

\* A status is put, or dropped.
LEMMA StatusChanges ==
  ASSUME StatusFollowsTablets, TabletShape, NEW l \in Levels, NEW v, UNCHANGED <<repo, update>>,
         status' = [status EXCEPT ![l] = v],
         lateStatus' = IF v \in {Absent, Up(repo)} THEN lateStatus \ {l} ELSE lateStatus \cup {l}
  PROVE  StatusFollowsTablets'
<1> SUFFICES ASSUME update.at \notin {"set", "invalidate"}, NEW k \in Levels \ lateStatus'
             PROVE  status'[k] \in {Absent, Up(repo)}
  BY DEF StatusFollowsTablets, Up
<1>1. CASE k = l BY <1>1 DEF TabletShape
<1>2. CASE k # l
  <2>1. status'[k] = status[k] /\ k \notin lateStatus BY <1>2 DEF TabletShape
  <2>2. QED BY <2>1 DEF StatusFollowsTablets
<1>3. QED BY <1>1, <1>2

LEMMA StatusStep ==
  ASSUME TabletAssumption, Base, StatusFollowsTablets, [Next]_vars
  PROVE  StatusFollowsTablets'
<1>1. CASE Check BY <1>1, StatusStays DEF Check, tabletVars
<1>2. ASSUME NEW th \in Threads, UpdateTabletStatus(th) \/ RefreshStatus(th) \/ GetStatus(th)
      PROVE  StatusFollowsTablets'
  BY <1>2, StatusStays DEF UpdateTabletStatus, RefreshStatus, GetStatus, Call
<1>3. ASSUME NEW th \in Threads, CallStep(th) PROVE StatusFollowsTablets'
  <2>1. CASE Find(th) \/ FindFails(th) \/ UpdatesEnd(th) \/ StatusLookup(th) \/ PartitionsFail(th)
    BY <2>1, StatusStays DEF Find, FindFails, UpdatesEnd, StatusLookup, PartitionsFail
  <2>2. ASSUME NEW t \in Tablets, RefreshTablet(th, t) PROVE StatusFollowsTablets'
    BY <2>2, StatusStays DEF RefreshTablet
  <2>3. CASE Fill(th)
    <3>1. update'.at = update.at
      BY <2>3 DEF Fill, Base, TabletShape, UpdateShape, UpdateRecord, Free
    <3>2. QED BY <2>3, <3>1, StatusStays DEF Fill
  <2>4. CASE UpdateNext(th)
    <3>1. UNCHANGED <<repo, status, lateStatus>> /\ (UNCHANGED update \/ update = Free)
      BY <2>4 DEF UpdateNext, Update, UpdateNotFound
    <3>2. QED BY <3>1, StatusStays, FreeIsNone
  <2>5. CASE RefreshEnd(th)
    <3>1. Upper(thread[th].at) \in Levels BY DEF Upper, Levels
    <3>2. QED BY <2>5, <3>1, StatusChanges DEF RefreshEnd, Base
  <2>6. CASE StatusPut(th)
    <3>1. thread[th].value \in {Absent, "up", "down"} /\ Up(repo) \in {"up", "down"}
      BY DEF Base, TabletShape, CallRecord, Up
    <3> DEFINE l == thread[th].want
               v == thread[th].value
    <3>2. /\ status' = [status EXCEPT ![l] = v] /\ UNCHANGED <<repo, update>>
          /\ lateStatus' = IF v = Up(repo) THEN lateStatus \ {l} ELSE lateStatus \cup {l}
      BY <2>6 DEF StatusPut
    <3>3. ASSUME update.at \notin {"set", "invalidate"}, NEW k \in Levels \ lateStatus'
          PROVE  status'[k] \in {Absent, Up(repo)}
      <4>1. CASE k = l BY <3>2, <3>3, <4>1 DEF Base, TabletShape
      <4>2. CASE k # l
        <5>1. status'[k] = status[k] /\ k \notin lateStatus BY <3>2, <3>3, <4>2 DEF Base, TabletShape
        <5>2. QED BY <3>3, <5>1 DEF StatusFollowsTablets
      <4>3. QED BY <4>1, <4>2
    <3>4. QED BY <3>2, <3>3 DEF StatusFollowsTablets, Up
  <2>7. QED BY <1>3, <2>1, <2>2, <2>3, <2>4, <2>5, <2>6 DEF CallStep
<1>4. CASE Save \/ SaveFails \/ Set
  <2>1. CASE Save \/ Set
    <3>1. update'.at \in {"set", "invalidate"}
      BY <2>1 DEF Save, Set, Base, TabletShape, UpdateShape, UpdateRecord, Free
    <3>2. QED BY <3>1 DEF StatusFollowsTablets
  <2>2. CASE SaveFails BY <2>2, StatusStays DEF SaveFails
  <2>3. QED BY <1>4, <2>1, <2>2
<1>5. CASE Invalidate BY <1>5 DEF Invalidate, StatusFollowsTablets
<1>6. ASSUME NEW l \in Levels, Expire(l) PROVE StatusFollowsTablets'
  BY <1>6, StatusChanges DEF Expire, Base
<1>7. ASSUME NEW th \in Threads, NEW note \in notes, Deliver(th, note) PROVE StatusFollowsTablets'
  BY <1>7, StatusStays DEF Deliver, HandleBackendStateChange
<1>8. CASE UNCHANGED vars BY <1>8, StatusStays DEF vars, tabletVars
<1>9. QED BY <1>1, <1>2, <1>3, <1>4, <1>5, <1>6, <1>7, <1>8 DEF Next, TabletNext, UpdateStep

\* A cached status says what the tablets in the repository say, but between
\* the save of an update and its invalidateRelatedCaches, and unless it was
\* wrong when it was cached: whatever calls, fills, refreshes and expiries
\* come between.
THEOREM StatusSafety == Spec => []StatusFollowsTablets
<1>1. TabletAssumption BY TabletAssumption
<1>2. Init => StatusFollowsTablets BY DEF Init, TabletInit, StatusFollowsTablets, Levels
<1>3. QED BY <1>1, <1>2, SpecBase, StatusStep, PTL DEF Spec

-----------------------------------------------------------------------------
(* The cached tablets.                                                     *)

Fresh(t) == cache[t] \in {Absent, repo[t]}

\* CacheFollowsRepository, and what makes the tablet under update join it when
\* the lock is let go: its mark is unsaved as long as the object that carries
\* it is the cached one, and a fill in between cached what had been read.
CacheInv ==
  /\ \A t \in Tablets \ (late \cup unsaved) : (update = Free \/ update.tablet # t) => Fresh(t)
  /\ update.at = "save" /\ update.shared => update.tablet \in unsaved
  /\ update.at = "save" /\ ~update.shared => update.tablet \in late \/ Fresh(update.tablet)
  /\ update.at \in {"set", "invalidate"} => repo[update.tablet] = update.want
  /\ update.at = "invalidate" => update.tablet \in late \cup unsaved \/ Fresh(update.tablet)

\* A step that leaves the repository, the cache and the update alone.
LEMMA CacheStays ==
  ASSUME CacheInv, UNCHANGED <<repo, cache, update, late, unsaved>>
  PROVE  CacheInv'
  BY DEF CacheInv, Fresh

LEMMA FillKeepsCache ==
  ASSUME Base, CacheInv, NEW th \in Threads, Fill(th)
  PROVE  CacheInv'
<1> DEFINE got    == thread[th].got
           filled == {t \in Tablets : got[t] # Absent}
<1>1. /\ cache' = [t \in Tablets |-> IF t \in filled THEN got[t] ELSE cache[t]]
      /\ update' = IF update.tablet \in filled THEN [update EXCEPT !.shared = FALSE] ELSE update
      /\ late' = (late \ filled) \cup {t \in filled : got[t] # repo[t]}
      /\ unsaved' = unsaved \ filled
      /\ UNCHANGED repo
  BY DEF Fill
<1>2. update = Free \/ update \in UpdateRecord BY DEF Base, TabletShape, UpdateShape
<1>3. /\ update'.tablet = update.tablet /\ update'.want = update.want /\ update'.at = update.at
      /\ update'.shared \in {update.shared, FALSE}
      /\ update.tablet \in filled => update'.shared = FALSE
  <2>1. CASE update \in UpdateRecord
    <3>1. /\ [update EXCEPT !.shared = FALSE].tablet = update.tablet
          /\ [update EXCEPT !.shared = FALSE].want = update.want
          /\ [update EXCEPT !.shared = FALSE].at = update.at
          /\ [update EXCEPT !.shared = FALSE].shared = FALSE
      BY <2>1 DEF UpdateRecord
    <3>2. CASE update.tablet \in filled BY <1>1, <2>1, <3>1, <3>2
    <3>3. CASE update.tablet \notin filled BY <1>1, <2>1, <3>3
    <3>4. QED BY <3>2, <3>3
  <2>2. CASE update = Free
    <3>1. /\ [Free EXCEPT !.shared = FALSE].tablet = Free.tablet
          /\ [Free EXCEPT !.shared = FALSE].want = Free.want
          /\ [Free EXCEPT !.shared = FALSE].at = Free.at
          /\ [Free EXCEPT !.shared = FALSE].shared = FALSE
      BY DEF Free
    <3>2. CASE update.tablet \in filled BY <1>1, <2>2, <3>1, <3>2
    <3>3. CASE update.tablet \notin filled BY <1>1, <2>2, <3>3, FreeIsNone
    <3>4. QED BY <3>2, <3>3
  <2>3. QED BY <1>2, <2>1, <2>2
<1>4. ASSUME NEW t \in Tablets, t \in filled PROVE t \in late' \/ Fresh(t)'
  BY <1>1, <1>4 DEF Fresh
<1>5. ASSUME NEW t \in Tablets, t \notin filled
      PROVE  (t \in late' <=> t \in late) /\ (t \in unsaved' <=> t \in unsaved) /\ (Fresh(t)' <=> Fresh(t))
  BY <1>1, <1>5 DEF Fresh
<1>6. update \in UpdateRecord => update.tablet \in Tablets BY DEF UpdateRecord
<1>7. \A t \in Tablets \ (late' \cup unsaved') : (update' = Free \/ update'.tablet # t) => Fresh(t)'
  <2> SUFFICES ASSUME NEW t \in Tablets \ (late' \cup unsaved'), update' = Free \/ update'.tablet # t
               PROVE  Fresh(t)'
    OBVIOUS
  <2>1. CASE t \in filled BY <1>4, <2>1
  <2>2. CASE t \notin filled
    <3>1. update = Free \/ update.tablet # t BY <1>2, <1>3, FreeIsNone DEF UpdateRecord
    <3>2. QED BY <1>5, <2>2, <3>1 DEF CacheInv
  <2>3. QED BY <2>1, <2>2
<1>8. CASE update = Free
  <2>1. update'.at = "free" BY <1>3, <1>8, FreeIsNone
  <2>2. QED BY <1>7, <2>1 DEF CacheInv
<1>9. CASE update \in UpdateRecord
  <2> DEFINE t == update.tablet
  <2>1. t \in Tablets BY <1>6, <1>9
  <2>2. CASE t \in filled
    BY <1>1, <1>3, <1>4, <1>7, <2>1, <2>2 DEF CacheInv, Fresh
  <2>3. CASE t \notin filled
    BY <1>1, <1>3, <1>5, <1>7, <2>1, <2>3 DEF CacheInv, Fresh
  <2>4. QED BY <2>2, <2>3
<1>10. QED BY <1>2, <1>8, <1>9

LEMMA UpdateNextKeepsCache ==
  ASSUME Base, CacheInv, NEW th \in Threads, UpdateNext(th)
  PROVE  CacheInv'
<1>1. PICK p \in thread[th].todo : p[2] # "?" /\ (Update(th, p[1], p[2]) \/ UpdateNotFound(th, p[1], p[2]))
  BY DEF UpdateNext
<1> DEFINE t == p[1]
           s == p[2]
<1>2. t \in Tablets /\ s \in States BY <1>1 DEF Base, TabletShape, CallRecord
<1>3. CASE UpdateNotFound(th, t, s) BY <1>3, CacheStays DEF UpdateNotFound, lateVars
<1>4. CASE Update(th, t, s)
  <2> DEFINE found == IF cache[t] = Absent THEN repo[t] ELSE cache[t]
  <2>1. update = Free /\ cache' = [cache EXCEPT ![t] = s] /\ UNCHANGED <<repo, late>>
    BY <1>4 DEF Update
  <2>2. \A x \in Tablets \ {t} : Fresh(x)' <=> Fresh(x)
    BY <2>1 DEF Fresh, Base, TabletShape
  <2>3. CASE found = s
    <3>1. UNCHANGED <<update, unsaved>> BY <1>4, <2>3 DEF Update
    <3>2. Fresh(t) => Fresh(t)' BY <1>2, <2>1, <2>3 DEF Fresh, Base, TabletShape
    <3>3. \A x \in Tablets \ (late \cup unsaved) : Fresh(x) BY <2>1 DEF CacheInv
    <3>4. \A x \in Tablets \ (late \cup unsaved) : Fresh(x)' BY <2>2, <3>2, <3>3
    <3>5. QED BY <2>1, <3>1, <3>4, FreeIsNone DEF CacheInv
  <2>4. CASE found # s
    <3>1. /\ update' = [by |-> th, tablet |-> t, want |-> s, shared |-> TRUE, at |-> "save"]
          /\ unsaved' = unsaved \cup {t}
      BY <1>4, <2>4 DEF Update
    <3>2. \A x \in Tablets \ (late \cup unsaved) : Fresh(x) BY <2>1 DEF CacheInv
    <3>3. \A x \in Tablets \ (late' \cup unsaved') : Fresh(x)' BY <2>1, <2>2, <3>1, <3>2
    <3>4. QED BY <3>1, <3>3 DEF CacheInv
  <2>5. QED BY <2>3, <2>4
<1>5. QED BY <1>1, <1>3, <1>4

LEMMA UpdateStepKeepsCache ==
  ASSUME Base, CacheInv, UpdateStep
  PROVE  CacheInv'
<1> DEFINE t == update.tablet
<1>1. update \in UpdateRecord /\ update # Free /\ t \in Tablets
  BY DEF UpdateStep, Save, SaveFails, Set, Invalidate, Base, TabletShape, UpdateShape, UpdateRecord, Free
<1>2. \A x \in Tablets \ (late \cup unsaved) : t # x => Fresh(x) BY DEF CacheInv
<1>3. CASE Save
  <2>1. /\ repo' = [repo EXCEPT ![t] = update.want] /\ update' = [update EXCEPT !.at = "set"]
        /\ unsaved' = unsaved \ {t} /\ UNCHANGED <<cache, late>>
    BY <1>3 DEF Save
  <2>2. update'.at = "set" /\ update'.tablet = t /\ update'.want = update.want BY <1>1, <2>1 DEF UpdateRecord
  <2>3. repo'[t] = update.want BY <1>1, <2>1 DEF Base, TabletShape
  <2>4. \A x \in Tablets \ (late' \cup unsaved') : t # x => Fresh(x)'
    BY <1>2, <2>1 DEF Fresh, Base, TabletShape
  <2>5. update' # Free BY <2>2, FreeIsNone
  <2>6. QED BY <2>2, <2>3, <2>4, <2>5 DEF CacheInv
<1>4. CASE SaveFails
  <2>1. /\ update.at = "save" /\ update' = Free /\ UNCHANGED <<repo, cache, late>>
        /\ unsaved' = IF update.shared THEN unsaved ELSE unsaved \ {t}
    BY <1>4 DEF SaveFails
  <2>2. update.shared \in BOOLEAN BY <1>1 DEF UpdateRecord
  <2>3. t \in late' \cup unsaved' \/ Fresh(t) BY <2>1, <2>2 DEF CacheInv
  <2>4. \A x \in Tablets \ (late' \cup unsaved') : Fresh(x)' BY <1>2, <2>1, <2>3 DEF Fresh
  <2>5. QED BY <2>1, <2>4, FreeIsNone DEF CacheInv
<1>5. CASE Set
  <2>1. /\ update.at = "set" /\ cache' = [cache EXCEPT ![t] = update.want] /\ late' = late \ {t}
        /\ update' = [update EXCEPT !.at = "invalidate"] /\ UNCHANGED <<repo, unsaved>>
    BY <1>5 DEF Set, lateVars
  <2>2. update'.at = "invalidate" /\ update'.tablet = t /\ update'.want = update.want
    BY <1>1, <2>1 DEF UpdateRecord
  <2>3. repo[t] = update.want BY <2>1 DEF CacheInv
  <2>4. Fresh(t)' BY <1>1, <2>1, <2>3 DEF Fresh, Base, TabletShape
  <2>5. \A x \in Tablets \ (late' \cup unsaved') : t # x => Fresh(x)'
    BY <1>2, <2>1 DEF Fresh, Base, TabletShape
  <2>6. update' # Free BY <2>2, FreeIsNone
  <2>7. QED BY <2>1, <2>2, <2>3, <2>4, <2>5, <2>6 DEF CacheInv
<1>6. CASE Invalidate
  <2>1. update.at = "invalidate" /\ update' = Free /\ UNCHANGED <<repo, cache, late, unsaved>>
    BY <1>6 DEF Invalidate, lateVars
  <2>2. \A x \in Tablets \ (late' \cup unsaved') : Fresh(x)' BY <1>2, <2>1 DEF Fresh, CacheInv
  <2>3. QED BY <2>1, <2>2, FreeIsNone DEF CacheInv
<1>7. QED BY <1>3, <1>4, <1>5, <1>6 DEF UpdateStep

LEMMA CacheStep ==
  ASSUME TabletAssumption, Base, CacheInv, [Next]_vars
  PROVE  CacheInv'
<1>1. CASE Check BY <1>1, CacheStays DEF Check, tabletVars, lateVars
<1>2. ASSUME NEW th \in Threads, UpdateTabletStatus(th) \/ RefreshStatus(th) \/ GetStatus(th)
      PROVE  CacheInv'
  BY <1>2, CacheStays DEF UpdateTabletStatus, RefreshStatus, GetStatus, Call, lateVars
<1>3. ASSUME NEW th \in Threads, CallStep(th) PROVE CacheInv'
  <2>1. CASE Find(th) \/ FindFails(th) \/ UpdatesEnd(th) \/ StatusLookup(th) \/ PartitionsFail(th)
    BY <2>1, CacheStays DEF Find, FindFails, UpdatesEnd, StatusLookup, PartitionsFail, lateVars
  <2>2. CASE (\E t \in Tablets : RefreshTablet(th, t)) \/ RefreshEnd(th) \/ StatusPut(th)
    BY <2>2, CacheStays DEF RefreshTablet, RefreshEnd, StatusPut, lateVars
  <2>3. CASE Fill(th) BY <2>3, FillKeepsCache
  <2>4. CASE UpdateNext(th) BY <2>4, UpdateNextKeepsCache
  <2>5. QED BY <1>3, <2>1, <2>2, <2>3, <2>4 DEF CallStep
<1>4. CASE UpdateStep BY <1>4, UpdateStepKeepsCache
<1>5. ASSUME NEW l \in Levels, Expire(l) PROVE CacheInv'
  BY <1>5, CacheStays DEF Expire, lateVars
<1>6. ASSUME NEW th \in Threads, NEW note \in notes, Deliver(th, note) PROVE CacheInv'
  BY <1>6, CacheStays DEF Deliver, HandleBackendStateChange, lateVars
<1>7. CASE UNCHANGED vars BY <1>7, CacheStays DEF vars, tabletVars, lateVars
<1>8. QED BY <1>1, <1>2, <1>3, <1>4, <1>5, <1>6, <1>7 DEF Next, TabletNext

LEMMA SpecCache == Spec => []CacheInv
<1>1. TabletAssumption BY TabletAssumption
<1>2. Init => CacheInv BY FreeIsNone DEF Init, TabletInit, CacheInv, Fresh, Nothing
<1>3. QED BY <1>1, <1>2, SpecBase, CacheStep, PTL DEF Spec

\* A cached tablet is in the state the repository has, but while its update is
\* under way, when a find that was read before a save filled it after, and
\* when the save of its mark failed: UpdateTabletStatus holds tabletStateLock
\* from its look-up to its last write of the cache, and a fill that takes the
\* object from under it is the only one in between.
THEOREM CacheSafety == Spec => []CacheFollowsRepository
<1>1. CacheInv => CacheFollowsRepository BY DEF CacheInv, CacheFollowsRepository, Fresh
<1>2. QED BY <1>1, SpecCache, PTL

-----------------------------------------------------------------------------
(* What the tablets of a backend become.                                   *)

\* A call of the monitor's does to its backend's tablets what its note said;
\* the other calls do nothing to a tablet that is not touched.
CallKeeps(c) ==
  /\ c.op = "handle" => \A p \in c.todo : p[2] = c.want /\ Decides(c.level, p[1])
  /\ c.op = "update" => \A p \in c.todo : p[1] \in touched
  /\ c.op = "refresh" => Tablets \subseteq touched
  /\ c.op \in {"none", "status"} => c.todo = {}

IsHandler(th, b) == thread[th].op = "handle" /\ thread[th].level = b

\* At most one note or goroutine of a backend is under way.
OnePending(b) ==
  /\ \A m, n \in notes : m.backend = b /\ n.backend = b => m = n
  /\ \A x, y \in Threads : IsHandler(x, b) /\ IsHandler(y, b) => x = y
  /\ \A n \in notes, x \in Threads : ~(n.backend = b /\ IsHandler(x, b))

\* It carries what was last told.
PendingIsTold(b) ==
  /\ \A n \in notes : n.backend = b => told[b] = n.state
  /\ \A x \in Threads : IsHandler(x, b) => told[b] # "absent" /\ thread[x].want = StateFor(told[b])

\* And as long as it is under way, a tablet is in that state or is still to be
\* updated.
Followed(c, t) == c.at # "find" => <<t, c.want>> \in c.todo \/ repo[t] = c.want

Follows(b, t) ==
  /\ told[b] # "absent" /\ ~Pending(b) => repo[t] = StateFor(told[b])
  /\ \A x \in Threads : IsHandler(x, b) => Followed(thread[x], t)

NotesType ==
  /\ told \in Report /\ sent \in Nat
  /\ notes \subseteq [backend : Backends, state : {"alive", "dead"}, n : Nat]
  /\ \A note \in notes : note.n <= sent

ToldInv ==
  /\ NotesType
  /\ \A th \in Threads : CallKeeps(thread[th])
  /\ \A b \in Backends \ crossed : OnePending(b) /\ PendingIsTold(b)
  /\ \A b \in Backends \ crossed, t \in Tablets \ (touched \cup missed) : Decides(b, t) => Follows(b, t)

\* A tablet's state is decided by one backend at most, which holds it.
LEMMA OneDecider ==
  ASSUME TabletAssumption, AvailabilityAssumption, NEW t \in Tablets, NEW b \in Backends, Decides(b, t)
  PROVE  b \in Hosts[t] /\ IsToUpdate(b, t) /\ \A a \in Backends : Decides(a, t) => a = b
<1>1. Primary[t] \in Hosts[t] \cup {NoBackend} BY DEF TabletAssumption
<1>2. NoBackend \notin Backends BY DEF AvailabilityAssumption
<1>3. QED BY <1>1, <1>2 DEF Decides, IsToUpdate

LEMMA KeepsNarrows ==
  ASSUME NEW c, CallKeeps(c), NEW d, d.todo \subseteq c.todo,
         d.op = c.op, c.op = "handle" => (d.level = c.level /\ d.want = c.want)
  PROVE  CallKeeps(d)
  BY DEF CallKeeps

LEMMA IdleKeeps == CallKeeps(Idle)
  BY DEF CallKeeps, Idle

LEMMA KeepsStays ==
  ASSUME touched \subseteq touched', NEW c, CallKeeps(c)
  PROVE  CallKeeps(c)'
  BY DEF CallKeeps

\* A step of one thread: a call of the monitor's goes on, with its tablets
\* still followed, or ends with them in its state.
LEMMA ToldMoves ==
  ASSUME TabletShape, ToldInv, NEW th \in Threads, NEW c, thread' = [thread EXCEPT ![th] = c],
         UNCHANGED <<repo, notes, told, sent, crossed>>,
         touched \subseteq touched', missed \subseteq missed', CallKeeps(c)',
         c.op = "handle" => thread[th].op = "handle" /\ c.level = thread[th].level /\ c.want = thread[th].want,
         thread[th].op = "handle" =>
           \A t \in Tablets \ (touched' \cup missed') :
             Decides(thread[th].level, t) /\ Followed(thread[th], t)
               => IF c.op = "handle" THEN Followed(c, t) ELSE repo[t] = thread[th].want
  PROVE  ToldInv'
<1>1. thread'[th] = c /\ \A x \in Threads \ {th} : thread'[x] = thread[x] BY DEF TabletShape
<1>2. NotesType' BY DEF ToldInv, NotesType
<1>3. ASSUME NEW x \in Threads PROVE CallKeeps(thread[x])'
  <2>1. PICK d : d = thread'[x] OBVIOUS
  <2>2. CASE x = th BY <1>1, <2>2
  <2>3. CASE x # th
    <3>1. CallKeeps(d) BY <1>1, <2>1, <2>3 DEF ToldInv
    <3>2. CallKeeps(d)' BY <3>1, KeepsStays
    <3>3. QED BY <2>1, <3>2
  <2>4. QED BY <2>2, <2>3
<1>4. ASSUME NEW x \in Threads, NEW b, IsHandler(x, b)'
      PROVE  IsHandler(x, b) /\ thread'[x].want = thread[x].want
  BY <1>1, <1>4 DEF IsHandler
<1>5. ASSUME NEW b \in Backends \ crossed' PROVE OnePending(b)' /\ PendingIsTold(b)'
  <2>1. OnePending(b) /\ PendingIsTold(b) BY <1>5 DEF ToldInv
  <2>2. OnePending(b)' BY <1>4, <2>1 DEF OnePending
  <2>3. PendingIsTold(b)' BY <1>4, <2>1 DEF PendingIsTold
  <2>4. QED BY <2>2, <2>3
<1>6. ASSUME NEW b \in Backends \ crossed', NEW t \in Tablets \ (touched' \cup missed'), Decides(b, t)
      PROVE  Follows(b, t)'
  <2>1. Follows(b, t) /\ PendingIsTold(b) /\ OnePending(b) BY <1>6 DEF ToldInv
  <2>2. ASSUME NEW x \in Threads, IsHandler(x, b)' PROVE Followed(thread[x], t)'
    <3>1. IsHandler(x, b) BY <1>4, <2>2
    <3>2. Followed(thread[x], t) BY <2>1, <3>1 DEF Follows
    <3>3. CASE x # th BY <1>1, <3>2, <3>3 DEF Followed
    <3>4. CASE x = th
      <4>1. c.op = "handle" /\ thread[th].level = b /\ thread[th].op = "handle"
        BY <1>1, <2>2, <3>1, <3>4 DEF IsHandler
      <4>2. Followed(c, t) BY <1>6, <3>2, <3>4, <4>1
      <4>3. QED BY <1>1, <3>4, <4>2 DEF Followed
    <3>5. QED BY <3>3, <3>4
  <2>3. ASSUME told[b] # "absent", ~Pending(b)' PROVE repo[t] = StateFor(told[b])
    <3>1. CASE ~Pending(b) BY <2>1, <2>3, <3>1 DEF Follows
    <3>2. CASE Pending(b)
      <4>1. ~\E note \in notes : note.backend = b BY <2>3 DEF Pending
      <4>2. PICK x \in Threads : IsHandler(x, b) BY <3>2, <4>1 DEF Pending, Handling, IsHandler
      <4>3. ~IsHandler(x, b)' BY <2>3 DEF Pending, Handling, IsHandler
      <4>4. x = th BY <1>1, <4>2, <4>3 DEF IsHandler
      <4>5. c.op # "handle" /\ thread[th].op = "handle" /\ thread[th].level = b
        BY <1>1, <4>2, <4>3, <4>4 DEF IsHandler
      <4>6. Followed(thread[th], t) BY <2>1, <4>2, <4>4 DEF Follows
      <4>7. repo[t] = thread[th].want BY <1>6, <4>5, <4>6
      <4>8. QED BY <2>1, <4>2, <4>4, <4>7 DEF PendingIsTold
    <3>3. QED BY <3>1, <3>2
  <2>4. QED BY <2>2, <2>3 DEF Follows
<1>7. QED BY <1>2, <1>3, <1>5, <1>6 DEF ToldInv

\* A step of a call that is not the monitor's.
LEMMA OthersKeepTold ==
  ASSUME TabletAssumption, TabletShape, ToldInv, NEW th \in Threads, CallStep(th), thread[th].op # "handle",
         UNCHANGED <<monitorVars, crossed, heard>>
  PROVE  ToldInv'
<1> DEFINE o == thread[th]
<1>1. o \in CallRecord /\ CallKeeps(o) BY DEF TabletShape, ToldInv
<1>2. /\ UNCHANGED <<repo, notes, told, sent, crossed, touched>>
      /\ missed \subseteq missed'
  <2>1. UNCHANGED <<repo, touched>>
    BY DEF CallStep, Find, FindFails, Fill, UpdateNext, Update, UpdateNotFound, RefreshTablet,
           RefreshEnd, UpdatesEnd, StatusLookup, StatusPut, PartitionsFail
  <2>2. missed \subseteq missed'
    BY DEF CallStep, Find, FindFails, Fill, UpdateNext, Update, UpdateNotFound, Missed, RefreshTablet,
           RefreshEnd, UpdatesEnd, StatusLookup, StatusPut, PartitionsFail
  <2>3. QED BY <2>1, <2>2 DEF monitorVars, noteVars
<1>3. ASSUME NEW c, thread' = [thread EXCEPT ![th] = c], CallKeeps(c), c.op # "handle"
      PROVE  ToldInv'
  BY <1>2, <1>3, KeepsStays, ToldMoves
<1>4. CallKeeps(Idle) /\ Idle.op # "handle" BY IdleKeeps DEF Idle
<1>5. ASSUME NEW c, c.todo \subseteq o.todo, c.op = o.op PROVE CallKeeps(c) /\ c.op # "handle"
  BY <1>1, <1>5, KeepsNarrows
<1>6. CASE Find(th)
  <2> DEFINE got == [t \in Tablets |-> IF t \in Scope(th) THEN repo[t] ELSE Absent]
             c == [o EXCEPT !.at = "fill", !.todo = Work(th), !.got = got]
  <2>1. c.op = o.op /\ c.todo = Work(th) BY <1>1 DEF CallRecord
  <2>2. o.op = "update" => Work(th) = {} BY DEF Work
  <2>3. o.op \in {"none", "status"} => Work(th) = {} BY DEF Work
  <2>4. CallKeeps(c) BY <1>1, <2>1, <2>2, <2>3 DEF CallKeeps
  <2>5. thread' = [thread EXCEPT ![th] = c] BY <1>6 DEF Find
  <2>6. QED BY <1>3, <2>1, <2>4, <2>5
<1>7. CASE FindFails(th)
  <2> DEFINE c == [o EXCEPT !.at = "put", !.want = "table", !.value = "up"]
  <2>1. c.op = o.op /\ c.todo = o.todo BY <1>1 DEF CallRecord
  <2>2. thread' = [thread EXCEPT ![th] = c] \/ thread' = [thread EXCEPT ![th] = Idle]
    BY <1>7 DEF FindFails, End
  <2>3. QED BY <1>3, <1>4, <1>5, <2>1, <2>2
<1>8. CASE Fill(th)
  <2> DEFINE c1 == [o EXCEPT !.at = "next", !.got = Nothing]
             c2 == [o EXCEPT !.at = "put", !.value = Up(o.got), !.got = Nothing]
             c3 == [o EXCEPT !.at = "table", !.got = Nothing]
  <2>1. c1.op = o.op /\ c1.todo = o.todo /\ c2.op = o.op /\ c2.todo = o.todo /\ c3.op = o.op /\ c3.todo = o.todo
    BY <1>1 DEF CallRecord
  <2>2. \/ thread' = [thread EXCEPT ![th] = c1]
        \/ thread' = [thread EXCEPT ![th] = c2]
        \/ thread' = [thread EXCEPT ![th] = c3]
    BY <1>8 DEF Fill
  <2>3. QED BY <1>3, <1>5, <2>1, <2>2
<1>9. CASE UpdateNext(th)
  <2>1. PICK p \in o.todo : Update(th, p[1], p[2]) \/ UpdateNotFound(th, p[1], p[2])
    BY <1>9 DEF UpdateNext
  <2> DEFINE c1 == [o EXCEPT !.at = "next", !.todo = {q \in o.todo : q[1] # p[1]}]
             c2 == [o EXCEPT !.at = "updating"]
  <2>2. c1.op = o.op /\ c1.todo \subseteq o.todo /\ c2.op = o.op /\ c2.todo = o.todo BY <1>1 DEF CallRecord
  <2>3. thread' = [thread EXCEPT ![th] = c1] \/ thread' = [thread EXCEPT ![th] = c2]
    BY <2>1 DEF Update, UpdateNotFound, Done, Goto
  <2>4. QED BY <1>3, <1>5, <2>2, <2>3
<1>10. ASSUME NEW t \in Tablets, RefreshTablet(th, t) PROVE ToldInv'
  <2>1. PICK s : thread' = [thread EXCEPT ![th].todo =
          (@ \ {<<t, "?">>}) \cup (IF Hosts[t] = {} \/ cache[t] = s THEN {} ELSE {<<t, s>>})]
    BY <1>10 DEF RefreshTablet
  <2> DEFINE S == (o.todo \ {<<t, "?">>}) \cup (IF Hosts[t] = {} \/ cache[t] = s THEN {} ELSE {<<t, s>>})
             c == [o EXCEPT !.todo = S]
  <2>2. c.op = "refresh" /\ o.op = "refresh" BY <1>1, <1>10 DEF CallRecord, RefreshTablet, Is
  <2>3. CallKeeps(c) BY <1>1, <2>2 DEF CallKeeps
  <2>4. thread' = [thread EXCEPT ![th] = c] BY <2>1
  <2>5. QED BY <1>3, <2>2, <2>3, <2>4
<1>11. CASE RefreshEnd(th)
  <2>1. ASSUME NEW l PROVE [o EXCEPT !.at = l].op = o.op /\ [o EXCEPT !.at = l].todo = o.todo
    BY <1>1 DEF CallRecord
  <2>2. thread' = [thread EXCEPT ![th] = Idle] \/ \E l : thread' = [thread EXCEPT ![th] = [o EXCEPT !.at = l]]
    BY <1>11 DEF RefreshEnd, End, Goto
  <2>3. QED BY <1>3, <1>4, <1>5, <2>1, <2>2
<1>12. CASE UpdatesEnd(th) BY <1>3, <1>4, <1>12 DEF UpdatesEnd, End
<1>13. CASE StatusLookup(th)
  <2> DEFINE c1 == [o EXCEPT !.at = "put", !.want = Upper(o.at), !.value = status[o.at]]
             c2 == [o EXCEPT !.at = "partition"]
             c3 == [o EXCEPT !.at = "find", !.want = o.at]
  <2>1. c1.op = o.op /\ c1.todo = o.todo /\ c2.op = o.op /\ c2.todo = o.todo /\ c3.op = o.op /\ c3.todo = o.todo
    BY <1>1 DEF CallRecord
  <2>2. \/ thread' = [thread EXCEPT ![th] = c1] \/ thread' = [thread EXCEPT ![th] = c2]
        \/ thread' = [thread EXCEPT ![th] = c3] \/ thread' = [thread EXCEPT ![th] = Idle]
    BY <1>13 DEF StatusLookup
  <2>3. QED BY <1>3, <1>4, <1>5, <2>1, <2>2
<1>14. CASE StatusPut(th)
  <2>1. ASSUME NEW l PROVE [o EXCEPT !.want = l].op = o.op /\ [o EXCEPT !.want = l].todo = o.todo
    BY <1>1 DEF CallRecord
  <2>2. thread' = [thread EXCEPT ![th] = Idle] \/ \E l : thread' = [thread EXCEPT ![th] = [o EXCEPT !.want = l]]
    BY <1>14 DEF StatusPut
  <2>3. QED BY <1>3, <1>4, <1>5, <2>1, <2>2
<1>15. CASE PartitionsFail(th)
  <2> DEFINE c1 == [o EXCEPT !.at = "put", !.want = "database", !.value = "down"]
  <2>1. c1.op = o.op /\ c1.todo = o.todo BY <1>1 DEF CallRecord
  <2>2. ASSUME NEW l PROVE [o EXCEPT !.at = l, !.todo = {}].op = o.op /\ [o EXCEPT !.at = l, !.todo = {}].todo = {}
    BY <1>1 DEF CallRecord
  <2>3. \/ thread' = [thread EXCEPT ![th] = Idle] \/ thread' = [thread EXCEPT ![th] = c1]
        \/ \E l : thread' = [thread EXCEPT ![th] = [o EXCEPT !.at = l, !.todo = {}]]
    BY <1>15, WithoutPartitions
  <2>4. QED BY <1>3, <1>4, <1>5, <2>1, <2>2, <2>3
<1>16. QED BY <1>6, <1>7, <1>8, <1>9, <1>10, <1>11, <1>12, <1>13, <1>14, <1>15 DEF CallStep

\* A step of the monitor's call.
LEMMA HandlerKeepsTold ==
  ASSUME TabletAssumption, AvailabilityAssumption, Base, ToldInv,
         NEW th \in Threads, CallStep(th), thread[th].op = "handle",
         UNCHANGED <<monitorVars, crossed, heard>>
  PROVE  ToldInv'
<1> DEFINE o == thread[th]
<1>1. TabletShape /\ o \in CallRecord /\ CallKeeps(o) BY DEF Base, TabletShape, ToldInv
<1>2. o.level \in Backends BY DEF Base, HeardInv, CallJustified
<1>3. UNCHANGED <<notes, told, sent, crossed>> BY DEF monitorVars, noteVars
<1>4. ASSUME NEW c, thread' = [thread EXCEPT ![th] = c], CallKeeps(c), UNCHANGED <<repo, touched>>,
             missed \subseteq missed', c.op = "handle", c.level = o.level, c.want = o.want,
             \A t \in Tablets \ (touched' \cup missed') :
               Decides(o.level, t) /\ Followed(o, t) => Followed(c, t)
      PROVE  ToldInv'
  BY <1>1, <1>3, <1>4, KeepsStays, ToldMoves
<1>5. ASSUME thread' = [thread EXCEPT ![th] = Idle], UNCHANGED <<repo, touched>>, missed \subseteq missed',
             \A t \in Tablets \ (touched' \cup missed') :
               Decides(o.level, t) /\ Followed(o, t) => repo[t] = o.want
      PROVE  ToldInv'
  <2>1. PICK c : c = Idle OBVIOUS
  <2>2. CallKeeps(c)' BY <2>1, IdleKeeps DEF CallKeeps, Idle
  <2>3. c.op # "handle" BY <2>1 DEF Idle
  <2>4. thread' = [thread EXCEPT ![th] = c] BY <1>5, <2>1
  <2>5. QED BY <1>1, <1>3, <1>5, <2>2, <2>3, <2>4, ToldMoves
<1>6. CASE Find(th)
  <2> DEFINE got == [t \in Tablets |-> IF t \in Scope(th) THEN repo[t] ELSE Absent]
             c == [o EXCEPT !.at = "fill", !.todo = Work(th), !.got = got]
  <2>1. c.op = "handle" /\ c.level = o.level /\ c.want = o.want /\ c.todo = Work(th) BY <1>1 DEF CallRecord
  <2>2. Work(th) = {<<t, o.want>> : t \in {x \in Scope(th) : IsToUpdate(o.level, x)}} BY DEF Work
  <2>3. CallKeeps(c)
    <3>1. \A p \in Work(th) : p[2] = o.want /\ Decides(o.level, p[1]) BY <2>2 DEF IsToUpdate, Decides
    <3>2. QED BY <2>1, <3>1 DEF CallKeeps
  <2>4. ASSUME NEW t \in Tablets, Decides(o.level, t) PROVE <<t, o.want>> \in Work(th)
    <3>1. o.level \in Hosts[t] /\ IsToUpdate(o.level, t) BY <1>2, <2>4, OneDecider
    <3>2. t \in Scope(th) BY <3>1 DEF Scope
    <3>3. QED BY <2>2, <3>1, <3>2
  <2>5. thread' = [thread EXCEPT ![th] = c] /\ UNCHANGED <<repo, touched, missed>> BY <1>6 DEF Find
  <2>6. \A t \in Tablets : Decides(o.level, t) => Followed(c, t) BY <2>1, <2>4 DEF Followed
  <2>7. QED BY <1>4, <2>1, <2>3, <2>5, <2>6
<1>7. CASE FindFails(th)
  <2>1. /\ thread' = [thread EXCEPT ![th] = Idle] /\ UNCHANGED <<repo, touched>>
        /\ missed' = missed \cup {t \in Tablets : Decides(o.level, t)}
    BY <1>7 DEF FindFails, End
  <2>2. QED BY <1>5, <2>1
<1>8. CASE Fill(th)
  <2> DEFINE c == [o EXCEPT !.at = "next", !.got = Nothing]
  <2>1. /\ c.op = "handle" /\ c.level = o.level /\ c.want = o.want /\ c.todo = o.todo /\ c.at = "next"
    BY <1>1 DEF CallRecord
  <2>2. thread' = [thread EXCEPT ![th] = c] /\ UNCHANGED <<repo, touched, missed>> /\ o.at = "fill"
    BY <1>8 DEF Fill
  <2>3. CallKeeps(c) BY <1>1, <2>1, KeepsNarrows
  <2>4. \A t \in Tablets : Followed(o, t) => Followed(c, t) BY <2>1, <2>2 DEF Followed
  <2>5. QED BY <1>4, <2>1, <2>2, <2>3, <2>4
<1>9. CASE UpdateNext(th)
  <2>1. PICK p \in o.todo : Update(th, p[1], p[2]) \/ UpdateNotFound(th, p[1], p[2])
    BY <1>9 DEF UpdateNext
  <2>2. o.at = "next" /\ p[2] = o.want BY <1>1, <1>9, <2>1 DEF UpdateNext, CallKeeps
  <2>3. UNCHANGED <<repo, touched>> BY <2>1, SMTT(30) DEF Update, UpdateNotFound
  <2>4. CASE Done(th, p[1]) /\ missed' = Missed(th, p[1], p[2])
    <3> DEFINE rest == {q \in o.todo : q[1] # p[1]}
               c == [o EXCEPT !.at = "next", !.todo = rest]
    <3>1. /\ c.op = "handle" /\ c.level = o.level /\ c.want = o.want /\ c.todo = rest /\ c.at = "next"
      BY <1>1 DEF CallRecord
    <3>2. CallKeeps(c) BY <1>1, <3>1, KeepsNarrows
    <3>3. missed' = IF repo[p[1]] # o.want THEN missed \cup {p[1]} ELSE missed
      BY <2>2, <2>4 DEF Missed
    <3>4. ASSUME NEW t \in Tablets \ (touched' \cup missed'), Followed(o, t) PROVE Followed(c, t)
      <4>1. <<t, o.want>> \in o.todo \/ repo[t] = o.want BY <2>2, <3>4 DEF Followed
      <4>2. t = p[1] => repo[t] = o.want BY <3>3, <3>4
      <4>3. t # p[1] /\ <<t, o.want>> \in o.todo => <<t, o.want>> \in rest OBVIOUS
      <4>4. QED BY <3>1, <4>1, <4>2, <4>3 DEF Followed
    <3>5. thread' = [thread EXCEPT ![th] = c] BY <2>4 DEF Done
    <3>6. QED BY <1>4, <2>3, <3>1, <3>2, <3>3, <3>4, <3>5
  <2>5. CASE Goto(th, "updating") /\ UNCHANGED missed
    <3> DEFINE c == [o EXCEPT !.at = "updating"]
    <3>1. /\ c.op = "handle" /\ c.level = o.level /\ c.want = o.want /\ c.todo = o.todo
      BY <1>1 DEF CallRecord
    <3>2. CallKeeps(c) BY <1>1, <3>1, KeepsNarrows
    <3>3. \A t \in Tablets : Followed(o, t) => Followed(c, t) BY <2>2, <3>1 DEF Followed
    <3>4. thread' = [thread EXCEPT ![th] = c] BY <2>5 DEF Goto
    <3>5. QED BY <1>4, <2>3, <2>5, <3>1, <3>2, <3>3, <3>4
  <2>6. QED BY <2>1, <2>4, <2>5 DEF Update, UpdateNotFound
<1>10. CASE UpdatesEnd(th)
  <2>1. /\ o.at = "next" /\ o.todo = {} /\ UNCHANGED <<repo, touched, missed>>
        /\ thread' = [thread EXCEPT ![th] = Idle]
    BY <1>10 DEF UpdatesEnd, End
  <2>2. QED BY <1>5, <2>1 DEF Followed
<1>11. QED BY <1>6, <1>7, <1>8, <1>9, <1>10, WithoutPartitions
        DEF CallStep, RefreshTablet, RefreshEnd, StatusLookup, StatusPut, Is

\* A call other than the monitor's begins.
LEMMA CallsKeepTold ==
  ASSUME TabletAssumption, Base, ToldInv, NEW th \in Threads, UNCHANGED <<monitorVars, crossed, heard>>,
         UpdateTabletStatus(th) \/ RefreshStatus(th) \/ GetStatus(th)
  PROVE  ToldInv'
<1>1. TabletShape /\ UNCHANGED <<notes, told, sent, crossed>> BY DEF Base, monitorVars, noteVars
<1>2. touched \subseteq Tablets BY DEF Base, HeardInv
<1>3. ASSUME NEW c, Call(th, c), CallKeeps(c)', c.op # "handle", touched \subseteq touched'
      PROVE  ToldInv'
  <2>1. thread' = [thread EXCEPT ![th] = c] /\ thread[th].op # "handle" /\ UNCHANGED <<repo, missed>>
    BY <1>3 DEF Call, Begin, Idle
  <2>2. QED BY <1>1, <1>3, <2>1, ToldMoves
<1>4. CASE UpdateTabletStatus(th)
  <2>1. PICK t \in Tablets, s \in Targets :
          /\ Call(th, [Idle EXCEPT !.op = "update", !.at = "next", !.todo = {<<t, s>>}])
          /\ touched' = touched \cup {t}
    BY <1>4 DEF UpdateTabletStatus
  <2>2. PICK c : c = [Idle EXCEPT !.op = "update", !.at = "next", !.todo = {<<t, s>>}] OBVIOUS
  <2>3. c.op = "update" /\ c.todo = {<<t, s>>} BY <2>2 DEF Idle
  <2>4. CallKeeps(c)' BY <2>1, <2>3 DEF CallKeeps
  <2>5. QED BY <1>3, <2>1, <2>2, <2>3, <2>4
<1>5. CASE RefreshStatus(th)
  <2>1. PICK l \in Levels : /\ Call(th, [Idle EXCEPT !.op = "refresh", !.at = "find", !.level = l])
                            /\ touched' = Tablets
    BY <1>5 DEF RefreshStatus
  <2>2. PICK c : c = [Idle EXCEPT !.op = "refresh", !.at = "find", !.level = l] OBVIOUS
  <2>3. c.op = "refresh" /\ c.todo = {} BY <2>2 DEF Idle
  <2>4. CallKeeps(c)' BY <2>1, <2>3 DEF CallKeeps
  <2>5. QED BY <1>2, <1>3, <2>1, <2>2, <2>3, <2>4
<1>6. CASE GetStatus(th)
  <2>1. PICK l \in Levels : Call(th, [Idle EXCEPT !.op = "status", !.at = l, !.level = l]) /\ UNCHANGED touched
    BY <1>6 DEF GetStatus
  <2>2. PICK c : c = [Idle EXCEPT !.op = "status", !.at = l, !.level = l] OBVIOUS
  <2>3. c.op = "status" /\ c.todo = {} BY <2>2 DEF Idle
  <2>4. CallKeeps(c)' BY <2>3 DEF CallKeeps
  <2>5. QED BY <1>3, <2>1, <2>2, <2>3, <2>4
<1>7. QED BY <1>4, <1>5, <1>6

\* A step that moves no call and saves nothing.
LEMMA ToldStays ==
  ASSUME ToldInv, UNCHANGED <<repo, thread, notes, told, sent, crossed, touched, missed>>
  PROVE  ToldInv'
<1>1. NotesType' BY DEF ToldInv, NotesType
<1>2. ASSUME NEW th \in Threads PROVE CallKeeps(thread[th])'
  <2>1. CallKeeps(thread[th]) BY DEF ToldInv
  <2>2. QED BY <2>1 DEF CallKeeps
<1>3. ASSUME NEW b \in Backends \ crossed' PROVE OnePending(b)' /\ PendingIsTold(b)'
  <2>1. OnePending(b) /\ PendingIsTold(b) BY <1>3 DEF ToldInv
  <2>2. QED BY <2>1 DEF OnePending, PendingIsTold, IsHandler
<1>4. ASSUME NEW b \in Backends \ crossed', NEW t \in Tablets \ (touched' \cup missed'), Decides(b, t)
      PROVE  Follows(b, t)'
  <2>1. Follows(b, t) BY <1>4 DEF ToldInv
  <2>2. QED BY <2>1 DEF Follows, Followed, IsHandler, Pending, Handling
<1>5. QED BY <1>1, <1>2, <1>3, <1>4 DEF ToldInv

LEMMA SaveKeepsTold ==
  ASSUME TabletAssumption, AvailabilityAssumption, Base, ToldInv, Save,
         UNCHANGED <<monitorVars, crossed, heard>>
  PROVE  ToldInv'
<1> DEFINE u == update.tablet
<1>0. PICK h : h = update.by OBVIOUS
<1>1. /\ update \in UpdateRecord /\ thread[h].at = "updating" /\ <<u, update.want>> \in thread[h].todo
      /\ h \in Threads /\ u \in Tablets
  BY <1>0 DEF Save, Base, TabletShape, UpdateShape, UpdateRecord, Free
<1>2. /\ repo' = [repo EXCEPT ![u] = update.want] /\ missed' = missed \ {u}
      /\ UNCHANGED <<thread, touched, notes, told, sent, crossed>>
  BY DEF Save, monitorVars, noteVars
<1>3. repo'[u] = update.want /\ \A t \in Tablets \ {u} : repo'[t] = repo[t]
  BY <1>1, <1>2 DEF Base, TabletShape
<1>4. NotesType' BY <1>2 DEF ToldInv, NotesType
<1>5. ASSUME NEW th \in Threads PROVE CallKeeps(thread[th])'
  <2>1. CallKeeps(thread[th]) BY DEF ToldInv
  <2>2. QED BY <1>2, <2>1 DEF CallKeeps
<1>6. ASSUME NEW b \in Backends \ crossed' PROVE OnePending(b)' /\ PendingIsTold(b)'
  <2>1. OnePending(b) /\ PendingIsTold(b) BY <1>2, <1>6 DEF ToldInv
  <2>2. QED BY <1>2, <2>1 DEF OnePending, PendingIsTold, IsHandler
<1>7. ASSUME NEW b \in Backends \ crossed', NEW t \in Tablets \ (touched' \cup missed'), Decides(b, t)
      PROVE  Follows(b, t)'
  <2>1. CASE t # u
    <3>1. Follows(b, t) BY <1>2, <1>7, <2>1 DEF ToldInv
    <3>2. repo'[t] = repo[t] BY <1>3, <2>1
    <3>3. QED BY <1>2, <3>1, <3>2 DEF Follows, Followed, IsHandler, Pending, Handling
  <2>2. CASE t = u
    \* The update of a tablet that is not touched is the monitor's call's for
    \* the backend that decides on it.
    <3>1. CallKeeps(thread[h]) /\ thread[h] \in CallRecord BY <1>1 DEF ToldInv, Base, TabletShape
    <3>2. thread[h].op = "handle" BY <1>1, <1>2, <1>7, <2>2, <3>1 DEF CallKeeps, CallRecord
    <3>3. update.want = thread[h].want /\ Decides(thread[h].level, u) BY <1>1, <3>1, <3>2 DEF CallKeeps
    <3>4. thread[h].level \in Backends BY <1>1, <3>2 DEF Base, HeardInv, CallJustified
    <3>5. thread[h].level = b BY <1>1, <1>7, <2>2, <3>3, <3>4, OneDecider
    <3>6. IsHandler(h, b) BY <3>2, <3>5 DEF IsHandler
    <3>7. OnePending(b) BY <1>2, <1>7 DEF ToldInv
    <3>8. \A x \in Threads : IsHandler(x, b)' => x = h
      BY <1>1, <1>2, <3>6, <3>7 DEF OnePending, IsHandler
    <3>9. Followed(thread[h], t)' BY <1>1, <1>2, <1>3, <2>2, <3>3 DEF Followed
    <3>10. Pending(b)' BY <1>1, <1>2, <3>6, SMTT(30) DEF Pending, Handling, IsHandler
    <3>11. QED BY <3>8, <3>9, <3>10 DEF Follows
  <2>3. QED BY <2>1, <2>2
<1>8. QED BY <1>4, <1>5, <1>6, <1>7 DEF ToldInv

\* The update under way returns.
LEMMA ReturnKeepsTold ==
  ASSUME TabletAssumption, Base, CacheInv, ToldInv, SaveFails \/ Invalidate,
         UNCHANGED <<monitorVars, crossed, heard>>
  PROVE  ToldInv'
<1> DEFINE u == update.tablet
           h == update.by
           o == thread[h]
           rest == {p \in o.todo : p[1] # u}
           c == [o EXCEPT !.at = "next", !.todo = rest]
<1>1. /\ update \in UpdateRecord /\ o.at = "updating" /\ <<u, update.want>> \in o.todo
      /\ h \in Threads /\ u \in Tablets
  BY DEF SaveFails, Invalidate, Base, TabletShape, UpdateShape, UpdateRecord, Free
<1>2. o \in CallRecord /\ CallKeeps(o) /\ TabletShape BY <1>1 DEF Base, TabletShape, ToldInv
<1>3. c.op = o.op /\ c.level = o.level /\ c.want = o.want /\ c.todo = rest /\ c.at = "next"
  BY <1>2 DEF CallRecord
<1>4. thread' = [thread EXCEPT ![h] = c] /\ UNCHANGED <<repo, notes, told, sent, crossed, touched>>
  BY DEF SaveFails, Invalidate, Done, monitorVars, noteVars
<1>5. /\ missed \subseteq missed'
      /\ o.op = "handle" => u \in missed' \/ repo[u] = update.want
  <2>1. CASE SaveFails BY <2>1 DEF SaveFails, Missed
  <2>2. CASE Invalidate BY <2>2 DEF Invalidate, CacheInv
  <2>3. QED BY <2>1, <2>2
<1>6. o.op = "handle" => update.want = o.want BY <1>1, <1>2 DEF CallKeeps
<1>7. ASSUME o.op = "handle", NEW t \in Tablets \ (touched' \cup missed'), Followed(o, t)
      PROVE  Followed(c, t)
  <2>1. <<t, o.want>> \in o.todo \/ repo[t] = o.want BY <1>1, <1>7 DEF Followed
  <2>2. t = u => repo[t] = o.want BY <1>5, <1>6, <1>7
  <2>3. t # u /\ <<t, o.want>> \in o.todo => <<t, o.want>> \in rest OBVIOUS
  <2>4. QED BY <1>3, <2>1, <2>2, <2>3 DEF Followed
<1>8. PICK d : d = c OBVIOUS
<1>9. CallKeeps(d) BY <1>2, <1>3, <1>8, KeepsNarrows
<1>10. CallKeeps(d)' BY <1>4, <1>9, KeepsStays
<1>11. QED BY <1>1, <1>2, <1>3, <1>4, <1>5, <1>7, <1>8, <1>10, ToldMoves

\* The goroutine of a note runs: the note's place is taken by the call.
LEMMA DeliverKeepsTold ==
  ASSUME Base, ToldInv, NEW th \in Threads, NEW note \in notes, Deliver(th, note), UNCHANGED <<crossed, heard>>
  PROVE  ToldInv'
<1>1. PICK c : c = [Idle EXCEPT !.op = "handle", !.at = "find", !.level = note.backend,
                                !.want = IF note.state = "alive" THEN "NORMAL" ELSE "UNAVAILABLE"]
  OBVIOUS
<1>2. /\ c.op = "handle" /\ c.at = "find" /\ c.level = note.backend /\ c.want = StateFor(note.state)
      /\ c.todo = {}
  BY <1>1 DEF Idle, StateFor
<1>3. /\ thread' = [thread EXCEPT ![th] = c] /\ thread[th] = Idle /\ notes' = notes \ {note}
      /\ UNCHANGED <<repo, told, sent, crossed, touched, missed>>
  BY <1>1 DEF Deliver, HandleBackendStateChange, Begin
<1>4. thread'[th] = c /\ (\A x \in Threads \ {th} : thread'[x] = thread[x])
  BY <1>3 DEF Base, TabletShape
<1>5. thread[th].op # "handle" BY <1>3 DEF Idle
<1>6. NotesType' BY <1>3 DEF ToldInv, NotesType
<1>7. ASSUME NEW x \in Threads PROVE CallKeeps(thread[x])'
  <2>1. CASE x = th BY <1>2, <1>4, <2>1 DEF CallKeeps
  <2>2. CASE x # th
    <3>1. CallKeeps(thread[x]) BY DEF ToldInv
    <3>2. QED BY <1>3, <1>4, <2>2, <3>1 DEF CallKeeps
  <2>3. QED BY <2>1, <2>2
<1>8. ASSUME NEW x \in Threads, NEW b
      PROVE  IsHandler(x, b)' <=> (x = th /\ b = note.backend) \/ IsHandler(x, b)
  <2>1. CASE x = th BY <1>2, <1>4, <1>5, <2>1 DEF IsHandler
  <2>2. CASE x # th BY <1>4, <2>2 DEF IsHandler
  <2>3. QED BY <2>1, <2>2
<1>9. ASSUME NEW b \in Backends \ crossed' PROVE OnePending(b)' /\ PendingIsTold(b)'
  <2>1. OnePending(b) /\ PendingIsTold(b) BY <1>3, <1>9 DEF ToldInv
  <2>2. OnePending(b)' BY <1>3, <1>8, <2>1 DEF OnePending
  <2>3. (told[b] = note.state /\ note.state # "absent") \/ note.backend # b
    BY <2>1 DEF PendingIsTold, ToldInv, NotesType
  <2>4. ASSUME NEW x \in Threads, IsHandler(x, b)'
        PROVE  told[b] # "absent" /\ thread'[x].want = StateFor(told[b])
    <3>1. CASE x = th /\ b = note.backend BY <1>2, <1>4, <2>3, <3>1
    <3>2. CASE IsHandler(x, b)
      <4>1. x # th BY <1>5, <3>2 DEF IsHandler
      <4>2. QED BY <1>4, <2>1, <3>2, <4>1 DEF PendingIsTold
    <3>3. QED BY <1>8, <2>4, <3>1, <3>2
  <2>5. \A n \in notes' : n.backend = b => told[b] = n.state BY <1>3, <2>1 DEF PendingIsTold
  <2>6. PendingIsTold(b)' BY <1>3, <2>4, <2>5 DEF PendingIsTold
  <2>7. QED BY <2>2, <2>6
<1>10. ASSUME NEW b \in Backends \ crossed', NEW t \in Tablets \ (touched' \cup missed'), Decides(b, t)
       PROVE  Follows(b, t)'
  <2>1. Follows(b, t) BY <1>3, <1>10 DEF ToldInv
  <2>2. Pending(b) => Pending(b)'
    <3>1. CASE note.backend = b
      <4>1. IsHandler(th, b)' BY <1>8, <3>1
      <4>2. QED BY <4>1 DEF Pending, Handling, IsHandler
    <3>2. CASE note.backend # b
      BY <1>3, <1>8, <3>2 DEF Pending, Handling, IsHandler
    <3>3. QED BY <3>1, <3>2
  <2>3. ASSUME NEW x \in Threads, IsHandler(x, b)' PROVE Followed(thread[x], t)'
    <3>1. CASE x = th BY <1>2, <1>4, <3>1 DEF Followed
    <3>2. CASE x # th
      <4>1. Followed(thread[x], t) BY <1>8, <2>1, <2>3, <3>2 DEF Follows
      <4>2. QED BY <1>3, <1>4, <3>2, <4>1 DEF Followed
    <3>3. QED BY <3>1, <3>2
  <2>4. QED BY <1>3, <2>1, <2>2, <2>3 DEF Follows
<1>11. QED BY <1>6, <1>7, <1>9, <1>10 DEF ToldInv

\* A check tells the changes: a backend with a note under way that changes
\* again is crossed.
LEMMA CheckKeepsTold ==
  ASSUME MonitorAssumption, Base, ToldInv, Check
  PROVE  ToldInv'
<1>1. PICK report \in Reports : Observe(report) BY DEF Check
<1>2. UNCHANGED <<repo, thread, touched, missed>> /\ crossed' = crossed \cup Crossed
  BY DEF Check, tabletVars
<1> DEFINE changed == Changed(report)
           fresh(b) == [backend |-> b, state |-> StateIn(report, b), n |-> sent + 1]
<1>3. /\ notes' = notes \cup {fresh(b) : b \in changed}
      /\ told' = [b \in Backends |-> IF b \in changed THEN StateIn(report, b) ELSE told[b]]
      /\ sent' = IF changed = {} THEN sent ELSE sent + 1
  BY <1>1 DEF Observe
<1>4. \A b : StateIn(report, b) \in {"alive", "dead"} BY DEF StateIn
<1>5. NotesType BY DEF ToldInv
<1>6. ASSUME NEW b \in changed
      PROVE  /\ b \in Backends /\ fresh(b) \in notes' \ notes
             /\ fresh(b).backend = b /\ fresh(b).state = StateIn(report, b)
  <2>1. b \in Backends BY DEF Changed, Named
  <2>2. fresh(b).n = sent + 1 OBVIOUS
  <2>3. fresh(b) \notin notes BY <1>5, <2>2 DEF NotesType
  <2>4. QED BY <1>3, <2>1, <2>3
<1>7. ASSUME NEW n \in notes', n \notin notes PROVE n.backend \in changed /\ n = fresh(n.backend)
  BY <1>3, <1>7
<1>8. NotesType'
  <2>1. told' \in Report BY <1>3, <1>4, <1>5 DEF NotesType, Report, Known
  <2>2. sent' \in Nat /\ sent <= sent' /\ (changed # {} => sent' = sent + 1) BY <1>3, <1>5 DEF NotesType
  <2>3. ASSUME NEW n \in notes'
        PROVE  n \in [backend : Backends, state : {"alive", "dead"}, n : Nat] /\ n.n <= sent'
    <3>1. CASE n \in notes BY <1>5, <2>2, <3>1 DEF NotesType
    <3>2. CASE n \notin notes
      <4>1. PICK b \in changed : n = fresh(b) BY <1>7, <3>2
      <4>2. b \in Backends /\ sent + 1 \in Nat /\ sent' = sent + 1 BY <1>5, <1>6, <2>2 DEF NotesType
      <4>3. n.n = sent + 1 BY <4>1
      <4>4. QED BY <1>4, <4>1, <4>2, <4>3
    <3>3. QED BY <3>1, <3>2
  <2>4. QED BY <2>1, <2>2, <2>3 DEF NotesType
<1>9. ASSUME NEW th \in Threads PROVE CallKeeps(thread[th])'
  <2>1. CallKeeps(thread[th]) BY DEF ToldInv
  <2>2. QED BY <1>2, <2>1 DEF CallKeeps
<1>10. ASSUME NEW b \in Backends \ crossed'
       PROVE  /\ OnePending(b)' /\ PendingIsTold(b)'
              /\ \A t \in Tablets \ (touched' \cup missed') : Decides(b, t) => Follows(b, t)'
  <2>1. /\ b \notin crossed /\ OnePending(b) /\ PendingIsTold(b)
        /\ \A t \in Tablets \ (touched' \cup missed') : Decides(b, t) => Follows(b, t)
    BY <1>2, <1>10 DEF ToldInv
  <2>2. \A x \in Threads : IsHandler(x, b)' <=> IsHandler(x, b) BY <1>2 DEF IsHandler
  <2>3. CASE b \in changed
    <3>1. fresh(b) \in notes' \ notes /\ fresh(b).backend = b BY <1>6, <2>3
    <3>2. ~Pending(b) BY <1>2, <1>10, <3>1 DEF Crossed
    <3>3. \A n \in notes' : n.backend = b => n = fresh(b) BY <1>7, <3>2 DEF Pending
    <3>4. \A x \in Threads : ~IsHandler(x, b) BY <3>2 DEF Pending, Handling, IsHandler
    <3>5. told'[b] = StateIn(report, b) BY <1>3, <2>3
    <3>6. OnePending(b)' BY <2>2, <3>3, <3>4 DEF OnePending
    <3>7. \A n \in notes' : n.backend = b => told'[b] = n.state BY <1>6, <2>3, <3>3, <3>5
    <3>8. PendingIsTold(b)' BY <2>2, <3>4, <3>7 DEF PendingIsTold
    <3>9. Pending(b)' BY <3>1 DEF Pending
    <3>10. \A t : Follows(b, t)' BY <2>2, <3>4, <3>9 DEF Follows
    <3>11. QED BY <3>6, <3>8, <3>10
  <2>4. CASE b \notin changed
    <3>1. told'[b] = told[b] BY <1>3, <1>10, <2>4
    <3>2. \A n \in notes' : n.backend = b => n \in notes BY <1>7, <2>4
    <3>3. notes \subseteq notes' BY <1>3
    <3>4. OnePending(b)' BY <2>1, <2>2, <3>2 DEF OnePending
    <3>5. \A x \in Threads : thread'[x] = thread[x] BY <1>2
    <3>6. PendingIsTold(b)' BY <2>1, <2>2, <3>1, <3>2, <3>5 DEF PendingIsTold
    <3>7. Pending(b) => Pending(b)' BY <1>2, <3>3 DEF Pending, Handling
    <3>8. ASSUME NEW t, Follows(b, t) PROVE Follows(b, t)'
      <4>1. told'[b] # "absent" /\ ~Pending(b)' => repo'[t] = StateFor(told'[b])
        BY <1>2, <3>1, <3>7, <3>8 DEF Follows
      <4>2. ASSUME NEW x \in Threads, IsHandler(x, b)' PROVE Followed(thread[x], t)'
        <5>1. Followed(thread[x], t) BY <2>2, <3>8, <4>2 DEF Follows
        <5>2. QED BY <1>2, <5>1 DEF Followed
      <4>3. QED BY <4>1, <4>2 DEF Follows
    <3>9. QED BY <2>1, <3>4, <3>6, <3>8
  <2>5. QED BY <2>3, <2>4
<1>11. QED BY <1>8, <1>9, <1>10 DEF ToldInv

LEMMA ToldInit == Init => ToldInv
<1> SUFFICES ASSUME Init PROVE ToldInv OBVIOUS
<1>1. /\ thread = [th \in Threads |-> Idle] /\ notes = {} /\ told = [b \in Backends |-> "absent"] /\ sent = 0
  BY DEF Init, TabletInit, MonitorInit
<1>2. NotesType BY <1>1 DEF NotesType, Report, Known
<1>3. \A b : \A th \in Threads : ~IsHandler(th, b) BY <1>1 DEF IsHandler, Idle
<1>4. \A b \in Backends : OnePending(b) /\ PendingIsTold(b) BY <1>1, <1>3 DEF OnePending, PendingIsTold
<1>5. \A b \in Backends, t \in Tablets : Follows(b, t) BY <1>1, <1>3 DEF Follows
<1>6. QED BY <1>1, <1>2, <1>4, <1>5, IdleKeeps DEF ToldInv

LEMMA ToldStep ==
  ASSUME TabletAssumption, MonitorAssumption, AvailabilityAssumption, Base, CacheInv, ToldInv, [Next]_vars
  PROVE  ToldInv'
<1>1. CASE Check BY <1>1, CheckKeepsTold
<1>2. ASSUME NEW th \in Threads, UNCHANGED <<monitorVars, crossed, heard>>,
             UpdateTabletStatus(th) \/ RefreshStatus(th) \/ GetStatus(th)
      PROVE  ToldInv'
  BY <1>2, CallsKeepTold
<1>3. ASSUME NEW th \in Threads, UNCHANGED <<monitorVars, crossed, heard>>, CallStep(th) PROVE ToldInv'
  <2>1. CASE thread[th].op = "handle" BY <1>3, <2>1, HandlerKeepsTold
  <2>2. CASE thread[th].op # "handle" BY <1>3, <2>2, OthersKeepTold DEF Base
  <2>3. QED BY <2>1, <2>2
<1>4. CASE Save /\ UNCHANGED <<monitorVars, crossed, heard>> BY <1>4, SaveKeepsTold
<1>5. CASE (SaveFails \/ Invalidate) /\ UNCHANGED <<monitorVars, crossed, heard>> BY <1>5, ReturnKeepsTold
<1>6. CASE Set /\ UNCHANGED <<monitorVars, crossed, heard>>
  BY <1>6, ToldStays DEF Set, monitorVars, noteVars
<1>7. ASSUME NEW l \in Levels, Expire(l), UNCHANGED <<monitorVars, crossed, heard>> PROVE ToldInv'
  BY <1>7, ToldStays DEF Expire, monitorVars, noteVars
<1>8. ASSUME NEW th \in Threads, NEW note \in notes, Deliver(th, note), UNCHANGED <<crossed, heard>>
      PROVE  ToldInv'
  BY <1>8, DeliverKeepsTold
<1>9. CASE UNCHANGED vars
  BY <1>9, ToldStays DEF vars, tabletVars, monitorVars, noteVars
<1>10. QED BY <1>1, <1>2, <1>3, <1>4, <1>5, <1>6, <1>7, <1>8, <1>9 DEF Next, TabletNext, UpdateStep

\* When all that was told of a backend is handled, the tablets it decides on
\* are in the state last told of it, however the goroutines of the notes, the
\* updates and the other calls interleave; but for backends with two notes
\* under way at once, tablets whose repository call failed or whose update was
\* skipped for what the cache said, and tablets that somebody else updates.
THEOREM ToldSafety == Spec => []TabletsFollowTold
<1>1. TabletAssumption /\ MonitorAssumption /\ AvailabilityAssumption
  BY TabletAssumption, MonitorAssumption, AvailabilityAssumption
<1>2. ToldInv => TabletsFollowTold BY DEF ToldInv, Follows, TabletsFollowTold, StateFor
<1>3. Spec => []ToldInv BY <1>1, ToldInit, ToldStep, SpecBase, SpecCache, PTL DEF Spec
<1>4. QED BY <1>2, <1>3, PTL
=============================================================================
