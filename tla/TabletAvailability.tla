-------------------------- MODULE TabletAvailability --------------------------
(***************************************************************************)
(* HealthMonitor and TabletManager together: every change the monitor sees *)
(* is a goroutine that calls HandleBackendStateChange.  Two goroutines for *)
(* one backend may run in either order.                                    *)
(*                                                                         *)
(* Of the monitor, only the update with a report reaches the manager; it   *)
(* is one step here, and the rest of the monitor stands still.             *)
(***************************************************************************)
EXTENDS HealthMonitor, TabletManager

\* A backend's ID is never the -1 of a tablet without a primary.
ASSUME AvailabilityAssumption == NoBackend \notin Backends

VARIABLES
  crossed,  \* history: backends with two notes under way at once
  heard     \* history: the states the backends were told to be in

vars == <<monitorVars, tabletVars, crossed, heard>>

Handling(b) == \E th \in Threads : thread[th].op = "handle" /\ thread[th].level = b
Pending(b)  == Handling(b) \/ \E note \in notes : note.backend = b

\* A goroutine of a note runs, on any free thread.
Deliver(th, note) ==
  /\ notes' = notes \ {note}
  /\ HandleBackendStateChange(th, note.backend, note.state)
  /\ UNCHANGED <<lifeVars, stateVars, told, sent, checker, reports>>

Init == MonitorInit /\ TabletInit /\ crossed = {} /\ heard = {}

\* The backends of which a second note is sent before the first is handled.
Crossed == {b \in Backends : Pending(b) /\ \E note \in notes' \ notes : note.backend = b}

Check ==
  /\ reports < MaxReports /\ reports' = reports + 1
  /\ \E report \in Reports : Observe(report)
  /\ crossed' = crossed \cup Crossed
  /\ heard' = heard \cup {<<note.backend, note.state>> : note \in notes' \ notes}
  /\ UNCHANGED <<lifeVars, badTablets, health, checker, tabletVars>>

Next ==
  \/ Check
  \/ TabletNext /\ UNCHANGED <<monitorVars, crossed, heard>>
  \/ \E th \in Threads, note \in notes : Deliver(th, note) /\ UNCHANGED <<crossed, heard>>

Spec == Init /\ [][Next]_vars

-----------------------------------------------------------------------------
TypeOK == MonitorTypeOK /\ TabletTypeOK

\* When all that was told of a backend is handled, the tablets it decides on
\* are in the state last told of it: NORMAL if it is alive, UNAVAILABLE if it
\* is dead.  Exceptions are two notes of it under way at once, a call of the
\* repository that failed, an update skipped for a cached state that was not
\* the repository's, and updates by others.
TabletsFollowTold ==
  \A b \in Backends, t \in Tablets \ (touched \cup missed) :
    (Decides(b, t) /\ told[b] # "absent" /\ ~Pending(b) /\ b \notin crossed)
      => repo[t] = IF told[b] = "alive" THEN "NORMAL" ELSE "UNAVAILABLE"

\* The repository implements TabletOutage: a tablet takes the state of a
\* backend that decides on it and was told to be in that state, and another
\* state only after a call other than the monitor's.
Outage == INSTANCE TabletOutage WITH state <- repo, others <- touched
OutageIsLocal == Outage!Spec
=============================================================================
