------------------------ MODULE MCTabletAvailability ------------------------
(***************************************************************************)
(* Two backends, and two tablets on them: b1 is the primary of the first   *)
(* tablet, the second has none.  The first answer of the front end makes   *)
(* the backends known, the others change them.                             *)
(***************************************************************************)
EXTENDS TabletAvailability, TLC

Answer(x, y) == "b1" :> x @@ "b2" :> y
MCReports == {Answer("alive", "alive"), Answer("dead", "alive"), Answer("absent", "dead")}

MCHosts == "t1" :> {"b1", "b2"} @@ "t2" :> {"b2"}
MCPrimary == "t1" :> "b1" @@ "t2" :> "-1"
Swapped == Permutations(Threads)
=============================================================================
