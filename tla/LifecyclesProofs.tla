--------------------------- MODULE LifecyclesProofs ---------------------------
(***************************************************************************)
(* What is proved of the components that are started and stopped: the      *)
(* order in which main stops them, the counter and the statements of the   *)
(* MySQL server, what the health monitor publishes and what the health     *)
(* service answers, and where the messages of a batch aggregator are.      *)
(***************************************************************************)
EXTENDS MCLifecycles, FiniteSetTheorems, WellFoundedInduction, SequenceTheorems, TLAPS

-----------------------------------------------------------------------------
(* main.                                                                   *)

\* The components that the loop still has to stop, and those it has been to.
Ahead  == {"starting", "running", "failed"}
Behind == {"stopped", "unstopped", "unstarted", "late"}

(* The loop has been to a component only if it has been to all that follow *)
(* it in the list, and the client is closed after the loop.  The loop has  *)
(* not begun before main is told to stop.                                  *)
MainInv ==
  /\ component \in [Y!Components -> Ahead \cup Behind] /\ clientOpen \in BOOLEAN
  /\ mainAt \in {"sleep", "serving", "stop", "exit"}
  /\ mainAt \in {"sleep", "serving"} => \A i \in Y!Components : component[i] \in Ahead
  /\ \A i, j \in Y!Components : j < i /\ component[j] \in Behind => component[i] \in Behind
  /\ ~clientOpen => \A i \in Y!Components : component[i] \in Behind
  /\ ~clientOpen => mainAt = "exit"

\* What main starts in, and what a step of main preserves.
LEMMA MainInitially == Y!MainInit => MainInv
BY DEF Y!MainInit, MainInv, Y!Components, Ahead, Behind

LEMMA ComponentStartsKeepsMain ==
  ASSUME MainInv, NEW i \in Y!Components, Y!ComponentStarts(i) PROVE MainInv'
BY DEF MainInv, Y!ComponentStarts, Y!Components, Ahead, Behind

\* The loop takes the last of the components that it has not been to.
LEMMA StopNextKeepsMain == MainInv /\ Y!StopNext => MainInv'
<1> SUFFICES ASSUME MainInv, Y!StopNext PROVE MainInv'
  OBVIOUS
<1>1. PICK i \in Y!LeftToStop : /\ \A j \in Y!LeftToStop : j <= i
                                /\ \E o \in {"unstarted", "stopped", "unstopped"} : component' = [component EXCEPT ![i] = o]
  <2>1. \E i \in Y!LeftToStop : \A j \in Y!LeftToStop : j <= i
    BY DEF Y!StopNext, Y!LeftToStop, Y!Components
  <2> QED BY <2>1 DEF Y!StopNext, Y!Outcomes
<1>2. \A j \in Y!Components : j > i => component[j] \in Behind
  BY <1>1 DEF Y!LeftToStop, Y!Components, MainInv, Ahead, Behind
<1> QED BY <1>1, <1>2 DEF MainInv, Y!StopNext, Y!LeftToStop, Y!Components, Ahead, Behind

LEMMA OtherStepsKeepMain ==
  MainInv /\ (Y!AfterSleep \/ Y!ReceiveSignal \/ Y!CloseStarRocksClient) => MainInv'
BY DEF MainInv, Y!AfterSleep, Y!ReceiveSignal, Y!CloseStarRocksClient, Y!LeftToStop, Y!Components,
       Ahead, Behind

LEMMA MainStays == MainInv /\ UNCHANGED mainVars => MainInv'
BY DEF MainInv, mainVars

(* main stops its components in the reverse of the order of their start:   *)
(* while one runs whose stop has not returned, no stop of one before it    *)
(* has, and the client is still open; a component whose stop failed or     *)
(* came before its start had ended may run on (cmd/staravail/main.go).     *)
THEOREM StopOrderSafety == Spec => []StopsInReverse
<1>1. Init => MainInv
  BY MainInitially DEF Init
<1>2. MainInv /\ [Next]_vars => MainInv'
  <2> SUFFICES ASSUME MainInv, [Next]_vars PROVE MainInv'
    OBVIOUS
  <2>1. CASE Y!MainNext
    BY <2>1, ComponentStartsKeepsMain, StopNextKeepsMain, OtherStepsKeepMain DEF Y!MainNext
  <2>2. CASE UNCHANGED mainVars
    BY <2>2, MainStays
  <2>3. Y!MainNext \/ UNCHANGED mainVars
    BY DEF Next, vars
  <2> QED BY <2>1, <2>2, <2>3
<1>3. MainInv => StopsInReverse
  BY DEF MainInv, StopsInReverse, Y!StopsInReverse, Y!Components, Ahead, Behind
<1> QED BY <1>1, <1>2, <1>3, PTL DEF Spec

-----------------------------------------------------------------------------
(* The MySQL server: the counter.                                          *)

\* The connections with a goroutine, or about to lose it.
Served == {c \in Clients : handler[c] \notin {None, "removed"}}

(* The counter is ahead of the goroutines by the connection that the       *)
(* accept loop has counted and not yet stored; nobody else has touched     *)
(* that one.  Once the loop has passed the limit, the counter can only     *)
(* fall until it counts.                                                   *)
CounterInv ==
  /\ up \in BOOLEAN /\ stopped \in BOOLEAN /\ stopCall \in {"no", "closing", "waiting"}
  /\ acceptor \in {"off", "limit", "accept", "count", "store"} /\ arriving \in Clients \cup {None}
  /\ dialled \subseteq Clients /\ connections \subseteq Clients /\ missed \subseteq Clients
  /\ handler \in [Clients -> {None, "auth", "read", "execute", "closed", "removed"}]
  /\ socketClosed \subseteq Clients /\ left \subseteq Clients
  /\ count \in Nat /\ count = Cardinality(Served) + (IF acceptor = "store" THEN 1 ELSE 0)
  /\ acceptor \in {"count", "store"} => arriving \in Clients /\ handler[arriving] = None
  /\ MaxConnections > 0 =>
       count <= MaxConnections /\ (acceptor \in {"accept", "count"} => count < MaxConnections)

\* The clients are finitely many, and so are those that are served.
LEMMA ServedIsFinite == IsFiniteSet(Served) /\ Cardinality(Served) \in Nat
BY ServerAssumption, FS_Subset, FS_CardinalityType DEF Served

\* A connection that has no goroutine yet gets one.
LEMMA ServedGrows ==
  ASSUME NEW c \in Clients, c \notin Served, Served' = Served \cup {c}
  PROVE  Cardinality(Served') = Cardinality(Served) + 1
BY ServedIsFinite, FS_AddElement

\* A goroutine is over.
LEMMA ServedShrinks ==
  ASSUME NEW c \in Served, Served' = Served \ {c}
  PROVE  Cardinality(Served') = Cardinality(Served) - 1
BY ServedIsFinite, FS_RemoveElement

LEMMA CounterInitially == ServerInit => CounterInv
<1> SUFFICES ASSUME ServerInit PROVE CounterInv
  OBVIOUS
<1>1. Served = {}
  BY DEF ServerInit, Served
<1>2. Cardinality(Served) = 0
  BY <1>1, FS_EmptySet
<1>3. handler \in [Clients -> {None, "auth", "read", "execute", "closed", "removed"}]
  BY DEF ServerInit
<1>4. count \in Nat /\ count = Cardinality(Served) + (IF acceptor = "store" THEN 1 ELSE 0)
  BY <1>2 DEF ServerInit
<1>5. /\ acceptor \notin {"accept", "count", "store"} /\ acceptor \in {"off", "limit", "accept", "count", "store"}
      /\ MaxConnections > 0 => count <= MaxConnections
  BY ServerAssumption DEF ServerInit
<1>6. /\ up \in BOOLEAN /\ stopped \in BOOLEAN /\ stopCall \in {"no", "closing", "waiting"}
      /\ arriving \in Clients \cup {None}
      /\ dialled \subseteq Clients /\ connections \subseteq Clients /\ missed \subseteq Clients
      /\ socketClosed \subseteq Clients /\ left \subseteq Clients
  BY DEF ServerInit
<1> QED BY <1>3, <1>4, <1>5, <1>6 DEF CounterInv

\* Start, Stop and the steps of the loop that touch neither counter nor handler.
LEMMA LifeKeepsCounter ==
  CounterInv /\ (StartServer \/ StopServer \/ closeAllConnections \/ StopReturns) => CounterInv'
<1> SUFFICES ASSUME CounterInv, StartServer \/ StopServer \/ closeAllConnections \/ StopReturns
             PROVE  CounterInv'
  OBVIOUS
<1>1. Served' = Served
  BY DEF Served, StartServer, StopServer, closeAllConnections, StopReturns, socketVars
<1>2. CASE StartServer
  BY <1>1, <1>2 DEF CounterInv, StartServer, sessionVars, socketVars
<1>3. CASE StopServer \/ closeAllConnections \/ StopReturns
  BY <1>1, <1>3 DEF CounterInv, StopServer, closeAllConnections, StopReturns, acceptVars, sessionVars, socketVars
<1> QED BY <1>2, <1>3

LEMMA AcceptingKeepsCounter == CounterInv /\ Accepting => CounterInv'
<1> SUFFICES ASSUME CounterInv, Accepting PROVE CounterInv'
  OBVIOUS
<1>1. CASE CheckLimit \/ Accept \/ AcceptNothing
  <2>1. Served' = Served
    BY <1>1 DEF Served, CheckLimit, Accept, AcceptNothing, socketVars
  <2>2. CASE CheckLimit
    BY <2>1, <2>2, ServerAssumption DEF CounterInv, CheckLimit, AtLimit, lifeVars, socketVars
  <2>3. CASE Accept
    BY <2>1, <2>3 DEF CounterInv, Accept, lifeVars, socketVars
  <2>4. CASE AcceptNothing
    BY <2>1, <2>4 DEF CounterInv, AcceptNothing, lifeVars, socketVars
  <2> QED BY <1>1, <2>2, <2>3, <2>4
<1>2. CASE Count
  <2>1. Served' = Served
    BY <1>2 DEF Served, Count, socketVars
  <2> QED BY <1>2, <2>1, ServedIsFinite, ServerAssumption DEF CounterInv, Count, lifeVars, socketVars
<1>3. CASE Store
  <2>1. arriving \in Clients /\ arriving \notin Served
    BY <1>3 DEF CounterInv, Store, Served
  <2>2. Served' = Served \cup {arriving}
    BY <1>3, <2>1 DEF CounterInv, Store, Served, None
  <2>3. Cardinality(Served') = Cardinality(Served) + 1
    BY <2>1, <2>2, ServedGrows
  <2> QED BY <1>3, <2>1, <2>3, ServedIsFinite DEF CounterInv, Store, lifeVars
<1> QED BY <1>1, <1>2, <1>3 DEF Accepting

\* A handler goes from one of its states to another: who is served stays.
LEMMA HandlerKeepsCounter ==
  ASSUME CounterInv, NEW c \in Clients,
         Authenticate(c) \/ Command(c) \/ Answer(c) \/ Quit(c) \/ ReadFails(c) \/ HangUp(c)
  PROVE  CounterInv'
<1>1. c \in Served /\ UNCHANGED <<lifeVars, acceptVars, sessionVars, socketClosed>>
  BY DEF Authenticate, Command, Answer, Quit, ReadFails, HangUp, Served, None
<1>2. PICK p \in {"auth", "read", "execute", "closed"} : handler' = [handler EXCEPT ![c] = p]
  <2>1. CASE Authenticate(c) \/ Command(c) \/ Answer(c)
    BY <2>1 DEF Authenticate, Command, Answer, Goes
  <2>2. CASE Quit(c) \/ ReadFails(c)
    BY <2>2 DEF Quit, ReadFails, Goes
  <2>3. CASE HangUp(c)
    BY <2>3 DEF HangUp, CounterInv
  <2> QED BY <2>1, <2>2, <2>3
<1>3. left' \subseteq Clients
  BY DEF CounterInv, Authenticate, Command, Answer, Quit, ReadFails, HangUp
<1>4. Served' = Served
  BY <1>1, <1>2 DEF Served, CounterInv, None
<1>5. acceptor \in {"count", "store"} => handler'[arriving] = None
  BY <1>1, <1>2 DEF CounterInv, Served
<1>6. handler' \in [Clients -> {None, "auth", "read", "execute", "closed", "removed"}]
  BY <1>2 DEF CounterInv
<1> QED BY <1>1, <1>3, <1>4, <1>5, <1>6 DEF CounterInv, lifeVars, acceptVars

LEMMA RemovalKeepsCounter ==
  ASSUME CounterInv, NEW c \in Clients, removeConnection(c) PROVE CounterInv'
<1>1. c \in Served
  BY DEF removeConnection, Served, None
<1>2. Served' = Served \ {c}
  BY DEF removeConnection, Goes, Served, CounterInv
<1>3. Cardinality(Served') = Cardinality(Served) - 1
  BY <1>1, <1>2, ServedShrinks
<1>4. acceptor \in {"count", "store"} => handler'[arriving] = None
  BY <1>1 DEF CounterInv, Served, removeConnection, Goes
<1>5. Cardinality(Served) \in Nat /\ Cardinality(Served) # 0
  BY <1>1, ServedIsFinite, FS_EmptySet
<1> QED BY <1>3, <1>4, <1>5, ServerAssumption DEF CounterInv, removeConnection, Goes, lifeVars

\* What is left: a client dials, or speaks of its statements.
LEMMA TalkKeepsCounter ==
  ASSUME CounterInv, NEW c \in Clients,
         Dial(c) \/ handleStmtPrepare(c) \/ handleStmtClose(c) \/ handleStmtReset(c)
  PROVE  CounterInv'
<1>1. UNCHANGED <<up, stopped, stopCall, acceptor, arriving, count, connections, missed, handler, socketClosed, left>>
      /\ dialled' \subseteq Clients
  BY DEF CounterInv, Dial, handleStmtPrepare, handleStmtClose, handleStmtReset, serverVars, lifeVars,
         acceptVars, socketVars
<1>2. Served' = Served
  BY <1>1 DEF Served
<1> QED BY <1>1, <1>2 DEF CounterInv

LEMMA NextKeepsCounter == CounterInv /\ ServerNext => CounterInv'
BY LifeKeepsCounter, AcceptingKeepsCounter, HandlerKeepsCounter, RemovalKeepsCounter, TalkKeepsCounter
   DEF ServerNext, Handling, Talking

LEMMA CounterStays == CounterInv /\ UNCHANGED serverVars => CounterInv'
BY DEF CounterInv, Served, serverVars, lifeVars, acceptVars, socketVars

-----------------------------------------------------------------------------
(* The MySQL server: the prepared statements.                              *)

(* The statements of a connection that has not closed one have the first   *)
(* IDs, so that the next ID, their number and one, is free; each handle is *)
(* of one of them.  No connection has more of them than it has prepared.   *)
StatementType ==
  /\ prepared \in [Clients -> [IDs -> Queries \cup {None}]]
  /\ handles \in [Clients -> SUBSET (IDs \X Queries)] /\ prepares \in [Clients -> 0..MaxPrepares]
  /\ closedOne \subseteq Clients

Numbered(c) ==
  /\ Held(c) = 1..Cardinality(Held(c))
  /\ \A h \in handles[c] : h[1] \in Held(c) /\ prepared[c][h[1]] = h[2]

StatementInv ==
  /\ StatementType
  /\ \A c \in Clients : Cardinality(Held(c)) <= prepares[c]
  /\ \A c \in Clients \ closedOne : Numbered(c)

\* The statements of a connection are finitely many.
LEMMA HeldIsFinite ==
  \A c \in Clients : IsFiniteSet(Held(c)) /\ Cardinality(Held(c)) \in Nat
<1>1. IsFiniteSet(IDs)
  BY FS_Interval, ServerAssumption DEF IDs
<1> QED BY <1>1, FS_Subset, FS_CardinalityType DEF Held

\* Who has none of them has none to be wrong about.
LEMMA NothingIsNumbered ==
  ASSUME NEW c \in Clients, prepared[c] = [i \in IDs |-> None], handles[c] = {}
  PROVE  Numbered(c) /\ Cardinality(Held(c)) = 0
<1>1. Held(c) = {}
  BY DEF Held
<1>2. Cardinality(Held(c)) = 0
  BY <1>1, FS_EmptySet
<1> QED BY <1>1, <1>2 DEF Numbered

LEMMA StatementsInitially == ServerInit => StatementInv
<1> SUFFICES ASSUME ServerInit PROVE StatementInv
  OBVIOUS
<1>1. StatementType
  BY ServerAssumption DEF ServerInit, StatementType
<1>2. ASSUME NEW c \in Clients PROVE Numbered(c) /\ Cardinality(Held(c)) <= prepares[c]
  <2>1. prepared[c] = [i \in IDs |-> None] /\ handles[c] = {} /\ prepares[c] = 0
    BY DEF ServerInit
  <2>2. Numbered(c) /\ Cardinality(Held(c)) = 0
    BY <2>1, NothingIsNumbered
  <2> QED BY <2>1, <2>2
<1> QED BY <1>1, <1>2 DEF StatementInv

\* The other connections keep theirs.
LEMMA OthersKeepStatements ==
  ASSUME StatementInv, NEW c \in Clients,
         \A d \in Clients \ {c} : prepared'[d] = prepared[d] /\ handles'[d] = handles[d] /\ prepares'[d] = prepares[d],
         closedOne' \cup {c} = closedOne \cup {c}
  PROVE  \A d \in Clients \ {c} : Cardinality(Held(d))' <= prepares'[d] /\ (d \notin closedOne' => Numbered(d)')
<1> SUFFICES ASSUME NEW d \in Clients \ {c}
             PROVE  Cardinality(Held(d))' <= prepares'[d] /\ (d \notin closedOne' => Numbered(d)')
  OBVIOUS
<1>1. prepared'[d] = prepared[d] /\ handles'[d] = handles[d] /\ prepares'[d] = prepares[d]
  OBVIOUS
<1>2. Held(d)' = Held(d)
  BY <1>1 DEF Held
<1>3. Cardinality(Held(d)) <= prepares[d] /\ (d \notin closedOne => Numbered(d))
  BY DEF StatementInv
<1>4. d \notin closedOne' => d \notin closedOne
  OBVIOUS
<1>5. Numbered(d) => Numbered(d)'
  BY <1>1, <1>2 DEF Numbered
<1> QED BY <1>1, <1>2, <1>3, <1>4, <1>5

\* The next ID is free, on a connection that has not closed a statement.
LEMMA PrepareKeepsStatements ==
  ASSUME StatementInv, NEW c \in Clients, handleStmtPrepare(c) PROVE StatementInv'
<1> DEFINE k == Cardinality(Held(c))
<1>1. PICK q \in Queries :
        /\ prepares[c] < MaxPrepares /\ prepares' = [prepares EXCEPT ![c] = @ + 1]
        /\ prepared' = [prepared EXCEPT ![c][k + 1] = q]
        /\ handles' = [handles EXCEPT ![c] = @ \cup {<<k + 1, q>>}]
        /\ closedOne' = closedOne
  BY DEF handleStmtPrepare
<1>2. k \in Nat /\ IsFiniteSet(Held(c))
  BY HeldIsFinite
<1>3. prepares[c] \in 0..MaxPrepares /\ k <= prepares[c] /\ MaxPrepares \in Nat
  BY ServerAssumption DEF StatementInv, StatementType
<1>4. k + 1 \in IDs
  BY <1>1, <1>2, <1>3 DEF IDs
<1>5. prepared[c] \in [IDs -> Queries \cup {None}]
  BY DEF StatementInv, StatementType
<1>6. prepared'[c] = [prepared[c] EXCEPT ![k + 1] = q]
  BY <1>1 DEF StatementInv, StatementType
<1>7. handles'[c] = handles[c] \cup {<<k + 1, q>>}
  BY <1>1 DEF StatementInv, StatementType
<1>8. prepares'[c] = prepares[c] + 1
  BY <1>1 DEF StatementInv, StatementType
<1> HIDE DEF k
<1>9. StatementType'
  <2>1. prepared'[c] \in [IDs -> Queries \cup {None}]
    BY <1>5, <1>6
  <2>2. prepared' \in [Clients -> [IDs -> Queries \cup {None}]]
    BY <1>1, <2>1 DEF StatementInv, StatementType
  <2>3. handles' \in [Clients -> SUBSET (IDs \X Queries)]
    BY <1>1, <1>4 DEF StatementInv, StatementType
  <2>4. prepares' \in [Clients -> 0..MaxPrepares]
    BY <1>1, <1>3 DEF StatementInv, StatementType
  <2> QED BY <1>1, <2>2, <2>3, <2>4 DEF StatementInv, StatementType
<1>10. Held(c)' = Held(c) \cup {k + 1}
  BY <1>4, <1>5, <1>6, StatementAssumption DEF Held
<1>11. Cardinality(Held(c))' <= prepares'[c]
  <2>1. Cardinality(Held(c) \cup {k + 1}) \in {k, k + 1}
    BY <1>2, FS_AddElement DEF k
  <2> QED BY <1>2, <1>3, <1>8, <1>10, <2>1
<1>12. ASSUME Numbered(c) PROVE Numbered(c)'
  <2>1. Held(c) = 1..k
    BY <1>12 DEF Numbered, k
  <2>2. k + 1 \notin Held(c)
    BY <1>2, <2>1
  <2>3. Cardinality(Held(c))' = k + 1
    BY <1>2, <1>10, <2>2, FS_AddElement DEF k
  <2>4. Held(c)' = 1..(k + 1)
    BY <1>2, <1>10, <2>1
  <2>5. ASSUME NEW h \in handles'[c] PROVE h[1] \in Held(c)' /\ prepared'[c][h[1]] = h[2]
    <3>1. CASE h \in handles[c]
      <4>1. h[1] \in Held(c) /\ prepared[c][h[1]] = h[2]
        BY <1>12, <3>1 DEF Numbered
      <4>2. h[1] # k + 1 /\ h[1] \in IDs
        BY <2>2, <4>1 DEF Held
      <4> QED BY <1>5, <1>6, <1>10, <4>1, <4>2
    <3>2. CASE h = <<k + 1, q>>
      BY <1>4, <1>5, <1>6, <1>10, <3>2
    <3> QED BY <1>7, <3>1, <3>2
  <2> QED BY <2>3, <2>4, <2>5 DEF Numbered
<1>13. \A d \in Clients \ {c} : prepared'[d] = prepared[d] /\ handles'[d] = handles[d] /\ prepares'[d] = prepares[d]
  BY <1>1 DEF StatementInv, StatementType
<1>14. \A d \in Clients \ {c} : Cardinality(Held(d))' <= prepares'[d] /\ (d \notin closedOne' => Numbered(d)')
  BY <1>1, <1>13, OthersKeepStatements
<1>15. c \notin closedOne' => Numbered(c)'
  BY <1>1, <1>12 DEF StatementInv
<1> QED BY <1>9, <1>11, <1>14, <1>15 DEF StatementInv

\* A statement is closed: its connection is one that has closed a statement.
LEMMA CloseKeepsStatements ==
  ASSUME StatementInv, NEW c \in Clients, handleStmtClose(c) PROVE StatementInv'
<1>1. PICK h \in handles[c] :
        /\ prepared' = [prepared EXCEPT ![c][h[1]] = None] /\ handles' = [handles EXCEPT ![c] = @ \ {h}]
        /\ closedOne' = closedOne \cup {c} /\ prepares' = prepares
  BY DEF handleStmtClose
<1>2. prepared[c] \in [IDs -> Queries \cup {None}] /\ prepares[c] \in 0..MaxPrepares
  BY DEF StatementInv, StatementType
<1>3. prepared'[c] = [prepared[c] EXCEPT ![h[1]] = None]
  BY <1>1 DEF StatementInv, StatementType
<1>4. StatementType'
  <2>1. prepared'[c] \in [IDs -> Queries \cup {None}]
    BY <1>2, <1>3
  <2> QED BY <1>1, <2>1 DEF StatementInv, StatementType
<1>5. Held(c)' \subseteq Held(c)
  BY <1>2, <1>3 DEF Held
<1>6. Cardinality(Held(c))' <= Cardinality(Held(c)) /\ Cardinality(Held(c))' \in Nat
  BY <1>5, HeldIsFinite, FS_Subset, FS_CardinalityType
<1>7. Cardinality(Held(c))' <= prepares'[c]
  <2>1. Cardinality(Held(c)) \in Nat /\ Cardinality(Held(c)) <= prepares[c]
    BY HeldIsFinite DEF StatementInv
  <2> QED BY <1>1, <1>2, <1>6, <2>1
<1>8. \A d \in Clients \ {c} : prepared'[d] = prepared[d] /\ handles'[d] = handles[d] /\ prepares'[d] = prepares[d]
  BY <1>1 DEF StatementInv, StatementType
<1>9. \A d \in Clients \ {c} : Cardinality(Held(d))' <= prepares'[d] /\ (d \notin closedOne' => Numbered(d)')
  BY <1>1, <1>8, OthersKeepStatements
<1> QED BY <1>1, <1>4, <1>7, <1>9 DEF StatementInv

\* A connection goes with its statements.
LEMMA RemovalKeepsStatements ==
  ASSUME StatementInv, NEW c \in Clients, removeConnection(c) PROVE StatementInv'
<1>1. /\ prepared' = [prepared EXCEPT ![c] = [i \in IDs |-> None]] /\ handles' = [handles EXCEPT ![c] = {}]
      /\ prepares' = prepares /\ closedOne' = closedOne
  BY DEF removeConnection
<1>2. StatementType'
  BY <1>1 DEF StatementInv, StatementType
<1>3. prepared'[c] = [i \in IDs |-> None] /\ handles'[c] = {}
  BY <1>1 DEF StatementInv, StatementType
<1>4. Numbered(c)' /\ Cardinality(Held(c))' = 0
  <2>1. Held(c)' = {}
    BY <1>3 DEF Held
  <2>2. Cardinality(Held(c))' = 0
    BY <2>1, FS_EmptySet
  <2> QED BY <1>3, <2>1, <2>2 DEF Numbered
<1>5. Cardinality(Held(c))' <= prepares'[c]
  BY <1>1, <1>4 DEF StatementInv, StatementType
<1>6. \A d \in Clients \ {c} : prepared'[d] = prepared[d] /\ handles'[d] = handles[d] /\ prepares'[d] = prepares[d]
  BY <1>1 DEF StatementInv, StatementType
<1>7. \A d \in Clients \ {c} : Cardinality(Held(d))' <= prepares'[d] /\ (d \notin closedOne' => Numbered(d)')
  BY <1>1, <1>6, OthersKeepStatements
<1> QED BY <1>2, <1>4, <1>5, <1>7 DEF StatementInv

LEMMA StatementsStay == StatementInv /\ UNCHANGED sessionVars => StatementInv'
BY DEF StatementInv, StatementType, Numbered, Held, sessionVars

LEMMA NextKeepsStatements == StatementInv /\ ServerNext => StatementInv'
<1> SUFFICES ASSUME StatementInv, ServerNext PROVE StatementInv'
  OBVIOUS
<1>1. CASE StartServer \/ StopServer \/ closeAllConnections \/ StopReturns \/ Accepting
  BY <1>1, StatementsStay DEF StartServer, StopServer, closeAllConnections, StopReturns, Accepting,
                              CheckLimit, Accept, AcceptNothing, Count, Store
<1>2. ASSUME NEW c \in Clients, Handling(c) \/ Talking(c) PROVE StatementInv'
  <2>1. CASE Answer(c) \/ ReadFails(c) \/ Dial(c) \/ Authenticate(c) \/ Command(c) \/ Quit(c) \/ HangUp(c)
    BY <2>1, StatementsStay DEF Answer, ReadFails, Dial, Authenticate, Command, Quit, HangUp
  <2>2. CASE handleStmtReset(c)
    BY <2>2, StatementsStay DEF handleStmtReset, serverVars
  <2> QED BY <1>2, <2>1, <2>2, PrepareKeepsStatements, CloseKeepsStatements, RemovalKeepsStatements
          DEF Handling, Talking
<1> QED BY <1>1, <1>2 DEF ServerNext

(* The counter that MaxConnections is tested against covers the            *)
(* connections with a handler, though counter, map and goroutine are set   *)
(* apart, and it stays within the limit; and an ID that a client holds     *)
(* stands for the statement it was given for, as long as the connection    *)
(* has closed none (internal/interfaces/mysql/server/server.go).           *)
THEOREM SessionSafety == Spec => []SessionsAreCounted
<1> DEFINE Inv == CounterInv /\ StatementInv
<1>1. Init => Inv
  BY CounterInitially, StatementsInitially DEF Init
<1>2. Inv /\ [Next]_vars => Inv'
  <2> SUFFICES ASSUME Inv, [Next]_vars PROVE Inv'
    OBVIOUS
  <2>1. ServerNext \/ UNCHANGED serverVars
    BY DEF Next, vars
  <2>2. CASE UNCHANGED serverVars
    BY <2>2, CounterStays, StatementsStay DEF serverVars
  <2> QED BY <2>1, <2>2, NextKeepsCounter, NextKeepsStatements
<1>3. Inv => SessionsAreCounted
  <2> SUFFICES ASSUME Inv PROVE SessionsAreCounted
    OBVIOUS
  <2>1. Cardinality(Served) <= count /\ (MaxConnections > 0 => count <= MaxConnections)
    BY ServedIsFinite DEF CounterInv
  <2>2. count <= Cardinality(Clients) /\ Cardinality(Clients) \in Nat
    <3>1. CASE acceptor = "store"
      <4>1. arriving \in Clients /\ arriving \notin Served
        BY <3>1 DEF CounterInv, Served
      <4>2. Cardinality(Served \cup {arriving}) = Cardinality(Served) + 1
        BY <4>1, ServedIsFinite, FS_AddElement
      <4>3. Served \cup {arriving} \subseteq Clients
        BY <4>1 DEF Served
      <4> QED BY <3>1, <4>2, <4>3, ServedIsFinite, ServerAssumption, FS_Subset, FS_CardinalityType DEF CounterInv
    <3>2. CASE acceptor # "store"
      <4>1. Served \subseteq Clients
        BY DEF Served
      <4>2. Cardinality(Served) <= Cardinality(Clients) /\ Cardinality(Clients) \in Nat
        BY <4>1, ServerAssumption, FS_Subset, FS_CardinalityType
      <4> QED BY <3>2, <4>2, ServedIsFinite DEF CounterInv
    <3> QED BY <3>1, <3>2
  <2>3. ServerTypeOK
    BY <2>2 DEF ServerTypeOK, CounterInv, StatementInv, StatementType
  <2>4. HandlesDenote
    BY DEF HandlesDenote, StatementInv, Numbered
  <2> QED BY <2>1, <2>3, <2>4 DEF SessionsAreCounted, CountCoversHandlers, Served
<1> QED BY <1>1, <1>2, <1>3, PTL DEF Spec

-----------------------------------------------------------------------------
(* The health monitor.                                                     *)

\* A step of a check that leaves the state of the cluster to be judged.
Unjudged == {"state", "judge", "again"}
Checking == M!Checkers \cup Refreshers
Places   == {"off", "wait", "first", "query", "ask", "rotate", "update", "analyze"} \cup Unjudged

(* The check goroutines are off while nothing is monitored, so that a      *)
(* start finds neither between its two sections.                           *)
HealthInv ==
  /\ monitoring \in BOOLEAN /\ stopping \in BOOLEAN
  /\ checker \in [Checking -> [at : Places, report : M!Report]]
  /\ ~monitoring => M!WaitIsOver
  /\ M!HealthIsCurrent

\* What the monitor assumes of its constants, as facts.
LEMMA RefreshersAreNoCheckers == Refreshers \cap M!Checkers = {} /\ Reports \subseteq M!Report
BY LifecycleAssumption DEF M!MonitorAssumption, M!Checkers

LEMMA HealthInitially == M!MonitorInit => HealthInv
<1> SUFFICES ASSUME M!MonitorInit PROVE HealthInv
  OBVIOUS
<1>1. M!Off \in [at : Places, report : M!Report]
  BY DEF M!Off, Places, M!Report, M!Known
<1>2. \A c \in Checking : checker[c] = M!Off /\ checker[c].at = "off"
  BY DEF M!MonitorInit, Checking, M!Off
<1>3. checker \in [Checking -> [at : Places, report : M!Report]]
  BY <1>1 DEF M!MonitorInit, Checking
<1>4. M!WaitIsOver
  BY <1>2 DEF M!WaitIsOver, Checking
<1>5. M!Judge(last, badTablets) = "UNKNOWN"
  BY DEF M!MonitorInit, M!Judge, M!Named
<1> QED BY <1>3, <1>4, <1>5 DEF M!MonitorInit, HealthInv, M!HealthIsCurrent

LEMMA StartKeepsHealth == HealthInv /\ M!StartMonitoring => HealthInv'
<1> SUFFICES ASSUME HealthInv, M!StartMonitoring PROVE HealthInv'
  OBVIOUS
<1>1. \A c \in M!Checkers : checker[c].at = "off"
  BY DEF HealthInv, M!StartMonitoring, M!WaitIsOver
<1>2. checker' \in [Checking -> [at : Places, report : M!Report]]
  BY DEF HealthInv, M!StartMonitoring, Places, Checking, M!Checkers
<1>3. \A c \in Refreshers : checker'[c] = checker[c]
  BY RefreshersAreNoCheckers DEF HealthInv, M!StartMonitoring, Checking, M!Checkers
<1>4. M!HealthIsCurrent'
  <2>1. \A c \in Checking : checker'[c].at \notin Unjudged => checker[c].at \notin Unjudged
    BY <1>1, <1>3 DEF Checking, Unjudged
  <2>2. UNCHANGED <<last, badTablets, health>>
    BY DEF M!StartMonitoring, M!stateVars
  <2> QED BY <2>1, <2>2 DEF HealthInv, M!HealthIsCurrent, Checking, Unjudged, M!Judge, M!Named, M!Alive, M!Below
<1> QED BY <1>2, <1>4 DEF HealthInv, M!StartMonitoring

\* What does not change is judged as it was.
LEMMA HealthStays ==
  ASSUME HealthInv, UNCHANGED <<checker, last, badTablets, health>> PROVE M!HealthIsCurrent'
<1>1. M!Judge(last, badTablets)' = M!Judge(last, badTablets)
  BY DEF M!Judge, M!Named, M!Alive, M!Below
<1> QED BY <1>1 DEF HealthInv, M!HealthIsCurrent

LEMMA StopKeepsHealth == HealthInv /\ (M!StopMonitoring \/ M!StopReturn) => HealthInv'
<1> SUFFICES ASSUME HealthInv, M!StopMonitoring \/ M!StopReturn PROVE HealthInv'
  OBVIOUS
<1>1. UNCHANGED <<checker, last, badTablets, health>>
  BY DEF M!StopMonitoring, M!StopReturn, M!stateVars
<1>2. M!HealthIsCurrent'
  BY <1>1, HealthStays
<1>3. monitoring' \in BOOLEAN /\ stopping' \in BOOLEAN /\ (~monitoring' => M!WaitIsOver)
  BY DEF HealthInv, M!StopMonitoring, M!StopReturn
<1>4. M!WaitIsOver' = M!WaitIsOver
  BY <1>1 DEF M!WaitIsOver
<1> QED BY <1>1, <1>2, <1>3, <1>4 DEF HealthInv

\* A thread that checks goes from place to place; monitoring stays as it was, and a
\* goroutine that was off is not the one.
LEMMA MoveKeepsHealth ==
  ASSUME HealthInv, NEW c \in Checking, NEW p \in [at : Places, report : M!Report],
         checker' = [checker EXCEPT ![c] = p], UNCHANGED <<monitoring, stopping>>,
         c \in M!Checkers => checker[c].at # "off",
         \/ p.at \in Unjudged
         \/ checker[c].at \notin Unjudged /\ UNCHANGED <<last, badTablets, health>>
         \/ health' = M!Judge(last, badTablets)'
  PROVE  HealthInv'
<1>1. checker' \in [Checking -> [at : Places, report : M!Report]]
  BY DEF HealthInv
<1>2. \A d \in Checking \ {c} : checker'[d] = checker[d]
  BY DEF HealthInv
<1>3. checker'[c] = p
  BY DEF HealthInv
<1>4. ~monitoring' => M!WaitIsOver'
  BY <1>2, <1>3 DEF HealthInv, M!WaitIsOver, Checking
<1>5. M!HealthIsCurrent'
  <2>1. CASE p.at \in Unjudged
    BY <1>3, <2>1 DEF M!HealthIsCurrent, Checking, Unjudged
  <2>2. CASE checker[c].at \notin Unjudged /\ UNCHANGED <<last, badTablets, health>>
    <3>1. (\A d \in Checking : checker'[d].at \notin Unjudged) => (\A d \in Checking : checker[d].at \notin Unjudged)
      BY <1>2, <2>2
    <3>2. M!Judge(last, badTablets)' = M!Judge(last, badTablets)
      BY <2>2 DEF M!Judge, M!Named, M!Alive, M!Below
    <3> QED BY <2>2, <3>1, <3>2 DEF HealthInv, M!HealthIsCurrent, Checking, Unjudged
  <2>3. CASE health' = M!Judge(last, badTablets)'
    BY <2>3 DEF M!HealthIsCurrent
  <2> QED BY <2>1, <2>2, <2>3
<1> QED BY <1>1, <1>4, <1>5 DEF HealthInv

\* The places of a step that only moves its thread; health is judged where it reads "wait".
LEMMA WaitingKeepsHealth ==
  ASSUME HealthInv, NEW c \in Checking, M!Tick(c) \/ M!Leave(c) \/ M!Ask(c) \/ M!Fail(c) \/ M!Rotate(c)
  PROVE  HealthInv'
<1>1. checker[c] \in [at : Places, report : M!Report]
  BY DEF HealthInv
<1>2. UNCHANGED <<monitoring, stopping, last, badTablets, health>>
  BY DEF M!Tick, M!Leave, M!Ask, M!Fail, M!Rotate, M!lifeVars, M!stateVars
<1>3. checker[c].at \in {"wait", "ask", "first", "query", "rotate"}
  BY DEF M!Tick, M!Leave, M!Ask, M!Fail, M!Rotate
<1>4. PICK p \in [at : Places, report : M!Report] : checker' = [checker EXCEPT ![c] = p]
  <2>1. M!Off \in [at : Places, report : M!Report]
    BY DEF M!Off, Places, M!Report, M!Known
  <2>2. \A place \in Places : M!At(c, place) \in [at : Places, report : M!Report]
    BY <1>1 DEF M!At
  <2>3. CASE M!Tick(c) \/ M!Leave(c) \/ M!Ask(c)
    BY <2>1, <2>2, <2>3 DEF M!Tick, M!Leave, M!Ask, Places
  <2>4. CASE M!Fail(c)
    <3>1. M!At(c, "wait") \in [at : Places, report : M!Report] /\ M!At(c, "rotate") \in [at : Places, report : M!Report]
      BY <2>2 DEF Places
    <3>2. checker' = [checker EXCEPT ![c] = M!Off] \/ checker' = [checker EXCEPT ![c] = M!At(c, "wait")]
          \/ checker' = [checker EXCEPT ![c] = M!At(c, "rotate")]
      BY <2>4 DEF M!Fail
    <3> QED BY <2>1, <3>1, <3>2
  <2>5. CASE M!Rotate(c)
    BY <2>2, <2>5 DEF M!Rotate, Places
  <2> QED BY <2>3, <2>4, <2>5
<1> QED BY <1>2, <1>3, <1>4, MoveKeepsHealth DEF Unjudged

LEMMA RefreshKeepsHealth == ASSUME HealthInv, NEW f \in Refreshers, M!ForceRefresh(f) PROVE HealthInv'
<1>1. f \in Checking /\ f \notin M!Checkers
  BY RefreshersAreNoCheckers DEF Checking
<1>2. M!At(f, "query") \in [at : Places, report : M!Report]
  BY <1>1 DEF HealthInv, M!At, Places
<1>3. checker[f].at \notin Unjudged /\ UNCHANGED <<monitoring, stopping, last, badTablets, health>>
  BY DEF M!ForceRefresh, M!lifeVars, M!stateVars, Unjudged
<1>4. checker' = [checker EXCEPT ![f] = M!At(f, "query")]
  BY DEF M!ForceRefresh
<1> QED BY <1>1, <1>2, <1>3, <1>4, MoveKeepsHealth

LEMMA QueryKeepsHealth == ASSUME HealthInv, NEW c \in Checking, M!Query(c) PROVE HealthInv'
<1>1. PICK r \in Reports : checker' = [checker EXCEPT ![c] = [at |-> "update", report |-> r]]
  BY DEF M!Query
<1>2. [at |-> "update", report |-> r] \in [at : Places, report : M!Report]
  BY RefreshersAreNoCheckers DEF Places
<1>3. checker[c].at \in {"first", "query"} /\ UNCHANGED <<monitoring, stopping, last, badTablets, health>>
  BY DEF M!Query, M!lifeVars, M!stateVars
<1> QED BY <1>1, <1>2, <1>3, MoveKeepsHealth DEF Unjudged

\* The two sections that change what health is judged by come before the one that judges.
LEMMA SectionKeepsHealth ==
  ASSUME HealthInv, NEW c \in Checking,
         M!UpdateBackendHealth(c) \/ M!AnalyzeTabletDistribution(c) \/ M!UpdateHealthState(c)
  PROVE  HealthInv'
<1>1. checker[c] \in [at : Places, report : M!Report]
  BY DEF HealthInv
<1>2. UNCHANGED <<monitoring, stopping>> /\ checker[c].at # "off"
  BY DEF M!UpdateBackendHealth, M!AnalyzeTabletDistribution, M!UpdateHealthState, M!lifeVars
<1>3. CASE M!UpdateBackendHealth(c)
  <2>1. [M!Off EXCEPT !.at = "state"] \in [at : Places, report : M!Report]
        /\ [M!Off EXCEPT !.at = "state"].at \in Unjudged
    BY DEF M!Off, Places, Unjudged, M!Report, M!Known
  <2>2. checker' = [checker EXCEPT ![c] = [M!Off EXCEPT !.at = "state"]]
    BY <1>3 DEF M!UpdateBackendHealth
  <2> QED BY <1>2, <2>1, <2>2, MoveKeepsHealth
<1>4. CASE M!AnalyzeTabletDistribution(c)
  <2>1. M!At(c, "judge") \in [at : Places, report : M!Report] /\ M!At(c, "judge").at \in Unjudged
    BY <1>1 DEF M!At, Places, Unjudged
  <2>2. checker' = [checker EXCEPT ![c] = M!At(c, "judge")]
    BY <1>4 DEF M!AnalyzeTabletDistribution
  <2> QED BY <1>2, <2>1, <2>2, MoveKeepsHealth
<1>5. CASE M!UpdateHealthState(c)
  <2>1. health' = M!Judge(last, badTablets) /\ UNCHANGED <<last, badTablets>>
    BY <1>5 DEF M!UpdateHealthState
  <2>2. M!Judge(last, badTablets)' = M!Judge(last, badTablets)
    BY <2>1 DEF M!Judge, M!Named, M!Alive, M!Below
  <2>3. PICK p \in [at : Places, report : M!Report] : checker' = [checker EXCEPT ![c] = p]
    <3>1. \A place \in Places : M!At(c, place) \in [at : Places, report : M!Report]
      BY <1>1 DEF M!At
    <3>2. M!Off \in [at : Places, report : M!Report]
      BY DEF M!Off, Places, M!Report, M!Known
    <3>3. PICK q \in {M!At(c, "wait"), M!At(c, "ask"), M!At(c, "again"), M!Off} : checker' = [checker EXCEPT ![c] = q]
      BY <1>5 DEF M!UpdateHealthState
    <3>4. q \in [at : Places, report : M!Report]
      <4>1. "wait" \in Places /\ "ask" \in Places /\ "again" \in Places
        BY DEF Places, Unjudged
      <4> QED BY <3>1, <3>2, <4>1
    <3> QED BY <3>3, <3>4
  <2> QED BY <1>2, <2>1, <2>2, <2>3, MoveKeepsHealth
<1> QED BY <1>3, <1>4, <1>5

LEMMA MonitorKeepsHealth == HealthInv /\ M!MonitorNext => HealthInv'
<1> SUFFICES ASSUME HealthInv, M!MonitorNext PROVE HealthInv'
  OBVIOUS
<1>1. CASE \E c \in Checking : M!CheckStep(c)
  BY <1>1, WaitingKeepsHealth, QueryKeepsHealth, SectionKeepsHealth DEF M!CheckStep
<1> QED BY <1>1, StartKeepsHealth, StopKeepsHealth, RefreshKeepsHealth DEF M!MonitorNext, Checking

\* The health service: no finding is lost, in whichever order they are looked at.
Covers(level, found, by) == by >= level /\ \A f \in found : by >= S!Severity(f)

LEMMA TabletLevelCovers ==
  ASSUME NEW level \in 0..4, NEW found \in S!TabletFindings
  PROVE  S!TabletLevel(level, found) \in 0..4 /\ Covers(level, found, S!TabletLevel(level, found))
<1>1. \A f \in found : f \in {"impaired", "unavailable"}
  BY DEF S!TabletFindings
<1> QED BY <1>1 DEF Covers, S!TabletLevel, S!AtLeast, S!Severity, S!Critical, S!Degraded, S!Warning

LEMMA StatusLevelCovers ==
  ASSUME NEW level \in 0..4, NEW found, NEW more \in S!StatusFindings, \A f \in found : level >= S!Severity(f)
  PROVE  Covers(level, found \cup more, S!StatusLevel(level, more))
<1>1. \A f \in more : f \in {"badstatus", "badunavailable"}
  BY DEF S!StatusFindings
<1>2. \A f : S!Severity(f) \in {2, 3, 4}
  BY DEF S!Severity, S!Critical, S!Degraded, S!Warning
<1>3. \A f \in more : S!StatusLevel(level, more) >= S!Severity(f)
  BY <1>1 DEF S!StatusLevel, S!AtLeast, S!Severity, S!Critical, S!Degraded, S!Warning
<1>4. S!StatusLevel(level, more) \in 0..4 /\ S!StatusLevel(level, more) >= level
  BY DEF S!StatusLevel, S!AtLeast, S!Critical, S!Degraded
<1>5. \A f \in found : S!StatusLevel(level, more) >= S!Severity(f)
  BY <1>2, <1>4
<1> QED BY <1>3, <1>4, <1>5 DEF Covers

LEMMA BackendLevelCovers ==
  ASSUME NEW level \in 0..4, NEW disk \in S!DiskFindings, NEW load \in S!LoadFindings
  PROVE  Covers(level, disk \cup load, S!BackendLevel(level, disk \cup load))
<1> DEFINE found == disk \cup load
           onDisk == S!DiskLevel(level, found)
<1>1. \A f \in load : f \in {"busy", "overloaded"}
  BY DEF S!LoadFindings
<1>2. \A f \in disk : f \in {"elevated", "high", "veryhigh", "dead"}
  BY DEF S!DiskFindings
<1>3. \A f : S!Severity(f) \in {2, 3, 4}
  BY DEF S!Severity, S!Critical, S!Degraded, S!Warning
<1>4. onDisk \in 0..4 /\ onDisk >= level
  BY DEF S!DiskLevel, S!AtLeast, S!Critical, S!Degraded, S!Warning
<1>5. \A f \in disk : onDisk >= S!Severity(f)
  BY <1>1, <1>2 DEF S!DiskLevel, S!AtLeast, S!Severity, S!Critical, S!Degraded, S!Warning
<1>6. S!BackendLevel(level, found) = S!LoadLevel(onDisk, found)
  BY DEF S!BackendLevel
<1> HIDE DEF onDisk
<1>7. S!LoadLevel(onDisk, found) \in 0..4 /\ S!LoadLevel(onDisk, found) >= onDisk
  BY <1>4 DEF S!LoadLevel, S!AtLeast, S!Critical, S!Degraded, S!Warning
<1>8. \A f \in load : S!LoadLevel(onDisk, found) >= S!Severity(f)
  BY <1>1, <1>4 DEF S!LoadLevel, S!AtLeast, S!Severity, S!Critical, S!Degraded, S!Warning
<1> HIDE DEF found
<1>9. \A f \in disk : S!LoadLevel(onDisk, found) >= S!Severity(f)
  BY <1>3, <1>4, <1>5, <1>7
<1> QED BY <1>4, <1>6, <1>7, <1>8, <1>9 DEF Covers, found

LEMMA LevelsCoverFindings == S!LevelCoversFindings
<1> SUFFICES ASSUME NEW s \in S!AllScopes, NEW level \in S!convertHealthStatusToLevel,
                    NEW j \in S!Judgements(s, level), j.level # S!Failed
             PROVE  Covers(level, j.found, j.level)
  BY DEF S!LevelCoversFindings, Covers
<1>1. level \in 0..4
  BY DEF S!convertHealthStatusToLevel, S!Normal, S!Degraded, S!Critical, S!Unknown
<1>2. CASE s \in {"cluster", "database"}
  <2>1. j.found = {} /\ j.level = level
    BY <1>2 DEF S!Judgements, S!GetClusterHealth, S!GetDatabaseHealth
  <2> QED BY <1>1, <2>1 DEF Covers
<1>3. CASE s \in {"table", "partition"}
  <2>1. PICK f \in S!TabletFindings : j.found = f /\ j.level = S!TabletLevel(level, f)
    BY <1>3 DEF S!Judgements, S!GetTableHealth, S!GetPartitionHealth
  <2> QED BY <1>1, <2>1, TabletLevelCovers
<1>4. CASE s = "tablet"
  <2>1. PICK f \in S!TabletFindings, g \in S!StatusFindings :
          j.found = f \cup g /\ j.level = S!StatusLevel(S!TabletLevel(level, f), g)
    BY <1>4 DEF S!Judgements, S!GetTabletHealth
  <2>2. PICK l \in 0..4 : l = S!TabletLevel(level, f) /\ Covers(level, f, l)
    BY <1>1, TabletLevelCovers
  <2>3. Covers(l, f \cup g, S!StatusLevel(l, g))
    BY <2>2, StatusLevelCovers DEF Covers
  <2>4. S!StatusLevel(l, g) \in 0..4
    BY DEF S!StatusLevel, S!AtLeast, S!Critical, S!Degraded
  <2> QED BY <1>1, <2>1, <2>2, <2>3, <2>4 DEF Covers
<1>5. CASE s = "backend"
  <2>1. PICK f \in S!DiskFindings, g \in S!LoadFindings :
          j.found = f \cup g /\ j.level = S!BackendLevel(level, f \cup g)
    BY <1>5 DEF S!Judgements, S!GetBackendHealth
  <2> QED BY <1>1, <2>1, BackendLevelCovers
<1> QED BY <1>2, <1>3, <1>4, <1>5 DEF S!AllScopes

(* The published state of the cluster is the one that its backends and     *)
(* tablets show, but between the two sections of a check, also when the    *)
(* monitor is stopped and started meanwhile; and the level of a health     *)
(* call is at least as bad as the checker's and each of the findings       *)
(* (domain/health/monitor.go, application/services/health_service.go).     *)
THEOREM HealthSafety == Spec => []HealthIsJudged
<1>1. Init => HealthInv
  BY HealthInitially DEF Init
<1>2. HealthInv /\ [Next]_vars => HealthInv'
  <2> SUFFICES ASSUME HealthInv, [Next]_vars PROVE HealthInv'
    OBVIOUS
  <2>1. M!MonitorNext \/ UNCHANGED monitorVars
    BY DEF Next, vars
  <2>2. CASE UNCHANGED monitorVars
    <3>1. M!HealthIsCurrent' /\ UNCHANGED <<monitoring, stopping, checker>>
      BY <2>2, HealthStays DEF monitorVars
    <3>2. M!WaitIsOver' = M!WaitIsOver
      BY <3>1 DEF M!WaitIsOver
    <3> QED BY <3>1, <3>2 DEF HealthInv
  <2> QED BY <2>1, <2>2, MonitorKeepsHealth
<1>3. HealthInv => HealthIsJudged
  BY LevelsCoverFindings DEF HealthInv, HealthIsJudged
<1> QED BY <1>1, <1>2, <1>3, PTL DEF Spec
-----------------------------------------------------------------------------
(* The batch aggregator: bytes.                                            *)

ByteUnits(T) == {p \in T \X Nat : 1 <= p[2] /\ p[2] <= Size[p[1]]}

\* One message more adds as many units as it has bytes.
LEMMA UnitsOfMessage ==
  ASSUME NEW T \in SUBSET Messages, NEW m \in T, IsFiniteSet(ByteUnits(T \ {m}))
  PROVE  /\ IsFiniteSet(ByteUnits(T))
         /\ Cardinality(ByteUnits(T)) = Size[m] + Cardinality(ByteUnits(T \ {m}))
<1> DEFINE own  == {m} \X (1..Size[m])
<1>1. Size[m] \in Nat
  BY AggregatorAssumption
<1>2. IsFiniteSet(1..Size[m]) /\ Cardinality(1..Size[m]) = Size[m]
  BY <1>1, FS_Interval
<1>3. IsFiniteSet({m}) /\ Cardinality({m}) = 1
  BY FS_Singleton
<1>4. IsFiniteSet(own) /\ Cardinality(own) = 1 * Size[m]
  BY <1>2, <1>3, FS_Product
<1>5. ByteUnits(T) = own \cup ByteUnits(T \ {m})
  <2>1. ASSUME NEW p \in ByteUnits(T) PROVE p \in own \cup ByteUnits(T \ {m})
    BY <1>1 DEF ByteUnits
  <2>2. ASSUME NEW p \in own PROVE p \in ByteUnits(T)
    BY <1>1 DEF ByteUnits
  <2>3. ByteUnits(T \ {m}) \subseteq ByteUnits(T)
    BY DEF ByteUnits
  <2> QED BY <2>1, <2>2, <2>3
<1>6. own \cap ByteUnits(T \ {m}) = {}
  BY DEF ByteUnits
<1> HIDE DEF own
<1>7. Cardinality(own \cap ByteUnits(T \ {m})) = 0
  BY <1>6, FS_EmptySet
<1>8. /\ IsFiniteSet(own \cup ByteUnits(T \ {m}))
      /\ Cardinality(own \cup ByteUnits(T \ {m})) =
           Cardinality(own) + Cardinality(ByteUnits(T \ {m})) - Cardinality(own \cap ByteUnits(T \ {m}))
  BY <1>4, FS_Union
<1>9. Cardinality(own) \in Nat /\ Cardinality(ByteUnits(T \ {m})) \in Nat
  BY <1>4, FS_CardinalityType
<1> QED BY <1>1, <1>4, <1>5, <1>7, <1>8, <1>9

LEMMA SubsetsAreWellFounded ==
  ASSUME NEW T \in SUBSET Messages
  PROVE  IsWellFoundedOn(StrictSubsetOrdering(T), SUBSET T)
<1>1. IsFiniteSet(T)
  BY AggregatorAssumption, FS_Subset
<1>2. FiniteSubsetsOf(T) = SUBSET T
  BY <1>1, FS_FiniteSubsetsOfFinite
<1> QED BY <1>2, FS_StrictSubsetOrderingWellFounded

\* The units of finitely many messages are finitely many.
LEMMA UnitsAreFinite ==
  ASSUME NEW T \in SUBSET Messages
  PROVE  IsFiniteSet(ByteUnits(T))
<1> DEFINE Bad == {s \in SUBSET T : ~IsFiniteSet(ByteUnits(s))}
<1> SUFFICES ASSUME Bad # {} PROVE FALSE
  OBVIOUS
<1>1. IsWellFoundedOn(StrictSubsetOrdering(T), SUBSET T)
  BY SubsetsAreWellFounded
<1>2. PICK s \in Bad : \A y \in Bad : ~(<<y, s>> \in StrictSubsetOrdering(T))
  BY <1>1, WFMin
<1>3. CASE s = {}
  <2>1. ByteUnits(s) = {}
    BY <1>3 DEF ByteUnits
  <2> QED BY <1>2, <2>1, FS_EmptySet
<1>4. CASE s # {}
  <2>1. PICK m \in s : TRUE
    BY <1>4
  <2>2. s \ {m} \in SUBSET T /\ <<s \ {m}, s>> \in StrictSubsetOrdering(T)
    BY <1>2, <2>1 DEF StrictSubsetOrdering
  <2>3. IsFiniteSet(ByteUnits(s \ {m}))
    BY <1>2, <2>2
  <2>4. s \in SUBSET Messages
    BY <1>2
  <2>5. IsFiniteSet(ByteUnits(s))
    BY <2>1, <2>3, <2>4, UnitsOfMessage
  <2> QED BY <1>2, <2>5
<1> QED BY <1>3, <1>4

\* The bytes of a batch are a number, none in an empty batch: the fold counts
\* the units, whatever order it takes.
LEMMA SumIsCount ==
  ASSUME NEW T \in SUBSET Messages
  PROVE  SumFunctionOnSet(Size, T) = Cardinality(ByteUnits(T))
<1> DEFINE first(s) == CHOOSE x \in s : TRUE
           Step(g, s) == IF s = {} THEN 0 ELSE Size[first(s)] + g[s \ {first(s)}]
           iter == CHOOSE g : g = [s \in SUBSET T |-> Step(g, s)]
           units == [s \in SUBSET T |-> Cardinality(ByteUnits(s))]
<1>1. SumFunctionOnSet(Size, T) = iter[T]
  BY DEF SumFunctionOnSet, FoldFunctionOnSet, MapThenFoldSet
<1>2. ASSUME NEW s \in SUBSET T PROVE units[s] = Step(units, s)
  <2>1. CASE s = {}
    <3>1. ByteUnits(s) = {}
      BY <2>1 DEF ByteUnits
    <3> QED BY <2>1, <3>1, FS_EmptySet
  <2>2. CASE s # {}
    <3>1. PICK x : x = first(s)
      OBVIOUS
    <3>2. x \in s /\ s \ {x} \in SUBSET T /\ s \ {x} \in SUBSET Messages /\ s \in SUBSET Messages
      BY <2>2, <3>1
    <3>3. IsFiniteSet(ByteUnits(s \ {x}))
      BY <3>2, UnitsAreFinite
    <3>4. Cardinality(ByteUnits(s)) = Size[x] + Cardinality(ByteUnits(s \ {x}))
      BY <3>2, <3>3, UnitsOfMessage
    <3>5. units[s] = Size[x] + units[s \ {x}]
      BY <3>2, <3>4
    <3> HIDE DEF units, first
    <3> QED BY <2>2, <3>1, <3>5
  <2> QED BY <2>1, <2>2
<1>3. units = [s \in SUBSET T |-> Step(units, s)]
  <2> HIDE DEF Step
  <2> QED BY <1>2
<1>4. iter = [s \in SUBSET T |-> Step(iter, s)]
  <2> HIDE DEF Step, units
  <2> QED BY <1>3
<1>5. \A s \in SUBSET T : iter[s] = Step(iter, s) /\ units[s] = Step(units, s)
  <2> HIDE DEF Step, units, iter
  <2> QED BY <1>2, <1>4
<1> DEFINE Bad == {s \in SUBSET T : iter[s] # units[s]}
<1> HIDE DEF iter, units
<1>6. Bad = {}
  <2> SUFFICES ASSUME Bad # {} PROVE FALSE
    OBVIOUS
  <2>1. IsWellFoundedOn(StrictSubsetOrdering(T), SUBSET T)
    BY SubsetsAreWellFounded
  <2>2. PICK s \in Bad : \A y \in Bad : ~(<<y, s>> \in StrictSubsetOrdering(T))
    BY <2>1, WFMin
  <2>3. CASE s = {}
    BY <1>5, <2>2, <2>3
  <2>4. CASE s # {}
    <3>1. PICK x : x = first(s)
      OBVIOUS
    <3>2. x \in s /\ s \ {x} \in SUBSET T
      BY <2>2, <2>4, <3>1
    <3>3. <<s \ {x}, s>> \in StrictSubsetOrdering(T)
      BY <2>2, <3>2 DEF StrictSubsetOrdering
    <3>4. iter[s \ {x}] = units[s \ {x}]
      BY <2>2, <3>2, <3>3
    <3> HIDE DEF first
    <3>5. iter[s] = Size[x] + iter[s \ {x}] /\ units[s] = Size[x] + units[s \ {x}]
      BY <1>5, <2>2, <2>4, <3>1
    <3> QED BY <2>2, <3>4, <3>5
  <2> QED BY <2>3, <2>4
<1>7. iter[T] = units[T]
  BY <1>6
<1> QED BY <1>1, <1>7 DEF units

LEMMA BytesAreNumbers ==
  /\ \A b \in Seq(Messages) : BatchBytes(b) \in Nat
  /\ BatchBytes(<<>>) = 0
<1>1. ASSUME NEW b \in Seq(Messages) PROVE BatchBytes(b) \in Nat
  <2>1. ToSet(b) \in SUBSET Messages
    BY DEF ToSet
  <2>2. IsFiniteSet(ByteUnits(ToSet(b))) /\ BatchBytes(b) = Cardinality(ByteUnits(ToSet(b)))
    BY <2>1, UnitsAreFinite, SumIsCount DEF BatchBytes
  <2> QED BY <2>2, FS_CardinalityType
<1>2. BatchBytes(<<>>) = 0
  <2>1. ToSet(<<>>) = {} /\ ByteUnits({}) = {} /\ {} \in SUBSET Messages
    BY DEF ToSet, ByteUnits
  <2>2. BatchBytes(<<>>) = Cardinality({})
    BY <2>1, SumIsCount DEF BatchBytes
  <2> QED BY <2>2, FS_EmptySet
<1> QED BY <1>1, <1>2

-----------------------------------------------------------------------------
(* The batch aggregator: what is true of a batch and of a thread.          *)

Distinct(b) == \A i, j \in 1..Len(b) : b[i] = b[j] => i = j

\* The batch did not grow once it was full.
Sealed(b) ==
  /\ Strategy \in {"size", "mixed"} => BatchBytes(Front(b)) < MaxBatchSize
  /\ Strategy \in {"count", "mixed"} => Len(b) <= MaxBatchCount

AggregatorRecord ==
  [made : BOOLEAN, closed : BOOLEAN, msgs : Seq(Messages), ready : BOOLEAN, armed : BOOLEAN,
   fired : Nat, rang : BOOLEAN]
ThreadRecord ==
  [at : {"off", "wait", "left", "ready", "drain", "get", "process", "last", "force", "final"},
   todo : SUBSET TableKeys, hand : SUBSET Seq(Messages)]

\* An aggregator's batch holds messages of its own table, and is ready if it is
\* full; while the aggregator is open, something will look at its batch.
GoodBatch(k, a) ==
  /\ Distinct(a.msgs) /\ \A m \in ToSet(a.msgs) : Slot(m) = k
  /\ a.msgs # <<>> => a.made /\ ~a.closed /\ Sealed(a.msgs)
  /\ ~a.ready => ~IsFull(a.msgs)
  /\ a.made /\ ~a.closed => a.ready \/ a.armed \/ a.fired > 0 \/ a.rang

\* A thread has batches in its hands while it collects them and until they
\* are processed.
GoodThread(s) ==
  /\ s.hand # {} => s.at \in {"drain", "get", "force", "process", "final"}
  /\ s.todo # {} => s.at \in {"drain", "get", "force"}
  /\ \A b \in s.hand : Distinct(b) /\ b # <<>> /\ Sealed(b)

\* A producer that is about to add a message has an aggregator for it.
ProducerInv ==
  /\ ~multi => agg[Alone].made
  /\ \A m \in Messages : producer[m] = "add" => agg[Slot(m)].made

LocalInv ==
  /\ AggregatorTypeOK /\ ProducerInv
  /\ \A k \in TableKeys : GoodBatch(k, agg[k])
  /\ \A t \in Threads : GoodThread(thread[t])

(* No message is in two places: not in two batches, which are of different *)
(* tables or differ, and not in a batch and elsewhere.                     *)
Elsewhere(m) == m \in processed \/ \E w \in Ways : m \in lost[w]
InHand(m)    == \E t \in Threads : \E b \in thread[t].hand : m \in ToSet(b)
InBatch(m)   == \E k \in TableKeys : m \in ToSet(agg[k].msgs)

\* Where a message is, if it was accepted.
OneKindOfPlace ==
  \A m \in Messages :
    /\ InBatch(m) => ~InHand(m) /\ ~Elsewhere(m)
    /\ InHand(m) => ~Elsewhere(m)
    /\ producer[m] = "accepted" <=> InBatch(m) \/ InHand(m) \/ Elsewhere(m)

OneHand ==
  \A t, u \in Threads : \A b \in thread[t].hand : \A c \in thread[u].hand :
    \A m \in ToSet(b) : m \in ToSet(c) => t = u /\ b = c

OneEnd ==
  /\ \A m \in processed : \A w \in Ways : m \notin lost[w]
  /\ \A v, w \in Ways : \A m \in lost[v] : m \in lost[w] => v = w

PlacesInv == OneKindOfPlace /\ OneHand /\ OneEnd

LEMMA AloneIsKey == Alone \in TableKeys /\ \A m \in Messages : Slot(m) \in TableKeys
BY AggregatorAssumption DEF TableKeys, Alone, Slot

LEMMA OneMessageMore ==
  ASSUME NEW b \in Seq(Messages), NEW m \in Messages
  PROVE  /\ Append(b, m) \in Seq(Messages) /\ Append(b, m) # <<>> /\ Len(Append(b, m)) = Len(b) + 1
         /\ ToSet(Append(b, m)) = ToSet(b) \cup {m}
         /\ Front(Append(b, m)) = b
         /\ Distinct(b) /\ m \notin ToSet(b) => Distinct(Append(b, m))
<1>1. /\ Append(b, m) \in Seq(Messages) /\ Append(b, m) # <<>> /\ Len(Append(b, m)) = Len(b) + 1
      /\ \A i \in 1..Len(b) : Append(b, m)[i] = b[i]
      /\ Append(b, m)[Len(b) + 1] = m
  BY AppendProperties
<1>2. Len(b) \in Nat /\ DOMAIN b = 1..Len(b) /\ DOMAIN Append(b, m) = 1..(Len(b) + 1)
  BY <1>1, LenProperties
<1>3. ToSet(Append(b, m)) = ToSet(b) \cup {m}
  BY <1>1, <1>2 DEF ToSet
<1>4. Front(Append(b, m)) = b
  <2>1. Front(Append(b, m)) = SubSeq(Append(b, m), 1, Len(b))
    BY <1>1, <1>2 DEF Front
  <2>2. 1 \in 1..(Len(Append(b, m)) + 1) /\ Len(b) \in 0..Len(Append(b, m))
    BY <1>1, <1>2
  <2>3. /\ SubSeq(Append(b, m), 1, Len(b)) \in Seq(Messages)
        /\ Len(SubSeq(Append(b, m), 1, Len(b))) = Len(b)
        /\ \A i \in 1..Len(b) : SubSeq(Append(b, m), 1, Len(b))[i] = Append(b, m)[i]
    BY <1>1, <1>2
  <2> QED BY <1>1, <2>1, <2>3, SeqEqual
<1>5. Distinct(b) /\ m \notin ToSet(b) => Distinct(Append(b, m))
  BY <1>1, <1>2 DEF Distinct, ToSet
<1> QED BY <1>1, <1>3, <1>4, <1>5

LEMMA EmptyBatch ==
  /\ <<>> \in Seq(Messages) /\ ToSet(<<>>) = {} /\ Distinct(<<>>) /\ ~IsFull(<<>>)
<1>1. BatchBytes(<<>>) = 0 /\ Len(<<>>) = 0
  BY BytesAreNumbers
<1>2. ~IsFull(<<>>)
  BY <1>1, AggregatorAssumption DEF IsFull
<1> QED BY <1>2 DEF ToSet, Distinct

\* What a batch that is not full becomes by one message.
LEMMA SealedByOne ==
  ASSUME NEW b \in Seq(Messages), NEW m \in Messages, ~IsFull(b)
  PROVE  Sealed(Append(b, m))
<1>1. Front(Append(b, m)) = b /\ Len(Append(b, m)) = Len(b) + 1 /\ Len(b) \in Nat
  BY OneMessageMore, LenProperties
<1>2. BatchBytes(b) \in Nat
  BY BytesAreNumbers
<1> QED BY <1>1, <1>2, AggregatorAssumption DEF Sealed, IsFull

-----------------------------------------------------------------------------
(* The batch aggregator: the initial state and frames.                     *)

LEMMA AggregatorStarts == AggregatorInit => LocalInv /\ PlacesInv
<1> SUFFICES ASSUME AggregatorInit PROVE LocalInv /\ PlacesInv
  OBVIOUS
<1>1. /\ \A k \in TableKeys : agg[k] \in AggregatorRecord /\ agg[k].msgs = <<>> /\ ~agg[k].closed
      /\ \A k \in TableKeys : agg[k].made => agg[k].armed
      /\ ~multi => agg[Alone].made
      /\ DOMAIN agg = TableKeys /\ agg \in [TableKeys -> AggregatorRecord]
  BY AloneIsKey, EmptyBatch DEF AggregatorInit, Made, NoAggregator, AggregatorRecord
<1>2. /\ \A t \in Threads : thread[t].hand = {} /\ thread[t].todo = {}
      /\ thread \in [Threads -> ThreadRecord]
  BY DEF AggregatorInit, Off, ThreadRecord
<1>3. AggregatorTypeOK
  BY <1>1, <1>2 DEF AggregatorInit, AggregatorTypeOK, AggregatorRecord, ThreadRecord
<1>4. ProducerInv
  BY <1>1 DEF AggregatorInit, ProducerInv
<1>5. \A k \in TableKeys : GoodBatch(k, agg[k])
  BY <1>1, EmptyBatch DEF GoodBatch
<1>6. \A t \in Threads : GoodThread(thread[t])
  BY <1>2 DEF GoodThread
<1>7. \A m \in Messages : ~InBatch(m) /\ ~InHand(m) /\ ~Elsewhere(m) /\ producer[m] # "accepted"
  BY <1>1, <1>2, EmptyBatch DEF InBatch, InHand, Elsewhere, AggregatorInit
<1>8. OneHand /\ OneEnd
  BY <1>2 DEF AggregatorInit, OneHand, OneEnd
<1> QED BY <1>3, <1>4, <1>5, <1>6, <1>7, <1>8 DEF LocalInv, PlacesInv, OneKindOfPlace

LEMMA RecordsAreTyped ==
  ASSUME AggregatorTypeOK
  PROVE  /\ agg \in [TableKeys -> AggregatorRecord] /\ thread \in [Threads -> ThreadRecord]
         /\ \A k \in TableKeys : agg[k] \in AggregatorRecord /\ agg[k].msgs \in Seq(Messages)
         /\ \A t \in Threads : thread[t] \in ThreadRecord /\ thread[t].hand \subseteq Seq(Messages)
BY DEF AggregatorTypeOK, AggregatorRecord, ThreadRecord

LEMMA PutOne ==
  ASSUME AggregatorTypeOK, NEW k \in TableKeys, NEW a \in AggregatorRecord, Put(k, a)
  PROVE  /\ agg' \in [TableKeys -> AggregatorRecord] /\ agg'[k] = a
         /\ \A l \in TableKeys : l # k => agg'[l] = agg[l]
BY RecordsAreTyped DEF Put

LEMMA GoOne ==
  ASSUME AggregatorTypeOK, NEW t \in Threads, NEW s \in ThreadRecord, Go(t, s)
  PROVE  /\ thread' \in [Threads -> ThreadRecord] /\ thread'[t] = s
         /\ \A u \in Threads : u # t => thread'[u] = thread[u]
BY RecordsAreTyped DEF Go

\* A batch makes way for a new one.
LEMMA ANewBatch ==
  ASSUME NEW k \in TableKeys, NEW a \in AggregatorRecord, ~a.closed
  PROVE  /\ NewBatch(a) \in AggregatorRecord /\ GoodBatch(k, NewBatch(a))
         /\ NewBatch(a).msgs = <<>> /\ NewBatch(a).made = a.made /\ NewBatch(a).armed
         /\ ~NewBatch(a).ready /\ NewBatch(a).closed = a.closed
<1>1. /\ NewBatch(a) \in AggregatorRecord
      /\ NewBatch(a).msgs = <<>> /\ NewBatch(a).made = a.made /\ NewBatch(a).armed
      /\ ~NewBatch(a).ready /\ NewBatch(a).closed = a.closed
  BY EmptyBatch DEF NewBatch, AggregatorRecord
<1> HIDE DEF NewBatch
<1> QED BY <1>1, EmptyBatch DEF GoodBatch

\* A step on one aggregator.
LEMMA LocalByAggregator ==
  ASSUME LocalInv, NEW k \in TableKeys, NEW a \in AggregatorRecord, Put(k, a),
         GoodBatch(k, a), agg[k].made => a.made, UNCHANGED <<multi, producer, thread>>
  PROVE  /\ ProducerInv' /\ \A l \in TableKeys : GoodBatch(l, agg[l])'
         /\ \A t \in Threads : GoodThread(thread[t])'
<1>1. /\ agg'[k] = a /\ \A l \in TableKeys : l # k => agg'[l] = agg[l]
  BY PutOne DEF LocalInv
<1>2. \A m : Slot(m)' = Slot(m)
  BY DEF Slot
<1>3. ASSUME NEW l \in TableKeys PROVE GoodBatch(l, agg[l])'
  <2>1. CASE l = k
    BY <1>1, <1>2, <2>1 DEF GoodBatch, Sealed, IsFull
  <2>2. CASE l # k
    BY <1>1, <1>2, <2>2 DEF LocalInv, GoodBatch, Sealed, IsFull
  <2> QED BY <2>1, <2>2
<1>4. ProducerInv'
  BY <1>1, <1>2, AloneIsKey DEF LocalInv, ProducerInv
<1>5. \A t \in Threads : GoodThread(thread[t])'
  BY DEF LocalInv, GoodThread, Sealed
<1> QED BY <1>3, <1>4, <1>5

\* A step of one thread that leaves the aggregators alone.
LEMMA LocalByThread ==
  ASSUME LocalInv, NEW t \in Threads, NEW s \in ThreadRecord, Go(t, s), GoodThread(s),
         UNCHANGED <<multi, producer, agg>>
  PROVE  /\ ProducerInv' /\ \A l \in TableKeys : GoodBatch(l, agg[l])'
         /\ \A u \in Threads : GoodThread(thread[u])'
<1>1. thread'[t] = s /\ \A u \in Threads : u # t => thread'[u] = thread[u]
  BY GoOne DEF LocalInv
<1>2. \A m : Slot(m)' = Slot(m)
  BY DEF Slot
<1>3. \A l \in TableKeys : GoodBatch(l, agg[l])'
  BY <1>2 DEF LocalInv, GoodBatch, Sealed, IsFull
<1>4. ProducerInv'
  BY <1>2 DEF LocalInv, ProducerInv
<1>5. ASSUME NEW u \in Threads PROVE GoodThread(thread[u])'
  BY <1>1 DEF LocalInv, GoodThread, Sealed
<1> QED BY <1>3, <1>4, <1>5

\* Where the messages are is all that counts.
LEMMA PlacesStay ==
  ASSUME PlacesInv, UNCHANGED historyVars,
         \A k \in TableKeys : agg'[k].msgs = agg[k].msgs,
         \A t \in Threads : thread'[t].hand = thread[t].hand,
         \A m \in Messages : producer'[m] = "accepted" <=> producer[m] = "accepted"
  PROVE  PlacesInv'
<1>1. \A m : /\ InBatch(m)' <=> InBatch(m)
             /\ InHand(m)' <=> InHand(m)
             /\ Elsewhere(m)' <=> Elsewhere(m)
  BY DEF InBatch, InHand, Elsewhere, historyVars
<1>2. OneKindOfPlace'
  BY <1>1 DEF PlacesInv, OneKindOfPlace
<1>3. OneHand' /\ OneEnd'
  BY DEF PlacesInv, OneHand, OneEnd, historyVars
<1> QED BY <1>2, <1>3 DEF PlacesInv

-----------------------------------------------------------------------------
(* The batch aggregator: timers and producers.                             *)

\* A message that is in a batch is in no batch of another table.
LEMMA BatchOfOneTable ==
  ASSUME LocalInv, NEW k \in TableKeys
  PROVE  /\ ToSet(agg[k].msgs) \subseteq Messages
         /\ \A l \in TableKeys : \A m \in ToSet(agg[k].msgs) : m \in ToSet(agg[l].msgs) => l = k
<1>1. agg[k].msgs \in Seq(Messages)
  BY RecordsAreTyped DEF LocalInv
<1>2. ToSet(agg[k].msgs) \subseteq Messages
  BY <1>1 DEF ToSet
<1> QED BY <1>2 DEF LocalInv, GoodBatch

LEMMA TimerOver ==
  ASSUME NEW k \in TableKeys, NEW a \in AggregatorRecord, GoodBatch(k, a)
  PROVE  LET b == [a EXCEPT !.armed = FALSE, !.fired = @ + 1]
         IN  b \in AggregatorRecord /\ GoodBatch(k, b) /\ b.made = a.made /\ b.msgs = a.msgs
<1> DEFINE n == a.fired + 1
           b == [a EXCEPT !.armed = FALSE, !.fired = n]
<1>1. n \in Nat /\ n > 0
  BY DEF AggregatorRecord
<1> HIDE DEF n
<1>2. /\ b \in AggregatorRecord /\ b.made = a.made /\ b.msgs = a.msgs
      /\ b.fired = n /\ b.ready = a.ready /\ b.closed = a.closed
  BY <1>1 DEF AggregatorRecord
<1> HIDE DEF b
<1>3. GoodBatch(k, b)
  BY <1>1, <1>2 DEF GoodBatch
<1> QED BY <1>2, <1>3 DEF b, n

LEMMA FlushedByTimer ==
  ASSUME NEW k \in TableKeys, NEW a \in AggregatorRecord, GoodBatch(k, a), a.fired > 0
  PROVE  LET b == [a EXCEPT !.fired = @ - 1, !.ready = @ \/ a.msgs # <<>>, !.rang = @ \/ a.msgs = <<>>]
         IN  b \in AggregatorRecord /\ GoodBatch(k, b) /\ b.made = a.made /\ b.msgs = a.msgs
<1> DEFINE n == a.fired - 1
           ready == a.ready \/ a.msgs # <<>>
           rang == a.rang \/ a.msgs = <<>>
           b == [a EXCEPT !.fired = n, !.ready = ready, !.rang = rang]
<1>1. n \in Nat
  BY DEF AggregatorRecord
<1>2. ready \in BOOLEAN /\ rang \in BOOLEAN /\ (ready \/ rang) /\ (~ready => ~a.ready)
  OBVIOUS
<1> HIDE DEF n, ready, rang
<1>3. /\ b \in AggregatorRecord /\ b.made = a.made /\ b.msgs = a.msgs
      /\ b.ready = ready /\ b.rang = rang /\ b.closed = a.closed
  BY <1>1, <1>2 DEF AggregatorRecord
<1> HIDE DEF b
<1>4. GoodBatch(k, b)
  BY <1>2, <1>3 DEF GoodBatch
<1> QED BY <1>3, <1>4 DEF b, n, ready, rang

\* A timer's step leaves the messages where they are.
LEMMA TimersKeepAll ==
  ASSUME LocalInv, PlacesInv, NEW k \in TableKeys, TimerFires(k) \/ Flush(k)
  PROVE  LocalInv' /\ PlacesInv'
<1>1. agg[k] \in AggregatorRecord /\ GoodBatch(k, agg[k]) /\ AggregatorTypeOK
  BY RecordsAreTyped DEF LocalInv
<1>2. PICK a \in AggregatorRecord : /\ Put(k, a) /\ GoodBatch(k, a) /\ a.made = agg[k].made
                                    /\ a.msgs = agg[k].msgs
  <2>1. CASE TimerFires(k)
    BY <1>1, <2>1, TimerOver DEF TimerFires
  <2>2. CASE Flush(k)
    BY <1>1, <2>2, FlushedByTimer DEF Flush
  <2> QED BY <2>1, <2>2
<1>3. UNCHANGED <<multi, producer, multiClosed, tableClosed, managerVars, thread, historyVars>>
  BY DEF TimerFires, Flush
<1>4. agg' \in [TableKeys -> AggregatorRecord] /\ \A l \in TableKeys : agg'[l].msgs = agg[l].msgs
  <2>1. agg' \in [TableKeys -> AggregatorRecord] /\ agg'[k] = a /\ \A l \in TableKeys : l # k => agg'[l] = agg[l]
    BY <1>1, <1>2, PutOne
  <2> QED BY <1>2, <2>1
<1>5. AggregatorTypeOK'
  BY <1>1, <1>3, <1>4 DEF AggregatorTypeOK, AggregatorRecord, managerVars, historyVars
<1>6. ProducerInv' /\ (\A l \in TableKeys : GoodBatch(l, agg[l])') /\ \A t \in Threads : GoodThread(thread[t])'
  BY <1>2, <1>3, LocalByAggregator
<1>7. PlacesInv'
  BY <1>3, <1>4, PlacesStay
<1> QED BY <1>5, <1>6, <1>7 DEF LocalInv

LEMMA ExpiryKeepsAll ==
  ASSUME LocalInv, PlacesInv, NEW k \in TableKeys, checkExpiredBatch(k)
  PROVE  LocalInv' /\ PlacesInv'
<1>1. agg[k] \in AggregatorRecord /\ GoodBatch(k, agg[k]) /\ AggregatorTypeOK /\ ~agg[k].closed
  BY RecordsAreTyped DEF LocalInv, checkExpiredBatch
<1>2. UNCHANGED <<multi, producer, multiClosed, tableClosed, managerVars, thread, processed>>
  BY DEF checkExpiredBatch
<1>3. /\ NewBatch(agg[k]) \in AggregatorRecord /\ GoodBatch(k, NewBatch(agg[k]))
      /\ NewBatch(agg[k]).msgs = <<>> /\ NewBatch(agg[k]).made = agg[k].made
  BY <1>1, ANewBatch
<1>4. Put(k, NewBatch(agg[k]))
  BY DEF checkExpiredBatch
<1>5. /\ agg' \in [TableKeys -> AggregatorRecord] /\ agg'[k].msgs = <<>>
      /\ \A l \in TableKeys : l # k => agg'[l] = agg[l]
  BY <1>1, <1>3, <1>4, PutOne
<1>6. ToSet(agg[k].msgs) \subseteq Messages
  BY BatchOfOneTable
<1>7. /\ lost' \in [Ways -> SUBSET Messages]
      /\ \A w \in Ways : \A m : m \in lost'[w] <=> m \in lost[w] \/ (w = "expired" /\ m \in ToSet(agg[k].msgs))
  BY <1>1, <1>6 DEF checkExpiredBatch, Lose, AggregatorTypeOK, Ways
<1>8. AggregatorTypeOK'
  BY <1>1, <1>2, <1>5, <1>7 DEF AggregatorTypeOK, AggregatorRecord, managerVars
<1>9. ProducerInv' /\ (\A l \in TableKeys : GoodBatch(l, agg[l])') /\ \A t \in Threads : GoodThread(thread[t])'
  BY <1>2, <1>3, <1>4, LocalByAggregator
<1>10. PlacesInv'
  <2>1. \A m \in Messages : InBatch(m)' <=> InBatch(m) /\ m \notin ToSet(agg[k].msgs)
    BY <1>5, BatchOfOneTable, EmptyBatch DEF InBatch
  <2>2. \A m \in Messages : InHand(m)' <=> InHand(m)
    BY <1>2 DEF InHand
  <2>3. \A m \in Messages : Elsewhere(m)' <=> Elsewhere(m) \/ m \in ToSet(agg[k].msgs)
    BY <1>2, <1>7 DEF Elsewhere, Ways
  <2>4. \A m \in ToSet(agg[k].msgs) : m \in Messages /\ InBatch(m)
    BY <1>6 DEF InBatch
  <2>5. OneKindOfPlace'
    BY <1>2, <2>1, <2>2, <2>3, <2>4 DEF PlacesInv, OneKindOfPlace
  <2>6. OneHand'
    BY <1>2 DEF PlacesInv, OneHand
  <2>7. \A m \in ToSet(agg[k].msgs) : ~Elsewhere(m)
    BY <2>4 DEF PlacesInv, OneKindOfPlace
  <2>8. OneEnd'
    BY <1>2, <1>7, <2>7 DEF PlacesInv, OneEnd, Elsewhere
  <2> QED BY <2>5, <2>6, <2>8 DEF PlacesInv
<1> QED BY <1>8, <1>9, <1>10 DEF LocalInv

\* A producer that is refused, or sent to an aggregator that is there.
LEMMA AddMessageKeepsAll ==
  ASSUME LocalInv, PlacesInv, NEW m \in Messages, AddMessage(m)
  PROVE  LocalInv' /\ PlacesInv'
<1>1. PICK p \in {"refused", "add", "make"} :
        producer' = [producer EXCEPT ![m] = p] /\ (p = "add" => agg[Slot(m)].made)
  BY DEF AddMessage, At
<1>2. /\ producer \in [Messages -> {"new", "make", "add", "accepted", "refused"}]
      /\ producer[m] = "new" /\ UNCHANGED <<multi, aggVars, managerVars, thread, historyVars>>
  BY DEF AddMessage, LocalInv, AggregatorTypeOK
<1>3. AggregatorTypeOK'
  BY <1>1, <1>2 DEF LocalInv, AggregatorTypeOK, aggVars, managerVars, historyVars
<1>4. \A n : Slot(n)' = Slot(n)
  BY <1>2 DEF Slot
<1>5. ProducerInv'
  BY <1>1, <1>2, <1>4 DEF LocalInv, ProducerInv, aggVars
<1>6. /\ \A l \in TableKeys : GoodBatch(l, agg[l])'
      /\ \A t \in Threads : GoodThread(thread[t])'
  BY <1>2, <1>4 DEF LocalInv, GoodBatch, GoodThread, Sealed, IsFull, aggVars
<1>7. PlacesInv'
  BY <1>1, <1>2, PlacesStay DEF aggVars
<1> QED BY <1>3, <1>5, <1>6, <1>7 DEF LocalInv

LEMMA MadeIsGood ==
  ASSUME NEW k \in TableKeys
  PROVE  Made \in AggregatorRecord /\ GoodBatch(k, Made) /\ Made.msgs = <<>> /\ Made.made
<1>1. /\ Made \in AggregatorRecord /\ Made.msgs = <<>> /\ Made.made
      /\ Made.armed /\ ~Made.closed
  BY EmptyBatch DEF Made, NoAggregator, AggregatorRecord
<1> QED BY <1>1, EmptyBatch DEF GoodBatch

LEMMA MakeAggregatorKeepsAll ==
  ASSUME LocalInv, PlacesInv, NEW m \in Messages, MakeAggregator(m)
  PROVE  LocalInv' /\ PlacesInv'
<1> DEFINE k == Slot(m)
           a == IF agg[k].made THEN agg[k] ELSE Made
<1>1. k \in TableKeys /\ AggregatorTypeOK
  BY AloneIsKey DEF LocalInv
<1>2. /\ agg[k] \in AggregatorRecord /\ GoodBatch(k, agg[k])
      /\ ~agg[k].made => agg[k].msgs = <<>>
  BY <1>1, RecordsAreTyped DEF LocalInv, GoodBatch
<1>3. Put(k, a) /\ UNCHANGED <<multi, multiClosed, tableClosed, managerVars, thread, historyVars>>
  BY DEF MakeAggregator
<1> HIDE DEF k
<1>4. a \in AggregatorRecord /\ GoodBatch(k, a) /\ a.msgs = agg[k].msgs /\ a.made
  BY <1>1, <1>2, MadeIsGood
<1> HIDE DEF a
<1>5. /\ agg' \in [TableKeys -> AggregatorRecord] /\ agg'[k] = a
      /\ \A l \in TableKeys : l # k => agg'[l] = agg[l]
  BY <1>1, <1>3, <1>4, PutOne
<1>6. /\ producer \in [Messages -> {"new", "make", "add", "accepted", "refused"}]
      /\ producer' = [producer EXCEPT ![m] = "add"] /\ producer[m] = "make"
  BY <1>1 DEF AggregatorTypeOK, MakeAggregator, At
<1>7. \A n : Slot(n)' = Slot(n)
  BY <1>3 DEF Slot
<1>8. AggregatorTypeOK'
  BY <1>1, <1>3, <1>5, <1>6 DEF AggregatorTypeOK, AggregatorRecord, managerVars, historyVars
<1>9. \A l \in TableKeys : GoodBatch(l, agg[l])'
  BY <1>4, <1>5, <1>7 DEF LocalInv, GoodBatch, Sealed, IsFull
<1>10. \A t \in Threads : GoodThread(thread[t])'
  BY <1>3 DEF LocalInv, GoodThread, Sealed
<1>11. ProducerInv'
  <2>1. \A l \in TableKeys : agg[l].made => agg'[l].made
    BY <1>4, <1>5
  <2>2. multi' = multi /\ Alone \in TableKeys /\ (~multi => agg[Alone].made)
    BY <1>3, AloneIsKey DEF LocalInv, ProducerInv
  <2>3. ASSUME NEW n \in Messages, producer'[n] = "add" PROVE agg'[Slot(n)].made
    <3>1. CASE n = m
      BY <1>4, <1>5, <3>1 DEF k
    <3>2. CASE n # m
      BY <1>6, <2>1, <2>3, <3>2, AloneIsKey DEF LocalInv, ProducerInv
    <3> QED BY <3>1, <3>2
  <2> QED BY <1>7, <2>1, <2>2, <2>3 DEF ProducerInv
<1>12. PlacesInv'
  <2>1. \A l \in TableKeys : agg'[l].msgs = agg[l].msgs
    BY <1>4, <1>5
  <2>2. \A n \in Messages : producer'[n] = "accepted" <=> producer[n] = "accepted"
    BY <1>6
  <2>3. UNCHANGED historyVars /\ UNCHANGED thread
    BY <1>3
  <2> QED BY <2>1, <2>2, <2>3, PlacesStay
<1> QED BY <1>8, <1>9, <1>10, <1>11, <1>12 DEF LocalInv

\* The batch is closed: nothing but the answer.
LEMMA RefusalKeepsAll ==
  ASSUME LocalInv, PlacesInv, NEW m \in Messages, Add(m), agg[Slot(m)].closed
  PROVE  LocalInv' /\ PlacesInv'
<1>1. /\ producer' = [producer EXCEPT ![m] = "refused"]
      /\ producer \in [Messages -> {"new", "make", "add", "accepted", "refused"}]
      /\ producer[m] # "accepted"
      /\ UNCHANGED <<multi, agg, multiClosed, tableClosed, managerVars, thread, historyVars>>
  BY DEF Add, At, LocalInv, AggregatorTypeOK
<1>2. AggregatorTypeOK'
  BY <1>1 DEF LocalInv, AggregatorTypeOK, managerVars, historyVars
<1>3. \A n : Slot(n)' = Slot(n)
  BY <1>1 DEF Slot
<1>4. ProducerInv'
  BY <1>1, <1>3 DEF LocalInv, ProducerInv
<1>5. /\ \A l \in TableKeys : GoodBatch(l, agg[l])'
      /\ \A t \in Threads : GoodThread(thread[t])'
  BY <1>1, <1>3 DEF LocalInv, GoodBatch, GoodThread, Sealed, IsFull
<1>6. PlacesInv'
  BY <1>1, PlacesStay
<1> QED BY <1>2, <1>4, <1>5, <1>6 DEF LocalInv

\* What an aggregator becomes by a message: its batch, or a new one, grows.
LEMMA GrownBatch ==
  ASSUME NEW k \in TableKeys, NEW a \in AggregatorRecord, GoodBatch(k, a), a.made, ~a.closed,
         NEW m \in Messages, Slot(m) = k, ~a.ready => m \notin ToSet(a.msgs)
  PROVE  LET open  == IF a.ready THEN NewBatch(a) ELSE a
             added == Append(open.msgs, m)
             b     == [open EXCEPT !.msgs = added, !.ready = IsFull(added)]
         IN  /\ b \in AggregatorRecord /\ GoodBatch(k, b) /\ b.made
             /\ ToSet(b.msgs) = (IF a.ready THEN {} ELSE ToSet(a.msgs)) \cup {m}
<1> DEFINE open  == IF a.ready THEN NewBatch(a) ELSE a
           added == Append(open.msgs, m)
           full  == IsFull(added)
           b     == [open EXCEPT !.msgs = added, !.ready = full]
<1>1. /\ open \in AggregatorRecord /\ GoodBatch(k, open) /\ open.made /\ ~open.closed /\ ~open.ready
      /\ ToSet(open.msgs) = (IF a.ready THEN {} ELSE ToSet(a.msgs))
  BY ANewBatch, EmptyBatch
<1> HIDE DEF open
<1>2. open.msgs \in Seq(Messages) /\ m \notin ToSet(open.msgs)
  BY <1>1 DEF AggregatorRecord
<1>3. /\ added \in Seq(Messages) /\ added # <<>> /\ Distinct(added)
      /\ ToSet(added) = ToSet(open.msgs) \cup {m}
  BY <1>1, <1>2, OneMessageMore DEF GoodBatch
<1>4. Sealed(added)
  BY <1>1, <1>2, SealedByOne DEF GoodBatch
<1>5. full \in BOOLEAN
  BY DEF IsFull
<1> HIDE DEF full, added
<1>6. /\ b \in AggregatorRecord /\ b.msgs = added /\ b.ready = full /\ b.made = open.made
      /\ b.closed = open.closed /\ b.armed = open.armed /\ b.fired = open.fired /\ b.rang = open.rang
  BY <1>1, <1>3, <1>5 DEF AggregatorRecord
<1> HIDE DEF b
<1>7. GoodBatch(k, b)
  BY <1>1, <1>3, <1>4, <1>6 DEF GoodBatch, full
<1> QED BY <1>1, <1>3, <1>6, <1>7 DEF b, full, added, open

LEMMA AcceptanceKeepsAll ==
  ASSUME LocalInv, PlacesInv, NEW m \in Messages, Add(m), ~agg[Slot(m)].closed
  PROVE  LocalInv' /\ PlacesInv'
<1> DEFINE k     == Slot(m)
           a     == agg[k]
           open  == IF a.ready THEN NewBatch(a) ELSE a
           added == Append(open.msgs, m)
           b     == [open EXCEPT !.msgs = added, !.ready = IsFull(added)]
           gone  == IF a.ready THEN ToSet(a.msgs) ELSE {}
<1>1. k \in TableKeys /\ AggregatorTypeOK
  BY AloneIsKey DEF LocalInv
<1>2. a \in AggregatorRecord /\ GoodBatch(k, a) /\ ~a.closed
  BY <1>1, RecordsAreTyped DEF LocalInv
<1>3. /\ producer \in [Messages -> {"new", "make", "add", "accepted", "refused"}]
      /\ producer[m] \in {"new", "add"} /\ a.made
      /\ producer' = [producer EXCEPT ![m] = "accepted"]
  BY <1>1 DEF Add, At, LocalInv, ProducerInv, AggregatorTypeOK, Slot
<1>4. ~InBatch(m) /\ ~InHand(m) /\ ~Elsewhere(m)
  BY <1>3 DEF PlacesInv, OneKindOfPlace
<1>5. m \notin ToSet(a.msgs)
  BY <1>1, <1>4 DEF InBatch
<1>6. /\ b \in AggregatorRecord /\ GoodBatch(k, b) /\ b.made
      /\ ToSet(b.msgs) = (IF a.ready THEN {} ELSE ToSet(a.msgs)) \cup {m}
  <2> HIDE DEF a
  <2> QED BY <1>1, <1>2, <1>3, <1>5, GrownBatch
<1>7. Put(k, b) /\ UNCHANGED <<multi, multiClosed, tableClosed, managerVars, thread, processed>>
  BY DEF Add
<1>8. gone \subseteq ToSet(a.msgs) /\ ToSet(a.msgs) \subseteq Messages
  BY <1>1, BatchOfOneTable
<1>9. lost' = [lost EXCEPT !["overwritten"] = @ \cup gone]
  BY <1>1 DEF Add, Lose, AggregatorTypeOK, Ways
<1> HIDE DEF a, b, k, gone
<1>10. /\ lost' \in [Ways -> SUBSET Messages]
       /\ \A w \in Ways : \A n : n \in lost'[w] <=> n \in lost[w] \/ (w = "overwritten" /\ n \in gone)
  BY <1>1, <1>8, <1>9 DEF AggregatorTypeOK, Ways
<1>11. /\ agg' \in [TableKeys -> AggregatorRecord] /\ agg'[k] = b
       /\ \A l \in TableKeys : l # k => agg'[l] = agg[l]
  BY <1>1, <1>6, <1>7, PutOne
<1>12. AggregatorTypeOK'
  BY <1>1, <1>3, <1>7, <1>10, <1>11 DEF AggregatorTypeOK, AggregatorRecord, managerVars
<1>13. \A n : Slot(n)' = Slot(n)
  BY <1>7 DEF Slot
<1>14. \A l \in TableKeys : GoodBatch(l, agg[l])'
  BY <1>6, <1>11, <1>13 DEF LocalInv, GoodBatch, Sealed, IsFull
<1>15. \A t \in Threads : GoodThread(thread[t])'
  BY <1>7 DEF LocalInv, GoodThread, Sealed
<1>16. ProducerInv'
  <2>1. \A l \in TableKeys : agg[l].made => agg'[l].made
    BY <1>6, <1>11
  <2> QED BY <1>3, <1>7, <1>13, <2>1, AloneIsKey DEF LocalInv, ProducerInv
<1>17. PlacesInv'
  <2>1. ToSet(a.msgs) \subseteq {n \in Messages : InBatch(n)} /\ a = agg[k]
    BY <1>1, <1>8 DEF a, InBatch
  <2>2. \A n \in Messages : InBatch(n)' <=> (InBatch(n) /\ n \notin gone) \/ n = m
    <3>1. \A l \in TableKeys : \A n \in ToSet(a.msgs) : n \in ToSet(agg[l].msgs) => l = k
      BY <1>1, <2>1, BatchOfOneTable
    <3>2. ToSet(agg'[k].msgs) = (ToSet(a.msgs) \ gone) \cup {m}
      BY <1>6, <1>11 DEF gone
    <3> QED BY <1>1, <1>8, <1>11, <2>1, <3>1, <3>2 DEF InBatch
  <2>3. \A n \in Messages : InHand(n)' <=> InHand(n)
    BY <1>7 DEF InHand
  <2>4. \A n \in Messages : Elsewhere(n)' <=> Elsewhere(n) \/ n \in gone
    BY <1>7, <1>10 DEF Elsewhere, Ways
  <2>5. \A n \in gone : n \in Messages /\ InBatch(n) /\ n # m
    BY <1>4, <1>8, <2>1
  <2>6. OneKindOfPlace'
    BY <1>3, <1>4, <2>2, <2>3, <2>4, <2>5 DEF PlacesInv, OneKindOfPlace
  <2>7. OneHand'
    BY <1>7 DEF PlacesInv, OneHand
  <2>8. \A n \in gone : ~Elsewhere(n)
    BY <2>5 DEF PlacesInv, OneKindOfPlace
  <2>9. OneEnd'
    BY <1>7, <1>10, <2>8 DEF PlacesInv, OneEnd, Elsewhere
  <2> QED BY <2>6, <2>7, <2>9 DEF PlacesInv
<1> QED BY <1>12, <1>14, <1>15, <1>16, <1>17 DEF LocalInv

-----------------------------------------------------------------------------
(* The batch aggregator: loops and Stop.                                   *)

LEMMA ThreadsAreGood ==
  ASSUME AggregatorTypeOK, NEW p \in {"drain", "get", "force"}
  PROVE  /\ Off \in ThreadRecord /\ GoodThread(Off) /\ Off.hand = {}
         /\ Wait \in ThreadRecord /\ GoodThread(Wait) /\ Wait.hand = {}
         /\ \A t : Ended(t) \in ThreadRecord /\ GoodThread(Ended(t)) /\ Ended(t).hand = {}
         /\ Visit(p) \in ThreadRecord /\ GoodThread(Visit(p)) /\ Visit(p).hand = {}
         /\ \A q \in {"left", "ready"} :
              LET s == [Off EXCEPT !.at = q] IN s \in ThreadRecord /\ GoodThread(s) /\ s.hand = {}
BY AloneIsKey DEF Off, Wait, Ended, Visit, ThreadRecord, GoodThread

\* A thread that neither takes nor gives a batch.
LEMMA IdleStepKeepsAll ==
  ASSUME LocalInv, PlacesInv, NEW t \in Threads, NEW s \in ThreadRecord, Go(t, s), GoodThread(s),
         s.hand = thread[t].hand, UNCHANGED <<multi, producer, aggVars, historyVars>>,
         running' \in BOOLEAN, cancelled' = cancelled, closing' = closing
  PROVE  LocalInv' /\ PlacesInv'
<1>1. /\ thread' \in [Threads -> ThreadRecord] /\ thread'[t] = s
      /\ \A u \in Threads : u # t => thread'[u] = thread[u]
  BY GoOne DEF LocalInv
<1>2. AggregatorTypeOK'
  BY <1>1 DEF LocalInv, AggregatorTypeOK, ThreadRecord, aggVars, historyVars
<1>3. /\ ProducerInv' /\ \A l \in TableKeys : GoodBatch(l, agg[l])'
      /\ \A u \in Threads : GoodThread(thread[u])'
  BY LocalByThread DEF aggVars
<1>4. \A u \in Threads : thread'[u].hand = thread[u].hand
  BY <1>1
<1>5. PlacesInv'
  BY <1>4, PlacesStay DEF aggVars
<1> QED BY <1>2, <1>3, <1>5 DEF LocalInv

LEMMA WaitingKeepsAll ==
  ASSUME LocalInv, PlacesInv, NEW t \in Threads, Tick(t) \/ Leave(t) \/ IsBatchReady(t) \/ forceBatch(t)
  PROVE  LocalInv' /\ PlacesInv'
<1>1. thread[t].hand = {}
  BY DEF LocalInv, GoodThread, Tick, Leave, IsBatchReady, forceBatch
<1>2. PICK s \in ThreadRecord : Go(t, s) /\ GoodThread(s) /\ s.hand = {}
  <2> USE ThreadsAreGood DEF LocalInv
  <2>1. CASE Tick(t)
    BY <2>1 DEF Tick
  <2>2. CASE Leave(t)
    BY <2>2 DEF Leave
  <2>3. CASE IsBatchReady(t)
    BY <2>3 DEF IsBatchReady
  <2>4. CASE forceBatch(t)
    BY <2>4 DEF forceBatch
  <2> QED BY <2>1, <2>2, <2>3, <2>4
<1>3. UNCHANGED <<multi, producer, aggVars, managerVars, historyVars>>
  BY DEF Tick, Leave, IsBatchReady, forceBatch
<1>4. running' \in BOOLEAN /\ cancelled' = cancelled /\ closing' = closing
  BY <1>3 DEF managerVars, LocalInv, AggregatorTypeOK
<1> QED BY <1>1, <1>2, <1>3, <1>4, IdleStepKeepsAll

LEMMA StartingKeepsAll ==
  ASSUME LocalInv, PlacesInv, Start \/ Stop
  PROVE  LocalInv' /\ PlacesInv'
<1>1. PICK t \in Threads, s \in ThreadRecord : Go(t, s) /\ GoodThread(s) /\ s.hand = {} /\ thread[t].at = "off"
  <2> USE ThreadsAreGood DEF LocalInv, Threads
  <2>1. CASE Start
    BY <2>1 DEF Start
  <2>2. CASE Stop
    BY <2>2 DEF Stop
  <2> QED BY <2>1, <2>2
<1>2. thread[t].hand = {}
  BY <1>1 DEF LocalInv, GoodThread
<1>3. /\ UNCHANGED <<multi, producer, aggVars, historyVars>>
      /\ running' \in BOOLEAN /\ cancelled' = cancelled /\ closing' = closing
  BY DEF Start, Stop
<1> QED BY <1>1, <1>2, <1>3, IdleStepKeepsAll

\* The thread takes the batch into its hands.
LEMMA TakingKeepsAll ==
  ASSUME LocalInv, PlacesInv, NEW t \in Threads, NEW k \in TableKeys, k \in thread[t].todo,
         Takes(agg[k], thread[t].at = "force"), Put(k, NewBatch(agg[k])),
         Go(t, [thread[t] EXCEPT !.todo = @ \ {k}, !.hand = @ \cup {agg[k].msgs}]),
         UNCHANGED <<multi, producer, multiClosed, tableClosed, managerVars, historyVars>>
  PROVE  LocalInv' /\ PlacesInv'
<1> DEFINE b == agg[k].msgs
           s == [thread[t] EXCEPT !.todo = @ \ {k}, !.hand = @ \cup {b}]
<1>1. /\ agg[k] \in AggregatorRecord /\ GoodBatch(k, agg[k]) /\ AggregatorTypeOK /\ ~agg[k].closed
      /\ b # <<>> /\ b \in Seq(Messages) /\ thread[t] \in ThreadRecord /\ GoodThread(thread[t])
  BY RecordsAreTyped DEF LocalInv, Takes
<1>2. Sealed(b) /\ Distinct(b)
  BY <1>1 DEF GoodBatch
<1>3. /\ NewBatch(agg[k]) \in AggregatorRecord /\ GoodBatch(k, NewBatch(agg[k]))
      /\ NewBatch(agg[k]).msgs = <<>> /\ NewBatch(agg[k]).made = agg[k].made
  BY <1>1, ANewBatch
<1>4. /\ agg' \in [TableKeys -> AggregatorRecord] /\ agg'[k] = NewBatch(agg[k])
      /\ \A l \in TableKeys : l # k => agg'[l] = agg[l]
  BY <1>1, <1>3, PutOne
<1> HIDE DEF b
<1>5. /\ s \in ThreadRecord /\ s.hand = thread[t].hand \cup {b} /\ s.at = thread[t].at
      /\ s.todo = thread[t].todo \ {k}
  BY <1>1 DEF ThreadRecord
<1>6. Go(t, s)
  BY DEF b
<1> HIDE DEF s
<1>7. GoodThread(s)
  BY <1>1, <1>2, <1>5 DEF GoodThread
<1>8. /\ thread' \in [Threads -> ThreadRecord] /\ thread'[t] = s
      /\ \A u \in Threads : u # t => thread'[u] = thread[u]
  BY <1>1, <1>5, <1>6, GoOne
<1>9. AggregatorTypeOK'
  BY <1>1, <1>4, <1>8 DEF AggregatorTypeOK, AggregatorRecord, ThreadRecord, managerVars, historyVars
<1>10. \A n : Slot(n)' = Slot(n)
  BY DEF Slot
<1>11. \A l \in TableKeys : GoodBatch(l, agg[l])'
  BY <1>3, <1>4, <1>10 DEF LocalInv, GoodBatch, Sealed, IsFull
<1>12. \A u \in Threads : GoodThread(thread[u])'
  BY <1>7, <1>8 DEF LocalInv, GoodThread, Sealed
<1>13. ProducerInv'
  <2>1. \A l \in TableKeys : agg[l].made => agg'[l].made
    BY <1>3, <1>4
  <2> QED BY <1>10, <2>1, AloneIsKey DEF LocalInv, ProducerInv
<1>14. PlacesInv'
  <2>1. ToSet(b) \subseteq {n \in Messages : InBatch(n)}
    BY BatchOfOneTable DEF b, InBatch
  <2>2. \A n \in Messages : InBatch(n)' <=> InBatch(n) /\ n \notin ToSet(b)
    BY <1>3, <1>4, BatchOfOneTable, EmptyBatch DEF InBatch, b
  <2>3. \A n \in Messages : InHand(n)' <=> InHand(n) \/ n \in ToSet(b)
    BY <1>5, <1>8 DEF InHand
  <2>4. \A n \in Messages : Elsewhere(n)' <=> Elsewhere(n)
    BY DEF Elsewhere, historyVars
  <2>5. OneKindOfPlace'
    BY <2>1, <2>2, <2>3, <2>4 DEF PlacesInv, OneKindOfPlace
  <2>6. \A u \in Threads : \A c \in thread[u].hand : \A n \in ToSet(b) : n \notin ToSet(c)
    BY <2>1 DEF PlacesInv, OneKindOfPlace, InHand
  <2>7. OneHand'
    <3> SUFFICES ASSUME NEW u \in Threads, NEW v \in Threads, NEW c \in thread'[u].hand,
                        NEW d \in thread'[v].hand, NEW n \in ToSet(c), n \in ToSet(d)
                 PROVE  u = v /\ c = d
      BY DEF OneHand
    <3>1. /\ c \in thread[u].hand \/ (u = t /\ c = b)
          /\ d \in thread[v].hand \/ (v = t /\ d = b)
      BY <1>5, <1>8
    <3> QED BY <2>6, <3>1 DEF PlacesInv, OneHand
  <2>8. OneEnd'
    BY DEF PlacesInv, OneEnd, historyVars
  <2> QED BY <2>5, <2>7, <2>8 DEF PlacesInv
<1> QED BY <1>9, <1>11, <1>12, <1>13, <1>14 DEF LocalInv

LEMMA CollectKeepsAll ==
  ASSUME LocalInv, PlacesInv, NEW t \in Threads, Collect(t)
  PROVE  LocalInv' /\ PlacesInv'
<1>1. AggregatorTypeOK /\ thread[t] \in ThreadRecord /\ GoodThread(thread[t])
  BY RecordsAreTyped DEF LocalInv
<1>2. PICK k \in thread[t].todo :
        LET taken == Takes(agg[k], thread[t].at = "force")
        IN /\ IF taken THEN Put(k, NewBatch(agg[k])) ELSE UNCHANGED agg
           /\ Go(t, [thread[t] EXCEPT !.todo = @ \ {k}, !.hand = IF taken THEN @ \cup {agg[k].msgs} ELSE @])
           /\ UNCHANGED <<multi, producer, multiClosed, tableClosed, managerVars, historyVars>>
  BY DEF Collect
<1>3. k \in TableKeys
  BY <1>1 DEF ThreadRecord
<1>4. CASE Takes(agg[k], thread[t].at = "force")
  BY <1>2, <1>3, <1>4, TakingKeepsAll
<1>5. CASE ~Takes(agg[k], thread[t].at = "force")
  <2> DEFINE s == [thread[t] EXCEPT !.todo = @ \ {k}, !.hand = @]
  <2>1. Go(t, s) /\ UNCHANGED <<multi, producer, aggVars, historyVars>> /\ UNCHANGED managerVars
    BY <1>2, <1>5 DEF aggVars
  <2>2. s \in ThreadRecord /\ s.hand = thread[t].hand /\ s.at = thread[t].at /\ s.todo = thread[t].todo \ {k}
    BY <1>1 DEF ThreadRecord
  <2> HIDE DEF s
  <2>3. GoodThread(s)
    BY <1>1, <2>2 DEF GoodThread
  <2>4. running' \in BOOLEAN /\ cancelled' = cancelled /\ closing' = closing
    BY <1>1, <2>1 DEF managerVars, AggregatorTypeOK
  <2> QED BY <2>1, <2>2, <2>3, <2>4, IdleStepKeepsAll
<1> QED BY <1>4, <1>5

\* The thread gives batches away: to the processor, or they are lost.
LEMMA GivingKeepsAll ==
  ASSUME LocalInv, PlacesInv, NEW t \in Threads, NEW s \in ThreadRecord, Go(t, s), GoodThread(s),
         s.hand \subseteq thread[t].hand,
         NEW X, \A m : m \in X <=> \E b \in thread[t].hand : b \notin s.hand /\ m \in ToSet(b),
         NEW given \in SUBSET X, processed' = processed \cup given,
         NEW way \in Ways, lost' = [lost EXCEPT ![way] = @ \cup (X \ given)],
         UNCHANGED <<multi, producer, aggVars, managerVars>>
  PROVE  LocalInv' /\ PlacesInv'
<1>1. AggregatorTypeOK /\ thread[t].hand \subseteq Seq(Messages)
  BY RecordsAreTyped DEF LocalInv
<1>2. /\ thread' \in [Threads -> ThreadRecord] /\ thread'[t] = s
      /\ \A u \in Threads : u # t => thread'[u] = thread[u]
  BY <1>1, GoOne
<1>3. X \subseteq {m \in Messages : InHand(m)}
  BY <1>1 DEF ToSet, InHand
<1>4. /\ lost' \in [Ways -> SUBSET Messages] /\ processed' \subseteq Messages
      /\ \A w \in Ways : \A m : m \in lost'[w] <=> m \in lost[w] \/ (w = way /\ m \in X /\ m \notin given)
  BY <1>1, <1>3 DEF AggregatorTypeOK
<1>5. AggregatorTypeOK'
  BY <1>1, <1>2, <1>4 DEF AggregatorTypeOK, ThreadRecord, aggVars, managerVars
<1>6. /\ ProducerInv' /\ \A l \in TableKeys : GoodBatch(l, agg[l])'
      /\ \A u \in Threads : GoodThread(thread[u])'
  BY LocalByThread DEF aggVars
<1>7. PlacesInv'
  <2>1. \A m \in Messages : InBatch(m)' <=> InBatch(m)
    BY DEF InBatch, aggVars
  <2>2. \A m \in Messages : InHand(m)' <=> InHand(m) /\ m \notin X
    <3> SUFFICES ASSUME NEW m \in Messages PROVE InHand(m)' <=> InHand(m) /\ m \notin X
      OBVIOUS
    <3>1. ASSUME InHand(m)' PROVE InHand(m) /\ m \notin X
      <4>1. PICK u \in Threads : \E b \in thread'[u].hand : m \in ToSet(b)
        BY <3>1 DEF InHand
      <4>2. PICK b \in thread'[u].hand : m \in ToSet(b)
        BY <4>1
      <4>3. b \in thread[u].hand /\ (u = t => b \in s.hand)
        BY <1>2, <4>2
      <4>4. m \notin X
        BY <4>2, <4>3 DEF PlacesInv, OneHand
      <4> QED BY <4>2, <4>3, <4>4 DEF InHand
    <3>2. ASSUME InHand(m), m \notin X PROVE InHand(m)'
      <4>1. PICK u \in Threads : \E b \in thread[u].hand : m \in ToSet(b)
        BY <3>2 DEF InHand
      <4>2. PICK b \in thread[u].hand : m \in ToSet(b)
        BY <4>1
      <4>3. b \in thread'[u].hand
        BY <1>2, <3>2, <4>2
      <4> QED BY <4>2, <4>3 DEF InHand
    <3> QED BY <3>1, <3>2
  <2>3. \A m \in Messages : Elsewhere(m)' <=> Elsewhere(m) \/ m \in X
    BY <1>4 DEF Elsewhere
  <2>4. OneKindOfPlace'
    BY <1>3, <2>1, <2>2, <2>3 DEF PlacesInv, OneKindOfPlace
  <2>5. \A u \in Threads : thread'[u].hand \subseteq thread[u].hand
    BY <1>2
  <2>6. OneHand'
    BY <2>5 DEF PlacesInv, OneHand
  <2>7. \A m \in X : ~Elsewhere(m)
    BY <1>3 DEF PlacesInv, OneKindOfPlace
  <2>8. OneEnd'
    BY <1>4, <2>7 DEF PlacesInv, OneEnd, Elsewhere
  <2> QED BY <2>4, <2>6, <2>8 DEF PlacesInv
<1> QED BY <1>5, <1>6, <1>7 DEF LocalInv

LEMMA DrainedKeepsAll ==
  ASSUME LocalInv, PlacesInv, NEW t \in Threads, Drained(t)
  PROVE  LocalInv' /\ PlacesInv'
<1> DEFINE X == MessagesOf(thread[t].hand)
<1>1. PICK s \in ThreadRecord : Go(t, s) /\ GoodThread(s) /\ s.hand = {}
  BY ThreadsAreGood DEF LocalInv, Drained
<1>2. \A m : m \in X <=> \E b \in thread[t].hand : b \notin s.hand /\ m \in ToSet(b)
  BY <1>1 DEF MessagesOf
<1>3. lost' = [lost EXCEPT !["drained"] = @ \cup (X \ {})] /\ processed' = processed \cup {} /\ "drained" \in Ways
  BY DEF Drained, Lose, Ways
<1>4. UNCHANGED <<multi, producer, aggVars, managerVars>>
  BY DEF Drained
<1> HIDE DEF X
<1> QED BY <1>1, <1>2, <1>3, <1>4, GivingKeepsAll

LEMMA CollectedKeepsAll ==
  ASSUME LocalInv, PlacesInv, NEW t \in Threads, Collected(t)
  PROVE  LocalInv' /\ PlacesInv'
<1>1. /\ AggregatorTypeOK /\ thread[t] \in ThreadRecord /\ GoodThread(thread[t])
      /\ UNCHANGED <<multi, producer, aggVars, managerVars, processed>> /\ thread[t].todo = {}
  BY RecordsAreTyped DEF LocalInv, Collected
<1>2. CASE thread[t].hand = {}
  <2>1. PICK s \in ThreadRecord : Go(t, s) /\ GoodThread(s) /\ s.hand = {}
    BY <1>1, <1>2, ThreadsAreGood DEF Collected
  <2>2. UNCHANGED historyVars
    BY <1>1, <1>2 DEF Collected, historyVars
  <2>3. running' \in BOOLEAN /\ cancelled' = cancelled /\ closing' = closing
    BY <1>1 DEF managerVars, AggregatorTypeOK
  <2> QED BY <1>1, <1>2, <2>1, <2>2, <2>3, IdleStepKeepsAll
<1>3. CASE thread[t].hand # {}
  <2>1. PICK b \in thread[t].hand :
          /\ Go(t, [thread[t] EXCEPT !.at = IF thread[t].at = "get" THEN "process" ELSE "final", !.hand = {b}])
          /\ Lose("second", MessagesOf(thread[t].hand \ {b}))
    BY <1>3 DEF Collected
  <2> DEFINE p == IF thread[t].at = "get" THEN "process" ELSE "final"
             s == [thread[t] EXCEPT !.at = p, !.hand = {b}]
             X == MessagesOf(thread[t].hand \ {b})
  <2>2. Go(t, s) /\ p \in {"process", "final"}
    BY <2>1
  <2> HIDE DEF p
  <2>3. s \in ThreadRecord /\ s.hand = {b} /\ s.at = p /\ s.todo = {}
    BY <1>1, <2>2 DEF ThreadRecord
  <2> HIDE DEF s
  <2>4. GoodThread(s) /\ s.hand \subseteq thread[t].hand
    BY <1>1, <2>2, <2>3 DEF GoodThread
  <2>5. \A m : m \in X <=> \E c \in thread[t].hand : c \notin s.hand /\ m \in ToSet(c)
    BY <2>3 DEF MessagesOf
  <2>6. /\ lost' = [lost EXCEPT !["second"] = @ \cup (X \ {})] /\ processed' = processed \cup {}
        /\ "second" \in Ways
    BY <1>1, <2>1 DEF Lose, Ways
  <2> HIDE DEF X
  <2> QED BY <1>1, <2>2, <2>3, <2>4, <2>5, <2>6, GivingKeepsAll
<1> QED BY <1>2, <1>3

LEMMA ProcessKeepsAll ==
  ASSUME LocalInv, PlacesInv, NEW t \in Threads, Process(t)
  PROVE  LocalInv' /\ PlacesInv'
<1> DEFINE X == MessagesOf(thread[t].hand)
<1>1. PICK s \in ThreadRecord : Go(t, s) /\ GoodThread(s) /\ s.hand = {}
  BY ThreadsAreGood DEF LocalInv, Process
<1>2. \A m : m \in X <=> \E b \in thread[t].hand : b \notin s.hand /\ m \in ToSet(b)
  BY <1>1 DEF MessagesOf
<1>3. /\ processed' = processed \cup X /\ UNCHANGED lost /\ "second" \in Ways
      /\ UNCHANGED <<multi, producer, aggVars, managerVars>>
  BY DEF Process, Ways
<1>4. lost' = [lost EXCEPT !["second"] = @ \cup (X \ X)]
  BY <1>3 DEF LocalInv, AggregatorTypeOK
<1> HIDE DEF X
<1>5. s.hand \subseteq thread[t].hand /\ UNCHANGED <<multi, producer, aggVars, managerVars>>
  BY <1>1, <1>3
<1>6. ASSUME NEW way \in Ways, NEW given \in SUBSET X, processed' = processed \cup given,
             lost' = [lost EXCEPT ![way] = @ \cup (X \ given)]
      PROVE  LocalInv' /\ PlacesInv'
  BY <1>1, <1>2, <1>5, <1>6, GivingKeepsAll
<1> QED BY <1>3, <1>4, <1>6

-----------------------------------------------------------------------------
(* The batch aggregator: Close.                                            *)

LEMMA ClosingKeepsAll ==
  ASSUME LocalInv, PlacesInv, Close \/ CloseWaited \/ MultiClose
  PROVE  LocalInv' /\ PlacesInv'
<1>1. /\ UNCHANGED <<multi, producer, agg, tableClosed, thread, historyVars>>
      /\ multiClosed' \in BOOLEAN /\ running' \in BOOLEAN /\ cancelled' \in BOOLEAN
      /\ closing' \in {"no", "wait", "aggregator", "table", "done"}
  BY DEF LocalInv, AggregatorTypeOK, Close, CloseWaited, MultiClose, aggVars
<1>2. AggregatorTypeOK'
  BY <1>1 DEF LocalInv, AggregatorTypeOK, historyVars
<1>3. \A n : Slot(n)' = Slot(n)
  BY <1>1 DEF Slot
<1>4. /\ ProducerInv' /\ \A l \in TableKeys : GoodBatch(l, agg[l])'
      /\ \A t \in Threads : GoodThread(thread[t])'
  BY <1>1, <1>3 DEF LocalInv, ProducerInv, GoodBatch, GoodThread, Sealed, IsFull
<1>5. PlacesInv'
  BY <1>1, PlacesStay
<1> QED BY <1>2, <1>4, <1>5 DEF LocalInv

\* The last batches are marked and left.
LEMMA AggregatorCloseKeepsAll ==
  ASSUME LocalInv, PlacesInv, AggregatorClose
  PROVE  LocalInv' /\ PlacesInv'
<1> DEFINE gone == MessagesOf({agg[k].msgs : k \in TableKeys})
<1>1. /\ AggregatorTypeOK /\ closing' = "done" /\ tableClosed' = multi
      /\ UNCHANGED <<multi, producer, multiClosed, running, cancelled, thread, processed>>
  BY DEF LocalInv, AggregatorClose
<1>2. /\ agg' \in [TableKeys -> AggregatorRecord]
      /\ \A k \in TableKeys : /\ agg'[k].msgs = <<>> /\ agg'[k].made = agg[k].made
                              /\ agg'[k].closed = agg[k].made
  <2>1. \A k \in TableKeys : agg[k] \in AggregatorRecord
    BY <1>1, RecordsAreTyped
  <2>2. agg' = [k \in TableKeys |-> Closed(agg[k])]
    BY DEF AggregatorClose
  <2>3. ASSUME NEW a \in AggregatorRecord
        PROVE  /\ Closed(a) \in AggregatorRecord /\ Closed(a).msgs = <<>> /\ Closed(a).made = a.made
               /\ Closed(a).closed = a.made
    BY EmptyBatch DEF Closed, NoAggregator, AggregatorRecord
  <2> QED BY <2>1, <2>2, <2>3
<1>3. \A m : m \in gone <=> InBatch(m)
  BY DEF MessagesOf, InBatch
<1>4. gone \subseteq Messages
  BY <1>3, BatchOfOneTable DEF InBatch
<1>5. lost' = [lost EXCEPT !["shutdown"] = @ \cup gone]
  BY DEF AggregatorClose, Lose
<1> HIDE DEF gone
<1>6. /\ lost' \in [Ways -> SUBSET Messages]
      /\ \A w \in Ways : \A m : m \in lost'[w] <=> m \in lost[w] \/ (w = "shutdown" /\ m \in gone)
  BY <1>1, <1>4, <1>5 DEF AggregatorTypeOK, Ways
<1>7. AggregatorTypeOK'
  BY <1>1, <1>2, <1>6 DEF AggregatorTypeOK, AggregatorRecord
<1>8. \A n : Slot(n)' = Slot(n)
  BY <1>1 DEF Slot
<1>9. \A l \in TableKeys : GoodBatch(l, agg[l])'
  <2> SUFFICES ASSUME NEW l \in TableKeys PROVE GoodBatch(l, agg[l])'
    OBVIOUS
  <2>1. agg'[l].msgs = <<>> /\ ~(agg'[l].made /\ ~agg'[l].closed)
    BY <1>2
  <2>2. IsFull(agg'[l].msgs) = IsFull(<<>>) /\ ~IsFull(<<>>)
    BY <2>1, EmptyBatch
  <2> QED BY <2>1, <2>2, EmptyBatch DEF GoodBatch
<1>10. \A t \in Threads : GoodThread(thread[t])'
  BY <1>1 DEF LocalInv, GoodThread, Sealed
<1>11. ProducerInv'
  BY <1>1, <1>2, <1>8, AloneIsKey DEF LocalInv, ProducerInv
<1>12. PlacesInv'
  <2>1. \A m \in Messages : ~InBatch(m)'
    BY <1>2, EmptyBatch DEF InBatch
  <2>2. \A m \in Messages : InHand(m)' <=> InHand(m)
    BY <1>1 DEF InHand
  <2>3. \A m \in Messages : Elsewhere(m)' <=> Elsewhere(m) \/ m \in gone
    BY <1>1, <1>6 DEF Elsewhere, Ways
  <2>4. OneKindOfPlace'
    BY <1>1, <1>3, <2>1, <2>2, <2>3 DEF PlacesInv, OneKindOfPlace
  <2>5. OneHand'
    BY <1>1 DEF PlacesInv, OneHand
  <2>6. \A m \in gone : ~Elsewhere(m)
    BY <1>3, <1>4 DEF PlacesInv, OneKindOfPlace
  <2>7. OneEnd'
    BY <1>1, <1>6, <2>6 DEF PlacesInv, OneEnd, Elsewhere
  <2> QED BY <2>4, <2>5, <2>7 DEF PlacesInv
<1> QED BY <1>7, <1>9, <1>10, <1>11, <1>12 DEF LocalInv

LEMMA AggregatorStepKeepsAll ==
  ASSUME LocalInv, PlacesInv, AggregatorNext
  PROVE  LocalInv' /\ PlacesInv'
<1>1. ASSUME NEW m \in Messages, Producing(m) PROVE LocalInv' /\ PlacesInv'
  BY <1>1, AddMessageKeepsAll, MakeAggregatorKeepsAll, RefusalKeepsAll, AcceptanceKeepsAll DEF Producing
<1>2. ASSUME NEW k \in TableKeys, Timing(k) PROVE LocalInv' /\ PlacesInv'
  BY <1>2, TimersKeepAll, ExpiryKeepsAll DEF Timing
<1>3. ASSUME NEW t \in Threads, Working(t) PROVE LocalInv' /\ PlacesInv'
  BY <1>3, WaitingKeepsAll, CollectKeepsAll, DrainedKeepsAll, CollectedKeepsAll, ProcessKeepsAll DEF Working
<1>4. CASE Start \/ Stop
  BY <1>4, StartingKeepsAll
<1>5. CASE Close \/ Ending
  BY <1>5, ClosingKeepsAll, AggregatorCloseKeepsAll DEF Ending
<1> QED BY <1>1, <1>2, <1>3, <1>4, <1>5 DEF AggregatorNext

LEMMA AggregatorStays ==
  LocalInv /\ PlacesInv /\ UNCHANGED aggregatorVars => LocalInv' /\ PlacesInv'
<1> SUFFICES ASSUME LocalInv, PlacesInv, UNCHANGED aggregatorVars PROVE LocalInv' /\ PlacesInv'
  OBVIOUS
<1>1. UNCHANGED <<multi, producer, agg, multiClosed, tableClosed, running, cancelled, closing, thread,
                  processed, lost>>
  BY DEF aggregatorVars, aggVars, managerVars, historyVars
<1>2. \A n : Slot(n)' = Slot(n)
  BY <1>1 DEF Slot
<1>3. LocalInv'
  BY <1>1, <1>2 DEF LocalInv, AggregatorTypeOK, ProducerInv, GoodBatch, GoodThread, Sealed, IsFull
<1>4. PlacesInv'
  BY <1>1, PlacesStay DEF historyVars
<1> QED BY <1>3, <1>4

-----------------------------------------------------------------------------
(* The batch aggregator: what the invariant says of the places.            *)

\* A message is in a batch at one position.
LEMMA OnePosition ==
  ASSUME NEW b \in Seq(Messages), Distinct(b), NEW m \in ToSet(b)
  PROVE  \E i \in 1..Len(b) : Positions(m, b) = {i}
<1>1. PICK i \in DOMAIN b : b[i] = m
  BY DEF ToSet
<1>2. DOMAIN b = 1..Len(b)
  BY LenProperties
<1> QED BY <1>1, <1>2 DEF Distinct, Positions

LEMMA NoPosition ==
  ASSUME NEW b, NEW m, m \notin ToSet(b)
  PROVE  Positions(m, b) = {}
BY DEF ToSet, Positions

BatchPlaces(m) == UNION {{k} \X Positions(m, agg[k].msgs) : k \in TableKeys}
HandPlacesOf(t, m) == UNION {{<<t, b>>} \X Positions(m, b) : b \in thread[t].hand}
HandPlaces(m)  == UNION {HandPlacesOf(t, m) : t \in Threads}
WaysLost(m)    == {w \in Ways : m \in lost[w]}

LEMMA PlacesAreThese ==
  ASSUME NEW m
  PROVE  PlacesOf(m) = ({"batch"} \X BatchPlaces(m)) \cup ({"hand"} \X HandPlaces(m))
                       \cup ({"processed"} \X ({m} \cap processed)) \cup ({"lost"} \X WaysLost(m))
BY DEF PlacesOf, BatchPlaces, HandPlaces, HandPlacesOf, WaysLost

LEMMA BatchPlacesAreOne ==
  ASSUME LocalInv, NEW m \in Messages
  PROVE  IF InBatch(m) THEN \E p : BatchPlaces(m) = {p} ELSE BatchPlaces(m) = {}
<1>1. CASE InBatch(m)
  <2>1. PICK k \in TableKeys : m \in ToSet(agg[k].msgs)
    BY <1>1 DEF InBatch
  <2>2. \A l \in TableKeys : l # k => Positions(m, agg[l].msgs) = {}
    BY <2>1, BatchOfOneTable, NoPosition
  <2>3. agg[k].msgs \in Seq(Messages) /\ Distinct(agg[k].msgs)
    BY RecordsAreTyped DEF LocalInv, GoodBatch
  <2>4. PICK i : Positions(m, agg[k].msgs) = {i}
    BY <2>1, <2>3, OnePosition
  <2>5. BatchPlaces(m) = {<<k, i>>}
    BY <2>2, <2>4 DEF BatchPlaces
  <2> QED BY <1>1, <2>5
<1>2. CASE ~InBatch(m)
  <2>1. \A k \in TableKeys : Positions(m, agg[k].msgs) = {}
    BY <1>2, NoPosition DEF InBatch
  <2>2. BatchPlaces(m) = {}
    BY <2>1 DEF BatchPlaces
  <2> QED BY <1>2, <2>2
<1> QED BY <1>1, <1>2

LEMMA HandPlacesAreOne ==
  ASSUME LocalInv, OneHand, NEW m \in Messages
  PROVE  IF InHand(m) THEN \E p : HandPlaces(m) = {p} ELSE HandPlaces(m) = {}
<1>1. CASE InHand(m)
  <2>1. PICK t \in Threads : \E b \in thread[t].hand : m \in ToSet(b)
    BY <1>1 DEF InHand
  <2>2. PICK b \in thread[t].hand : m \in ToSet(b)
    BY <2>1
  <2>3. \A u \in Threads : \A c \in thread[u].hand : ~(u = t /\ c = b) => Positions(m, c) = {}
    BY <2>2, NoPosition DEF OneHand
  <2>4. b \in Seq(Messages) /\ Distinct(b)
    BY RecordsAreTyped DEF LocalInv, GoodThread
  <2>5. PICK i : Positions(m, b) = {i}
    BY <2>2, <2>4, OnePosition
  <2>6. HandPlacesOf(t, m) = {<<<<t, b>>, i>>}
    BY <2>3, <2>5 DEF HandPlacesOf
  <2>7. \A u \in Threads : u # t => HandPlacesOf(u, m) = {}
    BY <2>3 DEF HandPlacesOf
  <2>8. HandPlaces(m) = {<<<<t, b>>, i>>}
    BY <2>6, <2>7 DEF HandPlaces
  <2> QED BY <1>1, <2>8
<1>2. CASE ~InHand(m)
  <2>1. \A t \in Threads : \A b \in thread[t].hand : Positions(m, b) = {}
    BY <1>2, NoPosition DEF InHand
  <2>2. \A t \in Threads : HandPlacesOf(t, m) = {}
    BY <2>1 DEF HandPlacesOf
  <2>3. HandPlaces(m) = {}
    BY <2>2 DEF HandPlaces
  <2> QED BY <1>2, <2>3
<1> QED BY <1>1, <1>2

LEMMA PlacesAreOne ==
  ASSUME LocalInv, PlacesInv
  PROVE  InOnePlace
<1>1. ASSUME NEW m \in Messages
      PROVE  IF m \in Accepted THEN \E p \in PlacesOf(m) : PlacesOf(m) = {p} ELSE PlacesOf(m) = {}
  <2>1. /\ IF InBatch(m) THEN \E p : BatchPlaces(m) = {p} ELSE BatchPlaces(m) = {}
        /\ IF InHand(m) THEN \E p : HandPlaces(m) = {p} ELSE HandPlaces(m) = {}
    BY BatchPlacesAreOne, HandPlacesAreOne DEF PlacesInv
  <2>2. /\ InBatch(m) => ~InHand(m) /\ ~Elsewhere(m)
        /\ InHand(m) => ~Elsewhere(m)
        /\ m \in Accepted <=> InBatch(m) \/ InHand(m) \/ Elsewhere(m)
    BY DEF PlacesInv, OneKindOfPlace, Accepted
  <2>3. ~Elsewhere(m) => {m} \cap processed = {} /\ WaysLost(m) = {}
    BY DEF Elsewhere, WaysLost
  <2>4. CASE InBatch(m)
    <3>1. PICK p : BatchPlaces(m) = {p}
      BY <2>1, <2>4
    <3>2. PlacesOf(m) = {<<"batch", p>>}
      BY <2>1, <2>2, <2>3, <2>4, <3>1, PlacesAreThese
    <3> QED BY <2>2, <2>4, <3>2
  <2>5. CASE InHand(m)
    <3>1. PICK p : HandPlaces(m) = {p}
      BY <2>1, <2>5
    <3>2. PlacesOf(m) = {<<"hand", p>>}
      BY <2>1, <2>2, <2>3, <2>5, <3>1, PlacesAreThese
    <3> QED BY <2>2, <2>5, <3>2
  <2>6. CASE Elsewhere(m)
    <3>1. BatchPlaces(m) = {} /\ HandPlaces(m) = {}
      BY <2>1, <2>2, <2>6
    <3>2. CASE m \in processed
      <4>1. WaysLost(m) = {} /\ {m} \cap processed = {m}
        BY <3>2 DEF PlacesInv, OneEnd, WaysLost
      <4>2. PlacesOf(m) = {<<"processed", m>>}
        BY <3>1, <4>1, PlacesAreThese
      <4> QED BY <2>2, <2>6, <4>2
    <3>3. CASE m \notin processed
      <4>1. PICK w \in Ways : m \in lost[w]
        BY <2>6, <3>3 DEF Elsewhere
      <4>2. WaysLost(m) = {w} /\ {m} \cap processed = {}
        BY <3>3, <4>1 DEF PlacesInv, OneEnd, WaysLost
      <4>3. PlacesOf(m) = {<<"lost", w>>}
        BY <3>1, <4>2, PlacesAreThese
      <4> QED BY <2>2, <2>6, <4>3
    <3> QED BY <3>2, <3>3
  <2>7. CASE ~InBatch(m) /\ ~InHand(m) /\ ~Elsewhere(m)
    <3>1. PlacesOf(m) = {}
      BY <2>1, <2>3, <2>7, PlacesAreThese
    <3> QED BY <2>2, <2>7, <3>1
  <2> QED BY <2>4, <2>5, <2>6, <2>7
<1>2. \A k \in TableKeys : \A m \in ToSet(agg[k].msgs) : Slot(m) = k
  BY DEF LocalInv, GoodBatch
<1> QED BY <1>1, <1>2 DEF InOnePlace

(* An accepted message is in exactly one place, the batch of its own       *)
(* table, the hands of one thread, the processor's or one of the ways of   *)
(* losing it; a batch that is taken did not grow once it was full; and an  *)
(* open batch has a timer to look at it, or one that found it empty        *)
(* (AddMessage, flushBatch, checkExpiredBatch, GetBatch, ForceBatch, Close *)
(* of DefaultBatchAggregator and MultiBatchAggregator; the loops of        *)
(* BatchManager).                                                          *)
THEOREM BatchSafety == AggregatorSpec => []BatchesKeepMessages
<1>1. AggregatorInit => LocalInv /\ PlacesInv
  BY AggregatorStarts
<1>2. LocalInv /\ PlacesInv /\ [AggregatorNext]_aggregatorVars => LocalInv' /\ PlacesInv'
  BY AggregatorStepKeepsAll, AggregatorStays
<1>3. LocalInv /\ PlacesInv => BatchesKeepMessages
  <2> SUFFICES ASSUME LocalInv, PlacesInv PROVE BatchesKeepMessages
    OBVIOUS
  <2>1. SealedWhenFull
    BY DEF LocalInv, GoodThread, SealedWhenFull, Hands, Sealed
  <2>2. WatchedUntilReady
    BY DEF LocalInv, GoodBatch, WatchedUntilReady
  <2> QED BY <2>1, <2>2, PlacesAreOne DEF LocalInv, BatchesKeepMessages
<1> QED BY <1>1, <1>2, <1>3, PTL DEF AggregatorSpec

=============================================================================
