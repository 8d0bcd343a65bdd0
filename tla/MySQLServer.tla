----------------------------- MODULE MySQLServer -----------------------------
(***************************************************************************)
(* internal/interfaces/mysql/server/server.go: the accept loop, the        *)
(* connections with their handlers and prepared statements, Start and      *)
(* Stop.                                                                   *)
(*                                                                         *)
(* Threads: the accept loop, one handler per connection, the caller of     *)
(* Start and Stop, the clients.  The counter, the map of connections and   *)
(* the goroutine of a connection are set one after the other.              *)
(*                                                                         *)
(* Abstracted: a command is one of those that change the session; a query  *)
(* is answered, answered by an error, or ends the connection.  Handlers    *)
(* that panic are left out, and Stop called twice at once (close of a      *)
(* closed channel).                                                        *)
(***************************************************************************)
EXTENDS Integers, FiniteSets

CONSTANTS
  Clients,         \* connections, each made once
  Queries,         \* statements that are prepared
  MaxConnections,  \* 0: no limit
  HasDeadline,     \* CommandTimeout or ConnectionTimeout > 0
  MaxPrepares      \* bound: COM_STMT_PREPARE per connection

ASSUME ServerAssumption ==
  /\ IsFiniteSet(Clients) /\ MaxConnections \in Nat /\ HasDeadline \in BOOLEAN
  /\ MaxPrepares \in Nat

VARIABLES
  up,            \* running
  stopped,       \* stopChan is closed (it is never made again)
  stopCall,      \* Stop: "no", "closing", "waiting"
  acceptor,      \* the accept loop: "off", "limit", "accept", "count", "store"
  arriving,      \* the connection in its hands
  dialled,       \* connections a client has asked for
  count,         \* activeConnections
  connections,   \* the map of connections
  handler,       \* per connection: "none", "auth", "read", "execute", "closed", "removed"
  socketClosed,  \* connections whose socket the server closed
  left,          \* connections whose client went away
  prepared,      \* stmtPrepareData: per connection and ID the query, or "none"
  handles,       \* history: the client's open statements, <<ID, query>>
  prepares,      \* COM_STMT_PREPARE per connection
  closedOne,     \* history: connections that closed a statement
  missed         \* history: connections stored after closeAllConnections

lifeVars    == <<up, stopped, stopCall>>
acceptVars  == <<acceptor, arriving, dialled, count, connections, missed>>
sessionVars == <<prepared, handles, prepares, closedOne>>
socketVars  == <<handler, socketClosed, left>>
serverVars  == <<lifeVars, acceptVars, sessionVars, socketVars>>

None == "none"
IDs  == 1..MaxPrepares

ASSUME StatementAssumption == None \notin Queries

-----------------------------------------------------------------------------
(* Start, Stop and the accept loop.                                        *)

StartServer ==
  /\ ~up /\ stopCall = "no" /\ acceptor = "off"
  /\ up' = TRUE /\ acceptor' = "limit"
  /\ UNCHANGED <<stopped, stopCall, arriving, dialled, count, connections, missed, sessionVars, socketVars>>

\* The channel and the listener are closed; the connections follow.
StopServer ==
  /\ up /\ stopCall = "no" /\ ~stopped
  /\ stopped' = TRUE /\ stopCall' = "closing"
  /\ UNCHANGED <<up, acceptVars, sessionVars, socketVars>>

closeAllConnections ==
  /\ stopCall = "closing"
  /\ stopCall' = "waiting" /\ socketClosed' = socketClosed \cup connections
  /\ UNCHANGED <<up, stopped, acceptVars, sessionVars, handler, left>>

\* wg.Wait: the accept loop and every handler are over.
Finished == acceptor = "off" /\ \A c \in Clients : handler[c] \in {None, "removed"}

StopReturns ==
  /\ stopCall = "waiting" /\ Finished
  /\ stopCall' = "no" /\ up' = FALSE
  /\ UNCHANGED <<stopped, acceptVars, sessionVars, socketVars>>

Dial(c) ==
  /\ dialled' = dialled \cup {c} /\ c \notin dialled /\ up /\ ~stopped
  /\ UNCHANGED <<lifeVars, acceptor, arriving, count, connections, missed, sessionVars, socketVars>>

\* Mutant: the limit is passed by one.
PastLimit == MaxConnections > 0 /\ count > MaxConnections

\* A closed listener gives an error, and the loop finds the channel closed.
AtLimit == MaxConnections > 0 /\ count >= MaxConnections

CheckLimit ==
  /\ acceptor = "limit" /\ (stopped \/ ~AtLimit)
  /\ acceptor' = IF stopped THEN "off" ELSE "accept"
  /\ UNCHANGED <<lifeVars, arriving, dialled, count, connections, missed, sessionVars, socketVars>>

Accept ==
  /\ acceptor = "accept" /\ ~stopped
  /\ \E c \in dialled : handler[c] = None /\ c # arriving /\ arriving' = c
  /\ acceptor' = "count"
  /\ UNCHANGED <<lifeVars, dialled, count, connections, missed, sessionVars, socketVars>>

\* The deadline of the listener, or its end.
AcceptNothing ==
  /\ acceptor = "accept" /\ acceptor' = "limit"
  /\ UNCHANGED <<lifeVars, arriving, dialled, count, connections, missed, sessionVars, socketVars>>

Count ==
  /\ acceptor = "count"
  /\ acceptor' = "store" /\ count' = count + 1
  /\ UNCHANGED <<lifeVars, arriving, dialled, connections, missed, sessionVars, socketVars>>

\* The connection is stored, and its goroutine begins.
Store ==
  /\ acceptor = "store"
  /\ acceptor' = "limit" /\ arriving' = None
  /\ connections' = connections \cup {arriving}
  /\ handler' = [handler EXCEPT ![arriving] = "auth"]
  /\ missed' = IF stopCall = "waiting" THEN missed \cup {arriving} ELSE missed
  /\ UNCHANGED <<lifeVars, dialled, count, sessionVars, socketClosed, left>>

-----------------------------------------------------------------------------
(* A connection.                                                           *)

Goes(c, p) == handler' = [handler EXCEPT ![c] = p]

\* sendHandshake and handleAuth: the client answers, and may be refused.
Authenticate(c) ==
  /\ handler[c] = "auth" /\ c \notin socketClosed \cup left
  /\ \E next \in {"read", "closed"} : Goes(c, next)
  /\ UNCHANGED <<lifeVars, acceptVars, sessionVars, socketClosed, left>>

\* COM_QUERY and the commands that leave the session as it is, until they are
\* answered; then one that ends it: COM_QUIT.
Command(c) ==
  /\ handler[c] = "read" /\ c \notin socketClosed \cup left
  /\ Goes(c, "execute")
  /\ UNCHANGED <<lifeVars, acceptVars, sessionVars, socketClosed, left>>

Answer(c) ==
  /\ handler[c] = "execute" /\ Goes(c, "read")
  /\ UNCHANGED <<lifeVars, acceptVars, sessionVars, socketClosed, left>>

Quit(c) ==
  /\ handler[c] = "read" /\ Goes(c, "closed")
  /\ left' = left \cup {c}
  /\ UNCHANGED <<lifeVars, acceptVars, sessionVars, socketClosed>>

\* Mutant: a socket that the server closed is read on.
ReadFailsDeaf(c) ==
  /\ handler[c] \in {"auth", "read"} /\ (c \in left \/ HasDeadline)
  /\ Goes(c, "closed")
  /\ UNCHANGED <<lifeVars, acceptVars, sessionVars, socketClosed, left>>

\* A read fails: the socket is closed, or its deadline has passed.
ReadFails(c) ==
  /\ handler[c] \in {"auth", "read"} /\ (c \in socketClosed \cup left \/ HasDeadline)
  /\ Goes(c, "closed")
  /\ UNCHANGED <<lifeVars, acceptVars, sessionVars, socketClosed, left>>

HangUp(c) ==
  /\ handler[c] \in {"auth", "read", "execute"} /\ c \notin left
  /\ left' = left \cup {c}
  /\ UNCHANGED <<lifeVars, acceptVars, sessionVars, handler, socketClosed>>

\* The session of a closed connection is dropped with it.
removeConnection(c) ==
  /\ handler[c] = "closed" /\ Goes(c, "removed")
  /\ connections' = connections \ {c} /\ count' = count - 1
  /\ socketClosed' = socketClosed \cup {c}
  /\ prepared' = [prepared EXCEPT ![c] = [i \in IDs |-> None]]
  /\ handles' = [handles EXCEPT ![c] = {}]
  /\ UNCHANGED <<lifeVars, acceptor, arriving, dialled, missed, prepares, closedOne, left>>

-----------------------------------------------------------------------------
(* Prepared statements.                                                    *)

Serving(c) == handler[c] = "read" /\ c \notin socketClosed \cup left
Held(c)    == {i \in IDs : prepared[c][i] # None}

\* The ID is the number of statements there are, and one: it may be taken.
handleStmtPrepare(c) == \E q \in Queries :
  LET id == Cardinality(Held(c)) + 1
  IN /\ Serving(c) /\ prepares[c] < MaxPrepares
     /\ prepares' = [prepares EXCEPT ![c] = @ + 1]
     /\ prepared' = [prepared EXCEPT ![c][id] = q]
     /\ handles' = [handles EXCEPT ![c] = @ \cup {<<id, q>>}]
     /\ UNCHANGED <<lifeVars, acceptVars, socketVars, closedOne>>

handleStmtClose(c) == \E h \in handles[c] :
  /\ Serving(c)
  /\ prepared' = [prepared EXCEPT ![c][h[1]] = None]
  /\ handles' = [handles EXCEPT ![c] = @ \ {h}]
  /\ closedOne' = closedOne \cup {c}
  /\ UNCHANGED <<lifeVars, acceptVars, socketVars, prepares>>

\* Mutant: the reset closes the statement.
handleStmtResetCloses(c) == \E h \in handles[c] :
  /\ Serving(c)
  /\ prepared' = [prepared EXCEPT ![c][h[1]] = None]
  /\ UNCHANGED <<lifeVars, acceptVars, socketVars, handles, prepares, closedOne>>

\* COM_STMT_RESET leaves the statement as it is.
handleStmtReset(c) == \E h \in handles[c] :
  /\ Serving(c) /\ UNCHANGED serverVars

-----------------------------------------------------------------------------
ServerInit ==
  /\ up = FALSE /\ stopped = FALSE /\ stopCall = "no"
  /\ acceptor = "off" /\ arriving = None /\ dialled = {} /\ count = 0 /\ connections = {} /\ missed = {}
  /\ handler = [c \in Clients |-> None] /\ socketClosed = {} /\ left = {}
  /\ prepared = [c \in Clients |-> [i \in IDs |-> None]] /\ handles = [c \in Clients |-> {}]
  /\ prepares = [c \in Clients |-> 0] /\ closedOne = {}

Accepting == CheckLimit \/ Accept \/ AcceptNothing \/ Count \/ Store
Handling(c) == Answer(c) \/ ReadFails(c) \/ removeConnection(c)
Talking(c) ==
  \/ Dial(c) \/ Authenticate(c) \/ Command(c) \/ Quit(c) \/ HangUp(c)
  \/ handleStmtPrepare(c) \/ handleStmtClose(c) \/ handleStmtReset(c)

ServerNext ==
  \/ StartServer \/ StopServer \/ closeAllConnections \/ StopReturns \/ Accepting
  \/ \E c \in Clients : Handling(c) \/ Talking(c)

\* Goroutines run, and a query has a timeout.  Nothing is asked of the clients.
ServerFairness ==
  /\ WF_serverVars(closeAllConnections \/ StopReturns)
  /\ WF_serverVars(Accepting)
  /\ \A c \in Clients : WF_serverVars(Handling(c))

-----------------------------------------------------------------------------
ServerTypeOK ==
  /\ up \in BOOLEAN /\ stopped \in BOOLEAN /\ stopCall \in {"no", "closing", "waiting"}
  /\ acceptor \in {"off", "limit", "accept", "count", "store"} /\ arriving \in Clients \cup {None}
  /\ dialled \subseteq Clients /\ connections \subseteq Clients /\ missed \subseteq Clients
  /\ count \in 0..Cardinality(Clients)
  /\ handler \in [Clients -> {None, "auth", "read", "execute", "closed", "removed"}]
  /\ socketClosed \subseteq Clients /\ left \subseteq Clients /\ closedOne \subseteq Clients
  /\ prepared \in [Clients -> [IDs -> Queries \cup {None}]]
  /\ handles \in [Clients -> SUBSET (IDs \X Queries)] /\ prepares \in [Clients -> 0..MaxPrepares]

\* The counter that the limit is tested against covers the connections whose
\* handler runs, though counter, map and goroutine are set apart, and it stays
\* within the limit.
CountCoversHandlers ==
  /\ Cardinality({c \in Clients : handler[c] \notin {None, "removed"}}) <= count
  /\ MaxConnections > 0 => count <= MaxConnections

\* An ID that a client holds stands for the statement it was given for, on a
\* connection that has not yet closed a statement: an ID is the number of
\* statements and one, which after a close may be that of another statement.
HandlesDenote ==
  \A c \in Clients \ closedOne : \A h \in handles[c] : prepared[c][h[1]] = h[2]

\* Stop returns, unless a connection was stored after closeAllConnections went
\* through the map: nobody closes its socket, and without a deadline its
\* handler reads until the client goes away.
ServerStopping == stopCall # "no" /\ (HasDeadline \/ \A c \in missed : handler[c] \notin {"auth", "read"})
=============================================================================
