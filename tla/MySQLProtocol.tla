--------------------------- MODULE MySQLProtocol ---------------------------
(***************************************************************************)
(* One connection of the MySQL front end as protocol.go                    *)
(* (interfaces/mysql/protocol) reads and writes it: packets with their     *)
(* sequence numbers, the commands of CommandHandler and their answers, and *)
(* the layout of statement parameters and binary rows.  The client is      *)
(* external and follows the MySQL protocol.                                *)
(*                                                                         *)
(* A packet is its size and its number.  The chunk (0xffffff bytes) and the*)
(* range of the numbers (256) are scaled down; a message is its kind and   *)
(* its size.                                                               *)
(***************************************************************************)
EXTENDS Integers, Sequences, FiniteSets, SequencesExt

CONSTANTS
    Chunk,         \* the payload of a full packet
    Numbers,       \* sequence numbers count modulo Numbers
    MaxSize,       \* the size of a message, at most
    MaxStatements, \* statements prepared on the connection, at most
    MaxParameters  \* parameters of one execution, at most

ASSUME ProtocolAssumption ==
    Chunk \in Nat /\ Chunk > 1 /\ Numbers \in Nat /\ Numbers > 1 /\ MaxSize \in Nat /\ MaxStatements \in Nat

VARIABLES
    toServer, toClient, \* the packets under way
    sequence,      \* p.sequence
    server,        \* "greeting", "authenticating", "verifying", "reading", "handling" or "closed"
    received,      \* the bytes readPacket has put together so far
    command,       \* the command under way
    reply,         \* the messages of the server's answer to it
    client,        \* [at, number, read: the messages of the answer so far, size: of the next,
                   \*  status: the last one it was told]
    aligned,       \* some message was a positive multiple of Chunk long
    currentDB, serverStatus, preparedStmts, nextStmtID, \* the CommandHandler's fields
    parameters     \* the parameters of the last execution, as the client sent them

wireVars == <<toServer, toClient, sequence, server, received, command, reply, client, aligned>>
sessionVars == <<currentDB, serverStatus, preparedStmts, nextStmtID, parameters>>
protocolVars == <<wireVars, sessionVars>>

Next1(n) == (n + 1) % Numbers
Repeat(n, x) == [i \in 1..n |-> x]
Total(numbers) == FoldLeft(LAMBDA acc, x : acc + x, 0, numbers)

-----------------------------------------------------------------------------
(***************************************************************************)
(* Length-encoded integers.                                                *)
(***************************************************************************)
LittleEndian(value, n) == [i \in 1..n |-> (value \div (256^(i - 1))) % 256]

\* The limit of one-byte integers off by one: 251 is the mark of NULL.
writeLengthEncodedIntegerNull(value) ==
    IF value <= 251 THEN <<value>>
    ELSE IF value < 65536 THEN <<252>> \o LittleEndian(value, 2)
    ELSE IF value < 16777216 THEN <<253>> \o LittleEndian(value, 3)
    ELSE <<254>> \o LittleEndian(value, 4) \o <<0, 0, 0, 0>>

writeLengthEncodedInteger(value) ==
    IF value < 251 THEN <<value>>
    ELSE IF value < 65536 THEN <<252>> \o LittleEndian(value, 2)
    ELSE IF value < 16777216 THEN <<253>> \o LittleEndian(value, 3)
    ELSE <<254>> \o LittleEndian(value, 4) \o <<0, 0, 0, 0>>

Number(bytes) == Total([i \in 1..Len(bytes) |-> bytes[i] * 256^(i - 1)])

\* The value and the bytes it takes; eight-byte values above 2^31 are left out.
readLengthEncodedInteger(data) ==
    CASE data[1] = 251 -> <<0, 1>>
      [] data[1] = 252 -> <<Number(SubSeq(data, 2, 3)), 3>>
      [] data[1] = 253 -> <<Number(SubSeq(data, 2, 4)), 4>>
      [] data[1] = 254 -> <<Number(SubSeq(data, 2, 5)), 9>>
      [] OTHER -> <<data[1], 1>>

-----------------------------------------------------------------------------
(***************************************************************************)
(* The bytes of a value: as the client lays it out and declares it, as     *)
(* ReadExecuteParameters steps over it, as WriteBinaryRow writes it.       *)
(***************************************************************************)
FixedSize == [tiny |-> 1, short |-> 2, long |-> 4, longlong |-> 8, float |-> 4, double |-> 8]

Values == [type : DOMAIN FixedSize, length : {0}] \cup [type : {"string"}, length : {0, 3}]
            \cup [type : {"date"}, length : {0, 4, 7, 11}] \cup [type : {"time"}, length : {0, 8, 12}]
            \cup [type : {"NULL"}, length : {0}]

\* The names that a name contains, besides itself.
Contained(name) ==
    CASE name \in {"TINYINT", "SMALLINT", "BIGINT"} -> {"INT"}
      [] name = "DATETIME" -> {"DATE", "TIME"}
      [] name = "TIMESTAMP" -> {"TIME"}
      [] name = "VARCHAR" -> {"CHAR"}
      [] OTHER -> {}

\* The names convertToMySQLType looks for, in its order; names tested together have one type.
Tests == <<{"TINYINT", "BOOLEAN"}, {"SMALLINT"}, {"INT"}, {"BIGINT"}, {"FLOAT"}, {"DOUBLE"}, {"DECIMAL"},
           {"DATE"}, {"DATETIME"}, {"TIMESTAMP"}, {"TIME"}, {"YEAR"}, {"CHAR", "VARCHAR"},
           {"TEXT", "BLOB"}, {"JSON"}, {"ENUM"}, {"SET"}>>

Found(test, name) == test \cap ({name} \cup Contained(name)) # {}

convertToMySQLType(name) ==
    Tests[CHOOSE i \in DOMAIN Tests : Found(Tests[i], name) /\ \A j \in 1..(i - 1) : ~Found(Tests[j], name)]

SizeSent(v) == CASE v.type = "NULL" -> 0
                 [] v.type \in DOMAIN FixedSize -> FixedSize[v.type]
                 [] OTHER -> 1 + v.length

\* The length byte of a date left out of the step.
SizeReadShort(v) == IF v.type \in {"date", "time"} THEN v.length ELSE SizeSent(v)

\* The sign of a time is stepped over before its declared length is.
SizeRead(v) == IF v.type = "time" /\ v.length > 0 THEN 1 + 1 + v.length ELSE SizeSent(v)

\* WriteBinaryRow encodes column i by paramTypes[i], the columns beyond by their Go types, of
\* which the times are dates.  The types it was announced with do not come into it.
EncodedAs(values, paramTypes, i) ==
    IF i <= Len(paramTypes) THEN paramTypes[i]
    ELSE IF values[i].type = "time" THEN "date" ELSE values[i].type

\* What becomes of a value of another type: a short text, or the present time.
Rendered == [string |-> 2, date |-> 7, time |-> 7]

\* The hours of a time go where the days belong, and the byte of the hours is missing.
SizeWritten(v, type) ==
    CASE v.type = "NULL" -> 0
      [] v.type # "NULL" /\ type \in DOMAIN FixedSize -> FixedSize[type]
      [] v.type # "NULL" /\ type = v.type /\ type \notin DOMAIN FixedSize ->
            IF type = "time" /\ v.length > 0 THEN 1 + (v.length - 1) ELSE 1 + v.length
      [] OTHER -> 1 + Rendered[type]

Offset(Size(_), values, i) == Total([j \in 1..(i - 1) |-> Size(values[j])])

ReadFrom(values, i) == Offset(SizeRead, values, i)

WrittenAt(values, paramTypes, i) ==
    Total([j \in 1..(i - 1) |-> SizeWritten(values[j], EncodedAs(values, paramTypes, j))])

-----------------------------------------------------------------------------
Commands == {"quit", "init_db", "query", "use", "begin", "commit", "rollback", "autocommit_on",
             "autocommit_off", "set_names", "show_variables", "show_databases", "show_tables", "ping",
             "prepare", "execute", "close", "reset", "field_list", "set_option", "other"}

(***************************************************************************)
(* Packets.  The client splits a message by the protocol: a message whose  *)
(* size is a multiple of Chunk ends in an empty packet.  writePacket sends *)
(* no such packet.                                                         *)
(***************************************************************************)
Aligned(size) == size > 0 /\ size % Chunk = 0

\* The packets of a message, of which the last one tells the status.
Numbered(sizes, first, m) ==
    [i \in 1..Len(sizes) |-> [size |-> sizes[i], number |-> (first + i - 1) % Numbers,
                              kind |-> m.kind, status |-> m.status]]

Split(size) == Repeat(size \div Chunk, Chunk) \o <<size % Chunk>>

\* The loop left as soon as a full packet is out: the rest of the message is lost.
writePacketFirst(size) == IF size >= Chunk THEN <<Chunk>> ELSE <<size>>

writePacket(size) ==
    Repeat(size \div Chunk, Chunk) \o (IF Aligned(size) THEN <<>> ELSE <<size % Chunk>>)

\* One message behind those that are on the wire, and the sequence number that follows it.
WriteMessage(wire, m) ==
    LET sizes == writePacket(m.size)
    IN  [packets |-> wire.packets \o Numbered(sizes, wire.sequence, m),
         sequence |-> (wire.sequence + Len(sizes)) % Numbers]

WriteAll(messages) == FoldLeft(WriteMessage, [packets |-> <<>>, sequence |-> sequence], messages)

\* A conversation is followed to the end of its first aligned message.
ClientSends ==
    /\ client.at = "idle" /\ ~aligned /\ server = "reading" /\ toServer = <<>>
    /\ \E size \in 1..MaxSize, name \in Commands, stmt \in 0..MaxStatements :
          /\ name \in {"execute", "close", "reset"} \/ stmt = 0
          /\ name = "query" \/ size = 1
          /\ name = "prepare" => nextStmtID < MaxStatements
          /\ command' = [name |-> name, stmt |-> stmt]
          /\ toServer' = Numbered(Split(size), 0, [kind |-> name, status |-> {}])
          /\ client' = [client EXCEPT !.at = "reading", !.number = Len(Split(size)) % Numbers]
          /\ aligned' = (aligned \/ Aligned(size))
    /\ sequence' = 0 /\ received' = 0 /\ reply' = <<>>       \* ReadCommandPacket resets the sequence
    /\ UNCHANGED <<toClient, server>> /\ UNCHANGED sessionVars

\* readPacket: an empty packet is returned before its number is looked at.
ReadPacket ==
    /\ server \in {"authenticating", "reading"} /\ toServer # <<>>
    /\ toServer' = Tail(toServer)
    /\ LET p == Head(toServer)
           complete == IF server = "reading" THEN "handling" ELSE "verifying"
       IN
       \/ /\ p.size = 0
          /\ server' = IF received = 0 THEN "closed" ELSE complete
          /\ UNCHANGED <<sequence, received>>
       \/ /\ p.size > 0
          /\ IF p.number = sequence
             THEN /\ sequence' = Next1(sequence) /\ received' = received + p.size
                  /\ server' = IF p.size = Chunk THEN server ELSE complete
             ELSE server' = "closed" /\ UNCHANGED <<sequence, received>>
    /\ UNCHANGED <<toClient, command, reply, client, aligned>> /\ UNCHANGED sessionVars

-----------------------------------------------------------------------------
(***************************************************************************)
(* Messages.  Only OK and EOF tell a status; "size" is the size of a row.  *)
(***************************************************************************)
Message(kind, size) == [kind |-> kind, size |-> size, status |-> {}]
WriteOK(status) == <<[Message("ok", 1) EXCEPT !.status = status]>>
WriteEOF(status) == <<[Message("eof", 1) EXCEPT !.status = status]>>
WriteError == <<Message("error", 1)>>
WriteResultSetHeader == <<Message("header", 1)>>
WriteColumnDefinition == Message("field", 1)
WriteTextRow(size) == Message("row", size)
WriteBinaryRow(size) == Message("row", size)
WritePrepareOK == <<Message("prepare_ok", 1)>>

\* Both kinds of result end with the status 0, whatever the session's is.
WriteQueryResult(columns, rows, size) ==
    WriteResultSetHeader \o Repeat(columns, WriteColumnDefinition) \o WriteEOF({})
        \o Repeat(rows, WriteTextRow(size)) \o WriteEOF({})

\* The size of a binary row is that of WrittenAt, any among those tried: paramTypes changes
\* what a row holds and not the messages of the answer.
WritePreparedResult(columns, rows, size) ==
    WriteResultSetHeader \o Repeat(columns, WriteColumnDefinition) \o WriteEOF({})
        \o Repeat(rows, WriteBinaryRow(size)) \o WriteEOF({})

-----------------------------------------------------------------------------
(***************************************************************************)
(* The handlers of a session s: [db, status, stmts, next].  Each gives the *)
(* session afterwards and the messages written.  The client keeps to the   *)
(* layout of the commands: no packet is malformed.                         *)
(***************************************************************************)
Handled(s, messages) == [session |-> s, messages |-> messages]

handleInitDB(s) == Handled([s EXCEPT !.db = TRUE], WriteOK(s.status))

SetServerStatus(s, status) == Handled([s EXCEPT !.status = status], WriteOK(status))

handleSetCommand(s, on) ==
    SetServerStatus(s, IF on THEN s.status \cup {"autocommit"} ELSE s.status \ {"autocommit"})

\* A LIKE may match any number of the variables.
handleShowVariables(s, rows) == Handled(s, WriteQueryResult(2, rows, 1))

handleShowDatabases(s) == Handled(s, WriteQueryResult(1, 4, 1))

handleShowTables(s) == Handled(s, IF s.db THEN WriteQueryResult(1, 4, 1) ELSE WriteError)

handleSpecialCommand(s, name, rows) ==
    CASE name = "set_names" -> Handled(s, WriteOK(s.status))
      [] name = "autocommit_on" -> handleSetCommand(s, TRUE)
      [] name = "autocommit_off" -> handleSetCommand(s, FALSE)
      [] name = "begin" -> SetServerStatus(s, s.status \cup {"in_transaction"})
      [] name \in {"commit", "rollback"} -> SetServerStatus(s, s.status \ {"in_transaction"})
      [] name = "show_variables" -> handleShowVariables(s, rows)
      [] name = "show_databases" -> handleShowDatabases(s)
      [] name = "show_tables" -> handleShowTables(s)
      [] name = "use" -> handleInitDB(s)

handleQuery(s, size) == Handled(s, WriteQueryResult(3, 3, size))

\* Two parameters and three columns, whatever the statement.
handleStmtPrepare(s) ==
    Handled([s EXCEPT !.stmts = @ \cup {s.next}, !.next = @ + 1],
            WritePrepareOK \o Repeat(2, WriteColumnDefinition) \o WriteEOF(s.status)
                \o Repeat(3, WriteColumnDefinition) \o WriteEOF(s.status))

\* The types of the statement's parameters are given as those of the result's columns: what
\* RowsInPlace assumes of the types does not hold of this result.
handleStmtExecute(s, stmt, size) ==
    Handled(s, IF stmt \in s.stmts THEN WritePreparedResult(3, 2, size) ELSE WriteError)

handleStmtClose(s, stmt) == Handled([s EXCEPT !.stmts = @ \ {stmt}], <<>>)

handleStmtReset(s, stmt) == Handled(s, IF stmt \in s.stmts THEN WriteOK(s.status) ELSE WriteError)

handleFieldList(s) == Handled(s, Repeat(3, WriteColumnDefinition) \o WriteEOF(s.status))

handleSetOption(s) == Handled(s, WriteOK(s.status))

Handle(c, s, size) ==
    CASE c.name = "init_db" -> handleInitDB(s)
      [] c.name = "query" -> handleQuery(s, size)
      [] c.name = "ping" -> Handled(s, WriteOK(s.status))
      [] c.name = "prepare" -> handleStmtPrepare(s)
      [] c.name = "execute" -> handleStmtExecute(s, c.stmt, size)
      [] c.name = "close" -> handleStmtClose(s, c.stmt)
      [] c.name = "reset" -> handleStmtReset(s, c.stmt)
      [] c.name = "field_list" -> handleFieldList(s)
      [] c.name = "set_option" -> handleSetOption(s)
      [] c.name = "other" -> Handled(s, WriteError)
      [] OTHER -> handleSpecialCommand(s, c.name, size - 1)

Session == [db |-> currentDB, status |-> serverStatus, stmts |-> preparedStmts, next |-> nextStmtID]

\* The effect of a command on the session, its answer, and the wait for the next.
HandleCommand ==
    /\ server = "handling"
    /\ \E size \in IF command.name \in {"query", "execute", "show_variables"} THEN 1..MaxSize ELSE {1} :
          IF command.name = "quit"
          THEN /\ server' = "closed"
               /\ UNCHANGED <<toClient, sequence, reply, aligned>> /\ UNCHANGED sessionVars
          ELSE LET h == Handle(command, Session, size)
                   w == WriteAll(h.messages)
               IN  /\ reply' = h.messages
                   /\ toClient' = toClient \o w.packets /\ sequence' = w.sequence
                   /\ server' = "reading"
                   /\ aligned' = (aligned \/ \E m \in ToSet(h.messages) : Aligned(m.size))
                   /\ currentDB' = h.session.db /\ serverStatus' = h.session.status
                   /\ preparedStmts' = h.session.stmts /\ nextStmtID' = h.session.next
                   /\ parameters' = <<>>
    /\ UNCHANGED <<toServer, received, command, client>>

-----------------------------------------------------------------------------
(***************************************************************************)
(* The connection phase: the server greets, the client answers with its    *)
(* credentials, the server says whether they will do.                      *)
(***************************************************************************)
InitialStatus == {"autocommit"}

WriteHandshake == <<[Message("handshake", 1) EXCEPT !.status = InitialStatus]>>

SendHandshake ==
    /\ server = "greeting" /\ server' = "authenticating"
    /\ toClient' = Numbered(<<1>>, 0, WriteHandshake[1]) /\ sequence' = 1
    /\ UNCHANGED <<toServer, received, command, reply, client, aligned>> /\ UNCHANGED sessionVars

ClientLogsIn ==
    /\ client.at = "connecting" /\ toClient # <<>>
    /\ toClient' = <<>>
    /\ \E name \in {"log_in_without_password", "log_in", "log_in_wrongly"} :
          /\ command' = [name |-> name, stmt |-> 0]
          /\ toServer' = Numbered(<<1>>, Next1(toClient[1].number), [kind |-> name, status |-> {}])
    /\ client' = [client EXCEPT !.at = "reading", !.number = 2 % Numbers, !.status = toClient[1].status]
    /\ UNCHANGED <<sequence, server, received, reply, aligned>> /\ UNCHANGED sessionVars

\* The fields of the response are found by the client's flags, in the order of the protocol.
ReadHandshakeResponse == [user |-> "user", password |-> command.name # "log_in_without_password",
                          right |-> command.name # "log_in_wrongly"]

\* An empty password will do for any user.
PasswordAccepted(response) == ~response.password \/ response.right

SendAuthResult(success) == IF success THEN WriteOK(InitialStatus) ELSE WriteError

VerifyHandshakeResponse ==
    LET success == PasswordAccepted(ReadHandshakeResponse)
        w == WriteAll(SendAuthResult(success))
    IN  /\ server = "verifying" /\ server' = IF success THEN "reading" ELSE "closed"
        /\ reply' = SendAuthResult(success) /\ toClient' = w.packets /\ sequence' = w.sequence
        /\ UNCHANGED <<toServer, received, command, client, aligned>> /\ UNCHANGED sessionVars

\* The parameters of one execution, which the query and write services are given.
ReadExecuteParameters ==
    /\ server = "handling" /\ command.name = "execute" /\ parameters = <<>>
    /\ \E n \in 1..MaxParameters : parameters' \in [1..n -> Values]
    /\ UNCHANGED wireVars /\ UNCHANGED <<currentDB, serverStatus, preparedStmts, nextStmtID>>

-----------------------------------------------------------------------------
(***************************************************************************)
(* The client: it puts messages together from numbered packets until the   *)
(* answer to its command is complete.                                      *)
(***************************************************************************)
FieldsThenEOF(kinds, n) ==
    n > 0 /\ Len(kinds) = n + 1 /\ (\A i \in 1..n : kinds[i] = "field") /\ kinds[n + 1] = "eof"

ResultSet(kinds) ==
    /\ Len(kinds) >= 3 /\ kinds[1] = "header" /\ Last(kinds) = "eof"
    /\ \E n \in 1..(Len(kinds) - 2) :
          /\ FieldsThenEOF(SubSeq(kinds, 2, n + 2), n)
          /\ n + 2 < Len(kinds)
          /\ \A i \in (n + 3)..(Len(kinds) - 1) : kinds[i] = "row"

MessageKinds(messages) == [i \in 1..Len(messages) |-> messages[i].kind]

Complete(name, kinds) ==
    \/ name \in {"close"} /\ kinds = <<>>
    \/ kinds \in {<<"ok">>, <<"error">>} /\ name # "close"
    \/ name \in {"query", "execute", "show_variables", "show_databases", "show_tables"} /\ ResultSet(kinds)
    \/ name = "field_list" /\ FieldsThenEOF(kinds, Len(kinds) - 1)
    \/ /\ name = "prepare" /\ kinds # <<>> /\ Head(kinds) = "prepare_ok"
       /\ \E p, c \in 1..Len(kinds) : /\ Len(kinds) = p + c + 3
                                      /\ FieldsThenEOF(SubSeq(kinds, 2, p + 2), p)
                                      /\ FieldsThenEOF(SubSeq(kinds, p + 3, p + c + 3), c)

ClientReads ==
    /\ client.at = "reading" /\ toClient # <<>> /\ ~Complete(command.name, MessageKinds(client.read))
    /\ toClient' = Tail(toClient)
    /\ LET p == Head(toClient) IN
       client' = IF p.number # client.number THEN [client EXCEPT !.at = "lost"]
                 ELSE [client EXCEPT !.number = Next1(@),
                          !.read = IF p.size < Chunk
                                   THEN Append(@, [kind |-> p.kind, size |-> client.size + p.size,
                                                   status |-> p.status])
                                   ELSE @,
                          !.status = IF p.kind \in {"ok", "eof"} THEN p.status ELSE @,
                          !.size = IF p.size < Chunk THEN 0 ELSE @ + p.size]
    /\ UNCHANGED <<toServer, sequence, server, received, command, reply, aligned>> /\ UNCHANGED sessionVars

ClientDone ==
    /\ client.at = "reading" /\ Complete(command.name, MessageKinds(client.read)) /\ server # "handling"
    /\ toServer = <<>>
    /\ client' = [client EXCEPT !.at = "idle", !.read = <<>>]
    /\ UNCHANGED <<toServer, toClient, sequence, server, received, command, reply, aligned>>
    /\ UNCHANGED sessionVars

ProtocolInit ==
    /\ toServer = <<>> /\ toClient = <<>> /\ sequence = 0 /\ server = "greeting" /\ received = 0
    /\ command = [name |-> "none", stmt |-> 0] /\ reply = <<>>
    /\ client = [at |-> "connecting", number |-> 0, read |-> <<>>, size |-> 0, status |-> {}]
    /\ aligned = FALSE /\ currentDB = FALSE /\ serverStatus = InitialStatus
    /\ preparedStmts = {} /\ nextStmtID = 0 /\ parameters = <<>>

ProtocolNext == SendHandshake \/ ClientLogsIn \/ VerifyHandshakeResponse \/ ClientSends \/ ReadPacket \/ HandleCommand \/ ReadExecuteParameters
                    \/ ClientReads \/ ClientDone

-----------------------------------------------------------------------------
(* Unless some message was a positive multiple of the chunk long, client   *)
(* and server stay in step: the server never refuses a packet for its      *)
(* number, the client never finds a number it does not expect and reads    *)
(* what the server meant, and when the server waits again and all is read, *)
(* the client has a complete answer by the protocol's grammar; an answer   *)
(* that is no result set leaves the client with the session's status.      *)
InStep ==
    ~aligned =>
        /\ client.at # "lost" /\ IsPrefix(client.read, reply)
        /\ server = "closed" => command.name = "quit" \/ (command.name = "log_in_wrongly" /\ reply = WriteError)
        /\ (client.at = "reading" /\ server = "reading" /\ toServer = <<>> /\ toClient = <<>>) =>
              Complete(command.name, MessageKinds(client.read))
        /\ client.at = "idle" =>
              /\ toClient = <<>>
              /\ reply # <<>> /\ Last(reply).kind \in {"ok", "eof"} /\ ~ResultSet(MessageKinds(reply)) =>
                    client.status = serverStatus

\* A column is announced with its type, unless an earlier test finds a shorter name in it.
NamesInPlace ==
    \A name \in (UNION ToSet(Tests)) \ {"BIGINT", "DATETIME"} : name \in convertToMySQLType(name)

TimesBefore(values, i) == {j \in 1..(i - 1) : values[j].type = "time" /\ values[j].length > 0}

\* A parameter is read where the client has put it, one byte further for every non-zero time before it.
ParametersInPlace ==
    \A i \in 1..Len(parameters) :
        ReadFrom(parameters, i) = Offset(SizeSent, parameters, i) + Cardinality(TimesBefore(parameters, i))

\* A binary row of the same values, encoded by the types of the first k, has each where a client
\* looks that was announced their types, one byte earlier for every non-zero time before it, as
\* long as those before it were encoded as announced.
RowsInPlace ==
    \A k \in 0..Len(parameters), i \in 1..Len(parameters) :
        LET paramTypes == [j \in 1..k |-> parameters[j].type]
        IN  (\A j \in 1..(i - 1) : EncodedAs(parameters, paramTypes, j) = parameters[j].type) =>
                WrittenAt(parameters, paramTypes, i)
                    = Offset(SizeSent, parameters, i) - Cardinality(TimesBefore(parameters, i))

\* A written length is read back as it was.
LengthsInPlace ==
    \A n \in {0, 1, 250, 251, 252, 254, 255, 256, 65535, 65536, 16777215, 16777216, 2147483647} :
        readLengthEncodedInteger(writeLengthEncodedInteger(n)) = <<n, Len(writeLengthEncodedInteger(n))>>

(* Every parameter is where the server looks for it, but for the times     *)
(* before it, and every value of a binary row where the client looks, as   *)
(* long as it is encoded by the types that were announced; every length    *)
(* and every type is read as it was written.                               *)
ValuesInPlace == NamesInPlace /\ ParametersInPlace /\ RowsInPlace /\ LengthsInPlace
=============================================================================
