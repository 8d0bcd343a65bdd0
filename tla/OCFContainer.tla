----------------------------- MODULE OCFContainer -----------------------------
(***************************************************************************)
(* Avro object container files (adapters/avro/ocf.go): a writer that       *)
(* collects objects into blocks over a bufio.Writer, a reader that takes   *)
(* the blocks back, and the conversions built on the reader (converter.go).*)
(*                                                                         *)
(* The file is a sequence of tokens, each read or written by one call;     *)
(* "torn" says that part of one more has arrived.  The medium, bufio and   *)
(* goavro are external: a write to the medium fails at any token, and      *)
(* bufio repeats that error for ever; what bufio holds is lost in a crash. *)
(***************************************************************************)
EXTENDS Naturals, Sequences, SequencesExt

CONSTANTS
    ObjectLists,     \* what WriteBlock is called with: sequences of objects
    EncodedSize,     \* [objects -> Nat], 0 for an object of the schema "null"
    Unencodable,     \* objects that do not fit the schema
    Codecs,          \* of the codecs supported
    BlockSize,       \* OCFWriterConfig.BlockSize
    MaxBlockSize,    \* OCFReaderConfig.MaxBlockSize
    MaxTaken,        \* objects handed to WriteBlock, at most
    MaxEnds,         \* calls of Close that write an end, at most
    MaxPasses        \* passes over the file, at most

\* Lists of objects are sequences.
ASSUME ObjectAssumption == \A l \in ObjectLists : l \in Seq({l[i] : i \in DOMAIN l})

VARIABLES
    ocfWriter,  \* [codec, headerWritten, bufferObjects, broken, shut, ends, over]
    file,       \* what bufio was given, and in the end what the medium has
    sent,       \* tokens of it that have surely arrived
    torn,
    taken,      \* objects WriteBlock has appended to its buffer
    vouched,    \* how many of them the last successful Flush or Close covers
    endsAt,     \* how many the first end of the file covers: {} or {n}
    ocfReader   \* [at, pos, got, passes, streams]

ocfVars == <<ocfWriter, file, sent, torn, taken, vouched, endsAt, ocfReader>>

Token(type, n, objects) == [type |-> type, n |-> n, objects |-> objects]
SyncMarker == Token("sync", 0, <<>>)
End == <<Token("count", 0, <<>>), SyncMarker>>

NewWriter == [codec |-> "", headerWritten |-> FALSE, bufferObjects |-> <<>>, broken |-> FALSE,
              shut |-> FALSE, ends |-> 0, over |-> FALSE]

-----------------------------------------------------------------------------
(* The writer.                                                             *)
BytesOfObjects(objects) == FoldLeft(LAMBDA n, o : n + EncodedSize[o], 0, objects)

\* Every compression adds a header or a check sum.
CompressedSize(codec, objects) == BytesOfObjects(objects) + (IF codec = "null" THEN 0 ELSE 1)

Block(codec, objects) ==
    << Token("count", Len(objects), <<>>), Token("size", CompressedSize(codec, objects), <<>>),
       Token("data", 0, objects), SyncMarker >>

Encodable(objects) == \A i \in DOMAIN objects : objects[i] \notin Unencodable

\* flushBufferLocked writes nothing for an empty buffer.
BlockOf(objects) == IF objects = <<>> THEN <<>> ELSE Block(ocfWriter.codec, objects)

\* What becomes of tokens written, and flushed when flushes holds.  What a
\* closed medium has not taken yet it never takes.
ResultsOf(tokens, flushes) ==
    LET all == file \o tokens
        arrived == IF ocfWriter.shut THEN {sent} ELSE sent..Len(all) IN
    {result \in [ok : BOOLEAN, file : {file, all} \cup {SubSeq(all, 1, n) : n \in arrived}, sent : sent..Len(all)] :
        \/ /\ result.ok /\ ~ocfWriter.broken /\ result.file = all
           /\ result.sent = IF flushes THEN Len(all) ELSE sent
           /\ ~(flushes /\ ocfWriter.shut /\ Len(all) > sent)
        \/ ~result.ok /\ ~ocfWriter.broken /\ result.sent \in arrived /\ result.file = SubSeq(all, 1, result.sent)
        \/ ~result.ok /\ ocfWriter.broken /\ result.sent = sent /\ result.file = file}

TakeResult(result, writer) ==
    /\ file' = result.file /\ sent' = result.sent
    /\ ocfWriter' = [writer EXCEPT !.broken = ~result.ok]

WriteHeader(codec) ==
    /\ ~ocfWriter.over /\ ~ocfWriter.headerWritten
    /\ \E result \in ResultsOf(<<Token("magic", 0, <<>>), Token("meta", 0, <<>>), SyncMarker>>, FALSE) :
          TakeResult(result, [ocfWriter EXCEPT !.codec = codec, !.headerWritten = result.ok])
    /\ UNCHANGED <<torn, taken, vouched, endsAt, ocfReader>>

ClearedNever(ok, objects) == objects
Cleared(ok, objects) == IF ok THEN <<>> ELSE objects

\* The objects stay in the buffer when the block that they fill is not written.
WriteBlock(objects) ==
    LET all == ocfWriter.bufferObjects \o objects IN
    /\ ~ocfWriter.over /\ ocfWriter.headerWritten /\ Len(taken) + Len(objects) <= MaxTaken
    /\ taken' = taken \o objects
    /\ IF Len(all) >= BlockSize /\ Encodable(all)
       THEN \E result \in ResultsOf(BlockOf(all), FALSE) :
                TakeResult(result, [ocfWriter EXCEPT !.bufferObjects = Cleared(result.ok, all)])
       ELSE ocfWriter' = [ocfWriter EXCEPT !.bufferObjects = all] /\ UNCHANGED <<file, sent>>
    /\ UNCHANGED <<torn, vouched, endsAt, ocfReader>>

FlushBlock ==
    LET objects == ocfWriter.bufferObjects IN
    /\ ~ocfWriter.over /\ Encodable(objects)
    /\ \E result \in ResultsOf(BlockOf(objects), TRUE) :
          /\ TakeResult(result, [ocfWriter EXCEPT !.bufferObjects = Cleared(result.ok, objects)])
          /\ vouched' = IF result.ok THEN Len(taken) ELSE vouched
    /\ UNCHANGED <<torn, taken, endsAt, ocfReader>>

\* Close writes an end, with a header or without, each time it is called, and
\* closes the medium if that can be closed.
CloseWriter ==
    LET objects == ocfWriter.bufferObjects IN
    /\ ~ocfWriter.over /\ Encodable(objects) /\ ocfWriter.ends < MaxEnds
    /\ \E result \in ResultsOf(BlockOf(objects) \o End, TRUE) : \E closes \in BOOLEAN :
          /\ TakeResult(result, [ocfWriter EXCEPT !.bufferObjects = Cleared(result.ok, objects), !.ends = @ + 1,
                                             !.shut = @ \/ (result.ok /\ closes)])
          /\ vouched' = IF result.ok THEN Len(taken) ELSE vouched
    /\ endsAt' = IF endsAt = {} THEN {Len(taken)} ELSE endsAt
    /\ UNCHANGED <<torn, taken, ocfReader>>

\* The application ends, in a crash or not; what has arrived is the file.
LeaveFile ==
    LET arrived == IF ocfWriter.shut THEN {sent} ELSE sent..Len(file) IN
    /\ ~ocfWriter.over /\ ocfWriter' = [NewWriter EXCEPT !.over = TRUE]
    /\ \E n \in arrived :
          /\ file' = SubSeq(file, 1, n) /\ sent' = 0
          /\ torn' \in {FALSE, ocfWriter.broken \/ n < Len(file)}
    /\ UNCHANGED <<taken, vouched, endsAt, ocfReader>>

-----------------------------------------------------------------------------
(* The reader.  An application goes on to the next block until it is told  *)
(* of the end or of an error; it may start again with Reset.               *)
Has(type, i) == i <= Len(file) /\ file[i].type = type

ReadHeader ==
    /\ ocfWriter.over /\ ocfReader.at = "new"
    /\ IF Has("magic", 1) /\ Has("meta", 2) /\ Has("sync", 3)
       THEN \E streams \in BOOLEAN :
               ocfReader' = [ocfReader EXCEPT !.at = "blocks", !.pos = 4, !.streams = streams]
       ELSE ocfReader' = [ocfReader EXCEPT !.at = "error"]
    /\ UNCHANGED <<ocfWriter, file, sent, torn, taken, vouched, endsAt>>

\* ReadBlock and the Get methods take the mutex and call ReadHeader, which
\* takes it too.
AskUnread ==
    /\ ocfWriter.over /\ ocfReader.at = "new" /\ ocfReader' = [ocfReader EXCEPT !.at = "stuck"]
    /\ UNCHANGED <<ocfWriter, file, sent, torn, taken, vouched, endsAt>>

SizeAcceptedBelow(n) == n > 0 /\ n < MaxBlockSize
SizeAccepted(n) == n > 0 /\ n <= MaxBlockSize

\* A file that stops where a block would begin has come to its end too.
AtEnd(i) == \/ i > Len(file) /\ ~torn
            \/ Has("count", i) /\ file[i].n = 0 /\ Has("sync", i + 1)

BlockAt(i) == /\ Has("count", i) /\ file[i].n > 0
              /\ Has("size", i + 1) /\ SizeAccepted(file[i + 1].n)
              /\ Has("data", i + 2) /\ Has("sync", i + 3)

ReadBlockObjects ==
    LET i == ocfReader.pos IN
    /\ ocfReader.at = "blocks"
    /\ ocfReader' = IF AtEnd(i) THEN [ocfReader EXCEPT !.at = "eof"]
                    ELSE IF BlockAt(i) THEN [ocfReader EXCEPT !.pos = i + 4, !.got = @ \o file[i + 2].objects]
                    ELSE [ocfReader EXCEPT !.at = "error"]
    /\ UNCHANGED <<ocfWriter, file, sent, torn, taken, vouched, endsAt>>

Reset ==
    /\ ocfReader.at \in {"eof", "error"} /\ ocfReader.passes < MaxPasses
    /\ ocfReader' = [ocfReader EXCEPT !.at = "new", !.pos = 1, !.got = <<>>, !.streams = FALSE,
                                      !.passes = @ + 1]
    /\ UNCHANGED <<ocfWriter, file, sent, torn, taken, vouched, endsAt>>

\* What a conversion has handed over: a stream's block by block, another's
\* when all is read.
Converted == IF ocfReader.streams \/ ocfReader.at = "eof" THEN ocfReader.got ELSE <<>>

-----------------------------------------------------------------------------
OCFInit ==
    /\ ocfWriter = NewWriter /\ file = <<>> /\ sent = 0 /\ torn = FALSE
    /\ taken = <<>> /\ vouched = 0 /\ endsAt = {}
    /\ ocfReader = [at |-> "new", pos |-> 1, got |-> <<>>, passes |-> 1, streams |-> FALSE]

OCFNext ==
    \/ \E codec \in Codecs : WriteHeader(codec)
    \/ \E objects \in ObjectLists : WriteBlock(objects)
    \/ FlushBlock \/ CloseWriter \/ LeaveFile
    \/ ReadHeader \/ AskUnread \/ ReadBlockObjects \/ Reset

-----------------------------------------------------------------------------
(* What a conversion hands over was written, in order and once each, even  *)
(* when the writer has failed and gone on, or ended in a crash.            *)
ConvertedWasWritten == IsPrefix(Converted, taken)

(* A conversion that is not told of an error has every object that the     *)
(* last successful Flush or Close covers, and every object before the end  *)
(* when it finds one, whatever Close returned; a file torn within a block  *)
(* it takes for whole only behind an end.  What is written after a Close   *)
(* lies behind the end and is never read.                                  *)
FlushedIsRead ==
    ocfReader.at = "eof" =>
        /\ Len(Converted) >= vouched \/ \E n \in endsAt : n < vouched
        /\ IF Has("count", ocfReader.pos) THEN endsAt = {Len(Converted)} ELSE ~torn

(* A whole file is refused in one case only: a block's bytes are none, as  *)
(* those of nulls without a codec, or more than the reader accepts.        *)
FlushedIsAccepted ==
    ocfReader.at = "error" =>
        \/ Len(ocfReader.got) >= vouched
        \/ \E n \in endsAt : n < vouched
        \/ Has("size", ocfReader.pos + 1) /\ file[ocfReader.pos + 1].n \notin 1..MaxBlockSize
=============================================================================
