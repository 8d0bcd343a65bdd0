------------------------------ MODULE AvroBinary ------------------------------
(***************************************************************************)
(* Records in Avro's binary form (adapters/avro/binary.go): a writer that  *)
(* may collect records before it encodes them, and a reader that resolves  *)
(* the writer's schema into its own and may reuse the maps it returns; the *)
(* conversion of a stream (converter.go) reads in batches.                 *)
(*                                                                         *)
(* A schema has fields, each with a type, whether the type is written as   *)
(* an object, and whether it has a default.  Each field of a record has    *)
(* the record's number for its value, and 0 for a default.  goavro and the *)
(* medium are external; bufio repeats an error of the medium for ever.     *)
(***************************************************************************)
EXTENDS Naturals, Sequences, SequencesExt, FiniteSets

CONSTANTS
    RecordSchemas,   \* names of schemas of records
    FieldsOf,        \* [RecordSchemas -> [field names -> [type, boxed, default]]]
    Refuses,         \* [RecordSchemas -> records that do not fit]
    BufferRecords,   \* BinaryWriterConfig.BufferRecords
    RecordLists,     \* what WriteRecords is called with
    MaxHanded,       \* records written, at most
    StreamLength,    \* records in the data that is read
    BatchRecords,    \* the argument of ReadBatch
    MaxSets,         \* calls of SetSchema and SetWriterSchema, at most
    MaxReads         \* passes over the data, at most

\* Lists of records are sequences.
ASSUME RecordAssumption == \A l \in RecordLists : l \in Seq({l[i] : i \in DOMAIN l})

VARIABLES
    avroWriter,  \* [buffering, codec, buffer, broken, partly, flushed, sets]
    encoded,     \* what bufio was given: Seq of [record, schema]
    handed,      \* what callers gave the writer and it kept: Seq of [record, schema]
    repeats,     \* a flush that failed part of the way was tried again
    avroReader,  \* [resolution, reuse, readerSchema, writerSchema, codec, resolves, last, fine, sets]
    wrote,       \* the schema the data was written in
    position,    \* [consumed, aligned, reads]: records taken, the next byte begins a record
    maps,        \* the maps that have been in the pool: Seq of [content, record]
    held,        \* what was returned: set of [record, map, right]
    readBatch,   \* the call of ReadBatch under way: [open, got]
    failed       \* records consumed by calls that returned an error

avroWriterVars == <<avroWriter, encoded, handed, repeats>>
avroReaderVars == <<avroReader, wrote, position, maps, held, readBatch, failed>>
readingVars == <<position, maps, held, readBatch, failed>>

NoSchema == ""

-----------------------------------------------------------------------------
(***************************************************************************)
(* The writer.                                                             *)
(***************************************************************************)
Fits(record) == record \notin Refuses[avroWriter.codec]

\* How many records, from the first, are encoded: all, or those before one
\* that does not fit.
EncodablePrefix(records) == CHOOSE n \in 0..Len(records) :
    /\ \A i \in 1..n : Fits(records[i])
    /\ n < Len(records) => ~Fits(records[n + 1])

Encode(records) == [i \in DOMAIN records |-> [record |-> records[i], schema |-> avroWriter.codec]]

\* bufio takes all of what it is given, or fails at some record.
Puts(records) ==
    IF avroWriter.broken THEN {[n |-> 0, broken |-> TRUE]}
    ELSE [n : {EncodablePrefix(records)}, broken : {FALSE}] \cup [n : 0..EncodablePrefix(records), broken : {TRUE}]

SetWriterCodec(schema) ==
    /\ avroWriter.sets < MaxSets /\ schema # avroWriter.codec
    /\ avroWriter' = [avroWriter EXCEPT !.codec = schema, !.sets = @ + 1]
    /\ UNCHANGED <<encoded, handed, repeats>>

AfterFlushKeeps(records, done) == records
AfterFlush(records, done) == IF done THEN <<>> ELSE records

\* flushBufferLocked encodes from the first record each time it is called,
\* and forgets the records when all are written.
FlushRecords(records, byFlush) ==
    \E put \in Puts(records) :
        LET done == put.n = Len(records) /\ ~put.broken IN
        /\ encoded' = encoded \o Encode(SubSeq(records, 1, put.n))
        /\ avroWriter' = [avroWriter EXCEPT !.buffer = AfterFlush(records, done), !.broken = put.broken,
                              !.partly = ~done /\ (@ \/ put.n > 0),
                              !.flushed = IF done /\ byFlush THEN Len(handed) ELSE @]
        /\ repeats' = (repeats \/ (avroWriter.partly /\ put.n > 0))

\* WriteRecord, and WriteRecords with the buffer.  (Without a schema the flush
\* panics, on a codec that is nil.)
CollectRecords(records) ==
    LET all == avroWriter.buffer \o records IN
    /\ avroWriter.buffering /\ avroWriter.codec # NoSchema /\ Len(handed) + Len(records) <= MaxHanded
    /\ handed' = handed \o Encode(records)
    /\ IF Len(all) >= BufferRecords THEN FlushRecords(all, FALSE)
       ELSE avroWriter' = [avroWriter EXCEPT !.buffer = all] /\ UNCHANGED <<encoded, repeats>>

\* Without the buffer, the records before one that fails are written.
WriteThrough(records) ==
    /\ ~avroWriter.buffering /\ avroWriter.codec # NoSchema /\ Len(handed) + Len(records) <= MaxHanded
    /\ \E put \in Puts(records) :
          /\ encoded' = encoded \o Encode(SubSeq(records, 1, put.n))
          /\ handed' = handed \o Encode(SubSeq(records, 1, put.n))
          /\ avroWriter' = [avroWriter EXCEPT !.broken = put.broken]
    /\ UNCHANGED repeats

\* Flush, and Close up to the closing of the medium.
FlushWriter == FlushRecords(avroWriter.buffer, TRUE) /\ UNCHANGED handed

-----------------------------------------------------------------------------
(***************************************************************************)
(* The reader's schemas.                                                   *)
(***************************************************************************)
isPromotable(writerType, readerType) ==
    \/ writerType = "int" /\ readerType \in {"long", "float", "double"}
    \/ writerType = "long" /\ readerType \in {"float", "double"}
    \/ <<writerType, readerType>> \in {<<"float", "double">>, <<"string", "bytes">>, <<"bytes", "string">>}

\* A field's type is parsed again as a schema, which the bare name of a type is not.
Compatible(writerSchema, readerSchema) ==
    \A f \in DOMAIN FieldsOf[writerSchema] \cap DOMAIN FieldsOf[readerSchema] :
        /\ FieldsOf[writerSchema][f].boxed /\ FieldsOf[readerSchema][f].boxed
        /\ \/ FieldsOf[writerSchema][f].type = FieldsOf[readerSchema][f].type
           \/ isPromotable(FieldsOf[writerSchema][f].type, FieldsOf[readerSchema][f].type)

ResolvedCodecOwn(reader) == reader.readerSchema
ResolvedCodec(reader) == reader.writerSchema

createCodecWithResolution(reader) ==
    IF Compatible(reader.writerSchema, reader.readerSchema)
    THEN [reader EXCEPT !.codec = ResolvedCodec(reader), !.resolves = TRUE, !.fine = TRUE]
    ELSE [reader EXCEPT !.fine = FALSE]

SetSchema(schema) ==
    LET reader == [avroReader EXCEPT !.readerSchema = schema, !.last = "reader", !.sets = @ + 1] IN
    /\ avroReader.sets < MaxSets
    /\ avroReader' =
          IF reader.writerSchema # NoSchema /\ reader.writerSchema # schema /\ reader.resolution
          THEN createCodecWithResolution(reader)
          ELSE [reader EXCEPT !.codec = schema, !.resolves = FALSE, !.fine = TRUE]
    /\ UNCHANGED <<wrote, readingVars>>

\* The reader's own schema is the first writer's when it has none.
SetWriterSchema(schema) ==
    LET reader == [avroReader EXCEPT !.writerSchema = schema, !.last = "writer", !.fine = TRUE, !.sets = @ + 1] IN
    /\ avroReader.sets < MaxSets
    /\ avroReader' =
          IF reader.readerSchema = NoSchema
          THEN [reader EXCEPT !.codec = schema, !.readerSchema = schema, !.resolves = FALSE]
          ELSE IF reader.readerSchema # schema /\ reader.resolution THEN createCodecWithResolution(reader)
          ELSE reader
    /\ UNCHANGED <<wrote, readingVars>>

-----------------------------------------------------------------------------
(***************************************************************************)
(* Reading.                                                                *)
(***************************************************************************)
ResolvedValues(schema, names, n) == [f \in DOMAIN FieldsOf[schema] |-> IF f \in names THEN n ELSE 0]

\* A record without a field that the reader requires is refused.
Resolvable(names) ==
    LET own == FieldsOf[avroReader.readerSchema] IN \A f \in DOMAIN own \ names : own[f].default

FilledOver(content, map) ==
    [f \in DOMAIN content \cup DOMAIN map |-> IF f \in DOMAIN content THEN content[f] ELSE map[f]]

\* The map is emptied before it is filled.
Filled(content, map) == content

\* Maps of the pool are used when the reader resolves and may reuse them; a
\* map goes back to the pool before the caller has seen it.
Pooled == avroReader.reuse /\ avroReader.resolves
MapsFor(taken) == IF Pooled THEN taken ELSE {0}

Consumed(aligned) == position' = [position EXCEPT !.consumed = @ + 1, !.aligned = aligned]

\* A record read alone or in a batch; batches lock the reader for each record.
Deliver(record, inBatch) ==
    IF inBatch THEN readBatch' = [readBatch EXCEPT !.got = @ \cup {record}] /\ UNCHANGED held
    ELSE held' = held \cup {record} /\ UNCHANGED readBatch

BatchLosesOne(n) == {n}

\* An error loses the records of the batch that were read before.
BatchLoses(n) == {record.record : record \in readBatch.got} \cup {n}

Refuse(n, inBatch) ==
    /\ failed' = failed \cup (IF inBatch THEN BatchLoses(n) ELSE {n})
    /\ readBatch' = IF inBatch THEN [open |-> FALSE, got |-> {}] ELSE readBatch
    /\ UNCHANGED held

Readable(inBatch) ==
    /\ avroReader.codec # NoSchema /\ position.aligned /\ position.consumed < StreamLength
    /\ inBatch => readBatch.open /\ Cardinality(readBatch.got) < BatchRecords

ReadRecord(inBatch) ==
    LET n == position.consumed + 1
        names == DOMAIN FieldsOf[avroReader.codec]
        right == ResolvedValues(IF avroReader.resolves THEN avroReader.readerSchema ELSE avroReader.codec, names, n) IN
    /\ Readable(inBatch) /\ avroReader.codec = wrote /\ Consumed(TRUE)
    /\ avroReader.resolves => Resolvable(names)
    /\ \E map \in MapsFor(1..Len(maps) + 1) :
          /\ maps' = IF map = 0 THEN maps
                     ELSE IF map > Len(maps) THEN Append(maps, [content |-> right, record |-> n])
                     ELSE [maps EXCEPT ![map] = [content |-> Filled(right, @.content), record |-> n]]
          /\ Deliver([record |-> n, map |-> map, right |-> right], inBatch)
    /\ UNCHANGED <<avroReader, wrote, failed>>

\* A record that cannot be resolved leaves a map with some of its fields.
ReadUnresolvable(inBatch) ==
    LET n == position.consumed + 1 IN
    /\ Readable(inBatch) /\ avroReader.codec = wrote /\ Consumed(TRUE)
    /\ avroReader.resolves /\ ~Resolvable(DOMAIN FieldsOf[avroReader.codec])
    /\ \E map \in MapsFor(1..Len(maps)) \cup {0} :
          maps' = IF map = 0 THEN maps ELSE [maps EXCEPT ![map] = [content |-> <<>>, record |-> n]]
    /\ Refuse(n, inBatch)
    /\ UNCHANGED <<avroReader, wrote>>

\* The medium fails, or the codec is not the data's; what the bytes that
\* follow would give, if they are read, is left out.
ReadFails(inBatch) ==
    /\ Readable(inBatch) /\ Consumed(FALSE) /\ Refuse(position.consumed + 1, inBatch)
    /\ UNCHANGED <<avroReader, wrote, maps>>

StartBatch ==
    /\ ~readBatch.open /\ avroReader.codec # NoSchema /\ readBatch' = [readBatch EXCEPT !.open = TRUE]
    /\ UNCHANGED <<avroReader, wrote, position, maps, held, failed>>

\* The batch is full, or the data has ended.
EndBatch ==
    /\ readBatch.open
    /\ Cardinality(readBatch.got) = BatchRecords \/ position.consumed = StreamLength
    /\ held' = held \cup readBatch.got /\ readBatch' = [open |-> FALSE, got |-> {}]
    /\ UNCHANGED <<avroReader, wrote, position, maps, failed>>

ResetReader ==
    /\ ~readBatch.open /\ position.consumed > 0 /\ position.reads < MaxReads
    /\ position' = [consumed |-> 0, aligned |-> TRUE, reads |-> position.reads + 1]
    /\ held' = {} /\ failed' = {}
    /\ UNCHANGED <<avroReader, wrote, maps, readBatch>>

-----------------------------------------------------------------------------
AvroWriterInit ==
    /\ avroWriter \in [buffering : BOOLEAN, codec : {NoSchema}, buffer : {<<>>}, broken : {FALSE},
                       partly : {FALSE}, flushed : {0}, sets : {0}]
    /\ encoded = <<>> /\ handed = <<>> /\ repeats = FALSE

AvroReaderInit ==
    /\ avroReader \in [resolution : BOOLEAN, reuse : BOOLEAN, readerSchema : {NoSchema},
                       writerSchema : {NoSchema}, codec : {NoSchema}, resolves : {FALSE},
                       last : {""}, fine : {TRUE}, sets : {0}]
    /\ wrote \in RecordSchemas
    /\ position = [consumed |-> 0, aligned |-> TRUE, reads |-> 1]
    /\ maps = <<>> /\ held = {} /\ readBatch = [open |-> FALSE, got |-> {}] /\ failed = {}

\* What follows the repetition of a flush is left out.
AvroWriterNext ==
    /\ ~repeats
    /\ \/ \E schema \in RecordSchemas : SetWriterCodec(schema)
       \/ \E records \in RecordLists : CollectRecords(records) \/ WriteThrough(records)
       \/ FlushWriter

AvroReaderNext ==
    \/ \E schema \in RecordSchemas : SetSchema(schema) \/ SetWriterSchema(schema)
    \/ \E inBatch \in BOOLEAN : ReadRecord(inBatch) \/ ReadUnresolvable(inBatch) \/ ReadFails(inBatch)
    \/ StartBatch \/ EndBatch \/ ResetReader

-----------------------------------------------------------------------------
(* Every record is encoded once, in order, even when calls fail and are    *)
(* repeated: unless a flush that had failed part of the way, at a record   *)
(* that does not fit, is tried again, which encodes the first ones anew.   *)
EncodedOnce ==
    LET RecordsOf(s) == [i \in DOMAIN s |-> s[i].record] IN
    repeats \/ IsPrefix(RecordsOf(encoded), RecordsOf(handed))

(* What a successful Flush covers has been encoded, and, but for the       *)
(* buffer, in the schema that was set when it was written.                 *)
FlushedIsEncoded ==
    /\ Len(encoded) >= avroWriter.flushed
    /\ ~avroWriter.buffering => IsPrefix(encoded, handed)

(* Once both schemas are set and the last call was fine, data is decoded   *)
(* in its writer's schema and resolved into the reader's: unless the       *)
(* writer's schema was set to the reader's own after another, which leaves *)
(* the other's codec in place.                                             *)
DecodedInItsSchema ==
    (/\ avroReader.resolution /\ avroReader.fine
     /\ avroReader.writerSchema # NoSchema /\ avroReader.readerSchema # NoSchema) =>
        \/ /\ avroReader.codec = avroReader.writerSchema
           /\ avroReader.resolves \/ avroReader.codec = avroReader.readerSchema
        \/ avroReader.last = "writer" /\ avroReader.writerSchema = avroReader.readerSchema

(* A record held by an application has the fields of its schema, and the   *)
(* values that were written, as long as its map has not been used for a    *)
(* later record: the pool hands it out again while the record is held.     *)
HeldIsRight ==
    \A record \in held \cup readBatch.got :
        (record.map # 0 /\ maps[record.map].record = record.record) => maps[record.map].content = record.right

(* Every record taken from the data was returned, once, or its call        *)
(* returned an error: a batch that fails loses those read before.          *)
ReadIsAccounted ==
    LET returned == {record.record : record \in held \cup readBatch.got} IN
    /\ returned \cup failed = 1..position.consumed /\ returned \cap failed = {}
    /\ held \cap readBatch.got = {}
=============================================================================
