------------------------------- MODULE Formats --------------------------------
(***************************************************************************)
(* The components that agree with another program on a form of the data,   *)
(* side by side: the MySQL protocol, the Avro container and binary readers *)
(* and writers, the schema registry and the resolver.  "format" chooses    *)
(* the one that runs, as "part" does in Requests.                          *)
(***************************************************************************)
EXTENDS MySQLProtocol, OCFContainer, AvroBinary

CONSTANTS
  RegistryCallers, NodeCount, Schemas, MaxVersions, RetryCount, MaxCalls, Getters,
  ResolverCallers, Decoders, Definitions, ResolverTTL, EnableSchemaEvolution, StrictMode, MaxClock,
  MaxResolves, ResolverUsers, MaxRemovals

VARIABLES
  format,
  versions, ids, writes, caches, sharedCache, lastSuccessful, caller, calls, excused,
  registryConfigured, registry, registriesCreated, removals, getter,
  registered, schemaCache, expires, clock, resolving, resolves, cleaner,
  resolver, resolversMade, resolversClosed, resolverRemovals, user

registryVars == <<versions, ids, writes, caches, sharedCache, lastSuccessful, caller, calls, excused,
                  registryConfigured, registry, registriesCreated, removals, getter>>
resolverVars == <<registered, schemaCache, expires, clock, resolving, resolves, cleaner,
                  resolver, resolversMade, resolversClosed, resolverRemovals, user>>

R == INSTANCE SchemaRegistry WITH configured <- registryConfigured, created <- registriesCreated
S == INSTANCE SchemaResolver

\* What the instances assume of their constants.
ASSUME RegistryAssumption == NodeCount \in Nat \ {0} /\ RetryCount \in Nat /\ MaxVersions \in Nat
ASSUME ResolverAssumption == Definitions # {} /\ ResolverTTL \in Nat /\ Decoders \subseteq ResolverCallers

formatsVars == <<format, protocolVars, ocfVars, avroWriterVars, avroReaderVars, registryVars, resolverVars>>

FormatParts == {"protocol", "container", "encoder", "decoder", "registry", "registries",
                "resolver", "resolvers"}

FormatsInit ==
  /\ IF format \in {"registry", "registries"} THEN R!RegistryInit
     ELSE /\ versions = 0 /\ ids = 0 /\ writes = 0 /\ caches = 0 /\ sharedCache = 0 /\ lastSuccessful = 0
          /\ caller = 0 /\ calls = 0 /\ excused = 0 /\ registryConfigured = 0 /\ registry = 0
          /\ registriesCreated = 0 /\ removals = 0 /\ getter = 0
  /\ IF format = "protocol" THEN ProtocolInit
     ELSE /\ toServer = 0 /\ toClient = 0 /\ sequence = 0 /\ server = 0 /\ received = 0 /\ command = 0
          /\ reply = 0 /\ client = 0 /\ aligned = 0 /\ currentDB = 0 /\ serverStatus = 0
          /\ preparedStmts = 0 /\ nextStmtID = 0 /\ parameters = 0
  /\ IF format \in {"resolver", "resolvers"} THEN S!ResolverInit
     ELSE /\ registered = 0 /\ schemaCache = 0 /\ expires = 0 /\ clock = 0 /\ resolving = 0 /\ resolves = 0
          /\ cleaner = 0 /\ resolver = 0 /\ resolversMade = 0 /\ resolversClosed = 0
          /\ resolverRemovals = 0 /\ user = 0
  /\ IF format = "container" THEN OCFInit
     ELSE /\ ocfWriter = 0 /\ file = 0 /\ sent = 0 /\ torn = 0 /\ taken = 0 /\ vouched = 0 /\ endsAt = 0
          /\ ocfReader = 0
  /\ IF format = "encoder" THEN AvroWriterInit
     ELSE avroWriter = 0 /\ encoded = 0 /\ handed = 0 /\ repeats = 0
  /\ IF format = "decoder" THEN AvroReaderInit
     ELSE /\ avroReader = 0 /\ wrote = 0 /\ position = 0 /\ maps = 0 /\ held = 0 /\ readBatch = 0
          /\ failed = 0

FormatsNext ==
  /\ UNCHANGED format
  /\ CASE format = "registry" -> R!RegistryNext
       [] format = "registries" -> R!ManagerNext
       [] OTHER -> UNCHANGED registryVars
  /\ IF format = "protocol" THEN ProtocolNext ELSE UNCHANGED protocolVars
  /\ CASE format = "resolver" -> S!ResolverNext
       [] format = "resolvers" -> S!ResolverManagerNext
       [] OTHER -> UNCHANGED resolverVars
  /\ IF format = "container" THEN OCFNext ELSE UNCHANGED ocfVars
  /\ IF format = "encoder" THEN AvroWriterNext ELSE UNCHANGED avroWriterVars
  /\ IF format = "decoder" THEN AvroReaderNext ELSE UNCHANGED avroReaderVars

FormatsSpec == FormatsInit /\ [][FormatsNext]_formatsVars

-----------------------------------------------------------------------------
(* Schema registry: what is cached is what the service has, and callers of *)
(* the manager share one client per name.  Schema resolver: a cached schema*)
(* is no older than its lifetime, data is decoded in the schema it was     *)
(* written in, and users share one resolver per name.                      *)
RegistryIsFollowed ==
  /\ format = "registry" => R!CachesFollowRegistry
  /\ format = "registries" => R!ClientIsShared
  /\ format = "resolver" => S!ServedIsFresh /\ S!CachedByID /\ S!DecodedAsWritten
  /\ format = "resolvers" => S!ResolverIsShared

(* MySQL protocol: client and server agree on what comes next, and every   *)
(* value arrives in its place, in a binary row as long as it is encoded by *)
(* the types that were announced.                                          *)
ProtocolInStep == format = "protocol" => InStep /\ ValuesInPlace

(* Avro: what is read back was written, in order, once, in its schema, and *)
(* whole up to the last flush; what is not, an error tells.                *)
AvroComesThrough ==
  /\ format = "container" => ConvertedWasWritten /\ FlushedIsRead /\ FlushedIsAccepted
  /\ format = "encoder" => EncodedOnce /\ FlushedIsEncoded
  /\ format = "decoder" => DecodedInItsSchema /\ HeldIsRight /\ ReadIsAccounted
=============================================================================
