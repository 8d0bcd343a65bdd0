---------------------------- MODULE SchemaResolver ----------------------------
(***************************************************************************)
(* The schema resolver (adapters/schema/resolver.go): schemas of one       *)
(* subject looked up by ID or as the latest, registered, and used to       *)
(* decode, validate and convert data; its caches, which keep each schema   *)
(* and the time it expires in two maps written one after the other; the    *)
(* goroutine that cleans them; and the manager of resolvers.               *)
(*                                                                         *)
(* The registry behind the resolver is external: an ID is the position of  *)
(* a schema among those registered, the latest is the last.  goavro is     *)
(* external: data fits the schema that it was written in; under another    *)
(* schema it may fit, leave bytes over or not fit.                         *)
(***************************************************************************)
EXTENDS Naturals, Sequences, FiniteSets, Functions

CONSTANTS
    ResolverCallers, \* the callers of a resolver
    Decoders,        \* those of them who decode data
    Definitions,     \* schema texts
    ResolverTTL,     \* Config.CacheTTLMs, in ticks
    EnableSchemaEvolution, StrictMode, \* as in Config
    MaxClock,        \* ticks, at most
    MaxResolves,     \* look-ups and registrations, at most
    ResolverUsers,   \* the callers of GetResolver
    MaxRemovals      \* removals of the resolver, at most

VARIABLES
    registered,  \* the registry: Seq of Definitions, by ID
    schemaCache, \* SchemaCache and SubjectSchemaCache
    expires,     \* SchemaCacheTTL and SubjectSchemaCacheTTL
    clock,
    resolving,   \* [ResolverCallers -> a call under way, or its answer]
    resolves,
    cleaner,     \* the cleanup goroutine
    resolver,    \* the manager's Resolvers[name], 0 when there is none
    resolversMade, resolversClosed, resolverRemovals,
    user         \* [ResolverUsers -> a call of GetResolver]

cachesVars == <<schemaCache, expires>>
lookupVars == <<registered, cachesVars, clock, resolving, resolves, cleaner>>
resolversVars == <<resolver, resolversMade, resolversClosed, resolverRemovals, user>>
resolverVars == <<lookupVars, resolversVars>>

NoID == 0
ByID(i) == <<"id", i>>
Latest == <<"subject", "latest">>
IDs == 1..Len(registered)

\* A *Schema, with the time at which it was cached.
Schema(id, definition) == [id |-> id, definition |-> definition, cached |-> clock]
NoSchema == [id |-> NoID, definition |-> "", cached |-> 0]

\* The data of a decode: framed data begins with a zero byte and the ID of its
\* writer's schema, and has nothing more when it is empty; data without a
\* frame may begin with a zero byte too.
Payloads == [writer : IDs, kind : {"framed", "empty", "zero", "plain"}]
NoData == [writer |-> NoID, kind |-> "plain"]

Idle == [at |-> "idle", key |-> Latest, schema |-> NoSchema, hit |-> FALSE, refreshed |-> FALSE, since |-> 0,
         stores |-> <<>>, expiry |-> 0, data |-> NoData, given |-> NoSchema, outcome |-> ""]

Call(c, at) == resolving' = [resolving EXCEPT ![c].at = at]

-----------------------------------------------------------------------------
(***************************************************************************)
(* The caches.  Every Load, Store and Delete of a sync.Map is a step.      *)
(***************************************************************************)
\* The call with the schema that it loads, if one is cached.
Loading(call, key) ==
    IF key \in DOMAIN schemaCache
    THEN [call EXCEPT !.at = "check", !.key = key, !.schema = schemaCache[key]]
    ELSE [call EXCEPT !.at = "fetch", !.key = key]

StartResolve(c) ==
    /\ resolving[c].at = "idle" /\ resolves < MaxResolves /\ resolves' = resolves + 1
    /\ \E key \in {ByID(i) : i \in IDs} \cup {Latest} :
          resolving' = [resolving EXCEPT ![c] = Loading([Idle EXCEPT !.since = clock], key)]
    /\ UNCHANGED <<registered, cachesVars, clock, cleaner>>

ExpiredLate(key) == clock > expires[key] + 1
Expired(key) == clock > expires[key]

LoadExpiry(c) ==
    LET call == resolving[c] IN
    /\ call.at = "check"
    /\ \/ call.key \notin DOMAIN expires /\ Call(c, "forgetSchema")
       \/ call.key \in DOMAIN expires /\ Expired(call.key) /\ Call(c, "forgetBoth")
       \/ /\ call.key \in DOMAIN expires /\ ~Expired(call.key)
          /\ resolving' = [resolving EXCEPT ![c].at = "resolved", ![c].hit = TRUE]
    /\ UNCHANGED <<registered, cachesVars, clock, cleaner, resolves>>

With(cache, key, value) == [k \in DOMAIN cache \cup {key} |-> IF k = key THEN value ELSE cache[k]]
Without(cache, key) == Restrict(cache, DOMAIN cache \ {key})

ForgetSchema(c) ==
    LET call == resolving[c] IN
    /\ call.at \in {"forgetSchema", "forgetBoth"}
    /\ schemaCache' = Without(schemaCache, call.key)
    /\ Call(c, IF call.at = "forgetBoth" THEN "forgetExpiry" ELSE "fetch")
    /\ UNCHANGED <<registered, expires, clock, cleaner, resolves>>

ForgetExpiry(c) ==
    /\ resolving[c].at = "forgetExpiry"
    /\ expires' = Without(expires, resolving[c].key)
    /\ Call(c, "fetch")
    /\ UNCHANGED <<registered, schemaCache, clock, cleaner, resolves>>

\* A schema resolved by subject has no ID, and is cached by the subject only.
Fetch(c) ==
    LET call == resolving[c]
        found == IF call.key = Latest THEN Schema(NoID, registered[Len(registered)])
                 ELSE Schema(call.key[2], registered[call.key[2]]) IN
    /\ call.at = "fetch"
    /\ \/ /\ registered # <<>>
          /\ resolving' = [resolving EXCEPT ![c].at = "store", ![c].schema = found, ![c].stores = <<call.key>>]
       \/ resolving' = [resolving EXCEPT ![c].at = "failed", ![c].schema = NoSchema]  \* registry or parser refuses
    /\ UNCHANGED <<registered, cachesVars, clock, cleaner, resolves>>

\* What is registered is cached by its ID and as the latest, new or not; the
\* ID of a text that goavro accepts and JSON does not is answered, no more.
Register(c) ==
    /\ resolving[c].at = "idle" /\ resolves < MaxResolves /\ resolves' = resolves + 1
    /\ \E d \in Definitions :
          LET known == {i \in IDs : registered[i] = d}
              id == IF known = {} THEN Len(registered) + 1 ELSE CHOOSE i \in known : TRUE IN
          \/ /\ registered' = IF known = {} THEN Append(registered, d) ELSE registered
             /\ \/ resolving' = [resolving EXCEPT ![c] =
                       [Idle EXCEPT !.at = "store", !.schema = Schema(id, d), !.stores = <<ByID(id), Latest>>,
                                    !.since = clock]]
                \/ UNCHANGED resolving        \* not parsed, or the registry's answer is lost
          \/ UNCHANGED <<registered, resolving>>  \* an invalid schema, or the registry refuses it
    /\ UNCHANGED <<cachesVars, clock, cleaner>>

StoreSchema(c) ==
    LET call == resolving[c]
        cached == [call.schema EXCEPT !.cached = clock] IN
    /\ call.at = "store"
    /\ schemaCache' = With(schemaCache, Head(call.stores), cached)
    /\ resolving' = [resolving EXCEPT ![c].at = "storeExpiry", ![c].schema = cached,
                                      ![c].expiry = clock + ResolverTTL]
    /\ UNCHANGED <<registered, expires, clock, cleaner, resolves>>

StoreExpiry(c) ==
    LET call == resolving[c]
        key == Head(call.stores) IN
    /\ call.at = "storeExpiry"
    /\ expires' = With(expires, key, call.expiry)
    /\ resolving' = [d \in ResolverCallers |->
           IF d = c THEN [call EXCEPT !.stores = Tail(@), !.expiry = 0,
                                      !.at = IF Len(call.stores) = 1 THEN "resolved" ELSE "store"]
           ELSE [resolving[d] EXCEPT !.refreshed = @ \/ (resolving[d].at = "check" /\ resolving[d].key = key)]]
    /\ UNCHANGED <<registered, schemaCache, clock, cleaner, resolves>>

\* cleanupCache: Range shows an expiry, and the two deletions follow.
CleanUp ==
    /\ \/ /\ cleaner.at = "idle"
          /\ \E key \in DOMAIN expires : Expired(key) /\ cleaner' = [at |-> "expiry", key |-> key]
          /\ UNCHANGED cachesVars
       \/ /\ cleaner.at = "expiry" /\ cleaner' = [cleaner EXCEPT !.at = "schema"]
          /\ expires' = Without(expires, cleaner.key) /\ UNCHANGED schemaCache
       \/ /\ cleaner.at = "schema" /\ cleaner' = [cleaner EXCEPT !.at = "idle"]
          /\ schemaCache' = Without(schemaCache, cleaner.key) /\ UNCHANGED expires
    /\ UNCHANGED <<registered, clock, resolving, resolves>>

\* A tick is far longer than two stores or two deletions in a row take.
Tick ==
    /\ clock < MaxClock /\ clock' = clock + 1
    /\ cleaner.at = "idle" /\ \A c \in ResolverCallers : resolving[c].at \in {"idle", "check", "fetch"}
    /\ UNCHANGED <<registered, cachesVars, resolving, resolves, cleaner>>

-----------------------------------------------------------------------------
(***************************************************************************)
(* DecodeData, ValidateData and ConvertData, with the schema that the      *)
(* caller has just resolved or registered.  The three decode alike; what   *)
(* they answer differs.  Config.EnableValidation is on, as it is by        *)
(* default: without it ValidateData does nothing.                          *)
(***************************************************************************)
\* The header is taken for one by the first byte and the length alone.
Strips(data) == data.kind \in {"framed", "zero"}
IsFramed(data) == data.kind \in {"framed", "empty"}

\* The IDs that the first bytes may name: in framed data, the writer's.
Named(data) == IF IsFramed(data) THEN {data.writer} ELSE IDs \cup {Len(registered) + 1}

\* The data's schema is looked up when the schema given has another ID.
AsksWithoutID(schema, id) == EnableSchemaEvolution /\ schema.id = NoID
AsksRegistry(schema, id) == EnableSchemaEvolution /\ schema.id # NoID /\ id # schema.id

StartDecode(c) ==
    LET call == resolving[c] IN
    /\ c \in Decoders /\ call.at = "resolved" /\ call.data = NoData
    /\ \E data \in Payloads :
          LET decode == [Idle EXCEPT !.at = "resolved", !.data = data, !.given = call.schema,
                                     !.schema = call.schema, !.since = clock] IN
          \/ /\ Strips(data)
             /\ \E id \in Named(data) :
                  resolving' = [resolving EXCEPT ![c] =
                      IF AsksRegistry(call.schema, id)
                      THEN IF id \in IDs THEN Loading(decode, ByID(id)) ELSE [decode EXCEPT !.at = "failed"]
                      ELSE decode]
          \/ ~Strips(data) /\ resolving' = [resolving EXCEPT ![c] = decode]
    /\ UNCHANGED <<registered, cachesVars, clock, cleaner, resolves>>

\* How the bytes that are left fit the schema that is used.
Fits(data, schema) ==
    IF Strips(data) = IsFramed(data) /\ schema.definition = registered[data.writer] THEN {"wholly"}
    ELSE {"wholly", "partly", "not"}

Decodes(fit) == fit = "wholly" \/ (fit = "partly" /\ ~StrictMode)

\* What is decoded may not be a record; ValidateData passes an error on in
\* strict mode only; ConvertData encodes in the target's schema, which may
\* refuse the record.
DecodeData(fit) == IF Decodes(fit) THEN {"data", "error"} ELSE {"error"}
ValidateData(fit) == {IF a = "data" \/ ~StrictMode THEN "valid" ELSE "error" : a \in DecodeData(fit)}
EncodeData == {"converted", "error"}
ConvertData(fit) == UNION {IF a = "data" THEN EncodeData ELSE {"error"} : a \in DecodeData(fit)}

Decode(c) ==
    LET call == resolving[c]
        used == IF call.at = "failed" THEN call.given ELSE call.schema IN
    /\ call.data # NoData /\ call.at \in {"resolved", "failed"}
    /\ \E fit \in Fits(call.data, used) :
       \E outcome \in DecodeData(fit) \cup ValidateData(fit) \cup ConvertData(fit) :
          resolving' = [resolving EXCEPT ![c] = [Idle EXCEPT !.outcome = outcome]]
    /\ UNCHANGED <<registered, cachesVars, clock, cleaner, resolves>>

ReturnSchema(c) ==
    /\ resolving[c].data = NoData /\ resolving[c].at \in {"resolved", "failed"}
    /\ resolving' = [resolving EXCEPT ![c] = Idle]
    /\ UNCHANGED <<registered, cachesVars, clock, cleaner, resolves>>

-----------------------------------------------------------------------------
(***************************************************************************)
(* SchemaResolverManager: a look under the read lock, and a second one     *)
(* under the write lock, which is held while the resolver is created.      *)
(***************************************************************************)
LookUpResolver(u) ==
    /\ user[u].at = "idle"
    /\ user' = [user EXCEPT ![u] = [at |-> IF resolver = 0 THEN "create" ELSE "done", resolver |-> resolver,
                                    since |-> resolverRemovals]]
    /\ UNCHANGED <<resolver, resolversMade, resolversClosed, resolverRemovals>>

CreateResolver(u) ==
    /\ user[u].at = "create"
    /\ \/ /\ resolver = 0 /\ resolver' = resolversMade + 1 /\ resolversMade' = resolversMade + 1
          /\ user' = [user EXCEPT ![u] = [at |-> "done", resolver |-> resolver', since |-> resolverRemovals]]
       \/ /\ resolver = 0 /\ user' = [user EXCEPT ![u].at = "refused"]     \* GetRegistry fails
          /\ UNCHANGED <<resolver, resolversMade>>
       \/ /\ resolver # 0
          /\ user' = [user EXCEPT ![u] = [at |-> "done", resolver |-> resolver, since |-> resolverRemovals]]
          /\ UNCHANGED <<resolver, resolversMade>>
    /\ UNCHANGED <<resolversClosed, resolverRemovals>>

\* RemoveResolver, and Close for the one name.
RemoveResolver ==
    /\ resolver # 0 /\ resolverRemovals < MaxRemovals
    /\ resolversClosed' = resolversClosed \cup {resolver}
    /\ resolver' = 0 /\ resolverRemovals' = resolverRemovals + 1
    /\ UNCHANGED <<resolversMade, user>>

-----------------------------------------------------------------------------
\* At first the registry holds one schema.
ResolverInit ==
    /\ registered = <<CHOOSE d \in Definitions : TRUE>> /\ clock = 0
    /\ schemaCache = <<>> /\ expires = <<>>
    /\ resolving = [c \in ResolverCallers |-> Idle] /\ resolves = 0
    /\ cleaner = [at |-> "idle", key |-> Latest]
    /\ resolver = 0 /\ resolversMade = 0 /\ resolversClosed = {} /\ resolverRemovals = 0
    /\ user = [u \in ResolverUsers |-> [at |-> "idle", resolver |-> 0, since |-> 0]]

ResolverNext ==
    /\ UNCHANGED resolversVars
    /\ \/ CleanUp \/ Tick
       \/ \E c \in ResolverCallers :
             \/ StartResolve(c) \/ LoadExpiry(c) \/ ForgetSchema(c) \/ ForgetExpiry(c)
             \/ Fetch(c) \/ Register(c) \/ StoreSchema(c) \/ StoreExpiry(c)
             \/ StartDecode(c) \/ Decode(c) \/ ReturnSchema(c)

ResolverManagerNext ==
    /\ UNCHANGED lookupVars
    /\ RemoveResolver \/ \E u \in ResolverUsers : LookUpResolver(u) \/ CreateResolver(u)

-----------------------------------------------------------------------------
(* A schema answered from the caches was cached at most one lifetime       *)
(* before the call began, whatever the clean-up and the other callers do   *)
(* between the loads, unless another caller has cached the key anew in     *)
(* between: then the old schema may be taken with the new expiry.          *)
ServedIsFresh ==
    \A c \in ResolverCallers :
        LET call == resolving[c] IN
        (call.at = "resolved" /\ call.hit /\ ~call.refreshed) => call.since <= call.schema.cached + ResolverTTL

(* What is cached under an ID is the registry's schema of that ID, and     *)
(* carries it.                                                             *)
CachedByID == \A i \in IDs : ByID(i) \in DOMAIN schemaCache =>
    schemaCache[ByID(i)].id = i /\ schemaCache[ByID(i)].definition = registered[i]

(* Framed data is decoded in the schema it was written in when schemas may *)
(* evolve, the schema given has an ID and the registry answers: whether    *)
(* that ID is there depends on whether a registration or a look-up by      *)
(* subject has filled the cache.                                           *)
DecodedAsWritten ==
    \A c \in ResolverCallers :
        LET call == resolving[c] IN
        (call.at = "resolved" /\ EnableSchemaEvolution /\ call.given.id # NoID /\ call.data.kind = "framed") =>
            call.schema.definition = registered[call.data.writer]

(* Users who are answered with no removal in between share one resolver,   *)
(* and the resolver in the map has not been closed.                        *)
ResolverIsShared ==
    /\ resolver \notin resolversClosed
    /\ \A u, v \in ResolverUsers :
          (user[u].at = "done" /\ user[v].at = "done" /\ user[u].since = user[v].since) =>
              user[u].resolver = user[v].resolver
=============================================================================
