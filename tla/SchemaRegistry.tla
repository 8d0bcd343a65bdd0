--------------------------- MODULE SchemaRegistry ---------------------------
(***************************************************************************)
(* The schema registry client (adapters/schema/registry.go): one subject,  *)
(* looked up, registered and deleted through the high-availability client, *)
(* which fails over from node to node, over one Confluent client per node, *)
(* which retries and keeps caches of its own; and the manager that creates *)
(* a client when it is first asked for.                                    *)
(*                                                                         *)
(* The registry service is external: one store behind every node.  A       *)
(* request may fail before or after it takes effect.  A cache is a function*)
(* on the keys it holds; the lookup of any entry may find it expired, and  *)
(* then asks the service.                                                  *)
(***************************************************************************)
EXTENDS Naturals, Sequences, FiniteSets, Functions

CONSTANTS
    RegistryCallers, \* the callers of the high-availability client
    NodeCount,       \* the registries it fails over to
    Schemas,         \* schema texts
    MaxVersions,     \* versions of the subject, at most
    RetryCount,      \* config.RetryCount
    MaxCalls,        \* calls on the client, at most
    Getters          \* the callers of SchemaRegistryManager.GetRegistry

VARIABLES
    versions,      \* the store: Seq of [schema, live]
    ids,           \* the store: the schema of each ID
    writes,        \* how many requests have changed the store
    caches,        \* [nodes -> schemaCache and versionCache of its client]
    sharedCache,   \* the high-availability client's schemaCache
    lastSuccessful,
    caller,        \* [RegistryCallers -> a call under way]
    calls,         \* how many calls have been made
    excused,       \* why the caches may differ from the store, see LatestIsLatest
    configured,    \* the manager's config[name] and registries[name]: NoClient or a client
    registry,
    created,       \* how many clients the manager has created
    removals,      \* how many times the name was removed
    getter         \* [Getters -> a call of GetRegistry]

storeVars == <<versions, ids, writes>>
cacheVars == <<caches, sharedCache, lastSuccessful, excused>>
managerVars == <<configured, registry, created, removals, getter>>
registryVars == <<storeVars, cacheVars, caller, calls, managerVars>>

Nodes == 0..(NodeCount - 1)
ID(i) == <<"id", i>>
Version(v) == <<"version", v>>
Latest == <<"latest", 0>>
NoVersion == <<"no version", 0>>  \* an empty version string: asked for as the latest, cached by itself
Versions == <<"versions", 0>>
SchemaKeys == {ID(i) : i \in 1..MaxVersions} \cup {Version(v) : v \in 1..MaxVersions}
                \cup {Latest, NoVersion}

Put(cache, key, value) == [k \in DOMAIN cache \cup {key} |-> IF k = key THEN value ELSE cache[k]]
Forget(cache, keys) == Restrict(cache, DOMAIN cache \ keys)

Live == {v \in 1..Len(versions) : versions[v].live}
LatestVersion == CHOOSE v \in Live : \A u \in Live : u <= v
IdOf(s) == CHOOSE i \in 1..Len(ids) : ids[i] = s
KnownIds == {ids[i] : i \in 1..Len(ids)}

NoCall == [at |-> "idle", op |-> "get", key |-> Latest, schema |-> "", node |-> 0, tries |-> 0,
           attempt |-> 0, id |-> 0, value |-> {}, since |-> 0]

-----------------------------------------------------------------------------
(***************************************************************************)
(* The service.  A request that finds nothing is a 404: no retry.          *)
(***************************************************************************)
Found(key) ==
    CASE key[1] = "id" -> key[2] <= Len(ids)
      [] key[1] = "version" -> key[2] \in Live
      [] OTHER -> Live # {}

Content(key) ==
    CASE key[1] = "id" -> ids[key[2]]
      [] key[1] = "version" -> versions[key[2]].schema
      [] key[1] = "versions" -> Live
      [] OTHER -> versions[LatestVersion].schema

Registered(s) == \E v \in Live : versions[v].schema = s

Serve(call) ==
    CASE call.op = "register" ->
           /\ ids' = IF call.schema \in KnownIds THEN ids ELSE Append(ids, call.schema)
           /\ versions' = IF Registered(call.schema) THEN versions
                          ELSE Append(versions, [schema |-> call.schema, live |-> TRUE])
           /\ writes' = IF Registered(call.schema) THEN writes ELSE writes + 1
      [] call.op = "delete" ->
           /\ versions' = [versions EXCEPT ![IF call.key = Latest THEN LatestVersion ELSE call.key[2]].live = FALSE]
           /\ writes' = writes + 1
           /\ UNCHANGED ids
      [] OTHER -> UNCHANGED storeVars

Served(call) ==
    CASE call.op = "register" -> [call EXCEPT !.id = CHOOSE i \in 1..Len(ids') : ids'[i] = call.schema,
                                              !.value = call.schema]
      [] call.op = "delete" -> call
      [] OTHER -> [call EXCEPT !.value = Content(call.key),
                     !.id = IF call.key \in {Latest, NoVersion} \/ call.key[1] = "version"
                            THEN IdOf(Content(call.key)) ELSE 0]

(***************************************************************************)
(* A call on the high-availability client: its cache, then the nodes in    *)
(* turn from the last successful one.                                      *)
(***************************************************************************)
StartCall(c) ==
    /\ caller[c].at = "idle" /\ calls < MaxCalls /\ calls' = calls + 1
    /\ \E op \in {"get", "register", "delete"}, key \in SchemaKeys \cup {Versions}, s \in Schemas :
          /\ op = "register" => key = Latest /\ Len(versions) < MaxVersions
          /\ op = "delete" => key = Latest \/ key[1] = "version"
          /\ op # "register" => s = CHOOSE x \in Schemas : TRUE
          /\ ~(op = "get" /\ key \in DOMAIN sharedCache)      \* a hit is answered at once
          /\ caller' = [caller EXCEPT ![c] = [NoCall EXCEPT !.at = "node", !.op = op, !.key = key,
                                                 !.schema = s, !.node = lastSuccessful]]
    /\ UNCHANGED <<storeVars, cacheVars>> /\ UNCHANGED managerVars

\* Two nodes have served: the caches of the first know nothing of what went through the second.
Switches(n) == n # lastSuccessful

HitNodeCache(c) ==
    LET call == caller[c] IN
    /\ call.at = "node" /\ call.op = "get" /\ call.key \in DOMAIN caches[call.node]
    /\ caller' = [caller EXCEPT ![c].at = "share", ![c].value = caches[call.node][call.key],
                                ![c].since = writes]
    /\ excused' = (excused \/ \E d \in RegistryCallers : caller[d].at = "answer" /\ caller[d].op # "get")
    /\ UNCHANGED <<storeVars, caches, sharedCache, lastSuccessful>> /\ UNCHANGED <<calls, managerVars>>

Request(c) ==
    LET call == caller[c] IN
    /\ call.at = "node"
    /\ call.op = "register" => Len(versions) < MaxVersions
    /\ call.op = "register" \/ Found(call.key)
    /\ Serve(call)
    /\ \/ /\ caller' = [caller EXCEPT ![c] = [Served(call) EXCEPT !.at = "answer", !.since = writes']]
          /\ UNCHANGED excused
       \/ /\ caller' = [caller EXCEPT ![c].at = "failed"]  \* the answer is lost
          /\ excused' = (excused \/ call.op # "get")
    /\ UNCHANGED <<caches, sharedCache, lastSuccessful>> /\ UNCHANGED <<calls, managerVars>>

RequestFails(c) ==
    LET call == caller[c] IN
    /\ call.at = "node"
    /\ \/ caller' = [caller EXCEPT ![c].at = "failed"]
       \/ /\ call.op # "register" /\ ~Found(call.key)      \* a 404 ends the attempts
          /\ caller' = [caller EXCEPT ![c].at = "failed", ![c].attempt = RetryCount]
    /\ UNCHANGED <<storeVars, cacheVars>> /\ UNCHANGED <<calls, managerVars>>

\* The next attempt on the node, the next node, or the end of the call; a
\* deletion forgets in the shared cache whether or not it succeeded.
FailOver(c) ==
    LET call == caller[c] IN
    /\ call.at = "failed"
    /\ IF call.attempt < RetryCount
       THEN caller' = [caller EXCEPT ![c].at = "node", ![c].attempt = @ + 1]
       ELSE IF call.tries + 1 < NodeCount
            THEN caller' = [caller EXCEPT ![c].at = "node", ![c].attempt = 0, ![c].tries = @ + 1,
                                          ![c].node = (@ + 1) % NodeCount]
            ELSE caller' = [caller EXCEPT ![c] = NoCall]
    /\ sharedCache' = IF caller'[c].at = "idle" /\ call.op = "delete"
                      THEN Forget(sharedCache, {call.key, Latest}) ELSE sharedCache
    /\ UNCHANGED <<storeVars, caches, lastSuccessful, excused>> /\ UNCHANGED <<calls, managerVars>>

(***************************************************************************)
(* The node's client takes the answer into its caches; the request is      *)
(* excused when another has changed the store meanwhile, and so is the     *)
(* registration of an earlier schema, which is cached as the latest.       *)
(***************************************************************************)
\* A deletion that forgets the version but not the latest.
CachedByVersion(cache, call) ==
    CASE call.op = "register" -> Forget(Put(Put(cache, ID(call.id), call.value), Latest, call.value), {Versions})
      [] call.op = "delete" -> Forget(cache, {Versions, call.key})
      [] call.op = "get" /\ call.id = 0 -> Put(cache, call.key, call.value)
      [] OTHER -> Put(Put(cache, call.key, call.value), ID(call.id), call.value)

Cached(cache, call) ==
    CASE call.op = "register" -> Forget(Put(Put(cache, ID(call.id), call.value), Latest, call.value), {Versions})
      [] call.op = "delete" -> Forget(cache, {Versions, call.key, Latest})
      [] call.op = "get" /\ call.id = 0 -> Put(cache, call.key, call.value)
      [] OTHER -> Put(Put(cache, call.key, call.value), ID(call.id), call.value)

Stale(call) ==
    \/ call.since # writes
    \/ call.op = "register" /\ (Live = {} \/ versions[LatestVersion].schema # call.value)

TakeAnswer(c) ==
    LET call == caller[c] IN
    /\ call.at = "answer"
    /\ caches' = [caches EXCEPT ![call.node] = Cached(@, call)]
    /\ caller' = [caller EXCEPT ![c].at = "share"]
    /\ excused' = (excused \/ Stale(call))
    /\ UNCHANGED <<storeVars, sharedCache, lastSuccessful>> /\ UNCHANGED <<calls, managerVars>>

\* executeWithFailover remembers the node, and the call's result goes into the shared cache.
ShareAnswer(c) ==
    LET call == caller[c] IN
    /\ call.at = "share"
    /\ lastSuccessful' = call.node
    /\ sharedCache' = CASE call.op = "register" -> Put(Put(sharedCache, ID(call.id), call.value), Latest, call.value)
                        [] call.op = "delete" -> Forget(sharedCache, {call.key, Latest})
                        [] call.op = "get" /\ call.key = Versions -> sharedCache
                        [] OTHER -> Put(sharedCache, call.key, call.value)
    /\ excused' = (excused \/ Stale(call) \/ Switches(call.node))
    /\ caller' = [caller EXCEPT ![c] = NoCall]
    /\ UNCHANGED <<storeVars, caches>> /\ UNCHANGED <<calls, managerVars>>

-----------------------------------------------------------------------------
(***************************************************************************)
(* The manager.  GetRegistry looks under the read lock, and again under the*)
(* write lock before it creates a client from the configuration it has read.*)
(***************************************************************************)
AddRegistry ==
    /\ ~configured /\ configured' = TRUE
    /\ UNCHANGED <<registry, created, removals, getter>>

RemoveRegistry ==
    /\ removals < 1      \* one removal is enough for every order
    /\ configured' = FALSE /\ registry' = 0 /\ removals' = removals + 1
    /\ UNCHANGED <<created, getter>>

LookUpRegistry(g) ==
    /\ getter[g].at = "idle"
    /\ getter' = [getter EXCEPT ![g] =
           IF registry # 0 THEN [at |-> "done", client |-> registry, since |-> removals]
           ELSE [at |-> IF configured THEN "create" ELSE "refused", client |-> 0, since |-> removals]]
    /\ UNCHANGED <<configured, registry, created, removals>>

\* The second look left out.
CreateRegistryBlindly(g) ==
    /\ getter[g].at = "create"
    /\ registry' = created + 1 /\ created' = created + 1
    /\ getter' = [getter EXCEPT ![g] = [at |-> "done", client |-> registry', since |-> removals]]
    /\ UNCHANGED <<configured, removals>>

CreateRegistry(g) ==
    /\ getter[g].at = "create"
    /\ registry' = IF registry = 0 THEN created + 1 ELSE registry
    /\ created' = IF registry = 0 THEN created + 1 ELSE created
    /\ getter' = [getter EXCEPT ![g] = [at |-> "done", client |-> registry', since |-> removals]]
    /\ UNCHANGED <<configured, removals>>

CallStep(c) == StartCall(c) \/ HitNodeCache(c) \/ Request(c) \/ RequestFails(c) \/ FailOver(c)
                  \/ TakeAnswer(c) \/ ShareAnswer(c)

ManagerNext ==
    /\ \/ AddRegistry \/ RemoveRegistry
       \/ \E g \in Getters : LookUpRegistry(g) \/ CreateRegistry(g)
    /\ UNCHANGED <<storeVars, cacheVars, caller, calls>>

RegistryInit ==
    /\ versions = <<>> /\ ids = <<>> /\ writes = 0
    /\ caches = [n \in Nodes |-> <<>>] /\ sharedCache = <<>> /\ lastSuccessful = 0 /\ excused = FALSE
    /\ caller = [c \in RegistryCallers |-> NoCall] /\ calls = 0
    /\ configured = FALSE /\ registry = 0 /\ created = 0 /\ removals = 0
    /\ getter = [g \in Getters |-> [at |-> "idle", client |-> 0, since |-> 0]]

RegistryNext == \E c \in RegistryCallers : CallStep(c)

-----------------------------------------------------------------------------
(* A schema cached under an ID, by any node's client or shared, is the     *)
(* schema that the service gave that ID, whatever fails over or races.  A  *)
(* latest schema or a list of versions that is cached, by the client or    *)
(* shared, is the service's, unless a change went through between a request*)
(* and the use of its answer, an answer was lost, another node has served, *)
(* or an earlier schema was registered again.                              *)
CachesFollowRegistry ==
    /\ \A i \in 1..Len(ids), cache \in {caches[n] : n \in Nodes} \cup {sharedCache} :
          ID(i) \in DOMAIN cache => cache[ID(i)] = ids[i]
    /\ (~excused /\ \A c \in RegistryCallers : caller[c].at \in {"idle", "node"}) =>
          LET cache == caches[lastSuccessful] IN
          /\ Latest \in DOMAIN cache => Live # {} /\ cache[Latest] = versions[LatestVersion].schema
          /\ Latest \in DOMAIN sharedCache => Live # {} /\ sharedCache[Latest] = versions[LatestVersion].schema
          /\ Versions \in DOMAIN cache => cache[Versions] = Live

(* Callers of GetRegistry who are answered with no removal in between get  *)
(* one and the same client, although each looks and creates under different*)
(* locks.                                                                  *)
ClientIsShared ==
    \A g, h \in Getters :
        (getter[g].at = "done" /\ getter[h].at = "done" /\ getter[g].since = getter[h].since) =>
            getter[g].client = getter[h].client
=============================================================================
