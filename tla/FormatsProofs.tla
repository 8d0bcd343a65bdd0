---------------------------- MODULE FormatsProofs -----------------------------
(***************************************************************************)
(* Proofs about the schema registry client, the schema resolver and their  *)
(* managers: what is cached follows the registry, and data is decoded in   *)
(* the schema it was written in (RegistrySafety).  Proofs about the Avro   *)
(* adapters: what is read back was written (AvroSafety, at the end).       *)
(*                                                                         *)
(* The registry.  Neither half of CachesFollowRegistry is inductive.  What *)
(* is cached under an ID needs that an answer on its way into the caches   *)
(* is of that ID (HoldsInv).  That the latest is the latest needs what the *)
(* caches owe while a change is under way, which is nothing until the      *)
(* answer is taken and shared, and what an answer is worth meanwhile,      *)
(* which is nothing once the store has been written again (CurrentInv).    *)
(*                                                                         *)
(* The resolver.  A cached schema and its expiry are two maps that are     *)
(* written one after the other; the invariant says which calls are between *)
(* the two and what they may still write (ResolverInv).                    *)
(*                                                                         *)
(* Avro.  The encoder's invariant says which part of what was handed is in *)
(* the buffer and which is out (Collects).  The decoder's is of one read:  *)
(* a choice of schemas leaves the records alone, a read the schemas.  The  *)
(* container's is about the file: off[i] objects are in the first i        *)
(* tokens, and at each place where a header, a block or an end may begin   *)
(* one does, of which the last tokens may be missing (Shape).  That is     *)
(* what a cut at any token and a write behind a whole file both keep, and  *)
(* what the reader's places, the last success and the first end are told   *)
(* against (Known).                                                        *)
(*                                                                         *)
(* The empty string, the schema of a call that has none and the codec of a *)
(* writer that has none, is written Nothing here: the SMT backend cannot   *)
(* read it.                                                                *)
(***************************************************************************)
EXTENDS Formats, WellFoundedInduction, SequenceTheorems, TLAPS

-----------------------------------------------------------------------------
(* The manager of registries.                                              *)

Gets == [at : {"idle", "create", "done", "refused"}, client : Nat, since : Nat]

(* Whoever has been answered since the last removal holds the client that  *)
(* is in the map, and whoever was answered before holds what others got at *)
(* the time.                                                               *)
ManagerInv ==
  /\ registry \in Nat /\ registriesCreated \in Nat /\ removals \in Nat
  /\ getter \in [Getters -> Gets]
  /\ \A g \in Getters : getter[g].at = "done" =>
        /\ getter[g].since <= removals
        /\ getter[g].since = removals => getter[g].client = registry /\ registry # 0
  /\ R!ClientIsShared

LEMMA ManagerInitially == R!RegistryInit => ManagerInv
BY DEF R!RegistryInit, ManagerInv, R!ClientIsShared, Gets

LEMMA ManagerStep == ManagerInv /\ R!ManagerNext => ManagerInv'
<1> SUFFICES ASSUME ManagerInv, R!ManagerNext PROVE ManagerInv'
  OBVIOUS
<1>1. CASE R!AddRegistry
  BY <1>1 DEF ManagerInv, R!AddRegistry, R!ClientIsShared
<1>2. CASE R!RemoveRegistry
  BY <1>2 DEF ManagerInv, R!RemoveRegistry, R!ClientIsShared, Gets
<1>3. ASSUME NEW g \in Getters, R!LookUpRegistry(g) PROVE ManagerInv'
  BY <1>3 DEF ManagerInv, R!LookUpRegistry, R!ClientIsShared, Gets
<1>4. ASSUME NEW g \in Getters, R!CreateRegistry(g) PROVE ManagerInv'
  BY <1>4 DEF ManagerInv, R!CreateRegistry, R!ClientIsShared, Gets
<1> QED BY <1>1, <1>2, <1>3, <1>4 DEF R!ManagerNext

-----------------------------------------------------------------------------
(* The manager of resolvers.                                               *)

Uses == [at : {"idle", "create", "done", "refused"}, resolver : Nat, since : Nat]

\* The same of resolvers, and those closed are among those made.
ResolversInv ==
  /\ resolver \in Nat /\ resolversMade \in Nat /\ resolverRemovals \in Nat
  /\ resolver <= resolversMade
  /\ resolversClosed \subseteq 1..resolversMade
  /\ user \in [ResolverUsers -> Uses]
  /\ \A u \in ResolverUsers : user[u].at = "done" =>
        /\ user[u].since <= resolverRemovals
        /\ user[u].since = resolverRemovals => user[u].resolver = resolver /\ resolver # 0
  /\ S!ResolverIsShared

LEMMA ResolversInitially == S!ResolverInit => ResolversInv
BY DEF S!ResolverInit, ResolversInv, S!ResolverIsShared, Uses

LEMMA ResolversStep == ResolversInv /\ S!ResolverManagerNext => ResolversInv'
<1> SUFFICES ASSUME ResolversInv, S!ResolverManagerNext PROVE ResolversInv'
  OBVIOUS
<1>1. CASE S!RemoveResolver
  BY <1>1 DEF ResolversInv, S!RemoveResolver, S!ResolverIsShared, Uses
<1>2. ASSUME NEW u \in ResolverUsers, S!LookUpResolver(u) PROVE ResolversInv'
  BY <1>2 DEF ResolversInv, S!LookUpResolver, S!ResolverIsShared, Uses
<1>3. ASSUME NEW u \in ResolverUsers, S!CreateResolver(u) PROVE ResolversInv'
  BY <1>3 DEF ResolversInv, S!CreateResolver, S!ResolverIsShared, Uses
<1> QED BY <1>1, <1>2, <1>3 DEF S!ResolverManagerNext

-----------------------------------------------------------------------------
(* The resolver: its caches.                                               *)

Nothing == ""
ResolverKeys == {S!ByID(i) : i \in Nat} \cup {S!Latest}
CachedSchemas == [id : Nat, definition : Definitions \cup {Nothing}, cached : Nat]
SchemaData == [writer : Nat, kind : {"framed", "empty", "zero", "plain"}]

Resolutions ==
  [at : {"idle", "check", "forgetSchema", "forgetBoth", "forgetExpiry", "fetch", "store", "storeExpiry",
         "resolved", "failed"},
   key : ResolverKeys, schema : CachedSchemas, hit : BOOLEAN, refreshed : BOOLEAN, since : Nat,
   stores : Seq(ResolverKeys), expiry : Nat, data : SchemaData, given : CachedSchemas,
   outcome : {Nothing, "data", "valid", "converted", "error"}]

Cleanings == [at : {"idle", "expiry", "schema"}, key : ResolverKeys]

ResolverTypes ==
  /\ registered \in Seq(Definitions) /\ registered # <<>> /\ clock \in Nat
  /\ \A k \in DOMAIN schemaCache : k \in ResolverKeys /\ schemaCache[k] \in CachedSchemas
  /\ \A k \in DOMAIN expires : k \in ResolverKeys /\ expires[k] \in Nat
  /\ resolving \in [ResolverCallers -> Resolutions] /\ cleaner \in Cleanings

\* A schema with an ID is the registry's schema of that ID.
Genuine(schema) == schema.id # 0 => schema.id \in S!IDs /\ schema.definition = registered[schema.id]

\* What is cached under a key, or about to be, carries the ID that the key names.
Suits(key, schema) == \A i \in Nat : key = S!ByID(i) =>
  i \in S!IDs /\ schema.id = i /\ schema.definition = registered[i]

\* An expiry is no later than a lifetime after the schema beside it was cached.
Timely(key, schema) == key \in DOMAIN expires => expires[key] <= schema.cached + ResolverTTL

(* The caches: the two parts of an entry are stored one after the other,   *)
(* and yet agree.                                                          *)
CachesInv ==
  /\ \A k \in DOMAIN schemaCache :
        Genuine(schemaCache[k]) /\ Suits(k, schemaCache[k]) /\ Timely(k, schemaCache[k])
  /\ \A k \in DOMAIN expires : expires[k] <= clock + ResolverTTL

\* A call under way has a schema of the registry in hand.
CallGenuine(call) ==
  /\ Genuine(call.schema) /\ Genuine(call.given)
  /\ \A i \in Nat : call.key = S!ByID(i) => i \in S!IDs
  /\ call.at \in {"store", "storeExpiry"} =>
        /\ call.stores # <<>>
        /\ \A j \in 1..Len(call.stores) : Suits(call.stores[j], call.schema)

\* It is no later than a lifetime after the schema was cached, as far as the
\* expiry in the other map can tell.
CallTimely(call) ==
  /\ call.since <= clock /\ (call.hit => call.at = "resolved")
  /\ call.at = "storeExpiry" =>
        /\ call.expiry = clock + ResolverTTL
        /\ call.stores[1] \in DOMAIN schemaCache =>
              call.expiry <= schemaCache[call.stores[1]].cached + ResolverTTL
  /\ call.at = "check" /\ ~call.refreshed => Timely(call.key, call.schema)
  /\ call.at = "resolved" /\ call.hit /\ ~call.refreshed => call.since <= call.schema.cached + ResolverTTL

\* Framed data whose schema is looked up is looked up by its writer's ID.
Evolves(call) == EnableSchemaEvolution /\ call.given.id # 0 /\ call.data.kind = "framed"
CallWritten(call) == Evolves(call) =>
  /\ call.data.writer \in S!IDs
  /\ call.at \in {"check", "forgetSchema", "forgetBoth", "forgetExpiry", "fetch"} =>
        call.key = S!ByID(call.data.writer)
  /\ call.at \in {"check", "store", "storeExpiry", "resolved"} =>
        call.schema.definition = registered[call.data.writer]

Sound(call) == CallGenuine(call) /\ CallTimely(call) /\ CallWritten(call)

ResolverInv == ResolverTypes /\ CachesInv /\ \A c \in ResolverCallers : Sound(resolving[c])

LEMMA ResolverKeysDiffer ==
  /\ \A i \in Nat : S!ByID(i) # S!Latest /\ S!ByID(i)[2] = i /\ S!ByID(i) \in ResolverKeys
  /\ \A i, j \in Nat : S!ByID(i) = S!ByID(j) => i = j
  /\ S!Latest \in ResolverKeys
BY DEF S!ByID, S!Latest, ResolverKeys

LEMMA IDsAreNumbers == ASSUME ResolverTypes PROVE S!IDs \subseteq Nat /\ Len(registered) \in S!IDs
                                                /\ \A i \in S!IDs : registered[i] \in Definitions
BY DEF ResolverTypes, S!IDs

LEMMA IdleForm ==
  S!Idle = [at |-> "idle", key |-> S!Latest, schema |-> S!NoSchema, hit |-> FALSE, refreshed |-> FALSE,
            since |-> 0, stores |-> <<>>, expiry |-> 0, data |-> S!NoData, given |-> S!NoSchema,
            outcome |-> Nothing]
BY Zenon DEF S!Idle, Nothing

LEMMA NoSchemaForm == S!NoSchema = [id |-> 0, definition |-> Nothing, cached |-> 0]
BY Zenon DEF S!NoSchema, S!NoID, Nothing

LEMMA IdleIsTyped == S!Idle \in Resolutions
BY IdleForm, NoSchemaForm, ResolverKeysDiffer DEF Resolutions, CachedSchemas, S!NoData, SchemaData, S!NoID

\* A caller between two calls, whatever the time.
LEMMA IdleIsSound ==
  ASSUME NEW call \in Resolutions, call.at = "idle", call.schema = S!NoSchema, call.given = S!NoSchema,
         call.key = S!Latest, call.since <= clock, ~call.hit
  PROVE  Sound(call)
BY NoSchemaForm, ResolverKeysDiffer DEF Sound, CallGenuine, CallTimely, CallWritten, Genuine, Evolves

LEMMA ResolverInitially == S!ResolverInit => ResolverInv
<1> SUFFICES ASSUME S!ResolverInit PROVE ResolverInv
  OBVIOUS
<1>1. PICK d \in Definitions : registered = <<d>>
  BY ResolverAssumption DEF S!ResolverInit
<1>2. registered \in Seq(Definitions) /\ registered # <<>> /\ Len(registered) = 1 /\ clock \in Nat /\ clock = 0
  BY <1>1 DEF S!ResolverInit
<1>3. schemaCache = <<>> /\ expires = <<>> /\ DOMAIN schemaCache = {} /\ DOMAIN expires = {}
  <2>1. DOMAIN <<>> = {}
    OBVIOUS
  <2> QED BY <2>1 DEF S!ResolverInit
<1>4. resolving = [c \in ResolverCallers |-> S!Idle] /\ cleaner = [at |-> "idle", key |-> S!Latest]
  BY DEF S!ResolverInit
<1>5. ResolverTypes
  BY <1>2, <1>3, <1>4, IdleIsTyped, ResolverKeysDiffer DEF ResolverTypes, Cleanings
<1>6. CachesInv
  BY <1>3, ResolverKeysDiffer DEF CachesInv
<1>7. Sound(S!Idle)
  BY <1>2, IdleForm, IdleIsTyped, IdleIsSound
<1> QED BY <1>4, <1>5, <1>6, <1>7 DEF ResolverInv

-----------------------------------------------------------------------------
(* The steps that only look and forget.                                    *)

Fewer(new, old) == DOMAIN new \subseteq DOMAIN old /\ \A k \in DOMAIN new : new[k] = old[k]

\* A step that caches nothing keeps the invariant if the calls are sound
\* that it leaves.
LEMMA ForgettingKeepsResolver ==
  ASSUME ResolverInv, UNCHANGED <<registered, clock>>, cleaner' \in Cleanings,
         Fewer(schemaCache', schemaCache), Fewer(expires', expires),
         resolving' \in [ResolverCallers -> Resolutions],
         \A d \in ResolverCallers : Sound(resolving'[d])
  PROVE  ResolverInv'
<1>1. ResolverTypes'
  BY DEF ResolverInv, ResolverTypes, Fewer
<1>2. CachesInv'
  BY DEF ResolverInv, CachesInv, Genuine, Suits, Timely, S!IDs, Fewer
<1>3. ASSUME NEW call \in Resolutions, Sound(call) PROVE Sound(call)'
  <2>1. CallGenuine(call)' /\ CallWritten(call)'
    BY <1>3 DEF Sound, CallGenuine, CallWritten, Evolves, Genuine, Suits, S!IDs
  <2>2. CallTimely(call)'
    BY <1>3 DEF Sound, CallTimely, Timely, Fewer
  <2> QED BY <2>1, <2>2 DEF Sound
<1>4. ASSUME NEW d \in ResolverCallers PROVE Sound(resolving[d])'
  BY <1>3
<1> QED BY <1>1, <1>2, <1>4 DEF ResolverInv

\* What every step needs of the call that it moves.
LEMMA CallFacts ==
  ASSUME ResolverInv, NEW c \in ResolverCallers
  PROVE  /\ resolving[c] \in Resolutions /\ Sound(resolving[c]) /\ clock \in Nat
         /\ DOMAIN resolving = ResolverCallers
BY DEF ResolverInv, ResolverTypes

LEMMA FewerOfItself == /\ Fewer(schemaCache, schemaCache) /\ Fewer(expires, expires)
                       /\ \A key : Fewer(S!Without(schemaCache, key), schemaCache)
                                     /\ Fewer(S!Without(expires, key), expires)
BY DEF Fewer, S!Without, S!Restrict

\* The step of one caller that leaves the caches or forgets some of them.
LEMMA OneCallKeepsResolver ==
  ASSUME ResolverInv, NEW c \in ResolverCallers, NEW call \in Resolutions, Sound(call),
         resolving' = [resolving EXCEPT ![c] = call], UNCHANGED <<registered, clock, cleaner>>,
         Fewer(schemaCache', schemaCache), Fewer(expires', expires)
  PROVE  ResolverInv'
<1>1. resolving' \in [ResolverCallers -> Resolutions] /\ \A d \in ResolverCallers : Sound(resolving'[d])
  BY DEF ResolverInv, ResolverTypes
<1>2. cleaner' \in Cleanings
  BY DEF ResolverInv, ResolverTypes
<1> QED BY <1>1, <1>2, ForgettingKeepsResolver

\* A call that looks a key up, as what it was before or after its data was read.
LEMMA LoadingIsSound ==
  ASSUME ResolverInv, NEW call \in Resolutions, NEW key \in ResolverKeys,
         call.at \in {"idle", "resolved"}, call.refreshed = FALSE, ~call.hit, call.since <= clock,
         Genuine(call.schema), Genuine(call.given),
         \A i \in Nat : key = S!ByID(i) => i \in S!IDs,
         Evolves(call) => key = S!ByID(call.data.writer) /\ call.data.writer \in S!IDs
  PROVE  S!Loading(call, key) \in Resolutions /\ Sound(S!Loading(call, key))
<1> DEFINE new == S!Loading(call, key)
<1>1. CASE key \in DOMAIN schemaCache
  <2> DEFINE cached == schemaCache[key]
  <2>1. cached \in CachedSchemas /\ Genuine(cached) /\ Suits(key, cached) /\ Timely(key, cached)
    BY <1>1 DEF ResolverInv, ResolverTypes, CachesInv
  <2> HIDE DEF cached
  <2>2. new = [call EXCEPT !.at = "check", !.key = key, !.schema = cached]
    BY <1>1 DEF S!Loading, cached
  <2>3. /\ new \in Resolutions
        /\ new.at = "check" /\ new.key = key /\ new.schema = cached /\ new.given = call.given
        /\ new.data = call.data /\ new.since = call.since /\ new.hit = call.hit
    BY <2>1, <2>2 DEF Resolutions
  <2> HIDE DEF new
  <2>4. CallGenuine(new) /\ CallTimely(new)
    BY <2>1, <2>3 DEF CallGenuine, CallTimely
  <2>5. CallWritten(new)
    <3> SUFFICES ASSUME Evolves(new) PROVE CallWritten(new)
      BY DEF CallWritten
    <3>1. key = S!ByID(call.data.writer) /\ call.data.writer \in S!IDs
      BY <2>3 DEF Evolves
    <3>2. call.data.writer \in Nat
      BY DEF Resolutions, SchemaData
    <3>3. cached.definition = registered[call.data.writer]
      BY <2>1, <3>1, <3>2 DEF Suits
    <3> QED BY <2>3, <3>1, <3>3 DEF CallWritten
  <2> QED BY <2>3, <2>4, <2>5 DEF Sound, new
<1>2. CASE key \notin DOMAIN schemaCache
  <2>2. new = [call EXCEPT !.at = "fetch", !.key = key]
    BY <1>2 DEF S!Loading
  <2>3. /\ new \in Resolutions
        /\ new.at = "fetch" /\ new.key = key /\ new.schema = call.schema /\ new.given = call.given
        /\ new.data = call.data /\ new.since = call.since /\ new.hit = call.hit
    BY <2>2 DEF Resolutions
  <2> HIDE DEF new
  <2>4. CallGenuine(new) /\ CallTimely(new)
    BY <2>3 DEF CallGenuine, CallTimely
  <2>5. CallWritten(new)
    BY <2>3 DEF CallWritten, Evolves
  <2> QED BY <2>3, <2>4, <2>5 DEF Sound, new
<1> QED BY <1>1, <1>2

LEMMA StartResolveKeeps ==
  ASSUME ResolverInv, NEW c \in ResolverCallers, S!StartResolve(c) PROVE ResolverInv'
<1>1. PICK key \in {S!ByID(i) : i \in S!IDs} \cup {S!Latest} :
          resolving' = [resolving EXCEPT ![c] = S!Loading([S!Idle EXCEPT !.since = clock], key)]
  BY DEF S!StartResolve
<1>2. key \in ResolverKeys /\ \A i \in Nat : key = S!ByID(i) => i \in S!IDs
  BY <1>1, ResolverKeysDiffer, IDsAreNumbers DEF ResolverInv
<1> DEFINE call == [S!Idle EXCEPT !.since = clock]
<1>3. /\ call \in Resolutions /\ call.at = "idle" /\ call.refreshed = FALSE /\ ~call.hit /\ call.since = clock
      /\ call.schema = S!NoSchema /\ call.given = S!NoSchema /\ clock \in Nat
  BY IdleIsTyped, IdleForm, CallFacts DEF Resolutions
<1> HIDE DEF call
<1>8. call.since <= clock
  BY <1>3
<1>4. Genuine(call.schema) /\ Genuine(call.given) /\ ~Evolves(call)
  BY <1>3, NoSchemaForm DEF Genuine, Evolves
<1>5. S!Loading(call, key) \in Resolutions /\ Sound(S!Loading(call, key))
  BY <1>2, <1>3, <1>8, <1>4, LoadingIsSound
<1>6. resolving' = [resolving EXCEPT ![c] = S!Loading(call, key)]
  BY <1>1 DEF call
<1>7. /\ UNCHANGED <<registered, clock, cleaner>>
      /\ Fewer(schemaCache', schemaCache) /\ Fewer(expires', expires)
  BY FewerOfItself DEF S!StartResolve, S!cachesVars
<1> QED BY <1>5, <1>6, <1>7, OneCallKeepsResolver

\* An entry is answered when its expiry is not over: it is no older than a lifetime.
LEMMA LoadExpiryKeeps ==
  ASSUME ResolverInv, NEW c \in ResolverCallers, S!LoadExpiry(c) PROVE ResolverInv'
<1> DEFINE call == resolving[c]
<1>1. call \in Resolutions /\ Sound(call) /\ call.at = "check" /\ clock \in Nat
  BY CallFacts DEF S!LoadExpiry
<1>2. /\ UNCHANGED <<registered, clock, cleaner>>
      /\ Fewer(schemaCache', schemaCache) /\ Fewer(expires', expires)
  BY FewerOfItself DEF S!LoadExpiry, S!cachesVars
<1>3. ASSUME NEW new \in Resolutions, resolving' = [resolving EXCEPT ![c] = new],
             \/ \E at \in {"forgetSchema", "forgetBoth"} : new = [call EXCEPT !.at = at]
             \/ /\ call.key \in DOMAIN expires /\ ~S!Expired(call.key)
                /\ new = [call EXCEPT !.at = "resolved", !.hit = TRUE]
      PROVE  ResolverInv'
  <2>1. CASE \E at \in {"forgetSchema", "forgetBoth"} : new = [call EXCEPT !.at = at]
    <3>1. /\ new.at \in {"forgetSchema", "forgetBoth"} /\ new.key = call.key /\ new.schema = call.schema
          /\ new.given = call.given /\ new.data = call.data /\ new.since = call.since /\ new.hit = call.hit
      BY <2>1, <1>1 DEF Resolutions
    <3>2. Sound(new)
      BY <3>1, <1>1 DEF Sound, CallGenuine, CallTimely, CallWritten, Evolves
    <3> QED BY <3>2, <1>2, <1>3, OneCallKeepsResolver
  <2>2. CASE /\ call.key \in DOMAIN expires /\ ~S!Expired(call.key)
             /\ new = [call EXCEPT !.at = "resolved", !.hit = TRUE]
    <3>1. /\ new.at = "resolved" /\ new.key = call.key /\ new.schema = call.schema
          /\ new.given = call.given /\ new.data = call.data /\ new.since = call.since
          /\ new.refreshed = call.refreshed
      BY <2>2, <1>1 DEF Resolutions
    <3>2. CallGenuine(new) /\ CallWritten(new)
      BY <3>1, <1>1 DEF Sound, CallGenuine, CallWritten, Evolves
    <3>3. ~call.refreshed => clock <= expires[call.key] /\ expires[call.key] <= call.schema.cached + ResolverTTL
      <4>1. expires[call.key] \in Nat
        BY <2>2 DEF ResolverInv, ResolverTypes
      <4> QED BY <4>1, <2>2, <1>1 DEF S!Expired, Sound, CallTimely, Timely
    <3>4. call.since \in Nat /\ call.since <= clock /\ call.schema.cached + ResolverTTL \in Nat
      <4>1. call.since \in Nat /\ call.schema.cached \in Nat
        BY <1>1 DEF Resolutions, CachedSchemas
      <4>2. call.since <= clock
        BY <1>1 DEF Sound, CallTimely
      <4> QED BY <4>1, <4>2, ResolverAssumption
    <3>5. ~call.refreshed => call.since <= call.schema.cached + ResolverTTL
      <4>1. call.key \in DOMAIN expires => expires[call.key] \in Nat
        BY DEF ResolverInv, ResolverTypes
      <4> QED BY <3>3, <3>4, <4>1, <1>1, <2>2
    <3>6. CallTimely(new)
      BY <3>1, <3>4, <3>5 DEF CallTimely
    <3> QED BY <3>2, <3>6, <1>2, <1>3, OneCallKeepsResolver DEF Sound
  <2> QED BY <1>3, <2>1, <2>2
<1>4. \/ \E at \in {"forgetSchema", "forgetBoth"} : resolving' = [resolving EXCEPT ![c] = [call EXCEPT !.at = at]]
      \/ /\ call.key \in DOMAIN expires /\ ~S!Expired(call.key)
         /\ resolving' = [resolving EXCEPT ![c] = [call EXCEPT !.at = "resolved", !.hit = TRUE]]
  BY DEF S!LoadExpiry, S!Call
<1>5. /\ \A at \in {"forgetSchema", "forgetBoth"} : [call EXCEPT !.at = at] \in Resolutions
      /\ [call EXCEPT !.at = "resolved", !.hit = TRUE] \in Resolutions
  BY <1>1 DEF Resolutions
<1> QED BY <1>3, <1>4, <1>5

LEMMA ForgetSchemaKeeps ==
  ASSUME ResolverInv, NEW c \in ResolverCallers, S!ForgetSchema(c) PROVE ResolverInv'
<1> DEFINE call == resolving[c]
<1>1. call \in Resolutions /\ Sound(call) /\ call.at \in {"forgetSchema", "forgetBoth"}
  BY CallFacts DEF S!ForgetSchema
<1>2. PICK at \in {"forgetExpiry", "fetch"} : resolving' = [resolving EXCEPT ![c] = [call EXCEPT !.at = at]]
  BY DEF S!ForgetSchema, S!Call
<1> DEFINE new == [call EXCEPT !.at = at]
<1>3. /\ new \in Resolutions /\ new.at = at /\ new.key = call.key /\ new.schema = call.schema
      /\ new.given = call.given /\ new.data = call.data /\ new.since = call.since /\ new.hit = call.hit
  BY <1>1 DEF Resolutions
<1>4. resolving' = [resolving EXCEPT ![c] = new]
  BY <1>2
<1> HIDE DEF new
<1>5. Sound(new)
  BY <1>1, <1>3 DEF Sound, CallGenuine, CallTimely, CallWritten, Evolves
<1>6. /\ UNCHANGED <<registered, clock, cleaner>>
      /\ Fewer(schemaCache', schemaCache) /\ Fewer(expires', expires)
  BY FewerOfItself DEF S!ForgetSchema
<1> QED BY <1>3, <1>4, <1>5, <1>6, OneCallKeepsResolver

LEMMA ForgetExpiryKeeps ==
  ASSUME ResolverInv, NEW c \in ResolverCallers, S!ForgetExpiry(c) PROVE ResolverInv'
<1> DEFINE call == resolving[c]
           new == [call EXCEPT !.at = "fetch"]
<1>1. call \in Resolutions /\ Sound(call) /\ call.at = "forgetExpiry"
  BY CallFacts DEF S!ForgetExpiry
<1>3. /\ new \in Resolutions /\ new.at = "fetch" /\ new.key = call.key /\ new.schema = call.schema
      /\ new.given = call.given /\ new.data = call.data /\ new.since = call.since /\ new.hit = call.hit
  BY <1>1 DEF Resolutions
<1>4. resolving' = [resolving EXCEPT ![c] = new]
  BY DEF S!ForgetExpiry, S!Call
<1> HIDE DEF new
<1>5. Sound(new)
  BY <1>1, <1>3 DEF Sound, CallGenuine, CallTimely, CallWritten, Evolves
<1>6. /\ UNCHANGED <<registered, clock, cleaner>>
      /\ Fewer(schemaCache', schemaCache) /\ Fewer(expires', expires)
  BY FewerOfItself DEF S!ForgetExpiry
<1> QED BY <1>3, <1>4, <1>5, <1>6, OneCallKeepsResolver

LEMMA OneKey == ASSUME NEW key \in ResolverKeys PROVE <<key>> \in Seq(ResolverKeys)
OBVIOUS

\* What the registry answers is its schema of the ID, or the latest without one.
LEMMA FetchKeeps ==
  ASSUME ResolverInv, NEW c \in ResolverCallers, S!Fetch(c) PROVE ResolverInv'
<1> DEFINE call == resolving[c]
           found == IF call.key = S!Latest THEN S!Schema(S!NoID, registered[Len(registered)])
                    ELSE S!Schema(call.key[2], registered[call.key[2]])
<1>1. call \in Resolutions /\ Sound(call) /\ call.at = "fetch" /\ call.key \in ResolverKeys /\ clock \in Nat
  BY CallFacts DEF S!Fetch, Resolutions
<1>2. /\ UNCHANGED <<registered, clock, cleaner>>
      /\ Fewer(schemaCache', schemaCache) /\ Fewer(expires', expires)
  BY FewerOfItself DEF S!Fetch, S!cachesVars
<1>3. found \in CachedSchemas /\ Genuine(found) /\ Suits(call.key, found)
  <2>1. CASE call.key = S!Latest
    <3>1. found = [id |-> 0, definition |-> registered[Len(registered)], cached |-> clock]
      BY <2>1 DEF S!Schema, S!NoID
    <3>2. registered[Len(registered)] \in Definitions
      BY IDsAreNumbers DEF ResolverInv
    <3>3. found.id = 0 /\ found \in CachedSchemas
      BY <3>1, <3>2, <1>1 DEF CachedSchemas
    <3> HIDE DEF found
    <3> QED BY <3>3, <2>1, ResolverKeysDiffer DEF Genuine, Suits
  <2>2. CASE call.key # S!Latest
    <3>1. PICK i \in Nat : call.key = S!ByID(i)
      BY <1>1, <2>2 DEF ResolverKeys
    <3>2. i \in S!IDs /\ call.key[2] = i
      BY <1>1, <3>1, ResolverKeysDiffer DEF Sound, CallGenuine
    <3>3. registered[i] \in Definitions
      BY <3>2, IDsAreNumbers DEF ResolverInv
    <3>4. found = [id |-> i, definition |-> registered[i], cached |-> clock]
      BY <2>2, <3>2 DEF S!Schema
    <3>5. found \in CachedSchemas /\ found.id = i /\ found.definition = registered[i]
      BY <3>3, <3>4, <1>1 DEF CachedSchemas
    <3> HIDE DEF found
    <3> QED BY <3>1, <3>2, <3>5, ResolverKeysDiffer DEF Genuine, Suits
  <2> QED BY <2>1, <2>2
<1>4. \/ resolving' = [resolving EXCEPT ![c] = [call EXCEPT !.at = "store", !.schema = found,
                                                            !.stores = <<call.key>>]]
      \/ resolving' = [resolving EXCEPT ![c] = [call EXCEPT !.at = "failed", !.schema = S!NoSchema]]
  BY DEF S!Fetch
<1>5. CASE resolving' = [resolving EXCEPT ![c] = [call EXCEPT !.at = "store", !.schema = found,
                                                              !.stores = <<call.key>>]]
  <2>1. PICK schema \in CachedSchemas : /\ schema = found
                                        /\ Genuine(schema) /\ Suits(call.key, schema)
    BY <1>3
  <2> HIDE DEF found
  <2>6. PICK stores \in Seq(ResolverKeys) : stores = <<call.key>>
    BY <1>1, OneKey
  <2> DEFINE new == [call EXCEPT !.at = "store", !.schema = schema, !.stores = stores]
  <2>2. /\ new \in Resolutions /\ new.at = "store" /\ new.key = call.key /\ new.schema = schema
        /\ new.given = call.given /\ new.data = call.data /\ new.since = call.since /\ new.hit = call.hit
        /\ new.stores = stores
    BY <1>1 DEF Resolutions
  <2>3. resolving' = [resolving EXCEPT ![c] = new]
    BY <1>5, <2>1, <2>6
  <2> HIDE DEF new
  <2>4. CallGenuine(new) /\ CallTimely(new)
    BY <1>1, <2>1, <2>2, <2>6 DEF Sound, CallGenuine, CallTimely
  <2>5. CallWritten(new)
    <3> SUFFICES ASSUME Evolves(new) PROVE CallWritten(new)
      BY DEF CallWritten
    <3>1. call.data.writer \in S!IDs /\ call.key = S!ByID(call.data.writer)
      BY <1>1, <2>2 DEF Sound, CallWritten, Evolves
    <3>2. call.data.writer \in Nat
      BY <1>1 DEF Resolutions, SchemaData
    <3>3. schema.definition = registered[call.data.writer]
      BY <2>1, <3>1, <3>2 DEF Suits
    <3> QED BY <2>2, <3>1, <3>3 DEF CallWritten
  <2> QED BY <2>2, <2>3, <2>4, <2>5, <1>2, OneCallKeepsResolver DEF Sound
<1>6. CASE resolving' = [resolving EXCEPT ![c] = [call EXCEPT !.at = "failed", !.schema = S!NoSchema]]
  <2>1. S!NoSchema \in CachedSchemas /\ S!NoSchema.id = 0
    BY NoSchemaForm DEF CachedSchemas
  <2> DEFINE new == [call EXCEPT !.at = "failed", !.schema = S!NoSchema]
  <2>2. /\ new \in Resolutions /\ new.at = "failed" /\ new.key = call.key /\ new.schema = S!NoSchema
        /\ new.given = call.given /\ new.data = call.data /\ new.since = call.since /\ new.hit = call.hit
    BY <1>1, <2>1 DEF Resolutions
  <2> HIDE DEF new
  <2>4. Sound(new)
    BY <1>1, <2>1, <2>2 DEF Sound, CallGenuine, CallTimely, CallWritten, Genuine, Evolves
  <2> QED BY <2>2, <2>4, <1>2, <1>6, OneCallKeepsResolver DEF new
<1> QED BY <1>4, <1>5, <1>6

LEMMA DecodeKeeps ==
  ASSUME ResolverInv, NEW c \in ResolverCallers, S!Decode(c) PROVE ResolverInv'
<1>1. PICK outcome \in {"data", "valid", "converted", "error"} :
          resolving' = [resolving EXCEPT ![c] = [S!Idle EXCEPT !.outcome = outcome]]
  <2>1. \A fit : S!DecodeData(fit) \subseteq {"data", "error"}
    BY DEF S!DecodeData
  <2>2. \A fit : S!ValidateData(fit) \subseteq {"valid", "error"}
    BY DEF S!ValidateData
  <2>3. \A fit : S!ConvertData(fit) \subseteq {"converted", "error"}
    BY DEF S!ConvertData, S!EncodeData
  <2> QED BY <2>1, <2>2, <2>3 DEF S!Decode
<1> DEFINE new == [S!Idle EXCEPT !.outcome = outcome]
<1>2. /\ new \in Resolutions /\ new.at = "idle" /\ new.key = S!Latest /\ new.schema = S!NoSchema
      /\ new.given = S!NoSchema /\ new.since = 0 /\ ~new.hit
  BY IdleIsTyped, IdleForm DEF Resolutions
<1>3. resolving' = [resolving EXCEPT ![c] = new]
  BY <1>1
<1> HIDE DEF new
<1>4. Sound(new)
  BY <1>2, CallFacts, IdleIsSound
<1>5. /\ UNCHANGED <<registered, clock, cleaner>>
      /\ Fewer(schemaCache', schemaCache) /\ Fewer(expires', expires)
  BY FewerOfItself DEF S!Decode, S!cachesVars
<1> QED BY <1>2, <1>3, <1>4, <1>5, OneCallKeepsResolver

LEMMA ReturnSchemaKeeps ==
  ASSUME ResolverInv, NEW c \in ResolverCallers, S!ReturnSchema(c) PROVE ResolverInv'
<1>1. S!Idle \in Resolutions /\ Sound(S!Idle)
  <2>1. 0 <= clock
    BY CallFacts
  <2> QED BY <2>1, IdleIsTyped, IdleForm, IdleIsSound
<1>2. /\ UNCHANGED <<registered, clock, cleaner>> /\ resolving' = [resolving EXCEPT ![c] = S!Idle]
      /\ Fewer(schemaCache', schemaCache) /\ Fewer(expires', expires)
  BY FewerOfItself DEF S!ReturnSchema, S!cachesVars
<1> QED BY <1>1, <1>2, OneCallKeepsResolver

-----------------------------------------------------------------------------
(* Decoding: the data's schema is looked up by the ID in its header.       *)

LEMMA StartDecodeKeeps ==
  ASSUME ResolverInv, NEW c \in ResolverCallers, S!StartDecode(c) PROVE ResolverInv'
<1> DEFINE given == resolving[c].schema
<1>1. /\ given \in CachedSchemas /\ Genuine(given) /\ clock \in Nat
      /\ UNCHANGED <<registered, clock, cleaner>>
      /\ Fewer(schemaCache', schemaCache) /\ Fewer(expires', expires)
  BY CallFacts, FewerOfItself, SMTT(40) DEF S!StartDecode, S!cachesVars, Sound, CallGenuine, Resolutions
<1>2. PICK data \in S!Payloads :
        LET decode == [S!Idle EXCEPT !.at = "resolved", !.data = data, !.given = given, !.schema = given,
                                     !.since = clock] IN
        \/ /\ S!Strips(data)
           /\ \E id \in S!Named(data) :
                resolving' = [resolving EXCEPT ![c] =
                    IF S!AsksRegistry(given, id)
                    THEN IF id \in S!IDs THEN S!Loading(decode, S!ByID(id)) ELSE [decode EXCEPT !.at = "failed"]
                    ELSE decode]
        \/ ~S!Strips(data) /\ resolving' = [resolving EXCEPT ![c] = decode]
  BY DEF S!StartDecode
<1>3. data \in SchemaData /\ data.writer \in S!IDs /\ data.writer \in Nat
  BY <1>2, IDsAreNumbers DEF ResolverInv, S!Payloads, SchemaData
<1> HIDE DEF given
<1> DEFINE decode == [S!Idle EXCEPT !.at = "resolved", !.data = data, !.given = given, !.schema = given,
                                    !.since = clock]
<1>4. /\ decode \in Resolutions /\ decode.at = "resolved" /\ decode.data = data /\ decode.given = given
      /\ decode.schema = given /\ decode.since = clock /\ decode.refreshed = FALSE /\ ~decode.hit
      /\ decode.key = S!Latest
  BY <1>1, <1>3, IdleIsTyped, IdleForm DEF Resolutions
<1>5. \/ \E id \in S!Named(data) : /\ S!Strips(data) /\ S!AsksRegistry(given, id) /\ id \in S!IDs
                                  /\ resolving' = [resolving EXCEPT ![c] = S!Loading(decode, S!ByID(id))]
      \/ resolving' = [resolving EXCEPT ![c] = [decode EXCEPT !.at = "failed"]]
      \/ /\ ~S!Strips(data) \/ \E id \in S!Named(data) : ~S!AsksRegistry(given, id)
         /\ resolving' = [resolving EXCEPT ![c] = decode]
  BY <1>2
<1>6. data.kind = "framed" => S!Strips(data) /\ S!Named(data) = {data.writer}
  BY DEF S!Strips, S!Named, S!IsFramed
<1>7. decode.since <= clock
  BY <1>1, <1>4
<1> HIDE DEF decode
<1>8. ASSUME NEW id \in S!Named(data), S!AsksRegistry(given, id), id \in S!IDs,
             resolving' = [resolving EXCEPT ![c] = S!Loading(decode, S!ByID(id))]
      PROVE  ResolverInv'
  <2>1. id \in Nat /\ S!ByID(id) \in ResolverKeys /\ \A i \in Nat : S!ByID(id) = S!ByID(i) => i \in S!IDs
    BY <1>8, IDsAreNumbers, ResolverKeysDiffer DEF ResolverInv
  <2>2. Evolves(decode) => S!ByID(id) = S!ByID(decode.data.writer) /\ decode.data.writer \in S!IDs
    BY <1>3, <1>4, <1>6, <1>8 DEF Evolves
  <2>3. S!Loading(decode, S!ByID(id)) \in Resolutions /\ Sound(S!Loading(decode, S!ByID(id)))
    BY <1>1, <1>4, <1>7, <2>1, <2>2, LoadingIsSound
  <2> QED BY <2>3, <1>1, <1>8, OneCallKeepsResolver
<1>9. CASE resolving' = [resolving EXCEPT ![c] = [decode EXCEPT !.at = "failed"]]
  <2> DEFINE new == [decode EXCEPT !.at = "failed"]
  <2>1. /\ new \in Resolutions /\ new.at = "failed" /\ new.data = data /\ new.given = given
        /\ new.schema = given /\ new.since = clock /\ new.key = S!Latest /\ ~new.hit
    BY <1>4 DEF Resolutions
  <2> HIDE DEF new
  <2>2. Sound(new)
    BY <2>1, <1>1, <1>3, <1>4, <1>7, ResolverKeysDiffer DEF Sound, CallGenuine, CallTimely, CallWritten, Evolves
  <2> QED BY <2>1, <2>2, <1>1, <1>9, OneCallKeepsResolver DEF new
<1>10. CASE /\ ~S!Strips(data) \/ \E id \in S!Named(data) : ~S!AsksRegistry(given, id)
            /\ resolving' = [resolving EXCEPT ![c] = decode]
  <2>1. CallGenuine(decode) /\ CallTimely(decode)
    BY <1>1, <1>4, <1>7, ResolverKeysDiffer DEF CallGenuine, CallTimely
  <2>2. CallWritten(decode)
    <3> SUFFICES ASSUME Evolves(decode) PROVE CallWritten(decode)
      BY DEF CallWritten
    <3>1. given.id = data.writer
      BY <1>4, <1>6, <1>10 DEF Evolves, S!AsksRegistry, S!NoID
    <3>2. given.id # 0
      BY <1>4 DEF Evolves
    <3> QED BY <1>1, <1>3, <1>4, <3>1, <3>2 DEF CallWritten, Genuine
  <2> QED BY <2>1, <2>2, <1>1, <1>4, <1>10, OneCallKeepsResolver DEF Sound
<1> QED BY <1>5, <1>8, <1>9, <1>10

-----------------------------------------------------------------------------
(* The steps that cache, register and let time pass.                       *)

LEMMA CleanUpKeeps == ASSUME ResolverInv, S!CleanUp PROVE ResolverInv'
<1>1. /\ UNCHANGED <<registered, clock>> /\ UNCHANGED resolving
      /\ Fewer(schemaCache', schemaCache) /\ Fewer(expires', expires)
  BY FewerOfItself DEF S!CleanUp, S!cachesVars
<1>2. cleaner' \in Cleanings
  <2>1. cleaner \in Cleanings /\ \A k \in DOMAIN expires : k \in ResolverKeys
    BY DEF ResolverInv, ResolverTypes
  <2> QED BY <2>1 DEF S!CleanUp, Cleanings
<1>3. resolving' \in [ResolverCallers -> Resolutions] /\ \A d \in ResolverCallers : Sound(resolving'[d])
  BY <1>1 DEF ResolverInv, ResolverTypes
<1> QED BY <1>1, <1>2, <1>3, ForgettingKeepsResolver

\* A tick passes between two stores of nobody.
LEMMA ClockKeeps == ASSUME ResolverInv, S!Tick PROVE ResolverInv'
<1>1. /\ clock \in Nat /\ clock' = clock + 1
      /\ UNCHANGED <<registered, schemaCache, expires>> /\ UNCHANGED <<resolving, cleaner>>
      /\ \A c \in ResolverCallers : resolving[c].at \in {"idle", "check", "fetch"}
  BY DEF S!Tick, ResolverInv, ResolverTypes, S!cachesVars
<1>2. ResolverTypes'
  BY <1>1 DEF ResolverInv, ResolverTypes
<1>3. CachesInv'
  <2>1. \A k \in DOMAIN expires : expires[k] \in Nat
    BY DEF ResolverInv, ResolverTypes
  <2>2. \A k \in DOMAIN expires : expires[k] <= clock' + ResolverTTL
    BY <1>1, <2>1, ResolverAssumption DEF ResolverInv, CachesInv
  <2>3. \A k \in DOMAIN schemaCache :
          (Genuine(schemaCache[k]) /\ Suits(k, schemaCache[k]) /\ Timely(k, schemaCache[k]))'
    BY <1>1 DEF ResolverInv, CachesInv, Genuine, Suits, Timely, S!IDs
  <2> QED BY <1>1, <2>2, <2>3 DEF CachesInv
<1>4. ASSUME NEW c \in ResolverCallers PROVE Sound(resolving[c])'
  <2> DEFINE call == resolving[c]
  <2>1. call \in Resolutions /\ Sound(call) /\ call' = call /\ call.at \in {"idle", "check", "fetch"}
    BY <1>1, CallFacts
  <2>2. CallGenuine(call)' /\ CallWritten(call)'
    BY <1>1, <2>1 DEF Sound, CallGenuine, CallWritten, Evolves, Genuine, Suits, S!IDs
  <2>3. call.since \in Nat /\ call.since <= clock /\ ~call.hit
    BY <2>1 DEF Sound, CallTimely, Resolutions
  <2>4. CallTimely(call)'
    <3>1. call.since <= clock'
      BY <1>1, <2>3
    <3>2. call.at = "check" /\ ~call.refreshed => Timely(call.key, call.schema)'
      BY <1>1, <2>1 DEF Sound, CallTimely, Timely
    <3> QED BY <2>1, <2>3, <3>1, <3>2 DEF CallTimely
  <2> QED BY <2>2, <2>4 DEF Sound
<1> QED BY <1>2, <1>3, <1>4 DEF ResolverInv

\* A schema that is stored with the time suits whatever expiry is beside it.
LEMMA CachingKeepsCaches ==
  ASSUME ResolverInv, NEW key \in ResolverKeys, NEW cached \in CachedSchemas, cached.cached = clock,
         Genuine(cached), Suits(key, cached),
         UNCHANGED <<registered, expires, clock>>, schemaCache' = S!With(schemaCache, key, cached)
  PROVE  /\ CachesInv'
         /\ \A call \in Resolutions : Sound(call) => Sound(call)'
<1>1. /\ DOMAIN schemaCache' = DOMAIN schemaCache \cup {key} /\ schemaCache'[key] = cached
      /\ \A k \in DOMAIN schemaCache : k # key => schemaCache'[k] = schemaCache[k]
  BY DEF S!With
<1>2. CachesInv'
  <2>1. Timely(key, cached)
    BY DEF ResolverInv, CachesInv, Timely
  <2>2. ASSUME NEW k, NEW schema, Genuine(schema), Suits(k, schema), Timely(k, schema)
        PROVE  (Genuine(schema) /\ Suits(k, schema) /\ Timely(k, schema))'
    BY <2>2 DEF Genuine, Suits, Timely, S!IDs
  <2>3. ASSUME NEW k \in DOMAIN schemaCache'
        PROVE  (Genuine(schemaCache[k]) /\ Suits(k, schemaCache[k]) /\ Timely(k, schemaCache[k]))'
    <3>1. CASE k = key
      BY <1>1, <2>1, <2>2, <3>1
    <3>2. CASE k # key
      BY <1>1, <2>2, <2>3, <3>2 DEF ResolverInv, CachesInv
    <3> QED BY <3>1, <3>2
  <2>4. \A k \in DOMAIN expires' : expires'[k] <= clock' + ResolverTTL
    BY DEF ResolverInv, CachesInv
  <2> QED BY <2>3, <2>4 DEF CachesInv
<1>3. ASSUME NEW call \in Resolutions, Sound(call) PROVE Sound(call)'
  <2>1. CallGenuine(call)' /\ CallWritten(call)'
    BY <1>3 DEF Sound, CallGenuine, CallWritten, Evolves, Genuine, Suits, S!IDs
  <2>2. CallTimely(call)'
    <3>1. call.expiry = clock + ResolverTTL /\ call.stores[1] = key =>
              call.expiry <= schemaCache'[call.stores[1]].cached + ResolverTTL
      <4>1. clock + ResolverTTL \in Nat /\ clock + ResolverTTL <= clock + ResolverTTL
        BY ResolverAssumption DEF ResolverInv, ResolverTypes
      <4> QED BY <4>1, <1>1
    <3> QED BY <1>1, <1>3, <3>1 DEF Sound, CallTimely, Timely
  <2> QED BY <2>1, <2>2 DEF Sound
<1> QED BY <1>2, <1>3

LEMMA StoreSchemaKeeps ==
  ASSUME ResolverInv, NEW c \in ResolverCallers, S!StoreSchema(c) PROVE ResolverInv'
<1> DEFINE call == resolving[c]
<1>1. call \in Resolutions /\ Sound(call) /\ call.at = "store" /\ clock \in Nat
  BY CallFacts DEF S!StoreSchema
<1>2. PICK cached : cached = [call.schema EXCEPT !.cached = clock]
  OBVIOUS
<1>3. /\ cached \in CachedSchemas /\ cached.cached = clock
      /\ cached.id = call.schema.id /\ cached.definition = call.schema.definition
  BY <1>1, <1>2 DEF Resolutions, CachedSchemas
<1>4. PICK key : key = Head(call.stores)
  OBVIOUS
<1>5. /\ call.stores # <<>> /\ key = call.stores[1] /\ key \in ResolverKeys /\ 1 \in 1..Len(call.stores)
  <2>1. call.stores \in Seq(ResolverKeys) /\ call.stores # <<>>
    BY <1>1 DEF Resolutions, Sound, CallGenuine
  <2> QED BY <1>4, <2>1
<1>6. /\ UNCHANGED <<registered, expires, clock, cleaner>>
      /\ schemaCache' = S!With(schemaCache, key, cached)
      /\ resolving' = [resolving EXCEPT ![c] = [call EXCEPT !.at = "storeExpiry", !.schema = cached,
                                                            !.expiry = clock + ResolverTTL]]
  BY <1>2, <1>4 DEF S!StoreSchema
<1>7. Genuine(cached) /\ \A j \in 1..Len(call.stores) : Suits(call.stores[j], cached)
  BY <1>1, <1>3 DEF Sound, CallGenuine, Genuine, Suits
<1>8. CachesInv' /\ \A other \in Resolutions : Sound(other) => Sound(other)'
  BY <1>3, <1>5, <1>6, <1>7, CachingKeepsCaches
<1>9. PICK expiry \in Nat : expiry = clock + ResolverTTL
  BY <1>1, ResolverAssumption
<1>10. PICK new : new = [call EXCEPT !.at = "storeExpiry", !.schema = cached, !.expiry = expiry]
  OBVIOUS
<1>11. /\ new \in Resolutions /\ new.at = "storeExpiry" /\ new.schema = cached /\ new.expiry = expiry
       /\ new.key = call.key /\ new.given = call.given /\ new.data = call.data /\ new.since = call.since
       /\ new.stores = call.stores /\ new.hit = call.hit
  BY <1>1, <1>3, <1>10 DEF Resolutions
<1>12. resolving' = [resolving EXCEPT ![c] = new]
  BY <1>6, <1>9, <1>10
<1>13. Sound(new)'
  <2>1. CallGenuine(new)' /\ CallWritten(new)'
    BY <1>1, <1>3, <1>5, <1>6, <1>7, <1>11
       DEF Sound, CallGenuine, CallWritten, Evolves, Genuine, Suits, S!IDs
  <2>2. schemaCache'[key] = cached
    BY <1>6 DEF S!With
  <2>3. expiry <= schemaCache'[key].cached + ResolverTTL
    BY <1>3, <1>9, <2>2
  <2>4. CallTimely(new)'
    BY <1>1, <1>5, <1>6, <1>9, <1>11, <2>3 DEF Sound, CallTimely
  <2> QED BY <2>1, <2>4 DEF Sound
<1>14. \A d \in ResolverCallers : resolving'[d] = IF d = c THEN new ELSE resolving[d]
  BY <1>12, CallFacts
<1>15. \A d \in ResolverCallers : Sound(resolving[d])'
  <2>1. ASSUME NEW d \in ResolverCallers PROVE Sound(resolving[d])'
    <3>1. CASE d = c
      BY <1>13, <1>14, <3>1
    <3>2. CASE d # c
      BY <1>8, <1>14, <3>2, CallFacts
    <3> QED BY <3>1, <3>2
  <2> QED BY <2>1
<1>16. ResolverTypes'
  <2>1. \A k \in DOMAIN schemaCache' : k \in ResolverKeys /\ schemaCache'[k] \in CachedSchemas
    BY <1>3, <1>5, <1>6 DEF ResolverInv, ResolverTypes, S!With
  <2>2. resolving' \in [ResolverCallers -> Resolutions]
    BY <1>11, <1>12 DEF ResolverInv, ResolverTypes
  <2> QED BY <1>6, <2>1, <2>2 DEF ResolverInv, ResolverTypes
<1> QED BY <1>8, <1>15, <1>16 DEF ResolverInv

LEMMA TailFacts ==
  ASSUME NEW all \in Seq(ResolverKeys), all # <<>>
  PROVE  /\ Head(all) = all[1] /\ Head(all) \in ResolverKeys
         /\ Tail(all) \in Seq(ResolverKeys) /\ Len(Tail(all)) = Len(all) - 1 /\ Len(all) \in Nat \ {0}
         /\ \A j \in 1..Len(Tail(all)) : j + 1 \in 1..Len(all) /\ Tail(all)[j] = all[j + 1]
         /\ Tail(all) = <<>> <=> Len(all) = 1
<1>1. Len(all) \in Nat \ {0} /\ Head(all) = all[1] /\ Head(all) \in ResolverKeys
  OBVIOUS
<1>2. Tail(all) \in Seq(ResolverKeys) /\ Len(Tail(all)) = Len(all) - 1
  OBVIOUS
<1>3. \A j \in 1..Len(Tail(all)) : j + 1 \in 1..Len(all) /\ Tail(all)[j] = all[j + 1]
  BY <1>1, <1>2
<1>4. Tail(all) = <<>> <=> Len(Tail(all)) = 0
  BY <1>2
<1> QED BY <1>1, <1>2, <1>3, <1>4

\* The expiry follows: whoever has loaded the schema of the key before is told
\* that the expiry is not that schema's.
LEMMA StoreExpiryKeeps ==
  ASSUME ResolverInv, NEW c \in ResolverCallers, S!StoreExpiry(c) PROVE ResolverInv'
<1> DEFINE call == resolving[c]
<1>1. call \in Resolutions /\ Sound(call) /\ call.at = "storeExpiry" /\ clock \in Nat
  BY CallFacts DEF S!StoreExpiry
<1>2. PICK key : key = Head(call.stores)
  OBVIOUS
<1>3. PICK stores : stores = Tail(call.stores)
  OBVIOUS
<1>4. PICK at \in {"resolved", "store"} : at = IF Len(call.stores) = 1 THEN "resolved" ELSE "store"
  OBVIOUS
<1>5. /\ key = call.stores[1] /\ key \in ResolverKeys /\ stores \in Seq(ResolverKeys)
      /\ at = "store" => stores # <<>>
      /\ \A j \in 1..Len(stores) : j + 1 \in 1..Len(call.stores) /\ stores[j] = call.stores[j + 1]
  <2>1. call.stores \in Seq(ResolverKeys) /\ call.stores # <<>>
    BY <1>1 DEF Resolutions, Sound, CallGenuine
  <2>2. \A all \in Seq(ResolverKeys) : all # <<>> =>
          /\ Head(all) = all[1] /\ Head(all) \in ResolverKeys /\ Tail(all) \in Seq(ResolverKeys)
          /\ \A j \in 1..Len(Tail(all)) : j + 1 \in 1..Len(all) /\ Tail(all)[j] = all[j + 1]
          /\ Tail(all) = <<>> <=> Len(all) = 1
    BY TailFacts
  <2> QED BY <1>2, <1>3, <1>4, <2>1, <2>2
<1>6. PICK new : new = [call EXCEPT !.stores = stores, !.expiry = 0, !.at = at]
  OBVIOUS
<1>7. /\ UNCHANGED <<registered, schemaCache, clock, cleaner>>
      /\ expires' = S!With(expires, key, call.expiry)
      /\ resolving' = [d \in ResolverCallers |->
            IF d = c THEN new
            ELSE [resolving[d] EXCEPT !.refreshed = @ \/ (resolving[d].at = "check" /\ resolving[d].key = key)]]
  BY <1>2, <1>3, <1>4, <1>6 DEF S!StoreExpiry
<1>8. /\ new \in Resolutions /\ new.at = at /\ new.stores = stores /\ new.schema = call.schema
      /\ new.key = call.key /\ new.given = call.given /\ new.data = call.data /\ new.since = call.since
      /\ new.hit = call.hit
  BY <1>1, <1>5, <1>6 DEF Resolutions
<1>9. /\ call.expiry = clock + ResolverTTL /\ call.expiry \in Nat
      /\ key \in DOMAIN schemaCache => call.expiry <= schemaCache[key].cached + ResolverTTL
  BY <1>1, <1>5 DEF Sound, CallTimely, Resolutions
<1>10. /\ DOMAIN expires' = DOMAIN expires \cup {key} /\ expires'[key] = call.expiry
       /\ \A k \in DOMAIN expires : k # key => expires'[k] = expires[k]
  BY <1>7 DEF S!With
<1>11. CachesInv'
  <2>1. \A k \in DOMAIN expires' : expires'[k] <= clock' + ResolverTTL
    <3>1. call.expiry <= clock + ResolverTTL
      BY <1>9
    <3> QED BY <3>1, <1>7, <1>10 DEF ResolverInv, CachesInv
  <2>2. ASSUME NEW k \in DOMAIN schemaCache
        PROVE  (Genuine(schemaCache[k]) /\ Suits(k, schemaCache[k]))' /\ Timely(k, schemaCache[k])'
    <3>1. (Genuine(schemaCache[k]) /\ Suits(k, schemaCache[k]))'
      BY <1>7 DEF ResolverInv, CachesInv, Genuine, Suits, S!IDs
    <3>2. Timely(k, schemaCache[k])'
      BY <1>7, <1>9, <1>10 DEF ResolverInv, CachesInv, Timely
    <3> QED BY <3>1, <3>2
  <2> QED BY <1>7, <2>1, <2>2 DEF CachesInv
<1>12. Sound(new)'
  <2>1. CallGenuine(new)'
    <3>1. ASSUME NEW j \in 1..Len(stores), at = "store" PROVE Suits(stores[j], call.schema)
      BY <3>1, <1>1, <1>5 DEF Sound, CallGenuine
    <3> QED BY <1>1, <1>5, <1>7, <1>8, <3>1 DEF Sound, CallGenuine, Genuine, Suits, S!IDs
  <2>2. CallWritten(new)'
    BY <1>1, <1>7, <1>8 DEF Sound, CallWritten, Evolves, S!IDs
  <2>3. CallTimely(new)'
    <3>1. call.since <= clock'
      BY <1>1, <1>7 DEF Sound, CallTimely
    <3>2. ~call.hit
      BY <1>1 DEF Sound, CallTimely
    <3> QED BY <1>8, <3>1, <3>2 DEF CallTimely
  <2> QED BY <2>1, <2>2, <2>3 DEF Sound
<1>13. ASSUME NEW d \in ResolverCallers, d # c
       PROVE  resolving'[d] \in Resolutions /\ Sound(resolving[d])'
  <2>8. PICK old : old = resolving[d]
    OBVIOUS
  <2> DEFINE told == old.refreshed \/ (old.at = "check" /\ old.key = key)
  <2>1. old \in Resolutions /\ Sound(old)
    BY <2>8, CallFacts
  <2>2. PICK is \in BOOLEAN : is = told
    BY <2>1
  <2>3. PICK other : other = [old EXCEPT !.refreshed = is]
    OBVIOUS
  <2>4. resolving'[d] = other
    BY <1>7, <1>13, <2>2, <2>3, <2>8
  <2>5. /\ other \in Resolutions /\ other.at = old.at /\ other.stores = old.stores /\ other.schema = old.schema
        /\ other.key = old.key /\ other.given = old.given /\ other.data = old.data /\ other.since = old.since
        /\ other.hit = old.hit /\ other.expiry = old.expiry /\ other.refreshed = is
    BY <2>1, <2>3 DEF Resolutions
  <2>6. CallGenuine(other)' /\ CallWritten(other)'
    BY <1>7, <2>1, <2>5 DEF Sound, CallGenuine, CallWritten, Evolves, Genuine, Suits, S!IDs
  <2>7. CallTimely(other)'
    <3>1. old.at = "check" /\ ~is => old.key # key /\ ~old.refreshed
      BY <2>2
    <3>2. ~is => ~old.refreshed
      BY <2>2
    <3> HIDE DEF told
    <3>3. old.at = "check" /\ ~is => Timely(old.key, old.schema)'
      BY <1>10, <2>1, <3>1 DEF Sound, CallTimely, Timely
    <3> QED BY <1>7, <2>1, <2>5, <3>2, <3>3 DEF Sound, CallTimely
  <2> QED BY <2>4, <2>5, <2>6, <2>7 DEF Sound
<1>14. \A d \in ResolverCallers : Sound(resolving[d])' /\ resolving'[d] \in Resolutions
  <2>1. resolving'[c] = new
    BY <1>7
  <2> QED BY <1>8, <1>12, <1>13, <2>1
<1>15. ResolverTypes'
  <2>1. \A k \in DOMAIN expires' : k \in ResolverKeys /\ expires'[k] \in Nat
    BY <1>5, <1>9, <1>10 DEF ResolverInv, ResolverTypes
  <2>2. resolving' \in [ResolverCallers -> Resolutions]
    BY <1>7, <1>14
  <2> QED BY <1>7, <2>1, <2>2 DEF ResolverInv, ResolverTypes
<1> QED BY <1>11, <1>14, <1>15 DEF ResolverInv

LEMMA ResolverStays ==
  ASSUME ResolverInv, UNCHANGED <<registered, schemaCache, expires, clock, resolving, cleaner>>
  PROVE  ResolverInv'
<1>1. Fewer(schemaCache', schemaCache) /\ Fewer(expires', expires) /\ cleaner' \in Cleanings
      /\ resolving' \in [ResolverCallers -> Resolutions] /\ \A d \in ResolverCallers : Sound(resolving'[d])
  BY FewerOfItself DEF ResolverInv, ResolverTypes
<1> QED BY <1>1, ForgettingKeepsResolver

\* A new schema takes the next ID, and leaves those of the others.
LEMMA RegisterKeeps ==
  ASSUME ResolverInv, NEW c \in ResolverCallers, S!Register(c) PROVE ResolverInv'
<1> SUFFICES ASSUME ~UNCHANGED <<registered, resolving>> PROVE ResolverInv'
  BY ResolverStays DEF S!Register, S!cachesVars
<1> DEFINE known(d) == {i \in S!IDs : registered[i] = d}
           id(d) == IF known(d) = {} THEN Len(registered) + 1 ELSE CHOOSE i \in known(d) : TRUE
<1>1. PICK d \in Definitions :
        /\ registered' = IF known(d) = {} THEN Append(registered, d) ELSE registered
        /\ \/ resolving' = [resolving EXCEPT ![c] =
                 [S!Idle EXCEPT !.at = "store", !.schema = S!Schema(id(d), d),
                                !.stores = <<S!ByID(id(d)), S!Latest>>, !.since = clock]]
           \/ UNCHANGED resolving
  BY DEF S!Register
<1>2. PICK i : i = id(d)
  OBVIOUS
<1>3. registered \in Seq(Definitions) /\ registered # <<>> /\ clock \in Nat
      /\ UNCHANGED <<schemaCache, expires, clock, cleaner>>
  BY DEF ResolverInv, ResolverTypes, S!Register, S!cachesVars
<1>4. /\ registered' \in Seq(Definitions) /\ registered' # <<>> /\ i \in Nat \ {0}
      /\ i \in S!IDs' /\ registered'[i] = d
      /\ \A j \in S!IDs : j \in S!IDs' /\ registered'[j] = registered[j]
  <2>1. CASE known(d) = {}
    BY <1>1, <1>2, <1>3, <2>1 DEF S!IDs
  <2>2. CASE known(d) # {}
    <3>1. i \in known(d)
      BY <1>2, <2>2
    <3> QED BY <1>1, <1>3, <2>2, <3>1 DEF S!IDs
  <2> QED BY <2>1, <2>2
<1>5. PICK schema : schema = S!Schema(i, d)
  OBVIOUS
<1>6. schema \in CachedSchemas /\ schema.id = i /\ schema.definition = d
  BY <1>3, <1>4, <1>5 DEF CachedSchemas, S!Schema
<1>7. PICK stores : stores = <<S!ByID(i), S!Latest>>
  OBVIOUS
<1>8. /\ stores \in Seq(ResolverKeys) /\ stores # <<>>
      /\ \A j \in 1..Len(stores) : stores[j] \in {S!ByID(i), S!Latest}
  <2>1. S!ByID(i) \in ResolverKeys /\ S!Latest \in ResolverKeys
    BY <1>4, ResolverKeysDiffer
  <2> QED BY <1>7, <2>1
<1>9. PICK new : new = [S!Idle EXCEPT !.at = "store", !.schema = schema, !.stores = stores, !.since = clock]
  OBVIOUS
<1>10. resolving' = [resolving EXCEPT ![c] = new] \/ resolving' = resolving
  BY <1>1, <1>2, <1>5, <1>7, <1>9
<1>11. /\ new \in Resolutions /\ new.at = "store" /\ new.schema = schema /\ new.stores = stores
       /\ new.since = clock /\ new.key = S!Latest /\ new.given = S!NoSchema /\ ~new.hit
  BY <1>3, <1>6, <1>8, <1>9, IdleIsTyped, IdleForm DEF Resolutions
<1> HIDE DEF known, id
<1>12. Sound(new)'
  <2>1. Genuine(schema)'
    BY <1>4, <1>6 DEF Genuine
  <2>2. ASSUME NEW j \in 1..Len(stores) PROVE Suits(stores[j], schema)'
    BY <1>4, <1>6, <1>8, ResolverKeysDiffer DEF Suits
  <2>3. CallGenuine(new)'
    BY <1>8, <1>11, <2>1, <2>2, NoSchemaForm, ResolverKeysDiffer DEF CallGenuine, Genuine
  <2>4. CallTimely(new)'
    BY <1>3, <1>11 DEF CallTimely
  <2>5. CallWritten(new)'
    BY <1>11, NoSchemaForm DEF CallWritten, Evolves
  <2> QED BY <2>3, <2>4, <2>5 DEF Sound
<1>13. ASSUME NEW k, NEW other PROVE /\ Genuine(other) => Genuine(other)'
                                     /\ Suits(k, other) => Suits(k, other)'
                                     /\ Timely(k, other) => Timely(k, other)'
  BY <1>3, <1>4 DEF Genuine, Suits, Timely
<1>14. CachesInv'
  BY <1>3, <1>13 DEF ResolverInv, CachesInv
<1>15. ASSUME NEW call \in Resolutions, Sound(call) PROVE Sound(call)'
  <2>1. CallGenuine(call)'
    BY <1>4, <1>13, <1>15 DEF Sound, CallGenuine
  <2>2. CallTimely(call)'
    BY <1>3, <1>13, <1>15 DEF Sound, CallTimely
  <2>3. CallWritten(call)'
    BY <1>4, <1>15 DEF Sound, CallWritten, Evolves
  <2> QED BY <2>1, <2>2, <2>3 DEF Sound
<1>16. \A e \in ResolverCallers : Sound(resolving[e])'
  <2>1. ASSUME NEW e \in ResolverCallers PROVE Sound(resolving[e])'
    <3>1. CASE resolving'[e] = new
      BY <3>1, <1>12
    <3>2. CASE resolving'[e] = resolving[e]
      BY <3>2, <1>15, CallFacts
    <3> QED BY <1>10, <3>1, <3>2, CallFacts
  <2> QED BY <2>1
<1>17. ResolverTypes'
  <2>1. resolving' \in [ResolverCallers -> Resolutions]
    BY <1>10, <1>11 DEF ResolverInv, ResolverTypes
  <2> QED BY <1>3, <1>4, <2>1 DEF ResolverInv, ResolverTypes
<1> QED BY <1>14, <1>16, <1>17 DEF ResolverInv

LEMMA ResolverStep == ResolverInv /\ S!ResolverNext => ResolverInv'
BY CleanUpKeeps, ClockKeeps, StartResolveKeeps, LoadExpiryKeeps, ForgetSchemaKeeps, ForgetExpiryKeeps,
   FetchKeeps, RegisterKeeps, StoreSchemaKeeps, StoreExpiryKeeps, StartDecodeKeeps, DecodeKeeps,
   ReturnSchemaKeeps DEF S!ResolverNext

LEMMA ResolverIsFresh == ResolverInv => S!ServedIsFresh /\ S!CachedByID /\ S!DecodedAsWritten
<1> SUFFICES ASSUME ResolverInv PROVE S!ServedIsFresh /\ S!CachedByID /\ S!DecodedAsWritten
  OBVIOUS
<1>1. S!ServedIsFresh
  BY DEF S!ServedIsFresh, ResolverInv, Sound, CallTimely
<1>2. S!CachedByID
  BY IDsAreNumbers DEF S!CachedByID, ResolverInv, CachesInv, Suits
<1>3. S!DecodedAsWritten
  BY DEF S!DecodedAsWritten, ResolverInv, Sound, CallWritten, Evolves, S!NoID
<1> QED BY <1>1, <1>2, <1>3

-----------------------------------------------------------------------------
(* The registry: the store.                                                *)

RegistryKeys == {R!ID(i) : i \in Nat \ {0}} \cup {R!Version(v) : v \in Nat} \cup {R!Latest, R!NoVersion, R!Versions}
RegistryValues == Schemas \cup SUBSET Nat
VersionRecords == [schema : Schemas, live : BOOLEAN]

\* Every version has a schema with an ID.
StoreInv ==
  /\ ids \in Seq(Schemas) /\ versions \in Seq(VersionRecords) /\ writes \in Nat
  /\ \A v \in 1..Len(versions) : versions[v].schema \in R!KnownIds

LEMMA RegistryKeysDiffer ==
  /\ \A i, j \in Nat : R!ID(i) = R!ID(j) => i = j
  /\ \A i, v \in Nat : R!ID(i) # R!Version(v)
  /\ \A i \in Nat : R!ID(i) # R!Latest /\ R!ID(i) # R!NoVersion /\ R!ID(i) # R!Versions
  /\ \A v \in Nat : R!Version(v) # R!Latest /\ R!Version(v) # R!NoVersion /\ R!Version(v) # R!Versions
  /\ R!Latest # R!NoVersion /\ R!Latest # R!Versions /\ R!NoVersion # R!Versions
BY Zenon DEF R!ID, R!Version, R!Latest, R!NoVersion, R!Versions

\* What the first part of a key says.
LEMMA KeyKinds ==
  /\ \A i \in Nat : R!ID(i)[1] = "id" /\ R!ID(i)[2] = i
  /\ \A v \in Nat : R!Version(v)[1] = "version" /\ R!Version(v)[2] = v
  /\ R!Latest[1] = "latest" /\ R!Versions[1] = "versions"
  /\ R!NoVersion[1] # "id" /\ R!NoVersion[1] # "version" /\ R!NoVersion[1] # "versions"
<1>1. /\ \A i \in Nat : R!ID(i)[1] = "id" /\ R!ID(i)[2] = i
      /\ \A v \in Nat : R!Version(v)[1] = "version" /\ R!Version(v)[2] = v
      /\ R!Latest[1] = "latest" /\ R!Versions[1] = "versions"
  BY DEF R!ID, R!Version, R!Latest, R!Versions
<1>2. R!NoVersion[1] # "id" /\ R!NoVersion[1] # "version" /\ R!NoVersion[1] # "versions"
  BY Zenon DEF R!NoVersion
<1> QED BY <1>1, <1>2

\* A bounded set of numbers has a greatest.
LEMMA GreatestExists ==
  ASSUME NEW n \in Nat, NEW among, among \subseteq 1..n, among # {}
  PROVE  \E v \in among : \A u \in among : u <= v
<1> DEFINE Bounds == {x \in Nat : \A u \in among : u <= x}
<1>1. Bounds \subseteq Nat /\ n \in Bounds
  OBVIOUS
<1>2. PICK m \in Bounds : \A y \in Bounds : ~(<<y, m>> \in OpToRel(<, Nat))
  BY <1>1, WFMin, NatLessThanWellFounded
<1>3. \A y \in Bounds : ~(y < m)
  BY <1>1, <1>2 DEF OpToRel
<1>4. m \in Nat /\ \A u \in among : u \in Nat \ {0} /\ u <= m
  OBVIOUS
<1>5. m \in among
  <2> SUFFICES ASSUME m \notin among PROVE FALSE
    OBVIOUS
  <2>1. \A u \in among : u <= m - 1
    BY <1>4
  <2>2. m - 1 \in Nat
    <3>1. PICK u \in among : TRUE
      OBVIOUS
    <3> QED BY <1>4, <3>1
  <2>3. m - 1 \in Bounds
    BY <2>1, <2>2
  <2> QED BY <1>3, <1>4, <2>3
<1> QED BY <1>4, <1>5

LEMMA LatestIsLive == ASSUME StoreInv, R!Live # {} PROVE R!LatestVersion \in R!Live
<1>1. R!Live \subseteq 1..Len(versions) /\ Len(versions) \in Nat
  BY DEF R!Live, StoreInv
<1>2. \E v \in R!Live : \A u \in R!Live : u <= v
  BY <1>1, GreatestExists
<1> QED BY <1>2 DEF R!LatestVersion

LEMMA LiveVersions ==
  ASSUME StoreInv
  PROVE  /\ R!Live \subseteq 1..Len(versions) /\ R!Live \in SUBSET Nat
         /\ \A v \in R!Live : versions[v].schema \in Schemas /\ versions[v].schema \in R!KnownIds
<1>1. R!Live \subseteq 1..Len(versions)
  BY DEF R!Live
<1>2. \A v \in 1..Len(versions) : versions[v] \in VersionRecords
  BY DEF StoreInv
<1>3. \A v \in 1..Len(versions) : versions[v].schema \in Schemas /\ versions[v].schema \in R!KnownIds
  BY <1>2 DEF StoreInv, VersionRecords
<1>4. R!Live \in SUBSET Nat
  <2>1. 1..Len(versions) \subseteq Nat
    BY DEF StoreInv
  <2> QED BY <1>1, <2>1
<1> QED BY <1>1, <1>3, <1>4

LEMMA IdOfKnown == ASSUME NEW s \in R!KnownIds PROVE R!IdOf(s) \in 1..Len(ids) /\ ids[R!IdOf(s)] = s
BY DEF R!KnownIds, R!IdOf

\* What the service answers.
LEMMA ContentFacts ==
  ASSUME StoreInv, NEW key \in RegistryKeys, R!Found(key)
  PROVE  /\ R!Content(key) \in RegistryValues
         /\ \A i \in Nat : key = R!ID(i) => i \in 1..Len(ids) /\ R!Content(key) = ids[i]
         /\ (key \in {R!Latest, R!NoVersion} \/ \E v \in Nat : key = R!Version(v)) => R!Content(key) \in R!KnownIds
         /\ key = R!Latest => R!Live # {} /\ R!Content(key) = versions[R!LatestVersion].schema
         /\ key = R!Versions => R!Content(key) = R!Live
<1>1. CASE \E i \in Nat \ {0} : key = R!ID(i)
  <2>1. PICK i \in Nat \ {0} : key = R!ID(i)
    BY <1>1
  <2>2. i <= Len(ids) /\ R!Content(key) = ids[i]
    BY <2>1, KeyKinds DEF R!Found, R!Content
  <2>3. i \in 1..Len(ids) /\ ids[i] \in Schemas
    BY <2>2 DEF StoreInv
  <2> QED BY <2>1, <2>2, <2>3, RegistryKeysDiffer DEF RegistryValues
<1>2. CASE \E v \in Nat : key = R!Version(v)
  <2>1. PICK v \in Nat : key = R!Version(v)
    BY <1>2
  <2>2. v \in R!Live /\ R!Content(key) = versions[v].schema
    BY <2>1, KeyKinds DEF R!Found, R!Content
  <2> QED BY <2>1, <2>2, LiveVersions, RegistryKeysDiffer DEF RegistryValues
<1>3. CASE key = R!Versions
  <2>1. R!Content(key) = R!Live
    BY <1>3, KeyKinds DEF R!Content
  <2> QED BY <1>3, <2>1, LiveVersions, RegistryKeysDiffer DEF RegistryValues
<1>4. CASE key \in {R!Latest, R!NoVersion}
  <2>1. R!Live # {} /\ R!Content(key) = versions[R!LatestVersion].schema
    BY <1>4, KeyKinds DEF R!Found, R!Content
  <2> QED BY <1>4, <2>1, LatestIsLive, LiveVersions, RegistryKeysDiffer DEF RegistryValues
<1> QED BY <1>1, <1>2, <1>3, <1>4 DEF RegistryKeys

-----------------------------------------------------------------------------
(* The registry: what is cached under an ID.                               *)

RegistryCalls ==
  [at : {"idle", "node", "failed", "answer", "share"}, op : {"get", "register", "delete"}, key : RegistryKeys,
   schema : Schemas \cup {Nothing}, node : R!Nodes, tries : Nat, attempt : Nat, id : Nat,
   value : RegistryValues, since : Nat]

\* A cache holds under an ID the schema of that ID.
Holds(cache) == \A k \in DOMAIN cache :
  /\ k \in RegistryKeys /\ cache[k] \in RegistryValues
  /\ \A i \in Nat : k = R!ID(i) => i \in 1..Len(ids) /\ cache[k] = ids[i]

Answered(call) == call.at \in {"answer", "share"}

\* So does an answer that is on its way into the caches.
CallKnown(call) ==
  /\ call.since <= writes
  /\ call.op = "register" => call.key = R!Latest /\ call.schema \in Schemas
  /\ call.op = "delete" => call.key = R!Latest \/ \E v \in Nat : call.key = R!Version(v)
  /\ Answered(call) /\ call.op = "register" =>
        call.id \in 1..Len(ids) /\ ids[call.id] = call.value
  /\ call.at = "answer" /\ call.op = "get" /\ call.id # 0 =>
        call.id \in 1..Len(ids) /\ ids[call.id] = call.value
  /\ Answered(call) /\ call.op = "get" =>
        \A i \in Nat : call.key = R!ID(i) => i \in 1..Len(ids) /\ call.value = ids[i]

HoldsInv ==
  /\ StoreInv
  /\ DOMAIN caches = R!Nodes /\ (\A n \in R!Nodes : Holds(caches[n])) /\ Holds(sharedCache)
  /\ lastSuccessful \in R!Nodes /\ excused \in BOOLEAN
  /\ caller \in [RegistryCallers -> RegistryCalls]
  /\ \A c \in RegistryCallers : CallKnown(caller[c])

\* A value that the service would answer now.
Current(key, value) ==
  /\ key = R!Latest => R!Live # {} /\ value = versions[R!LatestVersion].schema
  /\ key = R!Versions => value = R!Live

Fresh(cache) ==
  /\ R!Latest \in DOMAIN cache => Current(R!Latest, cache[R!Latest])
  /\ R!Versions \in DOMAIN cache => Current(R!Versions, cache[R!Versions])
FreshLatest(cache) == R!Latest \in DOMAIN cache => Current(R!Latest, cache[R!Latest])

\* A change is on its way to the caches: of the node, of a node that did not
\* serve last, and of the client before it is shared.
Writing(call) == call.at = "answer" /\ call.op # "get"
Astray(call)  == call.at = "share" /\ call.op # "get" /\ call.node # lastSuccessful
Sharing(call) == Answered(call) /\ call.op # "get"

NoneWriting == \A c \in RegistryCallers : ~Writing(caller[c])
NoneAstray  == \A c \in RegistryCallers : ~Astray(caller[c])
NoneSharing == \A c \in RegistryCallers : ~Sharing(caller[c])

Told(call) == call.at = "answer" /\ call.op = "get" /\ call.since = writes => Current(call.key, call.value)
Handed(call) ==
  call.at = "share" /\ call.op = "get" /\ call.since = writes /\ call.node = lastSuccessful =>
      Current(call.key, call.value)

(* As long as nothing excuses it: the caches of the node that served last  *)
(* are current once no change is on its way to them, and so is the shared  *)
(* one; and what a look-up was answered is current unless the store has    *)
(* changed since.                                                          *)
CurrentInv == ~excused =>
  /\ NoneWriting /\ NoneAstray => Fresh(caches[lastSuccessful])
  /\ NoneSharing => FreshLatest(sharedCache)
  /\ \A c \in RegistryCallers : Told(caller[c])
  /\ NoneAstray => \A c \in RegistryCallers : Handed(caller[c])

RegistryInv == HoldsInv /\ CurrentInv

LEMMA NoCallForm ==
  R!NoCall = [at |-> "idle", op |-> "get", key |-> R!Latest, schema |-> Nothing, node |-> 0, tries |-> 0,
              attempt |-> 0, id |-> 0, value |-> {}, since |-> 0]
BY Zenon DEF R!NoCall, Nothing

LEMMA NodesAre == 0 \in R!Nodes /\ \A n \in R!Nodes : (n + 1) % NodeCount \in R!Nodes
BY RegistryAssumption DEF R!Nodes

LEMMA NoCallIsTyped == R!NoCall \in RegistryCalls
BY NoCallForm, NodesAre DEF RegistryCalls, RegistryKeys, RegistryValues

LEMMA NoCallIsKnown == ASSUME writes \in Nat PROVE CallKnown(R!NoCall)
BY NoCallForm DEF CallKnown, Answered

LEMMA RegistryInitially == R!RegistryInit => RegistryInv
<1> SUFFICES ASSUME R!RegistryInit PROVE RegistryInv
  OBVIOUS
<1>1. /\ versions = <<>> /\ ids = <<>> /\ writes = 0
      /\ caches = [n \in R!Nodes |-> <<>>] /\ sharedCache = <<>> /\ lastSuccessful = 0 /\ excused = FALSE
      /\ caller = [c \in RegistryCallers |-> R!NoCall]
  BY DEF R!RegistryInit
<1>2. DOMAIN <<>> = {} /\ Len(<<>>) = 0
  OBVIOUS
<1>3. StoreInv
  BY <1>1, <1>2 DEF StoreInv
<1>4. Holds(<<>>) /\ Fresh(<<>>) /\ FreshLatest(<<>>)
  BY <1>2 DEF Holds, Fresh, FreshLatest
<1>5. HoldsInv
  BY <1>1, <1>3, <1>4, NodesAre, NoCallIsTyped, NoCallIsKnown DEF HoldsInv
<1>6. Told(R!NoCall) /\ Handed(R!NoCall)
  BY NoCallForm DEF Told, Handed
<1>7. CurrentInv
  BY <1>1, <1>4, <1>6, NodesAre DEF CurrentInv
<1> QED BY <1>5, <1>7 DEF RegistryInv

\* The caches grow and shrink.
LEMMA PutHolds ==
  ASSUME NEW cache, Holds(cache), NEW key \in RegistryKeys, NEW value \in RegistryValues,
         \A i \in Nat : key = R!ID(i) => i \in 1..Len(ids) /\ value = ids[i]
  PROVE  Holds(R!Put(cache, key, value))
BY DEF Holds, R!Put

LEMMA ForgetHolds ==
  ASSUME NEW cache, Holds(cache), NEW keys PROVE Holds(R!Forget(cache, keys))
BY DEF Holds, R!Forget, R!Restrict

\* An ID is never given twice, so that what was known of it stays so.
Grows == /\ Len(ids) <= Len(ids') /\ Len(ids') \in Nat /\ \A i \in 1..Len(ids) : ids'[i] = ids[i]
         /\ writes \in Nat /\ writes' \in Nat /\ writes <= writes'

LEMMA KnownStays ==
  ASSUME Grows, Len(ids) \in Nat
  PROVE  /\ \A cache : Holds(cache) => Holds(cache)'
         /\ \A call \in RegistryCalls : CallKnown(call) => CallKnown(call)'
<1>1. \A i \in 1..Len(ids) : i \in 1..Len(ids') /\ ids'[i] = ids[i]
  BY DEF Grows
<1>2. ASSUME NEW cache, Holds(cache) PROVE Holds(cache)'
  BY <1>1, <1>2 DEF Holds
<1>3. ASSUME NEW call \in RegistryCalls, CallKnown(call) PROVE CallKnown(call)'
  <2>1. call.since \in Nat /\ call.since <= writes
    BY <1>3 DEF RegistryCalls, CallKnown
  <2>2. call.since <= writes'
    BY <2>1 DEF Grows
  <2> QED BY <1>1, <1>3, <2>2 DEF CallKnown
<1> QED BY <1>2, <1>3

LEMMA HoldsStep ==
  ASSUME HoldsInv, NEW c \in RegistryCallers, NEW call \in RegistryCalls,
         caller' = [caller EXCEPT ![c] = call], CallKnown(call)', StoreInv', Grows,
         DOMAIN caches' = R!Nodes, \A n \in R!Nodes : caches'[n] = caches[n] \/ Holds(caches[n])',
         sharedCache' = sharedCache \/ Holds(sharedCache)',
         lastSuccessful' \in R!Nodes, excused' \in BOOLEAN
  PROVE  HoldsInv'
<1>1. Len(ids) \in Nat
  BY DEF HoldsInv, StoreInv
<1>2. /\ \A cache : Holds(cache) => Holds(cache)'
      /\ \A other \in RegistryCalls : CallKnown(other) => CallKnown(other)'
  BY <1>1, KnownStays
<1>3. ASSUME NEW n \in R!Nodes PROVE Holds(caches[n])'
  BY <1>2 DEF HoldsInv
<1>4. Holds(sharedCache)'
  BY <1>2 DEF HoldsInv
<1>5. caller' \in [RegistryCallers -> RegistryCalls]
  BY DEF HoldsInv
<1>6. ASSUME NEW d \in RegistryCallers PROVE CallKnown(caller[d])'
  <2>1. CASE d = c
    <3>1. caller'[d] = call
      BY <2>1 DEF HoldsInv
    <3> QED BY <3>1
  <2>2. CASE d # c
    <3>1. caller'[d] = caller[d] /\ caller[d] \in RegistryCalls /\ CallKnown(caller[d])
      BY <2>2 DEF HoldsInv
    <3> QED BY <3>1, <1>2
  <2> QED BY <2>1, <2>2
<1> QED BY <1>3, <1>4, <1>5, <1>6 DEF HoldsInv

-----------------------------------------------------------------------------
(* The registry: what is current.                                          *)

LEMMA SameStore ==
  ASSUME UNCHANGED <<versions, ids, writes>>, StoreInv
  PROVE  /\ StoreInv' /\ Grows
         /\ R!Live' = R!Live /\ R!LatestVersion' = R!LatestVersion
         /\ \A key, value : Current(key, value)' = Current(key, value)
         /\ \A cache : Fresh(cache)' = Fresh(cache) /\ FreshLatest(cache)' = FreshLatest(cache)
         /\ \A call : (Told(call)' = Told(call)) /\ (R!Stale(call)' = R!Stale(call))
<1>1. R!Live' = R!Live
  BY DEF R!Live
<1>2. R!LatestVersion' = R!LatestVersion
  BY <1>1 DEF R!LatestVersion
<1>3. ASSUME NEW key, NEW value PROVE Current(key, value)' = Current(key, value)
  BY <1>1, <1>2 DEF Current
<1>4. ASSUME NEW cache PROVE Fresh(cache)' = Fresh(cache) /\ FreshLatest(cache)' = FreshLatest(cache)
  BY <1>1, <1>2 DEF Fresh, FreshLatest, Current
<1>5. ASSUME NEW call PROVE (Told(call)' = Told(call)) /\ (R!Stale(call)' = R!Stale(call))
  BY <1>1, <1>2 DEF Told, Current, R!Stale
<1>6. StoreInv'
  BY DEF StoreInv, R!KnownIds
<1>7. Grows
  BY DEF Grows, StoreInv
<1> QED BY <1>1, <1>2, <1>3, <1>4, <1>5, <1>6, <1>7

\* A call that is not on its way to the caches, before or after, says nothing about them.
LEMMA QuietKeepsCurrent ==
  ASSUME RegistryInv, NEW c \in RegistryCallers, NEW call \in RegistryCalls,
         caller' = [caller EXCEPT ![c] = call], ~Answered(caller[c]), ~Answered(call),
         UNCHANGED <<versions, ids, writes, caches, lastSuccessful>>,
         excused' \in BOOLEAN, excused => excused',
         sharedCache' = sharedCache \/ (FreshLatest(sharedCache) => FreshLatest(sharedCache)')
  PROVE  CurrentInv'
<1> SUFFICES ASSUME ~excused' PROVE CurrentInv'
  BY DEF CurrentInv
<1>1. /\ ~excused /\ caller \in [RegistryCallers -> RegistryCalls] /\ StoreInv
  BY DEF RegistryInv, HoldsInv
<1>2. \A d \in RegistryCallers : caller'[d] = IF d = c THEN call ELSE caller[d]
  BY <1>1
<1>3. \A d \in RegistryCallers :
        /\ Writing(caller[d])' <=> Writing(caller[d])
        /\ Astray(caller[d])' <=> Astray(caller[d])
        /\ Sharing(caller[d])' <=> Sharing(caller[d])
  BY <1>2 DEF Writing, Astray, Sharing, Answered
<1>4. NoneWriting' = NoneWriting /\ NoneAstray' = NoneAstray /\ NoneSharing' = NoneSharing
  BY <1>3 DEF NoneWriting, NoneAstray, NoneSharing
<1>5. /\ \A key, value : Current(key, value)' = Current(key, value)
      /\ \A cache : Fresh(cache)' = Fresh(cache) /\ FreshLatest(cache)' = FreshLatest(cache)
  BY <1>1, SameStore
<1>6. /\ NoneWriting /\ NoneAstray => Fresh(caches[lastSuccessful])
      /\ NoneSharing => FreshLatest(sharedCache)
      /\ \A d \in RegistryCallers : Told(caller[d])
      /\ NoneAstray => \A d \in RegistryCallers : Handed(caller[d])
  BY <1>1 DEF RegistryInv, CurrentInv
<1>7. (NoneWriting /\ NoneAstray => Fresh(caches[lastSuccessful]))'
  BY <1>4, <1>5, <1>6 DEF Fresh
<1>8. (NoneSharing => FreshLatest(sharedCache))'
  <2>1. CASE sharedCache' = sharedCache
    BY <2>1, <1>4, <1>5, <1>6 DEF FreshLatest
  <2>2. CASE FreshLatest(sharedCache) => FreshLatest(sharedCache)'
    BY <2>2, <1>4, <1>6
  <2> QED BY <2>1, <2>2
<1>9. ASSUME NEW d \in RegistryCallers PROVE Told(caller[d])' /\ (NoneAstray' => Handed(caller[d])')
  <2>1. CASE d = c
    BY <2>1, <1>2 DEF Told, Handed, Answered
  <2>2. CASE d # c
    <3>1. caller'[d] = caller[d]
      BY <2>2, <1>2
    <3>2. Told(caller[d]) /\ (NoneAstray => Handed(caller[d]))
      BY <1>6
    <3> QED BY <3>1, <3>2, <1>4, <1>5 DEF Told, Handed
  <2> QED BY <2>1, <2>2
<1> QED BY <1>7, <1>8, <1>9 DEF CurrentInv

\* Forgetting leaves the rest current.
LEMMA ForgetFresh ==
  ASSUME NEW cache, NEW keys
  PROVE  /\ Fresh(cache) => Fresh(R!Forget(cache, keys))
         /\ FreshLatest(cache) => FreshLatest(R!Forget(cache, keys))
BY DEF Fresh, FreshLatest, R!Forget, R!Restrict

\* A call that the service has not answered yet, or not any more.
LEMMA QuietIsKnown ==
  ASSUME writes \in Nat, NEW call \in RegistryCalls, ~Answered(call), call.since <= writes,
         call.op = "register" => call.key = R!Latest /\ call.schema \in Schemas,
         call.op = "delete" => call.key = R!Latest \/ \E v \in Nat : call.key = R!Version(v)
  PROVE  CallKnown(call)
BY DEF CallKnown, Answered

-----------------------------------------------------------------------------
(* The registry: the steps.                                                *)

LEMMA SchemaKeysAreKeys ==
  /\ R!SchemaKeys \cup {R!Versions} \subseteq RegistryKeys
  /\ \A key \in R!SchemaKeys \cup {R!Versions} : key[1] = "version" => \E v \in Nat : key = R!Version(v)
<1>1. 1..MaxVersions \subseteq Nat \ {0}
  BY RegistryAssumption
<1>2. R!SchemaKeys \cup {R!Versions} \subseteq RegistryKeys
  BY <1>1 DEF R!SchemaKeys, RegistryKeys
<1>3. ASSUME NEW key \in RegistryKeys, key[1] = "version" PROVE \E v \in Nat : key = R!Version(v)
  BY <1>3, KeyKinds DEF RegistryKeys
<1> QED BY <1>2, <1>3

LEMMA StartsCall == ASSUME RegistryInv, NEW c \in RegistryCallers, R!StartCall(c) PROVE RegistryInv'
<1>1. PICK op \in {"get", "register", "delete"}, key \in R!SchemaKeys \cup {R!Versions}, s \in Schemas :
        /\ op = "register" => key = R!Latest
        /\ op = "delete" => key = R!Latest \/ key[1] = "version"
        /\ caller' = [caller EXCEPT ![c] = [R!NoCall EXCEPT !.at = "node", !.op = op, !.key = key,
                                               !.schema = s, !.node = lastSuccessful]]
  BY DEF R!StartCall
<1>2. UNCHANGED <<versions, ids, writes, caches, sharedCache, lastSuccessful, excused>> /\ caller[c].at = "idle"
  BY DEF R!StartCall, R!storeVars, R!cacheVars
<1>3. PICK idle, none, nobody, first : /\ idle = R!NoCall /\ nobody = {} /\ first = lastSuccessful /\ none = R!Latest
        /\ idle = [at |-> "idle", op |-> "get", key |-> none, schema |-> Nothing, node |-> 0, tries |-> 0,
                   attempt |-> 0, id |-> 0, value |-> nobody, since |-> 0]
  BY NoCallForm, Zenon
<1>4. PICK call : /\ caller' = [caller EXCEPT ![c] = call]
                  /\ call = [at |-> "node", op |-> op, key |-> key, schema |-> s, node |-> lastSuccessful,
                             tries |-> 0, attempt |-> 0, id |-> 0, value |-> {}, since |-> 0]
  <2>1. PICK r1 : r1 = [idle EXCEPT !.at = "node"]
    OBVIOUS
  <2>2. PICK r2 : r2 = [r1 EXCEPT !.op = op]
    OBVIOUS
  <2>3. PICK r3 : r3 = [r2 EXCEPT !.key = key]
    OBVIOUS
  <2>4. PICK r4 : r4 = [r3 EXCEPT !.schema = s]
    OBVIOUS
  <2>5. PICK r5 : r5 = [r4 EXCEPT !.node = first]
    OBVIOUS
  <2>6. r1 = [at |-> "node", op |-> "get", key |-> none, schema |-> Nothing, node |-> 0, tries |-> 0,
              attempt |-> 0, id |-> 0, value |-> nobody, since |-> 0]
    BY <1>3, <2>1
  <2>7. r2 = [at |-> "node", op |-> op, key |-> none, schema |-> Nothing, node |-> 0, tries |-> 0,
              attempt |-> 0, id |-> 0, value |-> nobody, since |-> 0]
    BY <2>2, <2>6
  <2>8. r3 = [at |-> "node", op |-> op, key |-> key, schema |-> Nothing, node |-> 0, tries |-> 0,
              attempt |-> 0, id |-> 0, value |-> nobody, since |-> 0]
    BY <2>3, <2>7
  <2>9. r4 = [at |-> "node", op |-> op, key |-> key, schema |-> s, node |-> 0, tries |-> 0,
              attempt |-> 0, id |-> 0, value |-> nobody, since |-> 0]
    BY <2>4, <2>8
  <2>10. r5 = [at |-> "node", op |-> op, key |-> key, schema |-> s, node |-> first, tries |-> 0,
               attempt |-> 0, id |-> 0, value |-> nobody, since |-> 0]
    BY <2>5, <2>9
  <2>11. caller' = [caller EXCEPT ![c] = r5]
    BY <1>1, <1>3, <2>1, <2>2, <2>3, <2>4, <2>5, Zenon
  <2> QED BY <1>3, <2>10, <2>11, Zenon
<1>5. caller' = [caller EXCEPT ![c] = call]
  BY <1>4
<1>6. call \in RegistryCalls
  BY <1>4, SchemaKeysAreKeys DEF RegistryInv, HoldsInv, RegistryCalls, RegistryValues
<1>7. ~Answered(caller[c]) /\ ~Answered(call)
  BY <1>2, <1>4 DEF Answered
<1>8. HoldsInv /\ StoreInv /\ writes \in Nat
  BY DEF RegistryInv, HoldsInv, StoreInv
<1>9. CallKnown(call)
  <2>1. call.since = 0 /\ call.op = op /\ call.key = key /\ call.schema = s
    BY <1>4
  <2>2. op = "delete" => key = R!Latest \/ \E v \in Nat : key = R!Version(v)
    BY <1>1, SchemaKeysAreKeys
  <2>3. call.since <= writes
    BY <2>1, <1>8
  <2> QED BY <2>1, <2>2, <2>3, <1>1, <1>6, <1>7, <1>8, QuietIsKnown
<1>10. StoreInv' /\ Grows
  BY <1>2, <1>8, SameStore
<1>11. CallKnown(call)'
  BY <1>6, <1>8, <1>9, <1>10, KnownStays DEF StoreInv
<1>12. HoldsInv'
  <2>1. /\ DOMAIN caches' = R!Nodes /\ \A n \in R!Nodes : caches'[n] = caches[n]
        /\ sharedCache' = sharedCache /\ lastSuccessful' \in R!Nodes /\ excused' \in BOOLEAN
    BY <1>2 DEF RegistryInv, HoldsInv
  <2> QED BY <2>1, <1>5, <1>6, <1>8, <1>10, <1>11, HoldsStep
<1>13. CurrentInv'
  <2>1. excused' \in BOOLEAN /\ (excused => excused') /\ sharedCache' = sharedCache
    BY <1>2, <1>8 DEF HoldsInv
  <2> QED BY <2>1, <1>2, <1>5, <1>6, <1>7, QuietKeepsCurrent
<1> QED BY <1>12, <1>13 DEF RegistryInv

LEMMA RequestsFail == ASSUME RegistryInv, NEW c \in RegistryCallers, R!RequestFails(c) PROVE RegistryInv'
<1>1. UNCHANGED <<versions, ids, writes, caches, sharedCache, lastSuccessful, excused>> /\ caller[c].at = "node"
  BY DEF R!RequestFails, R!storeVars, R!cacheVars
<1>2. HoldsInv /\ StoreInv /\ writes \in Nat /\ caller[c] \in RegistryCalls /\ CallKnown(caller[c])
  BY DEF RegistryInv, HoldsInv, StoreInv
<1>3. PICK call : /\ call \in RegistryCalls /\ caller' = [caller EXCEPT ![c] = call] /\ call.at = "failed"
                  /\ call.op = caller[c].op /\ call.key = caller[c].key /\ call.schema = caller[c].schema
                  /\ call.since = caller[c].since
  <2>1. CASE caller' = [caller EXCEPT ![c].at = "failed"]
    <3>1. PICK before : before = caller[c] /\ before \in RegistryCalls
      BY <1>2
    <3>2. PICK call : call = [before EXCEPT !.at = "failed"]
      OBVIOUS
    <3>3. /\ call \in RegistryCalls /\ call.at = "failed" /\ call.op = before.op /\ call.key = before.key
          /\ call.schema = before.schema /\ call.since = before.since
      BY <3>1, <3>2 DEF RegistryCalls
    <3>4. caller' = [caller EXCEPT ![c] = call]
      BY <2>1, <3>1, <3>2
    <3> QED BY <3>1, <3>3, <3>4
  <2>2. CASE caller' = [caller EXCEPT ![c].at = "failed", ![c].attempt = RetryCount]
    <3>1. PICK before : before = caller[c] /\ before \in RegistryCalls
      BY <1>2
    <3>2. PICK call : call = [before EXCEPT !.at = "failed", !.attempt = RetryCount]
      OBVIOUS
    <3>3. /\ call \in RegistryCalls /\ call.at = "failed" /\ call.op = before.op /\ call.key = before.key
          /\ call.schema = before.schema /\ call.since = before.since
      BY <3>1, <3>2, RegistryAssumption DEF RegistryCalls
    <3>4. caller' = [caller EXCEPT ![c] = call]
      BY <2>2, <3>1, <3>2
    <3> QED BY <3>1, <3>3, <3>4
  <2> QED BY <2>1, <2>2 DEF R!RequestFails
<1>4. ~Answered(caller[c]) /\ ~Answered(call)
  BY <1>1, <1>3 DEF Answered
<1>5. CallKnown(call)
  BY <1>2, <1>3, <1>4, QuietIsKnown DEF CallKnown
<1>6. StoreInv' /\ Grows
  BY <1>1, <1>2, SameStore
<1>7. CallKnown(call)'
  BY <1>2, <1>3, <1>5, <1>6, KnownStays DEF StoreInv
<1>8. HoldsInv'
  <2>1. /\ DOMAIN caches' = R!Nodes /\ \A n \in R!Nodes : caches'[n] = caches[n]
        /\ sharedCache' = sharedCache /\ lastSuccessful' \in R!Nodes /\ excused' \in BOOLEAN
    BY <1>1, <1>2 DEF HoldsInv
  <2> QED BY <2>1, <1>2, <1>3, <1>6, <1>7, HoldsStep
<1>9. CurrentInv'
  <2>1. excused' \in BOOLEAN /\ (excused => excused') /\ sharedCache' = sharedCache
    BY <1>1, <1>2 DEF HoldsInv
  <2> QED BY <2>1, <1>1, <1>3, <1>4, QuietKeepsCurrent
<1> QED BY <1>8, <1>9 DEF RegistryInv

LEMMA FailsOver == ASSUME RegistryInv, NEW c \in RegistryCallers, R!FailOver(c) PROVE RegistryInv'
<1>1. UNCHANGED <<versions, ids, writes, caches, lastSuccessful, excused>> /\ caller[c].at = "failed"
  BY DEF R!FailOver, R!storeVars
<1>2. HoldsInv /\ StoreInv /\ writes \in Nat /\ caller[c] \in RegistryCalls /\ CallKnown(caller[c])
  BY DEF RegistryInv, HoldsInv, StoreInv
<1>3. PICK call : /\ call \in RegistryCalls /\ caller' = [caller EXCEPT ![c] = call]
                  /\ ~Answered(call) /\ CallKnown(call)
  <2>1. PICK before : before = caller[c] /\ before \in RegistryCalls
    BY <1>2
  <2>2. CASE before.attempt < RetryCount
    <3>0. PICK t \in Nat : t = before.attempt + 1
      BY <2>1 DEF RegistryCalls
    <3>1. PICK call : call = [before EXCEPT !.at = "node", !.attempt = t]
      OBVIOUS
    <3>2. /\ call \in RegistryCalls /\ call.at = "node" /\ call.op = before.op /\ call.key = before.key
          /\ call.schema = before.schema /\ call.since = before.since
      BY <2>1, <3>1 DEF RegistryCalls
    <3>3. caller' = [caller EXCEPT ![c] = call]
      BY <2>1, <2>2, <3>0, <3>1 DEF R!FailOver
    <3>4. ~Answered(call)
      BY <3>2 DEF Answered
    <3>5. CallKnown(call)
      BY <1>2, <2>1, <3>2, <3>4, QuietIsKnown DEF CallKnown
    <3> QED BY <3>2, <3>3, <3>4, <3>5
  <2>3. CASE ~(before.attempt < RetryCount) /\ before.tries + 1 < NodeCount
    <3>1. PICK n \in R!Nodes, t \in Nat : n = (before.node + 1) % NodeCount /\ t = before.tries + 1
      BY <2>1, NodesAre DEF RegistryCalls
    <3>2. PICK call : call = [before EXCEPT !.at = "node", !.attempt = 0, !.tries = t, !.node = n]
      OBVIOUS
    <3>3. /\ call \in RegistryCalls /\ call.at = "node" /\ call.op = before.op /\ call.key = before.key
          /\ call.schema = before.schema /\ call.since = before.since
      BY <2>1, <3>1, <3>2 DEF RegistryCalls
    <3>4. caller' = [caller EXCEPT ![c] = call]
      BY <2>1, <2>3, <3>1, <3>2 DEF R!FailOver
    <3>5. ~Answered(call)
      BY <3>3 DEF Answered
    <3>6. CallKnown(call)
      BY <1>2, <2>1, <3>3, <3>5, QuietIsKnown DEF CallKnown
    <3> QED BY <3>3, <3>4, <3>5, <3>6
  <2>4. CASE ~(before.attempt < RetryCount) /\ ~(before.tries + 1 < NodeCount)
    <3>1. caller' = [caller EXCEPT ![c] = R!NoCall]
      BY <2>1, <2>4 DEF R!FailOver
    <3>2. ~Answered(R!NoCall)
      BY NoCallForm DEF Answered
    <3> QED BY <3>1, <3>2, <1>2, NoCallIsTyped, NoCallIsKnown
  <2> QED BY <2>2, <2>3, <2>4
<1>4. ~Answered(caller[c])
  BY <1>1 DEF Answered
<1>5. sharedCache' = sharedCache \/ \E keys : sharedCache' = R!Forget(sharedCache, keys)
  BY DEF R!FailOver
<1>6. StoreInv' /\ Grows
  BY <1>1, <1>2, SameStore
<1>7. CallKnown(call)'
  BY <1>2, <1>3, <1>6, KnownStays DEF StoreInv
<1>8. HoldsInv'
  <2>1. sharedCache' = sharedCache \/ Holds(sharedCache)'
    <3>1. ASSUME NEW keys, sharedCache' = R!Forget(sharedCache, keys) PROVE Holds(sharedCache)'
      <4>1. PICK cache : cache = R!Forget(sharedCache, keys)
        OBVIOUS
      <4>2. Holds(cache)
        BY <1>2, <4>1, ForgetHolds DEF HoldsInv
      <4>3. Holds(cache)'
        BY <1>2, <1>6, <4>2, KnownStays DEF StoreInv
      <4> QED BY <3>1, <4>1, <4>3
    <3> QED BY <1>5, <3>1
  <2>2. /\ DOMAIN caches' = R!Nodes /\ \A n \in R!Nodes : caches'[n] = caches[n]
        /\ lastSuccessful' \in R!Nodes /\ excused' \in BOOLEAN
    BY <1>1, <1>2 DEF HoldsInv
  <2> QED BY <2>1, <2>2, <1>2, <1>3, <1>6, <1>7, HoldsStep
<1>9. CurrentInv'
  <2>1. excused' \in BOOLEAN /\ (excused => excused')
    BY <1>1, <1>2 DEF HoldsInv
  <2>2. sharedCache' = sharedCache \/ (FreshLatest(sharedCache) => FreshLatest(sharedCache)')
    <3>1. ASSUME NEW keys, sharedCache' = R!Forget(sharedCache, keys), FreshLatest(sharedCache)
          PROVE  FreshLatest(sharedCache)'
      <4>1. PICK cache : cache = R!Forget(sharedCache, keys)
        OBVIOUS
      <4>2. FreshLatest(cache)
        BY <3>1, <4>1, ForgetFresh
      <4>3. FreshLatest(cache)'
        BY <1>1, <1>2, <4>2, SameStore
      <4> QED BY <3>1, <4>1, <4>3
    <3> QED BY <1>5, <3>1
  <2> QED BY <2>1, <2>2, <1>1, <1>3, <1>4, QuietKeepsCurrent
<1> QED BY <1>8, <1>9 DEF RegistryInv

LEMMA HitsNodeCache == ASSUME RegistryInv, NEW c \in RegistryCallers, R!HitNodeCache(c) PROVE RegistryInv'
<1>1. /\ UNCHANGED <<versions, ids, writes, caches, sharedCache, lastSuccessful>>
      /\ caller[c].at = "node" /\ caller[c].op = "get" /\ caller[c].key \in DOMAIN caches[caller[c].node]
  BY DEF R!HitNodeCache, R!storeVars
<1>2. HoldsInv /\ StoreInv /\ writes \in Nat /\ caller[c] \in RegistryCalls /\ CallKnown(caller[c])
  BY DEF RegistryInv, HoldsInv, StoreInv
<1>3. PICK value \in RegistryValues :
        /\ value = caches[caller[c].node][caller[c].key]
        /\ \A i \in Nat : caller[c].key = R!ID(i) => i \in 1..Len(ids) /\ value = ids[i]
  <2>1. caller[c].node \in R!Nodes
    BY <1>2 DEF RegistryCalls
  <2>2. Holds(caches[caller[c].node])
    BY <1>2, <2>1 DEF HoldsInv
  <2> QED BY <1>1, <2>2 DEF Holds
<1>4. PICK call \in RegistryCalls :
        /\ caller' = [caller EXCEPT ![c] = call]
        /\ call.at = "share" /\ call.op = "get" /\ call.key = caller[c].key /\ call.value = value
        /\ call.node = caller[c].node
        /\ call.since = writes
  <2>1. PICK before, now : before = caller[c] /\ before \in RegistryCalls /\ now = writes /\ now \in Nat
    BY <1>2
  <2>2. PICK call : call = [before EXCEPT !.at = "share", !.value = value, !.since = now]
    OBVIOUS
  <2>3. /\ call \in RegistryCalls /\ call.at = "share" /\ call.op = before.op /\ call.key = before.key
        /\ call.value = value /\ call.since = now /\ call.node = before.node
    BY <2>1, <2>2 DEF RegistryCalls
  <2>4. caller' = [caller EXCEPT ![c] = call]
    BY <1>3, <2>1, <2>2 DEF R!HitNodeCache
  <2> QED BY <1>1, <2>1, <2>3, <2>4
<1>5. CallKnown(call)
  <2>1. call.since <= writes
    BY <1>2, <1>4
  <2> QED BY <1>3, <1>4, <2>1 DEF CallKnown
<1>6. StoreInv' /\ Grows
  BY <1>1, <1>2, SameStore
<1>7. CallKnown(call)'
  BY <1>2, <1>4, <1>5, <1>6, KnownStays DEF StoreInv
<1>8. excused' = (excused \/ ~NoneWriting) /\ excused \in BOOLEAN
  BY <1>2 DEF R!HitNodeCache, NoneWriting, Writing, HoldsInv
<1>9. HoldsInv'
  <2>1. /\ DOMAIN caches' = R!Nodes /\ \A n \in R!Nodes : caches'[n] = caches[n]
        /\ sharedCache' = sharedCache /\ lastSuccessful' \in R!Nodes
    BY <1>1, <1>2 DEF HoldsInv
  <2>2. excused' \in BOOLEAN
    BY <1>8
  <2> QED BY <2>1, <2>2, <1>2, <1>4, <1>6, <1>7, HoldsStep
<1>10. ASSUME ~excused' PROVE CurrentInv'
  <2>1. ~excused /\ NoneWriting
    BY <1>8, <1>10
  <2>2. \A d \in RegistryCallers : caller'[d] = IF d = c THEN call ELSE caller[d]
    BY <1>2, <1>4 DEF HoldsInv
  <2>3. \A d \in RegistryCallers :
          /\ Writing(caller[d])' <=> Writing(caller[d])
          /\ Astray(caller[d])' <=> Astray(caller[d])
          /\ Sharing(caller[d])' <=> Sharing(caller[d])
    BY <1>1, <1>4, <2>2 DEF Writing, Astray, Sharing, Answered
  <2>4. NoneWriting' = NoneWriting /\ NoneAstray' = NoneAstray /\ NoneSharing' = NoneSharing
    BY <2>3 DEF NoneWriting, NoneAstray, NoneSharing
  <2>5. /\ \A key, val : Current(key, val)' = Current(key, val)
        /\ \A cache : Fresh(cache)' = Fresh(cache) /\ FreshLatest(cache)' = FreshLatest(cache)
    BY <1>1, <1>2, SameStore
  <2>6. /\ NoneAstray => Fresh(caches[lastSuccessful])
        /\ NoneSharing => FreshLatest(sharedCache)
        /\ \A d \in RegistryCallers : Told(caller[d])
        /\ NoneAstray => \A d \in RegistryCallers : Handed(caller[d])
    BY <2>1 DEF RegistryInv, CurrentInv
  <2>7. (NoneWriting /\ NoneAstray => Fresh(caches[lastSuccessful]))'
    BY <1>1, <2>4, <2>5, <2>6 DEF Fresh
  <2>8. (NoneSharing => FreshLatest(sharedCache))'
    BY <1>1, <2>4, <2>5, <2>6 DEF FreshLatest
  <2>9. ASSUME NEW d \in RegistryCallers PROVE Told(caller[d])' /\ (NoneAstray' => Handed(caller[d])')
    <3>1. CASE d = c
      <4>1. caller'[d] = call
        BY <3>1, <2>2
      <4>2. ASSUME NoneAstray, call.node = lastSuccessful PROVE Current(call.key, call.value)
        <5>1. call.key \in DOMAIN caches[lastSuccessful] /\ call.value = caches[lastSuccessful][call.key]
          BY <1>1, <1>3, <1>4, <4>2
        <5>2. Fresh(caches[lastSuccessful])
          BY <2>6, <4>2
        <5> QED BY <5>1, <5>2 DEF Fresh, Current
      <4> QED BY <1>1, <1>4, <2>4, <2>5, <4>1, <4>2 DEF Told, Handed
    <3>2. CASE d # c
      <4>1. caller'[d] = caller[d]
        BY <3>2, <2>2
      <4>2. Told(caller[d]) /\ (NoneAstray => Handed(caller[d]))
        BY <2>6
      <4> QED BY <1>1, <4>1, <4>2, <2>4, <2>5 DEF Told, Handed
    <3> QED BY <3>1, <3>2
  <2> QED BY <2>7, <2>8, <2>9 DEF CurrentInv
<1> QED BY <1>9, <1>10 DEF RegistryInv, CurrentInv

\* The service takes a registration: the store stays, or it is written.
LEMMA Registers ==
  ASSUME StoreInv, NEW call, call.op = "register", call.schema \in Schemas, R!Serve(call)
  PROVE  /\ StoreInv' /\ Grows /\ \E i \in 1..Len(ids') : ids'[i] = call.schema
         /\ UNCHANGED <<versions, ids, writes>> \/ writes < writes'
<1>1. PICK s \in Schemas, last \in Nat : s = call.schema /\ last = Len(ids)
  BY DEF StoreInv
<1>2. /\ ids' = IF s \in R!KnownIds THEN ids ELSE Append(ids, s)
      /\ versions' = IF R!Registered(s) THEN versions ELSE Append(versions, [schema |-> s, live |-> TRUE])
      /\ writes' = IF R!Registered(s) THEN writes ELSE writes + 1
  BY <1>1 DEF R!Serve
<1>3. /\ ids' \in Seq(Schemas) /\ Len(ids) <= Len(ids') /\ \A i \in 1..Len(ids) : ids'[i] = ids[i]
      /\ \E i \in 1..Len(ids') : ids'[i] = s
  <2>1. CASE s \in R!KnownIds
    BY <1>1, <1>2, <2>1 DEF StoreInv, R!KnownIds
  <2>2. CASE s \notin R!KnownIds
    <3>1. ids' = Append(ids, s) /\ ids \in Seq(Schemas)
      BY <1>2, <2>2 DEF StoreInv
    <3>2. /\ ids' \in Seq(Schemas) /\ Len(ids') = last + 1 /\ ids'[last + 1] = s
          /\ \A i \in 1..Len(ids) : ids'[i] = ids[i]
      BY <1>1, <3>1
    <3>3. last + 1 \in 1..Len(ids') /\ Len(ids) <= Len(ids')
      BY <1>1, <3>2
    <3> QED BY <3>2, <3>3
  <2> QED BY <2>1, <2>2
<1>4. R!KnownIds \subseteq R!KnownIds' /\ s \in R!KnownIds'
  <2>1. \A i \in 1..Len(ids) : i \in 1..Len(ids') /\ ids'[i] = ids[i]
    BY <1>3 DEF StoreInv
  <2> QED BY <1>3, <2>1 DEF R!KnownIds
<1>5. versions' \in Seq(VersionRecords) /\ \A v \in 1..Len(versions') : versions'[v].schema \in R!KnownIds'
  <2>1. CASE R!Registered(s)
    BY <1>2, <1>4, <2>1 DEF StoreInv
  <2>2. CASE ~R!Registered(s)
    <3>1. PICK new \in VersionRecords : new = [schema |-> s, live |-> TRUE]
      BY DEF VersionRecords
    <3>2. versions' = Append(versions, new) /\ versions \in Seq(VersionRecords) /\ new.schema = s
      BY <1>2, <2>2, <3>1 DEF StoreInv
    <3>3. /\ versions' \in Seq(VersionRecords) /\ Len(versions') = Len(versions) + 1
          /\ \A v \in 1..Len(versions) : versions'[v] = versions[v]
          /\ versions'[Len(versions) + 1] = new
      BY <3>2
    <3>4. \A v \in 1..Len(versions') : v \in 1..Len(versions) \/ v = Len(versions) + 1
      BY <3>2, <3>3
    <3> QED BY <1>4, <3>2, <3>3, <3>4 DEF StoreInv
  <2> QED BY <2>1, <2>2
<1>6. writes' \in Nat /\ writes <= writes' /\ (R!Registered(s) \/ writes < writes')
  BY <1>2 DEF StoreInv
<1>7. R!Registered(s) => s \in R!KnownIds
  BY DEF R!Registered, R!Live, StoreInv
<1> QED BY <1>1, <1>2, <1>3, <1>4, <1>5, <1>6, <1>7 DEF StoreInv, Grows

\* The service takes a deletion.
LEMMA Deletes ==
  ASSUME StoreInv, NEW call, call.op = "delete", R!Serve(call)
  PROVE  StoreInv' /\ Grows /\ writes < writes'
<1>1. PICK at : versions' = [versions EXCEPT ![at].live = FALSE]
  BY DEF R!Serve
<1>2. writes' = writes + 1 /\ ids' = ids
  BY DEF R!Serve
<1>3. versions \in Seq(VersionRecords)
  BY DEF StoreInv
<1>4. PICK old, new : old = versions[at] /\ new = [old EXCEPT !.live = FALSE]
  OBVIOUS
<1>5. /\ Len(versions') = Len(versions) /\ versions' \in Seq(VersionRecords)
      /\ \A v \in 1..Len(versions) : versions'[v].schema = versions[v].schema
  <2>1. versions' = [versions EXCEPT ![at] = new]
    BY <1>1, <1>4
  <2>2. CASE at \in 1..Len(versions)
    <3>1. old \in VersionRecords
      BY <1>3, <1>4, <2>2
    <3>2. new \in VersionRecords /\ new.schema = old.schema
      BY <1>4, <3>1 DEF VersionRecords
    <3> QED BY <1>3, <1>4, <2>1, <2>2, <3>2
  <2>3. CASE at \notin 1..Len(versions)
    <3>1. versions' = versions
      BY <1>3, <2>1, <2>3
    <3> QED BY <1>3, <3>1
  <2> QED BY <2>2, <2>3
<1>6. R!KnownIds' = R!KnownIds
  BY <1>2 DEF R!KnownIds
<1>7. StoreInv'
  BY <1>2, <1>5, <1>6 DEF StoreInv
<1> QED BY <1>2, <1>7 DEF StoreInv, Grows

\* The answer that the service sends.
LEMMA AnswerFacts ==
  ASSUME RegistryInv, NEW c \in RegistryCallers, R!Request(c), StoreInv', Grows,
         caller[c].op # "register" => UNCHANGED ids,
         caller[c].op = "register" => \E i \in 1..Len(ids') : ids'[i] = caller[c].schema,
         caller' = [caller EXCEPT ![c] = [R!Served(caller[c]) EXCEPT !.at = "answer", !.since = writes']]
  PROVE  \E call \in RegistryCalls :
           /\ caller' = [caller EXCEPT ![c] = call] /\ CallKnown(call)'
           /\ call.at = "answer" /\ call.op = caller[c].op /\ call.key = caller[c].key
           /\ call.op = "get" => call.value = R!Content(call.key) /\ R!Found(call.key)
<1>1. HoldsInv /\ StoreInv /\ writes' \in Nat /\ Len(ids) \in Nat /\ Len(ids') \in Nat
  BY DEF RegistryInv, HoldsInv, StoreInv
<1>2. PICK before \in RegistryCalls, now \in Nat : before = caller[c] /\ now = writes'
  BY <1>1 DEF HoldsInv
<1>3. CallKnown(before)
  BY <1>1, <1>2 DEF HoldsInv
<1>4. CASE before.op = "register"
  <2>0. PICK id : id = CHOOSE i \in 1..Len(ids') : ids'[i] = before.schema
    OBVIOUS
  <2>1. id \in 1..Len(ids') /\ ids'[id] = before.schema
    <3>1. \E i \in 1..Len(ids') : ids'[i] = before.schema
      BY <1>2, <1>4
    <3> QED BY <2>0, <3>1, Zenon
  <2>2. PICK value \in RegistryValues : value = before.schema
    BY <1>3, <1>4 DEF CallKnown, RegistryValues
  <2>3. PICK served : served = [before EXCEPT !.id = id, !.value = value]
    OBVIOUS
  <2>4. R!Served(before) = served
    <3>1. R!Served(before) = [before EXCEPT !.id = CHOOSE i \in 1..Len(ids') : ids'[i] = before.schema,
                                            !.value = before.schema]
      BY <1>4, Zenon DEF R!Served
    <3>2. [before EXCEPT !.id = CHOOSE i \in 1..Len(ids') : ids'[i] = before.schema, !.value = before.schema] = served
      BY <2>0, <2>2, <2>3, Zenon
    <3> QED BY <3>1, <3>2, Zenon
  <2>5. PICK call : call = [served EXCEPT !.at = "answer", !.since = now]
    OBVIOUS
  <2>6. caller' = [caller EXCEPT ![c] = call]
    BY <1>2, <2>4, <2>5
  <2>7. id \in Nat
    BY <1>1, <2>1
  <2>8. /\ served \in RegistryCalls /\ served.id = id /\ served.value = value /\ served.op = before.op
        /\ served.key = before.key /\ served.schema = before.schema
    BY <2>3, <2>7 DEF RegistryCalls
  <2>9. /\ call \in RegistryCalls /\ call.id = id /\ call.value = value /\ call.op = before.op
        /\ call.key = before.key /\ call.schema = before.schema /\ call.at = "answer" /\ call.since = now
    BY <2>5, <2>8 DEF RegistryCalls
  <2>10. CallKnown(call)'
    <3>1. call.since <= writes'
      BY <1>2, <2>9
    <3>2. before.key = R!Latest /\ before.schema \in Schemas
      BY <1>3, <1>4 DEF CallKnown
    <3>3. ids'[id] = value
      BY <2>1, <2>2
    <3>4. call.op = "register" /\ call.id \in 1..Len(ids') /\ ids'[call.id] = call.value
      BY <1>4, <2>1, <2>9, <3>3
    <3> QED BY <2>9, <3>1, <3>2, <3>4 DEF CallKnown
  <2> QED BY <1>2, <1>4, <2>6, <2>9, <2>10
<1>5. CASE before.op = "delete"
  <2>1. R!Served(before) = before
    BY <1>5 DEF R!Served
  <2>2. PICK call : call = [before EXCEPT !.at = "answer", !.since = now]
    OBVIOUS
  <2>3. caller' = [caller EXCEPT ![c] = call]
    BY <1>2, <2>1, <2>2
  <2>4. /\ call \in RegistryCalls /\ call.op = before.op
        /\ call.key = before.key /\ call.at = "answer" /\ call.since = now
    BY <2>2 DEF RegistryCalls
  <2>5. CallKnown(call)'
    <3>1. call.since <= writes'
      BY <1>2, <2>4
    <3>2. before.key = R!Latest \/ \E v \in Nat : before.key = R!Version(v)
      BY <1>3, <1>5 DEF CallKnown
    <3> QED BY <1>5, <2>4, <3>1, <3>2 DEF CallKnown
  <2> QED BY <1>2, <1>5, <2>3, <2>4, <2>5
<1>6. CASE before.op = "get"
  <2>1. R!Found(before.key) /\ before.key \in RegistryKeys /\ ids' = ids
    BY <1>2, <1>6 DEF R!Request, RegistryCalls
  <2>2. PICK value \in RegistryValues :
          /\ value = R!Content(before.key)
          /\ \A i \in Nat : before.key = R!ID(i) => i \in 1..Len(ids) /\ value = ids[i]
          /\ (before.key \in {R!Latest, R!NoVersion} \/ \E v \in Nat : before.key = R!Version(v)) => value \in R!KnownIds
    BY <1>1, <2>1, ContentFacts
  <2>3. PICK id : id = IF before.key \in {R!Latest, R!NoVersion} \/ before.key[1] = "version"
                       THEN R!IdOf(value) ELSE 0
    OBVIOUS
  <2>4. id \in Nat /\ (id # 0 => id \in 1..Len(ids) /\ ids[id] = value)
    <3>1. before.key[1] = "version" => \E v \in Nat : before.key = R!Version(v)
      BY <2>1, KeyKinds DEF RegistryKeys
    <3>2. id # 0 => value \in R!KnownIds /\ id = R!IdOf(value)
      BY <2>2, <2>3, <3>1
    <3>3. id # 0 => id \in 1..Len(ids) /\ ids[id] = value
      BY <3>2, IdOfKnown
    <3>4. id \in Nat
      BY <1>1, <3>3
    <3> QED BY <3>3, <3>4
  <2>5. PICK served : served = [before EXCEPT !.value = value, !.id = id]
    OBVIOUS
  <2>6. R!Served(before) = served
    BY <1>6, <2>2, <2>3, <2>5 DEF R!Served
  <2>7. PICK call : call = [served EXCEPT !.at = "answer", !.since = now]
    OBVIOUS
  <2>8. caller' = [caller EXCEPT ![c] = call]
    BY <1>2, <2>6, <2>7
  <2>9. /\ served \in RegistryCalls /\ served.id = id /\ served.value = value /\ served.op = before.op
        /\ served.key = before.key
    BY <2>4, <2>5 DEF RegistryCalls
  <2>10. /\ call \in RegistryCalls /\ call.id = id /\ call.value = value /\ call.op = before.op
         /\ call.key = before.key /\ call.at = "answer" /\ call.since = now
    BY <2>7, <2>9 DEF RegistryCalls
  <2>11. CallKnown(call)'
    <3>1. call.since <= writes'
      BY <1>2, <2>10
    <3> QED BY <1>6, <2>1, <2>2, <2>4, <2>10, <3>1 DEF CallKnown
  <2> QED BY <1>2, <1>6, <2>1, <2>2, <2>8, <2>10, <2>11
<1> QED BY <1>2, <1>4, <1>5, <1>6 DEF RegistryCalls

\* A change that the service has made is on its way; what was answered before
\* it is not told any more.
LEMMA WritingKeepsCurrent ==
  ASSUME RegistryInv, NEW c \in RegistryCallers, NEW call \in RegistryCalls,
         caller' = [caller EXCEPT ![c] = call], Writing(call), caller[c].at = "node", Grows,
         UNCHANGED <<versions, ids, writes>> \/ writes < writes',
         UNCHANGED <<caches, sharedCache, lastSuccessful, excused>>
  PROVE  CurrentInv'
<1> SUFFICES ASSUME ~excused' PROVE CurrentInv'
  BY DEF CurrentInv
<1>1. ~excused /\ HoldsInv /\ StoreInv /\ writes \in Nat /\ writes' \in Nat
  BY DEF RegistryInv, HoldsInv, Grows
<1>2. \A d \in RegistryCallers : caller'[d] = IF d = c THEN call ELSE caller[d]
  BY <1>1 DEF HoldsInv
<1>3. caller'[c] = call
  BY <1>2
<1>4. ~NoneWriting' /\ ~NoneSharing'
  BY <1>3 DEF NoneWriting, NoneSharing, Writing, Sharing, Answered
<1>5. \A d \in RegistryCallers : Astray(caller[d])' <=> Astray(caller[d])
  BY <1>2 DEF Astray, Writing
<1>6. NoneAstray' = NoneAstray
  BY <1>5 DEF NoneAstray
<1>7. ASSUME NEW d \in RegistryCallers PROVE Told(caller[d])' /\ (NoneAstray' => Handed(caller[d])')
  <2>1. CASE d = c
    BY <2>1, <1>3 DEF Told, Handed, Writing
  <2>2. CASE d # c
    <3>1. caller'[d] = caller[d] /\ caller[d] \in RegistryCalls /\ CallKnown(caller[d])
      BY <2>2, <1>1, <1>2 DEF HoldsInv
    <3>2. Told(caller[d]) /\ (NoneAstray => Handed(caller[d]))
      BY <1>1 DEF RegistryInv, CurrentInv
    <3>3. CASE UNCHANGED <<versions, ids, writes>>
      <4>1. \A key, value : Current(key, value)' = Current(key, value)
        BY <1>1, <3>3, SameStore
      <4> QED BY <3>1, <3>2, <3>3, <4>1, <1>6 DEF Told, Handed
    <3>4. CASE writes < writes'
      <4>1. caller[d].since \in Nat /\ caller[d].since <= writes
        BY <3>1 DEF RegistryCalls, CallKnown
      <4>2. caller[d].since # writes'
        BY <1>1, <3>4, <4>1
      <4> QED BY <3>1, <4>2 DEF Told, Handed
    <3> QED BY <3>3, <3>4
  <2> QED BY <2>1, <2>2
<1> QED BY <1>4, <1>7 DEF CurrentInv

LEMMA RequestIsServed ==
  ASSUME RegistryInv, NEW c \in RegistryCallers, R!Request(c) PROVE RegistryInv'
<1>1. /\ UNCHANGED <<caches, sharedCache, lastSuccessful>> /\ caller[c].at = "node" /\ R!Serve(caller[c])
      /\ caller[c].op = "register" \/ R!Found(caller[c].key)
  BY DEF R!Request
<1>2. /\ HoldsInv /\ StoreInv /\ writes \in Nat /\ caller[c] \in RegistryCalls /\ CallKnown(caller[c])
      /\ excused \in BOOLEAN
  BY DEF RegistryInv, HoldsInv, StoreInv
<1>3. caller[c].op \in {"get", "register", "delete"}
  BY <1>2 DEF RegistryCalls
<1>4. caller[c].op = "get" => UNCHANGED <<versions, ids, writes>>
  BY <1>1 DEF R!Serve, R!storeVars
<1>5. /\ StoreInv' /\ Grows
      /\ caller[c].op # "register" => UNCHANGED ids
      /\ caller[c].op = "register" => \E i \in 1..Len(ids') : ids'[i] = caller[c].schema
      /\ UNCHANGED <<versions, ids, writes>> \/ writes < writes'
  <2>1. CASE caller[c].op = "register"
    <3>1. caller[c].schema \in Schemas
      BY <1>2, <2>1 DEF CallKnown
    <3> QED BY <1>1, <1>2, <2>1, <3>1, Registers
  <2>2. CASE caller[c].op = "delete"
    <3>1. UNCHANGED ids
      BY <1>1, <2>2 DEF R!Serve
    <3> QED BY <1>1, <1>2, <2>2, <3>1, Deletes
  <2>3. CASE caller[c].op = "get"
    BY <1>2, <1>4, <2>3, SameStore
  <2> QED BY <1>3, <2>1, <2>2, <2>3
<1>6. /\ DOMAIN caches' = R!Nodes /\ \A n \in R!Nodes : caches'[n] = caches[n]
      /\ sharedCache' = sharedCache /\ lastSuccessful' \in R!Nodes
  BY <1>1, <1>2 DEF HoldsInv
<1>7. CASE /\ caller' = [caller EXCEPT ![c] = [R!Served(caller[c]) EXCEPT !.at = "answer", !.since = writes']]
           /\ UNCHANGED excused
  <2>1. PICK call \in RegistryCalls :
           /\ caller' = [caller EXCEPT ![c] = call] /\ CallKnown(call)'
           /\ call.at = "answer" /\ call.op = caller[c].op /\ call.key = caller[c].key
           /\ call.op = "get" => call.value = R!Content(call.key) /\ R!Found(call.key)
    BY <1>5, <1>7, AnswerFacts
  <2>2. HoldsInv'
    <3>1. excused' \in BOOLEAN
      BY <1>2, <1>7
    <3> QED BY <1>2, <1>5, <1>6, <2>1, <3>1, HoldsStep
  <2>3. CASE call.op # "get"
    <3>1. Writing(call)
      BY <2>1, <2>3 DEF Writing
    <3>2. CurrentInv'
      BY <1>1, <1>5, <1>7, <2>1, <3>1, WritingKeepsCurrent
    <3> QED BY <2>2, <3>2 DEF RegistryInv
  <2>4. CASE call.op = "get"
    <3>1. UNCHANGED <<versions, ids, writes>>
      BY <1>4, <2>1, <2>4
    <3>2. Current(call.key, call.value)
      <4>1. call.key \in RegistryKeys
        BY DEF RegistryCalls
      <4> QED BY <1>2, <2>1, <2>4, <4>1, ContentFacts DEF Current
    <3>3. /\ \A key, value : Current(key, value)' = Current(key, value)
          /\ \A cache : Fresh(cache)' = Fresh(cache) /\ FreshLatest(cache)' = FreshLatest(cache)
      BY <1>2, <3>1, SameStore
    <3>4. \A d \in RegistryCallers : caller'[d] = IF d = c THEN call ELSE caller[d]
      BY <1>2, <2>1 DEF HoldsInv
    <3>5. \A d \in RegistryCallers :
            /\ Writing(caller[d])' <=> Writing(caller[d])
            /\ Astray(caller[d])' <=> Astray(caller[d])
            /\ Sharing(caller[d])' <=> Sharing(caller[d])
      BY <1>1, <2>1, <2>4, <3>4 DEF Writing, Astray, Sharing, Answered
    <3>6. NoneWriting' = NoneWriting /\ NoneAstray' = NoneAstray /\ NoneSharing' = NoneSharing
      BY <3>5 DEF NoneWriting, NoneAstray, NoneSharing
    <3>7. ASSUME ~excused' PROVE CurrentInv'
      <4>1. /\ NoneWriting /\ NoneAstray => Fresh(caches[lastSuccessful])
            /\ NoneSharing => FreshLatest(sharedCache)
            /\ \A d \in RegistryCallers : Told(caller[d])
            /\ NoneAstray => \A d \in RegistryCallers : Handed(caller[d])
        BY <1>7, <3>7 DEF RegistryInv, CurrentInv
      <4>2. (NoneWriting /\ NoneAstray => Fresh(caches[lastSuccessful]))'
        BY <1>1, <3>3, <3>6, <4>1 DEF Fresh
      <4>3. (NoneSharing => FreshLatest(sharedCache))'
        BY <1>1, <3>3, <3>6, <4>1 DEF FreshLatest
      <4>4. ASSUME NEW d \in RegistryCallers PROVE Told(caller[d])' /\ (NoneAstray' => Handed(caller[d])')
        <5>1. CASE d = c
          <6>1. caller'[d] = call
            BY <3>4, <5>1
          <6> QED BY <2>1, <3>2, <3>3, <6>1 DEF Told, Handed
        <5>2. CASE d # c
          <6>1. caller'[d] = caller[d]
            BY <3>4, <5>2
          <6>2. Told(caller[d]) /\ (NoneAstray => Handed(caller[d]))
            BY <4>1
          <6> QED BY <1>1, <3>1, <3>3, <3>6, <6>1, <6>2 DEF Told, Handed
        <5> QED BY <5>1, <5>2
      <4> QED BY <4>2, <4>3, <4>4 DEF CurrentInv
    <3> QED BY <2>2, <3>7 DEF RegistryInv, CurrentInv
  <2> QED BY <2>3, <2>4
<1>8. CASE /\ caller' = [caller EXCEPT ![c].at = "failed"]
           /\ excused' = (excused \/ caller[c].op # "get")
  <2>1. PICK call \in RegistryCalls :
           /\ caller' = [caller EXCEPT ![c] = call] /\ call.at = "failed" /\ call.op = caller[c].op
           /\ call.key = caller[c].key /\ call.schema = caller[c].schema /\ call.since = caller[c].since
    <3>1. PICK before : before = caller[c] /\ before \in RegistryCalls
      BY <1>2
    <3>2. PICK call : call = [before EXCEPT !.at = "failed"]
      OBVIOUS
    <3>3. /\ call \in RegistryCalls /\ call.at = "failed" /\ call.op = before.op /\ call.key = before.key
          /\ call.schema = before.schema /\ call.since = before.since
      BY <3>1, <3>2 DEF RegistryCalls
    <3>4. caller' = [caller EXCEPT ![c] = call]
      BY <1>8, <3>1, <3>2
    <3> QED BY <3>1, <3>3, <3>4
  <2>2. ~Answered(caller[c]) /\ ~Answered(call)
    BY <1>1, <2>1 DEF Answered
  <2>3. CallKnown(call)
    BY <1>2, <2>1, <2>2, QuietIsKnown DEF CallKnown
  <2>4. CallKnown(call)'
    BY <1>2, <1>5, <2>3, KnownStays DEF StoreInv
  <2>5. excused' \in BOOLEAN /\ (excused => excused') /\ (~excused' => caller[c].op = "get")
    BY <1>2, <1>8
  <2>6. HoldsInv'
    BY <1>2, <1>5, <1>6, <2>1, <2>4, <2>5, HoldsStep
  <2>7. ASSUME ~excused' PROVE CurrentInv'
    <3>1. UNCHANGED <<versions, ids, writes, caches, lastSuccessful>>
      BY <1>1, <1>4, <2>5, <2>7
    <3> QED BY <1>1, <2>1, <2>2, <2>5, <3>1, QuietKeepsCurrent
  <2> QED BY <2>6, <2>7 DEF RegistryInv, CurrentInv
<1> QED BY <1>7, <1>8 DEF R!Request

\* The node's client takes the answer into its caches.
LEMMA CachedHolds ==
  ASSUME HoldsInv, NEW call \in RegistryCalls, CallKnown(call), call.at = "answer", NEW cache, Holds(cache)
  PROVE  Holds(R!Cached(cache, call))
<1>1. /\ call.op \in {"get", "register", "delete"} /\ call.key \in RegistryKeys /\ call.value \in RegistryValues
      /\ call.id \in Nat
  BY DEF RegistryCalls
<1>2. ASSUME call.id \in 1..Len(ids), ids[call.id] = call.value
      PROVE  /\ R!ID(call.id) \in RegistryKeys
             /\ \A i \in Nat : R!ID(call.id) = R!ID(i) => i \in 1..Len(ids) /\ call.value = ids[i]
  <2>1. Len(ids) \in Nat
    BY DEF HoldsInv, StoreInv
  <2>2. call.id \in Nat \ {0}
    BY <1>2, <2>1
  <2> QED BY <1>2, <2>2, RegistryKeysDiffer DEF RegistryKeys
<1>3. CASE call.op = "register"
  <2>1. call.id \in 1..Len(ids) /\ ids[call.id] = call.value
    BY <1>3 DEF CallKnown, Answered
  <2>2. Holds(R!Put(cache, R!ID(call.id), call.value))
    BY <1>1, <1>2, <2>1, PutHolds
  <2>3. R!Latest \in RegistryKeys /\ \A i \in Nat : R!Latest # R!ID(i)
    BY RegistryKeysDiffer DEF RegistryKeys
  <2>4. Holds(R!Put(R!Put(cache, R!ID(call.id), call.value), R!Latest, call.value))
    BY <1>1, <2>2, <2>3, PutHolds
  <2>5. R!Cached(cache, call)
          = R!Forget(R!Put(R!Put(cache, R!ID(call.id), call.value), R!Latest, call.value), {R!Versions})
    BY <1>3 DEF R!Cached
  <2> QED BY <2>4, <2>5, ForgetHolds
<1>4. CASE call.op = "delete"
  BY <1>4, ForgetHolds DEF R!Cached
<1>5. CASE call.op = "get"
  <2>1. \A i \in Nat : call.key = R!ID(i) => i \in 1..Len(ids) /\ call.value = ids[i]
    BY <1>5 DEF CallKnown, Answered
  <2>2. Holds(R!Put(cache, call.key, call.value))
    BY <1>1, <2>1, PutHolds
  <2>3. CASE call.id = 0
    BY <1>5, <2>2, <2>3 DEF R!Cached
  <2>4. CASE call.id # 0
    <3>1. call.id \in 1..Len(ids) /\ ids[call.id] = call.value
      BY <1>5, <2>4 DEF CallKnown
    <3>2. Holds(R!Put(R!Put(cache, call.key, call.value), R!ID(call.id), call.value))
      BY <1>1, <1>2, <2>2, <3>1, PutHolds
    <3> QED BY <1>5, <2>4, <3>2 DEF R!Cached
  <2> QED BY <2>3, <2>4
<1> QED BY <1>1, <1>3, <1>4, <1>5

\* What is put there and what is forgotten leaves the caches current.
LEMMA CachedIsFresh ==
  ASSUME NEW call \in RegistryCalls, NEW cache,
         call.op = "get" => Fresh(cache) /\ Current(call.key, call.value),
         call.op = "register" => Current(R!Latest, call.value)
  PROVE  Fresh(R!Cached(cache, call))
<1>1. call.op \in {"get", "register", "delete"}
  BY DEF RegistryCalls
<1>2. /\ R!Latest # R!Versions /\ (\A i \in Nat : R!ID(i) # R!Latest /\ R!ID(i) # R!Versions) /\ call.id \in Nat
  BY RegistryKeysDiffer DEF RegistryCalls
<1>3. CASE call.op = "register"
  <2>1. R!Cached(cache, call)
          = R!Forget(R!Put(R!Put(cache, R!ID(call.id), call.value), R!Latest, call.value), {R!Versions})
    BY <1>3 DEF R!Cached
  <2>2. PICK after : after = R!Cached(cache, call)
    OBVIOUS
  <2>3. R!Versions \notin DOMAIN after /\ after[R!Latest] = call.value
    BY <1>2, <2>1, <2>2 DEF R!Forget, R!Put, R!Restrict
  <2>4. Fresh(after)
    BY <1>3, <2>3 DEF Fresh
  <2> QED BY <2>2, <2>4
<1>4. CASE call.op = "delete"
  <2>1. R!Cached(cache, call) = R!Forget(cache, {R!Versions, call.key, R!Latest})
    BY <1>4 DEF R!Cached
  <2> QED BY <2>1 DEF Fresh, R!Forget, R!Restrict
<1>5. CASE call.op = "get"
  <2>1. PICK once : once = R!Put(cache, call.key, call.value)
    OBVIOUS
  <2>2. Fresh(once)
    BY <1>5, <2>1 DEF Fresh, Current, R!Put
  <2>3. Fresh(R!Put(once, R!ID(call.id), call.value))
    BY <1>2, <2>2 DEF Fresh, R!Put
  <2> QED BY <1>5, <2>1, <2>2, <2>3 DEF R!Cached
<1> QED BY <1>1, <1>3, <1>4, <1>5

\* What is not stale is current.
LEMMA NotStale ==
  ASSUME NEW call, ~R!Stale(call)
  PROVE  /\ call.since = writes
         /\ call.op = "register" => Current(R!Latest, call.value)
<1>1. call.op = "register" => R!Live # {} /\ versions[R!LatestVersion].schema = call.value
  BY DEF R!Stale
<1> QED BY <1>1, RegistryKeysDiffer DEF R!Stale, Current

LEMMA TakesAnswer == ASSUME RegistryInv, NEW c \in RegistryCallers, R!TakeAnswer(c) PROVE RegistryInv'
<1>1. /\ UNCHANGED <<versions, ids, writes, sharedCache, lastSuccessful>> /\ caller[c].at = "answer"
      /\ caches' = [caches EXCEPT ![caller[c].node] = R!Cached(@, caller[c])]
  BY DEF R!TakeAnswer, R!storeVars
<1>2. /\ HoldsInv /\ StoreInv /\ writes \in Nat /\ caller[c] \in RegistryCalls /\ CallKnown(caller[c])
      /\ excused \in BOOLEAN /\ DOMAIN caches = R!Nodes /\ lastSuccessful \in R!Nodes
  BY DEF RegistryInv, HoldsInv, StoreInv
<1>3. PICK before \in RegistryCalls : before = caller[c]
  BY <1>2
<1>4. PICK call : call = [before EXCEPT !.at = "share"]
  OBVIOUS
<1>5. /\ call \in RegistryCalls /\ caller' = [caller EXCEPT ![c] = call]
      /\ call.at = "share" /\ call.op = before.op /\ call.key = before.key /\ call.value = before.value
      /\ call.schema = before.schema /\ call.node = before.node /\ call.since = before.since /\ call.id = before.id
  BY <1>3, <1>4 DEF RegistryCalls, R!TakeAnswer
<1>6. before.node \in R!Nodes /\ before.op \in {"get", "register", "delete"} /\ before.at = "answer"
  BY <1>1, <1>3 DEF RegistryCalls
<1>7. CallKnown(call)
  BY <1>2, <1>3, <1>5, <1>6 DEF CallKnown, Answered
<1>8. StoreInv' /\ Grows
  BY <1>1, <1>2, SameStore
<1>9. CallKnown(call)'
  BY <1>2, <1>5, <1>7, <1>8, KnownStays DEF StoreInv
<1>10. caches' = [caches EXCEPT ![before.node] = R!Cached(caches[before.node], before)]
  BY <1>1, <1>3
<1>11. excused' = (excused \/ R!Stale(before))
  BY <1>3 DEF R!TakeAnswer
<1>12. HoldsInv'
  <2>1. PICK after : after = R!Cached(caches[before.node], before)
    OBVIOUS
  <2>2. Holds(after)
    BY <1>2, <1>3, <1>6, <2>1, CachedHolds DEF HoldsInv
  <2>3. Holds(after)'
    BY <1>2, <1>8, <2>2, KnownStays DEF StoreInv
  <2>4. DOMAIN caches' = R!Nodes /\ \A n \in R!Nodes : caches'[n] = caches[n] \/ caches'[n] = after
    BY <1>2, <1>10, <2>1
  <2>5. \A n \in R!Nodes : caches'[n] = caches[n] \/ Holds(caches[n])'
    BY <2>3, <2>4 DEF Holds
  <2>6. excused' \in BOOLEAN
    BY <1>2, <1>11
  <2>7. sharedCache' = sharedCache /\ lastSuccessful' \in R!Nodes /\ DOMAIN caches' = R!Nodes
    BY <1>1, <1>2, <2>4
  <2> QED BY <1>2, <1>5, <1>8, <1>9, <2>5, <2>6, <2>7, HoldsStep
<1>13. ASSUME ~excused' PROVE CurrentInv'
  <2>1. ~excused /\ ~R!Stale(before)
    BY <1>11, <1>13
  <2>2. before.since = writes /\ (before.op = "register" => Current(R!Latest, before.value))
    BY <2>1, NotStale
  <2>3. /\ NoneWriting /\ NoneAstray => Fresh(caches[lastSuccessful])
        /\ NoneSharing => FreshLatest(sharedCache)
        /\ \A d \in RegistryCallers : Told(caller[d])
        /\ NoneAstray => \A d \in RegistryCallers : Handed(caller[d])
    BY <2>1 DEF RegistryInv, CurrentInv
  <2>4. before.op = "get" => Current(before.key, before.value)
    BY <1>3, <1>6, <2>2, <2>3 DEF Told
  <2>5. /\ \A key, value : Current(key, value)' = Current(key, value)
        /\ \A cache : Fresh(cache)' = Fresh(cache) /\ FreshLatest(cache)' = FreshLatest(cache)
    BY <1>1, <1>2, SameStore
  <2>6. \A d \in RegistryCallers : caller'[d] = IF d = c THEN call ELSE caller[d]
    BY <1>2, <1>5 DEF HoldsInv
  <2>7. \A d \in RegistryCallers :
          /\ Sharing(caller[d])' <=> Sharing(caller[d])
          /\ Astray(caller[d]) => Astray(caller[d])'
          /\ Writing(caller[d]) => Writing(caller[d])' \/ (d = c /\ before.op # "get")
    BY <1>1, <1>3, <1>5, <1>6, <2>6 DEF Writing, Astray, Sharing, Answered
  <2>8. /\ NoneSharing' = NoneSharing /\ (NoneAstray' => NoneAstray)
        /\ NoneWriting' /\ before.op = "get" => NoneWriting
    BY <2>7 DEF NoneWriting, NoneAstray, NoneSharing
  <2>9. NoneAstray' /\ before.op # "get" => before.node = lastSuccessful
    <3>1. caller'[c] = call
      BY <2>6
    <3> QED BY <1>1, <1>5, <3>1 DEF NoneAstray, Astray
  <2>10. ASSUME NoneWriting', NoneAstray' PROVE Fresh(caches[lastSuccessful])'
    <3>1. CASE before.node = lastSuccessful
      <4>1. PICK cache : cache = R!Cached(caches[before.node], before)
        OBVIOUS
      <4>2. before.op = "get" => Fresh(caches[before.node])
        BY <2>3, <2>8, <2>10, <3>1
      <4>3. Fresh(cache)
        BY <2>2, <2>4, <4>1, <4>2, CachedIsFresh
      <4>4. Fresh(cache)' /\ caches'[lastSuccessful'] = cache
        BY <1>1, <1>2, <1>6, <1>10, <2>5, <3>1, <4>1, <4>3
      <4> QED BY <4>4 DEF Fresh
    <3>2. CASE before.node # lastSuccessful
      <4>1. PICK cache : cache = caches[lastSuccessful]
        OBVIOUS
      <4>2. Fresh(cache)
        BY <2>3, <2>8, <2>9, <2>10, <3>2, <4>1
      <4>3. Fresh(cache)' /\ caches'[lastSuccessful'] = cache
        BY <1>1, <1>2, <1>6, <1>10, <2>5, <3>2, <4>1, <4>2
      <4> QED BY <4>3 DEF Fresh
    <3> QED BY <3>1, <3>2
  <2>11. (NoneSharing => FreshLatest(sharedCache))'
    BY <1>1, <2>3, <2>5, <2>8 DEF FreshLatest
  <2>12. ASSUME NEW d \in RegistryCallers PROVE Told(caller[d])' /\ (NoneAstray' => Handed(caller[d])')
    <3>1. CASE d = c
      <4>1. caller'[d] = call
        BY <2>6, <3>1
      <4> QED BY <1>5, <2>4, <2>5, <4>1 DEF Told, Handed
    <3>2. CASE d # c
      <4>1. caller'[d] = caller[d]
        BY <2>6, <3>2
      <4>2. Told(caller[d]) /\ (NoneAstray => Handed(caller[d]))
        BY <2>3
      <4> QED BY <1>1, <2>5, <2>8, <4>1, <4>2 DEF Told, Handed
    <3> QED BY <3>1, <3>2
  <2> QED BY <2>10, <2>11, <2>12 DEF CurrentInv
<1> QED BY <1>12, <1>13 DEF RegistryInv, CurrentInv

\* executeWithFailover shares the answer.
LEMMA SharedHolds ==
  ASSUME RegistryInv, NEW c \in RegistryCallers, R!ShareAnswer(c)
  PROVE  \E cache : sharedCache' = cache /\ Holds(cache)
<1>1. HoldsInv /\ caller[c] \in RegistryCalls /\ CallKnown(caller[c]) /\ caller[c].at = "share"
  BY DEF RegistryInv, HoldsInv, R!ShareAnswer
<1>0. PICK cache : cache = sharedCache
  OBVIOUS
<1>2. PICK call \in RegistryCalls : call = caller[c]
  BY <1>1
<1>3. CallKnown(call) /\ Holds(cache) /\ call.at = "share"
  BY <1>0, <1>1, <1>2 DEF HoldsInv
<1>4. /\ call.op \in {"get", "register", "delete"} /\ call.key \in RegistryKeys /\ call.value \in RegistryValues
      /\ call.id \in Nat
  BY DEF RegistryCalls
<1>5. CASE call.op = "register"
  <2>1. call.id \in 1..Len(ids) /\ ids[call.id] = call.value
    BY <1>3, <1>5 DEF CallKnown, Answered
  <2>2. call.id \in Nat \ {0}
    BY <1>1, <2>1 DEF HoldsInv, StoreInv
  <2>3. /\ R!ID(call.id) \in RegistryKeys
        /\ \A i \in Nat : R!ID(call.id) = R!ID(i) => i \in 1..Len(ids) /\ call.value = ids[i]
    BY <2>1, <2>2, RegistryKeysDiffer DEF RegistryKeys
  <2>4. Holds(R!Put(cache, R!ID(call.id), call.value))
    BY <1>3, <1>4, <2>3, PutHolds
  <2>5. R!Latest \in RegistryKeys /\ \A i \in Nat : R!Latest # R!ID(i)
    BY RegistryKeysDiffer DEF RegistryKeys
  <2>6. Holds(R!Put(R!Put(cache, R!ID(call.id), call.value), R!Latest, call.value))
    BY <1>4, <2>4, <2>5, PutHolds
  <2>7. sharedCache' = R!Put(R!Put(cache, R!ID(call.id), call.value), R!Latest, call.value)
    BY <1>0, <1>2, <1>5 DEF R!ShareAnswer
  <2> QED BY <2>6, <2>7
<1>6. CASE call.op = "delete"
  <2>1. sharedCache' = R!Forget(cache, {call.key, R!Latest})
    BY <1>0, <1>2, <1>6 DEF R!ShareAnswer
  <2> QED BY <1>3, <2>1, ForgetHolds
<1>7. CASE call.op = "get"
  <2>1. \A i \in Nat : call.key = R!ID(i) => i \in 1..Len(ids) /\ call.value = ids[i]
    BY <1>3, <1>7 DEF CallKnown, Answered
  <2>2. Holds(R!Put(cache, call.key, call.value))
    BY <1>3, <1>4, <2>1, PutHolds
  <2>3. sharedCache' = cache \/ sharedCache' = R!Put(cache, call.key, call.value)
    BY <1>0, <1>2, <1>7 DEF R!ShareAnswer
  <2> QED BY <1>3, <2>2, <2>3
<1> QED BY <1>4, <1>5, <1>6, <1>7

LEMMA SharesAnswer == ASSUME RegistryInv, NEW c \in RegistryCallers, R!ShareAnswer(c) PROVE RegistryInv'
<1>1. /\ UNCHANGED <<versions, ids, writes, caches>> /\ caller[c].at = "share"
      /\ lastSuccessful' = caller[c].node
      /\ caller' = [caller EXCEPT ![c] = R!NoCall]
      /\ excused' = (excused \/ R!Stale(caller[c]) \/ R!Switches(caller[c].node))
  BY DEF R!ShareAnswer, R!storeVars
<1>2. /\ HoldsInv /\ StoreInv /\ writes \in Nat /\ caller[c] \in RegistryCalls /\ CallKnown(caller[c])
      /\ excused \in BOOLEAN /\ DOMAIN caches = R!Nodes
  BY DEF RegistryInv, HoldsInv, StoreInv
<1>3. PICK call \in RegistryCalls : call = caller[c]
  BY <1>2
<1>4. call.node \in R!Nodes /\ call.op \in {"get", "register", "delete"} /\ call.at = "share"
  BY <1>1, <1>3 DEF RegistryCalls
<1>5. StoreInv' /\ Grows
  BY <1>1, <1>2, SameStore
<1>6. CallKnown(R!NoCall)'
  BY <1>2, <1>5, NoCallIsTyped, NoCallIsKnown, KnownStays DEF StoreInv
<1>7. HoldsInv'
  <2>1. PICK cache : sharedCache' = cache /\ Holds(cache)
    BY SharedHolds
  <2>2. Holds(cache)'
    BY <1>2, <1>5, <2>1, KnownStays DEF StoreInv
  <2>3. Holds(sharedCache)'
    BY <2>1, <2>2
  <2>4. /\ DOMAIN caches' = R!Nodes /\ \A n \in R!Nodes : caches'[n] = caches[n]
        /\ lastSuccessful' \in R!Nodes
    BY <1>1, <1>2, <1>3, <1>4
  <2>5. excused' \in BOOLEAN
    BY <1>1, <1>2
  <2> QED BY <1>1, <1>2, <1>5, <1>6, <2>3, <2>4, <2>5, NoCallIsTyped, HoldsStep
<1>8. ASSUME ~excused' PROVE CurrentInv'
  <2>1. ~excused /\ ~R!Stale(call) /\ call.node = lastSuccessful /\ lastSuccessful' = lastSuccessful
    BY <1>1, <1>3, <1>8 DEF R!Switches
  <2>2. call.since = writes /\ (call.op = "register" => Current(R!Latest, call.value))
    BY <2>1, NotStale
  <2>3. /\ NoneWriting /\ NoneAstray => Fresh(caches[lastSuccessful])
        /\ NoneSharing => FreshLatest(sharedCache)
        /\ \A d \in RegistryCallers : Told(caller[d])
        /\ NoneAstray => \A d \in RegistryCallers : Handed(caller[d])
    BY <2>1 DEF RegistryInv, CurrentInv
  <2>4. /\ \A key, value : Current(key, value)' = Current(key, value)
        /\ \A cache : Fresh(cache)' = Fresh(cache) /\ FreshLatest(cache)' = FreshLatest(cache)
    BY <1>1, <1>2, SameStore
  <2>5. /\ \A d \in RegistryCallers : caller'[d] = IF d = c THEN R!NoCall ELSE caller[d]
        /\ R!NoCall.at = "idle"
    BY <1>1, <1>2, NoCallForm DEF HoldsInv
  <2>6. \A d \in RegistryCallers :
          /\ Writing(caller[d])' <=> Writing(caller[d])
          /\ Astray(caller[d])' <=> Astray(caller[d])
          /\ Sharing(caller[d]) => Sharing(caller[d])' \/ (d = c /\ call.op # "get")
    BY <1>1, <1>3, <1>4, <2>1, <2>5 DEF Writing, Astray, Sharing, Answered
  <2>7. /\ NoneWriting' = NoneWriting /\ NoneAstray' = NoneAstray
        /\ NoneSharing' /\ call.op = "get" => NoneSharing
    BY <2>6 DEF NoneWriting, NoneAstray, NoneSharing
  <2>8. (NoneWriting /\ NoneAstray => Fresh(caches[lastSuccessful]))'
    BY <1>1, <2>1, <2>3, <2>4, <2>7 DEF Fresh
  <2>9. ASSUME NoneSharing' PROVE FreshLatest(sharedCache)'
    <3>1. PICK cache : cache = sharedCache
      OBVIOUS
    <3>2. R!Latest # R!Versions /\ (\A i \in Nat : R!ID(i) # R!Latest) /\ call.id \in Nat
      BY RegistryKeysDiffer DEF RegistryCalls
    <3>3. \E after : sharedCache' = after /\ FreshLatest(after)
      <4>1. CASE call.op = "register"
        <5>1. sharedCache' = R!Put(R!Put(cache, R!ID(call.id), call.value), R!Latest, call.value)
          BY <1>3, <3>1, <4>1 DEF R!ShareAnswer
        <5>2. FreshLatest(R!Put(R!Put(cache, R!ID(call.id), call.value), R!Latest, call.value))
          BY <2>2, <4>1 DEF FreshLatest, R!Put
        <5> QED BY <5>1, <5>2
      <4>2. CASE call.op = "delete"
        <5>1. sharedCache' = R!Forget(cache, {call.key, R!Latest})
          BY <1>3, <3>1, <4>2 DEF R!ShareAnswer
        <5>2. FreshLatest(R!Forget(cache, {call.key, R!Latest}))
          BY DEF FreshLatest, R!Forget, R!Restrict
        <5> QED BY <5>1, <5>2
      <4>3. CASE call.op = "get"
        <5>1. NoneSharing
          BY <2>7, <2>9, <4>3
        <5>2. NoneAstray
          BY <5>1 DEF NoneSharing, NoneAstray, Sharing, Astray, Answered
        <5>3. FreshLatest(cache) /\ Current(call.key, call.value)
          BY <1>3, <1>4, <2>1, <2>2, <2>3, <3>1, <4>3, <5>1, <5>2 DEF Handed
        <5>4. FreshLatest(R!Put(cache, call.key, call.value))
          BY <5>3 DEF FreshLatest, Current, R!Put
        <5>5. sharedCache' = cache \/ sharedCache' = R!Put(cache, call.key, call.value)
          BY <1>3, <3>1, <4>3 DEF R!ShareAnswer
        <5> QED BY <5>3, <5>4, <5>5
      <4> QED BY <1>4, <4>1, <4>2, <4>3
    <3> QED BY <2>4, <3>3 DEF FreshLatest
  <2>10. ASSUME NEW d \in RegistryCallers PROVE Told(caller[d])' /\ (NoneAstray' => Handed(caller[d])')
    <3>1. CASE d = c
      BY <2>5, <3>1 DEF Told, Handed
    <3>2. CASE d # c
      <4>1. caller'[d] = caller[d]
        BY <2>5, <3>2
      <4>2. Told(caller[d]) /\ (NoneAstray => Handed(caller[d]))
        BY <2>3
      <4> QED BY <1>1, <2>1, <2>4, <2>7, <4>1, <4>2 DEF Told, Handed
    <3> QED BY <3>1, <3>2
  <2> QED BY <2>8, <2>9, <2>10 DEF CurrentInv
<1> QED BY <1>7, <1>8 DEF RegistryInv, CurrentInv

LEMMA RegistryStep == RegistryInv /\ R!RegistryNext => RegistryInv'
<1> SUFFICES ASSUME RegistryInv, NEW c \in RegistryCallers, R!CallStep(c) PROVE RegistryInv'
  BY DEF R!RegistryNext
<1> QED BY StartsCall, HitsNodeCache, RequestIsServed, RequestsFail, FailsOver, TakesAnswer, SharesAnswer
           DEF R!CallStep

LEMMA RegistryStays == RegistryInv /\ UNCHANGED registryVars => RegistryInv'
<1> SUFFICES ASSUME RegistryInv, UNCHANGED registryVars PROVE RegistryInv'
  OBVIOUS
<1>1. UNCHANGED <<versions, ids, writes, caches, sharedCache, lastSuccessful, caller, excused>>
  BY DEF registryVars
<1>2. StoreInv' /\ Grows /\ (\A key, value : Current(key, value)' = Current(key, value))
      /\ \A cache : Fresh(cache)' = Fresh(cache) /\ FreshLatest(cache)' = FreshLatest(cache)
  BY <1>1, SameStore DEF RegistryInv, HoldsInv
<1>3. HoldsInv'
  BY <1>1, <1>2 DEF RegistryInv, HoldsInv, Holds, CallKnown, Answered, StoreInv
<1>4. NoneWriting' = NoneWriting /\ NoneAstray' = NoneAstray /\ NoneSharing' = NoneSharing
  BY <1>1 DEF NoneWriting, NoneAstray, NoneSharing, Writing, Astray, Sharing, Answered
<1>5. \A c \in RegistryCallers : Told(caller[c])' = Told(caller[c]) /\ Handed(caller[c])' = Handed(caller[c])
  BY <1>1, <1>2 DEF Told, Handed
<1>6. Fresh(caches[lastSuccessful])' = Fresh(caches[lastSuccessful])
      /\ FreshLatest(sharedCache)' = FreshLatest(sharedCache)
  BY <1>1, <1>2 DEF Fresh, FreshLatest
<1>7. CurrentInv'
  BY <1>1, <1>4, <1>5, <1>6 DEF RegistryInv, CurrentInv
<1> QED BY <1>3, <1>7 DEF RegistryInv

(* Whatever is under way, what is cached is what the registry has.         *)
LEMMA RegistryFollows == RegistryInv => R!CachesFollowRegistry
<1> SUFFICES ASSUME RegistryInv PROVE R!CachesFollowRegistry
  OBVIOUS
<1>1. HoldsInv /\ CurrentInv /\ lastSuccessful \in R!Nodes /\ Len(ids) \in Nat
  BY DEF RegistryInv, HoldsInv, StoreInv
<1>2. ASSUME NEW i \in 1..Len(ids), NEW cache \in {caches[n] : n \in R!Nodes} \cup {sharedCache},
             R!ID(i) \in DOMAIN cache
      PROVE  cache[R!ID(i)] = ids[i]
  <2>1. Holds(cache)
    BY <1>1 DEF HoldsInv
  <2>2. i \in Nat
    BY <1>1
  <2> QED BY <1>2, <2>1, <2>2 DEF Holds
<1>3. ASSUME ~excused, \A c \in RegistryCallers : caller[c].at \in {"idle", "node"}
      PROVE  Fresh(caches[lastSuccessful]) /\ FreshLatest(sharedCache)
  <2>1. NoneWriting /\ NoneAstray /\ NoneSharing
    BY <1>3 DEF NoneWriting, NoneAstray, NoneSharing, Writing, Astray, Sharing, Answered
  <2> QED BY <1>1, <1>3, <2>1 DEF CurrentInv
<1> QED BY <1>2, <1>3, RegistryKeysDiffer DEF R!CachesFollowRegistry, Fresh, FreshLatest, Current

-----------------------------------------------------------------------------
(* Whatever fails over, races or expires: what is cached under an ID is    *)
(* the schema of that ID, the latest schema that the registry client would *)
(* serve is the registry's unless one of the excuses has come up, callers  *)
(* of the two managers share one client and one resolver, and the resolver *)
(* serves a schema within its lifetime and decodes data in the schema it   *)
(* was written in -- for every number of callers, nodes, schemas, retries, *)
(* versions and ticks of the clock.                                        *)
THEOREM RegistrySafety == FormatsSpec => []RegistryIsFollowed
<1> DEFINE Inv == /\ format = "registry" => RegistryInv
                  /\ format = "registries" => ManagerInv
                  /\ format = "resolver" => ResolverInv
                  /\ format = "resolvers" => ResolversInv
<1>1. FormatsInit => Inv
  BY RegistryInitially, ManagerInitially, ResolverInitially, ResolversInitially DEF FormatsInit
<1>2. Inv /\ [FormatsNext]_formatsVars => Inv'
  <2> SUFFICES ASSUME Inv, [FormatsNext]_formatsVars PROVE Inv'
    OBVIOUS
  <2>1. CASE format' = "registry"
    <3>1. format = "registry" /\ RegistryInv /\ (R!RegistryNext \/ UNCHANGED registryVars)
      BY <2>1 DEF FormatsNext, formatsVars
    <3>2. RegistryInv'
      BY <3>1, RegistryStep, RegistryStays
    <3> QED BY <2>1, <3>2
  <2>2. CASE format' = "registries"
    <3>1. format = "registries" /\ ManagerInv /\ (R!ManagerNext \/ UNCHANGED registryVars)
      BY <2>2 DEF FormatsNext, formatsVars
    <3>2. ManagerInv'
      <4>1. CASE UNCHANGED registryVars
        BY <3>1, <4>1 DEF registryVars, ManagerInv, R!ClientIsShared
      <4> QED BY <3>1, <4>1, ManagerStep
    <3> QED BY <2>2, <3>2
  <2>3. CASE format' = "resolver"
    <3>1. format = "resolver" /\ ResolverInv /\ (S!ResolverNext \/ UNCHANGED resolverVars)
      BY <2>3 DEF FormatsNext, formatsVars
    <3>2. ResolverInv'
      BY <3>1, ResolverStep, ResolverStays DEF resolverVars
    <3> QED BY <2>3, <3>2
  <2>4. CASE format' = "resolvers"
    <3>1. format = "resolvers" /\ ResolversInv /\ (S!ResolverManagerNext \/ UNCHANGED resolverVars)
      BY <2>4 DEF FormatsNext, formatsVars
    <3>2. ResolversInv'
      <4>1. CASE UNCHANGED resolverVars
        BY <3>1, <4>1 DEF resolverVars, ResolversInv, S!ResolverIsShared
      <4> QED BY <3>1, <4>1, ResolversStep
    <3> QED BY <2>4, <3>2
  <2> QED BY <2>1, <2>2, <2>3, <2>4
<1>3. Inv => RegistryIsFollowed
  BY RegistryFollows, ResolverIsFresh DEF RegistryIsFollowed, ManagerInv, ResolversInv
<1> QED BY <1>1, <1>2, <1>3, PTL DEF FormatsSpec

-----------------------------------------------------------------------------
(* The binary writer.                                                      *)

Records == UNION {{l[i] : i \in DOMAIN l} : l \in RecordLists}
Written == [record : Records, schema : RecordSchemas \cup {NoSchema}]

EncoderTypes ==
  /\ avroWriter \in [buffering : BOOLEAN, codec : RecordSchemas \cup {NoSchema}, buffer : Seq(Records),
                     broken : BOOLEAN, partly : BOOLEAN, flushed : Nat, sets : Nat]
  /\ encoded \in Seq(Written) /\ handed \in Seq(Written) /\ repeats \in BOOLEAN

(* The buffer is the end of what was handed, and what was encoded a        *)
(* beginning of it: all that is not in the buffer, and part of the buffer  *)
(* when a flush has failed part of the way.                                *)
Collects(buffer, all, out, partly) ==
  /\ Len(buffer) <= Len(all) /\ Len(out) <= Len(all) /\ Len(all) <= Len(out) + Len(buffer)
  /\ \A i \in 1..Len(buffer) : buffer[i] = all[Len(all) - Len(buffer) + i].record
  /\ \A i \in 1..Len(out) : out[i].record = all[i].record
  /\ IF partly THEN Len(buffer) > 0 ELSE Len(out) + Len(buffer) = Len(all)

EncoderInv ==
  /\ EncoderTypes
  /\ avroWriter.flushed <= Len(encoded)
  /\ ~avroWriter.buffering => encoded = handed /\ avroWriter.buffer = <<>> /\ ~avroWriter.partly /\ ~repeats
  /\ ~repeats => Collects(avroWriter.buffer, handed, encoded, avroWriter.partly)

LEMMA EncoderInitially == AvroWriterInit => EncoderInv
<1> SUFFICES ASSUME AvroWriterInit PROVE EncoderInv
  OBVIOUS
<1>1. /\ avroWriter \in [buffering : BOOLEAN, codec : {NoSchema}, buffer : {<<>>}, broken : {FALSE},
                       partly : {FALSE}, flushed : {0}, sets : {0}]
      /\ encoded = <<>> /\ handed = <<>> /\ repeats = FALSE
  BY DEF AvroWriterInit
<1>2. <<>> \in Seq(Records) /\ <<>> \in Seq(Written)
  OBVIOUS
<1>3. /\ avroWriter = [buffering |-> avroWriter.buffering, codec |-> avroWriter.codec, buffer |-> avroWriter.buffer,
                        broken |-> avroWriter.broken, partly |-> avroWriter.partly,
                        flushed |-> avroWriter.flushed, sets |-> avroWriter.sets]
      /\ avroWriter.buffering \in BOOLEAN /\ avroWriter.codec \in RecordSchemas \cup {NoSchema}
      /\ avroWriter.buffer = <<>> /\ avroWriter.broken = FALSE /\ avroWriter.partly = FALSE
      /\ avroWriter.flushed = 0 /\ avroWriter.sets = 0
  BY <1>1
<1>4. avroWriter.buffer \in Seq(Records) /\ encoded \in Seq(Written) /\ handed \in Seq(Written)
  BY <1>1, <1>2, <1>3
<1>5. avroWriter.broken \in BOOLEAN /\ avroWriter.partly \in BOOLEAN /\ repeats \in BOOLEAN
  BY <1>1, <1>3
<1>6. avroWriter.flushed \in Nat /\ avroWriter.sets \in Nat
  BY <1>3
<1>7. EncoderTypes
  BY <1>3, <1>4, <1>5, <1>6 DEF EncoderTypes
<1>8. avroWriter.buffer = <<>> /\ avroWriter.flushed = 0 /\ avroWriter.partly = FALSE
  BY DEF AvroWriterInit
<1>9. encoded = <<>> /\ handed = <<>> /\ repeats = FALSE
  BY DEF AvroWriterInit
<1>10. Collects(<<>>, <<>>, <<>>, FALSE)
  BY DEF Collects
<1>11. Len(<<>>) = 0 /\ 0 <= 0
  OBVIOUS
<1> HIDE DEF EncoderTypes, Collects
<1> QED BY <1>7, <1>8, <1>9, <1>10, <1>11 DEF EncoderInv

(* A list has a first record that does not fit, or none.                   *)
LEMMA PrefixIsThere ==
  ASSUME NEW records \in Seq(Records)
  PROVE  EncodablePrefix(records) \in 0..Len(records)
<1> DEFINE Bad == {i \in 1..Len(records) : ~Fits(records[i])}
           Stop(n) == /\ \A i \in 1..n : Fits(records[i])
                      /\ n < Len(records) => ~Fits(records[n + 1])
<1>1. Len(records) \in Nat
  OBVIOUS
<1>2. \E n \in 0..Len(records) : Stop(n)
  <2>1. CASE Bad = {}
    <3>1. Stop(Len(records))
      BY <1>1, <2>1
    <3> QED BY <1>1, <3>1
  <2>2. CASE Bad # {}
    <3>1. Bad \subseteq Nat
      BY <1>1
    <3>2. PICK m \in Bad : \A y \in Bad : ~(<<y, m>> \in OpToRel(<, Nat))
      BY <2>2, <3>1, WFMin, NatLessThanWellFounded
    <3>3. \A y \in Bad : ~(y < m)
      BY <3>1, <3>2 DEF OpToRel
    <3>4. m - 1 \in 0..Len(records) /\ \A i \in 1..(m - 1) : i \in 1..Len(records) /\ i < m
      BY <1>1
    <3>5. \A i \in 1..(m - 1) : Fits(records[i])
      BY <3>3, <3>4
    <3>6. (m - 1) + 1 = m /\ ~Fits(records[m])
      BY <1>1
    <3>7. Stop(m - 1)
      BY <3>5, <3>6
    <3> QED BY <3>4, <3>7
  <2> QED BY <2>1, <2>2
<1>3. EncodablePrefix(records) = CHOOSE n \in 0..Len(records) : Stop(n)
  BY DEF EncodablePrefix
<1> HIDE DEF Stop
<1> QED BY <1>2, <1>3

LEMMA PutsAre ==
  ASSUME NEW records \in Seq(Records), NEW put \in Puts(records)
  PROVE  put.n \in 0..Len(records) /\ put.broken \in BOOLEAN
<1>1. Len(records) \in Nat /\ EncodablePrefix(records) \in 0..Len(records)
  BY PrefixIsThere
<1>2. 0..EncodablePrefix(records) \subseteq 0..Len(records)
  BY <1>1
<1>3. CASE avroWriter.broken
  <2>1. put = [n |-> 0, broken |-> TRUE]
    BY <1>3 DEF Puts
  <2> QED BY <1>1, <2>1
<1>4. CASE ~avroWriter.broken
  <2>1. \/ put \in [n : {EncodablePrefix(records)}, broken : {FALSE}]
        \/ put \in [n : 0..EncodablePrefix(records), broken : {TRUE}]
    BY <1>4 DEF Puts
  <2> QED BY <1>1, <1>2, <2>1
<1> QED BY <1>3, <1>4

LEMMA EncodedAre ==
  ASSUME EncoderTypes, NEW records \in Seq(Records), NEW n \in 0..Len(records)
  PROVE  /\ Encode(SubSeq(records, 1, n)) \in Seq(Written)
         /\ Len(Encode(SubSeq(records, 1, n))) = n
         /\ \A i \in 1..n : Encode(SubSeq(records, 1, n))[i].record = records[i]
<1>1. Len(records) \in Nat /\ n \in Nat
  OBVIOUS
<1>2. /\ SubSeq(records, 1, n) \in Seq(Records) /\ Len(SubSeq(records, 1, n)) = n
      /\ \A i \in 1..n : SubSeq(records, 1, n)[i] = records[i]
  BY <1>1
<1>3. DOMAIN SubSeq(records, 1, n) = 1..n
  BY <1>2
<1>4. Encode(SubSeq(records, 1, n)) = [i \in 1..n |-> [record |-> records[i], schema |-> avroWriter.codec]]
  BY <1>2, <1>3 DEF Encode
<1>5. \A i \in 1..n : [record |-> records[i], schema |-> avroWriter.codec] \in Written
  BY <1>1 DEF Written, EncoderTypes
<1> DEFINE e == [i \in 1..n |-> [record |-> records[i], schema |-> avroWriter.codec]]
<1>6. e \in [1..n -> Written]
  BY <1>5
<1>7. \A i \in 1..n : e[i].record = records[i]
  OBVIOUS
<1>8. e \in Seq(Written) /\ Len(e) = n
  BY <1>1, <1>6
<1>9. Encode(SubSeq(records, 1, n)) = e
  BY <1>4
<1> HIDE DEF e
<1> QED BY <1>7, <1>8, <1>9

(* What a flush of the records writes comes behind what was encoded.       *)
LEMMA PutIsAppended ==
  ASSUME EncoderTypes, NEW records \in Seq(Records), NEW n \in 0..Len(records),
         encoded' = encoded \o Encode(SubSeq(records, 1, n))
  PROVE  /\ encoded' \in Seq(Written) /\ Len(encoded') = Len(encoded) + n
         /\ \A i \in 1..Len(encoded) : encoded'[i] = encoded[i]
         /\ \A i \in 1..n : encoded'[Len(encoded) + i].record = records[i]
<1> DEFINE more == Encode(SubSeq(records, 1, n))
<1>1. more \in Seq(Written) /\ Len(more) = n /\ \A i \in 1..n : more[i].record = records[i]
  BY EncodedAre
<1>2. encoded \in Seq(Written) /\ Len(encoded) \in Nat /\ n \in Nat
  BY <1>1 DEF EncoderTypes
<1>3. encoded' = encoded \o more
  OBVIOUS
<1> HIDE DEF more
<1>4. /\ encoded \o more \in Seq(Written) /\ Len(encoded \o more) = Len(encoded) + n
      /\ \A i \in 1..(Len(encoded) + n) : (encoded \o more)[i] =
            IF i <= Len(encoded) THEN encoded[i] ELSE more[i - Len(encoded)]
  BY <1>1, <1>2, ConcatProperties
<1>5. \A i \in 1..Len(encoded) : encoded'[i] = encoded[i]
  BY <1>2, <1>3, <1>4
<1>6. ASSUME NEW i \in 1..n PROVE encoded'[Len(encoded) + i].record = records[i]
  <2>1. Len(encoded) + i \in 1..(Len(encoded) + n) /\ ~(Len(encoded) + i <= Len(encoded))
        /\ (Len(encoded) + i) - Len(encoded) = i
    BY <1>2
  <2>2. encoded'[Len(encoded) + i] = more[i]
    BY <1>3, <1>4, <2>1
  <2> QED BY <1>1, <2>2
<1> QED BY <1>3, <1>4, <1>5, <1>6

(* A flush of all that was collected.                                      *)
LEMMA FlushKeeps ==
  ASSUME EncoderTypes, avroWriter.buffering, ~repeats, avroWriter.flushed <= Len(encoded),
         NEW all \in Seq(Records), NEW byFlush \in BOOLEAN,
         handed' \in Seq(Written), byFlush => handed' = handed,
         Collects(all, handed', encoded, avroWriter.partly), FlushRecords(all, byFlush)
  PROVE  EncoderInv'
<1>1. PICK put \in Puts(all) :
        LET done == put.n = Len(all) /\ ~put.broken IN
        /\ encoded' = encoded \o Encode(SubSeq(all, 1, put.n))
        /\ avroWriter' = [avroWriter EXCEPT !.buffer = AfterFlush(all, done), !.broken = put.broken,
                              !.partly = ~done /\ (@ \/ put.n > 0),
                              !.flushed = IF done /\ byFlush THEN Len(handed) ELSE @]
        /\ repeats' = (repeats \/ (avroWriter.partly /\ put.n > 0))
  BY DEF FlushRecords
<1> DEFINE n == put.n
           done == put.n = Len(all) /\ ~put.broken
           partly == avroWriter.partly
<1>2. n \in 0..Len(all) /\ put.broken \in BOOLEAN
  BY PutsAre
<1>3. /\ encoded' \in Seq(Written) /\ Len(encoded') = Len(encoded) + n
      /\ \A i \in 1..Len(encoded) : encoded'[i] = encoded[i]
      /\ \A i \in 1..n : encoded'[Len(encoded) + i].record = all[i]
  BY <1>1, <1>2, PutIsAppended
<1>4. Len(all) \in Nat /\ Len(encoded) \in Nat /\ Len(handed') \in Nat /\ n \in Nat /\ Len(handed) \in Nat
  BY <1>2 DEF EncoderTypes
<1>5. /\ avroWriter'.buffering /\ avroWriter'.buffer = AfterFlush(all, done)
      /\ avroWriter'.partly = (~done /\ (partly \/ n > 0))
      /\ avroWriter'.flushed = IF done /\ byFlush THEN Len(handed) ELSE avroWriter.flushed
      /\ repeats' = (partly /\ n > 0)
  BY <1>1 DEF EncoderTypes
<1>6. AfterFlush(all, done) = IF done THEN <<>> ELSE all
  BY DEF AfterFlush
<1>7. /\ Len(all) <= Len(handed') /\ Len(encoded) <= Len(handed') /\ Len(handed') <= Len(encoded) + Len(all)
      /\ \A i \in 1..Len(all) : all[i] = handed'[Len(handed') - Len(all) + i].record
      /\ \A i \in 1..Len(encoded) : encoded[i].record = handed'[i].record
      /\ partly => Len(all) > 0
      /\ ~partly => Len(encoded) + Len(all) = Len(handed')
  BY DEF Collects
<1>8. EncoderTypes'
  <2>1. <<>> \in Seq(Records)
    OBVIOUS
  <2>2. AfterFlush(all, done) \in Seq(Records)
    BY <1>6, <2>1, Zenon
  <2>3. (~done /\ (partly \/ n > 0)) \in BOOLEAN /\ repeats' \in BOOLEAN
    BY <1>5
  <2>4. (IF done /\ byFlush THEN Len(handed) ELSE avroWriter.flushed) \in Nat
    BY <1>4 DEF EncoderTypes
  <2>5. PICK kept \in Seq(Records), part \in BOOLEAN, covers \in Nat :
           avroWriter' = [avroWriter EXCEPT !.buffer = kept, !.broken = put.broken, !.partly = part,
                                            !.flushed = covers]
    BY <1>1, <2>2, <2>3, <2>4
  <2>6. avroWriter' \in [buffering : BOOLEAN, codec : RecordSchemas \cup {NoSchema}, buffer : Seq(Records),
                     broken : BOOLEAN, partly : BOOLEAN, flushed : Nat, sets : Nat]
    BY <1>2, <2>5 DEF EncoderTypes
  <2> QED BY <1>3, <2>3, <2>6 DEF EncoderTypes
<1>9. avroWriter'.flushed <= Len(encoded')
  <2>1. CASE done /\ byFlush
    BY <1>3, <1>4, <1>5, <1>7, <2>1
  <2>2. CASE ~(done /\ byFlush)
    BY <1>3, <1>4, <1>5, <2>2 DEF EncoderTypes
  <2> QED BY <2>1, <2>2
<1>10. ASSUME ~repeats' PROVE Collects(avroWriter'.buffer, handed', encoded', avroWriter'.partly)
  <2>1. ~(partly /\ n > 0)
    BY <1>5, <1>10, Zenon
  <2>2. partly => n = 0
    BY <1>4, <2>1
  <2>3. Len(encoded') <= Len(handed')
    BY <1>3, <1>4, <1>7, <1>2, <2>2
  <2>4. ASSUME NEW i \in 1..Len(encoded') PROVE encoded'[i].record = handed'[i].record
    <3>1. CASE i <= Len(encoded)
      BY <1>3, <1>4, <1>7, <3>1, SMTT(30)
    <3>2. CASE ~(i <= Len(encoded))
      <4>1. i - Len(encoded) \in 1..n /\ Len(encoded) + (i - Len(encoded)) = i
        BY <1>3, <1>4, <3>2
      <4>2. ~partly /\ i - Len(encoded) \in 1..Len(all)
        BY <1>2, <1>4, <2>2, <4>1
      <4>3. Len(encoded) + Len(all) = Len(handed') /\ i \in Nat
        BY <1>3, <1>4, <1>7, <4>2
      <4>4. Len(handed') - Len(all) + (i - Len(encoded)) = i
        BY <1>4, <4>3
      <4>5. all[i - Len(encoded)] = handed'[i].record
        BY <1>7, <4>2, <4>4
      <4>6. encoded'[i].record = all[i - Len(encoded)]
        BY <1>3, <4>1
      <4> QED BY <4>5, <4>6
    <3> QED BY <3>1, <3>2
  <2>5. CASE done
    <3>1. avroWriter'.buffer = <<>> /\ Len(<<>>) = 0 /\ ~avroWriter'.partly /\ n = Len(all)
      BY <1>5, <1>6, <2>5
    <3>2. ~partly
      BY <1>4, <1>7, <2>2, <3>1
    <3>3. Len(encoded') = Len(handed')
      BY <1>3, <1>4, <1>7, <3>1, <3>2
    <3> QED BY <1>4, <2>4, <3>1, <3>3 DEF Collects
  <2>6. CASE ~done
    <3>1. avroWriter'.buffer = all /\ avroWriter'.partly = (partly \/ n > 0)
      BY <1>5, <1>6, <2>6
    <3>2. Len(handed') <= Len(encoded') + Len(all)
      BY <1>3, <1>4, <1>7
    <3>3. CASE partly \/ n > 0
      <4>1. Len(all) > 0
        BY <1>2, <1>4, <1>7, <3>3
      <4> QED BY <1>7, <2>3, <2>4, <3>1, <3>2, <3>3, <4>1 DEF Collects
    <3>4. CASE ~(partly \/ n > 0)
      <4>1. Len(encoded') + Len(all) = Len(handed')
        BY <1>3, <1>4, <1>7, <3>4
      <4> QED BY <1>7, <2>3, <2>4, <3>1, <3>2, <3>4, <4>1 DEF Collects
    <3> QED BY <3>3, <3>4
  <2> QED BY <2>5, <2>6
<1> QED BY <1>5, <1>8, <1>9, <1>10 DEF EncoderInv

LEMMA ListsAreSequences == ASSUME NEW records \in RecordLists PROVE records \in Seq(Records)
<1>1. {records[i] : i \in DOMAIN records} \subseteq Records
  BY DEF Records
<1>2. records \in Seq({records[i] : i \in DOMAIN records})
  BY RecordAssumption
<1> QED BY <1>1, <1>2, SeqMonotonic

LEMMA Shifted ==
  ASSUME NEW N \in Nat, NEW B \in Nat, NEW k \in Nat, B <= N, NEW i \in 1..(B + k)
  PROVE  (N + k) - (B + k) + i = N - B + i /\ N - B + i \in 1..(N + k)
OBVIOUS

\* What is handed to a writer that collects is the end of the buffer and of all.
LEMMA CollectedBehind ==
  ASSUME EncoderTypes, NEW records \in Seq(Records),
         Collects(avroWriter.buffer, handed, encoded, avroWriter.partly)
  PROVE  /\ avroWriter.buffer \o records \in Seq(Records) /\ handed \o Encode(records) \in Seq(Written)
         /\ Collects(avroWriter.buffer \o records, handed \o Encode(records), encoded, avroWriter.partly)
<1> DEFINE buffer == avroWriter.buffer
           more == Encode(records)
           B == Len(avroWriter.buffer)
           N == Len(handed)
           k == Len(records)
<1>1. buffer \in Seq(Records) /\ handed \in Seq(Written) /\ encoded \in Seq(Written) /\ avroWriter.partly \in BOOLEAN
  BY DEF EncoderTypes
<1>2. B \in Nat /\ N \in Nat /\ k \in Nat /\ Len(encoded) \in Nat
  BY <1>1
<1>3. more \in Seq(Written) /\ Len(more) = k /\ \A i \in 1..k : more[i].record = records[i]
  <2>1. SubSeq(records, 1, Len(records)) = records
    BY SubSeqFull
  <2>2. k \in 0..Len(records)
    BY <1>2
  <2> QED BY <2>1, <2>2, EncodedAre
<1>4. B <= N /\ Len(encoded) <= N /\ N <= Len(encoded) + B
  BY DEF Collects
<1>5. /\ \A i \in 1..B : buffer[i] = handed[N - B + i].record
      /\ \A i \in 1..Len(encoded) : encoded[i].record = handed[i].record
      /\ avroWriter.partly => B > 0
      /\ ~avroWriter.partly => Len(encoded) + B = N
  BY DEF Collects
<1> HIDE DEF more
<1>6. /\ buffer \o records \in Seq(Records) /\ Len(buffer \o records) = B + k
      /\ \A i \in 1..(B + k) : (buffer \o records)[i] = IF i <= B THEN buffer[i] ELSE records[i - B]
  BY <1>1, ConcatProperties
<1>7. handed \in Seq(Written) /\ more \in Seq(Written)
  BY <1>1, <1>3
<1>8. /\ handed \o more \in Seq(Written) /\ Len(handed \o more) = N + Len(more)
      /\ \A i \in 1..(N + Len(more)) : (handed \o more)[i] = IF i <= N THEN handed[i] ELSE more[i - N]
  BY <1>7, ConcatProperties
<1>9. /\ handed \o more \in Seq(Written) /\ Len(handed \o more) = N + k
      /\ \A i \in 1..(N + k) : (handed \o more)[i] = IF i <= N THEN handed[i] ELSE more[i - N]
  BY <1>3, <1>8
<1>10. ASSUME NEW i \in 1..(B + k)
      PROVE  (buffer \o records)[i] = (handed \o more)[(N + k) - (B + k) + i].record
  <2>1. (N + k) - (B + k) + i = N - B + i /\ N - B + i \in 1..(N + k)
    BY <1>2, <1>4, Shifted
  <2>2. CASE i <= B
    <3>1. N - B + i <= N /\ i \in 1..B
      BY <1>2, <2>2
    <3>2. (handed \o more)[N - B + i] = handed[N - B + i]
      BY <1>9, <2>1, <3>1
    <3>3. (buffer \o records)[i] = buffer[i]
      BY <1>6, <2>2
    <3> QED BY <1>5, <2>1, <3>1, <3>2, <3>3
  <2>3. CASE ~(i <= B)
    <3>1. ~(N - B + i <= N) /\ i - B \in 1..k /\ (N - B + i) - N = i - B
      BY <1>2, <2>3
    <3>2. (handed \o more)[N - B + i] = more[i - B]
      BY <1>9, <2>1, <3>1
    <3>3. (buffer \o records)[i] = records[i - B]
      BY <1>6, <2>3
    <3> QED BY <1>3, <2>1, <3>1, <3>2, <3>3
  <2> QED BY <2>2, <2>3
<1>11. ASSUME NEW i \in 1..Len(encoded) PROVE encoded[i].record = (handed \o more)[i].record
  <2>1. i <= N /\ i \in 1..(N + k)
    BY <1>2, <1>4
  <2>2. (handed \o more)[i] = handed[i]
    BY <1>9, <2>1
  <2> QED BY <1>5, <2>2
<1>12. /\ B + k <= N + k /\ Len(encoded) <= N + k /\ N + k <= Len(encoded) + (B + k)
      /\ (B > 0 => B + k > 0) /\ (Len(encoded) + B = N => Len(encoded) + (B + k) = N + k)
  BY <1>2, <1>4
<1>13. Collects(buffer \o records, handed \o more, encoded, avroWriter.partly)
  <2> DEFINE b == buffer \o records
             h == handed \o more
  <2>1. Len(b) = B + k /\ Len(h) = N + k
    BY <1>6, <1>9
  <2>2. \A i \in 1..Len(b) : b[i] = h[Len(h) - Len(b) + i].record
    BY <1>10, <2>1
  <2>3. \A i \in 1..Len(encoded) : encoded[i].record = h[i].record
    BY <1>11
  <2>4. IF avroWriter.partly THEN Len(b) > 0 ELSE Len(encoded) + Len(b) = Len(h)
    BY <1>5, <1>12, <2>1
  <2> HIDE DEF b, h
  <2>5. Len(b) <= Len(h) /\ Len(encoded) <= Len(h) /\ Len(h) <= Len(encoded) + Len(b)
    BY <1>12, <2>1
  <2>6. Collects(b, h, encoded, avroWriter.partly)
    BY <2>2, <2>3, <2>4, <2>5 DEF Collects
  <2> QED BY <2>6 DEF b, h
<1> QED BY <1>6, <1>9, <1>13 DEF more

LEMMA CodecKeepsEncoder == ASSUME EncoderInv, NEW s \in RecordSchemas, SetWriterCodec(s) PROVE EncoderInv'
<1>1. UNCHANGED <<encoded, handed, repeats>> /\ avroWriter' = [avroWriter EXCEPT !.codec = s, !.sets = @ + 1]
  BY DEF SetWriterCodec
<1>2. EncoderTypes'
  <2>1. avroWriter.sets + 1 \in Nat /\ s \in RecordSchemas \cup {NoSchema}
    BY DEF EncoderInv, EncoderTypes
  <2>2. avroWriter' \in [buffering : BOOLEAN, codec : RecordSchemas \cup {NoSchema}, buffer : Seq(Records),
                     broken : BOOLEAN, partly : BOOLEAN, flushed : Nat, sets : Nat]
    BY <1>1, <2>1 DEF EncoderInv, EncoderTypes
  <2> QED BY <1>1, <2>2 DEF EncoderInv, EncoderTypes
<1>3. /\ avroWriter'.buffering = avroWriter.buffering /\ avroWriter'.buffer = avroWriter.buffer
      /\ avroWriter'.partly = avroWriter.partly /\ avroWriter'.flushed = avroWriter.flushed
  BY <1>1 DEF EncoderInv, EncoderTypes
<1> QED BY <1>1, <1>2, <1>3 DEF EncoderInv

LEMMA CollectingKeepsEncoder ==
  ASSUME EncoderInv, ~repeats, NEW records \in RecordLists, CollectRecords(records)
  PROVE  EncoderInv'
<1> DEFINE all == avroWriter.buffer \o records
<1>1. /\ avroWriter.buffering /\ handed' = handed \o Encode(records) /\ records \in Seq(Records) /\ EncoderTypes
      /\ Collects(avroWriter.buffer, handed, encoded, avroWriter.partly)
  BY ListsAreSequences DEF CollectRecords, EncoderInv
<1>2. /\ all \in Seq(Records) /\ handed' \in Seq(Written)
      /\ Collects(all, handed', encoded, avroWriter.partly)
  BY <1>1, CollectedBehind
<1>3. CASE FlushRecords(all, FALSE)
  BY <1>1, <1>2, <1>3, FlushKeeps DEF EncoderInv
<1>4. CASE avroWriter' = [avroWriter EXCEPT !.buffer = all] /\ UNCHANGED <<encoded, repeats>>
  <2> HIDE DEF all
  <2>1. EncoderTypes'
    BY <1>1, <1>2, <1>4 DEF EncoderTypes
  <2>2. /\ avroWriter'.buffering /\ avroWriter'.buffer = all
        /\ avroWriter'.partly = avroWriter.partly /\ avroWriter'.flushed = avroWriter.flushed
    BY <1>1, <1>4 DEF EncoderTypes
  <2> QED BY <1>2, <1>4, <2>1, <2>2 DEF EncoderInv
<1> QED BY <1>3, <1>4 DEF CollectRecords

LEMMA FlushingKeepsEncoder == ASSUME EncoderInv, ~repeats, FlushWriter PROVE EncoderInv'
<1>1. handed' = handed /\ FlushRecords(avroWriter.buffer, TRUE) /\ EncoderTypes
      /\ avroWriter.buffer \in Seq(Records) /\ handed' \in Seq(Written)
      /\ Collects(avroWriter.buffer, handed', encoded, avroWriter.partly)
  BY DEF FlushWriter, EncoderInv, EncoderTypes
<1>2. CASE avroWriter.buffering
  BY <1>1, <1>2, FlushKeeps DEF EncoderInv
<1>3. CASE ~avroWriter.buffering
  <2>1. avroWriter.buffer = <<>> /\ encoded = handed /\ ~avroWriter.partly
    BY <1>3 DEF EncoderInv
  <2>2. PICK put \in Puts(<<>>) :
          LET done == put.n = Len(<<>>) /\ ~put.broken IN
          /\ encoded' = encoded \o Encode(SubSeq(<<>>, 1, put.n))
          /\ avroWriter' = [avroWriter EXCEPT !.buffer = AfterFlush(<<>>, done), !.broken = put.broken,
                                !.partly = ~done /\ (@ \/ put.n > 0),
                                !.flushed = IF done /\ TRUE THEN Len(handed) ELSE @]
          /\ repeats' = (repeats \/ (avroWriter.partly /\ put.n > 0))
    BY <1>1, <2>1 DEF FlushRecords
  <2>3. <<>> \in Seq(Records) /\ Len(<<>>) = 0
    OBVIOUS
  <2>4. put.n = 0 /\ put.broken \in BOOLEAN
    <3>1. put.n \in 0..Len(<<>>) /\ put.broken \in BOOLEAN
      BY <2>3, PutsAre
    <3> QED BY <2>3, <3>1
  <2>5. encoded' = encoded
    <3>1. put.n \in 0..Len(<<>>)
      BY <2>3, <2>4
    <3>2. encoded' = encoded \o Encode(SubSeq(<<>>, 1, put.n))
      BY <2>2
    <3>3. encoded' \in Seq(Written) /\ Len(encoded') = Len(encoded) + put.n
          /\ \A i \in 1..Len(encoded) : encoded'[i] = encoded[i]
      BY <1>1, <2>3, <3>1, <3>2, PutIsAppended
    <3>4. encoded \in Seq(Written) /\ Len(encoded') = Len(encoded)
      BY <1>1, <2>4, <3>3 DEF EncoderTypes
    <3> QED BY <3>3, <3>4, SeqEqual
  <2>6. ~repeats' /\ AfterFlush(<<>>, put.n = Len(<<>>) /\ ~put.broken) = <<>>
    BY <2>1, <2>2 DEF AfterFlush
  <2>7. ~(0 > 0) /\ Len(handed) \in Nat /\ Len(encoded) \in Nat
    BY <1>1 DEF EncoderTypes
  <2>8. PICK covers \in {Len(handed), avroWriter.flushed} :
           avroWriter' = [avroWriter EXCEPT !.buffer = <<>>, !.broken = put.broken, !.partly = FALSE,
                                            !.flushed = covers]
    BY <2>1, <2>2, <2>4, <2>6, <2>7
  <2>9. covers \in Nat /\ covers <= Len(encoded)
    BY <2>1, <2>7 DEF EncoderInv, EncoderTypes
  <2>10. EncoderTypes'
    <3>1. avroWriter' \in [buffering : BOOLEAN, codec : RecordSchemas \cup {NoSchema}, buffer : Seq(Records),
                     broken : BOOLEAN, partly : BOOLEAN, flushed : Nat, sets : Nat]
      BY <1>1, <2>3, <2>4, <2>8, <2>9 DEF EncoderTypes
    <3>2. repeats' \in BOOLEAN
      BY <2>2
    <3> QED BY <1>1, <2>5, <3>1, <3>2 DEF EncoderTypes
  <2>11. /\ avroWriter'.buffering = avroWriter.buffering /\ avroWriter'.buffer = <<>>
         /\ avroWriter'.partly = FALSE /\ avroWriter'.flushed = covers
    BY <1>1, <2>8 DEF EncoderTypes
  <2>12. Collects(<<>>, handed', encoded', FALSE)
    BY <1>1, <2>1, <2>3, <2>5, <2>7 DEF Collects
  <2>13. Collects(avroWriter'.buffer, handed', encoded', avroWriter'.partly)
    BY <2>11, <2>12
  <2>14. avroWriter'.flushed <= Len(encoded') /\ encoded' = handed'
    BY <1>1, <2>1, <2>5, <2>9, <2>11
  <2> QED BY <2>6, <2>10, <2>11, <2>13, <2>14 DEF EncoderInv
<1> QED BY <1>2, <1>3

LEMMA WritingThroughKeepsEncoder ==
  ASSUME EncoderInv, ~repeats, NEW records \in RecordLists, WriteThrough(records)
  PROVE  EncoderInv'
<1>1. records \in Seq(Records) /\ EncoderTypes /\ ~avroWriter.buffering /\ repeats' = repeats
  BY ListsAreSequences DEF WriteThrough, EncoderInv
<1>2. encoded = handed /\ avroWriter.buffer = <<>> /\ ~avroWriter.partly /\ avroWriter.flushed <= Len(encoded)
  BY <1>1 DEF EncoderInv
<1>3. PICK put \in Puts(records) :
        /\ encoded' = encoded \o Encode(SubSeq(records, 1, put.n))
        /\ handed' = handed \o Encode(SubSeq(records, 1, put.n))
        /\ avroWriter' = [avroWriter EXCEPT !.broken = put.broken]
  BY DEF WriteThrough
<1>4. put.n \in 0..Len(records) /\ put.broken \in BOOLEAN
  BY <1>1, PutsAre
<1>5. encoded' \in Seq(Written) /\ Len(encoded') = Len(encoded) + put.n
  BY <1>1, <1>3, <1>4, PutIsAppended
<1>6. encoded' = handed'
  BY <1>2, <1>3
<1>7. EncoderTypes'
  BY <1>1, <1>3, <1>4, <1>5, <1>6 DEF EncoderTypes
<1>8. /\ avroWriter'.buffering = avroWriter.buffering /\ avroWriter'.buffer = <<>>
      /\ avroWriter'.partly = FALSE /\ avroWriter'.flushed = avroWriter.flushed
  BY <1>1, <1>2, <1>3 DEF EncoderTypes
<1>9. Len(encoded) \in Nat /\ put.n \in Nat /\ avroWriter.flushed \in Nat /\ Len(encoded') \in Nat
  BY <1>1, <1>4, <1>5 DEF EncoderTypes
<1>10. avroWriter'.flushed <= Len(encoded')
  BY <1>2, <1>5, <1>8, <1>9
<1>11. Collects(<<>>, encoded', encoded', FALSE)
  <2>1. Len(<<>>) = 0 /\ ~(0 > 0)
    OBVIOUS
  <2> QED BY <1>9, <2>1 DEF Collects
<1>12. Collects(avroWriter'.buffer, handed', encoded', avroWriter'.partly)
  BY <1>6, <1>8, <1>11
<1> QED BY <1>1, <1>6, <1>7, <1>8, <1>10, <1>12 DEF EncoderInv

LEMMA EncoderStep == EncoderInv /\ AvroWriterNext => EncoderInv'
<1> SUFFICES ASSUME EncoderInv, AvroWriterNext PROVE EncoderInv'
  OBVIOUS
<1>1. ~repeats
  BY DEF AvroWriterNext
<1>2. ASSUME NEW s \in RecordSchemas, SetWriterCodec(s) PROVE EncoderInv'
  BY <1>2, CodecKeepsEncoder
<1>3. ASSUME NEW records \in RecordLists, CollectRecords(records) PROVE EncoderInv'
  BY <1>1, <1>3, CollectingKeepsEncoder
<1>4. ASSUME NEW records \in RecordLists, WriteThrough(records) PROVE EncoderInv'
  BY <1>1, <1>4, WritingThroughKeepsEncoder
<1>5. CASE FlushWriter
  BY <1>1, <1>5, FlushingKeepsEncoder
<1> QED BY <1>2, <1>3, <1>4, <1>5 DEF AvroWriterNext

LEMMA EncoderStays == EncoderInv /\ UNCHANGED avroWriterVars => EncoderInv'
BY DEF EncoderInv, EncoderTypes, avroWriterVars

(* A sequence is a prefix of another of which it has the first elements.   *)
LEMMA FirstArePrefix ==
  ASSUME NEW T, NEW s \in Seq(T), NEW t \in Seq(T), Len(s) <= Len(t), \A i \in 1..Len(s) : s[i] = t[i]
  PROVE  IsPrefix(s, t)
<1>1. Len(s) \in Nat /\ Len(t) \in Nat
  OBVIOUS
<1>2. SubSeq(s, 1, Len(s)) = s
  BY SubSeqFull
<1>3. /\ SubSeq(t, 1, Len(s)) \in Seq(T) /\ Len(SubSeq(t, 1, Len(s))) = Len(s)
      /\ \A i \in 1..Len(s) : SubSeq(t, 1, Len(s))[i] = t[i]
  BY <1>1
<1>4. s = SubSeq(t, 1, Len(s))
  BY <1>3, SeqEqual
<1> QED BY <1>2, <1>4 DEF IsPrefix

LEMMA EncoderComesThrough == EncoderInv => EncodedOnce /\ FlushedIsEncoded
<1> SUFFICES ASSUME EncoderInv PROVE EncodedOnce /\ FlushedIsEncoded
  OBVIOUS
<1> DEFINE RecordsOf(s) == [i \in DOMAIN s |-> s[i].record]
<1>1. encoded \in Seq(Written) /\ handed \in Seq(Written) /\ avroWriter.flushed \in Nat
  BY DEF EncoderInv, EncoderTypes
<1>2. ASSUME NEW s \in Seq(Written)
      PROVE  RecordsOf(s) \in Seq(Records) /\ Len(RecordsOf(s)) = Len(s) /\ \A i \in 1..Len(s) : RecordsOf(s)[i] = s[i].record
  <2>1. DOMAIN s = 1..Len(s) /\ Len(s) \in Nat /\ \A i \in 1..Len(s) : s[i] \in Written
    OBVIOUS
  <2>2. \A i \in 1..Len(s) : s[i].record \in Records
    BY <2>1 DEF Written
  <2>3. RecordsOf(s) = [i \in 1..Len(s) |-> s[i].record]
    BY <2>1
  <2>4. [i \in 1..Len(s) |-> s[i].record] \in [1..Len(s) -> Records]
    BY <2>2
  <2> QED BY <2>1, <2>3, <2>4
<1>3. ASSUME ~repeats PROVE IsPrefix(RecordsOf(encoded), RecordsOf(handed))
  <2>1. Len(encoded) <= Len(handed) /\ \A i \in 1..Len(encoded) : encoded[i].record = handed[i].record
    BY <1>3 DEF EncoderInv, Collects
  <2>2. \A i \in 1..Len(encoded) : i \in 1..Len(handed)
    BY <1>1, <2>1
  <2>3. \A i \in 1..Len(encoded) : RecordsOf(encoded)[i] = RecordsOf(handed)[i]
    BY <1>1, <1>2, <2>1, <2>2
  <2>4. RecordsOf(encoded) \in Seq(Records) /\ RecordsOf(handed) \in Seq(Records)
        /\ Len(RecordsOf(encoded)) = Len(encoded) /\ Len(RecordsOf(handed)) = Len(handed)
    BY <1>1, <1>2
  <2> HIDE DEF RecordsOf
  <2> QED BY <2>1, <2>3, <2>4, FirstArePrefix
<1>4. EncodedOnce
  BY <1>3 DEF EncodedOnce
<1>5. ~avroWriter.buffering => IsPrefix(encoded, handed)
  <2>1. ~avroWriter.buffering => encoded = handed
    BY DEF EncoderInv
  <2>2. IsPrefix(handed, handed)
    BY <1>1, FirstArePrefix
  <2> QED BY <2>1, <2>2
<1>6. Len(encoded) >= avroWriter.flushed
  BY <1>1 DEF EncoderInv
<1> QED BY <1>4, <1>5, <1>6 DEF FlushedIsEncoded

-----------------------------------------------------------------------------
(* The binary reader.                                                      *)
SomeSchemas == RecordSchemas \cup {NoSchema}
Contents == {ResolvedValues(s, DOMAIN FieldsOf[t], n) : s \in SomeSchemas, t \in SomeSchemas, n \in Nat} \cup {<<>>}
PooledMaps == [content : Contents, record : Nat]
Returned == [record : Nat, map : Nat, right : Contents]

DecoderTypes ==
  /\ avroReader \in [resolution : BOOLEAN, reuse : BOOLEAN, readerSchema : SomeSchemas,
                     writerSchema : SomeSchemas, codec : SomeSchemas, resolves : BOOLEAN,
                     last : {"reader", "writer", Nothing}, fine : BOOLEAN, sets : Nat]
  /\ wrote \in RecordSchemas
  /\ position \in [consumed : Nat, aligned : BOOLEAN, reads : Nat]
  /\ maps \in Seq(PooledMaps) /\ held \subseteq Returned
  /\ readBatch \in [open : BOOLEAN, got : SUBSET Returned]

\* Where the maps of records are, and that records are in one place.
InPlaces ==
  /\ ~readBatch.open => readBatch.got = {}
  /\ \A r \in held \cup readBatch.got : r.map <= Len(maps)
  /\ \A r \in held, q \in readBatch.got : r.record # q.record

DecoderInv == DecoderTypes /\ InPlaces /\ DecodedInItsSchema /\ HeldIsRight /\ ReadIsAccounted

\* A read leaves the schemas alone, and a choice of schemas the records.
Reading == DecoderTypes /\ InPlaces /\ HeldIsRight /\ ReadIsAccounted

LEMMA NoSchemaYet == AvroReaderInit => DecodedInItsSchema
BY DEF AvroReaderInit, DecodedInItsSchema

LEMMA ReaderInitially == AvroReaderInit => avroReader \in
   [resolution : BOOLEAN, reuse : BOOLEAN, readerSchema : SomeSchemas,
    writerSchema : SomeSchemas, codec : SomeSchemas, resolves : BOOLEAN,
    last : {"reader", "writer", Nothing}, fine : BOOLEAN, sets : Nat]
<1> SUFFICES ASSUME AvroReaderInit PROVE avroReader \in
     [resolution : BOOLEAN, reuse : BOOLEAN, readerSchema : SomeSchemas,
      writerSchema : SomeSchemas, codec : SomeSchemas, resolves : BOOLEAN,
      last : {"reader", "writer", Nothing}, fine : BOOLEAN, sets : Nat]
  OBVIOUS
<1>1. avroReader \in [resolution : BOOLEAN, reuse : BOOLEAN, readerSchema : {NoSchema},
                       writerSchema : {NoSchema}, codec : {NoSchema}, resolves : {FALSE},
                       last : {Nothing}, fine : {TRUE}, sets : {0}]
  BY Zenon DEF AvroReaderInit, Nothing
<1>2. NoSchema \in SomeSchemas
  BY DEF SomeSchemas
<1>3. /\ avroReader = [resolution |-> avroReader.resolution, reuse |-> avroReader.reuse,
                       readerSchema |-> avroReader.readerSchema, writerSchema |-> avroReader.writerSchema,
                       codec |-> avroReader.codec, resolves |-> avroReader.resolves,
                       last |-> avroReader.last, fine |-> avroReader.fine, sets |-> avroReader.sets]
      /\ avroReader.resolution \in BOOLEAN /\ avroReader.reuse \in BOOLEAN
      /\ avroReader.readerSchema = NoSchema /\ avroReader.writerSchema = NoSchema
      /\ avroReader.codec = NoSchema /\ avroReader.resolves = FALSE
      /\ avroReader.last = Nothing /\ avroReader.fine = TRUE /\ avroReader.sets = 0
  BY <1>1
<1>4. /\ avroReader.readerSchema \in SomeSchemas /\ avroReader.writerSchema \in SomeSchemas
      /\ avroReader.codec \in SomeSchemas /\ avroReader.last \in {"reader", "writer", Nothing}
  BY <1>2, <1>3
<1>5. avroReader.resolves = FALSE /\ avroReader.fine = TRUE /\ avroReader.sets = 0
  BY <1>3, Zenon
<1>6. avroReader.resolves \in BOOLEAN /\ avroReader.fine \in BOOLEAN
  BY <1>5, Zenon
<1>7. avroReader.sets \in Nat
  BY <1>5
<1> QED BY <1>3, <1>4, <1>6, <1>7

LEMMA DecoderInitially == AvroReaderInit => DecoderInv
<1> SUFFICES ASSUME AvroReaderInit PROVE DecoderInv
  OBVIOUS
<1>1. /\ wrote \in RecordSchemas /\ position = [consumed |-> 0, aligned |-> TRUE, reads |-> 1]
      /\ maps = <<>> /\ held = {} /\ readBatch = [open |-> FALSE, got |-> {}] /\ failed = {}
  BY Zenon DEF AvroReaderInit
<1>2. DecoderTypes
  BY <1>1, ReaderInitially DEF DecoderTypes
<1>3. InPlaces
  BY <1>1 DEF InPlaces
<1>4. HeldIsRight
  BY <1>1 DEF HeldIsRight
<1>5. ReadIsAccounted
  <2>1. 1..0 = {} /\ position.consumed = 0
    BY <1>1
  <2> QED BY <1>1, <2>1 DEF ReadIsAccounted
<1> QED BY <1>2, <1>3, <1>4, <1>5, NoSchemaYet DEF DecoderInv

(* Records are read one behind the other: those held are behind nothing    *)
(* that is still to be read.                                               *)
LEMMA HeldIsBehind ==
  ASSUME ReadIsAccounted, DecoderTypes, NEW r \in held \cup readBatch.got
  PROVE  r.record \in 1..position.consumed /\ r.record \notin failed
<1>1. r.record \in {q.record : q \in held \cup readBatch.got}
  OBVIOUS
<1> QED BY <1>1 DEF ReadIsAccounted

\* One read of the record n: maps are taken for n only.
MapsTaken(n) ==
  /\ maps' \in Seq(PooledMaps) /\ Len(maps) <= Len(maps')
  /\ \A i \in 1..Len(maps) : maps'[i] = maps[i] \/ maps'[i].record = n

LEMMA HeldStaysRight ==
  ASSUME DecoderTypes, InPlaces, HeldIsRight, ReadIsAccounted, MapsTaken(position.consumed + 1),
         NEW r \in held \cup readBatch.got
  PROVE  /\ r.map <= Len(maps')
         /\ (r.map # 0 /\ maps'[r.map].record = r.record) => maps'[r.map].content = r.right
<1>1. r.record \in Nat /\ r.record <= position.consumed /\ position.consumed \in Nat /\ r.map \in Nat
  BY HeldIsBehind DEF DecoderTypes, Returned
<1>2. r.map <= Len(maps) /\ Len(maps) <= Len(maps') /\ Len(maps) \in Nat /\ Len(maps') \in Nat
  BY DEF InPlaces, MapsTaken, DecoderTypes
<1>3. r.map <= Len(maps')
  BY <1>1, <1>2
<1>4. ASSUME r.map # 0, maps'[r.map].record = r.record PROVE maps'[r.map].content = r.right
  <2>1. r.map \in 1..Len(maps)
    BY <1>1, <1>2, <1>4
  <2>2. r.record # position.consumed + 1
    BY <1>1
  <2>3. maps'[r.map] = maps[r.map]
    BY <1>4, <2>1, <2>2 DEF MapsTaken
  <2> QED BY <1>4, <2>3 DEF HeldIsRight
<1> QED BY <1>3, <1>4

LEMMA Longer == ASSUME NEW n \in Nat PROVE 1..(n + 1) = (1..n) \cup {n + 1} /\ n + 1 \notin 1..n
OBVIOUS

LEMMA SetSchemaKeeps == ASSUME DecoderInv, NEW s \in RecordSchemas, SetSchema(s) \/ SetWriterSchema(s) PROVE DecoderInv'
<1>1. UNCHANGED <<wrote, position, maps, held, readBatch, failed>>
  BY DEF SetSchema, SetWriterSchema, readingVars
<1> DEFINE asReader == [avroReader EXCEPT !.readerSchema = s, !.last = "reader", !.sets = @ + 1]
           asWriter == [avroReader EXCEPT !.writerSchema = s, !.last = "writer", !.fine = TRUE, !.sets = @ + 1]
           Readers == [resolution : BOOLEAN, reuse : BOOLEAN, readerSchema : SomeSchemas,
                     writerSchema : SomeSchemas, codec : SomeSchemas, resolves : BOOLEAN,
                     last : {"reader", "writer", Nothing}, fine : BOOLEAN, sets : Nat]
           Good(r) == (/\ r.resolution /\ r.fine /\ r.writerSchema # NoSchema /\ r.readerSchema # NoSchema) =>
                        \/ r.codec = r.writerSchema /\ (r.resolves \/ r.codec = r.readerSchema)
                        \/ r.last = "writer" /\ r.writerSchema = r.readerSchema
<1>2. s \in SomeSchemas /\ avroReader \in Readers
  BY DEF SomeSchemas, DecoderInv, DecoderTypes
<1>3. PICK k \in Nat : k = avroReader.sets + 1
  BY <1>2
<1>4. PICK reads \in {"reader", "writer", Nothing} : reads = "reader"
  OBVIOUS
<1>5. PICK marks \in {"reader", "writer", Nothing} : marks = "writer"
  OBVIOUS
<1>6. asReader \in Readers /\ asReader.readerSchema = s
  <2>1. asReader = [avroReader EXCEPT !.readerSchema = s, !.last = reads, !.sets = k]
    BY <1>3, <1>4
  <2> QED BY <1>2, <2>1
<1>7. asWriter \in Readers /\ asWriter.writerSchema = s /\ asWriter.last = "writer"
  <2>1. asWriter = [avroReader EXCEPT !.writerSchema = s, !.last = marks, !.fine = TRUE, !.sets = k]
    BY <1>3, <1>5
  <2> QED BY <1>2, <1>5, <2>1
<1>8. ASSUME NEW r \in Readers, NEW t \in Readers, t = createCodecWithResolution(r) PROVE Good(t)
  <2>1. CASE Compatible(r.writerSchema, r.readerSchema)
    <3>1. t = [r EXCEPT !.codec = r.writerSchema, !.resolves = TRUE, !.fine = TRUE]
      BY <1>8, <2>1 DEF createCodecWithResolution, ResolvedCodec
    <3>2. t.codec = t.writerSchema /\ t.resolves
      BY <3>1
    <3> QED BY <3>2
  <2>2. CASE ~Compatible(r.writerSchema, r.readerSchema)
    <3>1. t = [r EXCEPT !.fine = FALSE]
      BY <1>8, <2>2 DEF createCodecWithResolution
    <3>2. ~t.fine
      BY <3>1
    <3> QED BY <3>2
  <2> QED BY <2>1, <2>2
<1>9. ASSUME NEW r \in Readers PROVE createCodecWithResolution(r) \in Readers
  <2>1. CASE Compatible(r.writerSchema, r.readerSchema)
    BY <2>1 DEF createCodecWithResolution, ResolvedCodec
  <2>2. CASE ~Compatible(r.writerSchema, r.readerSchema)
    BY <2>2 DEF createCodecWithResolution
  <2> QED BY <2>1, <2>2
<1>10. ASSUME SetSchema(s) PROVE avroReader' \in Readers /\ Good(avroReader')
  <2>1. avroReader' = IF asReader.writerSchema # NoSchema /\ asReader.writerSchema # s /\ asReader.resolution
                      THEN createCodecWithResolution(asReader)
                      ELSE [asReader EXCEPT !.codec = s, !.resolves = FALSE, !.fine = TRUE]
    BY <1>10 DEF SetSchema
  <2> HIDE DEF asReader
  <2>2. CASE asReader.writerSchema # NoSchema /\ asReader.writerSchema # s /\ asReader.resolution
    BY <1>6, <1>8, <1>9, <2>1, <2>2
  <2>3. CASE ~(asReader.writerSchema # NoSchema /\ asReader.writerSchema # s /\ asReader.resolution)
    <3>1. avroReader' = [asReader EXCEPT !.codec = s, !.resolves = FALSE, !.fine = TRUE]
      BY <2>1, <2>3
    <3>2. avroReader' \in Readers
      BY <1>2, <1>6, <3>1
    <3>3. /\ avroReader'.codec = s /\ avroReader'.readerSchema = s /\ avroReader'.writerSchema = asReader.writerSchema
          /\ avroReader'.resolution = asReader.resolution
      BY <1>6, <3>1
    <3> QED BY <2>3, <3>2, <3>3
  <2> QED BY <2>2, <2>3
<1>11. ASSUME SetWriterSchema(s) PROVE avroReader' \in Readers /\ Good(avroReader')
  <2>1. avroReader' = IF asWriter.readerSchema = NoSchema
                      THEN [asWriter EXCEPT !.codec = s, !.readerSchema = s, !.resolves = FALSE]
                      ELSE IF asWriter.readerSchema # s /\ asWriter.resolution THEN createCodecWithResolution(asWriter)
                      ELSE asWriter
    BY <1>11 DEF SetWriterSchema
  <2> HIDE DEF asWriter
  <2>2. CASE asWriter.readerSchema = NoSchema
    <3>1. avroReader' = [asWriter EXCEPT !.codec = s, !.readerSchema = s, !.resolves = FALSE]
      BY <2>1, <2>2
    <3>2. avroReader' \in Readers
      BY <1>2, <1>7, <3>1
    <3>3. avroReader'.codec = s /\ avroReader'.readerSchema = s /\ avroReader'.writerSchema = s
      BY <1>7, <3>1
    <3> QED BY <3>2, <3>3
  <2>3. CASE asWriter.readerSchema # NoSchema /\ asWriter.readerSchema # s /\ asWriter.resolution
    BY <1>7, <1>8, <1>9, <2>1, <2>3
  <2>4. CASE asWriter.readerSchema # NoSchema /\ ~(asWriter.readerSchema # s /\ asWriter.resolution)
    <3>1. avroReader' = asWriter
      BY <2>1, <2>4
    <3> QED BY <1>7, <2>4, <3>1
  <2> QED BY <2>2, <2>3, <2>4
<1>12. avroReader' \in Readers /\ Good(avroReader')
  BY <1>10, <1>11
<1>13. DecoderTypes'
  BY <1>1, <1>12 DEF DecoderInv, DecoderTypes
<1>14. DecodedInItsSchema'
  BY <1>12 DEF DecodedInItsSchema
<1>15. InPlaces' /\ HeldIsRight' /\ ReadIsAccounted'
  BY <1>1 DEF DecoderInv, InPlaces, HeldIsRight, ReadIsAccounted
<1> QED BY <1>13, <1>14, <1>15 DEF DecoderInv

\* What a record delivered and a call refused leave.
LEMMA DeliverKeeps ==
  ASSUME Reading, UNCHANGED <<avroReader, wrote, failed>>, NEW inBatch \in BOOLEAN,
         position' \in [consumed : Nat, aligned : BOOLEAN, reads : Nat],
         position'.consumed = position.consumed + 1, MapsTaken(position.consumed + 1),
         NEW new \in Returned, new.record = position.consumed + 1, new.map <= Len(maps'),
         new.map # 0 => maps'[new.map].content = new.right,
         inBatch => readBatch.open, Deliver(new, inBatch)
  PROVE  Reading'
<1> DEFINE n == position.consumed + 1
<1>1. /\ held' \cup readBatch'.got = held \cup readBatch.got \cup {new}
      /\ readBatch'.open = readBatch.open
      /\ IF inBatch THEN held' = held /\ readBatch'.got = readBatch.got \cup {new}
         ELSE held' = held \cup {new} /\ readBatch'.got = readBatch.got
      /\ held' \subseteq Returned /\ readBatch' \in [open : BOOLEAN, got : SUBSET Returned]
  <2>1. CASE inBatch
    BY <2>1 DEF Deliver, Reading, DecoderTypes
  <2>2. CASE ~inBatch
    BY <2>2 DEF Deliver, Reading, DecoderTypes
  <2> QED BY <2>1, <2>2
<1>2. \A r \in held \cup readBatch.got : r.record \in 1..position.consumed /\ r.record \notin failed
  BY HeldIsBehind DEF Reading
<1>3. position.consumed \in Nat /\ n \notin 1..position.consumed /\ 1..n = (1..position.consumed) \cup {n}
  BY Longer DEF Reading, DecoderTypes
<1>4. DecoderTypes'
  BY <1>1 DEF Reading, DecoderTypes, MapsTaken
<1>5. InPlaces'
  <2>1. ~readBatch'.open => readBatch'.got = {}
    BY <1>1 DEF Reading, InPlaces
  <2>2. \A r \in held' \cup readBatch'.got : r.map <= Len(maps')
    BY <1>1, HeldStaysRight DEF Reading
  <2>3. \A r \in held', q \in readBatch'.got : r.record # q.record
    <3>1. \A r \in held \cup readBatch.got : r.record # new.record
      BY <1>2, <1>3
    <3> QED BY <1>1, <3>1 DEF Reading, InPlaces
  <2> QED BY <2>1, <2>2, <2>3 DEF InPlaces
<1>6. HeldIsRight'
  BY <1>1, HeldStaysRight DEF Reading, HeldIsRight
<1>7. ReadIsAccounted'
  <2>1. {r.record : r \in held' \cup readBatch'.got} = {r.record : r \in held \cup readBatch.got} \cup {n}
    BY <1>1
  <2>2. /\ {r.record : r \in held \cup readBatch.got} \cup failed = 1..position.consumed
        /\ {r.record : r \in held \cup readBatch.got} \cap failed = {}
    BY DEF Reading, ReadIsAccounted
  <2>3. held' \cap readBatch'.got = {}
    BY <1>5 DEF InPlaces
  <2> QED BY <1>3, <2>1, <2>2, <2>3 DEF ReadIsAccounted
<1> QED BY <1>4, <1>5, <1>6, <1>7 DEF Reading

LEMMA RefuseKeeps ==
  ASSUME Reading, UNCHANGED <<avroReader, wrote>>, NEW inBatch \in BOOLEAN,
         position' \in [consumed : Nat, aligned : BOOLEAN, reads : Nat],
         position'.consumed = position.consumed + 1, MapsTaken(position.consumed + 1),
         Refuse(position.consumed + 1, inBatch)
  PROVE  Reading'
<1> DEFINE n == position.consumed + 1
           got == readBatch.got
<1>1. /\ held' = held /\ readBatch' \in [open : BOOLEAN, got : SUBSET Returned]
      /\ IF inBatch THEN ~readBatch'.open /\ readBatch'.got = {} /\ failed' = failed \cup {r.record : r \in got} \cup {n}
         ELSE readBatch' = readBatch /\ failed' = failed \cup {n}
  BY DEF Refuse, BatchLoses, Reading, DecoderTypes
<1>2. \A r \in held \cup got : r.record \in 1..position.consumed /\ r.record \notin failed
  BY HeldIsBehind DEF Reading
<1>3. position.consumed \in Nat /\ n \notin 1..position.consumed /\ 1..n = (1..position.consumed) \cup {n}
  BY Longer DEF Reading, DecoderTypes
<1>4. DecoderTypes'
  BY <1>1 DEF Reading, DecoderTypes, MapsTaken
<1>5. held' \cup readBatch'.got \subseteq held \cup got
  BY <1>1
<1>6. InPlaces'
  <2>1. ~readBatch'.open => readBatch'.got = {}
    BY <1>1 DEF Reading, InPlaces
  <2>2. \A r \in held' \cup readBatch'.got : r.map <= Len(maps')
    BY <1>5, HeldStaysRight DEF Reading
  <2>3. \A r \in held', q \in readBatch'.got : r.record # q.record
    BY <1>1 DEF Reading, InPlaces
  <2> QED BY <2>1, <2>2, <2>3 DEF InPlaces
<1>7. HeldIsRight'
  BY <1>5, HeldStaysRight DEF Reading, HeldIsRight
<1>8. ReadIsAccounted'
  <2>1. /\ {r.record : r \in held \cup got} \cup failed = 1..position.consumed
        /\ {r.record : r \in held \cup got} \cap failed = {}
    BY DEF Reading, ReadIsAccounted
  <2>2. {r.record : r \in held \cup got} = {r.record : r \in held} \cup {r.record : r \in got}
    OBVIOUS
  <2>3. {r.record : r \in held} \cap {r.record : r \in got} = {}
    BY DEF Reading, InPlaces
  <2>4. CASE inBatch
    <3>1. {r.record : r \in held' \cup readBatch'.got} = {r.record : r \in held}
      BY <1>1, <2>4
    <3> QED BY <1>1, <1>3, <2>1, <2>2, <2>3, <2>4, <3>1 DEF ReadIsAccounted
  <2>5. CASE ~inBatch
    <3>1. held' \cup readBatch'.got = held \cup got /\ held' \cap readBatch'.got = held \cap got
      BY <1>1, <2>5
    <3>2. held \cap got = {}
      BY DEF Reading, ReadIsAccounted
    <3> QED BY <1>1, <1>3, <2>1, <2>5, <3>1, <3>2 DEF ReadIsAccounted
  <2> QED BY <2>4, <2>5
<1> QED BY <1>4, <1>6, <1>7, <1>8 DEF Reading

LEMMA ReadingIsDecoding ==
  /\ DecoderInv => Reading /\ DecodedInItsSchema
  /\ DecoderInv /\ Reading' /\ UNCHANGED avroReader => DecoderInv'
<1>1. DecoderInv => Reading /\ DecodedInItsSchema
  BY DEF DecoderInv, Reading
<1>2. DecodedInItsSchema /\ UNCHANGED avroReader => DecodedInItsSchema'
  BY DEF DecodedInItsSchema
<1> QED BY <1>1, <1>2 DEF DecoderInv, Reading

LEMMA OneMoreConsumed ==
  ASSUME DecoderTypes, NEW aligned_ \in BOOLEAN, Consumed(aligned_)
  PROVE  /\ position' \in [consumed : Nat, aligned : BOOLEAN, reads : Nat]
         /\ position'.consumed = position.consumed + 1
<1>1. PICK n \in Nat : n = position.consumed + 1
  BY DEF DecoderTypes
<1>2. position' = [position EXCEPT !.consumed = n, !.aligned = aligned_]
  BY <1>1 DEF Consumed
<1> QED BY <1>1, <1>2 DEF DecoderTypes

\* A map is taken from the pool, or is a new one; 0 stands for one that is not pooled.
LEMMA MapIsTaken ==
  ASSUME DecoderTypes, NEW n \in Nat, NEW m \in Nat, m <= Len(maps) + 1, NEW content \in Contents,
         maps' = IF m = 0 THEN maps
                 ELSE IF m > Len(maps) THEN Append(maps, [content |-> content, record |-> n])
                 ELSE [maps EXCEPT ![m] = [content |-> content, record |-> n]]
  PROVE  MapsTaken(n) /\ m <= Len(maps') /\ (m # 0 => maps'[m].content = content)
<1> DEFINE x == [content |-> content, record |-> n]
<1>1. maps \in Seq(PooledMaps) /\ x \in PooledMaps /\ Len(maps) \in Nat
  BY DEF DecoderTypes, PooledMaps
<1>2. x.content = content /\ x.record = n
  OBVIOUS
<1> HIDE DEF x
<1>3. CASE m = 0
  BY <1>1, <1>3 DEF MapsTaken
<1>4. CASE m > Len(maps)
  <2>1. maps' = Append(maps, x) /\ m = Len(maps) + 1 /\ m # 0
    BY <1>1, <1>4 DEF x
  <2>2. /\ maps' \in Seq(PooledMaps) /\ Len(maps') = Len(maps) + 1
        /\ \A i \in 1..Len(maps) : maps'[i] = maps[i]
        /\ maps'[Len(maps) + 1] = x
    BY <1>1, <2>1, AppendProperties
  <2>3. Len(maps) <= Len(maps') /\ m <= Len(maps')
    BY <1>1, <2>1, <2>2
  <2> QED BY <1>2, <2>1, <2>2, <2>3 DEF MapsTaken
<1>5. CASE m # 0 /\ ~(m > Len(maps))
  <2>1. maps' = [maps EXCEPT ![m] = x] /\ m \in 1..Len(maps)
    BY <1>1, <1>5 DEF x
  <2>2. /\ maps' \in Seq(PooledMaps) /\ Len(maps') = Len(maps)
        /\ \A i \in 1..Len(maps) : maps'[i] = IF i = m THEN x ELSE maps[i]
    BY <1>1, <2>1, ExceptSeq
  <2>3. Len(maps) <= Len(maps') /\ m <= Len(maps')
    BY <1>1, <2>1, <2>2
  <2> QED BY <1>2, <2>1, <2>2, <2>3 DEF MapsTaken
<1> QED BY <1>3, <1>4, <1>5

LEMMA ReadRecordKeeps == ASSUME DecoderInv, NEW inBatch \in BOOLEAN, ReadRecord(inBatch) PROVE DecoderInv'
<1> DEFINE n == position.consumed + 1
           schema == IF avroReader.resolves THEN avroReader.readerSchema ELSE avroReader.codec
           right == ResolvedValues(schema, DOMAIN FieldsOf[avroReader.codec], n)
<1>1. PICK map \in MapsFor(1..Len(maps) + 1) :
          /\ maps' = IF map = 0 THEN maps
                     ELSE IF map > Len(maps) THEN Append(maps, [content |-> right, record |-> n])
                     ELSE [maps EXCEPT ![map] = [content |-> right, record |-> n]]
          /\ Deliver([record |-> n, map |-> map, right |-> right], inBatch)
  BY DEF ReadRecord, Filled
<1>2. /\ Consumed(TRUE) /\ UNCHANGED <<avroReader, wrote, failed>>
      /\ inBatch => readBatch.open
  BY DEF ReadRecord, Readable
<1>3. DecoderTypes /\ Reading /\ n \in Nat /\ Len(maps) \in Nat
  BY ReadingIsDecoding DEF DecoderInv, DecoderTypes
<1>4. map \in Nat /\ map <= Len(maps) + 1
  <2>1. map = 0 \/ map \in 1..(Len(maps) + 1)
    BY DEF MapsFor
  <2> QED BY <1>3, <2>1
<1>5. right \in Contents
  <2>1. schema \in SomeSchemas /\ avroReader.codec \in SomeSchemas
    BY <1>3 DEF DecoderTypes
  <2> HIDE DEF schema
  <2> QED BY <1>3, <2>1 DEF Contents
<1> HIDE DEF right
<1>6. MapsTaken(n) /\ map <= Len(maps') /\ (map # 0 => maps'[map].content = right)
  BY <1>1, <1>3, <1>4, <1>5, MapIsTaken, ZenonT(60)
<1>7. PICK new \in Returned : new = [record |-> n, map |-> map, right |-> right]
  BY <1>3, <1>4, <1>5 DEF Returned
<1>8. Deliver(new, inBatch) /\ new.record = n /\ new.map = map /\ new.right = right
  BY <1>1, <1>7
<1>9. /\ position' \in [consumed : Nat, aligned : BOOLEAN, reads : Nat]
      /\ position'.consumed = position.consumed + 1
  BY <1>2, <1>3, OneMoreConsumed
<1>10. Reading'
  BY <1>2, <1>3, <1>6, <1>8, <1>9, DeliverKeeps
<1> QED BY <1>2, <1>10, ReadingIsDecoding

LEMMA MapsAreLeft == ASSUME DecoderTypes, NEW n \in Nat, UNCHANGED maps PROVE MapsTaken(n)
BY DEF MapsTaken, DecoderTypes

LEMMA ReadUnresolvableKeeps == ASSUME DecoderInv, NEW inBatch \in BOOLEAN, ReadUnresolvable(inBatch) PROVE DecoderInv'
<1> DEFINE n == position.consumed + 1
<1>1. PICK map \in MapsFor(1..Len(maps)) \cup {0} :
          maps' = IF map = 0 THEN maps ELSE [maps EXCEPT ![map] = [content |-> <<>>, record |-> n]]
  BY DEF ReadUnresolvable
<1>2. Consumed(TRUE) /\ Refuse(n, inBatch) /\ UNCHANGED <<avroReader, wrote>>
  BY DEF ReadUnresolvable
<1>3. DecoderTypes /\ Reading /\ n \in Nat /\ Len(maps) \in Nat /\ <<>> \in Contents
  BY ReadingIsDecoding DEF DecoderInv, DecoderTypes, Contents
<1>4. map \in Nat /\ map <= Len(maps) + 1 /\ ~(map > Len(maps))
  <2>1. map = 0 \/ map \in 1..Len(maps)
    BY DEF MapsFor
  <2> QED BY <1>3, <2>1
<1>5. maps' = IF map = 0 THEN maps
              ELSE IF map > Len(maps) THEN Append(maps, [content |-> <<>>, record |-> n])
              ELSE [maps EXCEPT ![map] = [content |-> <<>>, record |-> n]]
  BY <1>1, <1>4
<1>6. MapsTaken(n)
  BY <1>3, <1>4, <1>5, MapIsTaken
<1>7. /\ position' \in [consumed : Nat, aligned : BOOLEAN, reads : Nat]
      /\ position'.consumed = position.consumed + 1
  BY <1>2, <1>3, OneMoreConsumed
<1>8. Reading'
  BY <1>2, <1>3, <1>6, <1>7, RefuseKeeps
<1> QED BY <1>2, <1>8, ReadingIsDecoding

LEMMA ReadFailsKeeps == ASSUME DecoderInv, NEW inBatch \in BOOLEAN, ReadFails(inBatch) PROVE DecoderInv'
<1>1. /\ Consumed(FALSE) /\ Refuse(position.consumed + 1, inBatch) /\ UNCHANGED <<avroReader, wrote>>
      /\ UNCHANGED maps
  BY DEF ReadFails
<1>2. DecoderTypes /\ Reading /\ position.consumed + 1 \in Nat
  BY ReadingIsDecoding DEF DecoderInv, DecoderTypes
<1>3. /\ position' \in [consumed : Nat, aligned : BOOLEAN, reads : Nat]
      /\ position'.consumed = position.consumed + 1
  BY <1>1, <1>2, OneMoreConsumed
<1>4. Reading'
  BY <1>1, <1>2, <1>3, MapsAreLeft, RefuseKeeps
<1> QED BY <1>1, <1>4, ReadingIsDecoding

LEMMA BatchKeeps == ASSUME DecoderInv, StartBatch \/ EndBatch \/ ResetReader PROVE DecoderInv'
<1>1. DecoderTypes /\ Reading /\ UNCHANGED <<avroReader, wrote, maps>>
  BY ReadingIsDecoding DEF DecoderInv, StartBatch, EndBatch, ResetReader
<1>2. ASSUME StartBatch PROVE Reading'
  <2>1. readBatch'.got = readBatch.got /\ readBatch'.open /\ UNCHANGED <<position, held, failed>>
    BY <1>1, <1>2 DEF StartBatch, DecoderTypes
  <2>2. DecoderTypes'
    BY <1>1, <1>2 DEF StartBatch, DecoderTypes
  <2> QED BY <1>1, <2>1, <2>2 DEF Reading, InPlaces, HeldIsRight, ReadIsAccounted
<1>3. ASSUME EndBatch PROVE Reading'
  <2>1. /\ held' = held \cup readBatch.got /\ readBatch' = [open |-> FALSE, got |-> {}]
        /\ UNCHANGED <<position, failed>>
    BY <1>3 DEF EndBatch
  <2>2. /\ held' \cup readBatch'.got = held \cup readBatch.got /\ readBatch'.got = {}
    BY <2>1
  <2>3. DecoderTypes'
    BY <1>1, <2>1 DEF DecoderTypes
  <2>4. held' \cap readBatch'.got = {}
    BY <2>2
  <2> QED BY <1>1, <2>1, <2>2, <2>3, <2>4 DEF Reading, InPlaces, HeldIsRight, ReadIsAccounted
<1>4. ASSUME ResetReader PROVE Reading'
  <2>1. /\ held' = {} /\ failed' = {} /\ readBatch' = readBatch /\ ~readBatch.open
        /\ position' = [consumed |-> 0, aligned |-> TRUE, reads |-> position.reads + 1]
    BY <1>4 DEF ResetReader
  <2>2. readBatch.got = {}
    BY <1>1, <2>1 DEF Reading, InPlaces
  <2>3. position.reads + 1 \in Nat /\ 1..0 = {} /\ position'.consumed = 0
    BY <1>1, <2>1 DEF DecoderTypes
  <2>4. DecoderTypes'
    BY <1>1, <2>1, <2>3 DEF DecoderTypes
  <2>5. ReadIsAccounted'
    BY <2>1, <2>2, <2>3 DEF ReadIsAccounted
  <2> QED BY <1>1, <2>1, <2>2, <2>4, <2>5 DEF Reading, InPlaces, HeldIsRight
<1>5. Reading'
  BY <1>2, <1>3, <1>4
<1> QED BY <1>1, <1>5, ReadingIsDecoding

LEMMA DecoderStep == DecoderInv /\ AvroReaderNext => DecoderInv'
<1> SUFFICES ASSUME DecoderInv, AvroReaderNext PROVE DecoderInv'
  OBVIOUS
<1>1. ASSUME NEW s \in RecordSchemas, SetSchema(s) \/ SetWriterSchema(s) PROVE DecoderInv'
  BY <1>1, SetSchemaKeeps
<1>2. ASSUME NEW inBatch \in BOOLEAN, ReadRecord(inBatch) \/ ReadUnresolvable(inBatch) \/ ReadFails(inBatch)
      PROVE  DecoderInv'
  BY <1>2, ReadRecordKeeps, ReadUnresolvableKeeps, ReadFailsKeeps
<1>3. CASE StartBatch \/ EndBatch \/ ResetReader
  BY <1>3, BatchKeeps
<1> QED BY <1>1, <1>2, <1>3 DEF AvroReaderNext

LEMMA DecoderStays == DecoderInv /\ UNCHANGED avroReaderVars => DecoderInv'
<1> SUFFICES ASSUME DecoderInv, UNCHANGED avroReaderVars PROVE DecoderInv'
  OBVIOUS
<1>1. UNCHANGED <<avroReader, wrote, position, maps, held, readBatch, failed>>
  BY DEF avroReaderVars
<1>2. Reading'
  BY <1>1, ReadingIsDecoding DEF Reading, DecoderTypes, InPlaces, HeldIsRight, ReadIsAccounted
<1> QED BY <1>1, <1>2, ReadingIsDecoding

-----------------------------------------------------------------------------
(* The container.                                                          *)
Objects == UNION {{l[i] : i \in DOMAIN l} : l \in ObjectLists}
Sizes == Nat \cup {CompressedSize(c, o) : c \in Codecs \cup {Nothing}, o \in Seq(Objects)}
Tokens == [type : {"magic", "meta", "sync", "count", "size", "data"}, n : Sizes, objects : Seq(Objects)]

Writers == [codec : Codecs \cup {Nothing}, headerWritten : BOOLEAN, bufferObjects : Seq(Objects),
            broken : BOOLEAN, shut : BOOLEAN, ends : Nat, over : BOOLEAN]
Readers == [at : {"new", "blocks", "eof", "error", "stuck"}, pos : Nat, got : Seq(Objects),
            passes : Nat, streams : BOOLEAN]

ContainerTypes ==
  /\ ocfWriter \in Writers /\ ocfReader \in Readers
  /\ sent \in Nat /\ torn \in BOOLEAN /\ taken \in Seq(Objects) /\ vouched \in Nat /\ endsAt \subseteq Nat

EndAt(f, i) == i \in 1..Len(f) /\ f[i].type = "count" /\ f[i].n = 0
Starts(f, i) == i = 1 \/ f[i - 1].type = "sync"

(* A header, an end or a block begins at i, of which the last tokens may   *)
(* be missing.  A header is at the beginning or behind an end; a block is  *)
(* not at the beginning; the first end is behind the objects in "ends".    *)
HeaderAt(f, i) ==
  /\ f[i].type = "magic" /\ (i = 1 \/ EndAt(f, 1))
  /\ i + 1 <= Len(f) => f[i + 1].type = "meta"
  /\ i + 2 <= Len(f) => f[i + 2].type = "sync"
ClosedAt(f, off, ends, i) ==
  /\ EndAt(f, i) /\ (i + 1 <= Len(f) => f[i + 1].type = "sync")
  /\ (\A j \in 1..(i - 1) : ~EndAt(f, j)) => ends = {off[i - 1]}
FilledAt(f, i) ==
  /\ f[i].type = "count" /\ f[i].n \in Nat /\ f[i].n # 0 /\ i # 1
  /\ i + 1 <= Len(f) => f[i + 1].type = "size"
  /\ i + 2 <= Len(f) => f[i + 2].type = "data"
  /\ i + 3 <= Len(f) => f[i + 3].type = "sync"
UnitAt(f, off, ends, i) == HeaderAt(f, i) \/ ClosedAt(f, off, ends, i) \/ FilledAt(f, i)

\* The first i tokens hold the first off[i] objects that were taken.
Holding(f, off, took, i) ==
  IF f[i].type = "data"
  THEN /\ off[i] = off[i - 1] + Len(f[i].objects)
       /\ \A j \in 1..Len(f[i].objects) : f[i].objects[j] = took[off[i - 1] + j]
  ELSE off[i] = off[i - 1]

Rising(f, off, took) ==
  /\ off \in [0..Len(f) -> Nat] /\ off[0] = 0
  /\ \A i \in 0..Len(f) : off[i] <= Len(took)
  /\ \A i \in 0..Len(f) : \A j \in i..Len(f) : off[i] <= off[j]

Shape(f, off, took, ends) ==
  /\ f \in Seq(Tokens) /\ Rising(f, off, took)
  /\ \A i \in 1..Len(f) : Holding(f, off, took, i)
  /\ \A i \in 1..Len(f) : Starts(f, i) => UnitAt(f, off, ends, i)

\* What the writer has in hand when nothing has failed.
Whole(f) == Len(f) = 0 \/ f[Len(f)].type = "sync"
InHand(f, off, took, ends, writer) ==
  /\ Whole(f) /\ Len(took) = off[Len(f)] + Len(writer.bufferObjects)
  /\ \A j \in 1..Len(writer.bufferObjects) : writer.bufferObjects[j] = took[off[Len(f)] + j]
  /\ IF writer.headerWritten THEN Len(f) # 0
     ELSE writer.bufferObjects = <<>> /\ (Len(f) # 0 => EndAt(f, 1))
  /\ ends # {} => \E j \in 1..Len(f) : EndAt(f, j)

\* The last success has covered the objects up to a token that ends a block.
Vouches(off, v) ==
  /\ v \in 0..Len(file) /\ (v = 0 \/ file[v].type = "sync") /\ vouched <= off[v]
  /\ ~ocfWriter.over => v <= sent

ReadTo(off) ==
  /\ ocfReader.pos \in 4..(Len(file) + 1) /\ file[ocfReader.pos - 1].type = "sync"
  /\ Len(ocfReader.got) = off[ocfReader.pos - 1]
  /\ \A j \in 1..(ocfReader.pos - 1) : ~EndAt(file, j)

Known(off) ==
  /\ Shape(file, off, taken, endsAt)
  /\ \E v \in 0..Len(file) : Vouches(off, v)
  /\ (~ocfWriter.over /\ ~ocfWriter.broken) => InHand(file, off, taken, endsAt, ocfWriter)
  /\ ocfReader.at = "blocks" => ReadTo(off)

ReaderOK ==
  /\ ocfReader.at # "new" => ocfWriter.over
  /\ ocfReader.at \in {"new", "stuck"} => ocfReader.got = <<>>
  /\ Len(ocfReader.got) <= Len(taken)
  /\ \A j \in 1..Len(ocfReader.got) : ocfReader.got[j] = taken[j]
  /\ FlushedIsRead /\ FlushedIsAccepted

ContainerInv ==
  /\ ContainerTypes /\ ReaderOK /\ sent <= Len(file)
  /\ \E off \in [0..Len(file) -> Nat] : Known(off)

-----------------------------------------------------------------------------
(* What becomes of a file's shape.                                         *)

LEMMA CutKeepsShape ==
  ASSUME NEW f, NEW off, NEW took, NEW ends, Shape(f, off, took, ends), NEW m \in 0..Len(f)
  PROVE  /\ Shape(SubSeq(f, 1, m), [i \in 0..m |-> off[i]], took, ends)
         /\ Len(SubSeq(f, 1, m)) = m /\ \A i \in 1..m : SubSeq(f, 1, m)[i] = f[i]
<1> DEFINE g == SubSeq(f, 1, m)
           to == [i \in 0..m |-> off[i]]
<1>1. f \in Seq(Tokens) /\ Len(f) \in Nat /\ m \in Nat /\ m <= Len(f)
  BY DEF Shape
<1>2. g \in Seq(Tokens) /\ Len(g) = m /\ \A i \in 1..m : g[i] = f[i]
  BY <1>1
<1>3. \A i \in 0..m : to[i] = off[i]
  OBVIOUS
<1>4. off \in [0..Len(f) -> Nat] /\ off[0] = 0 /\ 0..m \subseteq 0..Len(f)
  BY <1>1 DEF Shape, Rising
<1>5. to \in [0..m -> Nat] /\ to[0] = 0
  BY <1>1, <1>4
<1> HIDE DEF g, to
<1>6. Rising(g, to, took)
  <2>1. \A i \in 0..m : to[i] <= Len(took)
    BY <1>3, <1>4 DEF Shape, Rising
  <2>2. \A i \in 0..m : \A j \in i..m : to[i] <= to[j]
    <3>1. \A i \in 0..m : \A j \in i..m : j \in 0..m /\ j \in i..Len(f) /\ i \in 0..Len(f)
      BY <1>1
    <3>2. \A i \in 0..Len(f) : \A j \in i..Len(f) : off[i] <= off[j]
      BY DEF Shape, Rising
    <3> QED BY <1>3, <3>1, <3>2
  <2> QED BY <1>2, <1>5, <2>1, <2>2 DEF Rising
<1>7. ASSUME NEW i \in 1..m PROVE Holding(g, to, took, i)
  <2>1. i \in 1..Len(f) /\ i \in 0..m /\ i - 1 \in 0..m
    BY <1>1
  <2>2. Holding(f, off, took, i)
    BY <2>1 DEF Shape
  <2>3. g[i] = f[i] /\ to[i] = off[i] /\ to[i - 1] = off[i - 1]
    BY <1>2, <1>3, <2>1
  <2> QED BY <2>2, <2>3 DEF Holding
<1>8. \A i \in 1..m : EndAt(g, i) <=> EndAt(f, i)
  BY <1>1, <1>2 DEF EndAt
<1>9. ASSUME NEW i \in 1..m, Starts(g, i) PROVE UnitAt(g, to, ends, i)
  <2>1. i \in 1..Len(f) /\ i - 1 \in 0..m /\ g[i] = f[i] /\ 1 \in 1..m
        /\ (i # 1 => i - 1 \in 1..m) /\ \A j \in 1..(i - 1) : j \in 1..m
    BY <1>1, <1>2
  <2>2. Starts(f, i)
    BY <1>2, <1>9, <2>1 DEF Starts
  <2>3. \A k \in {1, 2, 3} : i + k <= m => g[i + k] = f[i + k] /\ i + k <= Len(f)
    BY <1>1, <1>2
  <2>4. CASE HeaderAt(f, i)
    BY <1>2, <1>8, <2>1, <2>3, <2>4 DEF HeaderAt, UnitAt
  <2>5. CASE ClosedAt(f, off, ends, i)
    <3>1. EndAt(g, i) /\ (i + 1 <= m => g[i + 1].type = "sync")
      BY <1>8, <2>3, <2>5 DEF ClosedAt
    <3>2. (\A j \in 1..(i - 1) : ~EndAt(g, j)) => (\A j \in 1..(i - 1) : ~EndAt(f, j))
      BY <1>8, <2>1
    <3>3. to[i - 1] = off[i - 1]
      BY <1>3, <2>1
    <3> QED BY <1>2, <2>5, <3>1, <3>2, <3>3 DEF ClosedAt, UnitAt
  <2>6. CASE FilledAt(f, i)
    BY <1>2, <2>1, <2>3, <2>6 DEF FilledAt, UnitAt
  <2> QED BY <2>1, <2>2, <2>4, <2>5, <2>6 DEF Shape, UnitAt
<1>10. Shape(g, to, took, ends)
  BY <1>2, <1>6, <1>7, <1>9 DEF Shape
<1> QED BY <1>2, <1>10 DEF g, to

\* More objects are taken.
LEMMA TakingKeepsShape ==
  ASSUME NEW f, NEW off, NEW took \in Seq(Objects), NEW more \in Seq(Objects), NEW ends, Shape(f, off, took, ends)
  PROVE  Shape(f, off, took \o more, ends)
<1>1. /\ Len(took) \in Nat /\ Len(more) \in Nat /\ Len(took \o more) = Len(took) + Len(more)
      /\ \A i \in 1..Len(took) : (took \o more)[i] = took[i]
  OBVIOUS
<1>2. f \in Seq(Tokens) /\ Rising(f, off, took) /\ Len(f) \in Nat
  BY DEF Shape
<1>3. Rising(f, off, took \o more)
  <2>1. \A i \in 0..Len(f) : off[i] \in Nat /\ off[i] <= Len(took)
    BY <1>2 DEF Rising
  <2>2. \A i \in 0..Len(f) : off[i] <= Len(took \o more)
    BY <1>1, <2>1
  <2> QED BY <1>2, <2>2 DEF Rising
<1>4. ASSUME NEW i \in 1..Len(f) PROVE Holding(f, off, took \o more, i)
  <2>1. Holding(f, off, took, i) /\ i \in 0..Len(f) /\ i - 1 \in 0..Len(f)
    BY <1>2 DEF Shape
  <2>2. CASE f[i].type = "data"
    <3>1. f[i] \in Tokens
      BY <1>2
    <3>2. f[i].objects \in Seq(Objects)
      BY <3>1 DEF Tokens
    <3>3. Len(f[i].objects) \in Nat
      BY <3>2
    <3>4. \A k \in 0..Len(f) : off[k] \in Nat /\ off[k] <= Len(took)
      BY <1>2 DEF Rising
    <3>5. off[i - 1] \in Nat /\ off[i] \in Nat /\ off[i] <= Len(took) /\ Len(f[i].objects) \in Nat
      BY <2>1, <3>3, <3>4
    <3>6. off[i] = off[i - 1] + Len(f[i].objects)
      BY <2>1, <2>2 DEF Holding
    <3>7. \A j \in 1..Len(f[i].objects) : off[i - 1] + j \in 1..Len(took)
      BY <1>1, <3>5, <3>6, SMTT(30)
    <3>8. \A j \in 1..Len(f[i].objects) : f[i].objects[j] = (took \o more)[off[i - 1] + j]
      BY <1>1, <2>1, <2>2, <3>7 DEF Holding
    <3> QED BY <2>2, <3>6, <3>8 DEF Holding
  <2>3. CASE f[i].type # "data"
    BY <2>1, <2>3 DEF Holding
  <2> QED BY <2>2, <2>3
<1> QED BY <1>2, <1>3, <1>4 DEF Shape

\* The first call of Close is noted before there is an end in the file.
LEMMA ClosingKeepsShape ==
  ASSUME NEW f, NEW off, NEW took, NEW n, Shape(f, off, took, {})
  PROVE  Shape(f, off, took, {n})
<1>1. ASSUME NEW i \in 1..Len(f), Starts(f, i) PROVE UnitAt(f, off, {n}, i)
  <2>1. UnitAt(f, off, {}, i)
    BY <1>1 DEF Shape
  <2> QED BY <2>1 DEF UnitAt, ClosedAt
<1> QED BY <1>1 DEF Shape

(* What is written behind a whole file.                                    *)
LEMMA OldUnitsStay ==
  ASSUME NEW f \in Seq(Tokens), NEW g \in Seq(Tokens), NEW off, NEW to, NEW ends, Whole(f),
         \A i \in 0..Len(f) : to[i] = off[i],
         NEW i \in 1..Len(f), Starts(f, i), UnitAt(f, off, ends, i)
  PROVE  UnitAt(f \o g, to, ends, i)
<1> DEFINE h == f \o g
<1>1. /\ Len(f) \in Nat /\ Len(g) \in Nat /\ Len(h) = Len(f) + Len(g)
      /\ \A k \in 1..Len(f) : h[k] = f[k]
  OBVIOUS
<1> HIDE DEF h
<1>2. f[Len(f)].type = "sync" /\ Len(f) >= 1 /\ 1 \in 1..Len(f) /\ Len(f) \in 1..Len(f) /\ i - 1 \in 0..Len(f)
  BY <1>1 DEF Whole
<1>3. \A k \in 1..Len(f) : EndAt(h, k) <=> EndAt(f, k)
  BY <1>1 DEF EndAt
<1>4. h[i] = f[i] /\ (i # Len(f) => i + 1 \in 1..Len(f) /\ h[i + 1] = f[i + 1] /\ i + 1 <= Len(f))
  BY <1>1
<1>5. i # Len(f) /\ i + 1 # Len(f) => i + 2 \in 1..Len(f) /\ h[i + 2] = f[i + 2] /\ i + 2 <= Len(f)
  BY <1>1
<1>6. i # Len(f) /\ i + 1 # Len(f) /\ i + 2 # Len(f) => i + 3 \in 1..Len(f) /\ h[i + 3] = f[i + 3] /\ i + 3 <= Len(f)
  BY <1>1
<1>7. CASE HeaderAt(f, i)
  <2>1. i # Len(f) /\ f[i].type = "magic"
    BY <1>2, <1>7 DEF HeaderAt
  <2>2. f[i + 1].type = "meta" /\ i + 1 # Len(f)
    BY <1>2, <1>4, <1>7, <2>1 DEF HeaderAt
  <2>3. f[i + 2].type = "sync"
    BY <1>5, <1>7, <2>1, <2>2 DEF HeaderAt
  <2>4. i = 1 \/ EndAt(h, 1)
    BY <1>2, <1>3, <1>7 DEF HeaderAt
  <2> QED BY <1>4, <1>5, <2>1, <2>2, <2>3, <2>4 DEF HeaderAt, UnitAt, h
<1>8. CASE ClosedAt(f, off, ends, i)
  <2>1. EndAt(h, i) /\ i # Len(f)
    BY <1>2, <1>3, <1>8 DEF ClosedAt, EndAt
  <2>2. f[i + 1].type = "sync"
    BY <1>4, <1>8, <2>1 DEF ClosedAt
  <2>3. \A j \in 1..(i - 1) : j \in 1..Len(f)
    BY <1>1
  <2>4. (\A j \in 1..(i - 1) : ~EndAt(h, j)) => ends = {to[i - 1]}
    BY <1>2, <1>3, <1>8, <2>3 DEF ClosedAt
  <2> QED BY <1>4, <2>1, <2>2, <2>4 DEF ClosedAt, UnitAt, h
<1>9. CASE FilledAt(f, i)
  <2>1. i # Len(f) /\ f[i].type = "count"
    BY <1>2, <1>9 DEF FilledAt
  <2>2. f[i + 1].type = "size" /\ i + 1 # Len(f)
    BY <1>2, <1>4, <1>9, <2>1 DEF FilledAt
  <2>3. f[i + 2].type = "data" /\ i + 2 # Len(f)
    BY <1>2, <1>5, <1>9, <2>1, <2>2 DEF FilledAt
  <2>4. f[i + 3].type = "sync"
    BY <1>6, <1>9, <2>1, <2>2, <2>3 DEF FilledAt
  <2> QED BY <1>4, <1>5, <1>6, <1>9, <2>1, <2>2, <2>3, <2>4 DEF FilledAt, UnitAt, h
<1> QED BY <1>7, <1>8, <1>9 DEF UnitAt

\* The objects behind L tokens and k more, of which the last ones, from s on, hold c.
Extended(off, L, k, s, c) == [i \in 0..(L + k) |-> IF i <= L THEN off[i] ELSE IF i < L + s THEN off[L] ELSE off[L] + c]

LEMMA ExtendedRises ==
  ASSUME NEW L \in Nat, NEW k \in Nat, NEW s \in Nat, NEW c \in Nat, NEW T \in Nat, NEW off \in [0..L -> Nat],
         \A i \in 0..L : off[i] <= T, \A i \in 0..L : \A j \in i..L : off[i] <= off[j],
         off[L] + c <= T
  PROVE  /\ Extended(off, L, k, s, c) \in [0..(L + k) -> Nat]
         /\ \A i \in 0..L : Extended(off, L, k, s, c)[i] = off[i]
         /\ \A i \in 0..(L + k) : Extended(off, L, k, s, c)[i] <= T
         /\ \A i \in 0..(L + k) : \A j \in i..(L + k) : Extended(off, L, k, s, c)[i] <= Extended(off, L, k, s, c)[j]
<1> DEFINE to == Extended(off, L, k, s, c)
<1>1. L \in 0..L /\ off[L] \in Nat
  OBVIOUS
<1>2. to = [i \in 0..(L + k) |-> IF i <= L THEN off[i] ELSE IF i < L + s THEN off[L] ELSE off[L] + c]
  BY DEF Extended
<1>3. \A i \in 0..(L + k) : i > L => i \in Nat /\ i \notin 0..L
  OBVIOUS
<1>4. ASSUME NEW i \in 0..(L + k)
      PROVE  /\ i <= L => to[i] = off[i] /\ i \in 0..L
             /\ i > L /\ i < L + s => to[i] = off[L]
             /\ i > L /\ i >= L + s => to[i] = off[L] + c
  BY <1>2
<1> HIDE DEF to
<1>5. to \in [0..(L + k) -> Nat]
  <2>1. \A i \in 0..(L + k) : (IF i <= L THEN off[i] ELSE IF i < L + s THEN off[L] ELSE off[L] + c) \in Nat
    BY <1>1
  <2> QED BY <1>2, <2>1
<1>6. \A i \in 0..L : to[i] = off[i]
  BY <1>4
<1>7. \A i \in 0..(L + k) : to[i] <= T
  BY <1>1, <1>4
<1>8. ASSUME NEW i \in 0..(L + k), NEW j \in i..(L + k) PROVE to[i] <= to[j]
  <2>1. j \in 0..(L + k) /\ i \in Nat /\ j \in Nat /\ i <= j
    OBVIOUS
  <2>2. CASE j <= L
    BY <1>4, <2>1, <2>2
  <2>3. CASE j > L /\ i <= L
    <3>1. to[i] = off[i] /\ off[i] <= off[L] /\ off[i] \in Nat
      BY <1>1, <1>4, <2>1, <2>3
    <3> QED BY <1>1, <1>4, <2>1, <2>3, <3>1
  <2>4. CASE i > L
    BY <1>1, <1>4, <2>1, <2>4
  <2> QED BY <2>1, <2>2, <2>3, <2>4
<1> QED BY <1>5, <1>6, <1>7, <1>8 DEF to

\* The file with g behind it has its shape, and c objects more.
Behind(f, off, took, ends, g, c) ==
  \E to \in [0..Len(f \o g) -> Nat] :
     /\ Shape(f \o g, to, took, ends) /\ Whole(f \o g)
     /\ to[Len(f \o g)] = off[Len(f)] + c
     /\ \A i \in 0..Len(f) : to[i] = off[i]

LEMMA UnitBehind ==
  ASSUME NEW f, NEW off, NEW took \in Seq(Objects), NEW ends, Shape(f, off, took, ends), Whole(f),
         NEW g \in Seq(Tokens), Len(g) # 0, g[Len(g)].type = "sync",
         NEW s \in Nat, NEW c \in Nat, s <= Len(g), off[Len(f)] + c <= Len(took),
         \A i \in 1..Len(g) : i # Len(g) => g[i].type # "sync",
         \A i \in 1..Len(g) : Holding(f \o g, Extended(off, Len(f), Len(g), s, c), took, Len(f) + i),
         UnitAt(f \o g, Extended(off, Len(f), Len(g), s, c), ends, Len(f) + 1)
  PROVE  Behind(f, off, took, ends, g, c)
<1> DEFINE h == f \o g
           to == Extended(off, Len(f), Len(g), s, c)
<1>1. f \in Seq(Tokens) /\ Rising(f, off, took)
  BY DEF Shape
<1>2. h \in Seq(Tokens)
  BY <1>1
<1>3. /\ Len(f) \in Nat /\ Len(g) \in Nat /\ Len(h) = Len(f) + Len(g)
      /\ \A k \in 1..Len(f) : h[k] = f[k]
      /\ \A k \in 1..Len(g) : h[Len(f) + k] = g[k]
  BY <1>1
<1>4. Len(took) \in Nat
  OBVIOUS
<1>5. /\ to \in [0..Len(h) -> Nat] /\ \A i \in 0..Len(f) : to[i] = off[i]
      /\ \A i \in 0..Len(h) : to[i] <= Len(took)
      /\ \A i \in 0..Len(h) : \A j \in i..Len(h) : to[i] <= to[j]
  <2>1. off \in [0..Len(f) -> Nat] /\ (\A i \in 0..Len(f) : off[i] <= Len(took))
        /\ \A i \in 0..Len(f) : \A j \in i..Len(f) : off[i] <= off[j]
    BY <1>1 DEF Rising
  <2>2. /\ Extended(off, Len(f), Len(g), s, c) \in [0..(Len(f) + Len(g)) -> Nat]
        /\ \A i \in 0..Len(f) : Extended(off, Len(f), Len(g), s, c)[i] = off[i]
        /\ \A i \in 0..(Len(f) + Len(g)) : Extended(off, Len(f), Len(g), s, c)[i] <= Len(took)
        /\ \A i \in 0..(Len(f) + Len(g)) : \A j \in i..(Len(f) + Len(g)) :
              Extended(off, Len(f), Len(g), s, c)[i] <= Extended(off, Len(f), Len(g), s, c)[j]
    <3> HIDE DEF h, to
    <3> QED BY <1>3, <1>4, <2>1, ExtendedRises
  <2>3. Len(h) = Len(f) + Len(g)
    BY <1>3
  <2> HIDE DEF h
  <2> QED BY <2>2, <2>3
<1>6. to[Len(h)] = off[Len(f)] + c
  <2>1. Len(f) + Len(g) \in 0..(Len(f) + Len(g)) /\ ~(Len(f) + Len(g) <= Len(f)) /\ ~(Len(f) + Len(g) < Len(f) + s)
    BY <1>3
  <2> QED BY <1>3, <2>1 DEF Extended
<1>7. \A i \in 1..Len(g) : Holding(h, to, took, Len(f) + i)
  OBVIOUS
<1>8. UnitAt(h, to, ends, Len(f) + 1)
  OBVIOUS
<1> HIDE DEF h, to
<1>9. Rising(h, to, took)
  <2>1. off[0] = 0 /\ 0 \in 0..Len(f)
    BY <1>1, <1>3 DEF Rising
  <2> QED BY <1>5, <2>1 DEF Rising
<1>10. ASSUME NEW i \in 1..Len(h) PROVE Holding(h, to, took, i)
  <2>1. CASE i <= Len(f)
    <3>1. i \in 1..Len(f) /\ i \in 0..Len(f) /\ i - 1 \in 0..Len(f)
      BY <1>3, <2>1
    <3>2. Holding(f, off, took, i)
      BY <3>1 DEF Shape
    <3>3. h[i] = f[i] /\ to[i] = off[i] /\ to[i - 1] = off[i - 1]
      BY <1>3, <1>5, <3>1
    <3> QED BY <3>2, <3>3 DEF Holding
  <2>2. CASE i > Len(f)
    <3>1. i - Len(f) \in 1..Len(g) /\ Len(f) + (i - Len(f)) = i
      BY <1>3, <2>2
    <3> QED BY <1>7, <3>1
  <2> QED BY <1>3, <2>1, <2>2
<1>11. ASSUME NEW i \in 1..Len(h), Starts(h, i) PROVE UnitAt(h, to, ends, i)
  <2>1. CASE i <= Len(f)
    <3>1. i \in 1..Len(f) /\ (i # 1 => i - 1 \in 1..Len(f))
      BY <1>3, <2>1
    <3>2. Starts(f, i)
      BY <1>3, <1>11, <3>1 DEF Starts
    <3>3. UnitAt(f, off, ends, i)
      BY <3>1, <3>2 DEF Shape
    <3> QED BY <1>1, <1>5, <3>1, <3>2, <3>3, OldUnitsStay DEF h
  <2>2. CASE i = Len(f) + 1
    BY <1>8, <2>2
  <2>3. CASE i > Len(f) + 1
    <3>1. i - 1 - Len(f) \in 1..Len(g) /\ i - 1 - Len(f) # Len(g) /\ Len(f) + (i - 1 - Len(f)) = i - 1 /\ i # 1
      BY <1>3, <2>3
    <3>2. h[i - 1] = g[i - 1 - Len(f)]
      BY <1>3, <3>1
    <3>3. h[i - 1].type # "sync"
      BY <3>1, <3>2
    <3> QED BY <1>11, <3>1, <3>3 DEF Starts
  <2>4. i \in Int /\ Len(f) \in Int
    BY <1>3
  <2>5. i <= Len(f) \/ i = Len(f) + 1 \/ i > Len(f) + 1
    <3> DEFINE l == Len(f)
    <3>1. l \in Int
      BY <2>4
    <3> HIDE DEF l
    <3>2. i <= l \/ i = l + 1 \/ i > l + 1
      BY <2>4, <3>1
    <3> QED BY <3>2 DEF l
  <2> QED BY <2>1, <2>2, <2>3, <2>5
<1>12. Shape(h, to, took, ends)
  BY <1>2, <1>9, <1>10, <1>11 DEF Shape
<1>13. Whole(h)
  <2>1. Len(g) \in 1..Len(g)
    BY <1>3
  <2> QED BY <1>3, <2>1 DEF Whole
<1> QED BY <1>5, <1>6, <1>12, <1>13 DEF Behind, h

\* What h and to are when g is behind f.
Appended(f, off, g, s, c, h, to) ==
  /\ Len(h) = Len(f) + Len(g)
  /\ \A k \in 1..Len(f) : h[k] = f[k]
  /\ \A k \in 1..Len(g) : h[Len(f) + k] = g[k]
  /\ to[Len(f)] = off[Len(f)]
  /\ \A i \in 1..Len(g) : to[Len(f) + i] = IF i < s THEN off[Len(f)] ELSE off[Len(f)] + c

LEMMA TailIsBehind ==
  ASSUME NEW f \in Seq(Tokens), NEW g \in Seq(Tokens), NEW off \in [0..Len(f) -> Nat], NEW s \in Nat, NEW c \in Nat
  PROVE  Appended(f, off, g, s, c, f \o g, Extended(off, Len(f), Len(g), s, c))
<1>1. /\ Len(f) \in Nat /\ Len(g) \in Nat /\ Len(f \o g) = Len(f) + Len(g)
      /\ \A k \in 1..Len(f) : (f \o g)[k] = f[k]
      /\ \A k \in 1..Len(g) : (f \o g)[Len(f) + k] = g[k]
  OBVIOUS
<1>2. ASSUME NEW L \in Nat, NEW k \in Nat, NEW x \in [0..L -> Nat]
      PROVE  /\ Extended(x, L, k, s, c)[L] = x[L]
             /\ \A i \in 1..k : Extended(x, L, k, s, c)[L + i] = IF i < s THEN x[L] ELSE x[L] + c
  <2> DEFINE to == Extended(x, L, k, s, c)
  <2>1. to = [i \in 0..(L + k) |-> IF i <= L THEN x[i] ELSE IF i < L + s THEN x[L] ELSE x[L] + c]
    BY DEF Extended
  <2>2. \A i \in 1..k : L + i \in 0..(L + k) /\ ~(L + i <= L) /\ (L + i < L + s <=> i < s)
    OBVIOUS
  <2>3. L \in 0..(L + k) /\ L <= L
    OBVIOUS
  <2> HIDE DEF to
  <2> QED BY <2>1, <2>2, <2>3 DEF to
<1>3. /\ Extended(off, Len(f), Len(g), s, c)[Len(f)] = off[Len(f)]
      /\ \A i \in 1..Len(g) : Extended(off, Len(f), Len(g), s, c)[Len(f) + i] = IF i < s THEN off[Len(f)] ELSE off[Len(f)] + c
  BY <1>1, <1>2
<1> QED BY <1>1, <1>3 DEF Appended

LEMMA TailBehind ==
  ASSUME NEW f, NEW off, NEW took \in Seq(Objects), NEW ends, Shape(f, off, took, ends), Whole(f),
         NEW g \in Seq(Tokens), Len(g) # 0, g[Len(g)].type = "sync",
         NEW s \in Nat, NEW c \in Nat, s <= Len(g), off[Len(f)] + c <= Len(took),
         \A i \in 1..Len(g) : i # Len(g) => g[i].type # "sync",
         ASSUME NEW h, NEW to, Appended(f, off, g, s, c, h, to)
         PROVE  (\A i \in 1..Len(g) : Holding(h, to, took, Len(f) + i)) /\ UnitAt(h, to, ends, Len(f) + 1)
  PROVE  Behind(f, off, took, ends, g, c)
<1>1. f \in Seq(Tokens) /\ off \in [0..Len(f) -> Nat]
  BY DEF Shape, Rising
<1>2. Appended(f, off, g, s, c, f \o g, Extended(off, Len(f), Len(g), s, c))
  BY <1>1, TailIsBehind
<1>3. /\ \A i \in 1..Len(g) : Holding(f \o g, Extended(off, Len(f), Len(g), s, c), took, Len(f) + i)
      /\ UnitAt(f \o g, Extended(off, Len(f), Len(g), s, c), ends, Len(f) + 1)
  BY <1>2
<1> QED BY <1>3, UnitBehind

HeaderTokens == <<Token("magic", 0, <<>>), Token("meta", 0, <<>>), SyncMarker>>

LEMMA PlainTokens ==
  /\ Token("magic", 0, <<>>) \in Tokens /\ Token("meta", 0, <<>>) \in Tokens /\ SyncMarker \in Tokens
  /\ \A n \in Nat : Token("count", n, <<>>) \in Tokens
<1>1. Nat \subseteq Sizes /\ 0 \in Nat /\ <<>> \in Seq(Objects)
  BY DEF Sizes
<1> QED BY <1>1 DEF Token, Tokens, SyncMarker

LEMMA HeaderBehind ==
  ASSUME NEW f, NEW off, NEW took \in Seq(Objects), NEW ends, Shape(f, off, took, ends), Whole(f),
         Len(f) # 0 => EndAt(f, 1)
  PROVE  /\ Behind(f, off, took, ends, HeaderTokens, 0)
         /\ HeaderTokens \in Seq(Tokens) /\ Len(HeaderTokens) = 3 /\ HeaderTokens[1].type = "magic"
<1>1. PICK g : g = HeaderTokens
  OBVIOUS
<1>2. Len(f) \in Nat /\ Len(f) \in 0..Len(f) /\ off[Len(f)] \in Nat /\ off[Len(f)] <= Len(took)
  BY DEF Shape, Rising
<1>3. g \in Seq(Tokens) /\ Len(g) = 3
  BY <1>1, PlainTokens DEF HeaderTokens
<1>4. g[1].type = "magic" /\ g[2].type = "meta" /\ g[3].type = "sync"
  BY <1>1 DEF HeaderTokens, Token, SyncMarker
<1>5. ASSUME NEW h, NEW to, Appended(f, off, g, 0, 0, h, to)
      PROVE  (\A i \in 1..Len(g) : Holding(h, to, took, Len(f) + i)) /\ UnitAt(h, to, ends, Len(f) + 1)
  <2>1. Len(h) = Len(f) + 3 /\ h[Len(f) + 1] = g[1] /\ h[Len(f) + 2] = g[2] /\ h[Len(f) + 3] = g[3]
    BY <1>3, <1>5 DEF Appended
  <2>2. to[Len(f)] = off[Len(f)] /\ to[Len(f) + 1] = off[Len(f)] /\ to[Len(f) + 2] = off[Len(f)] /\ to[Len(f) + 3] = off[Len(f)]
    BY <1>2, <1>3, <1>5 DEF Appended
  <2>3. Len(f) + 1 - 1 = Len(f) /\ Len(f) + 2 - 1 = Len(f) + 1 /\ Len(f) + 3 - 1 = Len(f) + 2
    BY <1>2
  <2>4. Holding(h, to, took, Len(f) + 1) /\ Holding(h, to, took, Len(f) + 2) /\ Holding(h, to, took, Len(f) + 3)
    BY <1>4, <2>1, <2>2, <2>3 DEF Holding
  <2>5. \A i \in 1..Len(g) : Holding(h, to, took, Len(f) + i)
    BY <1>3, <2>4
  <2>6. Len(f) # 0 => EndAt(h, 1)
    BY <1>2, <1>3, <1>5 DEF Appended, EndAt
  <2>7. Len(f) + 1 + 1 = Len(f) + 2 /\ Len(f) + 1 + 2 = Len(f) + 3 /\ (Len(f) = 0 => Len(f) + 1 = 1)
    BY <1>2
  <2>8. HeaderAt(h, Len(f) + 1)
    BY <1>4, <2>1, <2>6, <2>7 DEF HeaderAt
  <2> QED BY <2>5, <2>8 DEF UnitAt
<1>6. off[Len(f)] + 0 <= Len(took) /\ 0 \in Nat /\ 0 <= Len(g) /\ Len(g) # 0 /\ g[Len(g)].type = "sync"
       /\ \A i \in 1..Len(g) : i # Len(g) => g[i].type # "sync"
  BY <1>2, <1>3, <1>4
<1>7. Behind(f, off, took, ends, g, 0)
  BY <1>3, <1>5, <1>6, TailBehind
<1> QED BY <1>1, <1>3, <1>4, <1>7

LEMMA EndBehind ==
  ASSUME NEW f, NEW off, NEW took \in Seq(Objects), NEW ends, Shape(f, off, took, ends), Whole(f),
         (\A j \in 1..Len(f) : ~EndAt(f, j)) => ends = {off[Len(f)]}
  PROVE  /\ Behind(f, off, took, ends, End, 0)
         /\ End \in Seq(Tokens) /\ Len(End) = 2 /\ EndAt(f \o End, Len(f) + 1)
<1>1. PICK g : g = End
  OBVIOUS
<1>2. Len(f) \in Nat /\ Len(f) \in 0..Len(f) /\ off[Len(f)] \in Nat /\ off[Len(f)] <= Len(took) /\ f \in Seq(Tokens)
      /\ off \in [0..Len(f) -> Nat]
  BY DEF Shape, Rising
<1>3. g \in Seq(Tokens) /\ Len(g) = 2
  BY <1>1, PlainTokens DEF End
<1>4. g[1].type = "count" /\ g[1].n = 0 /\ g[2].type = "sync"
  BY <1>1 DEF End, Token, SyncMarker
<1>5. ASSUME NEW h, NEW to, Appended(f, off, g, 0, 0, h, to)
      PROVE  /\ \A i \in 1..Len(g) : Holding(h, to, took, Len(f) + i)
             /\ UnitAt(h, to, ends, Len(f) + 1) /\ EndAt(h, Len(f) + 1)
  <2>1. Len(h) = Len(f) + 2 /\ h[Len(f) + 1] = g[1] /\ h[Len(f) + 2] = g[2]
    BY <1>3, <1>5 DEF Appended
  <2>2. to[Len(f)] = off[Len(f)] /\ to[Len(f) + 1] = off[Len(f)] /\ to[Len(f) + 2] = off[Len(f)]
    BY <1>2, <1>3, <1>5 DEF Appended
  <2>3. Len(f) + 1 - 1 = Len(f) /\ Len(f) + 2 - 1 = Len(f) + 1 /\ Len(f) + 1 + 1 = Len(f) + 2
        /\ Len(f) + 1 \in 1..(Len(f) + 2)
    BY <1>2
  <2>4. Holding(h, to, took, Len(f) + 1) /\ Holding(h, to, took, Len(f) + 2)
    BY <1>4, <2>1, <2>2, <2>3 DEF Holding
  <2>5. \A i \in 1..Len(g) : Holding(h, to, took, Len(f) + i)
    BY <1>3, <2>4
  <2>6. EndAt(h, Len(f) + 1)
    BY <1>4, <2>1, <2>3 DEF EndAt
  <2>7. \A j \in 1..Len(f) : j \in 1..Len(h) /\ h[j] = f[j]
    BY <1>2, <1>5, <2>1 DEF Appended
  <2>8. \A j \in 1..Len(f) : EndAt(h, j) <=> EndAt(f, j)
    BY <2>7 DEF EndAt
  <2>9. ClosedAt(h, to, ends, Len(f) + 1)
    BY <1>4, <2>1, <2>2, <2>3, <2>6, <2>8 DEF ClosedAt
  <2> QED BY <2>5, <2>6, <2>9 DEF UnitAt
<1>6. off[Len(f)] + 0 <= Len(took) /\ 0 \in Nat /\ 0 <= Len(g) /\ Len(g) # 0 /\ g[Len(g)].type = "sync"
       /\ \A i \in 1..Len(g) : i # Len(g) => g[i].type # "sync"
  BY <1>2, <1>3, <1>4
<1>7. Behind(f, off, took, ends, g, 0)
  BY <1>3, <1>5, <1>6, TailBehind
<1>8. EndAt(f \o g, Len(f) + 1)
  BY <1>2, <1>3, <1>5, TailIsBehind
<1> QED BY <1>1, <1>3, <1>7, <1>8

LEMMA BlockTokens ==
  ASSUME NEW codec \in Codecs \cup {Nothing}, NEW objects \in Seq(Objects)
  PROVE  /\ Block(codec, objects) \in Seq(Tokens) /\ Len(Block(codec, objects)) = 4
         /\ Block(codec, objects)[1].type = "count" /\ Block(codec, objects)[1].n = Len(objects)
         /\ Block(codec, objects)[2].type = "size"
         /\ Block(codec, objects)[3].type = "data" /\ Block(codec, objects)[3].objects = objects
         /\ Block(codec, objects)[4].type = "sync"
<1>1. PICK size \in Sizes : size = CompressedSize(codec, objects)
  <2>1. \E cc \in Codecs \cup {Nothing}, oo \in Seq(Objects) : CompressedSize(codec, objects) = CompressedSize(cc, oo)
    OBVIOUS
  <2>2. CompressedSize(codec, objects) \in Sizes
    BY <2>1 DEF Sizes
  <2> QED BY <2>2
<1>2. <<>> \in Seq(Objects) /\ Len(objects) \in Nat
  OBVIOUS
<1>3. 0 \in Sizes
  BY DEF Sizes
<1>4. Token("size", size, <<>>) \in Tokens /\ Token("data", 0, objects) \in Tokens
  BY <1>2, <1>3 DEF Token, Tokens
<1>5. Token("count", Len(objects), <<>>) \in Tokens /\ SyncMarker \in Tokens
  BY <1>2, PlainTokens
<1>6. Block(codec, objects) = << Token("count", Len(objects), <<>>), Token("size", size, <<>>),
                                 Token("data", 0, objects), SyncMarker >>
  BY <1>1 DEF Block
<1>7. Block(codec, objects) \in Seq(Tokens) /\ Len(Block(codec, objects)) = 4
  BY <1>4, <1>5, <1>6
<1> QED BY <1>6, <1>7 DEF Token, SyncMarker

LEMMA BlockBehind ==
  ASSUME NEW f, NEW off, NEW took \in Seq(Objects), NEW ends, Shape(f, off, took, ends), Whole(f),
         NEW codec \in Codecs \cup {Nothing}, NEW objects \in Seq(Objects), objects # <<>>, Len(f) # 0,
         off[Len(f)] + Len(objects) <= Len(took),
         \A j \in 1..Len(objects) : objects[j] = took[off[Len(f)] + j]
  PROVE  Behind(f, off, took, ends, Block(codec, objects), Len(objects))
<1>1. PICK g : g = Block(codec, objects)
  OBVIOUS
<1>2. Len(f) \in Nat /\ Len(f) \in 0..Len(f) /\ off[Len(f)] \in Nat
  BY DEF Shape, Rising
<1>3. g \in Seq(Tokens) /\ Len(g) = 4 /\ g[1].type = "count" /\ g[1].n = Len(objects) /\ g[2].type = "size"
      /\ g[3].type = "data" /\ g[3].objects = objects /\ g[4].type = "sync"
  BY <1>1, BlockTokens
<1>4. PICK c \in Nat : c = Len(objects) /\ c # 0
  OBVIOUS
<1>5. ASSUME NEW h, NEW to, Appended(f, off, g, 3, c, h, to)
      PROVE  /\ \A i \in 1..Len(g) : Holding(h, to, took, Len(f) + i)
             /\ UnitAt(h, to, ends, Len(f) + 1)
  <2>1. Len(h) = Len(f) + 4 /\ h[Len(f) + 1] = g[1] /\ h[Len(f) + 2] = g[2] /\ h[Len(f) + 3] = g[3] /\ h[Len(f) + 4] = g[4]
    BY <1>3, <1>5 DEF Appended
  <2>2. to[Len(f)] = off[Len(f)] /\ to[Len(f) + 1] = off[Len(f)] /\ to[Len(f) + 2] = off[Len(f)]
        /\ to[Len(f) + 3] = off[Len(f)] + c /\ to[Len(f) + 4] = off[Len(f)] + c
    BY <1>2, <1>3, <1>5 DEF Appended
  <2>3. Len(f) + 1 - 1 = Len(f) /\ Len(f) + 2 - 1 = Len(f) + 1 /\ Len(f) + 3 - 1 = Len(f) + 2 /\ Len(f) + 4 - 1 = Len(f) + 3
    BY <1>2
  <2>4. Holding(h, to, took, Len(f) + 1) /\ Holding(h, to, took, Len(f) + 2) /\ Holding(h, to, took, Len(f) + 4)
    BY <1>3, <2>1, <2>2, <2>3 DEF Holding
  <2>5. h[Len(f) + 3].objects = objects /\ h[Len(f) + 3].type = "data" /\ Len(h[Len(f) + 3].objects) = c
    BY <1>3, <1>4, <2>1
  <2>6. Holding(h, to, took, Len(f) + 3)
    BY <1>4, <2>2, <2>3, <2>5 DEF Holding
  <2>7. \A i \in 1..Len(g) : Holding(h, to, took, Len(f) + i)
    BY <1>3, <2>4, <2>6
  <2>8. Len(f) + 1 + 1 = Len(f) + 2 /\ Len(f) + 1 + 2 = Len(f) + 3 /\ Len(f) + 1 + 3 = Len(f) + 4 /\ Len(f) + 1 # 1
    BY <1>2
  <2>9. FilledAt(h, Len(f) + 1)
    BY <1>3, <1>4, <2>1, <2>8 DEF FilledAt
  <2> QED BY <2>7, <2>9 DEF UnitAt
<1>6. 3 \in Nat /\ 3 <= Len(g) /\ Len(g) # 0 /\ g[Len(g)].type = "sync" /\ off[Len(f)] + c <= Len(took)
       /\ \A i \in 1..Len(g) : i # Len(g) => g[i].type # "sync"
  BY <1>3, <1>4
<1>7. Behind(f, off, took, ends, g, c)
  BY <1>3, <1>4, <1>5, <1>6, TailBehind
<1> QED BY <1>1, <1>4, <1>7

LEMMA NothingBehind ==
  ASSUME NEW f, NEW off, NEW took \in Seq(Objects), NEW ends, Shape(f, off, took, ends), Whole(f)
  PROVE  Behind(f, off, took, ends, <<>>, 0)
<1>1. f \in Seq(Tokens) /\ off \in [0..Len(f) -> Nat] /\ Len(f) \in 0..Len(f)
  BY DEF Shape, Rising
<1>2. f \o <<>> = f
  BY <1>1
<1>3. off[Len(f)] + 0 = off[Len(f)]
  BY <1>1
<1> QED BY <1>1, <1>2, <1>3 DEF Behind

\* An end behind what is behind.
LEMMA EndBehindThat ==
  ASSUME NEW f, NEW off, NEW took \in Seq(Objects), NEW ends, f \in Seq(Tokens), NEW g \in Seq(Tokens), NEW c \in Nat,
         off \in [0..Len(f) -> Nat], Behind(f, off, took, ends, g, c), ends = {off[Len(f)] + c} \/ \E j \in 1..Len(f) : EndAt(f, j)
  PROVE  /\ g \o End \in Seq(Tokens) /\ Behind(f, off, took, ends, g \o End, c)
         /\ EndAt(f \o (g \o End), Len(f) + Len(g) + 1)
         /\ Len(f) + Len(g) + 1 \in 1..Len(f \o (g \o End))
<1>1. PICK h : h = f \o g
  OBVIOUS
<1>2. PICK to \in [0..Len(h) -> Nat] :
         /\ Shape(h, to, took, ends) /\ Whole(h) /\ to[Len(h)] = off[Len(f)] + c
         /\ \A i \in 0..Len(f) : to[i] = off[i]
  BY <1>1 DEF Behind
<1>3. h \in Seq(Tokens) /\ Len(f) \in Nat /\ Len(h) = Len(f) + Len(g) /\ Len(g) \in Nat /\ \A k \in 1..Len(f) : h[k] = f[k]
  BY <1>1
<1>4. \A j \in 1..Len(f) : EndAt(f, j) => j \in 1..Len(h) /\ EndAt(h, j)
  BY <1>3 DEF EndAt
<1>5. (\A j \in 1..Len(h) : ~EndAt(h, j)) => ends = {to[Len(h)]}
  BY <1>2, <1>4
<1>6. Behind(h, to, took, ends, End, 0) /\ End \in Seq(Tokens) /\ Len(End) = 2 /\ EndAt(h \o End, Len(h) + 1)
  BY <1>2, <1>5, EndBehind
<1>7. h \o End = f \o (g \o End) /\ g \o End \in Seq(Tokens)
  <2>1. ASSUME NEW e \in Seq(Tokens) PROVE (f \o g) \o e = f \o (g \o e) /\ g \o e \in Seq(Tokens)
    <3>1. (f \o g) \o e = f \o (g \o e)
      BY ConcatAssociative, SMTT(30)
    <3>2. g \o e \in Seq(Tokens)
      OBVIOUS
    <3> QED BY <3>1, <3>2
  <2> QED BY <1>1, <1>6, <2>1
<1>8. Len(h \o End) = Len(h) + 2
  <2>1. \A x \in Seq(Tokens), e \in Seq(Tokens) : Len(x \o e) = Len(x) + Len(e)
    OBVIOUS
  <2>2. Len(h \o End) = Len(h) + Len(End)
    BY <1>3, <1>6, <2>1
  <2> QED BY <1>6, <2>2
<1>9. Len(f) + Len(g) + 1 \in 1..Len(h \o End) /\ EndAt(h \o End, Len(f) + Len(g) + 1)
  BY <1>3, <1>6, <1>8
<1>10. PICK be \in [0..Len(h \o End) -> Nat] :
          /\ Shape(h \o End, be, took, ends) /\ Whole(h \o End) /\ be[Len(h \o End)] = to[Len(h)] + 0
          /\ \A i \in 0..Len(h) : be[i] = to[i]
  BY <1>6 DEF Behind
<1>11. be[Len(h \o End)] = off[Len(f)] + c
  <2>1. Len(f) \in 0..Len(f)
    BY <1>3
  <2>2. off[Len(f)] \in Nat
    BY <2>1
  <2>3. off[Len(f)] + c \in Nat
    BY <2>2
  <2> QED BY <1>2, <1>10, <2>3
<1>12. \A i \in 0..Len(f) : be[i] = off[i]
  <2>1. \A i \in 0..Len(f) : i \in 0..Len(h)
    BY <1>3
  <2> QED BY <1>2, <1>10, <2>1
<1>13. Behind(f, off, took, ends, g \o End, c)
  BY <1>7, <1>10, <1>11, <1>12 DEF Behind
<1> QED BY <1>7, <1>9, <1>13

\* What a write comes to: all of it, a part of it, or nothing.
Kept(h, upto, took, ends, v, least, ok, total) ==
  /\ h \in Seq(Tokens) /\ upto \in Nat /\ upto <= Len(h) /\ v \in 0..Len(h) /\ (v = 0 \/ h[v].type = "sync") /\ v <= upto
  /\ \E to \in [0..Len(h) -> Nat] :
       /\ Shape(h, to, took, ends) /\ least <= to[v]
       /\ ok => Whole(h) /\ to[Len(h)] = total

LEMMA CutIsKept ==
  ASSUME NEW f, NEW off, NEW took \in Seq(Objects), NEW ends, Shape(f, off, took, ends),
         NEW v \in Nat, v = 0 \/ f[v].type = "sync", NEW least \in Nat, least <= off[v],
         NEW upto \in v..Len(f), NEW total
  PROVE  Kept(SubSeq(f, 1, upto), upto, took, ends, v, least, FALSE, total)
<1>1. Len(f) \in Nat /\ off \in [0..Len(f) -> Nat]
  BY DEF Shape, Rising
<1>2. upto \in 0..Len(f) /\ upto \in Nat /\ v \in 0..upto /\ (v # 0 => v \in 1..upto)
  BY <1>1
<1>3. PICK to : to = [i \in 0..upto |-> off[i]]
  OBVIOUS
<1>4. PICK h : h = SubSeq(f, 1, upto)
  OBVIOUS
<1>5. Shape(h, to, took, ends) /\ Len(h) = upto /\ \A i \in 1..upto : h[i] = f[i]
  BY <1>2, <1>3, <1>4, CutKeepsShape
<1>6. to[v] = off[v] /\ to \in [0..upto -> Nat]
  <2>1. \A i \in 0..upto : i \in 0..Len(f)
    BY <1>1, <1>2
  <2> QED BY <1>1, <1>2, <1>3, <2>1
<1>7. h \in Seq(Tokens)
  BY <1>5 DEF Shape
<1>8. v = 0 \/ h[v].type = "sync"
  BY <1>2, <1>5
<1> QED BY <1>2, <1>4, <1>5, <1>6, <1>7, <1>8 DEF Kept

Outcome(f, g, from, broken, h, upto, ok) ==
  \/ ok /\ ~broken /\ h = f \o g /\ upto \in from..Len(h)
  \/ ~ok /\ ~broken /\ upto \in from..Len(f \o g) /\ h = SubSeq(f \o g, 1, upto)
  \/ ~ok /\ broken /\ h = f /\ upto = from

\* g, which holds c objects, is written behind f, of which the first "from" tokens have arrived.
Writes(f, off, took, ends, g, c, broken, v, least, from, h, upto, ok) ==
  /\ Shape(f, off, took, ends) /\ took \in Seq(Objects) /\ g \in Seq(Tokens) /\ c \in Nat
  /\ broken \in BOOLEAN /\ ok \in BOOLEAN /\ (~broken => Behind(f, off, took, ends, g, c))
  /\ v \in Nat /\ (v = 0 \/ f[v].type = "sync") /\ least \in Nat /\ least <= off[v]
  /\ from \in Nat /\ v <= from /\ from <= Len(f) /\ Outcome(f, g, from, broken, h, upto, ok)

LEMMA ResultIsKept ==
  ASSUME NEW f, NEW off, NEW took, NEW ends, NEW g, NEW c, NEW broken, NEW v, NEW least, NEW from, NEW h, NEW upto, NEW ok,
         Writes(f, off, took, ends, g, c, broken, v, least, from, h, upto, ok)
  PROVE  Kept(h, upto, took, ends, v, least, ok, off[Len(f)] + c)
<1>1. /\ Shape(f, off, took, ends) /\ took \in Seq(Objects) /\ g \in Seq(Tokens) /\ c \in Nat
      /\ broken \in BOOLEAN /\ ok \in BOOLEAN /\ (~broken => Behind(f, off, took, ends, g, c))
      /\ v \in Nat /\ (v = 0 \/ f[v].type = "sync") /\ least \in Nat /\ least <= off[v]
      /\ from \in Nat /\ v <= from /\ from <= Len(f) /\ Outcome(f, g, from, broken, h, upto, ok)
  BY DEF Writes
<1>2. f \in Seq(Tokens) /\ Len(f) \in Nat /\ off \in [0..Len(f) -> Nat]
  BY <1>1 DEF Shape, Rising
<1>3. v \in 0..Len(f) /\ v \in Nat /\ (v # 0 => v \in 1..Len(f))
  BY <1>1, <1>2
<1>4. CASE broken
  <2>1. h = f /\ upto = from /\ ~ok
    BY <1>1, <1>4 DEF Outcome
  <2> QED BY <1>1, <1>2, <1>3, <2>1 DEF Kept
<1>5. CASE ~broken
  <2>1. PICK a : a = f \o g
    OBVIOUS
  <2>2. a \in Seq(Tokens) /\ Len(g) \in Nat /\ Len(a) = Len(f) + Len(g) /\ \A i \in 1..Len(f) : a[i] = f[i]
    BY <1>1, <1>2, <2>1
  <2>3. PICK to \in [0..Len(a) -> Nat] :
           /\ Shape(a, to, took, ends) /\ Whole(a) /\ to[Len(a)] = off[Len(f)] + c
           /\ \A i \in 0..Len(f) : to[i] = off[i]
    BY <1>1, <1>5, <2>1 DEF Behind
  <2>4. least <= to[v] /\ (v = 0 \/ a[v].type = "sync") /\ v \in 0..Len(a)
    BY <1>1, <1>2, <1>3, <2>2, <2>3
  <2>5. CASE ok
    <3>1. h = a /\ upto \in from..Len(a)
      BY <1>1, <1>5, <2>1, <2>5 DEF Outcome
    <3>2. upto \in Nat /\ upto <= Len(h) /\ v <= upto
      BY <1>1, <2>2, <3>1
    <3> QED BY <1>1, <2>2, <2>3, <2>4, <3>1, <3>2 DEF Kept
  <2>6. CASE ~ok
    <3>1. h = SubSeq(a, 1, upto) /\ upto \in from..Len(a)
      BY <1>1, <1>5, <2>1, <2>6 DEF Outcome
    <3>2. upto \in v..Len(a)
      BY <1>1, <2>2, <3>1
    <3>3. Kept(h, upto, took, ends, v, least, FALSE, off[Len(f)] + c)
      BY <2>3, <2>4, <3>1, <3>2, <1>1, CutIsKept
    <3>4. ok = FALSE
      BY <1>1, <2>6
    <3> QED BY <3>3, <3>4
  <2> QED BY <2>5, <2>6
<1> QED BY <1>1, <1>4, <1>5

-----------------------------------------------------------------------------
(* What the writer does.                                                   *)
LEMMA ResultsAre ==
  ASSUME NEW g \in Seq(Tokens), NEW flushes \in BOOLEAN, NEW result \in ResultsOf(g, flushes),
         sent \in Nat, ocfWriter.broken \in BOOLEAN, file \in Seq(Tokens), sent <= Len(file)
  PROVE  /\ result.ok \in BOOLEAN
         /\ \/ result.ok /\ ~ocfWriter.broken /\ result.file = file \o g /\ result.sent \in sent..Len(result.file)
            \/ ~result.ok /\ ~ocfWriter.broken /\ result.sent \in sent..Len(file \o g) /\ result.file = SubSeq(file \o g, 1, result.sent)
            \/ ~result.ok /\ ocfWriter.broken /\ result.file = file /\ result.sent = sent
         /\ result.ok /\ flushes => result.sent = Len(result.file)
<1>1. PICK all : all = file \o g
  OBVIOUS
<1>2. Len(all) \in Nat /\ sent <= Len(all)
  BY <1>1
<1>3. PICK arrived : arrived = IF ocfWriter.shut THEN {sent} ELSE sent..Len(all)
  OBVIOUS
<1>4. arrived \subseteq sent..Len(all) /\ sent \in sent..Len(all) /\ Len(all) \in sent..Len(all)
  BY <1>2, <1>3
<1>5. /\ result.ok \in BOOLEAN
      /\ \/ /\ result.ok /\ ~ocfWriter.broken /\ result.file = all
            /\ result.sent = IF flushes THEN Len(all) ELSE sent
            /\ ~(flushes /\ ocfWriter.shut /\ Len(all) > sent)
         \/ ~result.ok /\ ~ocfWriter.broken /\ result.sent \in arrived /\ result.file = SubSeq(all, 1, result.sent)
         \/ ~result.ok /\ ocfWriter.broken /\ result.sent = sent /\ result.file = file
  BY <1>1, <1>3, Zenon DEF ResultsOf
<1> QED BY <1>1, <1>4, <1>5

LEMMA WritingKeepsContainer ==
  ASSUME ContainerTypes, ReaderOK, sent <= Len(file), NEW off \in [0..Len(file) -> Nat], Known(off), ~ocfWriter.over,
         NEW g \in Seq(Tokens), NEW c \in Nat, NEW flushes \in BOOLEAN, NEW result \in ResultsOf(g, flushes),
         NEW writer \in Writers, ~writer.over, TakeResult(result, writer),
         taken' \in Seq(Objects), endsAt' \subseteq Nat, UNCHANGED <<torn, ocfReader>>,
         Shape(file, off, taken', endsAt'),
         ~ocfWriter.broken => Behind(file, off, taken', endsAt', g, c),
         (result.ok /\ ~ocfWriter.broken) =>
            /\ writer.bufferObjects = <<>> /\ off[Len(file)] + c = Len(taken')
            /\ IF writer.headerWritten THEN Len(file \o g) # 0 ELSE Len(file \o g) # 0 => EndAt(file \o g, 1)
            /\ endsAt' # {} => \E j \in 1..Len(file \o g) : EndAt(file \o g, j),
         vouched' = IF result.ok /\ flushes THEN Len(taken') ELSE vouched
  PROVE  ContainerInv'
<1>1. file \in Seq(Tokens) /\ Len(file) \in Nat /\ sent \in Nat /\ vouched \in Nat /\ ocfWriter.broken \in BOOLEAN
  BY DEF Known, Shape, ContainerTypes, Writers
<1>2. PICK v \in 0..Len(file) : Vouches(off, v)
  BY DEF Known
<1>3. v \in Nat /\ (v = 0 \/ file[v].type = "sync") /\ vouched <= off[v] /\ v <= sent
  BY <1>2 DEF Vouches
<1>4. PICK h : h = result.file
  OBVIOUS
<1>5. PICK upto : upto = result.sent
  OBVIOUS
<1>6. /\ result.ok \in BOOLEAN
      /\ \/ result.ok /\ ~ocfWriter.broken /\ h = file \o g /\ upto \in sent..Len(h)
         \/ ~result.ok /\ ~ocfWriter.broken /\ upto \in sent..Len(file \o g) /\ h = SubSeq(file \o g, 1, upto)
         \/ ~result.ok /\ ocfWriter.broken /\ h = file /\ upto = sent
      /\ result.ok /\ flushes => upto = Len(h)
  BY <1>1, <1>4, <1>5, ResultsAre
<1>7. PICK ok \in BOOLEAN : ok = result.ok
  BY <1>6
<1>8. PICK f : f = file
  OBVIOUS
<1>9. PICK took : took = taken'
  OBVIOUS
<1>10. PICK ends : ends = endsAt'
  OBVIOUS
<1>11. PICK total : total = off[Len(f)] + c
  OBVIOUS
<1>12. PICK broken \in BOOLEAN : broken = ocfWriter.broken
  BY <1>1
<1>13. Kept(h, upto, took, ends, v, vouched, ok, total)
  <2>1. Shape(f, off, took, ends) /\ took \in Seq(Objects) /\ (~broken => Behind(f, off, took, ends, g, c))
    BY <1>8, <1>9, <1>10, <1>12
  <2>2. \/ ok /\ ~broken /\ h = f \o g /\ upto \in sent..Len(h)
        \/ ~ok /\ ~broken /\ upto \in sent..Len(f \o g) /\ h = SubSeq(f \o g, 1, upto)
        \/ ~ok /\ broken /\ h = f /\ upto = sent
    BY <1>6, <1>7, <1>8, <1>12
  <2>3. (v = 0 \/ f[v].type = "sync") /\ sent <= Len(f)
    BY <1>3, <1>8
  <2>4. PICK from \in Nat : from = sent /\ v <= from /\ from <= Len(f)
    BY <1>1, <1>3, <2>3
  <2>5. PICK least \in Nat : least = vouched /\ least <= off[v]
    BY <1>1, <1>3
  <2>6. Outcome(f, g, from, broken, h, upto, ok)
    BY <2>2, <2>4 DEF Outcome
  <2>7. Writes(f, off, took, ends, g, c, broken, v, least, from, h, upto, ok)
    BY <1>3, <2>1, <2>3, <2>4, <2>5, <2>6 DEF Writes
  <2>8. Kept(h, upto, took, ends, v, least, ok, off[Len(f)] + c)
    BY <2>7, ResultIsKept
  <2> QED BY <1>11, <2>5, <2>8
<1>14. PICK to \in [0..Len(h) -> Nat] :
          /\ Shape(h, to, took, ends) /\ vouched <= to[v]
          /\ ok => Whole(h) /\ to[Len(h)] = total
  BY <1>13 DEF Kept
<1>15. h \in Seq(Tokens) /\ upto \in Nat /\ upto <= Len(h) /\ v \in 0..Len(h) /\ (v = 0 \/ h[v].type = "sync") /\ v <= upto
       /\ Len(h) \in Nat
  BY <1>13 DEF Kept
<1>16. file' = h /\ sent' = upto /\ ocfWriter' = [writer EXCEPT !.broken = ~ok]
  BY <1>4, <1>5, <1>7 DEF TakeResult
<1>17. PICK w \in Writers : w = ocfWriter'
  BY <1>16 DEF Writers
<1>18. /\ w.broken = ~ok /\ ~w.over /\ w.bufferObjects = writer.bufferObjects /\ w.headerWritten = writer.headerWritten
  BY <1>16, <1>17 DEF Writers
<1>19. ContainerTypes'
  <2>1. Len(taken') \in Nat
    OBVIOUS
  <2>2. vouched' \in Nat
    BY <1>1, <2>1
  <2>3. ocfWriter' \in Writers /\ sent' \in Nat
    BY <1>15, <1>16, <1>17
  <2> QED BY <2>2, <2>3 DEF ContainerTypes
<1>20. ocfReader' = ocfReader /\ ocfReader.at = "new"
  BY DEF ReaderOK, ContainerTypes, Readers
<1>21. ReaderOK'
  <2>1. ocfReader.got = <<>>
    BY <1>20 DEF ReaderOK
  <2>2. ocfReader.got = <<>> => Len(ocfReader.got) = 0 /\ 1..0 = {}
    OBVIOUS
  <2>3. Len(taken') \in Nat
    OBVIOUS
  <2>4. Len(ocfReader'.got) <= Len(taken') /\ \A j \in 1..Len(ocfReader'.got) : ocfReader'.got[j] = taken'[j]
    BY <1>20, <2>1, <2>2, <2>3
  <2>5. FlushedIsRead' /\ FlushedIsAccepted'
    BY <1>20 DEF FlushedIsRead, FlushedIsAccepted
  <2> QED BY <1>20, <2>1, <2>4, <2>5 DEF ReaderOK
<1>22. \E u \in 0..Len(file') : Vouches(to, u)'
  <2>1. CASE ok /\ flushes
    <3>1. upto = Len(h) /\ Whole(h) /\ to[Len(h)] = Len(took) /\ vouched' = Len(took)
      <4>1. ~ocfWriter.broken
        BY <1>6, <1>7, <2>1
      <4> QED BY <1>6, <1>7, <1>8, <1>9, <1>11, <1>14, <2>1, <4>1
    <3>2. Len(h) = 0 \/ h[Len(h)].type = "sync"
      BY <3>1 DEF Whole
    <3>3. Len(h) \in 0..Len(h) /\ Len(took) \in Nat
      BY <1>9, <1>15
    <3>4. vouched' <= to[Len(h)]
      BY <3>1, <3>3
    <3>5. Len(h) <= sent'
      BY <1>15, <1>16, <3>1
    <3>6. Vouches(to, Len(h))'
      BY <1>16, <3>2, <3>3, <3>4, <3>5 DEF Vouches
    <3> QED BY <1>16, <3>3, <3>6
  <2>2. CASE ~(ok /\ flushes)
    <3>1. vouched' = vouched
      BY <1>7, <2>2
    <3>2. Vouches(to, v)'
      BY <1>14, <1>15, <1>16, <3>1 DEF Vouches
    <3> QED BY <1>15, <1>16, <3>2
  <2> QED BY <2>1, <2>2
<1>23. (~ocfWriter'.over /\ ~ocfWriter'.broken) => InHand(h, to, took, ends, w)
  <2> SUFFICES ASSUME ~ocfWriter'.broken PROVE InHand(h, to, took, ends, w)
    OBVIOUS
  <2>1. ok /\ ~ocfWriter.broken
    BY <1>6, <1>7, <1>17, <1>18
  <2>2. h = f \o g /\ Whole(h) /\ to[Len(h)] = total
    BY <1>6, <1>7, <1>8, <1>14, <2>1
  <2>3. /\ w.bufferObjects = <<>> /\ total = Len(took)
        /\ IF w.headerWritten THEN Len(h) # 0 ELSE Len(h) # 0 => EndAt(h, 1)
        /\ ends # {} => \E j \in 1..Len(h) : EndAt(h, j)
    BY <1>7, <1>8, <1>9, <1>10, <1>11, <1>18, <2>1, <2>2
  <2>4. Len(w.bufferObjects) = 0 /\ 1..0 = {}
    BY <2>3
  <2>5. Len(took) \in Nat /\ Len(took) = to[Len(h)] + Len(w.bufferObjects)
    BY <1>9, <2>2, <2>3, <2>4
  <2> QED BY <2>2, <2>3, <2>4, <2>5 DEF InHand
<1>24. Known(to)'
  <2>1. Shape(file', to, taken', endsAt')
    BY <1>9, <1>10, <1>14, <1>16
  <2>2. (~ocfWriter'.over /\ ~ocfWriter'.broken) => InHand(file', to, taken', endsAt', ocfWriter')
    BY <1>9, <1>10, <1>16, <1>17, <1>23
  <2>3. ocfReader'.at # "blocks"
    BY <1>20
  <2> QED BY <1>22, <2>1, <2>2, <2>3 DEF Known
<1>25. sent' <= Len(file') /\ to \in [0..Len(file') -> Nat]
  BY <1>14, <1>15, <1>16
<1> QED BY <1>19, <1>21, <1>24, <1>25 DEF ContainerInv

LEMMA TokensConcat ==
  ASSUME NEW f \in Seq(Tokens), NEW g \in Seq(Tokens)
  PROVE  f \o g \in Seq(Tokens)
OBVIOUS

LEMMA ClearedAre ==
  ASSUME NEW ok \in BOOLEAN, NEW objects \in Seq(Objects)
  PROVE  Cleared(ok, objects) \in Seq(Objects) /\ (ok => Cleared(ok, objects) = <<>>)
<1>1. <<>> \in Seq(Objects)
  OBVIOUS
<1>2. CASE ok
  BY <1>1, <1>2 DEF Cleared
<1>3. CASE ~ok
  BY <1>3 DEF Cleared
<1> QED BY <1>2, <1>3

LEMMA EndStays ==
  ASSUME NEW f \in Seq(Tokens), NEW g \in Seq(Tokens)
  PROVE  /\ Len(f \o g) = Len(f) + Len(g) /\ Len(f) \in Nat /\ Len(g) \in Nat
         /\ \A j \in 1..Len(f) : EndAt(f, j) => j \in 1..Len(f \o g) /\ EndAt(f \o g, j)
<1>1. /\ Len(f \o g) = Len(f) + Len(g) /\ Len(f) \in Nat /\ Len(g) \in Nat
      /\ \A j \in 1..Len(f) : (f \o g)[j] = f[j]
  OBVIOUS
<1>2. \A j \in 1..Len(f) : j \in 1..Len(f \o g)
  BY <1>1
<1> QED BY <1>1, <1>2 DEF EndAt

LEMMA BlockOfBehind ==
  ASSUME ContainerTypes, NEW f, NEW off, NEW took \in Seq(Objects), NEW ends, Shape(f, off, took, ends), Whole(f),
         NEW objects \in Seq(Objects), objects # <<>> => Len(f) # 0, off[Len(f)] + Len(objects) <= Len(took),
         \A j \in 1..Len(objects) : objects[j] = took[off[Len(f)] + j]
  PROVE  Behind(f, off, took, ends, BlockOf(objects), Len(objects))
<1>1. ocfWriter.codec \in Codecs \cup {Nothing}
  BY DEF ContainerTypes, Writers
<1>2. CASE objects = <<>>
  <2>1. Len(objects) = 0 /\ BlockOf(objects) = <<>>
    BY <1>2 DEF BlockOf
  <2> QED BY <2>1, NothingBehind
<1>3. CASE objects # <<>>
  <2>1. Behind(f, off, took, ends, Block(ocfWriter.codec, objects), Len(objects))
    BY <1>1, <1>3, BlockBehind
  <2> QED BY <1>3, <2>1 DEF BlockOf
<1> QED BY <1>2, <1>3

LEMMA BlockOfTokens ==
  ASSUME ContainerTypes, NEW objects \in Seq(Objects)
  PROVE  BlockOf(objects) \in Seq(Tokens) /\ (objects = <<>> => BlockOf(objects) = <<>>)
<1>1. ocfWriter.codec \in Codecs \cup {Nothing}
  BY DEF ContainerTypes, Writers
<1>2. Block(ocfWriter.codec, objects) \in Seq(Tokens)
  BY <1>1, BlockTokens
<1>3. <<>> \in Seq(Tokens)
  OBVIOUS
<1> QED BY <1>2, <1>3 DEF BlockOf

LEMMA ContainerIs ==
  ASSUME ContainerInv
  PROVE  /\ ContainerTypes /\ ReaderOK /\ sent <= Len(file) /\ sent \in Nat /\ ocfWriter.broken \in BOOLEAN
         /\ file \in Seq(Tokens) /\ Len(file) \in Nat /\ taken \in Seq(Objects) /\ Len(taken) \in Nat
         /\ ocfWriter \in Writers /\ ocfWriter.bufferObjects \in Seq(Objects) /\ endsAt \subseteq Nat
BY DEF ContainerInv, ContainerTypes, Known, Shape, Writers

LEMMA HeaderKeepsContainer ==
  ASSUME ContainerInv, NEW codec \in Codecs, WriteHeader(codec)
  PROVE  ContainerInv'
<1>1. PICK off \in [0..Len(file) -> Nat] : Known(off)
  BY DEF ContainerInv
<1>2. PICK g : g = HeaderTokens
  OBVIOUS
<1>3. PICK result \in ResultsOf(g, FALSE) :
         TakeResult(result, [ocfWriter EXCEPT !.codec = codec, !.headerWritten = result.ok])
  BY <1>2 DEF WriteHeader, HeaderTokens
<1>4. ~ocfWriter.over /\ ~ocfWriter.headerWritten /\ UNCHANGED <<torn, taken, vouched, endsAt, ocfReader>>
  BY DEF WriteHeader
<1>5. g \in Seq(Tokens) /\ Len(g) = 3
  BY <1>2, PlainTokens DEF HeaderTokens
<1>6. result.ok \in BOOLEAN
  BY <1>5, ContainerIs, ResultsAre
<1>7. PICK writer : writer = [ocfWriter EXCEPT !.codec = codec, !.headerWritten = result.ok]
  OBVIOUS
<1>8. /\ writer \in Writers /\ ~writer.over /\ writer.headerWritten = result.ok
      /\ writer.bufferObjects = ocfWriter.bufferObjects
  BY <1>4, <1>6, <1>7, ContainerIs DEF Writers
<1>9. Shape(file, off, taken, endsAt)
  BY <1>1 DEF Known
<1>10. ~ocfWriter.broken => InHand(file, off, taken, endsAt, ocfWriter)
  BY <1>1, <1>4 DEF Known
<1>11. ~ocfWriter.broken => Behind(file, off, taken, endsAt, g, 0)
  BY <1>2, <1>4, <1>9, <1>10, ContainerIs, HeaderBehind DEF InHand
<1>12. ASSUME result.ok, ~ocfWriter.broken
       PROVE  /\ writer.bufferObjects = <<>> /\ off[Len(file)] + 0 = Len(taken)
              /\ IF writer.headerWritten THEN Len(file \o g) # 0 ELSE Len(file \o g) # 0 => EndAt(file \o g, 1)
              /\ endsAt # {} => \E j \in 1..Len(file \o g) : EndAt(file \o g, j)
  <2>1. InHand(file, off, taken, endsAt, ocfWriter)
    BY <1>10, <1>12
  <2>2. ocfWriter.bufferObjects = <<>> /\ Len(taken) = off[Len(file)] + Len(ocfWriter.bufferObjects)
    BY <1>4, <2>1 DEF InHand
  <2>3. writer.bufferObjects = <<>> /\ off[Len(file)] + 0 = Len(taken)
    BY <1>8, <2>2
  <2>4. Len(file \o g) # 0
    BY <1>5, ContainerIs, EndStays, SMTT(30)
  <2>5. endsAt # {} => \E j \in 1..Len(file \o g) : EndAt(file \o g, j)
    BY <1>5, <2>1, ContainerIs, EndStays DEF InHand
  <2> QED BY <1>8, <1>12, <2>3, <2>4, <2>5
<1>13. TakeResult(result, writer)
  BY <1>3, <1>7
<1>14. vouched' = IF result.ok /\ FALSE THEN Len(taken') ELSE vouched
  BY <1>4
<1>15. taken' \in Seq(Objects) /\ endsAt' \subseteq Nat /\ taken' = taken /\ endsAt' = endsAt /\ UNCHANGED <<torn, ocfReader>>
  BY <1>4, ContainerIs
<1> HIDE DEF ContainerInv
<1> QED BY <1>1, <1>3, <1>4, <1>5, <1>8, <1>9, <1>11, <1>12, <1>13, <1>14, <1>15, ContainerIs, WritingKeepsContainer

LEMMA FlushKeepsContainer ==
  ASSUME ContainerInv, FlushBlock
  PROVE  ContainerInv'
<1>1. PICK off \in [0..Len(file) -> Nat] : Known(off)
  BY DEF ContainerInv
<1>2. PICK objects \in Seq(Objects) : objects = ocfWriter.bufferObjects
  BY ContainerIs
<1>3. PICK g : g = BlockOf(objects)
  OBVIOUS
<1>4. PICK result \in ResultsOf(g, TRUE) :
         /\ TakeResult(result, [ocfWriter EXCEPT !.bufferObjects = Cleared(result.ok, objects)])
         /\ vouched' = IF result.ok THEN Len(taken) ELSE vouched
  BY <1>2, <1>3 DEF FlushBlock
<1>5. ~ocfWriter.over /\ UNCHANGED <<torn, taken, endsAt, ocfReader>>
  BY DEF FlushBlock
<1>6. g \in Seq(Tokens) /\ (objects = <<>> => g = <<>>)
  BY <1>3, ContainerIs, BlockOfTokens
<1>7. result.ok \in BOOLEAN
  BY <1>6, ContainerIs, ResultsAre
<1>8. PICK cleared \in Seq(Objects) : cleared = Cleared(result.ok, objects) /\ (result.ok => cleared = <<>>)
  BY <1>7, ClearedAre
<1>9. PICK writer : writer = [ocfWriter EXCEPT !.bufferObjects = cleared]
  OBVIOUS
<1>10. /\ writer \in Writers /\ ~writer.over /\ writer.headerWritten = ocfWriter.headerWritten
       /\ writer.bufferObjects = cleared
  BY <1>5, <1>9, ContainerIs DEF Writers
<1>11. Shape(file, off, taken, endsAt)
  BY <1>1 DEF Known
<1>12. ~ocfWriter.broken => InHand(file, off, taken, endsAt, ocfWriter)
  BY <1>1, <1>5 DEF Known
<1>13. PICK c \in Nat : c = Len(objects)
  OBVIOUS
<1>14. ASSUME ~ocfWriter.broken
       PROVE  /\ Behind(file, off, taken, endsAt, g, c) /\ off[Len(file)] + c = Len(taken)
              /\ IF writer.headerWritten THEN Len(file \o g) # 0 ELSE Len(file \o g) # 0 => EndAt(file \o g, 1)
              /\ endsAt # {} => \E j \in 1..Len(file \o g) : EndAt(file \o g, j)
  <2>1. InHand(file, off, taken, endsAt, ocfWriter)
    BY <1>12, <1>14
  <2>2. /\ Whole(file) /\ Len(taken) = off[Len(file)] + c
        /\ \A j \in 1..Len(objects) : objects[j] = taken[off[Len(file)] + j]
        /\ IF ocfWriter.headerWritten THEN Len(file) # 0 ELSE objects = <<>> /\ (Len(file) # 0 => EndAt(file, 1))
        /\ endsAt # {} => \E j \in 1..Len(file) : EndAt(file, j)
    BY <1>2, <1>13, <2>1 DEF InHand
  <2>3. Behind(file, off, taken, endsAt, g, c)
    <3>1. objects # <<>> => Len(file) # 0
      BY <2>2
    <3>2. off[Len(file)] + Len(objects) <= Len(taken)
      BY <1>13, <2>2, ContainerIs
    <3>3. Behind(file, off, taken, endsAt, BlockOf(objects), Len(objects))
      BY <1>11, <2>2, <3>1, <3>2, ContainerIs, BlockOfBehind
    <3> QED BY <1>3, <1>13, <3>3
  <2>4. ASSUME ~writer.headerWritten, Len(file \o g) # 0 PROVE EndAt(file \o g, 1)
    <3>1. g = <<>> /\ (Len(file) # 0 => EndAt(file, 1))
      BY <1>6, <1>10, <2>2, <2>4
    <3>2. file \o g = file
      BY <3>1, ContainerIs
    <3> QED BY <2>4, <3>1, <3>2
  <2>5. Len(file) # 0 => Len(file \o g) # 0
    BY <1>6, ContainerIs, EndStays
  <2>6. endsAt # {} => \E j \in 1..Len(file \o g) : EndAt(file \o g, j)
    BY <1>6, <2>2, ContainerIs, EndStays
  <2> QED BY <1>10, <2>2, <2>3, <2>4, <2>5, <2>6
<1>15. TakeResult(result, writer)
  BY <1>4, <1>8, <1>9
<1>16. vouched' = IF result.ok /\ TRUE THEN Len(taken') ELSE vouched
  BY <1>4, <1>5
<1>17. taken' \in Seq(Objects) /\ endsAt' \subseteq Nat /\ taken' = taken /\ endsAt' = endsAt /\ UNCHANGED <<torn, ocfReader>>
  BY <1>5, ContainerIs
<1> QED BY <1>1, <1>4, <1>5, <1>6, <1>8, <1>10, <1>11, <1>14, <1>15, <1>16, <1>17, ContainerIs, WritingKeepsContainer

LEMMA ObjectsAreSequences ==
  ASSUME NEW objects \in ObjectLists
  PROVE  objects \in Seq(Objects)
<1>1. {objects[i] : i \in DOMAIN objects} \subseteq Objects
  BY DEF Objects
<1>2. objects \in Seq({objects[i] : i \in DOMAIN objects})
  BY ObjectAssumption
<1>3. ASSUME NEW A, NEW B, A \subseteq B, NEW s \in Seq(A) PROVE s \in Seq(B)
  BY <1>3
<1> QED BY <1>1, <1>2, <1>3

LEMMA ObjectsBehind ==
  ASSUME NEW x \in Seq(Objects), NEW y \in Seq(Objects)
  PROVE  /\ x \o y \in Seq(Objects) /\ Len(x \o y) = Len(x) + Len(y) /\ Len(x) \in Nat /\ Len(y) \in Nat
         /\ \A i \in 1..Len(x) : (x \o y)[i] = x[i]
         /\ \A i \in 1..Len(y) : (x \o y)[Len(x) + i] = y[i]
OBVIOUS

\* The objects behind the first o are those in the buffer.
Buffered(took, o, buffer) ==
  /\ took \in Seq(Objects) /\ buffer \in Seq(Objects) /\ o \in Nat /\ Len(took) = o + Len(buffer)
  /\ \A j \in 1..Len(buffer) : buffer[j] = took[o + j]

\* What the writer has in hand when it takes more.
LEMMA TakenInHand ==
  ASSUME NEW took, NEW buffer, NEW o, Buffered(took, o, buffer), NEW more \in Seq(Objects),
         NEW t, t = took \o more, NEW b, b = buffer \o more
  PROVE  Buffered(t, o, b)
<1>1. /\ took \in Seq(Objects) /\ buffer \in Seq(Objects) /\ o \in Nat /\ Len(took) = o + Len(buffer)
      /\ \A j \in 1..Len(buffer) : buffer[j] = took[o + j]
  BY DEF Buffered
<1>3. /\ Len(took) \in Nat /\ Len(more) \in Nat /\ t \in Seq(Objects) /\ Len(t) = Len(took) + Len(more)
      /\ (\A i \in 1..Len(took) : t[i] = took[i]) /\ \A i \in 1..Len(more) : t[Len(took) + i] = more[i]
  BY <1>1, ObjectsBehind
<1>4. /\ Len(buffer) \in Nat /\ b \in Seq(Objects) /\ Len(b) = Len(buffer) + Len(more)
      /\ (\A i \in 1..Len(buffer) : b[i] = buffer[i]) /\ \A i \in 1..Len(more) : b[Len(buffer) + i] = more[i]
  BY <1>1, ObjectsBehind
<1>5. Len(t) = o + Len(b)
  BY <1>1, <1>3, <1>4
<1>6. ASSUME NEW j \in 1..Len(b) PROVE b[j] = t[o + j]
  <2>1. CASE j <= Len(buffer)
    <3>1. j \in 1..Len(buffer) /\ o + j \in 1..Len(took)
      BY <1>1, <1>3, <1>4, <2>1
    <3> QED BY <1>1, <1>3, <1>4, <3>1
  <2>2. CASE j > Len(buffer)
    <3>1. PICK i \in 1..Len(more) : j = Len(buffer) + i /\ o + j = Len(took) + i
      <4>1. j - Len(buffer) \in 1..Len(more)
        BY <1>1, <1>3, <1>4, <2>2
      <4>2. j = Len(buffer) + (j - Len(buffer)) /\ o + j = Len(took) + (j - Len(buffer))
        BY <1>1, <1>3, <1>4
      <4> QED BY <4>1, <4>2
    <3> QED BY <1>1, <1>3, <1>4, <3>1
  <2>3. j \in Int /\ Len(buffer) \in Int
    BY <1>4
  <2>4. j <= Len(buffer) \/ j > Len(buffer)
    BY <2>3
  <2> QED BY <2>1, <2>2, <2>4
<1> QED BY <1>1, <1>3, <1>4, <1>5, <1>6 DEF Buffered

\* Objects are taken, and no block is written.
LEMMA TakingKeepsContainer ==
  ASSUME ContainerInv, ~ocfWriter.over, NEW more \in Seq(Objects), taken' = taken \o more,
         ocfWriter' = [ocfWriter EXCEPT !.bufferObjects = ocfWriter.bufferObjects \o more],
         ocfWriter.headerWritten, UNCHANGED <<file, sent, torn, vouched, endsAt, ocfReader>>
  PROVE  ContainerInv'
<1>1. PICK off \in [0..Len(file) -> Nat] : Known(off)
  BY DEF ContainerInv
<1>2. PICK took \in Seq(Objects) : took = taken \o more
  BY ContainerIs, ObjectsBehind
<1>3. PICK buffer \in Seq(Objects) : buffer = ocfWriter.bufferObjects \o more
  BY ContainerIs, ObjectsBehind
<1>4. PICK w : w = ocfWriter'
  OBVIOUS
<1>5. w \in Writers /\ ~w.over /\ w.broken = ocfWriter.broken /\ w.headerWritten = ocfWriter.headerWritten
      /\ w.bufferObjects = buffer
  BY <1>3, <1>4, ContainerIs DEF Writers
<1>6. Shape(file, off, took, endsAt)
  BY <1>1, <1>2, ContainerIs, TakingKeepsShape DEF Known
<1>7. ContainerTypes'
  BY <1>2, <1>4, <1>5, ContainerIs DEF ContainerTypes
<1>8. ocfReader.at = "new" /\ ocfReader.got = <<>>
  BY ContainerIs DEF ReaderOK, ContainerTypes, Readers
<1>9. ReaderOK'
  <2>1. Len(ocfReader'.got) = 0 /\ 1..0 = {} /\ Len(took) \in Nat
    BY <1>8
  <2>2. Len(ocfReader'.got) <= Len(taken') /\ \A j \in 1..Len(ocfReader'.got) : ocfReader'.got[j] = taken'[j]
    BY <1>2, <2>1
  <2>3. FlushedIsRead' /\ FlushedIsAccepted'
    BY <1>8 DEF FlushedIsRead, FlushedIsAccepted
  <2> QED BY <1>8, <2>2, <2>3 DEF ReaderOK
<1>10. Known(off)'
  <2>1. \E v \in 0..Len(file') : Vouches(off, v)'
    <3>1. PICK v \in 0..Len(file) : Vouches(off, v)
      BY <1>1 DEF Known
    <3>2. Vouches(off, v)'
      BY <3>1 DEF Vouches
    <3> QED BY <3>2
  <2>2. ASSUME ~w.broken PROVE InHand(file, off, took, endsAt, w)
    <3>1. InHand(file, off, taken, endsAt, ocfWriter)
      BY <1>1, <1>5, <2>2 DEF Known
    <3>2. PICK o \in Nat : o = off[Len(file)]
      <4>1. Len(file) \in 0..Len(file)
        BY ContainerIs
      <4> QED BY <1>1, <4>1
    <3>3. PICK old \in Seq(Objects) : old = ocfWriter.bufferObjects
      BY ContainerIs
    <3>4. Len(taken) = o + Len(old) /\ \A j \in 1..Len(old) : old[j] = taken[o + j]
      BY <3>1, <3>2, <3>3 DEF InHand
    <3>5. Len(took) = o + Len(buffer) /\ \A j \in 1..Len(buffer) : buffer[j] = took[o + j]
      <4>1. buffer = old \o more /\ took = taken \o more /\ taken \in Seq(Objects)
        BY <1>2, <1>3, <3>3, ContainerIs
      <4>2. Buffered(taken, o, old)
        BY <3>2, <3>3, <3>4, <4>1 DEF Buffered
      <4>3. Buffered(took, o, buffer)
        BY <4>1, <4>2, TakenInHand
      <4> QED BY <4>3 DEF Buffered
    <3> QED BY <1>5, <3>1, <3>2, <3>5 DEF InHand
  <2>3. Shape(file', off, taken', endsAt')
    BY <1>2, <1>6
  <2>4. (~ocfWriter'.over /\ ~ocfWriter'.broken) => InHand(file', off, taken', endsAt', ocfWriter')
    BY <1>2, <1>4, <2>2
  <2>5. ocfReader'.at # "blocks"
    BY <1>8
  <2> QED BY <2>1, <2>3, <2>4, <2>5 DEF Known
<1>11. sent' <= Len(file') /\ off \in [0..Len(file') -> Nat]
  BY ContainerIs
<1> QED BY <1>7, <1>9, <1>10, <1>11 DEF ContainerInv

LEMMA FillingKeepsContainer ==
  ASSUME ContainerInv, ~ocfWriter.over, ocfWriter.headerWritten, NEW more \in Seq(Objects),
         NEW all, all = ocfWriter.bufferObjects \o more,
         NEW result \in ResultsOf(BlockOf(all), FALSE), taken' = taken \o more,
         TakeResult(result, [ocfWriter EXCEPT !.bufferObjects = Cleared(result.ok, all)]),
         UNCHANGED <<torn, vouched, endsAt, ocfReader>>
  PROVE  ContainerInv'
<1>1. PICK off \in [0..Len(file) -> Nat] : Known(off)
  BY DEF ContainerInv
<1>2. PICK took \in Seq(Objects) : took = taken \o more
  BY ContainerIs, ObjectsBehind
<1>3. all \in Seq(Objects)
  BY ContainerIs, ObjectsBehind
<1>4. PICK g \in Seq(Tokens) : g = BlockOf(all)
  BY <1>3, ContainerIs, BlockOfTokens
<1>5. result \in ResultsOf(g, FALSE)
  BY <1>4
<1>6. result.ok \in BOOLEAN
  BY <1>5, ContainerIs, ResultsAre
<1>7. PICK cleared \in Seq(Objects) : cleared = Cleared(result.ok, all) /\ (result.ok => cleared = <<>>)
  BY <1>3, <1>6, ClearedAre
<1>8. PICK writer : writer = [ocfWriter EXCEPT !.bufferObjects = cleared]
  OBVIOUS
<1>9. /\ writer \in Writers /\ ~writer.over /\ writer.headerWritten = ocfWriter.headerWritten
      /\ writer.bufferObjects = cleared
  BY <1>8, ContainerIs DEF Writers
<1>10. Shape(file, off, took, endsAt)
  BY <1>1, <1>2, ContainerIs, TakingKeepsShape DEF Known
<1>11. PICK c \in Nat : c = Len(all)
  BY <1>3
<1>12. ASSUME ~ocfWriter.broken
       PROVE  /\ Behind(file, off, took, endsAt, g, c) /\ off[Len(file)] + c = Len(took)
              /\ IF writer.headerWritten THEN Len(file \o g) # 0 ELSE Len(file \o g) # 0 => EndAt(file \o g, 1)
              /\ endsAt # {} => \E j \in 1..Len(file \o g) : EndAt(file \o g, j)
  <2>1. InHand(file, off, taken, endsAt, ocfWriter)
    BY <1>1, <1>12 DEF Known
  <2>2. PICK o \in Nat : o = off[Len(file)]
    <3>1. Len(file) \in 0..Len(file)
      BY ContainerIs
    <3> QED BY <1>1, <3>1
  <2>3. PICK old \in Seq(Objects) : old = ocfWriter.bufferObjects
    BY ContainerIs
  <2>4. Len(taken) = o + Len(old) /\ \A j \in 1..Len(old) : old[j] = taken[o + j]
    BY <2>1, <2>2, <2>3 DEF InHand
  <2>5. Len(took) = o + Len(all) /\ \A j \in 1..Len(all) : all[j] = took[o + j]
    <3>1. all = old \o more /\ took = taken \o more /\ taken \in Seq(Objects)
      BY <1>2, <2>3, ContainerIs
    <3>2. Buffered(taken, o, old)
      BY <2>2, <2>3, <2>4, <3>1 DEF Buffered
    <3>3. Buffered(took, o, all)
      BY <3>1, <3>2, TakenInHand
    <3> QED BY <3>3 DEF Buffered
  <2>6. Whole(file) /\ Len(file) # 0 /\ (endsAt # {} => \E j \in 1..Len(file) : EndAt(file, j))
    BY <2>1 DEF InHand
  <2>7. Behind(file, off, took, endsAt, g, c)
    <3>1. off[Len(file)] + Len(all) <= Len(took)
      BY <1>11, <2>2, <2>5
    <3>2. \A j \in 1..Len(all) : all[j] = took[off[Len(file)] + j]
      BY <2>2, <2>5
    <3>3. Behind(file, off, took, endsAt, BlockOf(all), Len(all))
      BY <1>3, <1>10, <2>6, <3>1, <3>2, ContainerIs, BlockOfBehind
    <3> QED BY <1>4, <1>11, <3>3
  <2>8. Len(file \o g) # 0 /\ (endsAt # {} => \E j \in 1..Len(file \o g) : EndAt(file \o g, j))
    BY <1>4, <2>6, ContainerIs, EndStays, SMTT(30)
  <2> QED BY <1>9, <1>11, <2>2, <2>5, <2>7, <2>8
<1>13. TakeResult(result, writer)
  BY <1>7, <1>8
<1>14. vouched' = IF result.ok /\ FALSE THEN Len(taken') ELSE vouched
  OBVIOUS
<1>15. taken' = took /\ endsAt' = endsAt /\ endsAt' \subseteq Nat /\ UNCHANGED <<torn, ocfReader>>
  BY <1>2, ContainerIs
<1>16. taken' \in Seq(Objects) /\ Shape(file, off, taken', endsAt')
       /\ (~ocfWriter.broken => Behind(file, off, taken', endsAt', g, c))
  BY <1>10, <1>12, <1>15
<1>17. (result.ok /\ ~ocfWriter.broken) =>
         /\ writer.bufferObjects = <<>> /\ off[Len(file)] + c = Len(taken')
         /\ IF writer.headerWritten THEN Len(file \o g) # 0 ELSE Len(file \o g) # 0 => EndAt(file \o g, 1)
         /\ endsAt' # {} => \E j \in 1..Len(file \o g) : EndAt(file \o g, j)
  BY <1>7, <1>9, <1>12, <1>15
<1> QED BY <1>1, <1>4, <1>5, <1>9, <1>11, <1>13, <1>14, <1>15, <1>16, <1>17, ContainerIs, WritingKeepsContainer

LEMMA WriteBlockKeepsContainer ==
  ASSUME ContainerInv, NEW objects \in ObjectLists, WriteBlock(objects)
  PROVE  ContainerInv'
<1>1. objects \in Seq(Objects)
  BY ObjectsAreSequences
<1>2. PICK all : all = ocfWriter.bufferObjects \o objects
  OBVIOUS
<1>3. /\ ~ocfWriter.over /\ ocfWriter.headerWritten /\ taken' = taken \o objects
      /\ UNCHANGED <<torn, vouched, endsAt, ocfReader>>
      /\ \/ \E result \in ResultsOf(BlockOf(all), FALSE) :
              TakeResult(result, [ocfWriter EXCEPT !.bufferObjects = Cleared(result.ok, all)])
         \/ ocfWriter' = [ocfWriter EXCEPT !.bufferObjects = all] /\ UNCHANGED <<file, sent>>
  BY <1>2 DEF WriteBlock
<1>4. CASE \E result \in ResultsOf(BlockOf(all), FALSE) :
              TakeResult(result, [ocfWriter EXCEPT !.bufferObjects = Cleared(result.ok, all)])
  BY <1>1, <1>2, <1>3, <1>4, FillingKeepsContainer
<1>5. CASE ocfWriter' = [ocfWriter EXCEPT !.bufferObjects = all] /\ UNCHANGED <<file, sent>>
  BY <1>1, <1>2, <1>3, <1>5, TakingKeepsContainer
<1> QED BY <1>3, <1>4, <1>5

LEMMA CloseKeepsContainer ==
  ASSUME ContainerInv, CloseWriter
  PROVE  ContainerInv'
<1>1. PICK off \in [0..Len(file) -> Nat] : Known(off)
  BY DEF ContainerInv
<1>2. PICK objects \in Seq(Objects) : objects = ocfWriter.bufferObjects
  BY ContainerIs
<1>3. PICK block \in Seq(Tokens) : block = BlockOf(objects) /\ (objects = <<>> => block = <<>>)
  BY ContainerIs, BlockOfTokens
<1>4. PICK g : g = block \o End
  OBVIOUS
<1>5. g \in Seq(Tokens)
  <2>1. End \in Seq(Tokens)
    BY PlainTokens DEF End
  <2> QED BY <1>3, <1>4, <2>1, TokensConcat
<1>6. PICK result \in ResultsOf(g, TRUE), closes \in BOOLEAN :
         /\ TakeResult(result, [ocfWriter EXCEPT !.bufferObjects = Cleared(result.ok, objects), !.ends = @ + 1,
                                                 !.shut = @ \/ (result.ok /\ closes)])
         /\ vouched' = IF result.ok THEN Len(taken) ELSE vouched
  BY <1>2, <1>3, <1>4 DEF CloseWriter
<1>7. ~ocfWriter.over /\ UNCHANGED <<torn, taken, ocfReader>> /\ endsAt' = IF endsAt = {} THEN {Len(taken)} ELSE endsAt
  BY DEF CloseWriter
<1>8. result.ok \in BOOLEAN
  BY <1>5, ContainerIs, ResultsAre
<1>9. PICK cleared \in Seq(Objects) : cleared = Cleared(result.ok, objects) /\ (result.ok => cleared = <<>>)
  BY <1>8, ClearedAre
<1>10. PICK closings \in Nat : closings = ocfWriter.ends + 1
  BY ContainerIs DEF Writers
<1>11. PICK shuts \in BOOLEAN : shuts = (ocfWriter.shut \/ (result.ok /\ closes))
  OBVIOUS
<1>12. PICK writer : writer = [ocfWriter EXCEPT !.bufferObjects = cleared, !.ends = closings, !.shut = shuts]
  OBVIOUS
<1>13. /\ writer \in Writers /\ ~writer.over /\ writer.headerWritten = ocfWriter.headerWritten
       /\ writer.bufferObjects = cleared
  BY <1>7, <1>12, ContainerIs DEF Writers
<1>14. TakeResult(result, writer)
  BY <1>6, <1>9, <1>10, <1>11, <1>12
<1>15. PICK ends \in SUBSET Nat : ends = endsAt'
  BY <1>7, ContainerIs
<1>16. Shape(file, off, taken, ends)
  <2>1. Shape(file, off, taken, endsAt)
    BY <1>1 DEF Known
  <2>2. CASE endsAt = {}
    BY <1>7, <1>15, <2>1, <2>2, ClosingKeepsShape
  <2>3. CASE endsAt # {}
    BY <1>7, <1>15, <2>1, <2>3
  <2> QED BY <2>2, <2>3
<1>17. ~ocfWriter.broken => InHand(file, off, taken, endsAt, ocfWriter)
  BY <1>1, <1>7 DEF Known
<1>18. PICK c \in Nat : c = Len(objects)
  OBVIOUS
<1>19. ASSUME ~ocfWriter.broken
       PROVE  /\ Behind(file, off, taken, ends, g, c) /\ off[Len(file)] + c = Len(taken)
              /\ IF writer.headerWritten THEN Len(file \o g) # 0 ELSE Len(file \o g) # 0 => EndAt(file \o g, 1)
              /\ \E j \in 1..Len(file \o g) : EndAt(file \o g, j)
  <2>1. InHand(file, off, taken, endsAt, ocfWriter)
    BY <1>17, <1>19
  <2>2. /\ Whole(file) /\ Len(taken) = off[Len(file)] + c
        /\ \A j \in 1..Len(objects) : objects[j] = taken[off[Len(file)] + j]
        /\ IF ocfWriter.headerWritten THEN Len(file) # 0 ELSE objects = <<>> /\ (Len(file) # 0 => EndAt(file, 1))
        /\ endsAt # {} => \E j \in 1..Len(file) : EndAt(file, j)
    BY <1>2, <1>18, <2>1 DEF InHand
  <2>3. Behind(file, off, taken, ends, block, c)
    <3>1. objects # <<>> => Len(file) # 0
      BY <2>2
    <3>2. off[Len(file)] + Len(objects) <= Len(taken)
      BY <1>18, <2>2, ContainerIs
    <3>3. Behind(file, off, taken, ends, BlockOf(objects), Len(objects))
      BY <1>16, <2>2, <3>1, <3>2, ContainerIs, BlockOfBehind
    <3> QED BY <1>3, <1>18, <3>3
  <2>4. ends = {off[Len(file)] + c} \/ \E j \in 1..Len(file) : EndAt(file, j)
    BY <1>7, <1>15, <2>2
  <2>5. /\ Behind(file, off, taken, ends, g, c) /\ EndAt(file \o g, Len(file) + Len(block) + 1)
        /\ Len(file) + Len(block) + 1 \in 1..Len(file \o g)
    BY <1>1, <1>3, <1>4, <1>18, <2>3, <2>4, ContainerIs, EndBehindThat
  <2>6. ASSUME ~writer.headerWritten PROVE EndAt(file \o g, 1)
    <3>1. block = <<>> /\ (Len(file) # 0 => EndAt(file, 1))
      BY <1>3, <1>13, <2>2, <2>6
    <3>2. CASE Len(file) = 0
      <4>1. Len(file) + Len(block) + 1 = 1
        BY <3>1, <3>2
      <4> QED BY <2>5, <4>1
    <3>3. CASE Len(file) # 0
      <4>1. 1 \in 1..Len(file)
        BY <3>3, ContainerIs
      <4> QED BY <1>5, <3>1, <3>3, <4>1, ContainerIs, EndStays
    <3> QED BY <3>2, <3>3
  <2>7. Len(file) # 0 => Len(file \o g) # 0
    BY <1>5, ContainerIs, EndStays
  <2> QED BY <1>13, <2>2, <2>5, <2>6, <2>7
<1>20. vouched' = IF result.ok /\ TRUE THEN Len(taken') ELSE vouched
  BY <1>6, <1>7
<1>21. taken' = taken /\ taken' \in Seq(Objects) /\ endsAt' = ends /\ endsAt' \subseteq Nat /\ UNCHANGED <<torn, ocfReader>>
  BY <1>7, <1>15, ContainerIs
<1>22. Shape(file, off, taken', endsAt') /\ (~ocfWriter.broken => Behind(file, off, taken', endsAt', g, c))
  BY <1>16, <1>19, <1>21
<1>23. (result.ok /\ ~ocfWriter.broken) =>
         /\ writer.bufferObjects = <<>> /\ off[Len(file)] + c = Len(taken')
         /\ IF writer.headerWritten THEN Len(file \o g) # 0 ELSE Len(file \o g) # 0 => EndAt(file \o g, 1)
         /\ endsAt' # {} => \E j \in 1..Len(file \o g) : EndAt(file \o g, j)
  BY <1>9, <1>13, <1>19, <1>21
<1> QED BY <1>1, <1>5, <1>6, <1>7, <1>13, <1>14, <1>18, <1>20, <1>21, <1>22, <1>23, ContainerIs, WritingKeepsContainer

LEMMA LeaveKeepsContainer ==
  ASSUME ContainerInv, LeaveFile
  PROVE  ContainerInv'
<1>1. PICK off \in [0..Len(file) -> Nat] : Known(off)
  BY DEF ContainerInv
<1>2. PICK n : /\ n \in (IF ocfWriter.shut THEN {sent} ELSE sent..Len(file))
               /\ file' = SubSeq(file, 1, n) /\ sent' = 0
               /\ torn' \in {FALSE, ocfWriter.broken \/ n < Len(file)}
  BY DEF LeaveFile
<1>3. ~ocfWriter.over /\ ocfWriter' = [NewWriter EXCEPT !.over = TRUE] /\ UNCHANGED <<taken, vouched, endsAt, ocfReader>>
  BY DEF LeaveFile
<1>4. n \in sent..Len(file) /\ n \in Nat
  BY <1>2, ContainerIs
<1>5. PICK v \in 0..Len(file) : Vouches(off, v)
  BY <1>1 DEF Known
<1>6. v \in Nat /\ (v = 0 \/ file[v].type = "sync") /\ vouched <= off[v] /\ v <= sent
  BY <1>3, <1>5, ContainerIs DEF Vouches
<1>7. Kept(SubSeq(file, 1, n), n, taken, endsAt, v, vouched, FALSE, 0)
  <2>1. n \in v..Len(file) /\ vouched \in Nat
    BY <1>4, <1>6, ContainerIs DEF ContainerTypes
  <2>2. Shape(file, off, taken, endsAt)
    BY <1>1 DEF Known
  <2> QED BY <1>6, <2>1, <2>2, ContainerIs, CutIsKept
<1>8. PICK h : h = file'
  OBVIOUS
<1>9. Kept(h, n, taken, endsAt, v, vouched, FALSE, 0)
  BY <1>2, <1>7, <1>8
<1>10. PICK to \in [0..Len(h) -> Nat] : Shape(h, to, taken, endsAt) /\ vouched <= to[v]
  BY <1>9 DEF Kept
<1>11. h \in Seq(Tokens) /\ Len(h) \in Nat /\ v \in 0..Len(h) /\ (v = 0 \/ h[v].type = "sync")
  BY <1>9 DEF Kept
<1>12. ocfWriter' \in Writers /\ ocfWriter'.over
  <2>1. NewWriter \in Writers
    <3>1. <<>> \in Seq(Objects) /\ FALSE \in BOOLEAN /\ 0 \in Nat
      OBVIOUS
    <3>2. NewWriter = [codec |-> Nothing, headerWritten |-> FALSE, bufferObjects |-> <<>>, broken |-> FALSE,
                       shut |-> FALSE, ends |-> 0, over |-> FALSE]
      BY Zenon DEF NewWriter, Nothing
    <3> QED BY <3>1, <3>2 DEF Writers
  <2> QED BY <1>3, <2>1 DEF Writers
<1>13. torn' \in BOOLEAN
  BY <1>2
<1>14. ContainerTypes'
  BY <1>2, <1>3, <1>12, <1>13, ContainerIs DEF ContainerTypes
<1>15. ocfReader.at = "new" /\ ocfReader'.at = "new"
  BY <1>3, ContainerIs DEF ReaderOK, ContainerTypes, Readers
<1>16. ReaderOK'
  BY <1>3, <1>15, ContainerIs DEF ReaderOK, FlushedIsRead, FlushedIsAccepted
<1>17. Known(to)'
  <2>1. Vouches(to, v)'
    BY <1>3, <1>8, <1>10, <1>11, <1>12 DEF Vouches
  <2>2. \E u \in 0..Len(file') : Vouches(to, u)'
    BY <1>8, <1>11, <2>1
  <2>3. Shape(file', to, taken', endsAt')
    BY <1>3, <1>8, <1>10
  <2> QED BY <1>12, <1>15, <2>2, <2>3 DEF Known
<1>18. sent' <= Len(file') /\ to \in [0..Len(file') -> Nat]
  BY <1>2, <1>8, <1>10, <1>11
<1> QED BY <1>14, <1>16, <1>17, <1>18 DEF ContainerInv

-----------------------------------------------------------------------------
(* What the reader does.                                                   *)
LEMMA ReaderIs ==
  ASSUME ContainerInv, NEW reader \in Readers, ocfReader' = reader,
         UNCHANGED <<ocfWriter, file, sent, torn, taken, vouched, endsAt>>,
         reader.at # "new" => ocfWriter.over, reader.at \in {"new", "stuck"} => reader.got = <<>>,
         Len(reader.got) <= Len(taken) /\ \A j \in 1..Len(reader.got) : reader.got[j] = taken[j],
         FlushedIsRead', FlushedIsAccepted', NEW off \in [0..Len(file) -> Nat], Known(off),
         reader.at = "blocks" => ReadTo(off)'
  PROVE  ContainerInv'
<1>1. ContainerTypes'
  BY ContainerIs DEF ContainerTypes
<1>2. ReaderOK'
  BY DEF ReaderOK
<1>3. Known(off)'
  <2>1. PICK v \in 0..Len(file) : Vouches(off, v)
    BY DEF Known
  <2>2. Vouches(off, v)'
    BY <2>1 DEF Vouches
  <2>3. \E u \in 0..Len(file') : Vouches(off, u)'
    BY <2>2
  <2>4. Shape(file', off, taken', endsAt')
    BY DEF Known
  <2>5. (~ocfWriter'.over /\ ~ocfWriter'.broken) => InHand(file', off, taken', endsAt', ocfWriter')
    BY DEF Known
  <2> QED BY <2>3, <2>4, <2>5 DEF Known
<1>4. sent' <= Len(file') /\ off \in [0..Len(file') -> Nat]
  BY ContainerIs
<1> QED BY <1>1, <1>2, <1>3, <1>4 DEF ContainerInv

\* What the reader knows of the file.
LEMMA FileIs ==
  ASSUME ContainerInv, NEW off \in [0..Len(file) -> Nat], Known(off)
  PROVE  /\ Shape(file, off, taken, endsAt) /\ off[0] = 0 /\ vouched \in Nat
         /\ \A i \in 0..Len(file) : off[i] \in Nat /\ off[i] <= Len(taken)
         /\ \A i \in 0..Len(file) : \A j \in i..Len(file) : off[i] <= off[j]
         /\ \E v \in 0..Len(file) : (v = 0 \/ file[v].type = "sync") /\ vouched <= off[v]
<1>1. Rising(file, off, taken) /\ Shape(file, off, taken, endsAt) /\ vouched \in Nat
  BY ContainerIs DEF Known, Shape, ContainerTypes
<1>2. \E v \in 0..Len(file) : (v = 0 \/ file[v].type = "sync") /\ vouched <= off[v]
  BY DEF Known, Vouches
<1> QED BY <1>1, <1>2 DEF Rising

LEMMA AskKeepsContainer ==
  ASSUME ContainerInv, AskUnread
  PROVE  ContainerInv'
<1>1. PICK off \in [0..Len(file) -> Nat] : Known(off)
  BY DEF ContainerInv
<1>2. ocfReader \in Readers /\ ocfReader.at = "new" /\ ocfWriter.over /\ ocfReader.got = <<>>
  BY ContainerIs DEF AskUnread, ContainerTypes, ReaderOK
<1>3. PICK reader : reader = ocfReader'
  OBVIOUS
<1>4. reader \in Readers /\ reader.at = "stuck" /\ reader.got = ocfReader.got
  BY <1>2, <1>3 DEF AskUnread, Readers
<1>5. UNCHANGED <<ocfWriter, file, sent, torn, taken, vouched, endsAt>>
  BY DEF AskUnread
<1>6. Len(reader.got) <= Len(taken) /\ \A j \in 1..Len(reader.got) : reader.got[j] = taken[j]
  BY <1>4, ContainerIs DEF ReaderOK
<1>7. FlushedIsRead' /\ FlushedIsAccepted'
  BY <1>3, <1>4 DEF FlushedIsRead, FlushedIsAccepted
<1> QED BY <1>1, <1>2, <1>3, <1>4, <1>5, <1>6, <1>7, ReaderIs

LEMMA ResetKeepsContainer ==
  ASSUME ContainerInv, Reset
  PROVE  ContainerInv'
<1>1. PICK off \in [0..Len(file) -> Nat] : Known(off)
  BY DEF ContainerInv
<1>2. ocfReader \in Readers /\ ocfWriter.over
  BY ContainerIs DEF Reset, ContainerTypes, ReaderOK
<1>3. PICK reader : reader = ocfReader'
  OBVIOUS
<1>4. <<>> \in Seq(Objects) /\ 1 \in Nat
  OBVIOUS
<1>5. reader \in Readers /\ reader.at = "new" /\ reader.got = <<>>
  BY <1>2, <1>3, <1>4, SMTT(30) DEF Reset, Readers
<1>6. UNCHANGED <<ocfWriter, file, sent, torn, taken, vouched, endsAt>>
  BY DEF Reset
<1>7. Len(reader.got) <= Len(taken) /\ \A j \in 1..Len(reader.got) : reader.got[j] = taken[j]
  <2>1. Len(reader.got) = 0 /\ 1..0 = {}
    BY <1>5
  <2> QED BY <2>1, ContainerIs
<1>8. FlushedIsRead' /\ FlushedIsAccepted'
  BY <1>3, <1>5 DEF FlushedIsRead, FlushedIsAccepted
<1> QED BY <1>1, <1>2, <1>3, <1>5, <1>6, <1>7, <1>8, ReaderIs

LEMMA ReadHeaderKeepsContainer ==
  ASSUME ContainerInv, ReadHeader
  PROVE  ContainerInv'
<1>1. PICK off \in [0..Len(file) -> Nat] : Known(off)
  BY DEF ContainerInv
<1>2. ocfReader \in Readers /\ ocfReader.at = "new" /\ ocfWriter.over /\ ocfReader.got = <<>>
  BY ContainerIs DEF ReadHeader, ContainerTypes, ReaderOK
<1>3. UNCHANGED <<ocfWriter, file, sent, torn, taken, vouched, endsAt>>
  BY DEF ReadHeader
<1>4. PICK reader : reader = ocfReader'
  OBVIOUS
<1>5. Len(ocfReader.got) = 0 /\ Len(ocfReader.got) <= Len(taken) /\ \A j \in 1..Len(ocfReader.got) : ocfReader.got[j] = taken[j]
  BY <1>2, ContainerIs DEF ReaderOK
<1>6. CASE Has("magic", 1) /\ Has("meta", 2) /\ Has("sync", 3)
  <2>1. PICK streams \in BOOLEAN : ocfReader' = [ocfReader EXCEPT !.at = "blocks", !.pos = 4, !.streams = streams]
    BY <1>6 DEF ReadHeader
  <2>2. reader \in Readers /\ reader.at = "blocks" /\ reader.pos = 4 /\ reader.got = ocfReader.got
    BY <1>2, <1>4, <2>1 DEF Readers
  <2>3. 3 <= Len(file) /\ file[1].type = "magic" /\ file[2].type = "meta" /\ file[3].type = "sync"
    BY <1>6 DEF Has
  <2>4. off[3] = 0
    <3>1. Holding(file, off, taken, 1) /\ Holding(file, off, taken, 2) /\ Holding(file, off, taken, 3)
      BY <1>1, <2>3, ContainerIs, FileIs DEF Shape
    <3>2. off[1] = off[0] /\ off[2] = off[1] /\ off[3] = off[2]
      BY <2>3, <3>1 DEF Holding
    <3> QED BY <1>1, <3>2, FileIs
  <2>5. ReadTo(off)'
    <3>1. \A j \in 1..3 : ~EndAt(file, j)
      BY <2>3 DEF EndAt
    <3>2. 4 \in 4..(Len(file) + 1) /\ 4 - 1 = 3
      BY <2>3, ContainerIs
    <3> QED BY <1>3, <1>4, <1>5, <2>2, <2>3, <2>4, <3>1, <3>2 DEF ReadTo
  <2>6. FlushedIsRead' /\ FlushedIsAccepted'
    BY <1>4, <2>2 DEF FlushedIsRead, FlushedIsAccepted
  <2> QED BY <1>1, <1>2, <1>3, <1>4, <1>5, <2>2, <2>5, <2>6, ReaderIs
<1>7. CASE ~(Has("magic", 1) /\ Has("meta", 2) /\ Has("sync", 3))
  <2>1. ocfReader' = [ocfReader EXCEPT !.at = "error"]
    BY <1>7 DEF ReadHeader
  <2>2. reader \in Readers /\ reader.at = "error" /\ reader.got = ocfReader.got
    BY <1>2, <1>4, <2>1 DEF Readers
  <2>3. vouched = 0 \/ (endsAt = {0} /\ vouched \in Nat)
    <3>1. PICK v \in 0..Len(file) : (v = 0 \/ file[v].type = "sync") /\ vouched <= off[v]
      BY <1>1, FileIs
    <3>2. off[0] = 0 /\ vouched \in Nat
      BY <1>1, FileIs
    <3>3. v = 0 => vouched = 0
      BY <3>1, <3>2
    <3>4. ASSUME v # 0 PROVE endsAt = {0}
      <4>1. 1 \in 1..Len(file) /\ v \in 1..Len(file) /\ file[v].type = "sync"
        BY <3>1, <3>4, ContainerIs
      <4>2. UnitAt(file, off, endsAt, 1)
        BY <1>1, <4>1, FileIs DEF Shape, Starts
      <4>3. ~FilledAt(file, 1)
        BY DEF FilledAt
      <4>4. ~HeaderAt(file, 1)
        <5> SUFFICES ASSUME HeaderAt(file, 1) PROVE FALSE
          OBVIOUS
        <5>1. file[1].type = "magic" /\ (2 <= Len(file) => file[2].type = "meta") /\ (3 <= Len(file) => file[3].type = "sync")
          BY DEF HeaderAt
        <5>2. ~(3 <= Len(file))
          BY <1>7, <5>1, ContainerIs DEF Has
        <5>3. v = 1 \/ (v = 2 /\ 2 <= Len(file))
          BY <4>1, <5>2, ContainerIs
        <5> QED BY <4>1, <5>1, <5>3
      <4>5. ClosedAt(file, off, endsAt, 1)
        BY <4>2, <4>3, <4>4 DEF UnitAt
      <4>6. endsAt = {off[1 - 1]}
        BY <4>5 DEF ClosedAt
      <4> QED BY <3>2, <4>6
    <3> QED BY <3>2, <3>3, <3>4
  <2>4. Len(reader.got) >= vouched \/ \E n \in endsAt : n < vouched
    <3>1. CASE vouched = 0
      BY <1>5, <2>2, <3>1
    <3>2. CASE vouched # 0
      <4>1. 0 \in endsAt /\ 0 < vouched
        BY <2>3, <3>2
      <4> QED BY <4>1
    <3> QED BY <3>1, <3>2
  <2>5. FlushedIsRead' /\ FlushedIsAccepted'
    BY <1>3, <1>4, <2>2, <2>4 DEF FlushedIsRead, FlushedIsAccepted
  <2> QED BY <1>1, <1>2, <1>3, <1>4, <1>5, <2>2, <2>5, ReaderIs
<1> QED BY <1>6, <1>7

\* The reader has got what there is before i.
ReadBefore(off, i, got) ==
  /\ i \in Nat /\ i >= 4 /\ got \in Seq(Objects) /\ Len(got) = off[i - 1]
  /\ (\A j \in 1..Len(got) : got[j] = taken[j]) /\ \A j \in 1..(i - 1) : ~EndAt(file, j)

\* A block holds the objects behind those before it.
LEMMA BlockHolds ==
  ASSUME ContainerInv, NEW off \in [0..Len(file) -> Nat], Known(off), NEW i, NEW got, ReadBefore(off, i, got), BlockAt(i)
  PROVE  /\ ReadBefore(off, i + 4, got \o file[i + 2].objects) /\ Len(got \o file[i + 2].objects) <= Len(taken)
         /\ i + 4 \in 4..(Len(file) + 1) /\ file[i + 3].type = "sync"
<1>1. /\ i \in Nat /\ i >= 4 /\ got \in Seq(Objects) /\ Len(got) = off[i - 1]
      /\ (\A j \in 1..Len(got) : got[j] = taken[j]) /\ \A j \in 1..(i - 1) : ~EndAt(file, j)
  BY DEF ReadBefore
<1>2. PICK more : more = got \o file[i + 2].objects
  OBVIOUS
<1>3. /\ i + 3 <= Len(file) /\ file[i].type = "count" /\ file[i].n > 0 /\ file[i + 1].type = "size"
      /\ file[i + 2].type = "data" /\ file[i + 3].type = "sync"
  BY DEF BlockAt, Has
<1>4. Len(file) \in Nat /\ i - 1 \in 0..Len(file) /\ i \in 1..Len(file) /\ i + 1 \in 1..Len(file)
      /\ i + 2 \in 1..Len(file) /\ i + 3 \in 1..Len(file)
  <2>1. ASSUME NEW l \in Nat, i + 3 <= l
        PROVE  i - 1 \in 0..l /\ i \in 1..l /\ i + 1 \in 1..l /\ i + 2 \in 1..l /\ i + 3 \in 1..l
    BY <1>1, <2>1
  <2>2. Len(file) \in Nat
    BY ContainerIs
  <2> QED BY <1>3, <2>1, <2>2
<1>5. /\ Holding(file, off, taken, i) /\ Holding(file, off, taken, i + 1)
      /\ Holding(file, off, taken, i + 2) /\ Holding(file, off, taken, i + 3)
  BY <1>4, FileIs DEF Shape
<1>6. PICK objects \in Seq(Objects) : objects = file[i + 2].objects
  <2>1. file[i + 2] \in Tokens
    BY <1>4, ContainerIs
  <2> QED BY <2>1 DEF Tokens
<1>7. (i + 1) - 1 = i /\ (i + 2) - 1 = i + 1 /\ (i + 3) - 1 = i + 2
  BY <1>1
<1>8. PICK o \in Nat : o = off[i - 1]
  BY <1>4
<1>9. off[i] = o /\ off[i + 1] = o /\ off[i + 2] = o + Len(objects) /\ off[i + 3] = o + Len(objects)
      /\ \A j \in 1..Len(objects) : objects[j] = taken[o + j]
  <2>1. off[i] = o
    BY <1>1, <1>3, <1>5, <1>8 DEF Holding
  <2>2. off[i + 1] = o
    BY <1>1, <1>3, <1>5, <1>7, <2>1 DEF Holding
  <2>3. off[i + 2] = o + Len(objects) /\ \A j \in 1..Len(objects) : objects[j] = taken[o + j]
    <3>1. /\ off[i + 2] = off[(i + 2) - 1] + Len(file[i + 2].objects)
          /\ \A j \in 1..Len(file[i + 2].objects) : file[i + 2].objects[j] = taken[off[(i + 2) - 1] + j]
      BY <1>1, <1>3, <1>5 DEF Holding
    <3>2. off[(i + 2) - 1] = o
      BY <1>7, <2>2
    <3> QED BY <1>6, <3>1, <3>2
  <2>4. off[i + 3] = o + Len(objects)
    <3>1. off[i + 3] = off[(i + 3) - 1]
      <4>1. Holding(file, off, taken, i + 3) /\ file[i + 3].type # "data"
        BY <1>3, <1>5
      <4> QED BY <4>1 DEF Holding
    <3>2. (i + 3) - 1 = i + 2
      BY <1>1
    <3> QED BY <2>3, <3>1, <3>2
  <2> QED BY <2>1, <2>2, <2>3, <2>4
<1>10. /\ more \in Seq(Objects) /\ Len(more) = Len(got) + Len(objects) /\ Len(got) \in Nat /\ Len(objects) \in Nat
      /\ (\A j \in 1..Len(got) : more[j] = got[j]) /\ \A j \in 1..Len(objects) : more[Len(got) + j] = objects[j]
  BY <1>1, <1>2, <1>6, ObjectsBehind, ZenonT(60)
<1>11. Len(got) = o
  BY <1>1, <1>8
<1>12. Len(more) = off[i + 3] /\ Len(more) <= Len(taken)
  <2>1. off[i + 3] <= Len(taken)
    <3>1. \A k \in 0..Len(file) : off[k] <= Len(taken)
      BY FileIs
    <3>2. \A k \in 1..Len(file) : k \in 0..Len(file)
      BY <1>4
    <3> QED BY <1>4, <3>1, <3>2
  <2> QED BY <1>9, <1>10, <1>11, <2>1
<1>13. ASSUME NEW j \in 1..Len(more) PROVE more[j] = taken[j]
  <2>1. CASE j <= Len(got)
    <3>1. j \in 1..Len(got)
      BY <1>10, <2>1
    <3> QED BY <1>1, <1>10, <3>1
  <2>2. CASE j > Len(got)
    <3>1. PICK k \in 1..Len(objects) : j = Len(got) + k
      <4>1. j - Len(got) \in 1..Len(objects) /\ j = Len(got) + (j - Len(got))
        BY <1>10, <2>2
      <4> QED BY <4>1
    <3>2. taken[j] = objects[k]
      BY <1>9, <1>11, <3>1
    <3> QED BY <1>10, <3>1, <3>2
  <2>3. j \in Int /\ Len(got) \in Int
    BY <1>10
  <2>4. j <= Len(got) \/ j > Len(got)
    BY <2>3
  <2> QED BY <2>1, <2>2, <2>4
<1>14. \A j \in 1..(i + 3) : ~EndAt(file, j)
  <2>1. ~EndAt(file, i) /\ ~EndAt(file, i + 1) /\ ~EndAt(file, i + 2) /\ ~EndAt(file, i + 3)
    <3>1. file[i].n # 0
      BY <1>3
    <3> QED BY <1>3, <3>1 DEF EndAt
  <2>2. \A j \in 1..(i + 3) : j \in 1..(i - 1) \/ j = i \/ j = i + 1 \/ j = i + 2 \/ j = i + 3
    <3>1. ASSUME NEW k \in Nat, NEW j \in 1..(k + 3)
          PROVE  j \in 1..(k - 1) \/ j = k \/ j = k + 1 \/ j = k + 2 \/ j = k + 3
      OBVIOUS
    <3> QED BY <1>1, <3>1
  <2> QED BY <1>1, <2>1, <2>2
<1>15. i + 4 \in 4..(Len(file) + 1)
  BY <1>1, <1>3, <1>4
<1>16. ReadBefore(off, i + 4, more)
  <2>1. i + 4 \in Nat /\ i + 4 >= 4 /\ i + 4 - 1 = i + 3
    BY <1>1
  <2> QED BY <1>10, <1>12, <1>13, <1>14, <2>1 DEF ReadBefore
<1> QED BY <1>2, <1>3, <1>12, <1>15, <1>16

\* What a block that the reader refuses, and that the last success covers, is like.
LEMMA RefusedIs ==
  ASSUME ContainerInv, NEW off \in [0..Len(file) -> Nat], Known(off), NEW i \in Nat, i >= 4, i <= Len(file),
         file[i - 1].type = "sync", \A j \in 1..(i - 1) : ~EndAt(file, j), ~AtEnd(i), ~BlockAt(i),
         NEW v \in i..Len(file), file[v].type = "sync"
  PROVE  Has("size", i + 1) /\ file[i + 1].n \notin 1..MaxBlockSize
<1>1. Len(file) \in Nat /\ i \in 1..Len(file) /\ 1 \in 1..(i - 1)
  BY ContainerIs
<1>2. UnitAt(file, off, endsAt, i)
  BY <1>1, FileIs DEF Shape, Starts
<1>3. ~HeaderAt(file, i)
  BY <1>1 DEF HeaderAt
<1>4. ~ClosedAt(file, off, endsAt, i)
  <2> SUFFICES ASSUME ClosedAt(file, off, endsAt, i) PROVE FALSE
    OBVIOUS
  <2>1. file[i].type = "count" /\ file[i].n = 0 /\ (i + 1 <= Len(file) => file[i + 1].type = "sync")
    BY DEF ClosedAt, EndAt
  <2>2. ~(i + 1 <= Len(file))
    BY <1>1, <2>1 DEF AtEnd, Has
  <2>3. v = i
    BY <1>1, <2>2
  <2> QED BY <2>1, <2>3
<1>5. FilledAt(file, i)
  BY <1>2, <1>3, <1>4 DEF UnitAt
<1>6. /\ file[i].type = "count" /\ file[i].n \in Nat /\ file[i].n # 0
      /\ i + 1 <= Len(file) => file[i + 1].type = "size"
      /\ i + 2 <= Len(file) => file[i + 2].type = "data"
      /\ i + 3 <= Len(file) => file[i + 3].type = "sync"
  BY <1>5 DEF FilledAt
<1>7. i + 3 <= Len(file)
  <2>1. v \in Nat /\ i <= v /\ v <= Len(file)
    BY <1>1
  <2>2. v # i
    BY <1>6
  <2>3. v # i + 1
    BY <1>6, <2>1
  <2>4. v # i + 2
    BY <1>6, <2>1
  <2> QED BY <1>1, <2>1, <2>2, <2>3, <2>4
<1>8. Has("count", i) /\ file[i].n > 0 /\ Has("size", i + 1) /\ Has("data", i + 2) /\ Has("sync", i + 3)
  <2>1. i <= Len(file) /\ i + 1 <= Len(file) /\ i + 2 <= Len(file)
    BY <1>1, <1>7
  <2>2. file[i].n > 0
    BY <1>6
  <2> QED BY <1>6, <1>7, <2>1, <2>2 DEF Has
<1>9. ~SizeAccepted(file[i + 1].n)
  BY <1>8 DEF BlockAt
<1>10. file[i + 1].n \notin 1..MaxBlockSize
  BY <1>9 DEF SizeAccepted
<1> QED BY <1>8, <1>10

LEMMA ReadBlockKeepsContainer ==
  ASSUME ContainerInv, ReadBlockObjects
  PROVE  ContainerInv'
<1>1. PICK off \in [0..Len(file) -> Nat] : Known(off)
  BY DEF ContainerInv
<1>2. ocfReader \in Readers /\ ocfReader.at = "blocks" /\ ocfWriter.over
  BY ContainerIs DEF ReadBlockObjects, ContainerTypes, ReaderOK
<1>3. UNCHANGED <<ocfWriter, file, sent, torn, taken, vouched, endsAt>>
  BY DEF ReadBlockObjects
<1>4. PICK reader : reader = ocfReader'
  OBVIOUS
<1>5. PICK i \in Nat : i = ocfReader.pos
  BY <1>2 DEF Readers
<1>6. PICK got \in Seq(Objects) : got = ocfReader.got
  BY <1>2 DEF Readers
<1>7. /\ i \in 4..(Len(file) + 1) /\ file[i - 1].type = "sync" /\ Len(got) = off[i - 1]
      /\ \A j \in 1..(i - 1) : ~EndAt(file, j)
  BY <1>1, <1>2, <1>5, <1>6 DEF Known, ReadTo
<1>8. Len(got) <= Len(taken) /\ \A j \in 1..Len(got) : got[j] = taken[j]
  BY <1>6, ContainerIs DEF ReaderOK
<1>9. PICK v \in 0..Len(file) : (v = 0 \/ file[v].type = "sync") /\ vouched <= off[v]
  BY <1>1, FileIs
<1>10. v <= i - 1 => Len(got) >= vouched
  <2>1. Len(file) \in Nat /\ vouched \in Nat /\ Len(got) \in Nat
    BY <1>1, ContainerIs, FileIs
  <2>2. i - 1 \in 0..Len(file)
    BY <1>7, <2>1
  <2>3. v <= i - 1 => i - 1 \in v..Len(file)
    BY <1>9, <2>1, <2>2
  <2>4. v <= i - 1 => off[v] <= off[i - 1]
    BY <1>1, <1>9, <2>3, FileIs
  <2>5. off[v] \in Nat
    BY <1>1, <1>9
  <2> QED BY <1>7, <1>9, <2>1, <2>4, <2>5
<1>11. CASE AtEnd(i)
  <2>1. ocfReader' = [ocfReader EXCEPT !.at = "eof"]
    BY <1>5, <1>11 DEF ReadBlockObjects
  <2>2. reader \in Readers /\ reader.at = "eof" /\ reader.got = got /\ reader.pos = i
    BY <1>2, <1>4, <1>5, <1>6, <2>1 DEF Readers
  <2>3. Converted' = got
    BY <1>4, <2>2 DEF Converted
  <2>4. Len(file) \in Nat /\ vouched \in Nat /\ Len(got) \in Nat
    BY <1>1, ContainerIs, FileIs
  <2>5. /\ Len(got) >= vouched \/ \E n \in endsAt : n < vouched
        /\ IF Has("count", i) THEN endsAt = {Len(got)} ELSE ~torn
    <3>1. CASE i > Len(file) /\ ~torn
      <4>1. v <= i - 1 /\ ~Has("count", i)
        BY <1>7, <1>9, <2>4, <3>1 DEF Has
      <4> QED BY <1>10, <3>1, <4>1
    <3>2. CASE Has("count", i) /\ file[i].n = 0 /\ Has("sync", i + 1)
      <4>1. i \in 1..Len(file) /\ i # 1 /\ EndAt(file, i) /\ 1 \in 1..(i - 1)
        BY <1>7, <2>4, <3>2, SMTT(30) DEF Has, EndAt
      <4>2. UnitAt(file, off, endsAt, i)
        BY <1>1, <1>7, <4>1, FileIs DEF Shape, Starts
      <4>3. ~HeaderAt(file, i) /\ ~FilledAt(file, i)
        BY <1>7, <3>2, <4>1 DEF HeaderAt, FilledAt
      <4>4. ClosedAt(file, off, endsAt, i)
        BY <4>2, <4>3 DEF UnitAt
      <4>5. endsAt = {Len(got)}
        BY <1>7, <4>4 DEF ClosedAt
      <4>6. Len(got) >= vouched \/ Len(got) < vouched
        BY <2>4
      <4> QED BY <3>2, <4>5, <4>6
    <3> QED BY <1>11, <3>1, <3>2 DEF AtEnd
  <2>6. Has("count", reader.pos)' <=> Has("count", i)
    BY <1>3, <2>2 DEF Has
  <2>7. FlushedIsRead' /\ FlushedIsAccepted'
    <3>1. FlushedIsAccepted'
      BY <1>4, <2>2 DEF FlushedIsAccepted
    <3>2. FlushedIsRead'
      BY <1>3, <1>4, <2>2, <2>3, <2>5 DEF FlushedIsRead, Has
    <3> QED BY <3>1, <3>2
  <2> QED BY <1>1, <1>2, <1>3, <1>4, <1>8, <2>2, <2>7, ReaderIs
<1>12. CASE ~AtEnd(i) /\ BlockAt(i)
  <2>1. PICK more : more = got \o file[i + 2].objects
    OBVIOUS
  <2>2. /\ more \in Seq(Objects) /\ Len(more) <= Len(taken) /\ \A j \in 1..Len(more) : more[j] = taken[j]
        /\ Len(more) = off[i + 3] /\ i + 4 \in 4..(Len(file) + 1) /\ file[i + 3].type = "sync"
        /\ \A j \in 1..(i + 3) : ~EndAt(file, j)
    <3>1. i >= 4
      <4>1. Len(file) \in Nat
        BY ContainerIs
      <4> QED BY <1>7, <4>1
    <3>2. ReadBefore(off, i, got)
      BY <1>5, <1>6, <1>7, <1>8, <3>1 DEF ReadBefore
    <3>3. /\ ReadBefore(off, i + 4, more) /\ Len(more) <= Len(taken)
          /\ i + 4 \in 4..(Len(file) + 1) /\ file[i + 3].type = "sync"
      BY <1>1, <1>12, <2>1, <3>2, BlockHolds
    <3>4. i + 4 - 1 = i + 3
      BY <1>5
    <3> QED BY <3>3, <3>4 DEF ReadBefore
  <2>3. PICK next \in Nat : next = i + 4
    BY <1>5
  <2>4. ocfReader' = [ocfReader EXCEPT !.pos = next, !.got = more]
    BY <1>5, <1>6, <1>12, <2>1, <2>3 DEF ReadBlockObjects
  <2>5. reader \in Readers /\ reader.at = "blocks" /\ reader.got = more /\ reader.pos = next
    BY <1>2, <1>4, <2>2, <2>3, <2>4 DEF Readers
  <2>6. ReadTo(off)'
    <3>1. next - 1 = i + 3
      BY <1>5, <2>3
    <3>2. /\ next \in 4..(Len(file) + 1) /\ file[next - 1].type = "sync" /\ Len(more) = off[next - 1]
          /\ \A j \in 1..(next - 1) : ~EndAt(file, j)
      BY <2>2, <2>3, <3>1
    <3>3. ocfReader'.pos = next /\ ocfReader'.got = more /\ file' = file
      BY <1>3, <1>4, <2>5
    <3> QED BY <3>2, <3>3 DEF ReadTo
  <2>7. FlushedIsRead' /\ FlushedIsAccepted'
    BY <1>4, <2>5 DEF FlushedIsRead, FlushedIsAccepted
  <2> QED BY <1>1, <1>2, <1>3, <1>4, <2>2, <2>5, <2>6, <2>7, ReaderIs
<1>13. CASE ~AtEnd(i) /\ ~BlockAt(i)
  <2>1. ocfReader' = [ocfReader EXCEPT !.at = "error"]
    BY <1>5, <1>13 DEF ReadBlockObjects
  <2>2. reader \in Readers /\ reader.at = "error" /\ reader.got = got /\ reader.pos = i
    BY <1>2, <1>4, <1>5, <1>6, <2>1 DEF Readers
  <2>3. Len(got) >= vouched \/ (Has("size", i + 1) /\ file[i + 1].n \notin 1..MaxBlockSize)
    <3>1. CASE v <= i - 1
      BY <1>10, <3>1
    <3>2. CASE ~(v <= i - 1)
      <4>1. Len(file) \in Nat
        BY ContainerIs
      <4>2. v \in i..Len(file) /\ i <= Len(file) /\ i >= 4 /\ v # 0
        BY <1>7, <1>9, <3>2, <4>1
      <4> QED BY <1>1, <1>5, <1>7, <1>9, <1>13, <4>2, RefusedIs
    <3> QED BY <3>1, <3>2
  <2>4. FlushedIsRead' /\ FlushedIsAccepted'
    BY <1>3, <1>4, <2>2, <2>3 DEF FlushedIsRead, FlushedIsAccepted, Has
  <2> QED BY <1>1, <1>2, <1>3, <1>4, <1>8, <2>2, <2>4, ReaderIs
<1> QED BY <1>11, <1>12, <1>13

-----------------------------------------------------------------------------
LEMMA ContainerInitially ==
  ASSUME OCFInit
  PROVE  ContainerInv
<1>1. /\ file = <<>> /\ sent = 0 /\ torn = FALSE /\ taken = <<>> /\ vouched = 0 /\ endsAt = {} /\ ocfWriter = NewWriter
      /\ ocfReader = [at |-> "new", pos |-> 1, got |-> <<>>, passes |-> 1, streams |-> FALSE]
  BY DEF OCFInit
<1>2. <<>> \in Seq(Objects) /\ <<>> \in Seq(Tokens) /\ 0 \in Nat /\ 1 \in Nat
  OBVIOUS
<1>3. /\ ocfWriter.bufferObjects = <<>> /\ ocfWriter.headerWritten = FALSE /\ ocfWriter.over = FALSE
      /\ ocfWriter \in Writers
  <2>1. NewWriter = [codec |-> Nothing, headerWritten |-> FALSE, bufferObjects |-> <<>>, broken |-> FALSE,
                     shut |-> FALSE, ends |-> 0, over |-> FALSE]
    BY Zenon DEF NewWriter, Nothing
  <2> QED BY <1>1, <1>2, <2>1 DEF Writers
<1>4. ocfReader \in Readers /\ ocfReader.at = "new" /\ ocfReader.got = <<>>
  BY <1>1, <1>2 DEF Readers
<1>5. ContainerTypes
  BY <1>1, <1>2, <1>3, <1>4 DEF ContainerTypes
<1>6. Len(<<>>) = 0 /\ 1..0 = {}
  OBVIOUS
<1>7. ReaderOK
  BY <1>1, <1>4, <1>6 DEF ReaderOK, FlushedIsRead, FlushedIsAccepted
<1>8. PICK off : off = [i \in 0..0 |-> 0]
  OBVIOUS
<1>9. off \in [0..0 -> Nat] /\ off[0] = 0 /\ Len(file) = 0
  BY <1>1, <1>6, <1>8
<1>10. Rising(file, off, taken)
  BY <1>1, <1>6, <1>9 DEF Rising
<1>11. Shape(file, off, taken, endsAt)
  BY <1>1, <1>2, <1>6, <1>9, <1>10 DEF Shape
<1>12. InHand(file, off, taken, endsAt, ocfWriter)
  BY <1>1, <1>3, <1>6, <1>9 DEF InHand, Whole
<1>13. Vouches(off, 0) /\ 0 \in 0..Len(file)
  BY <1>1, <1>9 DEF Vouches
<1>14. Known(off)
  BY <1>4, <1>11, <1>12, <1>13 DEF Known
<1> QED BY <1>1, <1>5, <1>7, <1>9, <1>14 DEF ContainerInv

LEMMA ContainerStep ==
  ASSUME ContainerInv, OCFNext
  PROVE  ContainerInv'
<1>1. ASSUME NEW codec \in Codecs, WriteHeader(codec) PROVE ContainerInv'
  BY <1>1, HeaderKeepsContainer
<1>2. ASSUME NEW objects \in ObjectLists, WriteBlock(objects) PROVE ContainerInv'
  BY <1>2, WriteBlockKeepsContainer
<1> QED BY <1>1, <1>2, FlushKeepsContainer, CloseKeepsContainer, LeaveKeepsContainer, ReadHeaderKeepsContainer,
           AskKeepsContainer, ReadBlockKeepsContainer, ResetKeepsContainer DEF OCFNext

LEMMA ContainerStays ==
  ASSUME ContainerInv, UNCHANGED ocfVars
  PROVE  ContainerInv'
<1>1. /\ ocfWriter' = ocfWriter /\ file' = file /\ sent' = sent /\ torn' = torn /\ taken' = taken
      /\ vouched' = vouched /\ endsAt' = endsAt /\ ocfReader' = ocfReader
  BY DEF ocfVars
<1>2. ContainerTypes'
  BY <1>1, ContainerIs DEF ContainerTypes
<1>3. ReaderOK'
  <2>1. Converted' = Converted
    BY <1>1 DEF Converted
  <2> QED BY <1>1, <2>1, ContainerIs DEF ReaderOK, FlushedIsRead, FlushedIsAccepted, Has
<1>4. PICK off \in [0..Len(file) -> Nat] : Known(off)
  BY DEF ContainerInv
<1>5. Known(off)'
  <2>1. PICK v \in 0..Len(file) : Vouches(off, v)
    BY <1>4 DEF Known
  <2>2. Vouches(off, v)'
    BY <1>1, <2>1 DEF Vouches
  <2>3. \E u \in 0..Len(file') : Vouches(off, u)'
    BY <1>1, <2>2
  <2>4. ReadTo(off)' <=> ReadTo(off)
    BY <1>1 DEF ReadTo
  <2> QED BY <1>1, <1>4, <2>3, <2>4 DEF Known
<1>6. sent' <= Len(file') /\ off \in [0..Len(file') -> Nat]
  BY <1>1, <1>4, ContainerIs
<1> QED BY <1>2, <1>3, <1>5, <1>6 DEF ContainerInv

LEMMA ContainerComesThrough ==
  ASSUME ContainerInv
  PROVE  ConvertedWasWritten /\ FlushedIsRead /\ FlushedIsAccepted
<1>1. ocfReader.got \in Seq(Objects) /\ taken \in Seq(Objects)
  BY ContainerIs DEF ContainerTypes, Readers
<1>2. <<>> \in Seq(Objects) /\ Len(<<>>) = 0 /\ 1..0 = {}
  OBVIOUS
<1>3. IsPrefix(ocfReader.got, taken)
  BY <1>1, ContainerIs, FirstArePrefix DEF ReaderOK
<1>4. IsPrefix(<<>>, taken)
  <2>1. Len(<<>>) <= Len(taken) /\ \A i \in 1..Len(<<>>) : (<<>>)[i] = taken[i]
    BY <1>2, ContainerIs
  <2> QED BY <1>1, <1>2, <2>1, FirstArePrefix
<1>5. IsPrefix(Converted, taken)
  BY <1>3, <1>4 DEF Converted
<1> QED BY <1>5, ContainerIs DEF ConvertedWasWritten, ReaderOK

-----------------------------------------------------------------------------
(* What an encoder appends comes out in order, once each and in the schema *)
(* of the time, however its writes and flushes fail; a decoder hands out   *)
(* what was written in the schema that is set, and says of the rest that   *)
(* it is missing; a container's reader hands out what its writer took, and *)
(* all of it up to the last successful flush unless it is told of an error *)
(* -- for every list of records, size of blocks and of buffers, and number *)
(* of failures, calls of Close and passes.                                 *)
THEOREM AvroSafety == FormatsSpec => []AvroComesThrough
<1> DEFINE Inv == /\ format = "container" => ContainerInv
                  /\ format = "encoder" => EncoderInv
                  /\ format = "decoder" => DecoderInv
<1>1. FormatsInit => Inv
  BY ContainerInitially, EncoderInitially, DecoderInitially DEF FormatsInit
<1>2. Inv /\ [FormatsNext]_formatsVars => Inv'
  <2> SUFFICES ASSUME Inv, [FormatsNext]_formatsVars PROVE Inv'
    OBVIOUS
  <2>1. CASE format' = "container"
    <3>1. format = "container" /\ ContainerInv /\ (OCFNext \/ UNCHANGED ocfVars)
      BY <2>1 DEF FormatsNext, formatsVars
    <3>2. ContainerInv'
      BY <3>1, ContainerStep, ContainerStays
    <3> QED BY <2>1, <3>2
  <2>2. CASE format' = "encoder"
    <3>1. format = "encoder" /\ EncoderInv /\ (AvroWriterNext \/ UNCHANGED avroWriterVars)
      BY <2>2 DEF FormatsNext, formatsVars
    <3>2. EncoderInv'
      BY <3>1, EncoderStep, EncoderStays
    <3> QED BY <2>2, <3>2
  <2>3. CASE format' = "decoder"
    <3>1. format = "decoder" /\ DecoderInv /\ (AvroReaderNext \/ UNCHANGED avroReaderVars)
      BY <2>3 DEF FormatsNext, formatsVars
    <3>2. DecoderInv'
      BY <3>1, DecoderStep, DecoderStays
    <3> QED BY <2>3, <3>2
  <2> QED BY <2>1, <2>2, <2>3
<1>3. Inv => AvroComesThrough
  BY ContainerComesThrough, EncoderComesThrough DEF AvroComesThrough, DecoderInv
<1> QED BY <1>1, <1>2, <1>3, PTL DEF FormatsSpec
=============================================================================
