---------------------------- MODULE SchemaCache ----------------------------
(***************************************************************************)
(* The cache of near-static reads (core/cache.ts), for the keys of one     *)
(* profile and instance: entries with a TTL in a Map whose order is their  *)
(* recency, loads that are awaited, and the clears when credentials change *)
(* (tools/admin.ts).  Several readers may load one key at a time.          *)
(***************************************************************************)
EXTENDS Naturals, FiniteSets

CONSTANTS Keys,       \* what is read: a list of tables, a table's columns, ...
          Readers,    \* calls of cached, made again and again
          MaxEntries, \* SN_SCHEMA_CACHE_MAX
          MaxUsers,   \* bound: changes of the credentials
          NoKey

ASSUME SchemaCacheAssumption ==
    /\ MaxEntries \in Nat \ {0} /\ MaxUsers \in Nat
    /\ NoKey \notin Keys

VARIABLES held,     \* keys in the Map
          older,    \* its order: <<j, k>> when j comes before k
          live,     \* those of held whose TTL is not over
          identity, \* the number of the credentials
          under,    \* per key, the credentials its value was read under
          load,     \* per reader, the key it awaits and the credentials it reads under
          racing,   \* history: keys somebody was reading when the credentials changed
          since,    \* history: per key, the others used since its last use
          wanted    \* history: keys used and since then neither expired nor cleared

cacheVars == <<held, older, live, identity, under, load, racing, since, wanted>>

Loads == [key : Keys \cup {NoKey}, under : Nat]
NoLoad == [key |-> NoKey, under |-> 0]

CacheTypeOK ==
    /\ live \subseteq held /\ held \subseteq Keys /\ older \subseteq held \X held
    /\ identity \in Nat /\ under \in [Keys -> Nat]
    /\ load \in [Readers -> Loads]
    /\ racing \subseteq Keys /\ wanted \subseteq Keys
    /\ since \in [Keys -> SUBSET Keys]

CacheInit ==
    /\ held = {} /\ older = {} /\ live = {}
    /\ identity = 0 /\ under = [k \in Keys |-> 0]
    /\ load = [r \in Readers |-> NoLoad]
    /\ racing = {} /\ wanted = {} /\ since = [k \in Keys |-> {}]

-----------------------------------------------------------------------------
(* The Map *)

Among(keys) == older \cap (keys \X keys)

\* Entry k goes to the end of the Map, behind the entries that stay.
PutLast(stay, k) ==
    /\ held' = stay \cup {k}
    /\ older' = Among(stay) \cup (stay \X {k})
    /\ live' = (live \cap stay) \cup {k}
    /\ since' = [j \in Keys |-> IF j = k THEN {} ELSE since[j] \cup {k}]
    /\ wanted' = wanted \cup {k}

\* What stays of the entries when the first of them are removed for one more.
Room(entries) ==
    {stay \in SUBSET entries :
       /\ Cardinality(stay) = IF Cardinality(entries) < MaxEntries
                                THEN Cardinality(entries) ELSE MaxEntries - 1
       /\ \A j \in entries \ stay, k \in stay : <<j, k>> \in older}

-----------------------------------------------------------------------------
(* cached *)

\* Mutant: a hit does not refresh the recency.
Hit_InPlace(k) ==
    /\ k \in live
    /\ since' = [j \in Keys |-> IF j = k THEN {} ELSE since[j] \cup {k}]
    /\ wanted' = wanted \cup {k}
    /\ UNCHANGED <<held, older, live, identity, under, load, racing>>

\* Served from the cache, and put last.
Hit(k) ==
    /\ k \in live
    /\ PutLast(held \ {k}, k)
    /\ UNCHANGED <<identity, under, load, racing>>

\* Absent or expired: the loader is awaited.
Miss(r, k) ==
    /\ load[r] = NoLoad /\ k \notin live
    /\ held' = held \ {k} /\ older' = Among(held \ {k}) /\ live' = live
    /\ load' = [load EXCEPT ![r] = [key |-> k, under |-> identity]]
    /\ UNCHANGED <<identity, under, racing, since, wanted>>

\* Mutant: the cache is full only past its maximum.
Insert_OneMore(r) ==
    LET k == load[r].key IN
    /\ k # NoKey
    /\ \E stay \in Room(live \ {k}) \cup {e \in {live \ {k}} : Cardinality(e) = MaxEntries} :
         PutLast(stay, k)
    /\ under' = [under EXCEPT ![k] = load[r].under]
    /\ load' = [load EXCEPT ![r] = NoLoad]
    /\ UNCHANGED <<identity, racing>>

\* The loader is done: sweep what is expired, drop the key if another reader
\* stored it meanwhile, make room and store.
Insert(r) ==
    LET k == load[r].key IN
    /\ k # NoKey
    /\ \E stay \in Room(live \ {k}) : PutLast(stay, k)
    /\ under' = [under EXCEPT ![k] = load[r].under]
    /\ load' = [load EXCEPT ![r] = NoLoad]
    /\ UNCHANGED <<identity, racing>>

\* The loader fails, and the call with it.
LoadFails(r) ==
    /\ load[r] # NoLoad
    /\ load' = [load EXCEPT ![r] = NoLoad]
    /\ UNCHANGED <<held, older, live, identity, under, racing, since, wanted>>

\* The TTL of an entry passes; it stays in the Map until the next insert.
Expire(k) ==
    /\ k \in live
    /\ live' = live \ {k} /\ wanted' = wanted \ {k}
    /\ UNCHANGED <<held, older, identity, under, load, racing, since>>

Empty == held' = {} /\ older' = {} /\ live' = {} /\ wanted' = {}

\* clearSchemaCache on a switch of the profile, or a dispose of the runtime.
Clear ==
    /\ Empty
    /\ UNCHANGED <<identity, under, load, racing, since>>

\* Mutant: the keys do not name the user, and the cache is not cleared.
ChangeCredentials_Keeps ==
    /\ identity < MaxUsers /\ identity' = identity + 1
    /\ racing' = {load[r].key : r \in Readers} \ {NoKey}
    /\ UNCHANGED <<held, older, live, wanted, under, load, since>>

\* set_credentials: the same keys are read as another user from now on.
ChangeCredentials ==
    /\ identity < MaxUsers /\ identity' = identity + 1
    /\ Empty
    /\ racing' = {load[r].key : r \in Readers} \ {NoKey}
    /\ UNCHANGED <<under, load, since>>

CacheNext ==
    \/ \E k \in Keys : Hit(k) \/ Expire(k) \/ \E r \in Readers : Miss(r, k)
    \/ \E r \in Readers : Insert(r) \/ LoadFails(r)
    \/ Clear \/ ChangeCredentials

CacheSpec == CacheInit /\ [][CacheNext]_cacheVars

-----------------------------------------------------------------------------
(* Properties *)

\* The cap, however many readers load at once (cache.ts:11, 123-133).
WithinMax == Cardinality(held) <= MaxEntries

\* Least recently used (cache.ts:11-15): an entry gives way only when at least
\* MaxEntries other keys were used since it was, unless it expired or was cleared.
\* Neither what is expired nor the key that is stored takes room from another.
UsedStay == \A k \in wanted : Cardinality(since[k]) < MaxEntries => k \in held

\* Both: room is made exactly when it is needed, and from the right end.
EvictsByUse == WithinMax /\ UsedStay

\* No entry was read under credentials that have changed since (admin.ts:497-506),
\* unless somebody was reading it when they were.
ReadAsCurrent == \A k \in held \ racing : under[k] = identity
=============================================================================
