---------------------------- MODULE TwoLevelCache ----------------------------
(***************************************************************************)
(* internal/cache/two_level_cache.go, as the query services use it: one    *)
(* key, read again and again by concurrent requests of one process while   *)
(* the row behind it changes.  The value of the key is the version of the  *)
(* row.                                                                    *)
(*                                                                         *)
(* A read looks into L1 (go-cache, in this process), then L2 (Redis), then *)
(* the database; what it finds it copies upwards.  L2 is written by a      *)
(* goroutine that nobody waits for.  No step is protected from the others. *)
(*                                                                         *)
(* Time is counted in ticks, and only as what is left of an entry and as   *)
(* the age of what was replaced, so a run may be of any length.  A read is *)
(* shorter than a tick, so the clock waits for the reads and writes that   *)
(* have begun (a TTL is minutes, a Redis or MySQL timeout seconds); an     *)
(* entry stored during one tick ends somewhere in the tick its TTL later,  *)
(* and may still be read in that one.                                      *)
(***************************************************************************)
EXTENDS Integers

CONSTANTS Readers,    \* goroutines that call GetOrFetch, again and again
          LocalTTL,   \* cache.local_ttl in ticks
          RedisTTL,   \* cache.redis_ttl in ticks
          MaxVersion  \* bound: the row has versions 0..MaxVersion

ASSUME TwoLevelCacheAssumption ==
  /\ LocalTTL \in Nat /\ RedisTTL \in Nat
  /\ MaxVersion \in Nat

VARIABLES
  version,   \* the current version of the row
  age,       \* the ticks since each earlier version was replaced
  local,     \* the L1 entry: its version and the ticks it has left
  redis,     \* the L2 entry
  pc,        \* where each reader is
  value,     \* the version each reader has got
  writing,   \* the readers whose background goroutine has yet to SET in Redis
  evicting   \* whether an Evict is between its two deletes

source == <<version, age>>
cache  == <<local, redis, pc, value, writing, evicting>>
vars   == <<source, cache>>

Versions == 0..MaxVersion
MaxStale == LocalTTL + RedisTTL
MaxAge   == MaxStale + 1   \* ages are counted up to this

Entry(v, ttl) == [version |-> v, left |-> ttl]
NoEntry       == [version |-> 0, left |-> -1]

Usable(e) == e.left >= 0
Over(e)   == e.left <= 0

-----------------------------------------------------------------------------
Init ==
  /\ version = 0
  /\ age = [v \in Versions |-> 0]
  /\ local = NoEntry
  /\ redis = NoEntry
  /\ pc = [r \in Readers |-> "start"]
  /\ value = [r \in Readers |-> 0]
  /\ writing = {}
  /\ evicting = FALSE

Goto(r, l) == pc' = [pc EXCEPT ![r] = l]

-----------------------------------------------------------------------------
\* GetOrFetch.

\* L1 has an unexpired entry.
LocalHit(r) ==
  /\ pc[r] = "start"
  /\ Usable(local)
  /\ value' = [value EXCEPT ![r] = local.version]
  /\ Goto(r, "returned")
  /\ UNCHANGED <<source, local, redis, writing, evicting>>

LocalMiss(r) ==
  /\ pc[r] = "start"
  /\ Over(local)
  /\ Goto(r, "askRedis")
  /\ UNCHANGED <<source, local, redis, value, writing, evicting>>

\* L2 has an entry; it is copied to L1 with a full local TTL in a later step.
RedisHit(r) ==
  /\ pc[r] = "askRedis"
  /\ Usable(redis)
  /\ value' = [value EXCEPT ![r] = redis.version]
  /\ Goto(r, "copyDown")
  /\ UNCHANGED <<source, local, redis, writing, evicting>>

\* Mutant of CopyDown: a hit also renews the entry in Redis.
CopyDownAndRenew(r) ==
  /\ pc[r] = "copyDown"
  /\ local' = Entry(value[r], LocalTTL)
  /\ redis' = Entry(value[r], RedisTTL)
  /\ Goto(r, "returned")
  /\ UNCHANGED <<source, value, writing, evicting>>

\* c.local.Set after an L2 hit.
CopyDown(r) ==
  /\ pc[r] = "copyDown"
  /\ local' = Entry(value[r], LocalTTL)
  /\ Goto(r, "returned")
  /\ UNCHANGED <<source, redis, value, writing, evicting>>

\* redis.Nil, or any error of Redis, at any time: ask the database.
RedisMiss(r) ==
  /\ pc[r] = "askRedis"
  /\ Goto(r, "fetch")
  /\ UNCHANGED <<source, local, redis, value, writing, evicting>>

\* fetch() returns the row as it is now.
Fetch(r) ==
  /\ pc[r] = "fetch"
  /\ value' = [value EXCEPT ![r] = version]
  /\ Goto(r, "store")
  /\ UNCHANGED <<source, local, redis, writing, evicting>>

\* fetch() fails, and so does GetOrFetch; nothing is cached.
FetchFails(r) ==
  /\ pc[r] = "fetch"
  /\ Goto(r, "failed")
  /\ UNCHANGED <<source, local, redis, value, writing, evicting>>

\* c.local.Set; go c.redis.Set.
Store(r) ==
  /\ pc[r] = "store"
  /\ local' = Entry(value[r], LocalTTL)
  /\ writing' = writing \cup {r}
  /\ Goto(r, "returned")
  /\ UNCHANGED <<source, redis, value, evicting>>

\* The background SET reaches Redis, or fails unnoticed.
WriteRedis(r) ==
  /\ r \in writing
  /\ redis' \in {redis, Entry(value[r], RedisTTL)}
  /\ writing' = writing \ {r}
  /\ UNCHANGED <<source, local, pc, value, evicting>>

\* GetOrFetch returned; the goroutine will read again.  (Bound: not before its
\* background SET is over, so that each has at most one under way.)
ReadAgain(r) ==
  /\ pc[r] \in {"returned", "failed"}
  /\ r \notin writing
  /\ value' = [value EXCEPT ![r] = 0]
  /\ Goto(r, "start")
  /\ UNCHANGED <<source, local, redis, writing, evicting>>

-----------------------------------------------------------------------------
\* Evict: delete from L1, then from L2 (which may fail).

EvictLocal ==
  /\ ~evicting
  /\ local' = NoEntry
  /\ evicting' = TRUE
  /\ UNCHANGED <<source, redis, pc, value, writing>>

EvictRedis ==
  /\ evicting
  /\ redis' \in {redis, NoEntry}
  /\ evicting' = FALSE
  /\ UNCHANGED <<source, local, pc, value, writing>>

-----------------------------------------------------------------------------
\* The row is changed, by this proxy (TransitionState) or by the platform;
\* neither evicts the key.
Update ==
  /\ version < MaxVersion
  /\ version' = version + 1
  /\ age' = [age EXCEPT ![version] = 0]
  /\ UNCHANGED cache

\* An entry that is over is as good as none.
Elapse(e) == IF e.left > 0 THEN Entry(e.version, e.left - 1) ELSE NoEntry

Tick ==
  /\ \A r \in Readers : pc[r] \in {"start", "returned", "failed"} /\ r \notin writing
  /\ local' = Elapse(local)
  /\ redis' = Elapse(redis)
  /\ age' = [v \in Versions |->
               IF v < version /\ age[v] < MaxAge THEN age[v] + 1 ELSE age[v]]
  /\ UNCHANGED <<version, pc, value, writing, evicting>>

GetOrFetch(r) ==
  \/ LocalHit(r) \/ LocalMiss(r)
  \/ RedisHit(r) \/ CopyDown(r) \/ RedisMiss(r)
  \/ Fetch(r) \/ FetchFails(r) \/ Store(r)

Next ==
  \/ \E r \in Readers : GetOrFetch(r) \/ ReadAgain(r) \/ WriteRedis(r)
  \/ EvictLocal \/ EvictRedis
  \/ Update \/ Tick

Spec == Init /\ [][Next]_vars

-----------------------------------------------------------------------------
(***************************************************************************)
(* What a reader may rely on.                                              *)
(***************************************************************************)
Entries == [version : Versions, left : -1..MaxStale]

CacheTypeOK ==
  /\ version \in Versions
  /\ age \in [Versions -> 0..MaxAge]
  /\ local \in Entries
  /\ redis \in Entries
  /\ pc \in [Readers -> {"start", "askRedis", "copyDown", "fetch", "store",
                         "returned", "failed"}]
  /\ value \in [Readers -> Versions]
  /\ writing \in SUBSET Readers
  /\ evicting \in BOOLEAN

\* The current version, or one that was replaced not long ago.
FreshEnough(v) == v = version \/ (v < version /\ age[v] <= MaxStale)

\* Whatever the order of fills, background writes and expiries, a read returns
\* the row as it is or as it was at most LocalTTL + RedisTTL ago: a change of a
\* token (its block, its release, its usages) takes effect within that time.
BoundedStaleness ==
  [][\A r \in Readers : pc[r] # "returned" /\ pc'[r] = "returned" =>
       FreshEnough(value'[r])]_vars

=============================================================================
