-------------------------- MODULE TokenAccessProofs --------------------------
(***************************************************************************)
(* Theorems about TwoLevelCache and TokenAccess: how old what is read may  *)
(* be, and what a call rests on.  They hold for every set of readers, all  *)
(* TTLs, and any number of changes of the row.                             *)
(***************************************************************************)
EXTENDS TokenAccess, TLAPS

\* The ticks to come for version v, with those since it was replaced if it has
\* been, are at most bound.
Within(v, left, bound) ==
  /\ left <= bound
  /\ v = version \/ (v < version /\ age[v] + left <= bound)

\* What is in the caches.  An entry in Redis is younger than its TTL; one in L1
\* may have been copied at the end of the life of one in Redis.
EntriesYoung ==
  /\ Usable(redis) => Within(redis.version, redis.left, RedisTTL)
  /\ Usable(local) => Within(local.version, local.left, MaxStale)

\* What is in the hands of the readers.  While one has yet to store or write
\* what it has found, the clock stands still, but the row may change; and what a
\* background goroutine will write is not overwritten by the next read.
ReadersYoung ==
  \A r \in Readers :
    /\ pc[r] = "copyDown" => Within(value[r], 0, RedisTTL)
    /\ pc[r] = "store" \/ r \in writing => Within(value[r], 0, 0)
    /\ r \in writing => pc[r] = "returned"

Young == EntriesYoung /\ ReadersYoung

CacheInv == CacheTypeOK /\ Young

-----------------------------------------------------------------------------
\* What is stored in a cache is an entry, and what time leaves of one is.
LEMMA EntryTypes ==
  /\ NoEntry \in Entries /\ 0 \in Versions
  /\ \A v \in Versions : Entry(v, LocalTTL) \in Entries /\ Entry(v, RedisTTL) \in Entries
  /\ \A e \in Entries : Elapse(e) \in Entries /\ e.version \in Versions /\ e.left \in Int
  BY TwoLevelCacheAssumption DEF Entries, Entry, NoEntry, Elapse, Versions, MaxStale

\* The initial state satisfies the invariant: both caches are empty.
LEMMA CacheInitially == Init => CacheInv
<1> SUFFICES ASSUME Init PROVE CacheInv
  OBVIOUS
<1>1. CacheTypeOK
  <2>1. version \in Versions /\ age \in [Versions -> 0..MaxAge] /\ value \in [Readers -> Versions]
    BY TwoLevelCacheAssumption DEF Init, Versions, MaxAge, MaxStale
  <2> QED
    BY <2>1, EntryTypes DEF Init, CacheTypeOK
<1>2. EntriesYoung /\ ReadersYoung
  BY DEF Init, EntriesYoung, ReadersYoung, Usable, NoEntry, Within
<1> QED
  BY <1>1, <1>2 DEF CacheInv, Young

\* Every step of the cache, of the row and of the clock keeps the types.
LEMMA CacheTypeStep == CacheTypeOK /\ [Next]_vars => CacheTypeOK'
<1> SUFFICES ASSUME CacheTypeOK, [Next]_vars PROVE CacheTypeOK'
  OBVIOUS
<1> USE EntryTypes DEF CacheTypeOK, Goto, source
<1>1. ASSUME NEW r \in Readers, GetOrFetch(r) PROVE CacheTypeOK'
  BY <1>1 DEF GetOrFetch, LocalHit, LocalMiss, RedisHit, CopyDown, RedisMiss, Fetch,
              FetchFails, Store
<1>2. ASSUME NEW r \in Readers, ReadAgain(r) \/ WriteRedis(r) PROVE CacheTypeOK'
  <2>1. CASE ReadAgain(r)
    BY <2>1 DEF ReadAgain
  <2>2. CASE WriteRedis(r)
    <3>1. redis' \in Entries
      BY <2>2 DEF WriteRedis
    <3> QED
      BY <2>2, <3>1 DEF WriteRedis
  <2> QED
    BY <1>2, <2>1, <2>2
<1>3. CASE EvictLocal \/ EvictRedis
  <2>1. local' \in Entries /\ redis' \in Entries
    BY <1>3 DEF EvictLocal, EvictRedis
  <2>2. evicting' \in BOOLEAN /\ UNCHANGED <<version, age, pc, value, writing>>
    BY <1>3 DEF EvictLocal, EvictRedis
  <2> QED
    BY <2>1, <2>2
<1>4. CASE Update
  BY <1>4, TwoLevelCacheAssumption DEF Update, cache, Versions, MaxAge, MaxStale
<1>5. CASE Tick
  BY <1>5, TwoLevelCacheAssumption DEF Tick, Versions, MaxAge, MaxStale
<1>6. CASE UNCHANGED vars
  BY <1>6 DEF vars, cache
<1> QED
  BY <1>1, <1>2, <1>3, <1>4, <1>5, <1>6 DEF Next

\* Every step keeps the caches and the readers young: only a read puts something
\* into a cache, the clock waits for readers that have something in hand, and a
\* version that is replaced starts at age 0.
LEMMA YoungStep == CacheInv /\ [Next]_vars => Young'
<1> SUFFICES ASSUME CacheInv, [Next]_vars PROVE Young'
  OBVIOUS
<1>1. /\ version \in Nat /\ Versions \subseteq Nat /\ version \in Versions
      /\ age \in [Versions -> Nat] /\ MaxAge = LocalTTL + RedisTTL + 1
      /\ local.left \in Int /\ redis.left \in Int
      /\ local.version \in Versions /\ redis.version \in Versions
      /\ value \in [Readers -> Versions]
      /\ pc = [r \in Readers |-> pc[r]]
      /\ LocalTTL \in Nat /\ RedisTTL \in Nat
  BY EntryTypes, TwoLevelCacheAssumption DEF CacheInv, CacheTypeOK, Versions, MaxAge, MaxStale
<1>2. EntriesYoung /\ ReadersYoung
  BY DEF CacheInv, Young
<1> USE <1>1, <1>2 DEF Young, EntriesYoung, ReadersYoung, Within, Usable, Goto, source, MaxStale
<1>3. ASSUME NEW r \in Readers, GetOrFetch(r) PROVE Young'
  <2>1. CASE LocalHit(r)
    BY <2>1 DEF LocalHit
  <2>2. CASE LocalMiss(r) \/ RedisMiss(r) \/ FetchFails(r)
    BY <2>2 DEF LocalMiss, RedisMiss, FetchFails
  <2>3. CASE RedisHit(r)
    BY <2>3 DEF RedisHit
  <2>4. CASE CopyDown(r)
    BY <2>4 DEF CopyDown, Entry
  <2>5. CASE Fetch(r)
    BY <2>5 DEF Fetch
  <2>6. CASE Store(r)
    BY <2>6 DEF Store, Entry
  <2> QED
    BY <1>3, <2>1, <2>2, <2>3, <2>4, <2>5, <2>6 DEF GetOrFetch
<1>4. ASSUME NEW r \in Readers, ReadAgain(r) PROVE Young'
  BY <1>4 DEF ReadAgain
<1>5. ASSUME NEW r \in Readers, WriteRedis(r) PROVE Young'
  BY <1>5 DEF WriteRedis, Entry
<1>6. CASE EvictLocal \/ EvictRedis
  BY <1>6 DEF EvictLocal, EvictRedis, NoEntry
<1>7. CASE Update
  BY <1>7 DEF Update, cache
<1>8. CASE Tick
  <2>1. \A v \in Versions : v < version => age'[v] <= age[v] + 1
    BY <1>8 DEF Tick
  <2>2. ReadersYoung'
    BY <1>8 DEF Tick
  <2>3. EntriesYoung'
    BY <1>8, <2>1 DEF Tick, Elapse, Entry, NoEntry
  <2> QED
    BY <2>2, <2>3
<1>9. CASE UNCHANGED vars
  BY <1>9 DEF vars, cache
<1> HIDE <1>1, <1>2 DEF Young
<1> QED
  BY <1>3, <1>4, <1>5, <1>6, <1>7, <1>8, <1>9 DEF Next

\* The types and the ages are invariant, for all numbers of readers and all TTLs.
THEOREM CacheInvariance == Spec => []CacheInv
<1>1. CacheInv /\ [Next]_vars => CacheInv'
  BY CacheTypeStep, YoungStep DEF CacheInv
<1> QED
  BY CacheInitially, <1>1, PTL DEF Spec

\* A read returns the row as it is, or as it was at most LocalTTL + RedisTTL ago.
THEOREM ReadsAreFresh == Spec => BoundedStaleness
<1> DEFINE Fresh == \A r \in Readers : pc[r] # "returned" /\ pc'[r] = "returned" =>
                      FreshEnough(value'[r])
<1>1. CacheInv /\ [Next]_vars => Fresh
  <2> SUFFICES ASSUME CacheInv, [Next]_vars, NEW q \in Readers,
                      pc[q] # "returned", pc'[q] = "returned"
               PROVE  FreshEnough(value'[q])
    OBVIOUS
  <2>1. /\ local.left \in Int /\ version \in Nat /\ Versions \subseteq Nat
        /\ age \in [Versions -> Nat] /\ local.version \in Versions
        /\ pc = [r \in Readers |-> pc[r]] /\ value \in [Readers -> Versions]
        /\ LocalTTL \in Nat /\ RedisTTL \in Nat
    BY EntryTypes, TwoLevelCacheAssumption
    DEF CacheInv, CacheTypeOK, Versions, MaxAge, MaxStale
  <2>2. LocalHit(q) \/ CopyDown(q) \/ Store(q)
    <3>1. UNCHANGED pc \/ \E r \in Readers : GetOrFetch(r) \/ ReadAgain(r)
      BY DEF Next, vars, cache, source, WriteRedis, EvictLocal, EvictRedis, Update, Tick
    <3>2. PICK r \in Readers : GetOrFetch(r) \/ ReadAgain(r)
      BY <3>1
    <3> QED
      BY <2>1, <3>2 DEF GetOrFetch, LocalHit, LocalMiss, RedisHit, CopyDown, RedisMiss,
                        Fetch, FetchFails, Store, ReadAgain, Goto
  <2>3. CASE LocalHit(q)
    BY <2>1, <2>3 DEF LocalHit, FreshEnough, CacheInv, Young, EntriesYoung, Usable, Within, MaxStale
  <2>4. CASE CopyDown(q)
    BY <2>1, <2>4 DEF CopyDown, FreshEnough, CacheInv, Young, ReadersYoung, Within, MaxStale
  <2>5. CASE Store(q)
    BY <2>1, <2>5 DEF Store, FreshEnough, CacheInv, Young, ReadersYoung, Within, MaxStale
  <2> QED
    BY <2>2, <2>3, <2>4, <2>5
<1> QED
  BY <1>1, CacheInvariance, PTL DEF Spec, BoundedStaleness

-----------------------------------------------------------------------------
\* Access is the cache with more around it: each step of Execute, of the platform
\* and of TransitionState is one of the cache and its row, or leaves them alone.
THEOREM AccessUsesCache == AccessSpec => Spec
<1>1. AccessInit => Init
  BY DEF AccessInit
<1>2. [AccessNext]_allVars => [Next]_vars
  BY DEF AccessNext, allVars, Execute, FindByClientID, CallUpstream, Deny, Answer,
         PlatformChanges, Change, LoadRow, SaveRow, Background, Next
<1> QED
  BY <1>1, <1>2, PTL DEF AccessSpec, Spec

\* So the bound on what a read returns holds of Execute.
THEOREM AccessIsFresh == AccessSpec => BoundedStaleness
  BY AccessUsesCache, ReadsAreFresh, PTL

\* Types.
THEOREM TypeCorrect == AccessSpec => []TypeOK
<1>1. AccessInit => TypeOK
  BY CacheInitially, TokenAccessAssumption
  DEF AccessInit, TypeOK, CacheInv, Rows
<1>2. TypeOK /\ CacheTypeOK' /\ [AccessNext]_allVars => TypeOK'
  <2> SUFFICES ASSUME TypeOK, CacheTypeOK', [AccessNext]_allVars PROVE TypeOK'
    OBVIOUS
  <2> USE DEF TypeOK
  <2>1. version \in Versions /\ version' \in Versions
    BY DEF CacheTypeOK
  <2>2. ASSUME NEW r \in Readers, Execute(r) PROVE TypeOK'
    BY <2>2 DEF Execute, FindByClientID, CallUpstream, Admitted, Deny, Answer
  <2>3. ASSUME NEW row \in Rows \cup {NoRow}, Change(row)
        PROVE  rows' \in [Versions -> Rows \cup {NoRow}]
    BY <2>3 DEF Change
  <2>4. CASE PlatformChanges
    <3>1. rows[version] \in Rows
      BY <2>1, <2>4 DEF PlatformChanges
    <3>2. \E row \in Rows \cup {NoRow} : Change(row)
      BY <2>4, <3>1 DEF PlatformChanges, Rows
    <3> QED
      BY <2>3, <2>4, <3>2 DEF PlatformChanges
  <2>5. CASE LoadRow
    <3>1. rows[version] \in Rows
      BY <2>1, <2>5 DEF LoadRow
    <3>2. [rows[version] EXCEPT !.state = NextState(@)] \in Rows
      BY <3>1 DEF Rows, NextState
    <3> QED
      BY <2>5, <3>2 DEF LoadRow
  <2>6. CASE SaveRow
    BY <2>3, <2>6 DEF SaveRow
  <2>7. CASE Background
    BY <2>7 DEF Background
  <2>8. CASE UNCHANGED allVars
    BY <2>8 DEF allVars
  <2> QED
    BY <2>2, <2>4, <2>5, <2>6, <2>7, <2>8 DEF AccessNext
<1>3. AccessSpec => []CacheTypeOK
  <2>1. CacheInv => CacheTypeOK
    BY DEF CacheInv
  <2> QED
    BY <2>1, AccessUsesCache, CacheInvariance, PTL
<1> QED
  BY <1>1, <1>2, <1>3, PTL DEF AccessSpec

-----------------------------------------------------------------------------
\* Whatever a cache or a reader holds is a version in which the token existed:
\* FindByClientID caches no missing row, and the past of the row never changes.
HeldRowsExist ==
  /\ Usable(redis) => rows[redis.version] # NoRow
  /\ Usable(local) => rows[local.version] # NoRow
  /\ \A r \in Readers :
       pc[r] \in {"copyDown", "store", "returned"} => rows[value[r]] # NoRow

\* What Execute has got from the cache stays fresh enough until it is used.
FoundIsFresh == \A r \in Readers : pc[r] = "returned" => FreshEnough(value[r])

AccessInv == CacheInv /\ TypeOK /\ HeldRowsExist /\ FoundIsFresh

\* What the steps below need to know of the types.
LEMMA AccessTypes ==
  ASSUME AccessInv
  PROVE  /\ version \in Nat /\ Versions \subseteq Nat /\ version \in Versions
         /\ age \in [Versions -> Nat] /\ rows \in [Versions -> Rows \cup {NoRow}]
         /\ local.left \in Int /\ redis.left \in Int
         /\ local.version \in Versions /\ redis.version \in Versions
         /\ pc = [r \in Readers |-> pc[r]] /\ value \in [Readers -> Versions]
         /\ MaxStale \in Nat /\ RedisTTL <= MaxStale /\ RedisTTL \in Nat
  BY EntryTypes, TwoLevelCacheAssumption
  DEF AccessInv, TypeOK, CacheInv, CacheTypeOK, Versions, MaxAge, MaxStale

\* What is held is a version of the past or the present.
LEMMA HeldAreKnown ==
  ASSUME AccessInv
  PROVE  /\ Usable(redis) => redis.version <= version
         /\ Usable(local) => local.version <= version
         /\ \A r \in Readers :
              pc[r] \in {"copyDown", "store", "returned"} => value[r] <= version
  BY AccessTypes
  DEF AccessInv, CacheInv, Young, EntriesYoung, ReadersYoung, Within, FoundIsFresh, FreshEnough

\* A step that changes the row writes a version nobody holds.
LEMMA ChangeStep ==
  ASSUME AccessInv, NEW row, Change(row)
  PROVE  (HeldRowsExist /\ FoundIsFresh)'
<1>1. /\ UNCHANGED cache /\ version' = version + 1 /\ version < MaxVersion
      /\ age' = [age EXCEPT ![version] = 0] /\ rows' = [rows EXCEPT ![version + 1] = row]
  BY DEF Change, Update
<1>2. \A v \in Versions : v <= version => rows'[v] = rows[v]
  BY <1>1, AccessTypes
<1>3. HeldRowsExist'
  BY <1>1, <1>2, AccessTypes, HeldAreKnown DEF AccessInv, HeldRowsExist, cache, Usable
<1>4. ASSUME NEW r \in Readers, pc[r] = "returned" PROVE FreshEnough(value[r])'
  BY <1>1, <1>4, AccessTypes DEF AccessInv, FoundIsFresh, FreshEnough, cache
<1> QED
  BY <1>1, <1>3, <1>4 DEF FoundIsFresh, cache

\* A lookup hands out what was held, or a row that exists.
LEMMA FindStep ==
  ASSUME AccessInv, NEW r \in Readers, FindByClientID(r)
  PROVE  (HeldRowsExist /\ FoundIsFresh)'
<1> USE AccessTypes
<1>1. UNCHANGED <<version, age, redis, rows>>
  BY DEF FindByClientID, GetOrFetch, LocalHit, LocalMiss, RedisHit, CopyDown, RedisMiss, Fetch,
         FetchFails, Store, source
<1>2. /\ Usable(redis) => rows[redis.version] # NoRow
      /\ Usable(local) => rows[local.version] # NoRow
      /\ \A q \in Readers :
           pc[q] \in {"copyDown", "store", "returned"} => rows[value[q]] # NoRow
      /\ \A q \in Readers : pc[q] = "returned" => FreshEnough(value[q])
  BY DEF AccessInv, HeldRowsExist, FoundIsFresh
<1>3. /\ Usable(local) => FreshEnough(local.version)
      /\ pc[r] \in {"copyDown", "store"} => FreshEnough(value[r])
  BY DEF AccessInv, CacheInv, Young, EntriesYoung, ReadersYoung, Within, FreshEnough, Usable
<1>4. \A v : FreshEnough(v)' <=> FreshEnough(v)
  BY <1>1 DEF FreshEnough
<1> HIDE AccessTypes
<1>5. pc = [q \in Readers |-> pc[q]] /\ value \in [Readers -> Versions]
  BY AccessTypes
<1> USE <1>1, <1>2, <1>3, <1>4, <1>5 DEF HeldRowsExist, FoundIsFresh, Goto, source
<1>6. CASE LocalHit(r)
  BY <1>6 DEF LocalHit
<1>7. CASE LocalMiss(r) \/ RedisMiss(r) \/ FetchFails(r)
  BY <1>7 DEF LocalMiss, RedisMiss, FetchFails
<1>8. CASE RedisHit(r)
  BY <1>8 DEF RedisHit
<1>9. CASE CopyDown(r)
  BY <1>9 DEF CopyDown, Entry, Usable
<1>10. CASE Fetch(r)
  <2>1. rows[version] # NoRow
    BY <1>10 DEF FindByClientID, Fetch
  <2> QED
    BY <1>10, <2>1 DEF Fetch
<1>11. CASE Store(r)
  BY <1>11 DEF Store, Entry, Usable
<1> QED
  BY <1>6, <1>7, <1>8, <1>9, <1>10, <1>11 DEF FindByClientID, GetOrFetch

\* Background writes put into Redis what a reader holds; time and Evict only
\* take away, and time waits for what has been found to be used.
LEMMA BackgroundStep ==
  ASSUME AccessInv, Background
  PROVE  (HeldRowsExist /\ FoundIsFresh)'
<1>1. UNCHANGED rows
  BY DEF Background
<1>2. ASSUME NEW r \in Readers, WriteRedis(r) PROVE (HeldRowsExist /\ FoundIsFresh)'
  <2>1. UNCHANGED <<version, age, local, pc, value>> /\ redis' \in {redis, Entry(value[r], RedisTTL)}
    BY <1>2 DEF WriteRedis, source
  <2>2. pc[r] = "returned"
    BY <1>2 DEF WriteRedis, AccessInv, CacheInv, Young, ReadersYoung
  <2> QED
    BY <1>1, <2>1, <2>2
    DEF AccessInv, HeldRowsExist, FoundIsFresh, FreshEnough, Entry, Usable
<1>3. CASE EvictLocal \/ EvictRedis
  <2>1. UNCHANGED <<version, age, pc, value>> /\ local' \in {local, NoEntry} /\ redis' \in {redis, NoEntry}
    BY <1>3 DEF EvictLocal, EvictRedis, source
  <2> QED
    BY <1>1, <2>1 DEF AccessInv, HeldRowsExist, FoundIsFresh, FreshEnough, NoEntry, Usable
<1>4. CASE Tick /\ \A r \in Readers : pc[r] # "returned"
  <2>1. UNCHANGED <<pc, value>> /\ local' = Elapse(local) /\ redis' = Elapse(redis)
    BY <1>4 DEF Tick
  <2>2. \A r \in Readers : pc[r] \notin {"copyDown", "store", "returned"}
    BY <1>4 DEF Tick
  <2>3. ASSUME NEW e, e.left \in Int, Usable(Elapse(e))
        PROVE  Usable(e) /\ Elapse(e).version = e.version
    BY <2>3 DEF Elapse, Entry, NoEntry, Usable
  <2> QED
    BY <1>1, <2>1, <2>2, <2>3, AccessTypes DEF AccessInv, HeldRowsExist, FoundIsFresh
<1> QED
  BY <1>2, <1>3, <1>4 DEF Background

\* Every step of AccessNext keeps what is held in existence and what is found fresh.
LEMMA HeldStep == AccessInv /\ [AccessNext]_allVars => (HeldRowsExist /\ FoundIsFresh)'
<1> SUFFICES ASSUME AccessInv, [AccessNext]_allVars
             PROVE  (HeldRowsExist /\ FoundIsFresh)'
  OBVIOUS
<1>1. ASSUME NEW r \in Readers, ReadAgain(r), UNCHANGED rows
      PROVE  (HeldRowsExist /\ FoundIsFresh)'
  BY <1>1, AccessTypes
  DEF ReadAgain, Goto, source, AccessInv, HeldRowsExist, FoundIsFresh, FreshEnough
<1>2. ASSUME NEW r \in Readers, Execute(r) PROVE (HeldRowsExist /\ FoundIsFresh)'
  <2>1. CASE FindByClientID(r)
    BY <2>1, FindStep
  <2>2. CASE CallUpstream(r)
    BY <2>2 DEF CallUpstream, vars, cache, source,
                AccessInv, HeldRowsExist, FoundIsFresh, FreshEnough
  <2>3. CASE Deny(r) \/ Answer(r)
    BY <1>1, <2>3 DEF Deny, Answer
  <2> QED
    BY <1>2, <2>1, <2>2, <2>3 DEF Execute
<1>3. CASE PlatformChanges
  BY <1>3, ChangeStep DEF PlatformChanges
<1>4. CASE LoadRow \/ UNCHANGED allVars
  BY <1>4 DEF LoadRow, allVars, vars, cache, source,
              AccessInv, HeldRowsExist, FoundIsFresh, FreshEnough
<1>5. CASE SaveRow
  <2>1. CASE Change(check)
    BY <2>1, ChangeStep
  <2>2. CASE UNCHANGED <<vars, rows>>
    BY <2>2 DEF vars, cache, source, AccessInv, HeldRowsExist, FoundIsFresh, FreshEnough
  <2> QED
    BY <1>5, <2>1, <2>2 DEF SaveRow
<1>6. CASE Background
  BY <1>6, BackgroundStep
<1> QED
  BY <1>2, <1>3, <1>4, <1>5, <1>6 DEF AccessNext

\* The invariant of TokenAccess: types, ages, and that what is held exists.
THEOREM AccessInvariance == AccessSpec => []AccessInv
<1>1. AccessInit => HeldRowsExist /\ FoundIsFresh
  BY DEF AccessInit, Init, HeldRowsExist, FoundIsFresh, Usable, NoEntry
<1>2. AccessSpec => [](CacheInv /\ TypeOK)
  BY AccessUsesCache, CacheInvariance, TypeCorrect, PTL
<1>3. AccessInv <=> (CacheInv /\ TypeOK) /\ (HeldRowsExist /\ FoundIsFresh)
  BY DEF AccessInv
<1> QED
  BY <1>1, <1>2, <1>3, HeldStep, PTL DEF AccessSpec

\* A call is made only on the word of a row that is, or was at most the two TTLs
\* ago, that of an existing token, not blocked, with the secret presented.
THEOREM CallsFollowRow == AccessSpec => AccessFollowsRow
<1> DEFINE Follows == \A r \in Readers : call[r] = Nothing /\ call'[r] # Nothing =>
                        \E v \in Versions :
                          /\ FreshEnough(v)
                          /\ rows[v] # NoRow
                          /\ rows[v].state # "BLOCKED"
                          /\ call'[r].secret \in {"", rows[v].secret}
<1>1. AccessInv /\ [AccessNext]_allVars => Follows
  <2> SUFFICES ASSUME AccessInv, [AccessNext]_allVars, NEW q \in Readers,
                      call[q] = Nothing, call'[q] # Nothing
               PROVE  \E v \in Versions :
                        /\ FreshEnough(v)
                        /\ rows[v] # NoRow
                        /\ rows[v].state # "BLOCKED"
                        /\ call'[q].secret \in {"", rows[v].secret}
    OBVIOUS
  <2>1. call \in [Readers -> Requests \cup {Nothing}]
    BY DEF AccessInv, TypeOK
  <2>2. CallUpstream(q)
    BY <2>1 DEF AccessNext, Execute, FindByClientID, CallUpstream, Deny, Answer,
                PlatformChanges, LoadRow, SaveRow, Background, allVars
  <2>3. call'[q] \in Admitted(rows[value[q]])
    BY <2>1, <2>2 DEF CallUpstream
  <2>4. /\ rows[value[q]].state # "BLOCKED"
        /\ call'[q].secret \in {"", rows[value[q]].secret}
    BY <2>3 DEF Admitted, Admits, Validate, ValidateServerAccess, ValidateNotBlocked
  <2>5. FreshEnough(value[q]) /\ rows[value[q]] # NoRow /\ value[q] \in Versions
    BY <2>2, AccessTypes DEF CallUpstream, AccessInv, HeldRowsExist, FoundIsFresh
  <2> QED
    BY <2>4, <2>5
<1> QED
  BY <1>1, AccessInvariance, PTL DEF AccessSpec, AccessFollowsRow

=============================================================================
