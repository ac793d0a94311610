-------------------------- MODULE PlacementProofs ---------------------------
(***************************************************************************)
(* Whatever the policies evict and place, in any order and mixture, the    *)
(* cache stays sound, what was placed is found, NetworkAwarePlacement      *)
(* evicts nothing in vain, and the loop that evicts one victim after the   *)
(* other comes out where Victims says.                                     *)
(***************************************************************************)
EXTENDS Eviction, CacheStateProofs, WellFoundedInduction

-----------------------------------------------------------------------------
(* An attempt on its way through a policy *)

\* The id n has been allocated for an object with the given key: it is not in
\* the cache before a tier has taken the object, and a lookup finds it after.
AttemptGood(a, n, key) ==
    /\ Good(a.cache)
    /\ a.cache.next_kv_id = n + 1
    /\ a.tier \in Tier \cup {None}
    /\ a.tier = None => n \notin DOMAIN a.cache.objects
    /\ a.tier # None => Lookup(a.cache, key) = {n}

AllGood(as, n, key) == \A a \in as : AttemptGood(a, n, key)

LEMMA TierIsCell == ASSUME NEW tier \in Tier PROVE On(tier) \in Cell /\ tier # None
  BY PlacementAssumption

LEMMA VictimsThere ==
    ASSUME NEW c, NEW cell, NEW bytes, NEW K \in Victims(c, cell, bytes)
    PROVE  /\ K \in SUBSET ObjectsInTier(c, cell)
           /\ K \in SUBSET DOMAIN c.objects
  BY DEF Victims, ObjectsInTier

LEMMA EvictingGood ==
    ASSUME NEW a, NEW n, NEW key, AttemptGood(a, n, key), a.tier = None,
           NEW K \in SUBSET DOMAIN a.cache.objects
    PROVE  /\ AttemptGood(Evicting(a, K), n, key)
           /\ Evicting(a, K).tier = None
<1>1. Good(Removed(a.cache, K))
  BY RemovedGood DEF AttemptGood
<1>2. /\ Removed(a.cache, K).next_kv_id = a.cache.next_kv_id
      /\ DOMAIN Removed(a.cache, K).objects \subseteq DOMAIN a.cache.objects
  BY DEF Removed, With, Restrict
<1> QED
  BY <1>1, <1>2 DEF Evicting, AttemptGood

LEMMA PutGood ==
    ASSUME NEW o \in KvObject, NEW n \in KvId, NEW tier \in Tier,
           NEW a, AttemptGood(a, n, KeyOf(o)), a.tier = None
    PROVE  AttemptGood(Put(a, tier, o), n, KeyOf(o))
<1> DEFINE placed == [o EXCEPT !.location = On(tier)]
           c == a.cache
           d == Inserted(c, n, placed)
<1>1. CASE ~Fits(c, On(tier), o.bytes)
  BY <1>1 DEF Put
<1>2. CASE Fits(c, On(tier), o.bytes)
  <2>1. /\ placed \in KvObject /\ placed.location = On(tier)
        /\ placed.bytes = o.bytes /\ KeyOf(placed) = KeyOf(o)
    BY TierIsCell DEF KvObject, Location, KeyOf
  <2>2. /\ Good(c) /\ n \notin DOMAIN c.objects /\ n \in Nat
        /\ c.next_kv_id = n + 1 /\ c.next_kv_id - 1 = n /\ n < c.next_kv_id
    BY CacheAssumption DEF AttemptGood, KvId
  <2>3. Put(a, tier, o) = [cache |-> d, evicted |-> a.evicted, tier |-> tier]
    BY <1>2, <2>2 DEF Put
  <2>4. Good(d)
    <3> HIDE DEF placed
    <3> QED
      BY <1>2, <2>1, <2>2, InsertedGood
  <2>5. d.next_kv_id = n + 1
    BY <2>2 DEF Inserted, With
  <2>6. Lookup(d, KeyOf(o)) = {n}
    <3> HIDE DEF placed
    <3>1. /\ n \in DOMAIN d.objects
          /\ KeyOf(o) \in DOMAIN d.by_session_prefix
          /\ d.by_session_prefix[KeyOf(o)] = n
      BY <2>1 DEF Inserted, With
    <3> HIDE DEF d
    <3> QED
      BY <3>1 DEF Lookup
  <2> HIDE DEF d
  <2> QED
    BY <2>3, <2>4, <2>5, <2>6, TierIsCell DEF AttemptGood
<1> QED
  BY <1>1, <1>2

-----------------------------------------------------------------------------
(* The ways to try a tier *)

LEMMA TryEvictingGood ==
    ASSUME NEW o \in KvObject, NEW n \in KvId, NEW tier \in Tier,
           NEW a, AttemptGood(a, n, KeyOf(o))
    PROVE  AllGood(TryEvicting(a, tier, o), n, KeyOf(o))
<1>1. CASE a.tier # None
  BY <1>1 DEF TryEvicting, AllGood
<1>2. CASE a.tier = None
  <2> SUFFICES ASSUME NEW K \in Victims(a.cache, On(tier), o.bytes)
               PROVE  AttemptGood(Put(Evicting(a, K), tier, o), n, KeyOf(o))
    BY <1>2 DEF TryEvicting, AllGood
  <2>1. K \in SUBSET DOMAIN a.cache.objects
    BY VictimsThere
  <2>2. /\ AttemptGood(Evicting(a, K), n, KeyOf(o))
        /\ Evicting(a, K).tier = None
    BY <1>2, <2>1, EvictingGood
  <2> QED
    BY <2>2, PutGood
<1> QED
  BY <1>1, <1>2

LEMMA TryAsItIsGood ==
    ASSUME NEW o \in KvObject, NEW n \in KvId, NEW tier \in Tier,
           NEW a, AttemptGood(a, n, KeyOf(o))
    PROVE  AllGood(TryAsItIs(a, tier, o), n, KeyOf(o))
<1>1. CASE a.tier # None
  BY <1>1 DEF TryAsItIs, AllGood
<1>2. CASE a.tier = None
  BY <1>2, PutGood DEF TryAsItIs, AllGood
<1> QED
  BY <1>1, <1>2

LEMMA TryRankedGood ==
    ASSUME NEW o \in KvObject, NEW n \in KvId, NEW i,
           NEW as, AllGood(as, n, KeyOf(o))
    PROVE  AllGood(TryRanked(as, i, o), n, KeyOf(o))
<1> SUFFICES ASSUME NEW b \in TryRanked(as, i, o)
             PROVE  AttemptGood(b, n, KeyOf(o))
  BY DEF AllGood
<1>1. PICK a \in as :
         b \in UNION {TryIfLargeEnough(a, tier, o) : tier \in Ranked(o, i)}
  BY DEF TryRanked
<1>2. PICK tier \in Ranked(o, i) : b \in TryIfLargeEnough(a, tier, o)
  BY <1>1
<1>3. tier \in Tier /\ AttemptGood(a, n, KeyOf(o))
  BY DEF Ranked, AllGood
<1>4. AllGood(TryEvicting(a, tier, o), n, KeyOf(o))
  BY <1>3, TryEvictingGood
<1> QED
  BY <1>2, <1>3, <1>4 DEF TryIfLargeEnough, AllGood

-----------------------------------------------------------------------------
(* The policies *)

LEMMA AttemptsGood ==
    ASSUME NEW policy \in Policy, NEW o \in KvObject, NEW n \in KvId, NEW c,
           Good(c), c.next_kv_id = n + 1, n \notin DOMAIN c.objects
    PROVE  AllGood(Attempts(policy, c, o), n, KeyOf(o))
<1> DEFINE start == [cache |-> c, evicted |-> {}, tier |-> None]
           G(as) == AllGood(as, n, KeyOf(o))
<1>1. AttemptGood(start, n, KeyOf(o))
  BY DEF AttemptGood
<1> HIDE DEF start
<1>2. ASSUME NEW tier \in Tier PROVE G(TryEvicting(start, tier, o))
  BY <1>1, TryEvictingGood
<1>3. "Gpu" \in Tier /\ "Cpu" \in Tier /\ "RemoteMemory" \in Tier
  BY DEF Tier
<1>4. G(LocalGpuLru(start, o))
  <2>1. ASSUME NEW a \in TryEvicting(start, "Gpu", o)
        PROVE  G(TryAsItIs(a, "Cpu", o))
    BY <1>2, <1>3, TryAsItIsGood DEF AllGood
  <2> QED
    BY <2>1 DEF LocalGpuLru, AllGood
<1>5. G(CpuOffloadLru(start, o))
  <2>1. ASSUME NEW a \in TryEvicting(start, "Gpu", o)
        PROVE  G(TryEvicting(a, "Cpu", o))
    BY <1>2, <1>3, TryEvictingGood DEF AllGood
  <2> QED
    BY <2>1 DEF CpuOffloadLru, AllGood
<1>6. G(RemoteLru(start, o))
  BY <1>2, <1>3 DEF RemoteLru
<1>7. G(SizeAware(start, o))
  BY <1>2, <1>3 DEF SizeAware
<1>8. G(NetworkAware(start, o))
  <2>1. G({start})
    BY <1>1 DEF AllGood
  <2> QED
    BY <2>1, TryRankedGood DEF NetworkAware
<1> QED
  BY <1>4, <1>5, <1>6, <1>7, <1>8 DEF Attempts, Policy, start

LEMMA AllocatedGood ==
    ASSUME NEW c, Good(c), c.next_kv_id < MaxKvId
    PROVE  /\ Good(Allocated(c))
           /\ Allocated(c).objects = c.objects
           /\ Allocated(c).capacities = c.capacities
           /\ Allocated(c).next_kv_id = c.next_kv_id + 1
           /\ c.next_kv_id \in KvId /\ c.next_kv_id \notin DOMAIN c.objects
<1> DEFINE d == Allocated(c)
<1>1. /\ c \in Cache /\ Exact(c) /\ IdsAllocated(c) /\ Within(c) /\ Sound(c)
  BY DEF Good
<1>2. /\ d.objects = c.objects
      /\ d.by_session_prefix = c.by_session_prefix
      /\ d.usage = c.usage
      /\ d.next_kv_id = c.next_kv_id + 1
      /\ d.capacities = c.capacities
      /\ d \in Cache
  BY <1>1, CacheAssumption DEF Allocated, Cache
<1>3. DOMAIN c.objects \subseteq KvId /\ c.next_kv_id \in Nat
  BY <1>1, CacheParts
<1>4. c.next_kv_id \in KvId /\ c.next_kv_id \notin DOMAIN c.objects
  BY <1>1, <1>3, CacheAssumption DEF KvId, IdsAllocated
<1> HIDE DEF d
<1>5. Exact(d)
  BY <1>1, <1>2 DEF Exact, Bytes, ObjectsInTier
<1>6. IdsAllocated(d) /\ Within(d) /\ Sound(d)
  BY <1>1, <1>2, <1>3, CacheAssumption DEF IdsAllocated, Within, Sound, KvId
<1>7. Good(d)
  BY <1>2, <1>5, <1>6 DEF Good
<1> QED
  BY <1>2, <1>4, <1>7 DEF d

LEMMA NewObjectType ==
    ASSUME NEW s \in Session, NEW p \in Prefix, NEW t \in Time
    PROVE  /\ NewObject(s, p, t) \in KvObject
           /\ KeyOf(NewObject(s, p, t)) = <<s, p>>
<1>1. KvBytes(p) \in ByteSize
  BY PlacementAssumption DEF KvBytes
<1> QED
  BY <1>1 DEF NewObject, KvObject, KeyOf, Location

LEMMA PlacementsGood ==
    ASSUME NEW c, Good(c), c.next_kv_id < MaxKvId, NEW policy \in Policies,
           NEW s \in Session, NEW p \in Prefix, NEW t \in Time
    PROVE  AllGood(Placements(policy, c, s, p, t), c.next_kv_id, <<s, p>>)
<1> DEFINE o == NewObject(s, p, t)
           d == Allocated(c)
<1>1. policy \in Policy
  BY PlacementAssumption
<1>2. o \in KvObject /\ KeyOf(o) = <<s, p>>
  BY NewObjectType
<1>3. /\ Good(d) /\ d.next_kv_id = c.next_kv_id + 1
      /\ c.next_kv_id \in KvId /\ c.next_kv_id \notin DOMAIN d.objects
  BY AllocatedGood
<1>4. Placements(policy, c, s, p, t) = Attempts(policy, d, o)
  BY DEF Placements
<1> HIDE DEF o, d
<1> QED
  BY <1>1, <1>2, <1>3, <1>4, AttemptsGood

-----------------------------------------------------------------------------
(* What is evicted was there *)

EvictedThere(a, c) ==
    /\ a.evicted \subseteq DOMAIN c.objects
    /\ a.tier = None => DOMAIN a.cache.objects \subseteq DOMAIN c.objects

LEMMA PutEvicts ==
    ASSUME NEW c, NEW o, NEW tier \in Tier, NEW a, EvictedThere(a, c), a.tier = None
    PROVE  EvictedThere(Put(a, tier, o), c)
BY TierIsCell DEF Put, EvictedThere

LEMMA TryEvictingEvicts ==
    ASSUME NEW c, NEW o, NEW tier \in Tier, NEW a, EvictedThere(a, c),
           NEW b \in TryEvicting(a, tier, o)
    PROVE  EvictedThere(b, c)
<1>1. CASE a.tier # None
  BY <1>1 DEF TryEvicting
<1>2. CASE a.tier = None
  <2>1. PICK K \in Victims(a.cache, On(tier), o.bytes) :
           b = Put(Evicting(a, K), tier, o)
    BY <1>2 DEF TryEvicting
  <2>2. K \subseteq DOMAIN a.cache.objects
    BY VictimsThere
  <2>3. EvictedThere(Evicting(a, K), c) /\ Evicting(a, K).tier = None
    BY <1>2, <2>2 DEF EvictedThere, Evicting, Removed, With, Restrict
  <2> QED
    BY <2>1, <2>3, PutEvicts
<1> QED
  BY <1>1, <1>2

LEMMA TryRankedEvicts ==
    ASSUME NEW c, NEW o, NEW i, NEW as, \A a \in as : EvictedThere(a, c)
    PROVE  \A b \in TryRanked(as, i, o) : EvictedThere(b, c)
<1> SUFFICES ASSUME NEW b \in TryRanked(as, i, o) PROVE EvictedThere(b, c)
  OBVIOUS
<1>1. PICK a \in as :
         b \in UNION {TryIfLargeEnough(a, tier, o) : tier \in Ranked(o, i)}
  BY DEF TryRanked
<1>2. PICK tier \in Ranked(o, i) : b \in TryIfLargeEnough(a, tier, o)
  BY <1>1
<1>3. tier \in Tier
  BY DEF Ranked
<1>4. b = a \/ b \in TryEvicting(a, tier, o)
  BY <1>2 DEF TryIfLargeEnough
<1> QED
  BY <1>3, <1>4, TryEvictingEvicts

\* Every policy reports as evicted only objects of the cache it was given.
LEMMA AttemptsEvict ==
    ASSUME NEW policy \in Policy, NEW c, NEW o, NEW a \in Attempts(policy, c, o)
    PROVE  a.evicted \subseteq DOMAIN c.objects
<1> DEFINE start == [cache |-> c, evicted |-> {}, tier |-> None]
           E(as) == \A b \in as : EvictedThere(b, c)
<1>1. EvictedThere(start, c) /\ E({start})
  BY DEF EvictedThere
<1>2. "Gpu" \in Tier /\ "Cpu" \in Tier /\ "RemoteMemory" \in Tier
  BY DEF Tier
<1> HIDE DEF start
<1>3. \A tier \in Tier : E(TryEvicting(start, tier, o))
  BY <1>1, TryEvictingEvicts
<1>4. E(LocalGpuLru(start, o))
  <2> SUFFICES ASSUME NEW b \in LocalGpuLru(start, o) PROVE EvictedThere(b, c)
    OBVIOUS
  <2>1. PICK d \in TryEvicting(start, "Gpu", o) : b \in TryAsItIs(d, "Cpu", o)
    BY DEF LocalGpuLru
  <2>2. EvictedThere(d, c)
    BY <1>2, <1>3
  <2> QED
    BY <1>2, <2>1, <2>2, PutEvicts DEF TryAsItIs
<1>5. E(CpuOffloadLru(start, o))
  BY <1>2, <1>3, TryEvictingEvicts DEF CpuOffloadLru
<1>6. E(RemoteLru(start, o)) /\ E(SizeAware(start, o))
  BY <1>2, <1>3 DEF RemoteLru, SizeAware
<1>7. E(NetworkAware(start, o))
  BY <1>1, TryRankedEvicts DEF NetworkAware
<1>8. E(Attempts(policy, c, o))
  BY <1>4, <1>5, <1>6, <1>7 DEF Attempts, Policy, start
<1> QED
  BY <1>8 DEF EvictedThere

LEMMA PlacementsEvict ==
    ASSUME NEW c, Good(c), NEW policy \in Policies, NEW s, NEW p, NEW t,
           NEW a \in Placements(policy, c, s, p, t)
    PROVE  a.evicted \subseteq DOMAIN c.objects /\ Bytes(c, a.evicted) \in Nat
<1>1. a \in Attempts(policy, Allocated(c), NewObject(s, p, t))
  BY DEF Placements
<1>2. Allocated(c).objects = c.objects
  BY DEF Allocated, Good, Cache
<1>3. a.evicted \subseteq DOMAIN c.objects
  BY <1>1, <1>2, AttemptsEvict, PlacementAssumption
<1>4. /\ IsFiniteSet(a.evicted) /\ Sized(c.objects, a.evicted)
      /\ IsFiniteSet({}) /\ Sized(c.objects, {}) /\ a.evicted \cap {} = {}
  BY <1>3, TierFinite, FS_EmptySet DEF Good, Sized
<1>5. Bytes(c, a.evicted) \in Nat
  BY <1>4, BytesAdd
<1> QED
  BY <1>3, <1>5

-----------------------------------------------------------------------------
(* Where the objects come from *)

\* The same KV, wherever it lies and whenever it was used.
SameKv(x, y) ==
    /\ x.session_id = y.session_id
    /\ x.prefix_tokens = y.prefix_tokens
    /\ x.bytes = y.bytes

\* Whatever is in the cache d was in c under the same id, or is o.
ComesFrom(d, c, o) ==
    \A k \in DOMAIN d.objects :
        \/ SameKv(d.objects[k], o)
        \/ k \in DOMAIN c.objects /\ SameKv(d.objects[k], c.objects[k])

LEMMA PutComes ==
    ASSUME NEW c, NEW o \in KvObject, NEW tier, NEW a, ComesFrom(a.cache, c, o)
    PROVE  ComesFrom(Put(a, tier, o).cache, c, o)
<1> DEFINE placed == [o EXCEPT !.location = On(tier)]
           n == a.cache.next_kv_id - 1
           d == Inserted(a.cache, n, placed)
<1>1. SameKv(placed, o)
  BY DEF KvObject, SameKv
<1>2. Put(a, tier, o).cache \in {a.cache, d}
  BY DEF Put
<1> HIDE DEF placed
<1>3. /\ DOMAIN d.objects = DOMAIN a.cache.objects \cup {n}
      /\ \A k \in DOMAIN d.objects :
            d.objects[k] = IF k = n THEN placed ELSE a.cache.objects[k]
  BY DEF Inserted, With
<1> HIDE DEF d
<1>4. ComesFrom(d, c, o)
  BY <1>1, <1>3 DEF ComesFrom
<1> QED
  BY <1>2, <1>4

LEMMA EvictingComes ==
    ASSUME NEW c, NEW o, NEW a, ComesFrom(a.cache, c, o), NEW K
    PROVE  ComesFrom(Evicting(a, K).cache, c, o)
<1>1. Evicting(a, K).cache.objects = Restrict(a.cache.objects, DOMAIN a.cache.objects \ K)
  BY DEF Evicting, Removed, With
<1>2. /\ DOMAIN Evicting(a, K).cache.objects = DOMAIN a.cache.objects \ K
      /\ \A k \in DOMAIN a.cache.objects \ K :
            Evicting(a, K).cache.objects[k] = a.cache.objects[k]
  BY <1>1 DEF Restrict
<1> QED
  BY <1>2 DEF ComesFrom

LEMMA TryEvictingComes ==
    ASSUME NEW c, NEW o \in KvObject, NEW tier, NEW a, ComesFrom(a.cache, c, o),
           NEW b \in TryEvicting(a, tier, o)
    PROVE  ComesFrom(b.cache, c, o)
<1>1. CASE a.tier # None
  BY <1>1 DEF TryEvicting
<1>2. CASE a.tier = None
  <2>1. PICK K \in Victims(a.cache, On(tier), o.bytes) :
           b = Put(Evicting(a, K), tier, o)
    BY <1>2 DEF TryEvicting
  <2> QED
    BY <2>1, EvictingComes, PutComes
<1> QED
  BY <1>1, <1>2

LEMMA TryRankedComes ==
    ASSUME NEW c, NEW o \in KvObject, NEW i,
           NEW as, \A a \in as : ComesFrom(a.cache, c, o)
    PROVE  \A b \in TryRanked(as, i, o) : ComesFrom(b.cache, c, o)
<1> SUFFICES ASSUME NEW b \in TryRanked(as, i, o) PROVE ComesFrom(b.cache, c, o)
  OBVIOUS
<1>1. PICK a \in as :
         b \in UNION {TryIfLargeEnough(a, tier, o) : tier \in Ranked(o, i)}
  BY DEF TryRanked
<1>2. PICK tier \in Ranked(o, i) : b \in TryIfLargeEnough(a, tier, o)
  BY <1>1
<1>3. b = a \/ b \in TryEvicting(a, tier, o)
  BY <1>2 DEF TryIfLargeEnough
<1> QED
  BY <1>3, TryEvictingComes

LEMMA AttemptsCome ==
    ASSUME NEW policy \in Policy, NEW c, NEW o \in KvObject,
           NEW a \in Attempts(policy, c, o)
    PROVE  ComesFrom(a.cache, c, o)
<1> DEFINE start == [cache |-> c, evicted |-> {}, tier |-> None]
           F(as) == \A b \in as : ComesFrom(b.cache, c, o)
<1>1. ComesFrom(start.cache, c, o) /\ F({start})
  BY DEF ComesFrom, SameKv
<1> HIDE DEF start
<1>2. \A tier : F(TryEvicting(start, tier, o))
  BY <1>1, TryEvictingComes
<1>3. F(LocalGpuLru(start, o))
  <2> SUFFICES ASSUME NEW b \in LocalGpuLru(start, o) PROVE ComesFrom(b.cache, c, o)
    OBVIOUS
  <2>1. PICK d \in TryEvicting(start, "Gpu", o) : b \in TryAsItIs(d, "Cpu", o)
    BY DEF LocalGpuLru
  <2>2. ComesFrom(d.cache, c, o)
    BY <1>2
  <2> QED
    BY <2>1, <2>2, PutComes DEF TryAsItIs
<1>4. F(CpuOffloadLru(start, o))
  BY <1>2, TryEvictingComes DEF CpuOffloadLru
<1>5. F(RemoteLru(start, o)) /\ F(SizeAware(start, o))
  BY <1>2 DEF RemoteLru, SizeAware
<1>6. F(NetworkAware(start, o))
  BY <1>1, TryRankedComes DEF NetworkAware
<1>7. F(Attempts(policy, c, o))
  BY <1>3, <1>4, <1>5, <1>6 DEF Attempts, Policy, start
<1> QED
  BY <1>7

\* A placement adds one object at most, the one it is for, and alters none.
LEMMA PlacementsCome ==
    ASSUME NEW c, Good(c), NEW policy \in Policies,
           NEW s \in Session, NEW p \in Prefix, NEW t \in Time,
           NEW a \in Placements(policy, c, s, p, t)
    PROVE  ComesFrom(a.cache, c, NewObject(s, p, t))
<1> DEFINE o == NewObject(s, p, t)
<1>1. a \in Attempts(policy, Allocated(c), o)
  BY DEF Placements
<1>2. Allocated(c).objects = c.objects
  BY DEF Allocated, Good, Cache
<1>3. o \in KvObject /\ policy \in Policy
  BY NewObjectType, PlacementAssumption
<1> HIDE DEF o
<1>4. ComesFrom(a.cache, Allocated(c), o)
  BY <1>1, <1>3, AttemptsCome
<1> QED
  BY <1>2, <1>4 DEF ComesFrom, o

-----------------------------------------------------------------------------
(* What a placement takes out of the cache and what it leaves *)

\* The attempt a has taken out of the cache c what it has evicted, the least
\* recently accessed of each place, has left the others as they were, and put
\* in the object o, with the id n, when a tier has taken it.
Accounted(a, c, n, o) ==
    LET there == DOMAIN c.objects \ a.evicted
    IN  /\ a.evicted \subseteq DOMAIN c.objects
        /\ a.cache.next_kv_id = n + 1
        /\ DOMAIN a.cache.objects = there \cup (IF a.tier = None THEN {} ELSE {n})
        /\ \A k \in there : a.cache.objects[k] = c.objects[k]
        /\ a.tier # None => a.cache.objects[n] = [o EXCEPT !.location = On(a.tier)]
        /\ \A v \in a.evicted, k \in there :
              c.objects[v].location = c.objects[k].location
                => LastAccess(c, v) <= LastAccess(c, k)

LEMMA PutAccounts ==
    ASSUME NEW c, NEW n \in Nat, n \notin DOMAIN c.objects, NEW o \in KvObject,
           NEW tier \in Tier, NEW a, Accounted(a, c, n, o), a.tier = None
    PROVE  Accounted(Put(a, tier, o), c, n, o)
<1> DEFINE placed == [o EXCEPT !.location = On(tier)]
           d == Inserted(a.cache, n, placed)
<1>1. a.cache.next_kv_id - 1 = n
  BY DEF Accounted
<1>2. CASE ~Fits(a.cache, On(tier), o.bytes)
  BY <1>2 DEF Put
<1>3. CASE Fits(a.cache, On(tier), o.bytes)
  <2>1. Put(a, tier, o) = [cache |-> d, evicted |-> a.evicted, tier |-> tier]
    BY <1>1, <1>3 DEF Put
  <2>2. /\ d.objects = [j \in DOMAIN a.cache.objects \cup {n} |->
                          IF j = n THEN placed ELSE a.cache.objects[j]]
        /\ d.next_kv_id = a.cache.next_kv_id
    BY DEF Inserted, With
  <2> DEFINE b == Put(a, tier, o)
  <2> HIDE DEF d, placed
  <2>3. b.cache = d /\ b.evicted = a.evicted /\ b.tier = tier /\ tier # None
    BY <2>1, TierIsCell
  <2> HIDE DEF b
  <2> QED
    BY <2>2, <2>3 DEF Accounted, placed, b
<1> QED
  BY <1>2, <1>3

LEMMA TryEvictingAccounts ==
    ASSUME NEW c, NEW n \in Nat, n \notin DOMAIN c.objects, NEW o \in KvObject,
           NEW tier \in Tier, NEW a, Accounted(a, c, n, o),
           NEW b \in TryEvicting(a, tier, o)
    PROVE  Accounted(b, c, n, o)
<1>1. CASE a.tier # None
  BY <1>1 DEF TryEvicting
<1>2. CASE a.tier = None
  <2>1. PICK K \in Victims(a.cache, On(tier), o.bytes) :
           b = Put(Evicting(a, K), tier, o)
    BY <1>2 DEF TryEvicting
  <2>2. K \subseteq DOMAIN a.cache.objects
    BY VictimsThere
  <2> DEFINE d == Evicting(a, K)
  <2>3. /\ d.tier = None /\ d.evicted = a.evicted \cup K
        /\ d.cache.next_kv_id = a.cache.next_kv_id
        /\ d.cache.objects = [k \in DOMAIN a.cache.objects \ K |-> a.cache.objects[k]]
    BY DEF Evicting, Removed, With, Restrict
  <2> HIDE DEF d
  <2> DEFINE Old(k) == LastAccess(c, k)
             there == DOMAIN c.objects \ a.evicted
             left == DOMAIN c.objects \ d.evicted
  <2>4. /\ DOMAIN a.cache.objects = there
        /\ \A k \in there : a.cache.objects[k] = c.objects[k]
    BY <1>2 DEF Accounted
  <2>5. ASSUME NEW v \in d.evicted, NEW k \in left,
               c.objects[v].location = c.objects[k].location
        PROVE  Old(v) <= Old(k)
    <3>1. CASE v \in a.evicted
      BY <2>3, <2>5, <3>1 DEF Accounted
    <3>2. CASE v \in K
      <4>1. K \subseteq ObjectsInTier(a.cache, On(tier)) /\ v \in there /\ k \in there
        BY <2>2, <2>3, <2>4, <3>2, VictimsThere
      <4>2. v \in K /\ k \in ObjectsInTier(a.cache, On(tier)) \ K
        BY <2>3, <2>4, <2>5, <3>2, <4>1 DEF ObjectsInTier
      <4>3. LastAccess(a.cache, v) <= LastAccess(a.cache, k)
        BY <4>2 DEF Victims
      <4> QED
        BY <2>4, <4>1, <4>3 DEF LastAccess
    <3> QED
      BY <2>3, <3>1, <3>2
  <2>6. Accounted(d, c, n, o)
    <3>1. d.evicted \subseteq DOMAIN c.objects /\ d.cache.next_kv_id = n + 1
      BY <2>2, <2>3, <2>4 DEF Accounted
    <3>2. /\ DOMAIN d.cache.objects = left
          /\ \A k \in left : d.cache.objects[k] = c.objects[k]
      BY <2>3, <2>4
    <3> QED
      BY <2>3, <2>5, <3>1, <3>2 DEF Accounted
  <2> QED
    BY <2>1, <2>3, <2>6, PutAccounts DEF d
<1> QED
  BY <1>1, <1>2

LEMMA TryRankedAccounts ==
    ASSUME NEW c, NEW n \in Nat, n \notin DOMAIN c.objects, NEW o \in KvObject,
           NEW i, NEW as, \A a \in as : Accounted(a, c, n, o)
    PROVE  \A b \in TryRanked(as, i, o) : Accounted(b, c, n, o)
<1> SUFFICES ASSUME NEW b \in TryRanked(as, i, o)
             PROVE  Accounted(b, c, n, o)
  OBVIOUS
<1>1. PICK a \in as :
         b \in UNION {TryIfLargeEnough(a, tier, o) : tier \in Ranked(o, i)}
  BY DEF TryRanked
<1>2. PICK tier \in Ranked(o, i) : b \in TryIfLargeEnough(a, tier, o)
  BY <1>1
<1>3. tier \in Tier
  BY DEF Ranked
<1>4. b = a \/ b \in TryEvicting(a, tier, o)
  BY <1>2 DEF TryIfLargeEnough
<1> QED
  BY <1>3, <1>4, TryEvictingAccounts

LEMMA AttemptsAccount ==
    ASSUME NEW policy \in Policy, NEW c, NEW n \in Nat, n \notin DOMAIN c.objects,
           c.next_kv_id = n + 1, NEW o \in KvObject, NEW a \in Attempts(policy, c, o)
    PROVE  Accounted(a, c, n, o)
<1> DEFINE start == [cache |-> c, evicted |-> {}, tier |-> None]
           E(as) == \A b \in as : Accounted(b, c, n, o)
<1>1. Accounted(start, c, n, o) /\ E({start})
  BY DEF Accounted
<1>2. "Gpu" \in Tier /\ "Cpu" \in Tier /\ "RemoteMemory" \in Tier
  BY DEF Tier
<1> HIDE DEF start
<1>3. \A tier \in Tier : E(TryEvicting(start, tier, o))
  BY <1>1, TryEvictingAccounts
<1>4. E(LocalGpuLru(start, o))
  <2> SUFFICES ASSUME NEW b \in LocalGpuLru(start, o)
               PROVE  Accounted(b, c, n, o)
    OBVIOUS
  <2>1. PICK d \in TryEvicting(start, "Gpu", o) : b \in TryAsItIs(d, "Cpu", o)
    BY DEF LocalGpuLru
  <2>2. Accounted(d, c, n, o)
    BY <1>2, <1>3
  <2> QED
    BY <1>2, <2>1, <2>2, PutAccounts DEF TryAsItIs
<1>5. E(CpuOffloadLru(start, o))
  BY <1>2, <1>3, TryEvictingAccounts DEF CpuOffloadLru
<1>6. E(RemoteLru(start, o)) /\ E(SizeAware(start, o))
  BY <1>2, <1>3 DEF RemoteLru, SizeAware
<1>7. E(NetworkAware(start, o))
  BY <1>1, TryRankedAccounts DEF NetworkAware
<1> QED
  BY <1>4, <1>5, <1>6, <1>7 DEF Attempts, Policy, start

\* All that the cache d holds.
Held(d) == Bytes(d, DOMAIN d.objects)

LEMMA HeldType ==
    ASSUME NEW c, Good(c)
    PROVE  Held(c) \in Nat
<1> DEFINE K == DOMAIN c.objects
<1>1. /\ IsFiniteSet(K) /\ Sized(c.objects, K)
      /\ IsFiniteSet({}) /\ Sized(c.objects, {}) /\ K \cap {} = {}
  BY TierFinite, FS_EmptySet DEF Good, Sized
<1>2. Bytes(c, K) \in Nat
  BY <1>1, BytesAdd
<1> QED
  BY <1>2 DEF Held

LEMMA TouchedHolds ==
    ASSUME NEW c, Good(c), NEW k \in DOMAIN c.objects, NEW t
    PROVE  Held(Touched(c, k, t)) = Held(c)
<1> DEFINE d == Touched(c, k, t)
<1>1. d.objects = [c.objects EXCEPT ![k] = [@ EXCEPT !.last_access_ns = t]]
  BY DEF Touched, With
<1>2. c.objects[k] \in KvObject /\ c.objects = [j \in DOMAIN c.objects |-> c.objects[j]]
  BY CacheParts DEF Good
<1> HIDE DEF d
<1>3. /\ DOMAIN d.objects = DOMAIN c.objects
      /\ \A j \in DOMAIN c.objects : d.objects[j].bytes = c.objects[j].bytes
  BY <1>1, <1>2 DEF KvObject
<1>4. Bytes(d, DOMAIN c.objects) = Bytes(c, DOMAIN c.objects)
  BY <1>3, BytesSame
<1>5. Held(d) = Held(c)
  BY <1>3, <1>4 DEF Held
<1> QED
  BY <1>5 DEF d

\* Every placement that succeeds changes what the cache holds by the object's
\* bytes and those of what it reports as evicted; one that fails adds nothing.
LEMMA PlacementsAccount ==
    ASSUME NEW c, Good(c), c.next_kv_id < MaxKvId, NEW policy \in Policies,
           NEW s \in Session, NEW p \in Prefix, NEW t \in Time,
           NEW a \in Placements(policy, c, s, p, t)
    PROVE  /\ Held(c) \in Nat /\ Held(a.cache) \in Nat /\ Bytes(c, a.evicted) \in Nat
           /\ a.tier # None => Held(a.cache) + Bytes(c, a.evicted) = Held(c) + KvBytes(p)
           /\ a.tier = None => Held(a.cache) <= Held(c)
<1> DEFINE n == c.next_kv_id
           o == NewObject(s, p, t)
           K == a.evicted
           there == DOMAIN c.objects \ K
<1>1. a \in Attempts(policy, Allocated(c), o) /\ policy \in Policy
  BY PlacementAssumption DEF Placements
<1>2. /\ Allocated(c).objects = c.objects /\ Allocated(c).next_kv_id = n + 1
      /\ n \in Nat /\ n \notin DOMAIN c.objects
  BY AllocatedGood, CacheAssumption DEF Good, Cache
<1>3. o \in KvObject /\ o.bytes = KvBytes(p) /\ o.bytes \in Nat
  BY NewObjectType, CacheAssumption DEF NewObject, KvObject
<1> HIDE DEF o
<1>4. Accounted(a, Allocated(c), n, o)
  BY <1>1, <1>2, <1>3, AttemptsAccount
<1>5. /\ K \subseteq DOMAIN c.objects
      /\ DOMAIN a.cache.objects = there \cup (IF a.tier = None THEN {} ELSE {n})
      /\ \A k \in there : a.cache.objects[k].bytes = c.objects[k].bytes
      /\ a.tier # None => a.cache.objects[n].bytes = o.bytes
  BY <1>2, <1>3, <1>4 DEF Accounted, KvObject
<1>6. /\ IsFiniteSet(K) /\ Sized(c.objects, K)
      /\ IsFiniteSet(there) /\ Sized(c.objects, there)
  BY <1>5, TierFinite DEF Good
<1>7. K \cap there = {} /\ K \cup there = DOMAIN c.objects
  BY <1>5
<1> HIDE DEF there, K
<1>8. /\ Bytes(c, K) \in Nat /\ Bytes(c, there) \in Nat
      /\ Held(c) = Bytes(c, K) + Bytes(c, there)
  BY <1>6, <1>7, BytesAdd DEF Held
<1>9. Bytes(a.cache, there) = Bytes(c, there)
  BY <1>5, BytesSame
<1>10. CASE a.tier = None
  <2>1. Held(a.cache) = Bytes(c, there)
    BY <1>5, <1>9, <1>10 DEF Held
  <2> QED
    BY <1>8, <1>10, <2>1 DEF K
<1>11. CASE a.tier # None
  <2>1. DOMAIN a.cache.objects = there \cup {n} /\ there \cap {n} = {}
    BY <1>2, <1>5, <1>11 DEF there
  <2>2. Sized(a.cache.objects, there) /\ Sized(a.cache.objects, {n})
    BY <1>3, <1>5, <1>6, <1>11 DEF Sized
  <2>3. IsFiniteSet({n})
    BY FS_Singleton
  <2>4. Held(a.cache) = Bytes(a.cache, there) + Bytes(a.cache, {n})
    BY <1>6, <2>1, <2>2, <2>3, BytesAdd DEF Held
  <2>5. Bytes(a.cache, {n}) = KvBytes(p)
    BY <1>3, <1>5, <1>11, BytesOfOne
  <2> QED
    BY <1>3, <1>8, <1>9, <1>11, <2>4, <2>5 DEF K
<1> QED
  BY <1>10, <1>11

\* Every placement leaves what it does not evict as it was, adds the one object
\* at most, and evicts nothing that was accessed later than what stays beside it.
LEMMA PlacementsKeep ==
    ASSUME NEW c, Good(c), c.next_kv_id < MaxKvId, NEW policy \in Policies,
           NEW s \in Session, NEW p \in Prefix, NEW t \in Time,
           NEW a \in Placements(policy, c, s, p, t)
    PROVE  /\ \A k \in DOMAIN a.cache.objects :
                 \/ k \in DOMAIN c.objects /\ a.cache.objects[k] = c.objects[k]
                 \/ /\ k \notin DOMAIN c.objects
                    /\ a.cache.objects[k].last_access_ns = t
           /\ \A v \in DOMAIN c.objects \ DOMAIN a.cache.objects,
                 k \in DOMAIN c.objects \cap DOMAIN a.cache.objects :
                 c.objects[v].location = c.objects[k].location
                   => LastAccess(c, v) <= LastAccess(c, k)
<1> DEFINE n == c.next_kv_id
           o == NewObject(s, p, t)
<1>1. a \in Attempts(policy, Allocated(c), o) /\ policy \in Policy
  BY PlacementAssumption DEF Placements
<1>2. /\ Allocated(c).objects = c.objects /\ Allocated(c).next_kv_id = n + 1
      /\ n \in Nat /\ n \notin DOMAIN c.objects
  BY AllocatedGood, CacheAssumption DEF Good, Cache
<1>3. o \in KvObject /\ o.last_access_ns = t
  BY NewObjectType DEF NewObject
<1> HIDE DEF o
<1>4. Accounted(a, Allocated(c), n, o)
  BY <1>1, <1>2, <1>3, AttemptsAccount
<1> DEFINE there == DOMAIN c.objects \ a.evicted
<1>5. /\ a.evicted \subseteq DOMAIN c.objects
      /\ DOMAIN a.cache.objects = there \cup (IF a.tier = None THEN {} ELSE {n})
      /\ \A k \in there : a.cache.objects[k] = c.objects[k]
      /\ a.tier # None => a.cache.objects[n] = [o EXCEPT !.location = On(a.tier)]
  BY <1>2, <1>4 DEF Accounted
<1>6. \A v \in a.evicted, k \in there :
         c.objects[v].location = c.objects[k].location
           => LastAccess(c, v) <= LastAccess(c, k)
  BY <1>2, <1>4 DEF Accounted, LastAccess
<1>7. a.tier # None => a.cache.objects[n].last_access_ns = t
  BY <1>3, <1>5 DEF KvObject
<1> QED
  BY <1>2, <1>5, <1>6, <1>7

-----------------------------------------------------------------------------
(* What a placement that evicts nothing leaves in the index *)

\* The index of c has lost no key, unless something has been evicted.
StillIndexed(a, c) ==
    a.evicted = {} =>
        DOMAIN c.by_session_prefix \subseteq DOMAIN a.cache.by_session_prefix

LEMMA PutIndexes ==
    ASSUME NEW c, NEW o, NEW tier, NEW a, StillIndexed(a, c)
    PROVE  StillIndexed(Put(a, tier, o), c)
<1> DEFINE d == Inserted(a.cache, a.cache.next_kv_id - 1, [o EXCEPT !.location = On(tier)])
<1>1. \/ Put(a, tier, o) = a
      \/ Put(a, tier, o) = [cache |-> d, evicted |-> a.evicted, tier |-> tier]
  BY DEF Put
<1>2. DOMAIN a.cache.by_session_prefix \subseteq DOMAIN d.by_session_prefix
  BY DEF Inserted, With
<1> HIDE DEF d
<1> QED
  BY <1>1, <1>2 DEF StillIndexed

LEMMA TryEvictingIndexes ==
    ASSUME NEW c, NEW o, NEW tier, NEW a, StillIndexed(a, c),
           NEW b \in TryEvicting(a, tier, o)
    PROVE  StillIndexed(b, c)
<1>1. CASE a.tier # None
  BY <1>1 DEF TryEvicting
<1>2. CASE a.tier = None
  <2>1. PICK K \in Victims(a.cache, On(tier), o.bytes) :
           b = Put(Evicting(a, K), tier, o)
    BY <1>2 DEF TryEvicting
  <2> DEFINE d == Evicting(a, K)
  <2>2. /\ d.evicted = a.evicted \cup K
        /\ DOMAIN d.cache.by_session_prefix
             = DOMAIN a.cache.by_session_prefix \cap
                 (DOMAIN a.cache.by_session_prefix \ {KeyOf(a.cache.objects[k]) : k \in K})
    BY DEF Evicting, Removed, With, Restrict
  <2> HIDE DEF d
  <2>3. StillIndexed(d, c)
    BY <2>2 DEF StillIndexed
  <2> QED
    BY <2>1, <2>3, PutIndexes DEF d
<1> QED
  BY <1>1, <1>2

LEMMA TryRankedIndexes ==
    ASSUME NEW c, NEW o, NEW i, NEW as, \A a \in as : StillIndexed(a, c)
    PROVE  \A b \in TryRanked(as, i, o) : StillIndexed(b, c)
<1> SUFFICES ASSUME NEW b \in TryRanked(as, i, o) PROVE StillIndexed(b, c)
  OBVIOUS
<1>1. PICK a \in as :
         b \in UNION {TryIfLargeEnough(a, tier, o) : tier \in Ranked(o, i)}
  BY DEF TryRanked
<1>2. PICK tier \in Ranked(o, i) : b \in TryIfLargeEnough(a, tier, o)
  BY <1>1
<1>3. b = a \/ b \in TryEvicting(a, tier, o)
  BY <1>2 DEF TryIfLargeEnough
<1> QED
  BY <1>3, TryEvictingIndexes

LEMMA AttemptsIndex ==
    ASSUME NEW policy \in Policy, NEW c, NEW o, NEW a \in Attempts(policy, c, o)
    PROVE  StillIndexed(a, c)
<1> DEFINE start == [cache |-> c, evicted |-> {}, tier |-> None]
           F(as) == \A b \in as : StillIndexed(b, c)
<1>1. StillIndexed(start, c) /\ F({start})
  BY DEF StillIndexed
<1> HIDE DEF start
<1>2. \A tier : F(TryEvicting(start, tier, o))
  BY <1>1, TryEvictingIndexes
<1>3. F(LocalGpuLru(start, o))
  <2> SUFFICES ASSUME NEW b \in LocalGpuLru(start, o) PROVE StillIndexed(b, c)
    OBVIOUS
  <2>1. PICK d \in TryEvicting(start, "Gpu", o) : b \in TryAsItIs(d, "Cpu", o)
    BY DEF LocalGpuLru
  <2>2. StillIndexed(d, c)
    BY <1>2
  <2> QED
    BY <2>1, <2>2, PutIndexes DEF TryAsItIs
<1>4. F(CpuOffloadLru(start, o))
  BY <1>2, TryEvictingIndexes DEF CpuOffloadLru
<1>5. F(RemoteLru(start, o)) /\ F(SizeAware(start, o))
  BY <1>2 DEF RemoteLru, SizeAware
<1>6. F(NetworkAware(start, o))
  BY <1>1, TryRankedIndexes DEF NetworkAware
<1>7. F(Attempts(policy, c, o))
  BY <1>3, <1>4, <1>5, <1>6 DEF Attempts, Policy, start
<1> QED
  BY <1>7

\* A placement that succeeds and evicts nothing keeps every object and every
\* key of the index, and adds one; the new object is on a tier of its node.
LEMMA PlacementsExtend ==
    ASSUME NEW c, Good(c), c.next_kv_id < MaxKvId, NEW policy \in Policies,
           NEW s \in Session, NEW p \in Prefix, NEW t \in Time,
           NEW a \in Placements(policy, c, s, p, t)
    PROVE  LET n == c.next_kv_id
               there == DOMAIN c.objects \ a.evicted
           IN  /\ n \in Nat /\ n \notin DOMAIN c.objects
               /\ a.cache.next_kv_id = n + 1
               /\ a.evicted \subseteq DOMAIN c.objects
               /\ DOMAIN a.cache.objects
                    = there \cup (IF a.tier = None THEN {} ELSE {n})
               /\ \A k \in there : a.cache.objects[k] = c.objects[k]
               /\ a.tier # None =>
                    /\ a.tier \in Tier
                    /\ KeyOf(a.cache.objects[n]) = <<s, p>>
                    /\ a.cache.objects[n].location = On(a.tier)
                    /\ <<s, p>> \in DOMAIN a.cache.by_session_prefix
               /\ a.evicted = {} => DOMAIN c.by_session_prefix
                                      \subseteq DOMAIN a.cache.by_session_prefix
<1> DEFINE n == c.next_kv_id
           o == NewObject(s, p, t)
<1>1. a \in Attempts(policy, Allocated(c), o) /\ policy \in Policy
  BY PlacementAssumption DEF Placements
<1>2. /\ Allocated(c).objects = c.objects /\ Allocated(c).next_kv_id = n + 1
      /\ n \in Nat /\ n \notin DOMAIN c.objects
  BY AllocatedGood, CacheAssumption DEF Good, Cache
<1>3. Allocated(c).by_session_prefix = c.by_session_prefix
  BY DEF Allocated, Good, Cache
<1>4. o \in KvObject /\ KeyOf(o) = <<s, p>>
  BY NewObjectType
<1>5. AttemptGood(a, n, <<s, p>>)
  BY PlacementsGood DEF AllGood
<1> HIDE DEF o
<1>6. Accounted(a, Allocated(c), n, o) /\ StillIndexed(a, Allocated(c))
  BY <1>1, <1>2, <1>4, AttemptsAccount, AttemptsIndex
<1>7. ASSUME a.tier # None
      PROVE  /\ a.tier \in Tier
             /\ KeyOf(a.cache.objects[n]) = <<s, p>>
             /\ a.cache.objects[n].location = On(a.tier)
             /\ <<s, p>> \in DOMAIN a.cache.by_session_prefix
  <2>1. a.cache.objects[n] = [o EXCEPT !.location = On(a.tier)]
    BY <1>6, <1>7 DEF Accounted
  <2>2. Lookup(a.cache, <<s, p>>) = {n} /\ a.tier \in Tier
    BY <1>5, <1>7 DEF AttemptGood
  <2> QED
    BY <1>4, <2>1, <2>2 DEF KvObject, KeyOf, Lookup
<1> HIDE DEF n
<1> QED
  BY <1>2, <1>3, <1>6, <1>7 DEF Accounted, StillIndexed, n

-----------------------------------------------------------------------------
(* NetworkAwarePlacement evicts nothing in vain *)

\* Emptying a tier that is large enough makes room, because the counters are
\* exact: so the loop stops with room whenever it may start.
LEMMA RoomMade ==
    ASSUME NEW c, Good(c), NEW cell \in Cell, NEW bytes \in Nat,
           c.capacities[cell] >= bytes, NEW K \in Victims(c, cell, bytes)
    PROVE  Fits(Removed(c, K), cell, bytes)
<1> DEFINE there == ObjectsInTier(c, cell)
           d == Removed(c, there)
<1>1. CASE Fits(Removed(c, K), cell, bytes)
  BY <1>1
<1>2. CASE K = there
  <2>1. /\ c.usage[cell] \in Nat /\ c.capacities[cell] \in Nat
        /\ c.usage[cell] = Bytes(c, there)
    BY CacheParts DEF Good, Exact
  <2>2. d.usage[cell] = SatSub(c.usage[cell], Bytes(c, there \cap there))
    BY DEF Removed, With
  <2>3. there \cap there = there /\ d.capacities = c.capacities
    BY DEF Removed, With
  <2>4. d.usage[cell] = SatSub(c.usage[cell], c.usage[cell])
    BY <2>1, <2>2, <2>3, Zenon
  <2> HIDE DEF d, there
  <2>5. d.usage[cell] = 0
    BY <2>1, <2>4 DEF SatSub
  <2>6. Fits(d, cell, bytes)
    BY <2>1, <2>3, <2>5 DEF Fits, AvailableSpace, SatSub
  <2> QED
    BY <1>2, <2>6 DEF d
<1> QED
  BY <1>1, <1>2 DEF Victims

\* The attempt a, which began with the cache c, has evicted nothing unless a
\* tier has taken the object, and then only from that tier.
Frugal(a, c) ==
    /\ a.tier = None => a.cache = c /\ a.evicted = {}
    /\ a.tier # None => \A k \in a.evicted : c.objects[k].location = On(a.tier)

LEMMA FrugalTry ==
    ASSUME NEW c, Good(c), NEW o \in KvObject, NEW tier \in Tier,
           NEW a, Frugal(a, c), NEW b \in TryIfLargeEnough(a, tier, o)
    PROVE  Frugal(b, c)
<1>1. CASE a.tier # None \/ a.cache.capacities[On(tier)] < o.bytes
  <2>1. b = a
    BY <1>1 DEF TryIfLargeEnough, TryEvicting
  <2> QED
    BY <2>1
<1>2. CASE a.tier = None /\ ~(a.cache.capacities[On(tier)] < o.bytes)
  <2>1. a.cache = c /\ a.evicted = {}
    BY <1>2 DEF Frugal
  <2>2. PICK K \in Victims(c, On(tier), o.bytes) :
           b = Put(Evicting(a, K), tier, o)
    BY <1>2, <2>1 DEF TryIfLargeEnough, TryEvicting
  <2>3. On(tier) \in Cell /\ tier # None /\ o.bytes \in Nat
    BY TierIsCell, CacheAssumption DEF KvObject
  <2>4. c.capacities[On(tier)] >= o.bytes
    <3>1. c.capacities[On(tier)] \in Nat
      BY <2>3, CacheParts DEF Good
    <3> QED
      BY <1>2, <2>1, <2>3, <3>1
  <2>5. Fits(Removed(c, K), On(tier), o.bytes)
    BY <2>3, <2>4, RoomMade
  <2>6. b.tier = tier /\ b.evicted = K
    BY <2>1, <2>2, <2>5 DEF Put, Evicting
  <2>7. \A k \in K : c.objects[k].location = On(tier)
    BY VictimsThere DEF ObjectsInTier
  <2> QED
    BY <2>3, <2>6, <2>7 DEF Frugal
<1> QED
  BY <1>1, <1>2

LEMMA FrugalRanked ==
    ASSUME NEW c, Good(c), NEW o \in KvObject, NEW i,
           NEW as, \A a \in as : Frugal(a, c)
    PROVE  \A b \in TryRanked(as, i, o) : Frugal(b, c)
<1> SUFFICES ASSUME NEW b \in TryRanked(as, i, o) PROVE Frugal(b, c)
  OBVIOUS
<1>1. PICK a \in as :
         b \in UNION {TryIfLargeEnough(a, tier, o) : tier \in Ranked(o, i)}
  BY DEF TryRanked
<1>2. PICK tier \in Ranked(o, i) : b \in TryIfLargeEnough(a, tier, o)
  BY <1>1
<1>3. tier \in Tier
  BY DEF Ranked
<1> QED
  BY <1>2, <1>3, FrugalTry

LEMMA FrugalNetworkAware ==
    ASSUME NEW c, Good(c), NEW o \in KvObject,
           NEW a \in Attempts("NetworkAwarePlacement", c, o)
    PROVE  Frugal(a, c)
<1> DEFINE start == [cache |-> c, evicted |-> {}, tier |-> None]
           F(as) == \A b \in as : Frugal(b, c)
<1>1. F({start})
  BY DEF Frugal
<1>2. a \in NetworkAware(start, o)
  BY DEF Attempts
<1> HIDE DEF start
<1>3. F(NetworkAware(start, o))
  BY <1>1, FrugalRanked DEF NetworkAware
<1> QED
  BY <1>2, <1>3

-----------------------------------------------------------------------------
(* The theorems *)

LEMMA PlaceGoodInit == PlaceInit => IInv
<1> SUFFICES ASSUME NEW capacities \in Capacities,
                    cache = [NewCache EXCEPT !.capacities = capacities]
             PROVE  Good(cache)
  BY DEF PlaceInit, IInv
<1> DEFINE c == NewCache
<1>1. /\ c \in Cache /\ Exact(c) /\ IdsAllocated(c) /\ Within(c) /\ Sound(c)
      /\ capacities \in [Cell -> Nat]
  BY NewGood, PlacementAssumption DEF Good
<1>2. /\ cache.objects = c.objects
      /\ cache.by_session_prefix = c.by_session_prefix
      /\ cache.usage = c.usage
      /\ cache.next_kv_id = c.next_kv_id
      /\ cache.capacities = capacities
      /\ \A cell \in Cell : c.usage[cell] = 0
  BY DEF NewCache
<1>3. cache \in Cache
  BY <1>1 DEF Cache
<1> HIDE DEF c
<1>4. Exact(cache) /\ IdsAllocated(cache) /\ Sound(cache)
  BY <1>1, <1>2 DEF Exact, Bytes, ObjectsInTier, IdsAllocated, Sound
<1>5. Within(cache)
  BY <1>1, <1>2 DEF Within
<1> QED
  BY <1>3, <1>4, <1>5 DEF Good

LEMMA PlaceGoodNext == IInv /\ [PlaceNext]_cache => IInv'
<1> SUFFICES ASSUME Good(cache), [PlaceNext]_cache PROVE Good(cache')
  BY DEF IInv
<1>1. ASSUME NEW policy \in Policies, NEW s \in Session, NEW p \in Prefix,
             NEW t \in Time, Place(policy, s, p, t)
      PROVE  Good(cache')
  <2>1. cache.next_kv_id < MaxKvId
    BY <1>1 DEF Place
  <2>2. PICK a \in Placements(policy, cache, s, p, t) : cache' = a.cache
    BY <1>1 DEF Place
  <2> QED
    BY <2>1, <2>2, PlacementsGood DEF AllGood, AttemptGood
<1>2. ASSUME NEW k \in KvId, NEW t \in Time, UpdateAccess(k, t)
      PROVE  Good(cache')
  BY <1>2, TouchedGood DEF UpdateAccess
<1>3. CASE UNCHANGED cache
  BY <1>3
<1> QED
  BY <1>1, <1>2, <1>3 DEF PlaceNext

LEMMA PlaceGoodAlways == PlaceSpec => []IInv
  BY PlaceGoodInit, PlaceGoodNext, PTL DEF PlaceSpec

\* However the policies evict and place, and whatever is touched in between,
\* the counters are exact.
THEOREM PlacementUsageExact == PlaceSpec => []UsageExact
<1>1. IInv => UsageExact
  BY DEF IInv, Good, UsageExact, Exact
<1> QED
  BY <1>1, PlaceGoodAlways, PTL

\* No policy overfills a tier.
THEOREM PlacementWithinCapacity == PlaceSpec => []WithinCapacity
<1>1. IInv => WithinCapacity
  BY DEF IInv, Good, WithinCapacity, Within
<1> QED
  BY <1>1, PlaceGoodAlways, PTL

\* Eviction and placement leave no index entry dangling.
THEOREM PlacementIndexSound == PlaceSpec => []IndexSound
<1>1. IInv => IndexSound
  BY DEF IInv, Good, IndexSound, Sound
<1> QED
  BY <1>1, PlaceGoodAlways, PTL

\* Every placement that succeeds can be looked up afterwards, whatever it has
\* evicted and whatever was in the cache under the same key.
THEOREM PlacedObjectIsFound == PlaceSpec => []PlacedIsFound
<1>1. IInv => PlacedIsFound
  <2> SUFFICES ASSUME Good(cache), NEW call \in Upcoming,
                      NEW a \in Placements(call[1], cache, call[2], call[3], call[4]),
                      a.tier # None
               PROVE  Lookup(a.cache, <<call[2], call[3]>>) = {cache.next_kv_id}
    BY DEF IInv, PlacedIsFound
  <2>1. /\ cache.next_kv_id < MaxKvId
        /\ call[1] \in Policies /\ call[2] \in Session
        /\ call[3] \in Prefix /\ call[4] \in Time
    BY DEF Upcoming
  <2>2. AllGood(Placements(call[1], cache, call[2], call[3], call[4]),
                cache.next_kv_id, <<call[2], call[3]>>)
    BY <2>1, PlacementsGood
  <2> QED
    BY <2>2 DEF AllGood, AttemptGood
<1> QED
  BY <1>1, PlaceGoodAlways, PTL

\* NetworkAwarePlacement's capacity check before the eviction loop is enough:
\* an object is evicted only from the tier that takes the new one, and none is
\* when the placement fails.
THEOREM EvictsNothingInVain == PlaceSpec => []EvictsWhereItPlaces
<1>1. IInv => EvictsWhereItPlaces
  <2> SUFFICES ASSUME Good(cache), NEW call \in Upcoming,
                      call[1] = "NetworkAwarePlacement",
                      NEW a \in Placements(call[1], cache, call[2], call[3], call[4]),
                      NEW k \in a.evicted
               PROVE  a.tier # None /\ cache.objects[k].location = On(a.tier)
    BY DEF IInv, EvictsWhereItPlaces
  <2> DEFINE o == NewObject(call[2], call[3], call[4])
  <2>1. /\ cache.next_kv_id < MaxKvId /\ call[2] \in Session
        /\ call[3] \in Prefix /\ call[4] \in Time
    BY DEF Upcoming
  <2>2. /\ Good(Allocated(cache)) /\ Allocated(cache).objects = cache.objects
        /\ o \in KvObject
    BY <2>1, AllocatedGood, NewObjectType
  <2>3. a \in Attempts("NetworkAwarePlacement", Allocated(cache), o)
    BY DEF Placements
  <2> HIDE DEF o
  <2>4. Frugal(a, Allocated(cache))
    BY <2>2, <2>3, FrugalNetworkAware
  <2> QED
    BY <2>2, <2>4 DEF Frugal
<1> QED
  BY <1>1, PlaceGoodAlways, PTL


-----------------------------------------------------------------------------
(* A policy takes the tier that it prefers *)

\* Eviction makes the room that a tier can have, and no other: it places the
\* object on a tier that could hold it if it were empty, and only there.
LEMMA TryEvictingFills ==
    ASSUME NEW a, Good(a.cache), a.tier = None, NEW o \in KvObject,
           NEW tier \in Tier, NEW b \in TryEvicting(a, tier, o)
    PROVE  IF a.cache.capacities[On(tier)] >= o.bytes
           THEN b.tier = tier
           ELSE /\ b.tier = None /\ Good(b.cache)
                /\ b.cache.capacities = a.cache.capacities
<1> DEFINE c == a.cache
<1>1. PICK K \in Victims(c, On(tier), o.bytes) : b = Put(Evicting(a, K), tier, o)
  BY DEF TryEvicting
<1>2. On(tier) \in Cell /\ tier # None /\ o.bytes \in Nat
      /\ c.capacities[On(tier)] \in Nat
  BY TierIsCell, CacheAssumption, CacheParts DEF KvObject, Good
<1>3. /\ Evicting(a, K).cache = Removed(c, K) /\ Evicting(a, K).tier = None
      /\ Removed(c, K).capacities = c.capacities
  BY DEF Evicting, Removed, With
<1>4. Good(Removed(c, K))
  BY VictimsThere, RemovedGood
<1>5. CASE c.capacities[On(tier)] >= o.bytes
  <2>1. Fits(Removed(c, K), On(tier), o.bytes)
    BY <1>2, <1>5, RoomMade
  <2> QED
    BY <1>1, <1>3, <1>5, <2>1 DEF Put
<1>6. CASE ~(c.capacities[On(tier)] >= o.bytes)
  <2>1. ~Fits(Removed(c, K), On(tier), o.bytes)
    <3> DEFINE d == Removed(c, K)
    <3>1. d.usage[On(tier)] \in Nat /\ d.capacities[On(tier)] = c.capacities[On(tier)]
      BY <1>2, <1>3, <1>4, CacheParts DEF Good
    <3>2. On(tier) # Missing
      BY <1>2, CacheAssumption
    <3> HIDE DEF d
    <3> QED
      BY <1>2, <1>6, <3>1, <3>2 DEF Fits, AvailableSpace, SatSub, d
  <2>2. b = Evicting(a, K)
    BY <1>1, <1>3, <2>1 DEF Put
  <2> QED
    BY <1>3, <1>4, <1>6, <2>2
<1> QED
  BY <1>5, <1>6

\* The attempt b has put o on the tier that the policy prefers, of those that
\* could hold it in an empty cache of c's capacities.
Chosen(policy, b, c, o) ==
    LET large == {tier \in Choices(policy, o) : c.capacities[On(tier)] >= o.bytes}
    IN  /\ large # {} => /\ b.tier \in large
                         /\ \A t \in large \ {b.tier} : Prefers(policy, b.tier, t, o)
        /\ large = {} => b.tier = None \/ policy = "LocalGpuLru"

Start(c) == [cache |-> c, evicted |-> {}, tier |-> None]

\* The policies that try one tier, or two in a fixed order.
LEMMA FixedOrderChooses ==
    ASSUME NEW c, Good(c), NEW o \in KvObject,
           NEW policy \in Policy \ {"NetworkAwarePlacement"},
           NEW b \in Attempts(policy, c, o)
    PROVE  Chosen(policy, b, c, o)
<1> DEFINE start == Start(c)
           Large(tier) == c.capacities[On(tier)] >= o.bytes
<1>1. start.cache = c /\ start.tier = None
  BY DEF Start
<1>2. /\ "Gpu" \in Tier /\ "Cpu" \in Tier /\ "RemoteMemory" \in Tier
      /\ None \notin Tier
  BY PlacementAssumption DEF Tier
<1>3. ASSUME NEW tier \in Tier, NEW a \in TryEvicting(start, tier, o)
      PROVE  /\ Large(tier) => a.tier = tier
             /\ ~Large(tier) => /\ a.tier = None /\ Good(a.cache)
                                /\ a.cache.capacities = c.capacities
  BY <1>1, <1>3, TryEvictingFills
<1> HIDE DEF start
<1>4. CASE policy = "LocalGpuLru"
  <2>1. b \in LocalGpuLru(start, o)
    BY <1>4 DEF Attempts, start, Start
  <2>2. PICK a \in TryEvicting(start, "Gpu", o) : b \in TryAsItIs(a, "Cpu", o)
    BY <2>1 DEF LocalGpuLru
  <2>3. Large("Gpu") => b.tier = "Gpu"
    BY <1>2, <1>3, <2>2 DEF TryAsItIs
  <2>4. Choices(policy, o) = {"Gpu"}
    BY <1>4 DEF Choices
  <2> QED
    BY <1>4, <2>3, <2>4 DEF Chosen
<1>5. CASE policy = "CpuOffloadLru"
  <2>1. b \in CpuOffloadLru(start, o)
    BY <1>5 DEF Attempts, start, Start
  <2>2. PICK a \in TryEvicting(start, "Gpu", o) : b \in TryEvicting(a, "Cpu", o)
    BY <2>1 DEF CpuOffloadLru
  <2>3. Large("Gpu") => b.tier = "Gpu"
    BY <1>2, <1>3, <2>2 DEF TryEvicting
  <2>4. ~Large("Gpu") => IF Large("Cpu") THEN b.tier = "Cpu" ELSE b.tier = None
    BY <1>2, <1>3, <2>2, TryEvictingFills
  <2>5. Choices(policy, o) = {"Gpu", "Cpu"}
    BY <1>5 DEF Choices
  <2>6. Prefers(policy, "Gpu", "Cpu", o)
    BY <1>5 DEF Prefers, Listed
  <2> QED
    BY <2>3, <2>4, <2>5, <2>6 DEF Chosen
<1>6. CASE policy = "RemoteLru"
  <2>1. b \in TryEvicting(start, "RemoteMemory", o)
    BY <1>6 DEF Attempts, start, Start, RemoteLru
  <2>2. Choices(policy, o) = {"RemoteMemory"}
    BY <1>6 DEF Choices
  <2> QED
    BY <1>2, <1>3, <2>1, <2>2 DEF Chosen
<1>7. CASE policy = "SizeAware"
  <2> DEFINE tier == IF o.bytes <= GpuThreshold THEN "Gpu" ELSE "Cpu"
  <2>1. b \in TryEvicting(start, tier, o)
    BY <1>7 DEF Attempts, start, Start, SizeAware
  <2>2. o.bytes \in Nat /\ GpuThreshold \in Nat
    BY CacheAssumption, PlacementAssumption DEF KvObject
  <2>3. tier \in Tier
    BY <1>2
  <2>4. Choices(policy, o) = {tier}
    BY <1>7, <2>2 DEF Choices
  <2> HIDE DEF tier
  <2>5. IF Large(tier) THEN b.tier = tier ELSE b.tier = None
    BY <1>3, <2>1, <2>3
  <2> QED
    BY <2>4, <2>5 DEF Chosen
<1> QED
  BY <1>4, <1>5, <1>6, <1>7 DEF Policy

-----------------------------------------------------------------------------
(* The ranks of NetworkAwarePlacement *)

\* s comes before t in the stable sort by utility.
AheadOf(s, t, o) ==
    LET U(tier) == UtilityForTier(tier, o.bytes, o.prefix_tokens)
    IN  U(s) > U(t) \/ (U(s) = U(t) /\ Listed[s] < Listed[t])

RankOf(t, o) == Cardinality({s \in Tier : AheadOf(s, t, o)})

LEMMA RankedIs ==
    ASSUME NEW o, NEW i
    PROVE  Ranked(o, i) = {t \in Tier : RankOf(t, o) = i - 1}
BY DEF Ranked, RankOf, AheadOf

LEMMA TierCount == IsFiniteSet(Tier) /\ Cardinality(Tier) = 4
<1>1. IsFiniteSet({}) /\ Cardinality({}) = 0
  BY FS_EmptySet
<1> DEFINE A == {} \cup {"Gpu"}
           B == A \cup {"Cpu"}
           C == B \cup {"RemoteMemory"}
           D == C \cup {"RemoteSsd"}
<1>2. IsFiniteSet(A) /\ Cardinality(A) = 1
  BY <1>1, FS_AddElement
<1>3. IsFiniteSet(B) /\ Cardinality(B) = 2
  <2>1. "Cpu" \notin A
    OBVIOUS
  <2> HIDE DEF A
  <2> QED
    BY <1>2, <2>1, FS_AddElement
<1>4. IsFiniteSet(C) /\ Cardinality(C) = 3
  <2>1. "RemoteMemory" \notin B
    OBVIOUS
  <2> HIDE DEF B
  <2> QED
    BY <1>3, <2>1, FS_AddElement
<1>5. IsFiniteSet(D) /\ Cardinality(D) = 4
  <2>1. "RemoteSsd" \notin C
    OBVIOUS
  <2> HIDE DEF C
  <2> QED
    BY <1>4, <2>1, FS_AddElement
<1>6. Tier = D
  BY DEF Tier
<1> QED
  BY <1>5, <1>6

\* What a fetch costs and a tier's pressure penalty are natural numbers.
LEMMA CostsNat ==
    ASSUME NEW tier \in Tier, NEW bytes \in Nat
    PROVE  FetchCost(tier, bytes) \in Nat /\ PressurePenalty(tier, bytes) \in Nat
<1>1. CASE tier = "Gpu"
  BY <1>1 DEF FetchCost, PressurePenalty
<1>2. CASE tier # "Gpu"
  <2>1. tier \in FetchTier
    BY <1>2 DEF Tier, FetchTier
  <2>2. /\ Bandwidth[tier] \in Nat /\ BaseLatency[tier] \in Nat /\ NsPerUnit \in Nat
        /\ \A entry \in DOMAIN Calibrated : Calibrated[entry] \in Nat
    BY <2>1, TransferAssumption
  <2>3. \A n \in Nat, m \in Nat : m > 0 => n \div m \in Nat
    OBVIOUS
  <2>4. ASSUME Bandwidth[tier] # 0 PROVE Serialization(tier, bytes) \in Nat
    <3>1. Bandwidth[tier] \in Nat /\ Bandwidth[tier] > 0 /\ bytes * NsPerUnit \in Nat
      BY <2>2, <2>4
    <3> QED
      BY <3>1, <2>3 DEF Serialization
  <2>5. AnalyticalDuration(tier, bytes) # Fails =>
            AnalyticalDuration(tier, bytes) \in Nat
    BY <2>2, <2>4 DEF AnalyticalDuration
  <2>6. EstimateDuration(tier, bytes) # Fails => EstimateDuration(tier, bytes) \in Nat
    BY <2>2, <2>5 DEF EstimateDuration
  <2>7. FetchCost(tier, bytes) \in Nat
    BY <2>6, PlacementAssumption DEF FetchCost
  <2>8. bytes \div 100 \in Nat /\ bytes \div 10 \in Nat
    OBVIOUS
  <2> QED
    BY <2>7, <2>8 DEF PressurePenalty
<1> QED
  BY <1>1, <1>2

\* Whoever is ahead of t has a smaller rank: the sort is by a strict order.
LEMMA RankLess ==
    ASSUME NEW o, \A t \in Tier : UtilityForTier(t, o.bytes, o.prefix_tokens) \in Int,
           NEW s \in Tier, NEW t \in Tier, AheadOf(s, t, o)
    PROVE  RankOf(s, o) < RankOf(t, o)
<1> DEFINE U(tier) == UtilityForTier(tier, o.bytes, o.prefix_tokens)
           Before(tier) == {r \in Tier : AheadOf(r, tier, o)}
<1>1. \A tier \in Tier : U(tier) \in Int /\ Listed[tier] \in Int
  BY DEF Listed, Tier
<1>2. \A p, q \in Tier : AheadOf(p, q, o) <=>
          U(p) > U(q) \/ (U(p) = U(q) /\ Listed[p] < Listed[q])
  BY DEF AheadOf
<1> HIDE DEF U
<1>3. Before(s) \subseteq Before(t) /\ s \in Before(t) /\ s \notin Before(s)
  BY <1>1, <1>2
<1>4. IsFiniteSet(Before(t))
  BY TierCount, FS_Subset
<1>5. /\ Cardinality(Before(s)) \in Nat /\ Cardinality(Before(t)) \in Nat
      /\ Cardinality(Before(s)) <= Cardinality(Before(t))
      /\ Cardinality(Before(s)) # Cardinality(Before(t))
  BY <1>3, <1>4, FS_Subset, FS_CardinalityType
<1> QED
  BY <1>5 DEF RankOf

\* The ranks are 0 to 3.
LEMMA RankRange ==
    ASSUME NEW o, \A t \in Tier : UtilityForTier(t, o.bytes, o.prefix_tokens) \in Int,
           NEW t \in Tier
    PROVE  RankOf(t, o) \in 0 .. 3
<1> DEFINE Before == {r \in Tier : AheadOf(r, t, o)}
<1>1. t \notin Before
  BY DEF AheadOf, Listed, Tier
<1>2. Before \subseteq Tier /\ Before # Tier
  BY <1>1
<1>3. /\ IsFiniteSet(Before) /\ Cardinality(Before) \in Nat
      /\ Cardinality(Before) <= 4 /\ Cardinality(Before) # 4
  BY <1>2, TierCount, FS_Subset, FS_CardinalityType
<1> QED
  BY <1>3 DEF RankOf
\* No two tiers have the same rank, and the better one has the smaller.
LEMMA RankOrders ==
    ASSUME NEW o, \A t \in Tier : UtilityForTier(t, o.bytes, o.prefix_tokens) \in Int,
           NEW s \in Tier, NEW t \in Tier, s # t
    PROVE  /\ RankOf(s, o) # RankOf(t, o)
           /\ RankOf(s, o) < RankOf(t, o) <=> AheadOf(s, t, o)
<1> DEFINE U(tier) == UtilityForTier(tier, o.bytes, o.prefix_tokens)
<1>1. U(s) \in Int /\ U(t) \in Int /\ RankOf(s, o) \in Int /\ RankOf(t, o) \in Int
  BY RankRange
<1>2. Listed[s] \in Int /\ Listed[t] \in Int /\ Listed[s] # Listed[t]
  BY DEF Listed, Tier
<1>3. /\ AheadOf(s, t, o) <=> U(s) > U(t) \/ (U(s) = U(t) /\ Listed[s] < Listed[t])
      /\ AheadOf(t, s, o) <=> U(t) > U(s) \/ (U(t) = U(s) /\ Listed[t] < Listed[s])
  BY DEF AheadOf
<1> HIDE DEF U
<1>4. AheadOf(s, t, o) \/ AheadOf(t, s, o)
  BY <1>1, <1>2, <1>3
<1>5. /\ AheadOf(s, t, o) => RankOf(s, o) < RankOf(t, o)
      /\ AheadOf(t, s, o) => RankOf(t, o) < RankOf(s, o)
  BY RankLess
<1> QED
  BY <1>1, <1>4, <1>5

\* Where the attempt b stands when the i best tiers have been tried.
Sought(b, c, o, i) ==
    LET Large(tier) == c.capacities[On(tier)] >= o.bytes
    IN  IF b.tier = None
        THEN /\ Good(b.cache) /\ b.cache.capacities = c.capacities
             /\ \A t \in Tier : RankOf(t, o) < i => ~Large(t)
        ELSE /\ b.tier \in Tier /\ Large(b.tier)
             /\ \A t \in Tier : RankOf(t, o) < RankOf(b.tier, o) => ~Large(t)

LEMMA TryRankedSeeks ==
    ASSUME NEW c, NEW o \in KvObject, NEW i \in Nat, NEW as,
           c.capacities \in [Cell -> Nat],
           \A t \in Tier : UtilityForTier(t, o.bytes, o.prefix_tokens) \in Int,
           \A a \in as : Sought(a, c, o, i),
           NEW b \in TryRanked(as, i + 1, o)
    PROVE  Sought(b, c, o, i + 1)
<1> DEFINE Large(tier) == c.capacities[On(tier)] >= o.bytes
<1>1. PICK a \in as : \E tier \in Ranked(o, i + 1) : b \in TryIfLargeEnough(a, tier, o)
  <2>1. PICK a \in as :
            b \in UNION {TryIfLargeEnough(a, tier, o) : tier \in Ranked(o, i + 1)}
    BY DEF TryRanked
  <2> QED
    BY <2>1
<1>2. PICK tier \in Ranked(o, i + 1) : b \in TryIfLargeEnough(a, tier, o)
  BY <1>1
<1>3. tier \in Tier /\ RankOf(tier, o) = i
  BY RankedIs
<1>4. /\ \A t \in Tier : RankOf(t, o) \in Int
      /\ \A t \in Tier : RankOf(t, o) = i => t = tier
  BY <1>3, RankRange, RankOrders
<1>5. c.capacities[On(tier)] \in Nat /\ o.bytes \in Nat /\ None \notin Tier
  BY <1>3, TierIsCell, CacheAssumption, PlacementAssumption DEF KvObject
<1>6. CASE a.tier # None
  <2>1. b = a
    BY <1>2, <1>6 DEF TryIfLargeEnough, TryEvicting
  <2> QED
    BY <1>6, <2>1 DEF Sought
<1>7. CASE a.tier = None
  <2>1. /\ Good(a.cache) /\ a.cache.capacities = c.capacities
        /\ \A t \in Tier : RankOf(t, o) < i => ~Large(t)
    BY <1>7 DEF Sought
  <2>2. CASE Large(tier)
    <3>1. b \in TryEvicting(a, tier, o)
      BY <1>2, <1>5, <2>1, <2>2 DEF TryIfLargeEnough
    <3>2. b.tier = tier
      BY <1>3, <1>7, <2>1, <2>2, <3>1, TryEvictingFills
    <3> QED
      BY <1>3, <1>5, <2>1, <2>2, <3>2 DEF Sought
  <2>3. CASE ~Large(tier)
    <3>1. b = a
      BY <1>2, <1>5, <2>1, <2>3 DEF TryIfLargeEnough
    <3>2. \A t \in Tier : RankOf(t, o) < i + 1 => ~Large(t)
      BY <1>3, <1>4, <2>1, <2>3
    <3> QED
      BY <1>7, <2>1, <3>1, <3>2 DEF Sought
  <2> QED
    BY <2>2, <2>3
<1> QED
  BY <1>6, <1>7

\* The tier on which NetworkAwarePlacement puts an object is ahead of every
\* other that could hold it.
LEMMA NetworkAwareSeeks ==
    ASSUME NEW c, Good(c), NEW o \in KvObject,
           \A t \in Tier : UtilityForTier(t, o.bytes, o.prefix_tokens) \in Int,
           NEW b \in Attempts("NetworkAwarePlacement", c, o)
    PROVE  Sought(b, c, o, 4)
<1> DEFINE as0 == {Start(c)}
           as1 == TryRanked(as0, 1, o)
           as2 == TryRanked(as1, 2, o)
           as3 == TryRanked(as2, 3, o)
<1>1. c.capacities \in [Cell -> Nat]
  BY CacheParts DEF Good
<1>2. \A a \in as0 : Sought(a, c, o, 0)
  BY RankRange DEF Sought, Start
<1>3. b \in TryRanked(as3, 4, o)
  BY DEF Attempts, NetworkAware, Start
<1> HIDE DEF as0, as1, as2, as3
<1>4. \A a \in as1 : Sought(a, c, o, 1)
  <2>1. ASSUME NEW a \in TryRanked(as0, 0 + 1, o) PROVE Sought(a, c, o, 0 + 1)
    BY <1>1, <1>2, <2>1, TryRankedSeeks
  <2> QED
    BY <2>1 DEF as1
<1>5. \A a \in as2 : Sought(a, c, o, 2)
  <2>1. ASSUME NEW a \in TryRanked(as1, 1 + 1, o) PROVE Sought(a, c, o, 1 + 1)
    BY <1>1, <1>4, <2>1, TryRankedSeeks
  <2> QED
    BY <2>1 DEF as2
<1>6. \A a \in as3 : Sought(a, c, o, 3)
  <2>1. ASSUME NEW a \in TryRanked(as2, 2 + 1, o) PROVE Sought(a, c, o, 2 + 1)
    BY <1>1, <1>5, <2>1, TryRankedSeeks
  <2> QED
    BY <2>1 DEF as3
<1>7. b \in TryRanked(as3, 3 + 1, o)
  BY <1>3
<1>8. Sought(b, c, o, 3 + 1)
  BY <1>1, <1>6, <1>7, TryRankedSeeks
<1> QED
  BY <1>8
\* No utility that NetworkAwarePlacement computes leaves the range of i128:
\* neither a prefill time above its maximum, nor, when a tier's estimate fails
\* and it costs that maximum, a pressure penalty above the prefill time.
NoOverflow ==
    \A n \in Prefix, tier \in Tier :
        /\ PrefillTime[n] <= MaxInt
        /\ -MaxInt - 1 <= PrefillTime[n] - FetchCost(tier, KvBytes(n))
                            - PressurePenalty(tier, KvBytes(n))

\* Then the utility is the exact one, and the sort's order that of Better.
LEMMA UtilityExact ==
    ASSUME NoOverflow, NEW o \in KvObject, o.bytes = KvBytes(o.prefix_tokens)
    PROVE  /\ \A t \in Tier : UtilityForTier(t, o.bytes, o.prefix_tokens) \in Int
           /\ \A s, t \in Tier : AheadOf(s, t, o) <=> Better(s, t, o)
<1>1. o.prefix_tokens \in Prefix /\ o.bytes \in Nat /\ MaxInt \in Nat
  BY CacheAssumption, PlacementAssumption DEF KvObject
<1>2. ASSUME NEW t \in Tier
      PROVE  /\ UtilityForTier(t, o.bytes, o.prefix_tokens) \in Int
             /\ UtilityForTier(t, o.bytes, o.prefix_tokens)
                  = PrefillTime[o.prefix_tokens] - FetchCost(t, o.bytes)
                      - PressurePenalty(t, o.bytes)
  <2>1. /\ PrefillTime[o.prefix_tokens] \in Nat
        /\ PrefillTime[o.prefix_tokens] <= MaxInt
        /\ -MaxInt - 1 <= PrefillTime[o.prefix_tokens] - FetchCost(t, o.bytes)
                            - PressurePenalty(t, o.bytes)
    BY <1>1, PlacementAssumption DEF NoOverflow
  <2>2. FetchCost(t, o.bytes) \in Nat /\ PressurePenalty(t, o.bytes) \in Nat
    BY <1>1, CostsNat
  <2> QED
    BY <1>1, <2>1, <2>2 DEF UtilityForTier, Wrap
<1> QED
  BY <1>2 DEF AheadOf, Better

\* What a policy chooses, from a sound cache.
LEMMA PolicyChooses ==
    ASSUME NEW policy \in Policy, policy = "NetworkAwarePlacement" => NoOverflow,
           NEW c, Good(c), NEW o \in KvObject, o.bytes = KvBytes(o.prefix_tokens),
           NEW b \in Attempts(policy, c, o)
    PROVE  Chosen(policy, b, c, o)
<1>1. CASE policy = "NetworkAwarePlacement"
  <2> DEFINE Large(tier) == c.capacities[On(tier)] >= o.bytes
  <2>1. /\ \A t \in Tier : UtilityForTier(t, o.bytes, o.prefix_tokens) \in Int
        /\ \A s, t \in Tier : AheadOf(s, t, o) <=> Better(s, t, o)
    BY <1>1, UtilityExact
  <2>2. Sought(b, c, o, 4)
    BY <1>1, <2>1, NetworkAwareSeeks
  <2>3. \A t \in Tier : RankOf(t, o) \in 0 .. 3
    BY <2>1, RankRange
  <2>4. \A s, t \in Tier : s # t =>
            /\ RankOf(s, o) # RankOf(t, o)
            /\ RankOf(s, o) < RankOf(t, o) <=> Better(s, t, o)
    BY <2>1, RankOrders
  <2>5. /\ Choices(policy, o) = Tier
        /\ \A s, t : Prefers(policy, s, t, o) = Better(s, t, o)
    BY <1>1 DEF Choices, Prefers
  <2>6. CASE b.tier = None
    <3>1. \A t \in Tier : ~Large(t)
      BY <2>2, <2>3, <2>6 DEF Sought
    <3> QED
      BY <2>5, <2>6, <3>1 DEF Chosen
  <2>7. CASE b.tier # None
    <3>1. /\ b.tier \in Tier /\ Large(b.tier)
          /\ \A t \in Tier : RankOf(t, o) < RankOf(b.tier, o) => ~Large(t)
      BY <2>2, <2>7 DEF Sought
    <3>2. ASSUME NEW t \in Tier, Large(t), t # b.tier PROVE Better(b.tier, t, o)
      BY <2>3, <2>4, <3>1, <3>2
    <3> QED
      BY <2>5, <3>1, <3>2 DEF Chosen
  <2> QED
    BY <2>6, <2>7
<1>2. CASE policy # "NetworkAwarePlacement"
  BY <1>2, FixedOrderChooses
<1> QED
  BY <1>1, <1>2

\* Whatever was placed and evicted before, every policy puts an object on the
\* tier it prefers among those that could hold it if they were empty, for
\* every cache and every choice of victims.  For NetworkAwarePlacement this is
\* the tier of the highest utility, provided that the utilities do not wrap.
THEOREM PreferredTierIsTaken ==
    ASSUME "NetworkAwarePlacement" \in Policies => NoOverflow
    PROVE  PlaceSpec => []PlacesOnBestTier
<1>1. IInv => PlacesOnBestTier
  <2> SUFFICES ASSUME Good(cache), NEW call \in Upcoming,
                      NEW a \in Placements(call[1], cache, call[2], call[3], call[4])
               PROVE  LET o == NewObject(call[2], call[3], call[4])
                          large == LargeEnough(call[1], o)
                      IN  /\ large # {} => /\ a.tier \in large
                                           /\ \A t \in large \ {a.tier} :
                                                 Prefers(call[1], a.tier, t, o)
                          /\ large = {} => a.tier = None \/ call[1] = "LocalGpuLru"
    BY DEF PlacesOnBestTier, IInv
  <2> DEFINE o == NewObject(call[2], call[3], call[4])
  <2>1. /\ cache.next_kv_id < MaxKvId /\ call[1] \in Policies
        /\ call[2] \in Session /\ call[3] \in Prefix /\ call[4] \in Time
    BY DEF Upcoming
  <2>2. Good(Allocated(cache)) /\ o \in KvObject
    BY <2>1, AllocatedGood, NewObjectType
  <2>3. o.bytes = KvBytes(o.prefix_tokens)
    BY DEF NewObject
  <2>4. call[1] \in Policy /\ (call[1] = "NetworkAwarePlacement" => NoOverflow)
    BY <2>1, PlacementAssumption
  <2>5. a \in Attempts(call[1], Allocated(cache), o)
    BY DEF Placements
  <2>6. Allocated(cache).capacities = cache.capacities
    BY CacheParts DEF Allocated, Good
  <2> HIDE DEF o
  <2>7. Chosen(call[1], a, Allocated(cache), o)
    BY <2>2, <2>3, <2>4, <2>5, PolicyChooses
  <2>8. LargeEnough(call[1], o)
          = {tier \in Choices(call[1], o) : Allocated(cache).capacities[On(tier)] >= o.bytes}
    BY <2>6 DEF LargeEnough
  <2> QED
    BY <2>7, <2>8 DEF Chosen, o
<1> QED
  BY <1>1, PlaceGoodAlways, PTL


-----------------------------------------------------------------------------
(* A loop that takes from the set S, one after the other, elements that are *)
(* first in the order R, until what it has taken is one of the sets E       *)

Least(T) == CHOOSE x \in T : \A y \in T : x <= y

LEMMA LeastIs ==
    ASSUME NEW T \in SUBSET Nat, T # {}
    PROVE  Least(T) \in T /\ \A y \in T : Least(T) <= y
<1>1. PICK x \in T : \A y \in T : ~(<<y, x>> \in OpToRel(<, Nat))
  BY NatLessThanWellFounded, WFMin
<1>2. \A y \in T : ~(y < x)
  BY <1>1 DEF OpToRel
<1>3. \A y \in T : x <= y
  BY <1>2
<1> QED
  BY <1>3 DEF Least

\* R compares any two elements of S.
Compares(R, S) ==
    /\ \A x, y \in S : <<x, y>> \in R \/ <<y, x>> \in R
    /\ \A x, y, z \in S : <<x, y>> \in R /\ <<y, z>> \in R => <<x, z>> \in R

First(R, K) == {w \in K : \A k \in K : <<w, k>> \in R}

\* What is enough stays so when more is taken.
Grows(E, S) == \A X, Y \in SUBSET S : X \in E /\ X \subseteq Y => Y \in E

\* Whether the loop may leave L, when K is left now: it takes the first ones,
\* until it has enough, and not one more.
Leaves(R, E, S, K, L) ==
    /\ \A v \in K \ L, k \in L : <<v, k>> \in R
    /\ S \ L \in E \/ L = {}
    /\ L # K => \E v \in K \ L : /\ \A k \in K \ L : <<k, v>> \in R
                                 /\ S \ (L \cup {v}) \notin E

Outcomes(R, E, S, K) == {S \ L : L \in {L \in SUBSET K : Leaves(R, E, S, K, L)}}

\* The outcomes of the loop when one more has been taken from K.
Further(R, E, S, K) == UNION {Outcomes(R, E, S, K \ {w}) : w \in First(R, K)}

\* F counts the outcomes as the loop does.
Loops(F, R, E, S) ==
    \A K \in SUBSET S :
        F[K] = IF K = {} \/ S \ K \in E THEN {S \ K}
               ELSE UNION {F[K \ {w}] : w \in First(R, K)}

LEMMA FirstOf ==
    ASSUME NEW S, IsFiniteSet(S), NEW R, Compares(R, S), NEW K \in SUBSET S, K # {}
    PROVE  First(R, K) # {}
<1> DEFINE Below(w) == {k \in K : <<k, w>> \in R}
           T == {Cardinality(Below(w)) : w \in K}
<1>1. IsFiniteSet(K)
  BY FS_Subset
<1>2. ASSUME NEW w \in K PROVE IsFiniteSet(Below(w)) /\ Cardinality(Below(w)) \in Nat
  BY <1>1, FS_Subset, FS_CardinalityType
<1>3. T \in SUBSET Nat /\ T # {}
  BY <1>2
<1>4. PICK w \in K : \A y \in K : Cardinality(Below(w)) <= Cardinality(Below(y))
  <2>1. Least(T) \in T /\ \A y \in T : Least(T) <= y
    <3> HIDE DEF T
    <3> QED
      BY <1>3, LeastIs
  <2>2. PICK w \in K : Least(T) = Cardinality(Below(w))
    BY <2>1
  <2> QED
    BY <2>1, <2>2
<1>5. ASSUME NEW k \in K, <<w, k>> \notin R PROVE FALSE
  <2>1. <<k, w>> \in R
    BY <1>5 DEF Compares
  <2>2. Below(k) \subseteq Below(w)
    BY <2>1 DEF Compares
  <2>3. w \in Below(w) /\ w \notin Below(k)
    BY <1>5 DEF Compares
  <2>4. Below(k) \in SUBSET Below(w) /\ Below(k) # Below(w)
    BY <2>2, <2>3
  <2>5. /\ IsFiniteSet(Below(w)) /\ Cardinality(Below(w)) \in Nat
        /\ Cardinality(Below(k)) \in Nat
        /\ Cardinality(Below(w)) <= Cardinality(Below(k))
    BY <1>2, <1>4
  <2> HIDE DEF Below
  <2>6. /\ Cardinality(Below(k)) <= Cardinality(Below(w))
        /\ Cardinality(Below(k)) = Cardinality(Below(w)) => Below(k) = Below(w)
    BY <2>4, <2>5, FS_Subset
  <2> QED
    BY <2>4, <2>5, <2>6
<1> QED
  BY <1>5 DEF First

LEMMA LoopStops ==
    ASSUME NEW S, NEW R, NEW E, Grows(E, S), NEW K \in SUBSET S, K = {} \/ S \ K \in E
    PROVE  Outcomes(R, E, S, K) = {S \ K}
<1>1. Leaves(R, E, S, K, K)
  BY DEF Leaves
<1>2. ASSUME NEW L \in SUBSET K, Leaves(R, E, S, K, L), L # K PROVE FALSE
  <2>1. PICK v \in K \ L : S \ (L \cup {v}) \notin E
    BY <1>2 DEF Leaves
  <2>2. S \ K \in E
    BY <2>1
  <2>3. S \ K \subseteq S \ (L \cup {v})
    BY <2>1
  <2> QED
    BY <2>1, <2>2, <2>3 DEF Grows
<1> QED
  BY <1>1, <1>2 DEF Outcomes

LEMMA LoopGoesOn ==
    ASSUME NEW S, IsFiniteSet(S), NEW R, Compares(R, S), NEW E,
           NEW K \in SUBSET S, K # {}, S \ K \notin E
    PROVE  Outcomes(R, E, S, K) = Further(R, E, S, K)
<1>1. ASSUME NEW L \in SUBSET K, Leaves(R, E, S, K, L)
      PROVE  \E w \in First(R, K) :
                L \in SUBSET (K \ {w}) /\ Leaves(R, E, S, K \ {w}, L)
  <2>1. L # K
    BY <1>1 DEF Leaves
  <2>2. PICK v \in K \ L : /\ \A k \in K \ L : <<k, v>> \in R
                           /\ S \ (L \cup {v}) \notin E
    BY <1>1, <2>1 DEF Leaves
  <2>3. PICK u \in First(R, K \ L) : TRUE
    BY <2>1, FirstOf
  <2>4. u \in K \ L /\ \A k \in K \ L : <<u, k>> \in R
    BY <2>3 DEF First
  <2>5. \A x \in K \ L, k \in L : <<x, k>> \in R
    BY <1>1 DEF Leaves
  <2>6. u \in First(R, K)
    BY <2>4, <2>5 DEF First
  <2>7. ASSUME NEW w \in First(R, K), w \in K \ L, w # v \/ K \ L = {v}
        PROVE  L \in SUBSET (K \ {w}) /\ Leaves(R, E, S, K \ {w}, L)
    <3>1. S \ L \in E \/ L = {}
      BY <1>1 DEF Leaves
    <3>2. L # K \ {w} => \E x \in (K \ {w}) \ L :
                            /\ \A k \in (K \ {w}) \ L : <<k, x>> \in R
                            /\ S \ (L \cup {x}) \notin E
      BY <2>2, <2>7
    <3> QED
      BY <2>5, <2>7, <3>1, <3>2 DEF Leaves
  <2>8. CASE u # v \/ K \ L = {v}
    BY <2>4, <2>6, <2>7, <2>8
  <2>9. CASE u = v /\ K \ L # {v}
    <3>1. PICK w \in K \ L : w # v
      BY <2>2, <2>9
    <3>2. <<w, u>> \in R
      BY <2>2, <2>9, <3>1
    <3>3. \A k \in K : <<w, k>> \in R
      BY <2>4, <2>6, <3>1, <3>2 DEF Compares, First
    <3>4. w \in First(R, K)
      BY <3>1, <3>3 DEF First
    <3> QED
      BY <2>7, <3>1, <3>4
  <2> QED
    BY <2>8, <2>9
<1>2. ASSUME NEW w \in First(R, K), NEW L \in SUBSET (K \ {w}),
             Leaves(R, E, S, K \ {w}, L)
      PROVE  L \in SUBSET K /\ Leaves(R, E, S, K, L)
  <2>1. w \in K /\ \A k \in K : <<w, k>> \in R
    BY DEF First
  <2>2. \A v \in K \ L, k \in L : <<v, k>> \in R
    BY <1>2, <2>1 DEF Leaves
  <2>3. \E v \in K \ L : /\ \A k \in K \ L : <<k, v>> \in R
                         /\ S \ (L \cup {v}) \notin E
    <3>1. CASE L = K \ {w}
      <4>1. K \ L = {w} /\ L \cup {w} = K
        BY <2>1, <3>1
      <4> QED
        BY <2>1, <4>1
    <3>2. CASE L # K \ {w}
      <4>1. PICK v \in (K \ {w}) \ L : /\ \A k \in (K \ {w}) \ L : <<k, v>> \in R
                                       /\ S \ (L \cup {v}) \notin E
        BY <1>2, <3>2 DEF Leaves
      <4> QED
        BY <2>1, <4>1
    <3> QED
      BY <3>1, <3>2
  <2> QED
    BY <1>2, <2>2, <2>3 DEF Leaves
<1>3. ASSUME NEW X \in Outcomes(R, E, S, K)
      PROVE  \E w \in First(R, K) : X \in Outcomes(R, E, S, K \ {w})
  <2>1. PICK L \in SUBSET K : Leaves(R, E, S, K, L) /\ X = S \ L
    BY DEF Outcomes
  <2>2. PICK w \in First(R, K) : L \in SUBSET (K \ {w}) /\ Leaves(R, E, S, K \ {w}, L)
    BY <1>1, <2>1
  <2>3. X \in Outcomes(R, E, S, K \ {w})
    BY <2>1, <2>2 DEF Outcomes
  <2> QED
    BY <2>3
<1>4. ASSUME NEW w \in First(R, K), NEW X \in Outcomes(R, E, S, K \ {w})
      PROVE  X \in Outcomes(R, E, S, K)
  <2>1. PICK L \in SUBSET (K \ {w}) : Leaves(R, E, S, K \ {w}, L) /\ X = S \ L
    BY DEF Outcomes
  <2> QED
    BY <1>2, <2>1 DEF Outcomes
<1>5. Outcomes(R, E, S, K) = UNION {Outcomes(R, E, S, K \ {w}) : w \in First(R, K)}
  BY <1>3, <1>4
<1> QED
  BY <1>5 DEF Further

\* Whatever counts the outcomes as the loop does has them right.
LEMMA OutcomesOnly ==
    ASSUME NEW S, IsFiniteSet(S), NEW R, Compares(R, S), NEW E, Grows(E, S),
           NEW F, Loops(F, R, E, S)
    PROVE  \A K \in SUBSET S : F[K] = Outcomes(R, E, S, K)
<1> DEFINE Bad == {K \in SUBSET S : F[K] # Outcomes(R, E, S, K)}
           T == {Cardinality(K) : K \in Bad}
<1> SUFFICES ASSUME Bad # {} PROVE FALSE
  OBVIOUS
<1>1. \A K \in SUBSET S : IsFiniteSet(K) /\ Cardinality(K) \in Nat
  BY FS_Subset, FS_CardinalityType
<1>2. T \in SUBSET Nat /\ T # {}
  BY <1>1
<1>3. Least(T) \in T /\ \A y \in T : Least(T) <= y
  <2> HIDE DEF T
  <2> QED
    BY <1>2, LeastIs
<1>4. PICK K \in Bad : Least(T) = Cardinality(K)
  BY <1>3
<1>5. \A J \in Bad : Cardinality(K) <= Cardinality(J)
  BY <1>3, <1>4
<1>6. K \in SUBSET S /\ F[K] # Outcomes(R, E, S, K)
  OBVIOUS
<1>7. CASE K = {} \/ S \ K \in E
  <2>1. F[K] = {S \ K}
    BY <1>6, <1>7 DEF Loops
  <2>2. Outcomes(R, E, S, K) = {S \ K}
    BY <1>6, <1>7, LoopStops
  <2> QED
    BY <1>6, <2>1, <2>2
<1>8. CASE ~(K = {} \/ S \ K \in E)
  <2>1. ASSUME NEW w \in First(R, K) PROVE F[K \ {w}] = Outcomes(R, E, S, K \ {w})
    <3>1. w \in K /\ K \ {w} \in SUBSET S
      BY <1>6 DEF First
    <3>2. Cardinality(K \ {w}) = Cardinality(K) - 1 /\ Cardinality(K) \in Nat
      BY <1>1, <1>6, <3>1, FS_RemoveElement
    <3>3. ~(Cardinality(K) <= Cardinality(K \ {w}))
      BY <3>2
    <3> QED
      BY <1>5, <3>1, <3>3
  <2>2. F[K] = UNION {F[K \ {w}] : w \in First(R, K)}
    <3>1. F[K] = IF K = {} \/ S \ K \in E THEN {S \ K}
                 ELSE UNION {F[K \ {w}] : w \in First(R, K)}
      BY <1>6 DEF Loops
    <3> QED
      BY <1>8, <3>1, Zenon
  <2>3. {F[K \ {w}] : w \in First(R, K)}
          = {Outcomes(R, E, S, K \ {w}) : w \in First(R, K)}
    BY <2>1
  <2>4. Outcomes(R, E, S, K) = Further(R, E, S, K)
    BY <1>6, <1>8, LoopGoesOn
  <2> QED
    BY <1>6, <2>2, <2>3, <2>4 DEF Further
<1> QED
  BY <1>7, <1>8

-----------------------------------------------------------------------------
(* The loop of the policies *)

\* The order in which a policy takes the objects S, and the sets of them whose
\* removal gives room.
Order(policy, c, S) ==
    {jk \in S \X S : IF policy = "LruEviction"
                      THEN LastAccess(c, jk[1]) <= LastAccess(c, jk[2])
                      ELSE c.objects[jk[2]].bytes <= c.objects[jk[1]].bytes}

Enough(c, S, cell, bytes) == {X \in SUBSET S : Fits(Removed(c, X), cell, bytes)}

LEMMA OrderCompares ==
    ASSUME NEW c \in Cache, NEW policy, NEW S \in SUBSET DOMAIN c.objects
    PROVE  Compares(Order(policy, c, S), S)
<1>1. \A k \in S : LastAccess(c, k) \in Nat /\ c.objects[k].bytes \in Nat
  BY CacheParts, CacheAssumption DEF KvObject, LastAccess
<1> QED
  BY <1>1 DEF Compares, Order

LEMMA EnoughGrows ==
    ASSUME NEW c \in Cache, NEW cell \in Cell, NEW bytes \in Nat, NEW S,
           S = ObjectsInTier(c, cell)
    PROVE  /\ Grows(Enough(c, S, cell, bytes), S)
           /\ \A X, Y \in SUBSET S : X \in Enough(c, S, cell, bytes)
                                    /\ Bytes(c, X) <= Bytes(c, Y)
                  => Y \in Enough(c, S, cell, bytes)
<1>1. S \in SUBSET DOMAIN c.objects /\ cell # Missing
  BY CacheAssumption DEF ObjectsInTier
<1>2. ASSUME NEW X \in SUBSET S
      PROVE  /\ IsFiniteSet(X) /\ Sized(c.objects, X) /\ Bytes(c, X) \in Nat
             /\ Fits(Removed(c, X), cell, bytes)
                  <=> SatSub(c.capacities[cell], SatSub(c.usage[cell], Bytes(c, X)))
                        >= bytes
  <2>1. IsFiniteSet(X) /\ Sized(c.objects, X)
    BY <1>1, TierFinite
  <2>2. Bytes(c, X) \in Nat
    BY <2>1, BytesAdd, FS_EmptySet DEF Sized
  <2>3. X \cap ObjectsInTier(c, cell) = X
    OBVIOUS
  <2>4. /\ Removed(c, X).capacities = c.capacities
        /\ Removed(c, X).usage[cell] = SatSub(c.usage[cell], Bytes(c, X))
    BY <2>3 DEF Removed, With
  <2> QED
    BY <1>1, <2>1, <2>2, <2>4 DEF Fits, AvailableSpace
<1>3. c.capacities[cell] \in Nat /\ c.usage[cell] \in Nat
  BY CacheParts
<1>4. ASSUME NEW X \in SUBSET S, NEW Y \in SUBSET S,
             X \in Enough(c, S, cell, bytes), Bytes(c, X) <= Bytes(c, Y)
      PROVE  Y \in Enough(c, S, cell, bytes)
  <2>1. /\ SatSub(c.capacities[cell], SatSub(c.usage[cell], Bytes(c, X))) >= bytes
        /\ Bytes(c, X) \in Nat /\ Bytes(c, Y) \in Nat
    BY <1>2, <1>4 DEF Enough
  <2>2. SatSub(c.capacities[cell], SatSub(c.usage[cell], Bytes(c, Y))) >= bytes
    BY <1>3, <1>4, <2>1 DEF SatSub
  <2> QED
    BY <1>2, <2>2 DEF Enough
<1>5. ASSUME NEW X \in SUBSET S, NEW Y \in SUBSET S, X \subseteq Y
      PROVE  Bytes(c, X) <= Bytes(c, Y)
  <2>1. Y \ X \in SUBSET S /\ X \cup (Y \ X) = Y /\ X \cap (Y \ X) = {}
    BY <1>5
  <2>2. Bytes(c, X \cup (Y \ X)) = Bytes(c, X) + Bytes(c, Y \ X)
        /\ Bytes(c, X) \in Nat /\ Bytes(c, Y \ X) \in Nat
    BY <1>2, <2>1, BytesAdd
  <2>3. Bytes(c, X \cup (Y \ X)) = Bytes(c, Y)
    BY <2>1
  <2> QED
    BY <2>2, <2>3
<1> QED
  BY <1>4, <1>5 DEF Grows

\* Candidate i of the list is picked rather than j.
Rather(policy, c, order) ==
    {ij \in (DOMAIN order) \X (DOMAIN order) :
        LET j == order[ij[1]]
            k == order[ij[2]]
        IN  IF policy = "LruEviction"
            THEN \/ LastAccess(c, j) < LastAccess(c, k)
                 \/ LastAccess(c, j) = LastAccess(c, k) /\ ij[1] <= ij[2]
            ELSE \/ c.objects[j].bytes > c.objects[k].bytes
                 \/ c.objects[j].bytes = c.objects[k].bytes /\ ij[1] >= ij[2]}

EvictionPolicies == {"LruEviction", "LargestFirstEviction"}

\* The policies pick one candidate, for which the list has no better.
LEMMA PicksOne ==
    ASSUME NEW c \in Cache, NEW policy \in EvictionPolicies,
           NEW n \in Nat, NEW order \in [1 .. n -> DOMAIN c.objects], NEW i \in 1 .. n,
           \A j \in 1 .. n : <<i, j>> \in Rather(policy, c, order)
    PROVE  SelectForEviction(policy, c, order) = {order[i]}
<1> DEFINE Access(x) == LastAccess(c, order[x])
           Size(x) == c.objects[order[x]].bytes
           Best(x) == \A j \in (1 .. n) \ {x} :
              IF policy = "LruEviction"
              THEN Access(x) < Access(j) \/ (Access(x) = Access(j) /\ x < j)
              ELSE Size(x) > Size(j) \/ (Size(x) = Size(j) /\ x > j)
<1>1. \A x \in 1 .. n : Access(x) \in Nat /\ Size(x) \in Nat
  BY CacheParts, CacheAssumption DEF KvObject, LastAccess
<1>2. DOMAIN order = 1 .. n
  OBVIOUS
<1>3. SelectForEviction(policy, c, order) = {order[x] : x \in {x \in 1 .. n : Best(x)}}
  <2>1. CASE policy = "LruEviction"
    BY <1>2, <2>1 DEF SelectForEviction, LruEviction
  <2>2. CASE policy = "LargestFirstEviction"
    BY <1>2, <2>2 DEF SelectForEviction, LargestFirstEviction
  <2> QED
    BY <2>1, <2>2 DEF EvictionPolicies
<1>4. \A j \in 1 .. n :
         IF policy = "LruEviction"
         THEN Access(i) < Access(j) \/ (Access(i) = Access(j) /\ i <= j)
         ELSE Size(i) > Size(j) \/ (Size(i) = Size(j) /\ i >= j)
  BY <1>2 DEF Rather
<1> HIDE DEF Access, Size
<1>5. Best(i)
  BY <1>4
<1>6. ASSUME NEW x \in 1 .. n, Best(x), x # i PROVE FALSE
  <2>1. CASE policy = "LruEviction"
    BY <1>1, <1>4, <1>6, <2>1
  <2>2. CASE policy = "LargestFirstEviction"
    BY <1>1, <1>4, <1>6, <2>2
  <2> QED
    BY <2>1, <2>2 DEF EvictionPolicies
<1> HIDE DEF Best
<1> QED
  BY <1>3, <1>5, <1>6

LEMMA SameSize == ASSUME NEW S PROVE Seqs!Cardinality(S) = Cardinality(S)
BY DEF Seqs!Cardinality, Cardinality

\* Whatever the list, the policy picks one that is first in its order.
LEMMA SelectsFirst ==
    ASSUME NEW c \in Cache, NEW policy \in EvictionPolicies,
           NEW S \in SUBSET DOMAIN c.objects, NEW K \in SUBSET S, K # {},
           NEW order \in Seqs!SetToSeqs(K)
    PROVE  \E w \in First(Order(policy, c, S), K) :
              SelectForEviction(policy, c, order) = {w}
<1> DEFINE n == Cardinality(K)
           D == 1 .. n
           R == Rather(policy, c, order)
<1>1. IsFiniteSet(K) /\ n \in Nat /\ n # 0 /\ IsFiniteSet(D) /\ Cardinality(D) = n
  <2>1. IsFiniteSet(K)
    BY TierFinite
  <2>2. n \in Nat /\ n # 0
    BY <2>1, FS_CardinalityType, FS_EmptySet
  <2> HIDE DEF n
  <2>3. IsFiniteSet(D) /\ Cardinality(D) = IF 1 > n THEN 0 ELSE n - 1 + 1
    BY <2>2, FS_Interval
  <2> QED
    BY <2>1, <2>2, <2>3
<1>2. order \in [D -> K] /\ \A i, j \in D : i # j => order[i] # order[j]
  BY SameSize DEF Seqs!SetToSeqs
<1>3. \A x \in K : LastAccess(c, x) \in Nat /\ c.objects[x].bytes \in Nat
  BY CacheParts, CacheAssumption DEF KvObject, LastAccess
<1>4. ASSUME NEW k \in K PROVE \E j \in D : order[j] = k
  <2>1. order \in Injection(D, K)
    BY <1>2 DEF Injection, IsInjective
  <2> HIDE DEF D, n
  <2>2. order \in Surjection(D, K)
    BY <1>1, <2>1, FS_Injection DEF n
  <2> QED
    BY <2>2 DEF Surjection
<1>5. DOMAIN order = D
  BY <1>2
<1>6. Compares(R, D)
  <2>1. \A i \in D : order[i] \in K /\ i \in Nat
    BY <1>2
  <2>2. \A i \in D : /\ LastAccess(c, order[i]) \in Nat
                     /\ c.objects[order[i]].bytes \in Nat /\ i \in Nat
    BY <1>3, <2>1
  <2> DEFINE Access(i) == LastAccess(c, order[i])
             Size(i) == c.objects[order[i]].bytes
  <2>3. \A i, j \in D :
           <<i, j>> \in R <=>
              IF policy = "LruEviction"
              THEN Access(i) < Access(j) \/ (Access(i) = Access(j) /\ i <= j)
              ELSE Size(i) > Size(j) \/ (Size(i) = Size(j) /\ i >= j)
    BY <1>5 DEF Rather
  <2>4. \A i \in D : Access(i) \in Nat /\ Size(i) \in Nat /\ i \in Nat
    BY <2>2
  <2> HIDE DEF R, Access, Size, D
  <2>5. ASSUME NEW i \in D, NEW j \in D PROVE <<i, j>> \in R \/ <<j, i>> \in R
    <3>1. /\ Access(i) \in Nat /\ Size(i) \in Nat /\ i \in Nat
          /\ Access(j) \in Nat /\ Size(j) \in Nat /\ j \in Nat
      BY <2>4
    <3>2. CASE policy = "LruEviction"
      BY <2>3, <3>1, <3>2
    <3>3. CASE policy # "LruEviction"
      BY <2>3, <3>1, <3>3
    <3> QED
      BY <3>2, <3>3
  <2>6. \A i, j, k \in D : <<i, j>> \in R /\ <<j, k>> \in R => <<i, k>> \in R
    BY <2>3, <2>4
  <2> QED
    BY <2>5, <2>6 DEF Compares
<1>7. PICK i \in D : \A j \in D : <<i, j>> \in R
  <2>1. D # {} /\ D \in SUBSET D
    BY <1>1
  <2> HIDE DEF D, R
  <2>2. First(R, D) # {}
    BY <1>1, <1>6, <2>1, FirstOf
  <2> QED
    BY <2>2 DEF First
<1>8. SelectForEviction(policy, c, order) = {order[i]}
  <2>1. order \in [1 .. n -> DOMAIN c.objects]
    BY <1>2
  <2> QED
    BY <1>1, <1>7, <2>1, PicksOne
<1>9. ASSUME NEW k \in K PROVE <<order[i], k>> \in Order(policy, c, S)
  <2>1. PICK j \in D : order[j] = k
    BY <1>4
  <2>2. <<i, j>> \in R /\ order[i] \in K
    BY <1>2, <1>7
  <2>3. /\ LastAccess(c, order[i]) \in Nat /\ LastAccess(c, k) \in Nat
        /\ c.objects[order[i]].bytes \in Nat /\ c.objects[k].bytes \in Nat
    BY <1>3, <2>2
  <2>4. IF policy = "LruEviction"
        THEN LastAccess(c, order[i]) <= LastAccess(c, k)
        ELSE c.objects[k].bytes <= c.objects[order[i]].bytes
    BY <2>1, <2>2, <2>3 DEF Rather
  <2> QED
    BY <2>2, <2>4 DEF Order
<1>10. order[i] \in First(Order(policy, c, S), K)
  BY <1>2, <1>7, <1>9 DEF First
<1> QED
  BY <1>8, <1>10

\* Whichever is first, some list has the policy pick it.
LEMMA FirstSelected ==
    ASSUME NEW c \in Cache, NEW policy \in EvictionPolicies,
           NEW S \in SUBSET DOMAIN c.objects, NEW K \in SUBSET S,
           NEW w \in First(Order(policy, c, S), K)
    PROVE  \E order \in Seqs!SetToSeqs(K) : SelectForEviction(policy, c, order) = {w}
<1> DEFINE n == Cardinality(K)
           D == 1 .. n
<1>1. w \in K /\ \A k \in K : <<w, k>> \in Order(policy, c, S)
  BY DEF First
<1>2. IsFiniteSet(K) /\ n \in Nat
  BY TierFinite, FS_CardinalityType
<1>3. PICK g \in Bijection(D, K) : TRUE
  <2>1. PICK m \in Nat : ExistsBijection(1 .. m, K)
    BY <1>2, FS_NatBijection
  <2>2. m = n
    BY <2>1, FS_CountingElements
  <2> QED
    BY <2>1, <2>2 DEF ExistsBijection
<1>4. /\ g \in [D -> K] /\ \A i, j \in D : g[i] = g[j] => i = j
      /\ \A k \in K : \E i \in D : g[i] = k
  BY DEF Bijection, Injection, Surjection, IsInjective
<1>5. PICK p \in D : g[p] = w
  BY <1>1, <1>4
<1> DEFINE m == IF policy = "LruEviction" THEN 1 ELSE n
           order == [i \in D |-> IF i = m THEN g[p] ELSE IF i = p THEN g[m] ELSE g[i]]
<1>6. m \in D
  BY <1>2, <1>5
<1>7. /\ order \in [D -> K] /\ \A i, j \in D : i # j => order[i] # order[j]
      /\ order[m] = w
  <2> HIDE DEF m, D
  <2> QED
    BY <1>4, <1>5, <1>6
<1> HIDE DEF order
<1>8. order \in Seqs!SetToSeqs(K)
  BY <1>7, SameSize DEF Seqs!SetToSeqs
<1>9. ASSUME NEW j \in D PROVE <<m, j>> \in Rather(policy, c, order)
  <2>1. <<w, order[j]>> \in Order(policy, c, S) /\ order[j] \in K
    BY <1>1, <1>7
  <2>2. /\ LastAccess(c, w) \in Nat /\ LastAccess(c, order[j]) \in Nat
        /\ c.objects[w].bytes \in Nat /\ c.objects[order[j]].bytes \in Nat
    BY <1>1, <2>1, CacheParts, CacheAssumption DEF KvObject, LastAccess
  <2>3. IF policy = "LruEviction"
        THEN LastAccess(c, w) <= LastAccess(c, order[j])
        ELSE c.objects[order[j]].bytes <= c.objects[w].bytes
    BY <2>1 DEF Order
  <2>4. IF policy = "LruEviction" THEN m <= j ELSE m >= j
    BY <1>2
  <2>5. DOMAIN order = D
    BY <1>7
  <2> HIDE DEF m, D
  <2> QED
    BY <1>6, <1>7, <2>2, <2>3, <2>4, <2>5 DEF Rather
<1>10. SelectForEviction(policy, c, order) = {order[m]}
  <2>1. order \in [1 .. n -> DOMAIN c.objects]
    BY <1>7
  <2> HIDE DEF m
  <2> QED
    BY <1>2, <1>6, <1>9, <2>1, PicksOne
<1> QED
  BY <1>7, <1>8, <1>10

\* The loop of a policy leaves what taking the first ones leaves.
LEMMA EvictedIs ==
    ASSUME NEW c \in Cache, NEW policy \in EvictionPolicies, NEW cell \in Cell,
           NEW bytes \in Nat, NEW S, S = ObjectsInTier(c, cell)
    PROVE  Evicted(policy, c, cell, bytes)
             = Outcomes(Order(policy, c, S), Enough(c, S, cell, bytes), S, S)
<1> DEFINE R == Order(policy, c, S)
           E == Enough(c, S, cell, bytes)
           Body(f, K) ==
              IF K = {} \/ Fits(Removed(c, S \ K), cell, bytes) THEN {S \ K}
              ELSE UNION {f[K \ SelectForEviction(policy, c, order)] :
                            order \in Seqs!SetToSeqs(K)}
           Loop == CHOOSE f : f = [K \in SUBSET S |-> Body(f, K)]
           G == [K \in SUBSET S |-> Outcomes(R, E, S, K)]
<1>1. S \in SUBSET DOMAIN c.objects
  BY DEF ObjectsInTier
<1>2. IsFiniteSet(S) /\ Compares(R, S) /\ Grows(E, S)
  BY <1>1, TierFinite, OrderCompares, EnoughGrows
<1>3. ASSUME NEW f, NEW K \in SUBSET S
      PROVE  Body(f, K) = IF K = {} \/ S \ K \in E THEN {S \ K}
                          ELSE UNION {f[K \ {w}] : w \in First(R, K)}
  <2>1. S \ K \in E <=> Fits(Removed(c, S \ K), cell, bytes)
    BY DEF Enough
  <2>2. CASE K = {} \/ S \ K \in E
    BY <2>1, <2>2
  <2>3. CASE ~(K = {} \/ S \ K \in E)
    <3>1. ASSUME NEW order \in Seqs!SetToSeqs(K)
          PROVE  \E w \in First(R, K) : SelectForEviction(policy, c, order) = {w}
      BY <1>1, <2>3, SelectsFirst
    <3>2. ASSUME NEW w \in First(R, K)
          PROVE  \E order \in Seqs!SetToSeqs(K) :
                    SelectForEviction(policy, c, order) = {w}
      BY <1>1, FirstSelected
    <3> DEFINE A == {f[K \ SelectForEviction(policy, c, order)] :
                       order \in Seqs!SetToSeqs(K)}
               B == {f[K \ {w}] : w \in First(R, K)}
    <3>3. A = B
      <4> HIDE DEF R
      <4>1. ASSUME NEW order \in Seqs!SetToSeqs(K)
            PROVE  f[K \ SelectForEviction(policy, c, order)] \in B
        BY <3>1
      <4>2. ASSUME NEW w \in First(R, K) PROVE f[K \ {w}] \in A
        BY <3>2
      <4> QED
        BY <4>1, <4>2
    <3>4. Body(f, K) = UNION A
      BY <2>1, <2>3
    <3> HIDE DEF A, Body
    <3>5. Body(f, K) = UNION B
      BY <3>3, <3>4
    <3> QED
      BY <2>3, <3>5
  <2> HIDE DEF Body
  <2> QED
    BY <2>2, <2>3
<1> HIDE DEF R, E
<1>4. G = [K \in SUBSET S |-> Body(G, K)]
  <2>1. ASSUME NEW K \in SUBSET S PROVE G[K] = Body(G, K)
    <3>1. G[K] = Outcomes(R, E, S, K)
      OBVIOUS
    <3>2. CASE K = {} \/ S \ K \in E
      <4>1. Outcomes(R, E, S, K) = {S \ K}
        BY <1>2, <3>2, LoopStops
      <4> HIDE DEF Body, G
      <4> QED
        BY <1>3, <3>1, <3>2, <4>1
    <3>3. CASE ~(K = {} \/ S \ K \in E)
      <4>1. Outcomes(R, E, S, K) = Further(R, E, S, K)
        <5>1. K # {} /\ S \ K \notin E
          BY <3>3
        <5> HIDE DEF G, Body
        <5> QED
          BY <1>2, <5>1, LoopGoesOn
      <4>2. {Outcomes(R, E, S, K \ {w}) : w \in First(R, K)}
              = {G[K \ {w}] : w \in First(R, K)}
        OBVIOUS
      <4> HIDE DEF Body, G
      <4>3. Body(G, K) = UNION {G[K \ {w}] : w \in First(R, K)}
        BY <1>3, <3>3
      <4> QED
        BY <3>1, <4>1, <4>2, <4>3 DEF Further
    <3> QED
      BY <3>2, <3>3
  <2> HIDE DEF Body
  <2> QED
    BY <2>1
<1>5. Loop = [K \in SUBSET S |-> Body(Loop, K)]
  <2> HIDE DEF Body, G
  <2> QED
    BY <1>4
<1>6. Evicted(policy, c, cell, bytes) = Loop[S]
  BY DEF Evicted
<1>7. Loops(Loop, R, E, S)
  <2> HIDE DEF Body, Loop
  <2>1. ASSUME NEW K \in SUBSET S PROVE Loop[K] = Body(Loop, K)
    BY <1>5
  <2> QED
    BY <1>3, <2>1 DEF Loops
<1> HIDE DEF Loop, Body, G
<1>8. Loop[S] = Outcomes(R, E, S, S)
  <2>1. \A K \in SUBSET S : Loop[K] = Outcomes(R, E, S, K)
    BY <1>2, <1>7, OutcomesOnly
  <2> QED
    BY <2>1
<1> QED
  BY <1>6, <1>8 DEF R, E


LEMMA DemandParts ==
    ASSUME NEW d \in Demands
    PROVE  On(d[1]) \in Cell /\ d[2] \in Nat
<1>1. PICK n \in Prefix : d[2] = BytesPerToken * n
  BY DEF Demands, KvBytes
<1>2. d[2] \in ByteSize
  BY <1>1, PlacementAssumption
<1> QED
  BY <1>2, TierIsCell, CacheAssumption DEF Demands

\* Evicting one LRU victim after the other leaves what Placement's Victims say,
\* whatever the order in which the hash map lists the objects at each turn.
THEOREM EvictionLoopIsLru == PlaceSpec => []LoopEvictsLru
<1>1. IInv => LoopEvictsLru
  <2> SUFFICES ASSUME cache \in Cache, NEW d \in Demands
               PROVE  Evicted("LruEviction", cache, On(d[1]), d[2])
                        = Victims(cache, On(d[1]), d[2])
    BY DEF IInv, Good, LoopEvictsLru
  <2> DEFINE cell == On(d[1])
             S == ObjectsInTier(cache, cell)
             R == Order("LruEviction", cache, S)
             E == Enough(cache, S, cell, d[2])
  <2>1. cell \in Cell /\ d[2] \in Nat
    BY DemandParts
  <2>2. Evicted("LruEviction", cache, cell, d[2]) = Outcomes(R, E, S, S)
    BY <2>1, EvictedIs DEF EvictionPolicies
  <2>3. \A j, k \in S : <<j, k>> \in R <=> LastAccess(cache, j) <= LastAccess(cache, k)
    BY DEF Order
  <2>4. \A K \in SUBSET S : K \in E <=> Fits(Removed(cache, K), cell, d[2])
    BY DEF Enough
  <2>5. ASSUME NEW L \in SUBSET S
        PROVE  Leaves(R, E, S, S, L) <=> S \ L \in Victims(cache, cell, d[2])
    <3> DEFINE K == S \ L
    <3>1. K \in SUBSET S /\ S \ K = L /\ (L = {} <=> K = S) /\ (L # S <=> K # {})
      OBVIOUS
    <3>2. \A v \in K : S \ (L \cup {v}) = K \ {v} /\ K \ {v} \in SUBSET S
      OBVIOUS
    <3>3. Leaves(R, E, S, S, L)
            <=> /\ \A v \in K, k \in L : LastAccess(cache, v) <= LastAccess(cache, k)
                /\ Fits(Removed(cache, K), cell, d[2]) \/ K = S
                /\ K # {} =>
                     \E v \in K :
                        /\ \A k \in K : LastAccess(cache, k) <= LastAccess(cache, v)
                        /\ ~Fits(Removed(cache, K \ {v}), cell, d[2])
      <4>1. (\A v \in K, k \in L : <<v, k>> \in R)
              <=> \A v \in K, k \in L : LastAccess(cache, v) <= LastAccess(cache, k)
        BY <2>3
      <4>2. (K \in E \/ L = {}) <=> (Fits(Removed(cache, K), cell, d[2]) \/ K = S)
        BY <2>4, <3>1
      <4>3. ASSUME NEW v \in K
            PROVE  (/\ \A k \in K : <<k, v>> \in R
                    /\ S \ (L \cup {v}) \notin E)
                     <=> /\ \A k \in K : LastAccess(cache, k) <= LastAccess(cache, v)
                         /\ ~Fits(Removed(cache, K \ {v}), cell, d[2])
        <5>1. S \ (L \cup {v}) \in E <=> Fits(Removed(cache, K \ {v}), cell, d[2])
          <6>1. S \ (L \cup {v}) = K \ {v} /\ K \ {v} \in SUBSET S
            BY <3>2
          <6> HIDE DEF K, E, S
          <6> QED
            BY <2>4, <6>1
        <5>2. (\A k \in K : <<k, v>> \in R)
                <=> \A k \in K : LastAccess(cache, k) <= LastAccess(cache, v)
          BY <2>3
        <5> QED
          BY <5>1, <5>2
      <4>4. Leaves(R, E, S, S, L)
              <=> /\ \A v \in K, k \in L : <<v, k>> \in R
                  /\ K \in E \/ L = {}
                  /\ L # S => \E v \in K : /\ \A k \in K : <<k, v>> \in R
                                           /\ S \ (L \cup {v}) \notin E
        BY DEF Leaves
      <4> HIDE DEF K, R, E
      <4> QED
        BY <3>1, <4>1, <4>2, <4>3, <4>4
    <3>4. K \in Victims(cache, cell, d[2])
            <=> /\ \A v \in K, k \in S \ K : LastAccess(cache, v) <= LastAccess(cache, k)
                /\ Fits(Removed(cache, K), cell, d[2]) \/ K = S
                /\ K # {} =>
                     \E v \in K :
                        /\ \A k \in K : LastAccess(cache, k) <= LastAccess(cache, v)
                        /\ ~Fits(Removed(cache, K \ {v}), cell, d[2])
      BY DEF Victims
    <3> HIDE DEF K
    <3> QED
      BY <3>1, <3>3, <3>4 DEF K
  <2>6. ASSUME NEW K \in Victims(cache, cell, d[2]) PROVE K \in Outcomes(R, E, S, S)
    <3>1. K \in SUBSET S
      BY DEF Victims
    <3>2. S \ K \in SUBSET S /\ S \ (S \ K) = K
      BY <3>1
    <3> HIDE DEF R, E, S
    <3> QED
      BY <2>5, <3>2 DEF Outcomes
  <2>7. ASSUME NEW K \in Outcomes(R, E, S, S) PROVE K \in Victims(cache, cell, d[2])
    BY <2>5 DEF Outcomes
  <2> QED
    BY <2>2, <2>6, <2>7
<1> QED
  BY <1>1, PlaceGoodAlways, PTL

\* Objects I no more than the objects J, and each no larger than each of J, have
\* no more bytes.
LEMMA BytesBelow ==
    ASSUME NEW c, NEW I, NEW J, IsFiniteSet(I), IsFiniteSet(J),
           Sized(c.objects, I), Sized(c.objects, J), Cardinality(I) <= Cardinality(J),
           \A i \in I, j \in J : c.objects[i].bytes <= c.objects[j].bytes
    PROVE  Bytes(c, I) <= Bytes(c, J)
<1> DEFINE m == Cardinality(I)
           n == Cardinality(J)
           A == Slots(c.objects, I)
           B == Slots(c.objects, J)
<1>1. m \in Nat /\ n \in Nat
  BY FS_CardinalityType
<1>2. PICK f \in Bijection(1 .. m, I) : TRUE
  BY FS_CardinalityType DEF ExistsBijection
<1>3. PICK g \in Bijection(1 .. n, J) : TRUE
  BY FS_CardinalityType DEF ExistsBijection
<1>4. /\ f \in [1 .. m -> I] /\ \A x, y \in 1 .. m : f[x] = f[y] => x = y
      /\ \A i \in I : \E x \in 1 .. m : f[x] = i
  BY <1>2 DEF Bijection, Injection, Surjection, IsInjective
<1>5. g \in [1 .. n -> J] /\ \A x, y \in 1 .. n : g[x] = g[y] => x = y
  BY <1>3 DEF Bijection, Injection, IsInjective
<1> DEFINE at(i) == CHOOSE x \in 1 .. m : f[x] = i
           pi(i) == g[at(i)]
           h == [s \in A |-> <<pi(s[1]), s[2]>>]
<1>6. \A i \in I : at(i) \in 1 .. m /\ f[at(i)] = i
  BY <1>4
<1>7. \A x \in 1 .. m : x \in 1 .. n
  BY <1>1
<1>8. ASSUME NEW i \in I PROVE pi(i) \in J
  BY <1>5, <1>6, <1>7
<1>9. ASSUME NEW i \in I, NEW j \in I, pi(i) = pi(j) PROVE i = j
  <2>1. at(i) \in 1 .. n /\ at(j) \in 1 .. n
    BY <1>6, <1>7
  <2> HIDE DEF at
  <2>2. at(i) = at(j)
    BY <1>5, <1>9, <2>1
  <2> QED
    BY <1>6, <2>2
<1>10. ASSUME NEW s \in A
       PROVE s[1] \in I /\ s = <<s[1], s[2]>> /\ s[2] \in 1 .. c.objects[s[1]].bytes
  BY DEF Slots
<1> HIDE DEF at, pi
<1>11. ASSUME NEW s \in A PROVE <<pi(s[1]), s[2]>> \in B
  <2>1. /\ s[1] \in I /\ pi(s[1]) \in J
    BY <1>8, <1>10
  <2>2. /\ c.objects[s[1]].bytes \in Nat /\ c.objects[pi(s[1])].bytes \in Nat
        /\ c.objects[s[1]].bytes <= c.objects[pi(s[1])].bytes
    BY <2>1 DEF Sized
  <2>3. s[2] \in 1 .. c.objects[pi(s[1])].bytes
    BY <1>10, <2>2
  <2> QED
    BY <2>1, <2>3 DEF Slots
<1>12. ASSUME NEW s \in A, NEW t \in A, h[s] = h[t] PROVE s = t
  <2>1. pi(s[1]) = pi(t[1]) /\ s[2] = t[2]
    BY <1>12
  <2>2. s[1] = t[1]
    BY <1>9, <1>10, <2>1
  <2> QED
    BY <1>10, <2>1, <2>2
<1>13. h \in [A -> B]
  BY <1>11
<1>14. h \in Injection(A, B)
  <2> HIDE DEF h
  <2> QED
    BY <1>12, <1>13 DEF Injection, IsInjective
<1>15. IsFiniteSet(B)
  BY SlotsFinite
<1> HIDE DEF h, A, B
<1>16. Cardinality(A) <= Cardinality(B)
  BY <1>14, <1>15, FS_Injection
<1> QED
  BY <1>16 DEF A, B, Bytes

\* Evicting the largest object first makes room with the fewest objects.
THEOREM EvictionOfLargestIsFewest == PlaceSpec => []LargestEvictsFewest
<1>1. IInv => LargestEvictsFewest
  <2> SUFFICES ASSUME cache \in Cache, NEW d \in Demands,
                      NEW K \in Evicted("LargestFirstEviction", cache, On(d[1]), d[2]),
                      NEW L \in SUBSET ObjectsInTier(cache, On(d[1])),
                      Fits(Removed(cache, L), On(d[1]), d[2])
               PROVE  Cardinality(K) <= Cardinality(L)
    BY DEF IInv, Good, LargestEvictsFewest
  <2> DEFINE cell == On(d[1])
             S == ObjectsInTier(cache, cell)
             R == Order("LargestFirstEviction", cache, S)
             E == Enough(cache, S, cell, d[2])
  <2>1. cell \in Cell /\ d[2] \in Nat
    BY DemandParts
  <2>2. Evicted("LargestFirstEviction", cache, cell, d[2]) = Outcomes(R, E, S, S)
    BY <2>1, EvictedIs DEF EvictionPolicies
  <2>3. \A j, k \in S : <<j, k>> \in R
                          => cache.objects[k].bytes <= cache.objects[j].bytes
    BY DEF Order
  <2>4. L \in E
    BY DEF Enough
  <2>5. \A X \in SUBSET S : IsFiniteSet(X) /\ Sized(cache.objects, X)
                            /\ Cardinality(X) \in Nat
    <3>1. S \in SUBSET DOMAIN cache.objects
      BY DEF ObjectsInTier
    <3> QED
      BY <3>1, TierFinite, FS_CardinalityType
  <2>6. \A X, Y \in SUBSET S :
           X \in E /\ Bytes(cache, X) <= Bytes(cache, Y) => Y \in E
    BY <2>1, EnoughGrows
  <2>7. PICK G \in SUBSET S : Leaves(R, E, S, S, G) /\ K = S \ G
    <3>1. K \in Outcomes(R, E, S, S)
      BY <2>2
    <3> HIDE DEF R, E, S
    <3> QED
      BY <3>1 DEF Outcomes
  <2>8. K \in SUBSET S /\ L \in SUBSET S
    BY <2>7
  <2> HIDE DEF R, E, S
  <2>9. SUFFICES ASSUME Cardinality(L) < Cardinality(K) PROVE FALSE
    BY <2>5, <2>8
  <2>10. K # {}
    BY <2>5, <2>8, <2>9, FS_EmptySet
  <2>11. PICK v \in K : (\A k \in K : <<k, v>> \in R) /\ S \ (G \cup {v}) \notin E
    BY <2>7, <2>10 DEF Leaves
  <2> DEFINE J == K \ {v}
             Both == L \cap J
  <2>12. J \in SUBSET S /\ J \notin E /\ S \ J = G \cup {v}
    <3>1. J = S \ (G \cup {v})
      BY <2>7
    <3> QED
      BY <2>7, <2>8, <2>11, <3>1
  <2>13. Cardinality(J) = Cardinality(K) - 1
    BY <2>5, <2>8, FS_RemoveElement
  <2>14. /\ Cardinality(L \ J) = Cardinality(L) - Cardinality(Both)
         /\ Cardinality(J \ L) = Cardinality(J) - Cardinality(Both)
         /\ Cardinality(Both) \in Nat
    <3>1. IsFiniteSet(L) /\ IsFiniteSet(J) /\ Both \in SUBSET S
      BY <2>5, <2>8, <2>12
    <3>2. J \cap L = Both
      OBVIOUS
    <3> QED
      BY <2>5, <3>1, <3>2, FS_Difference
  <2>15. L \ J \in SUBSET S /\ J \ L \in SUBSET S /\ Both \in SUBSET S
    BY <2>8, <2>12
  <2>16. Cardinality(L \ J) <= Cardinality(J \ L)
    BY <2>5, <2>8, <2>9, <2>12, <2>13, <2>14
  <2>17. \A i \in L \ J, j \in J \ L : cache.objects[i].bytes <= cache.objects[j].bytes
    <3> SUFFICES ASSUME NEW i \in L \ J, NEW j \in J \ L
                 PROVE  cache.objects[i].bytes <= cache.objects[j].bytes
      OBVIOUS
    <3>1. i \in S /\ j \in S /\ v \in S /\ j \in K /\ (i = v \/ i \in G)
      BY <2>8, <2>12
    <3>2. i = v \/ <<v, i>> \in R
      BY <2>7, <3>1 DEF Leaves
    <3>3. /\ cache.objects[v].bytes <= cache.objects[j].bytes
          /\ i = v \/ cache.objects[i].bytes <= cache.objects[v].bytes
      BY <2>3, <2>11, <3>1, <3>2
    <3>4. /\ cache.objects[i].bytes \in Nat /\ cache.objects[j].bytes \in Nat
          /\ cache.objects[v].bytes \in Nat
      BY <2>5, <3>1 DEF Sized
    <3> QED
      BY <3>3, <3>4
  <2>18. Bytes(cache, L \ J) <= Bytes(cache, J \ L)
    <3> HIDE DEF J
    <3> QED
      BY <2>5, <2>15, <2>16, <2>17, BytesBelow
  <2>19. /\ Bytes(cache, (L \ J) \cup Both) = Bytes(cache, L \ J) + Bytes(cache, Both)
         /\ Bytes(cache, (J \ L) \cup Both) = Bytes(cache, J \ L) + Bytes(cache, Both)
         /\ Bytes(cache, L \ J) \in Nat /\ Bytes(cache, J \ L) \in Nat
         /\ Bytes(cache, Both) \in Nat
    <3>1. (L \ J) \cap Both = {} /\ (J \ L) \cap Both = {}
      OBVIOUS
    <3> HIDE DEF J, Both
    <3> QED
      BY <2>5, <2>15, <3>1, BytesAdd
  <2>20. (L \ J) \cup Both = L /\ (J \ L) \cup Both = J
    OBVIOUS
  <2>21. Bytes(cache, L) <= Bytes(cache, J)
    <3>1. /\ Bytes(cache, L) = Bytes(cache, L \ J) + Bytes(cache, Both)
          /\ Bytes(cache, J) = Bytes(cache, J \ L) + Bytes(cache, Both)
      BY <2>19, <2>20, Zenon
    <3> HIDE DEF J, Both
    <3> QED
      BY <2>18, <2>19, <3>1
  <2> QED
    BY <2>4, <2>6, <2>8, <2>12, <2>21
<1> QED
  BY <1>1, PlaceGoodAlways, PTL
=============================================================================
