----------------------- MODULE CacheAwareRunnerProofs ------------------------
(***************************************************************************)
(* CacheAwareRunner, for every number of requests and GPUs, every memory,  *)
(* placement policy and trace, and all transfer times: what is proved of   *)
(* EventDrivenRunner still holds when prefills are saved and fetches are   *)
(* under way, and serving keeps the cache well formed.                     *)
(***************************************************************************)
EXTENDS CacheAwareRunner, ServingProofs

\* KV, with the lemmas about it.
P ==
    INSTANCE PlacementProofs
        WITH Prefix <- Tokens, ByteSize <- Nat, Time <- Nat,
             Policies <- {b.policy : b \in Builds},
             Capacities <- {CapacityOf(b) : b \in Builds}

-----------------------------------------------------------------------------
(* The operators of P are those of KV *)

LEMMA SameCardinality == \A S : P!Cardinality(S) = KV!Cardinality(S)
BY DEF P!Cardinality, KV!Cardinality

LEMMA SameBytes ==
    \A c, K, cell : /\ P!Bytes(c, K) = KV!Bytes(c, K)
                    /\ P!ObjectsInTier(c, cell) = KV!ObjectsInTier(c, cell)
BY SameCardinality DEF P!Bytes, KV!Bytes, P!Slots, KV!Slots,
                       P!ObjectsInTier, KV!ObjectsInTier

LEMMA SameFits ==
    \A c, cell, bytes : P!Fits(c, cell, bytes) <=> KV!Fits(c, cell, bytes)
BY DEF P!Fits, KV!Fits, P!AvailableSpace, KV!AvailableSpace, P!SatSub, KV!SatSub

LEMMA SameKey == \A o : P!KeyOf(o) = KV!KeyOf(o)
BY DEF P!KeyOf, KV!KeyOf

LEMMA SameRemoved == \A c, K : P!Removed(c, K) = KV!Removed(c, K)
BY SameBytes, SameKey DEF P!Removed, KV!Removed, P!With, KV!With, P!Restrict,
                          KV!Restrict, P!SatSub, KV!SatSub

LEMMA SameInserted == \A c, k, o : P!Inserted(c, k, o) = KV!Inserted(c, k, o)
BY SameKey DEF P!Inserted, KV!Inserted, P!With, KV!With, P!Charge, KV!Charge

LEMMA SameTouched ==
    \A c, k, t : P!Touched(c, k, t) = KV!Touched(c, k, t)
BY DEF P!Touched, KV!Touched, P!With, KV!With

LEMMA SameVictims ==
    \A c, cell, bytes : P!Victims(c, cell, bytes) = KV!Victims(c, cell, bytes)
<1> SUFFICES ASSUME NEW c, NEW cell, NEW bytes
             PROVE  P!Victims(c, cell, bytes) = KV!Victims(c, cell, bytes)
  OBVIOUS
<1> DEFINE there == P!ObjectsInTier(c, cell)
<1>1. there = KV!ObjectsInTier(c, cell)
  BY SameBytes
<1>2. \A K : P!Fits(P!Removed(c, K), cell, bytes)
              <=> KV!Fits(KV!Removed(c, K), cell, bytes)
  BY SameRemoved, SameFits
<1>3. \A k : P!LastAccess(c, k) = KV!LastAccess(c, k)
  BY DEF P!LastAccess, KV!LastAccess
<1> DEFINE Last(k) == KV!LastAccess(c, k)
           Enough(K) == KV!Fits(KV!Removed(c, K), cell, bytes)
           Chosen == {K \in SUBSET there :
                        /\ \A v \in K, k \in there \ K : Last(v) <= Last(k)
                        /\ Enough(K) \/ K = there
                        /\ K # {} =>
                             \E v \in K : /\ \A k \in K : Last(k) <= Last(v)
                                         /\ ~Enough(K \ {v})}
<1>4. KV!Victims(c, cell, bytes) = Chosen
  BY ONLY <1>1 DEF KV!Victims
<1>5. P!Victims(c, cell, bytes) = Chosen
  BY ONLY <1>2, <1>3 DEF P!Victims
<1> QED
  BY ONLY <1>4, <1>5

LEMMA SamePut == \A a, tier, o : P!Put(a, tier, o) = KV!Put(a, tier, o)
BY SameFits, SameInserted DEF P!Put, KV!Put, P!On, KV!On

LEMMA SameEvicting == \A a, K : P!Evicting(a, K) = KV!Evicting(a, K)
BY SameRemoved DEF P!Evicting, KV!Evicting

LEMMA SameTries ==
    \A a, tier, o :
        /\ P!TryEvicting(a, tier, o) = KV!TryEvicting(a, tier, o)
        /\ P!TryAsItIs(a, tier, o) = KV!TryAsItIs(a, tier, o)
        /\ P!TryIfLargeEnough(a, tier, o) = KV!TryIfLargeEnough(a, tier, o)
BY SameVictims, SamePut, SameEvicting
    DEF P!TryEvicting, KV!TryEvicting, P!TryAsItIs, KV!TryAsItIs,
        P!TryIfLargeEnough, KV!TryIfLargeEnough, P!On, KV!On

LEMMA SameUtility ==
    \A tier, bytes, n :
        P!UtilityForTier(tier, bytes, n) = KV!UtilityForTier(tier, bytes, n)
BY DEF P!UtilityForTier, KV!UtilityForTier, P!Wrap, KV!Wrap, P!FetchCost,
       KV!FetchCost, P!EstimateDuration, KV!EstimateDuration,
       P!AnalyticalDuration, KV!AnalyticalDuration, P!Serialization,
       KV!Serialization, P!PressurePenalty, KV!PressurePenalty

LEMMA SameRanked == \A o, i : P!Ranked(o, i) = KV!Ranked(o, i)
BY SameUtility, SameCardinality DEF P!Ranked, KV!Ranked, P!Tier, KV!Tier,
                                    P!Listed, KV!Listed

LEMMA SameTryRanked ==
    \A as, i, o : P!TryRanked(as, i, o) = KV!TryRanked(as, i, o)
<1> SUFFICES ASSUME NEW as, NEW i, NEW o
             PROVE  P!TryRanked(as, i, o) = KV!TryRanked(as, i, o)
  OBVIOUS
<1> DEFINE S(a) == UNION {P!TryIfLargeEnough(a, tier, o) : tier \in P!Ranked(o, i)}
           T(a) == UNION {KV!TryIfLargeEnough(a, tier, o) : tier \in KV!Ranked(o, i)}
<1>1. \A a : S(a) = T(a)
  BY SameTries, SameRanked
<1>2. /\ P!TryRanked(as, i, o) = UNION {S(a) : a \in as}
      /\ KV!TryRanked(as, i, o) = UNION {T(a) : a \in as}
  BY DEF P!TryRanked, KV!TryRanked
<1> HIDE DEF S, T
<1> QED
  BY <1>1, <1>2

LEMMA SameAttempts ==
    \A pol, c, o : P!Attempts(pol, c, o) = KV!Attempts(pol, c, o)
<1> SUFFICES ASSUME NEW pol, NEW c, NEW o
             PROVE  P!Attempts(pol, c, o) = KV!Attempts(pol, c, o)
  OBVIOUS
<1> DEFINE start == [cache |-> c, evicted |-> {}, tier |-> None]
<1>1. /\ P!LocalGpuLru(start, o) = KV!LocalGpuLru(start, o)
      /\ P!CpuOffloadLru(start, o) = KV!CpuOffloadLru(start, o)
      /\ P!RemoteLru(start, o) = KV!RemoteLru(start, o)
      /\ P!SizeAware(start, o) = KV!SizeAware(start, o)
  BY SameTries DEF P!LocalGpuLru, KV!LocalGpuLru, P!CpuOffloadLru,
                   KV!CpuOffloadLru, P!RemoteLru, KV!RemoteLru, P!SizeAware,
                   KV!SizeAware
<1>2. P!NetworkAware(start, o) = KV!NetworkAware(start, o)
  BY SameTryRanked DEF P!NetworkAware, KV!NetworkAware
<1> QED
  BY <1>1, <1>2 DEF P!Attempts, KV!Attempts

LEMMA SamePlacements ==
    \A pol, c, s, n, t :
        P!Placements(pol, c, s, n, t) = KV!Placements(pol, c, s, n, t)
BY SameAttempts DEF P!Placements, KV!Placements, P!Allocated, KV!Allocated,
                    P!NewObject, KV!NewObject, P!KvBytes, KV!KvBytes

-----------------------------------------------------------------------------
(* The assumptions of P *)

LEMMA BuildParts ==
    ASSUME NEW b \in Builds
    PROVE  /\ b.policy \in KV!Policy /\ b.role \in [Gpu -> WorkerRole]
           /\ CapacityOf(b) \in [Cell -> Nat]
<1>1. b \in [policy : KV!Policy, role : [Gpu -> WorkerRole],
             memory : [Node -> [hbm : Nat, cpu_mem : Nat, local_ssd : Nat]]]
  BY CacheRunnerAssumption
<1>2. ASSUME NEW cell \in Cell PROVE CapacityOf(b)[cell] \in Nat
  <2>1. cell[1] \in Node
    BY DEF Cell
  <2>2. b.memory[cell[1]] \in [hbm : Nat, cpu_mem : Nat, local_ssd : Nat]
    BY <1>1, <2>1
  <2> QED
    BY <2>2 DEF CapacityOf
<1> QED
  BY <1>1, <1>2 DEF CapacityOf

LEMMA IdsBounded == MaxKvId \in Nat /\ Cardinality(Request) \in Nat
BY ServingAssumption, CacheRunnerAssumption, FS_CardinalityType DEF MaxKvId

\* What CacheState, Transfer and Placement assume of their constants, for P.
Surroundings ==
    /\ Missing \notin Cell
    /\ Nat \subseteq Nat
    /\ MaxKvId \in Nat
    /\ \A tier \in P!Tier : P!On(tier) \in Cell
    /\ {b.policy : b \in Builds} \subseteq P!Policy
    /\ GpuThreshold \in Nat
    /\ Tokens \subseteq Nat
    /\ PrefillTime \in [Tokens -> Nat]
    /\ BytesPerToken \in Nat \ {0}
    /\ \A prefix_tokens \in Tokens : BytesPerToken * prefix_tokens \in Nat
    /\ MaxInt \in Nat
    /\ {CapacityOf(b) : b \in Builds} \subseteq [Cell -> Nat]
    /\ None \notin P!Tier
    /\ Bandwidth \in [P!FetchTier -> Nat]
    /\ BaseLatency \in [P!FetchTier -> Nat]
    /\ NsPerUnit \in Nat
    /\ Queued \in BOOLEAN
    /\ DOMAIN Calibrated \subseteq P!FetchTier \X Nat
    /\ \A entry \in DOMAIN Calibrated : Calibrated[entry] \in Nat
    /\ Queued => DOMAIN Calibrated = {}
    /\ Fails \notin Int

LEMMA Surrounded == Surroundings
<1>1. /\ Bandwidth \in [P!FetchTier -> Nat]
      /\ BaseLatency \in [P!FetchTier -> Nat]
      /\ NsPerUnit \in Nat
      /\ Queued \in BOOLEAN
      /\ DOMAIN Calibrated \subseteq P!FetchTier \X Nat
      /\ \A entry \in DOMAIN Calibrated : Calibrated[entry] \in Nat
      /\ Queued => DOMAIN Calibrated = {}
      /\ Fails \notin Int
  BY TransferAssumption DEF P!FetchTier, FetchTier
<1>2. /\ \A tier \in P!Tier : P!On(tier) \in Cell
      /\ None \notin P!Tier
  BY CacheRunnerAssumption DEF P!Tier, P!On, Cell, CacheTier
<1>3. {b.policy : b \in Builds} \subseteq P!Policy
  BY BuildParts DEF KV!Policy, P!Policy
<1>4. {CapacityOf(b) : b \in Builds} \subseteq [Cell -> Nat]
  BY BuildParts
<1>5. Tokens \subseteq Nat /\ PrefillTime \in [Tokens -> Nat]
  BY ServingAssumption
<1>6. /\ Missing \notin Cell /\ GpuThreshold \in Nat
      /\ BytesPerToken \in Nat \ {0} /\ MaxInt \in Nat
  BY CacheRunnerAssumption
<1>7. \A prefix_tokens \in Tokens : BytesPerToken * prefix_tokens \in Nat
  BY <1>5, <1>6
<1> QED
  BY <1>1, <1>2, <1>3, <1>4, <1>5, <1>6, <1>7, IdsBounded DEF Surroundings

-----------------------------------------------------------------------------
(* A cache in use *)

\* The inductive invariant of CacheState and Placement.
CacheGood(c) == P!Good(c)

LEMMA StoredGood ==
    ASSUME NEW c, CacheGood(c), c.next_kv_id < MaxKvId,
           NEW b \in Builds, NEW s \in Session, NEW n \in Tokens, NEW t \in Nat,
           NEW a \in KV!Placements(b.policy, c, s, n, t)
    PROVE  /\ CacheGood(a.cache)
           /\ a.cache.next_kv_id = c.next_kv_id + 1
           /\ KV!Bytes(c, a.evicted) \in Nat
<1>1. Surroundings /\ P!Good(c) /\ b.policy \in {d.policy : d \in Builds}
  BY Surrounded DEF CacheGood
<1>2. a \in P!Placements(b.policy, c, s, n, t)
  BY SamePlacements
<1>3. P!AllGood(P!Placements(b.policy, c, s, n, t), c.next_kv_id, <<s, n>>)
  BY <1>1, P!PlacementsGood DEF Surroundings
<1>4. P!Good(a.cache) /\ a.cache.next_kv_id = c.next_kv_id + 1
  BY <1>2, <1>3 DEF P!AllGood, P!AttemptGood
<1>5. P!Bytes(c, a.evicted) \in Nat
  BY <1>1, <1>2, P!PlacementsEvict DEF Surroundings
<1> QED
  BY <1>4, <1>5, SameBytes DEF CacheGood

LEMMA TouchedGood ==
    ASSUME NEW c, CacheGood(c), NEW k \in DOMAIN c.objects, NEW t \in Nat
    PROVE  /\ CacheGood(KV!Touched(c, k, t))
           /\ KV!Touched(c, k, t).next_kv_id = c.next_kv_id
<1>1. P!Good(P!Touched(c, k, t))
  BY Surrounded, P!TouchedGood DEF Surroundings, CacheGood
<1> QED
  BY <1>1, SameTouched DEF CacheGood, KV!Touched, KV!With

\* What is known of a good cache, in the terms of CacheAwareRunner.
LEMMA CacheGoodParts ==
    ASSUME NEW c, CacheGood(c)
    PROVE  /\ c.next_kv_id \in 0 .. MaxKvId
           /\ DOMAIN c.objects \subseteq KV!KvId
           /\ \A k \in DOMAIN c.objects :
                 k < c.next_kv_id /\ c.objects[k] \in KV!KvObject
           /\ \A key \in DOMAIN c.by_session_prefix :
                 key \in KV!Key /\ c.by_session_prefix[key] < c.next_kv_id
<1>1. c \in P!Cache /\ P!IdsAllocated(c) /\ P!Sound(c)
  BY DEF CacheGood, P!Good
<1>2. /\ DOMAIN c.objects \subseteq P!KvId
      /\ \A k \in DOMAIN c.objects : c.objects[k] \in P!KvObject
      /\ DOMAIN c.by_session_prefix \subseteq P!Key
  BY <1>1, Surrounded, P!CacheParts DEF Surroundings
<1>3. c.next_kv_id \in 0 .. MaxKvId
  BY <1>1 DEF P!Cache
<1>4. P!KvObject = KV!KvObject /\ P!Key = KV!Key /\ P!KvId = KV!KvId
  BY DEF P!KvObject, KV!KvObject, P!Key, KV!Key, P!KvId, KV!KvId, P!Location,
         KV!Location
<1> QED
  BY <1>1, <1>2, <1>3, <1>4 DEF P!IdsAllocated, P!Sound

LEMMA CacheGoodSound == CacheGood(cache) => CacheSound
<1> SUFFICES ASSUME CacheGood(cache) PROVE CacheSound
  OBVIOUS
<1>1. P!Exact(cache) /\ P!Within(cache) /\ P!Sound(cache)
  BY DEF CacheGood, P!Good
<1>2. KV!UsageExact
  BY <1>1, SameBytes DEF P!Exact, KV!UsageExact
<1>3. KV!WithinCapacity
  BY <1>1 DEF P!Within, KV!WithinCapacity
<1>4. KV!IndexSound
  BY <1>1, SameKey DEF P!Sound, KV!IndexSound
<1> QED
  BY <1>2, <1>3, <1>4 DEF CacheSound

LEMMA BuiltGood ==
    ASSUME NEW b \in Builds, cache = [KV!NewCache EXCEPT !.capacities = CapacityOf(b)]
    PROVE  CacheGood(cache) /\ cache.next_kv_id = 0
<1>1. P!PlaceInit
  <2>1. KV!NewCache = P!NewCache
    BY DEF KV!NewCache, P!NewCache
  <2> QED
    BY <2>1 DEF P!PlaceInit
<1>2. P!IInv
  BY <1>1, Surrounded, P!PlaceGoodInit DEF Surroundings
<1>3. cache.next_kv_id = 0
  BY DEF KV!NewCache
<1> QED
  BY <1>2, <1>3 DEF P!IInv, CacheGood

-----------------------------------------------------------------------------
(* Where the objects of a cache in use come from *)

LEMMA StoredComes ==
    ASSUME NEW c, CacheGood(c), NEW b \in Builds,
           NEW s \in Session, NEW n \in Tokens, NEW t \in Nat,
           NEW a \in KV!Placements(b.policy, c, s, n, t)
    PROVE  P!ComesFrom(a.cache, c, KV!NewObject(s, n, t))
<1>1. Surroundings /\ P!Good(c) /\ b.policy \in {d.policy : d \in Builds}
  BY Surrounded DEF CacheGood
<1>2. a \in P!Placements(b.policy, c, s, n, t)
  BY SamePlacements
<1>3. P!ComesFrom(a.cache, c, P!NewObject(s, n, t))
  BY <1>1, <1>2, P!PlacementsCome DEF Surroundings
<1> QED
  BY <1>3 DEF P!NewObject, KV!NewObject, P!KvBytes, KV!KvBytes

LEMMA TouchedSame ==
    ASSUME NEW c, CacheGood(c), NEW k \in DOMAIN c.objects, NEW t
    PROVE  LET d == KV!Touched(c, k, t)
           IN  /\ DOMAIN d.objects = DOMAIN c.objects
               /\ \A j \in DOMAIN c.objects : P!SameKv(d.objects[j], c.objects[j])
<1> DEFINE d == KV!Touched(c, k, t)
           touched == [c.objects[k] EXCEPT !.last_access_ns = t]
<1>1. c.objects[k] \in KV!KvObject
  BY CacheGoodParts
<1>2. P!SameKv(touched, c.objects[k])
  BY <1>1 DEF KV!KvObject, P!SameKv
<1>3. d.objects = [c.objects EXCEPT ![k] = touched]
  BY DEF KV!Touched, KV!With
<1> HIDE DEF touched
<1>4. /\ DOMAIN d.objects = DOMAIN c.objects
      /\ \A j \in DOMAIN c.objects :
            d.objects[j] = IF j = k THEN touched ELSE c.objects[j]
  BY <1>3
<1> QED
  BY <1>2, <1>4 DEF P!SameKv

\* What a lookup finds has the key that was looked up.
LEMMA FoundByKey ==
    ASSUME NEW c, CacheGood(c), NEW s, NEW n, NEW k \in KV!Lookup(c, <<s, n>>)
    PROVE  /\ k \in DOMAIN c.objects
           /\ c.objects[k].session_id = s /\ c.objects[k].prefix_tokens = n
<1>1. /\ k \in DOMAIN c.objects
      /\ <<s, n>> \in DOMAIN c.by_session_prefix
      /\ c.by_session_prefix[<<s, n>>] = k
  BY DEF KV!Lookup
<1>2. P!Sound(c)
  BY DEF CacheGood, P!Good
<1>3. P!KeyOf(c.objects[k]) = <<s, n>>
  BY <1>1, <1>2 DEF P!Sound
<1> QED
  BY <1>1, <1>3 DEF P!KeyOf

-----------------------------------------------------------------------------
(* The inductive invariant *)

\* Where a request's KV may be on its way from.
Sources == FetchTier \cup {None}

\* The requests that still have a prefill, and so an id to allocate, ahead.
Unprefilled ==
    {r \in Request :
        PhaseOf(r) \in {"Arriving", "Fetching", "PrefillQueued", "Prefill"}}

CacheInv ==
    /\ policy \in {b.policy : b \in Builds}
    /\ CacheGood(cache)
    /\ nic_busy_until_ns \in Nat
    /\ stats \in [DOMAIN NoStats -> Nat]

\* Ids enough are left for the prefills to come.
IdsLeft ==
    cache.next_kv_id + Cardinality(Unprefilled) <= runs * Cardinality(Request)

\* What holds between two handlers.
Inv ==
    /\ ServingInv(Sources, FetchKind)
    /\ runs \in 0 .. MaxRuns
    /\ Running => trace \in Traces
    /\ runs = 0 => ~Running /\ busy_until = [g \in Gpu |-> 0]
    /\ runs <= 1 => WorkInv
    /\ CacheInv
    /\ IdsLeft

LEMMA SomeFetches == FetchKind \subseteq FetchKind /\ None \in Sources
BY DEF Sources

LEMMA TraceParts ==
    ASSUME NEW tr \in Traces
    PROVE  /\ tr # <<>>
           /\ \A r \in Request :
                 /\ tr[r].session_id \in Session
                 /\ tr[r].arrival_ns \in Nat
                 /\ tr[r].prompt_tokens \in Tokens
                 /\ tr[r].new_prompt_tokens \in Tokens
                 /\ tr[r].output_tokens \in Nat
<1>1. DOMAIN tr = Request /\ Request # {} /\ DOMAIN <<>> = {}
  BY CacheRunnerAssumption
<1>2. \A r \in Request : IsRequest(tr[r])
  BY CacheRunnerAssumption
<1> QED
  BY <1>1, <1>2 DEF IsRequest

-----------------------------------------------------------------------------
(* The record of a request in flight *)

\* Only the request of the event is changed.
LEMMA EditedBegins ==
    ASSUME NEW tiers, NEW e, NEW o, Begins(o, tiers, e), ClockAt(e) \in Nat,
           NEW r \in DOMAIN o.in_flight, r = e.kind.request_id,
           NEW x \in FlightOf(tiers),
           NEW q, q = [o EXCEPT !.in_flight = [o.in_flight EXCEPT ![r] = x]]
    PROVE  /\ Begins(q, tiers, e)
           /\ q.busy_until = o.busy_until
           /\ q.in_flight[r] = x
<1> DEFINE f == [o.in_flight EXCEPT ![r] = x]
<1>1. /\ o \in PoolType(tiers) /\ PoolGood(o, tiers, ClockAt(e))
      /\ o.waiting = waiting /\ o.events = <<>>
  BY DEF Begins, PoolGood
<1>2. /\ DOMAIN o.in_flight \in SUBSET Request
      /\ \A s \in DOMAIN o.in_flight : o.in_flight[s] \in FlightOf(tiers)
  BY <1>1, PoolParts
<1>3. o.in_flight \in [DOMAIN o.in_flight -> FlightOf(tiers)]
  BY <1>1, <1>2 DEF PoolType, Flights
<1>4. f \in [DOMAIN o.in_flight -> FlightOf(tiers)]
  BY <1>3
<1>5. f \in Flights(tiers) /\ DOMAIN f = DOMAIN o.in_flight
  BY <1>2, <1>4 DEF Flights
<1>6. \A s \in DOMAIN o.in_flight \ {r} : f[s] = o.in_flight[s]
  OBVIOUS
<1>7. f[r] = x
  OBVIOUS
<1>8. q = [o EXCEPT !.in_flight = f]
  OBVIOUS
<1> HIDE DEF f
<1>9. /\ [o EXCEPT !.in_flight = f] \in PoolType(tiers)
      /\ [o EXCEPT !.in_flight = f].busy_until = o.busy_until
      /\ [o EXCEPT !.in_flight = f].waiting = o.waiting
      /\ [o EXCEPT !.in_flight = f].events = o.events
      /\ [o EXCEPT !.in_flight = f].in_flight = f
  BY <1>1, <1>5 DEF PoolType
<1>10. Apart(q) /\ \A s : HeldIn(q, s) <=> HeldIn(o, s)
  BY <1>1, <1>8, <1>9 DEF PoolGood, Apart, HeldIn, WaitsIn, WorksIn
<1>11. DOMAIN q.events = {}
  BY <1>1, <1>8, <1>9
<1>12. PoolGood(q, tiers, ClockAt(e))
  BY <1>1, <1>5, <1>8, <1>9, <1>10, <1>11 DEF PoolGood
<1> QED
  BY <1>1, <1>5, <1>6, <1>7, <1>8, <1>9, <1>12 DEF Begins

LEMMA FlightOfEvent ==
    ASSUME NEW tiers, NEW e, NEW o, Begins(o, tiers, e),
           NEW r \in DOMAIN o.in_flight
    PROVE  o.in_flight[r] \in FlightOf(tiers)
BY PoolParts DEF Begins, PoolGood

\* The request of the event is given a prefill length.
LEMMA TokensSet ==
    ASSUME NEW tiers, NEW e, NEW o, Begins(o, tiers, e), ClockAt(e) \in Nat,
           NEW r \in DOMAIN o.in_flight, r = e.kind.request_id, NEW n \in Tokens,
           NEW q, q = [o EXCEPT !.in_flight[r].prefill_tokens = n]
    PROVE  Begins(q, tiers, e) /\ q.busy_until = o.busy_until
<1> DEFINE x == [o.in_flight[r] EXCEPT !.prefill_tokens = n]
<1>1. o.in_flight[r] \in FlightOf(tiers)
  BY FlightOfEvent
<1>2. x \in FlightOf(tiers)
  BY <1>1 DEF FlightOf
<1>3. q = [o EXCEPT !.in_flight = [o.in_flight EXCEPT ![r] = x]]
  OBVIOUS
<1> HIDE DEF x
<1> QED
  BY <1>2, <1>3, EditedBegins

\* The request of the event begins to wait for a fetch, or has waited for it.
LEMMA SourceSet ==
    ASSUME NEW tiers, NEW e, NEW o, Begins(o, tiers, e), ClockAt(e) \in Nat,
           NEW r \in DOMAIN o.in_flight, r = e.kind.request_id, NEW tier \in tiers,
           NEW q, q = [o EXCEPT !.in_flight[r].pending_fetch_tier = tier]
    PROVE  Begins(q, tiers, e) /\ q.busy_until = o.busy_until
<1> DEFINE x == [o.in_flight[r] EXCEPT !.pending_fetch_tier = tier]
<1>1. o.in_flight[r] \in FlightOf(tiers)
  BY FlightOfEvent
<1>2. x \in FlightOf(tiers)
  BY <1>1 DEF FlightOf
<1>3. q = [o EXCEPT !.in_flight = [o.in_flight EXCEPT ![r] = x]]
  OBVIOUS
<1> HIDE DEF x
<1> QED
  BY <1>2, <1>3, EditedBegins

-----------------------------------------------------------------------------
(* The handlers return *)

\* Where the request of an event goes.
GoesOn(e, q) ==
    LET r == e.kind.request_id
    IN  \/ /\ e.kind.tag \in {"RequestArrival", "FetchDone"}
           /\ \E stage \in Stage : IsIn(q, stage, r)
        \/ /\ e.kind.tag = "RequestArrival"
           /\ \E f \in queue' : f.kind = [tag |-> "FetchDone", request_id |-> r]
        \/ e.kind.tag = "PrefillDone" /\ IsIn(q, "Decode", r)
        \/ e.kind.tag = "DecodeDone" /\ r \in DOMAIN results'

\* The handler of e returns with the pool q.
Handled(e, q) ==
    /\ Returns(e, q, Sources, FetchKind)
    /\ \E o : Tends(e, q, o)
    /\ \E stage \in Stage : InLine(q, Pool, stage, e.kind.request_id)
    /\ GoesOn(e, q)
    /\ runs' = runs /\ policy' = policy

\* start_or_queue_remaining_prefill, or a prefill of the whole prompt, sends the
\* request to one stage.
SendsOn(o, e, m) ==
    \E p : \E stage \in Stage :
        /\ Begins(p, Sources, e) /\ p.busy_until = o.busy_until
        /\ m = StartOrQueue(p, ClockAt(e), stage, e.kind.request_id)

LEMMA PrefillingSends ==
    ASSUME NEW e, NEW o, Begins(o, Sources, e), ClockAt(e) \in Nat,
           NEW r \in DOMAIN o.in_flight, r = e.kind.request_id, NEW n \in Tokens
    PROVE  SendsOn(o, e, Prefilling(o, ClockAt(e), r, n))
<1> DEFINE p == [o EXCEPT !.in_flight[r].prefill_tokens = n]
<1>1. Begins(p, Sources, e) /\ p.busy_until = o.busy_until
  BY TokensSet
<1>2. Prefilling(o, ClockAt(e), r, n) = StartOrQueue(p, ClockAt(e), "Prefill", r)
  BY DEF Prefilling
<1> HIDE DEF p
<1>3. "Prefill" \in Stage
  BY DEF Stage
<1> QED
  BY <1>1, <1>2, <1>3 DEF SendsOn

LEMMA RemainingSends ==
    ASSUME NEW e, NEW o, Begins(o, Sources, e), ClockAt(e) \in Nat,
           NEW r \in DOMAIN o.in_flight, r = e.kind.request_id,
           trace[r].new_prompt_tokens \in Tokens
    PROVE  SendsOn(o, e, RemainingPrefill(o, ClockAt(e), r))
<1>1. CASE trace[r].new_prompt_tokens = 0
  <2>1. RemainingPrefill(o, ClockAt(e), r) = StartOrQueue(o, ClockAt(e), "Decode", r)
    BY <1>1 DEF RemainingPrefill
  <2>2. "Decode" \in Stage
    BY DEF Stage
  <2> QED
    BY <2>1, <2>2 DEF SendsOn
<1>2. CASE trace[r].new_prompt_tokens # 0
  BY <1>2, PrefillingSends DEF RemainingPrefill
<1> QED
  BY <1>1, <1>2

\* What the handlers are given.
LEMMA Given ==
    ASSUME Inv, NEW e, IsNext(e)
    PROVE  /\ ServingInv(Sources, FetchKind) /\ CacheInv
           /\ Begins(Pool, Sources, e) /\ Pool.busy_until = busy_until
           /\ ClockAt(e) \in Nat /\ e \in queue /\ Running /\ trace \in Traces
           /\ e.kind.request_id \in Request
           /\ e.kind.request_id \in DOMAIN Pool.in_flight
<1>1. ServingInv(Sources, FetchKind) /\ CacheInv
  BY DEF Inv
<1>2. e \in queue
  BY DEF IsNext
<1>3. Running /\ e.kind.request_id \in Request
      /\ e.kind.request_id \in DOMAIN in_flight
  BY <1>1, <1>2, SomeFetches, EventParts
<1>4. Begins(Pool, Sources, e) /\ ClockAt(e) \in Nat
  BY <1>1, SomeFetches, PoolBegins, DeliveredOnTime
<1>5. Pool.busy_until = busy_until /\ Pool.in_flight = in_flight
  BY DEF Pool
<1> QED
  BY <1>1, <1>2, <1>3, <1>4, <1>5 DEF Inv

\* An arrival that needs no fetch.
LEMMA ArrivalSent ==
    ASSUME Inv, NEW e, NEW r, ArrivalOf(e, r), NEW q, SendsOn(Pool, e, q),
           Commit(e, q)
    PROVE  Handled(e, q)
<1>1. /\ IsNext(e) /\ e.kind = [tag |-> "RequestArrival", request_id |-> r]
      /\ trace' = trace /\ results' = results /\ runs' = runs /\ policy' = policy
  BY DEF ArrivalOf
<1>2. /\ ServingInv(Sources, FetchKind) /\ Pool.busy_until = busy_until
  BY <1>1, Given
<1>3. PICK p : \E stage \in Stage :
          /\ Begins(p, Sources, e) /\ p.busy_until = Pool.busy_until
          /\ q = StartOrQueue(p, ClockAt(e), stage, e.kind.request_id)
  BY DEF SendsOn
<1>4. PICK stage \in Stage :
         /\ Begins(p, Sources, e) /\ p.busy_until = Pool.busy_until
         /\ q = StartOrQueue(p, ClockAt(e), stage, e.kind.request_id)
  BY <1>3
<1>5. e \notin GpuEvents
  BY <1>1 DEF GpuEvents, Pending
<1>6. /\ Returns(e, q, Sources, FetchKind) /\ Tends(e, q, p)
      /\ InLine(q, Pool, stage, e.kind.request_id)
      /\ IsIn(q, stage, e.kind.request_id)
  BY <1>1, <1>2, <1>4, <1>5, SomeFetches, SendReturns
<1> QED
  BY <1>1, <1>6 DEF Handled, GoesOn

-----------------------------------------------------------------------------
(* Fetches *)

\* A transfer that does not fail ends when it can, and not in the past; the NIC
\* is booked by the queued model, which has no table.
LEMMA TransferTimes ==
    ASSUME NEW tier \in FetchTier, NEW bytes \in Nat, NEW now \in Nat,
           NEW nic \in Nat, EstimateDuration(tier, bytes) # Fails
    PROVE  /\ EstimateDuration(tier, bytes) \in Nat
           /\ StartOf(nic, now, tier) \in Nat /\ StartOf(nic, now, tier) >= now
           /\ FinishOf(nic, now, tier, bytes) \in Nat
           /\ FinishOf(nic, now, tier, bytes) >= now
           /\ NicAfter(nic, now, tier, bytes) \in Nat
<1>1. /\ Bandwidth[tier] \in Nat /\ BaseLatency[tier] \in Nat /\ NsPerUnit \in Nat
      /\ \A entry \in DOMAIN Calibrated : Calibrated[entry] \in Nat
      /\ Queued => DOMAIN Calibrated = {}
  BY TransferAssumption
<1>2. ASSUME Bandwidth[tier] # 0 PROVE Serialization(tier, bytes) \in Nat
  <2>1. Bandwidth[tier] \in Nat /\ Bandwidth[tier] > 0
    BY <1>1, <1>2
  <2>2. bytes * NsPerUnit \in Nat
    BY <1>1
  <2>3. \A n \in Nat, m \in Nat : m > 0 => n \div m \in Nat
    OBVIOUS
  <2> QED
    BY <2>1, <2>2, <2>3 DEF Serialization
<1>3. CASE <<tier, bytes>> \in DOMAIN Calibrated
  <2>1. EstimateDuration(tier, bytes) \in Nat /\ ~Queued
    BY <1>1, <1>3 DEF EstimateDuration
  <2> QED
    BY <2>1 DEF FinishOf, StartOf, NicAfter
<1>4. CASE <<tier, bytes>> \notin DOMAIN Calibrated
  <2>1. EstimateDuration(tier, bytes) = AnalyticalDuration(tier, bytes)
    BY <1>4 DEF EstimateDuration
  <2>2. Bandwidth[tier] # 0
    BY <2>1 DEF AnalyticalDuration
  <2>3. Serialization(tier, bytes) \in Nat
    BY <1>2, <2>2
  <2>4. EstimateDuration(tier, bytes) \in Nat
    BY <1>1, <2>1, <2>2, <2>3 DEF AnalyticalDuration
  <2>5. StartOf(nic, now, tier) \in Nat /\ StartOf(nic, now, tier) >= now
    BY DEF StartOf, Latest
  <2> QED
    BY <2>3, <2>4, <2>5 DEF FinishOf, NicAfter
<1> QED
  BY <1>3, <1>4

\* An object that a lookup finds.
LEMMA HitParts ==
    ASSUME Inv, Running, NEW r \in Request, NEW k \in Hit(r)
    PROVE  /\ k \in DOMAIN cache.objects
           /\ cache.objects[k].bytes \in Nat
<1>1. k \in DOMAIN cache.objects
  BY DEF Hit, KV!Lookup
<1>2. cache.objects[k] \in KV!KvObject
  BY <1>1, CacheGoodParts DEF Inv, CacheInv
<1> QED
  BY <1>1, <1>2 DEF KV!KvObject

\* An arrival whose KV is fetched first is in the hands of the event that ends
\* the fetch.
LEMMA FetchReturns ==
    ASSUME Inv, NEW e, NEW r, ArrivalOf(e, r), NEW tier \in FetchTier,
           NEW t \in Nat, t >= ClockAt(e),
           NEW done, done = [time_ns |-> t,
                             kind |-> [tag |-> "FetchDone", request_id |-> r]],
           NEW q, q = [Pool EXCEPT !.in_flight[r].pending_fetch_tier = tier,
                                   !.events = <<done>>],
           Commit(e, q)
    PROVE  Handled(e, q)
<1> DEFINE p == [Pool EXCEPT !.in_flight[r].pending_fetch_tier = tier]
           now == ClockAt(e)
<1>1. /\ IsNext(e) /\ e.kind = [tag |-> "RequestArrival", request_id |-> r]
      /\ trace' = trace /\ results' = results /\ runs' = runs /\ policy' = policy
      /\ e.kind.request_id = r /\ e.kind.tag = "RequestArrival"
  BY DEF ArrivalOf
<1>2. /\ ServingInv(Sources, FetchKind) /\ Pool.busy_until = busy_until
      /\ Begins(Pool, Sources, e) /\ now \in Nat /\ e \in queue /\ Running
      /\ r \in Request /\ r \in DOMAIN Pool.in_flight
  BY <1>1, Given
<1>3. tier \in Sources
  BY DEF Sources
<1>4. Begins(p, Sources, e) /\ p.busy_until = busy_until
  BY <1>1, <1>2, <1>3, SourceSet
<1>5. /\ PoolGood(p, Sources, now) /\ p.waiting = waiting
      /\ p.events = <<>> /\ p \in PoolType(Sources)
  BY <1>4 DEF Begins, PoolGood
<1>6. /\ ~HeldIn(p, r) /\ r \in DOMAIN p.in_flight /\ OthersMove(p, Pool, r)
      /\ Pool.waiting = waiting
  BY <1>1, <1>2, <1>4, SomeFetches, BegunParts
<1>7. q = [p EXCEPT !.events = <<done>>]
  OBVIOUS
<1> HIDE DEF p, now
<1>8. /\ q.busy_until = p.busy_until /\ q.in_flight = p.in_flight
      /\ q.waiting = p.waiting /\ q.events = <<done>>
  BY <1>5, <1>7 DEF PoolType
<1>9. /\ q.events \in Seq([time_ns : Nat, kind : FetchKind \cup GpuKind])
      /\ DOMAIN q.events = {1} /\ q.events[1] = done
      /\ done.kind.request_id = r /\ done.kind.tag = "FetchDone" /\ done.time_ns = t
  <2>1. done \in [time_ns : Nat, kind : FetchKind \cup GpuKind]
    BY <1>2 DEF FetchKind
  <2> QED
    BY <1>8, <2>1
<1>10. \A stage \in Stage : \A s :
         /\ WaitsIn(q, stage, s) <=> WaitsIn(p, stage, s)
         /\ ~WorksIn(p, stage, s)
         /\ ~WorksIn(q, stage, s)
  BY <1>5, <1>8, <1>9 DEF WaitsIn, WorksIn, Done
<1>11. Committable(q, Sources, FetchKind, now, r)
  <2>1. /\ q.busy_until \in [Gpu -> Nat] /\ q.in_flight \in Flights(Sources)
        /\ q.waiting \in [Stage -> Seq(Request)]
    BY <1>5, <1>8, PoolParts
  <2>2. Apart(q)
    <3>1. Apart(p) /\ \A stage \in Stage : ~WaitsIn(p, stage, r)
      BY <1>5, <1>6 DEF PoolGood, HeldIn
    <3> QED
      BY <1>8, <1>9, <3>1 DEF Apart, WaitsIn
  <2>3. \A i \in DOMAIN q.events :
           /\ OnTime(q.in_flight, now, q.events[i])
           /\ q.events[i].kind \in GpuKind \/ q.events[i].kind.request_id = r
    BY <1>6, <1>8, <1>9 DEF OnTime, now
  <2>4. \A stage \in Stage : \A s :
           WaitsIn(q, stage, s) => s \in DOMAIN q.in_flight
    BY <1>5, <1>8, <1>10 DEF PoolGood, HeldIn
  <2> QED
    BY <1>9, <2>1, <2>2, <2>3, <2>4 DEF Committable
<1>12. OthersMove(q, Pool, r)
  BY <1>6, <1>8, <1>10 DEF OthersMove
<1>13. Returns(e, q, Sources, FetchKind)
  BY <1>1, <1>6, <1>8, <1>9, <1>11, <1>12 DEF Returns, now
<1>14. Tends(e, q, Pool)
  <2>1. BusyKept(q, Pool, now)
    BY <1>2, <1>4, <1>8 DEF BusyKept
  <2>2. e \notin GpuEvents
    BY <1>1 DEF GpuEvents, Pending
  <2> QED
    BY <1>2, <1>5, <1>8, <2>1, <2>2 DEF Tends, now
<1>15. InLine(q, Pool, "Prefill", r)
  <2>1. \A stage \in Stage : waiting[stage] \in Seq(Request)
    BY <1>2 DEF ServingInv, Types
  <2>2. \A stage \in Stage : RestOf(waiting[stage], waiting[stage])
    <3> TAKE stage \in Stage
    <3> DEFINE w == waiting[stage]
    <3>1. w \in Seq(Request)
      BY <2>1
    <3> HIDE DEF w
    <3>2. Len(w) = Len(w) + 0 /\ \A i \in DOMAIN w : w[i] = w[0 + i]
      BY <3>1
    <3>3. RestOf(w, w)
      BY <3>2 DEF RestOf
    <3> QED
      BY <3>3 DEF w
  <2> QED
    BY <1>5, <1>6, <1>8, <2>2 DEF InLine
<1>16. \E f \in queue' : f.kind = [tag |-> "FetchDone", request_id |-> r]
  <2>1. NewEvent(q, 1) \in queue'
    BY <1>9, CommittedQueue DEF Delivered
  <2>2. NewEvent(q, 1).kind = [tag |-> "FetchDone", request_id |-> r]
    BY <1>9 DEF NewEvent
  <2> QED
    BY <2>1, <2>2
<1> QED
  BY <1>1, <1>13, <1>14, <1>15, <1>16 DEF Handled, GoesOn, Stage

-----------------------------------------------------------------------------
(* The cache in a handler *)

\* What the handler of e does to the cache, the NIC and the counters: it may
\* allocate an id when a prefill is over.
CacheMoves(e) ==
    /\ policy' = policy
    /\ CacheGood(cache')
    /\ \/ cache'.next_kv_id = cache.next_kv_id
       \/ e.kind.tag = "PrefillDone" /\ cache'.next_kv_id = cache.next_kv_id + 1
    /\ nic_busy_until_ns' \in Nat
    /\ stats' \in [DOMAIN NoStats -> Nat]

LEMMA CountedTyped ==
    ASSUME NEW s \in [DOMAIN NoStats -> Nat]
    PROVE  /\ \A fs : Counted(s, fs) \in [DOMAIN NoStats -> Nat]
           /\ \A n \in Nat : Recomputed(s, n) \in [DOMAIN NoStats -> Nat]
           /\ \A n \in Nat : [s EXCEPT !.fetched_bytes = @ + n]
                                \in [DOMAIN NoStats -> Nat]
           /\ \A n \in Nat : [s EXCEPT !.evicted_bytes = @ + n]
                                \in [DOMAIN NoStats -> Nat]
           /\ [s EXCEPT !.pending_fetches = KV!SatSub(@, 1)]
                 \in [DOMAIN NoStats -> Nat]
<1>1. \A f \in DOMAIN NoStats : s[f] \in Nat
  OBVIOUS
<1>2. {"recomputed_tokens", "fetched_bytes", "evicted_bytes", "pending_fetches"}
         \subseteq DOMAIN NoStats
  BY DEF NoStats
<1> DEFINE D == DOMAIN NoStats
<1>3. \A fs : Counted(s, fs) \in [D -> Nat]
  <2> HIDE DEF D
  <2>1. DOMAIN s = D
    BY DEF D
  <2> QED
    BY <2>1 DEF Counted
<1>4. KV!SatSub(s.pending_fetches, 1) \in Nat
  BY <1>1, <1>2 DEF KV!SatSub
<1> QED
  BY <1>1, <1>2, <1>3, <1>4 DEF Recomputed

\* While a request is on its way to a prefill there is an id left for it.
LEMMA IdLeft ==
    ASSUME Inv, PhasesKnown, NEW e \in queue, e.kind.tag = "PrefillDone"
    PROVE  cache.next_kv_id < MaxKvId
<1> DEFINE r == e.kind.request_id
           N == Cardinality(Request)
           U == Cardinality(Unprefilled)
<1>1. Running /\ r \in Request
  BY SomeFetches, EventParts DEF Inv
<1>2. PhaseOf(r) = "Prefill"
  BY <1>1 DEF PhasesKnown, PhaseOfTag
<1>3. r \in Unprefilled /\ Unprefilled \in SUBSET Request
  BY <1>1, <1>2 DEF Unprefilled
<1>4. IsFiniteSet(Unprefilled)
  BY <1>3, ServingAssumption, FS_Subset
<1>5. U \in Nat /\ U # 0
  BY <1>3, <1>4, FS_CardinalityType, FS_EmptySet
<1>6. N \in Nat /\ runs \in 0 .. MaxRuns /\ MaxRuns \in Nat
  BY IdsBounded, CacheRunnerAssumption DEF Inv
<1>7. cache.next_kv_id \in Nat /\ cache.next_kv_id + U <= runs * N
  BY CacheGoodParts DEF Inv, CacheInv, IdsLeft
<1>8. runs * N <= MaxRuns * N
  <2>1. MaxRuns = runs + (MaxRuns - runs) /\ (MaxRuns - runs) \in Nat
    BY <1>6
  <2>2. \A a, b, c \in Nat : (a + b) * c = a * c + b * c /\ b * c \in Nat
    OBVIOUS
  <2>3. MaxRuns * N = runs * N + (MaxRuns - runs) * N
        /\ (MaxRuns - runs) * N \in Nat
    BY <1>6, <2>1, <2>2
  <2> QED
    BY <1>6, <2>3
<1>9. runs * N \in Nat /\ MaxRuns * N \in Nat /\ MaxKvId = MaxRuns * N
  BY <1>6 DEF MaxKvId
<1> QED
  BY <1>5, <1>7, <1>8, <1>9

\* A handler that leaves the cache, or touches an object of it.
LEMMA ArrivalCache ==
    ASSUME Inv, NEW e, NEW r, OnArrival(e, r)
    PROVE  CacheMoves(e)
<1>1. /\ IsNext(e) /\ e.kind = [tag |-> "RequestArrival", request_id |-> r]
      /\ policy' = policy
  BY DEF OnArrival, OnGpuHit, OnFetchHit, OnFetchError, OnMiss, ArrivalOf
<1>2. /\ CacheInv /\ ClockAt(e) \in Nat /\ Running /\ trace \in Traces
      /\ r \in Request
  BY <1>1, Given
<1>3. trace[r].prompt_tokens \in Nat /\ trace[r].new_prompt_tokens \in Nat
  BY <1>2, TraceParts, ServingAssumption
<1>4. /\ CacheGood(cache) /\ nic_busy_until_ns \in Nat
      /\ stats \in [DOMAIN NoStats -> Nat]
  BY <1>2 DEF CacheInv
<1>5. CASE OnGpuHit(e, r)
  <2>1. PICK k \in GpuHit(r) : cache' = KV!Touched(cache, k, ClockAt(e))
    BY <1>5 DEF OnGpuHit
  <2>2. k \in DOMAIN cache.objects
    BY <1>2, <2>1, HitParts DEF GpuHit
  <2>3. CacheGood(cache') /\ cache'.next_kv_id = cache.next_kv_id
    BY <1>2, <1>4, <2>1, <2>2, TouchedGood
  <2>4. stats' \in [DOMAIN NoStats -> Nat]
    <3>1. stats' = Recomputed(Counted(stats, {"hits_gpu"}),
                              trace[r].new_prompt_tokens)
      BY <1>5 DEF OnGpuHit
    <3> QED
      BY <1>3, <1>4, <3>1, CountedTyped
  <2>5. nic_busy_until_ns' = nic_busy_until_ns
    BY <1>5 DEF OnGpuHit
  <2> QED
    BY <1>1, <1>4, <2>3, <2>4, <2>5 DEF CacheMoves
<1>6. CASE OnFetchHit(e, r)
  <2>1. PICK k \in FetchHit(r) :
           /\ EstimateDuration(TierOf(k), cache.objects[k].bytes) # Fails
           /\ nic_busy_until_ns' = NicAfter(nic_busy_until_ns, ClockAt(e),
                                            TierOf(k), cache.objects[k].bytes)
           /\ stats' = [Counted(stats, {"pending_fetches"}) EXCEPT
                          !.fetched_bytes = @ + cache.objects[k].bytes]
    BY <1>6 DEF OnFetchHit
  <2>2. TierOf(k) \in FetchTier /\ cache.objects[k].bytes \in Nat
    BY <1>2, <2>1, HitParts DEF FetchHit
  <2>3. nic_busy_until_ns' \in Nat
    BY <1>2, <1>4, <2>1, <2>2, TransferTimes
  <2>4. stats' \in [DOMAIN NoStats -> Nat]
    BY <1>4, <2>1, <2>2, CountedTyped
  <2>5. cache' = cache
    BY <1>6 DEF OnFetchHit
  <2> QED
    BY <1>1, <1>4, <2>3, <2>4, <2>5 DEF CacheMoves
<1>7. CASE OnFetchError(e, r)
  <2>1. /\ stats' = Recomputed(Counted(stats, {"fetch_errors", "misses"}),
                               trace[r].prompt_tokens)
        /\ cache' = cache /\ nic_busy_until_ns' = nic_busy_until_ns
    BY <1>7 DEF OnFetchError
  <2>2. stats' \in [DOMAIN NoStats -> Nat]
    BY <1>3, <1>4, <2>1, CountedTyped
  <2> QED
    BY <1>1, <1>4, <2>1, <2>2 DEF CacheMoves
<1>8. CASE OnMiss(e, r)
  <2>1. /\ stats' = Recomputed(Counted(stats, {"misses"}), trace[r].prompt_tokens)
        /\ cache' = cache /\ nic_busy_until_ns' = nic_busy_until_ns
    BY <1>8 DEF OnMiss
  <2>2. stats' \in [DOMAIN NoStats -> Nat]
    BY <1>3, <1>4, <2>1, CountedTyped
  <2> QED
    BY <1>1, <1>4, <2>1, <2>2 DEF CacheMoves
<1> QED
  BY <1>5, <1>6, <1>7, <1>8 DEF OnArrival

LEMMA FetchDoneCache ==
    ASSUME Inv, NEW e, OnFetchDone(e)
    PROVE  CacheMoves(e)
<1> DEFINE r == e.kind.request_id
           credit == CreditOf(in_flight[r].pending_fetch_tier)
<1>1. /\ IsNext(e)
      /\ policy' = policy /\ cache' = cache
      /\ nic_busy_until_ns' = nic_busy_until_ns
      /\ stats' = Recomputed([Counted(stats, {credit}) EXCEPT
                                !.pending_fetches = KV!SatSub(@, 1)],
                             trace[r].new_prompt_tokens)
  BY DEF OnFetchDone
<1>2. CacheInv /\ trace \in Traces /\ r \in Request
  BY <1>1, Given
<1>3. trace[r].new_prompt_tokens \in Nat
  BY <1>2, TraceParts, ServingAssumption
<1> HIDE DEF credit
<1>4. Counted(stats, {credit}) \in [DOMAIN NoStats -> Nat]
  BY <1>2, CountedTyped DEF CacheInv
<1>5. [Counted(stats, {credit}) EXCEPT !.pending_fetches = KV!SatSub(@, 1)]
         \in [DOMAIN NoStats -> Nat]
  BY <1>4, CountedTyped
<1>6. stats' \in [DOMAIN NoStats -> Nat]
  BY <1>1, <1>3, <1>5, CountedTyped
<1> QED
  BY <1>1, <1>2, <1>6 DEF CacheMoves, CacheInv

\* place is called with an id that has not been used.
LEMMA PrefillDoneCache ==
    ASSUME Inv, PhasesKnown, NEW e, OnPrefillDone(e)
    PROVE  CacheMoves(e)
<1> DEFINE r == e.kind.request_id
           now == ClockAt(e)
<1>1. /\ IsNext(e) /\ e.kind.tag = "PrefillDone" /\ policy' = policy
      /\ nic_busy_until_ns' = nic_busy_until_ns /\ Store(r, now)
  BY DEF OnPrefillDone
<1>2. CacheInv /\ trace \in Traces /\ r \in Request /\ e \in queue /\ now \in Nat
  BY <1>1, Given
<1>3. cache.next_kv_id < MaxKvId
  BY <1>1, <1>2, IdLeft
<1>4. trace[r].prompt_tokens \in Tokens /\ trace[r].session_id \in Session
  BY <1>2, TraceParts
<1>5. /\ CacheGood(cache) /\ nic_busy_until_ns \in Nat
      /\ stats \in [DOMAIN NoStats -> Nat]
  BY <1>2 DEF CacheInv
<1>6. CASE trace[r].prompt_tokens = 0
  <2>1. cache' = cache /\ stats' = stats
    BY <1>1, <1>6 DEF Store
  <2> QED
    BY <1>1, <1>5, <2>1 DEF CacheMoves
<1>7. CASE trace[r].prompt_tokens # 0
  <2>1. PICK a \in Storing(r, now) :
           /\ cache' = a.cache
           /\ stats' = IF a.tier = None THEN Counted(stats, {"placement_errors"})
                       ELSE [stats EXCEPT
                               !.evicted_bytes = @ + KV!Bytes(cache, a.evicted)]
    BY <1>1, <1>7 DEF Store
  <2>2. PICK b \in Builds : policy = b.policy
    BY <1>2 DEF CacheInv
  <2>3. a \in KV!Placements(b.policy, cache, trace[r].session_id,
                            trace[r].prompt_tokens, now)
    BY <2>1, <2>2 DEF Storing
  <2> HIDE DEF now
  <2>4. /\ CacheGood(a.cache) /\ a.cache.next_kv_id = cache.next_kv_id + 1
        /\ KV!Bytes(cache, a.evicted) \in Nat
    BY <1>2, <1>3, <1>4, <1>5, <2>3, StoredGood
  <2>5. stats' \in [DOMAIN NoStats -> Nat]
    BY <1>5, <2>1, <2>4, CountedTyped
  <2> QED
    BY <1>1, <1>5, <2>1, <2>4, <2>5 DEF CacheMoves
<1> QED
  BY <1>6, <1>7

LEMMA DecodeDoneCache ==
    ASSUME Inv, NEW e, OnDecodeDone(e)
    PROVE  CacheMoves(e)
BY DEF OnDecodeDone, Inv, CacheInv, CacheMoves, cacheVars

-----------------------------------------------------------------------------
(* Every handler *)

LEMMA ArrivalHandled ==
    ASSUME Inv, NEW e, NEW r, OnArrival(e, r)
    PROVE  \E q : Handled(e, q)
<1>1. /\ ArrivalOf(e, r) /\ IsNext(e)
      /\ e.kind = [tag |-> "RequestArrival", request_id |-> r]
      /\ e.kind.request_id = r
  <2>1. ArrivalOf(e, r)
    BY DEF OnArrival, OnGpuHit, OnFetchHit, OnFetchError, OnMiss
  <2>2. IsNext(e) /\ e.kind = [tag |-> "RequestArrival", request_id |-> r]
    BY <2>1 DEF ArrivalOf
  <2> QED
    BY <2>1, <2>2
<1>2. /\ CacheInv /\ ClockAt(e) \in Nat /\ Running /\ trace \in Traces
      /\ r \in Request /\ Begins(Pool, Sources, e) /\ r \in DOMAIN Pool.in_flight
  BY <1>1, Given
<1>3. trace[r].prompt_tokens \in Tokens /\ trace[r].new_prompt_tokens \in Tokens
  BY <1>2, TraceParts
<1>4. CASE OnGpuHit(e, r)
  <2>1. Commit(e, RemainingPrefill(Pool, ClockAt(e), r))
    BY <1>4 DEF OnGpuHit
  <2>2. SendsOn(Pool, e, RemainingPrefill(Pool, ClockAt(e), r))
    BY <1>1, <1>2, <1>3, RemainingSends
  <2> QED
    BY <1>1, <2>1, <2>2, ArrivalSent
<1>5. CASE OnFetchHit(e, r)
  <2>1. PICK k \in FetchHit(r) :
           LET bytes == cache.objects[k].bytes
               now   == ClockAt(e)
               done  == [time_ns |-> FinishOf(nic_busy_until_ns, now, TierOf(k), bytes),
                         kind    |-> [tag |-> "FetchDone", request_id |-> r]]
           IN  /\ EstimateDuration(TierOf(k), bytes) # Fails
               /\ Commit(e, [Pool EXCEPT
                               !.in_flight[r].pending_fetch_tier = TierOf(k),
                               !.events = <<done>>])
    BY <1>5 DEF OnFetchHit
  <2> DEFINE t == FinishOf(nic_busy_until_ns, ClockAt(e), TierOf(k),
                           cache.objects[k].bytes)
             done == [time_ns |-> t,
                      kind    |-> [tag |-> "FetchDone", request_id |-> r]]
             q == [Pool EXCEPT !.in_flight[r].pending_fetch_tier = TierOf(k),
                               !.events = <<done>>]
  <2>2. TierOf(k) \in FetchTier /\ cache.objects[k].bytes \in Nat
    BY <1>2, <2>1, HitParts DEF FetchHit
  <2>3. t \in Nat /\ t >= ClockAt(e)
    BY <1>2, <2>1, <2>2, TransferTimes DEF CacheInv
  <2>4. Commit(e, q)
    BY <2>1
  <2> HIDE DEF t
  <2>5. Handled(e, q)
    BY <1>1, <2>2, <2>3, <2>4, FetchReturns
  <2> QED
    BY <2>5
<1>6. CASE OnFetchError(e, r) \/ OnMiss(e, r)
  <2>1. Commit(e, Prefilling(Pool, ClockAt(e), r, trace[r].prompt_tokens))
    BY <1>6 DEF OnFetchError, OnMiss
  <2>2. SendsOn(Pool, e, Prefilling(Pool, ClockAt(e), r, trace[r].prompt_tokens))
    BY <1>1, <1>2, <1>3, PrefillingSends
  <2> QED
    BY <1>1, <2>1, <2>2, ArrivalSent
<1> QED
  BY <1>4, <1>5, <1>6 DEF OnArrival

\* The end of a fetch looks at the queues like the end of a stage, although it
\* gives no GPU back.
LEMMA FetchDoneHandled ==
    ASSUME Inv, NEW e, OnFetchDone(e)
    PROVE  \E q : Handled(e, q)
<1> DEFINE r == e.kind.request_id
           now == ClockAt(e)
           p1 == [Pool EXCEPT !.in_flight[r].pending_fetch_tier = None]
           p2 == RemainingPrefill(p1, now, r)
<1>1. /\ IsNext(e) /\ e.kind.tag = "FetchDone"
      /\ trace' = trace /\ results' = results /\ runs' = runs /\ policy' = policy
  BY DEF OnFetchDone
<1>2. PICK p3 \in TryAssign(p2, now, "Decode") :
         \E p4 \in TryAssign(p3, now, "Prefill") : Commit(e, p4)
  BY DEF OnFetchDone
<1>3. PICK q \in TryAssign(p3, now, "Prefill") : Commit(e, q)
  BY <1>2
<1>4. /\ ServingInv(Sources, FetchKind) /\ trace \in Traces /\ r \in Request
      /\ Begins(Pool, Sources, e) /\ Pool.busy_until = busy_until
      /\ r \in DOMAIN Pool.in_flight /\ ClockAt(e) \in Nat
  BY <1>1, Given
<1>5. Begins(p1, Sources, e) /\ p1.busy_until = busy_until
  BY <1>4, SomeFetches, SourceSet
<1>6. trace[r].new_prompt_tokens \in Tokens
  BY <1>4, TraceParts
<1> HIDE DEF p1
<1>7. r \in DOMAIN p1.in_flight
  BY <1>4, <1>5 DEF Begins
<1>8. SendsOn(p1, e, p2)
  BY <1>4, <1>5, <1>6, <1>7, RemainingSends
<1>9. PICK o : \E stage \in Stage :
         /\ Begins(o, Sources, e) /\ o.busy_until = p1.busy_until
         /\ p2 = StartOrQueue(o, ClockAt(e), stage, r)
  BY <1>8 DEF SendsOn
<1>10. PICK stage \in Stage :
         /\ Begins(o, Sources, e) /\ o.busy_until = p1.busy_until
         /\ p2 = StartOrQueue(o, ClockAt(e), stage, r)
  BY <1>9
<1>11. e \notin GpuEvents /\ o.busy_until = busy_until
  BY <1>1, <1>5, <1>10 DEF GpuEvents, Pending
<1>12. "Prefill" \in Stage /\ "Decode" \in Stage /\ "Prefill" # "Decode"
  BY DEF Stage
<1>13. /\ Returns(e, q, Sources, FetchKind) /\ Tends(e, q, o)
       /\ InLine(q, Pool, stage, r) /\ IsIn(q, stage, r)
  <2> HIDE DEF p2
  <2> QED
    BY <1>1, <1>2, <1>3, <1>4, <1>10, <1>11, <1>12, SomeFetches, SendAndTryReturns
<1> QED
  BY <1>1, <1>13 DEF Handled, GoesOn

LEMMA PrefillDoneHandled ==
    ASSUME Inv, NEW e, OnPrefillDone(e)
    PROVE  \E q : Handled(e, q)
<1> DEFINE r == e.kind.request_id
           now == ClockAt(e)
           p1 == Released(Pool, e.kind.gpu, now)
           p2 == StartOrQueue(p1, now, "Decode", r)
<1>1. /\ IsNext(e) /\ e.kind.tag = "PrefillDone"
      /\ trace' = trace /\ results' = results /\ runs' = runs /\ policy' = policy
  BY DEF OnPrefillDone
<1>2. PICK p3 \in TryAssign(p2, now, "Prefill") :
         \E p4 \in TryAssign(p3, now, "Decode") : Commit(e, p4)
  BY DEF OnPrefillDone
<1>3. PICK q \in TryAssign(p3, now, "Decode") : Commit(e, q)
  BY <1>2
<1>4. ServingInv(Sources, FetchKind) /\ e \in GpuEvents
  BY <1>1, Given DEF GpuEvents, Pending
<1>5. /\ Begins(p1, Sources, e)
      /\ p1.busy_until = [busy_until EXCEPT ![e.kind.gpu] = ClockAt(e)]
  BY <1>1, <1>4, SomeFetches, ReleasedBegins
<1>6. p2 = StartOrQueue(p1, ClockAt(e), "Decode", r)
  OBVIOUS
<1>7. "Prefill" \in Stage /\ "Decode" \in Stage /\ "Prefill" # "Decode"
  BY DEF Stage
<1> HIDE DEF p1, p2
<1>8. /\ Returns(e, q, Sources, FetchKind) /\ Tends(e, q, p1)
      /\ InLine(q, Pool, "Decode", r) /\ IsIn(q, "Decode", r)
  BY <1>1, <1>2, <1>3, <1>4, <1>5, <1>6, <1>7, SomeFetches, SendAndTryReturns
<1> QED
  BY <1>1, <1>7, <1>8 DEF Handled, GoesOn

LEMMA DecodeDoneHandled ==
    ASSUME Inv, NEW e, OnDecodeDone(e)
    PROVE  \E q : Handled(e, q)
<1>1. /\ IsNext(e) /\ e.kind.tag = "DecodeDone" /\ DecodeDone(e)
      /\ runs' = runs /\ policy' = policy
  BY DEF OnDecodeDone
<1>2. ServingInv(Sources, FetchKind)
  BY DEF Inv
<1>3. PICK q, o : /\ Returns(e, q, Sources, FetchKind) /\ Tends(e, q, o)
                  /\ InLine(q, Pool, "Decode", e.kind.request_id)
                  /\ e.kind.request_id \in DOMAIN results'
  BY <1>1, <1>2, SomeFetches, DecodeDoneReturns
<1> QED
  BY <1>1, <1>3 DEF Handled, GoesOn, Stage

LEMMA EveryHandlerReturns ==
    ASSUME Inv, PhasesKnown, HandleEvent
    PROVE  \E e, q : Handled(e, q) /\ CacheMoves(e)
<1>1. ASSUME NEW e \in queue, NEW r \in Request, OnArrival(e, r)
      PROVE  CacheMoves(e) /\ \E q : Handled(e, q)
  BY <1>1, ArrivalCache, ArrivalHandled
<1>2. ASSUME NEW e \in queue, OnFetchDone(e)
      PROVE  CacheMoves(e) /\ \E q : Handled(e, q)
  BY <1>2, FetchDoneCache, FetchDoneHandled
<1>3. ASSUME NEW e \in queue, OnPrefillDone(e)
      PROVE  CacheMoves(e) /\ \E q : Handled(e, q)
  BY <1>3, PrefillDoneCache, PrefillDoneHandled
<1>4. ASSUME NEW e \in queue, OnDecodeDone(e)
      PROVE  CacheMoves(e) /\ \E q : Handled(e, q)
  BY <1>4, DecodeDoneCache, DecodeDoneHandled
<1> QED
  BY <1>1, <1>2, <1>3, <1>4 DEF HandleEvent

LEMMA HandledParts ==
    ASSUME Inv, NEW e, NEW q, Handled(e, q)
    PROVE  /\ ServingInv(Sources, FetchKind) /\ e \in queue /\ Running
           /\ e.kind.request_id \in Request
           /\ \A t \in Stage : ~Waits(t, e.kind.request_id)
           /\ trace' = trace /\ role' = role /\ runs' = runs
           /\ waiting' = q.waiting /\ q.waiting \in [Stage -> Seq(Request)]
<1>1. ServingInv(Sources, FetchKind) /\ Returns(e, q, Sources, FetchKind)
      /\ runs' = runs
  BY DEF Inv, Handled
<1>2. e \in queue /\ trace' = trace /\ Commit(e, q)
      /\ q.waiting \in [Stage -> Seq(Request)]
  BY <1>1 DEF Returns, IsNext, Committable
<1>3. waiting' = q.waiting /\ role' = role
  BY <1>2 DEF Commit
<1> QED
  BY <1>1, <1>2, <1>3, SomeFetches, EventParts

-----------------------------------------------------------------------------
(* The phases of the requests *)

\* The part of the invariant that says where everybody is.
Whereabouts == ServingInv(Sources, FetchKind)

LEMMA Known == Whereabouts => PhasesKnown
BY SomeFetches, PhasesAreKnown DEF Whereabouts

LEMMA KnownNext == Whereabouts' => PhasesKnown'
<1>1. Whereabouts => PhasesKnown
  BY Known
<1> QED
  BY <1>1, PTL

\* A request of an event is where the event's tag says, and goes where its
\* handler sends it.
LEMMA HandlerMoves ==
    ASSUME Inv, PhasesKnown, PhasesKnown', NEW e, NEW q, Handled(e, q)
    PROVE  /\ PhaseOf(e.kind.request_id) = PhaseOfTag[e.kind.tag]
           /\ e.kind.tag \in {"RequestArrival", "FetchDone", "PrefillDone",
                              "DecodeDone"}
           /\ \/ /\ e.kind.tag = "RequestArrival"
                 /\ PhaseOf(e.kind.request_id)'
                       \in {"Fetching", "PrefillQueued", "Prefill",
                            "DecodeQueued", "Decode"}
              \/ /\ e.kind.tag = "FetchDone"
                 /\ PhaseOf(e.kind.request_id)'
                       \in {"PrefillQueued", "Prefill", "DecodeQueued", "Decode"}
              \/ /\ e.kind.tag = "PrefillDone"
                 /\ PhaseOf(e.kind.request_id)' \in {"DecodeQueued", "Decode"}
              \/ /\ e.kind.tag = "DecodeDone"
                 /\ PhaseOf(e.kind.request_id)' = "Done"
           /\ \A s \in Request \ {e.kind.request_id} :
                 \/ PhaseOf(s)' = PhaseOf(s)
                 \/ PhaseOf(s) = "PrefillQueued" /\ PhaseOf(s)' = "Prefill"
                 \/ PhaseOf(s) = "DecodeQueued" /\ PhaseOf(s)' = "Decode"
<1> DEFINE r == e.kind.request_id
<1>1. ServingInv(Sources, FetchKind) /\ Returns(e, q, Sources, FetchKind)
      /\ GoesOn(e, q) /\ r \in Request /\ Running /\ trace' = trace
  BY HandledParts DEF Inv, Handled
<1>2. PhasesMoved(e, q)
  BY <1>1, SomeFetches, CommitMoves
<1>3. /\ PhaseOf(r) = PhaseOfTag[e.kind.tag]
      /\ \A t \in Stage : IsIn(q, t, r) => PhaseOf(r)' \in {WaitingPhase(t), t}
      /\ r \in DOMAIN results' => PhaseOf(r)' = "Done"
      /\ \A s \in Request \ {r} :
            \/ PhaseOf(s)' = PhaseOf(s)
            \/ \E t \in Stage : PhaseOf(s) = WaitingPhase(t) /\ PhaseOf(s)' = t
  BY <1>2 DEF PhasesMoved
<1>4. \A s \in Request \ {r} :
         \/ PhaseOf(s)' = PhaseOf(s)
         \/ PhaseOf(s) = "PrefillQueued" /\ PhaseOf(s)' = "Prefill"
         \/ PhaseOf(s) = "DecodeQueued" /\ PhaseOf(s)' = "Decode"
  BY <1>3 DEF Stage, WaitingPhase
<1>5. \A t \in Stage : IsIn(q, t, r) =>
         /\ PhaseOf(r)' \in {"PrefillQueued", "Prefill", "DecodeQueued", "Decode"}
         /\ t = "Decode" => PhaseOf(r)' \in {"DecodeQueued", "Decode"}
  BY <1>3 DEF Stage, WaitingPhase
<1>6. ASSUME NEW f \in queue', f.kind = [tag |-> "FetchDone", request_id |-> r]
      PROVE  PhaseOf(r)' = "Fetching"
  <2>1. Running' /\ f.kind.request_id = r /\ f.kind.tag = "FetchDone"
    BY <1>1, <1>6 DEF Running
  <2>2. PhaseOf(r)' = PhaseOfTag[f.kind.tag]
    BY <1>1, <2>1 DEF PhasesKnown
  <2> QED
    BY <2>1, <2>2, PhasesOfEvents
<1>7. "Decode" \in Stage
  BY DEF Stage
<1> QED
  BY <1>1, <1>3, <1>4, <1>5, <1>6, <1>7 DEF GoesOn

-----------------------------------------------------------------------------
(* The invariant *)

LEMMA Begun == Init => Inv
<1> SUFFICES ASSUME Init PROVE Inv
  OBVIOUS
<1>1. PICK b \in Builds :
         /\ NewServing(b.role) /\ policy = b.policy
         /\ cache = [KV!NewCache EXCEPT !.capacities = CapacityOf(b)]
  BY DEF Init
<1>2. ServingInv(Sources, FetchKind)
  BY <1>1, NewServingGood
<1>3. /\ trace = <<>> /\ busy_until = [g \in Gpu |-> 0]
      /\ waiting = EmptyQueues /\ now_ns = 0 /\ runs = 0
      /\ nic_busy_until_ns = 0 /\ stats = NoStats
  BY <1>1 DEF NewServing, NewSimulator, Init
<1>4. WorkInv
  BY <1>3 DEF WorkInv, WorkConserving, BusyAttended, EmptyQueues
<1>5. ~Running /\ runs \in 0 .. MaxRuns
  BY <1>3, CacheRunnerAssumption DEF Running
<1>6. CacheGood(cache) /\ cache.next_kv_id = 0
  BY <1>1, BuiltGood
<1>7. stats \in [DOMAIN NoStats -> Nat]
  BY <1>3 DEF NoStats
<1>8. IdsLeft
  <2>1. Unprefilled = {}
    BY <1>3 DEF Unprefilled, PhaseOf
  <2>2. Cardinality(Unprefilled) = 0
    BY <2>1, FS_EmptySet
  <2> QED
    BY <1>3, <1>6, <2>2, IdsBounded DEF IdsLeft
<1> QED
  BY <1>1, <1>2, <1>3, <1>4, <1>5, <1>6, <1>7, <1>8 DEF Inv, CacheInv

\* A new run brings as many ids as it has requests.
LEMMA IdsForRun ==
    ASSUME Inv, NEW tr \in Traces, StartRun(tr)
    PROVE  IdsLeft'
<1> DEFINE N == Cardinality(Request)
<1>1. cache' = cache /\ runs' = runs + 1 /\ runs \in Nat
  BY CacheRunnerAssumption DEF StartRun, Inv
<1>2. Unprefilled' \in SUBSET Request /\ Unprefilled \in SUBSET Request
  BY DEF Unprefilled
<1>3. IsFiniteSet(Unprefilled') /\ IsFiniteSet(Unprefilled)
      /\ Cardinality(Unprefilled') <= N
  BY <1>2, ServingAssumption, FS_Subset
<1>4. Cardinality(Unprefilled') \in Nat /\ Cardinality(Unprefilled) \in Nat
      /\ N \in Nat
  BY <1>3, IdsBounded, FS_CardinalityType
<1>5. cache.next_kv_id \in Nat
      /\ cache.next_kv_id + Cardinality(Unprefilled) <= runs * N
  BY CacheGoodParts DEF Inv, CacheInv, IdsLeft
<1>6. (runs + 1) * N = runs * N + N /\ runs * N \in Nat
  BY <1>1, <1>4
<1>7. cache.next_kv_id + Cardinality(Unprefilled') <= (runs + 1) * N
  BY <1>3, <1>4, <1>5, <1>6
<1> QED
  BY <1>1, <1>7 DEF IdsLeft

\* The request whose prefill is over has had its id; nobody is sent back.
LEMMA IdsAfterHandler ==
    ASSUME Inv, PhasesKnown, PhasesKnown', NEW e, NEW q, Handled(e, q), CacheMoves(e)
    PROVE  IdsLeft'
<1> DEFINE r == e.kind.request_id
           N == Cardinality(Request)
<1>1. r \in Request /\ runs' = runs
  BY HandledParts
<1>2. /\ Unprefilled' \subseteq Unprefilled
      /\ e.kind.tag = "PrefillDone" =>
            r \in Unprefilled /\ Unprefilled' \subseteq Unprefilled \ {r}
  BY <1>1, HandlerMoves DEF Unprefilled, PhaseOfTag
<1>3. Unprefilled \in SUBSET Request
  BY DEF Unprefilled
<1>4. IsFiniteSet(Unprefilled)
  BY <1>3, ServingAssumption, FS_Subset
<1>5. /\ IsFiniteSet(Unprefilled')
      /\ Cardinality(Unprefilled') <= Cardinality(Unprefilled)
  BY <1>2, <1>4, FS_Subset
<1>6. Cardinality(Unprefilled) \in Nat /\ Cardinality(Unprefilled') \in Nat
  BY <1>4, <1>5, FS_CardinalityType
<1>7. e.kind.tag = "PrefillDone"
         => Cardinality(Unprefilled') <= Cardinality(Unprefilled) - 1
  <2> SUFFICES ASSUME e.kind.tag = "PrefillDone"
               PROVE  Cardinality(Unprefilled') <= Cardinality(Unprefilled) - 1
    OBVIOUS
  <2>1. /\ IsFiniteSet(Unprefilled \ {r})
        /\ Cardinality(Unprefilled \ {r}) = Cardinality(Unprefilled) - 1
    BY <1>2, <1>4, FS_RemoveElement
  <2>2. Unprefilled' \in SUBSET (Unprefilled \ {r})
    BY <1>2
  <2>3. Cardinality(Unprefilled') <= Cardinality(Unprefilled \ {r})
    BY <2>1, <2>2, FS_Subset
  <2> QED
    BY <2>1, <2>3
<1>8. /\ cache.next_kv_id \in Nat /\ runs \in Nat
      /\ cache.next_kv_id + Cardinality(Unprefilled) <= runs * N
  BY CacheGoodParts, CacheRunnerAssumption DEF Inv, CacheInv, IdsLeft
<1>9. \/ cache'.next_kv_id = cache.next_kv_id
      \/ e.kind.tag = "PrefillDone" /\ cache'.next_kv_id = cache.next_kv_id + 1
  BY DEF CacheMoves
<1>10. runs * N \in Nat
  BY <1>8, IdsBounded
<1>11. cache'.next_kv_id + Cardinality(Unprefilled') <= runs * N
  BY <1>5, <1>6, <1>7, <1>8, <1>9, <1>10
<1> QED
  BY <1>1, <1>11 DEF IdsLeft

LEMMA Kept == Inv /\ [Next]_vars => Inv'
<1> SUFFICES ASSUME Inv, [Next]_vars PROVE Inv'
  OBVIOUS
<1>1. Whereabouts /\ PhasesKnown
  BY Known DEF Inv, Whereabouts
<1>2. ASSUME NEW tr \in Traces, StartRun(tr) PROVE Inv'
  <2>1. StartServing(tr) /\ runs < MaxRuns /\ runs' = runs + 1 /\ stats' = NoStats
        /\ policy' = policy /\ cache' = cache
        /\ nic_busy_until_ns' = nic_busy_until_ns
    BY <1>2 DEF StartRun
  <2>2. ServingInv(Sources, FetchKind) /\ runs \in 0 .. MaxRuns
    BY DEF Inv
  <2>3. ServingInv(Sources, FetchKind)'
    BY <2>1, <2>2, SomeFetches, TraceParts, StartServingGood
  <2>4. /\ trace' = tr /\ role' = role /\ now_ns' = 0 /\ busy_until' = busy_until
        /\ waiting' = EmptyQueues
    BY <2>1 DEF StartServing
  <2>5. runs' \in 0 .. MaxRuns /\ runs' # 0 /\ (runs' <= 1 => runs = 0)
    BY <2>1, <2>2, CacheRunnerAssumption
  <2>6. runs' <= 1 => WorkInv'
    BY <2>4, <2>5 DEF Inv, WorkInv, WorkConserving, BusyAttended, EmptyQueues
  <2>7. CacheInv'
    <3>1. NoStats \in [DOMAIN NoStats -> Nat]
      BY DEF NoStats
    <3> QED
      BY <2>1, <3>1 DEF Inv, CacheInv
  <2>8. IdsLeft'
    BY <1>2, IdsForRun
  <2> QED
    BY <2>3, <2>4, <2>5, <2>6, <2>7, <2>8 DEF Inv
<1>3. ASSUME HandleEvent PROVE Inv'
  <2>1. PICK e, q : Handled(e, q) /\ CacheMoves(e)
    BY <1>1, <1>3, EveryHandlerReturns
  <2>2. /\ ServingInv(Sources, FetchKind) /\ Running
        /\ trace' = trace /\ role' = role /\ runs' = runs
    BY <2>1, HandledParts
  <2>3. Returns(e, q, Sources, FetchKind)
    BY <2>1 DEF Handled
  <2>4. PICK o : Tends(e, q, o)
    BY <2>1 DEF Handled
  <2>5. ServingInv(Sources, FetchKind)'
    BY <2>2, <2>3, SomeFetches, CommitKeeps
  <2>6. runs <= 1 => WorkInv'
    BY <2>2, <2>3, <2>4, SomeFetches, CommitTends DEF Inv
  <2>7. Running'
    BY <2>2 DEF Running
  <2>8. PhasesKnown'
    BY <2>5, KnownNext DEF Whereabouts
  <2>9. IdsLeft'
    BY <1>1, <2>1, <2>8, IdsAfterHandler
  <2>10. CacheInv'
    BY <2>1 DEF CacheMoves, CacheInv, Inv
  <2> QED
    BY <2>2, <2>5, <2>6, <2>7, <2>9, <2>10 DEF Inv
<1>4. CASE UNCHANGED vars
  <2>1. /\ UNCHANGED simVars /\ UNCHANGED clusterVars /\ UNCHANGED cacheVars
        /\ runs' = runs /\ policy' = policy
    BY <1>4 DEF vars
  <2>2. ServingInv(Sources, FetchKind)' /\ (Running <=> Running')
        /\ (WorkInv => WorkInv')
    BY <2>1 DEF Inv, ServingInv, Types, Numbered, InOnePlace, TimelineHonest,
                Accounted, NotStarted, TraceOK, Running, Pending, Waits, WorkInv,
                WorkConserving, BusyAttended, GpuEvents, Serves,
                simVars, clusterVars
  <2>3. CacheInv'
    BY <2>1 DEF Inv, CacheInv, cacheVars
  <2>4. IdsLeft'
    <3>1. Unprefilled' = Unprefilled
      BY <2>1 DEF Unprefilled, PhaseOf, Waits, simVars, clusterVars
    <3> QED
      BY <2>1, <3>1 DEF Inv, IdsLeft, cacheVars
  <2> QED
    BY <2>1, <2>2, <2>3, <2>4 DEF Inv, clusterVars
<1> QED
  BY <1>2, <1>3, <1>4 DEF Next

\* The invariant holds in every reachable state.
LEMMA Always == Spec => []Inv
BY Begun, Kept, PTL DEF Spec

\* The counters of hits, the NIC's booking, the pending fetches and the cache
\* have their types, and every object its own id, however often run is called:
\* no prefill wants an id when none is left.
THEOREM TypeCorrect == Spec => []TypeOK
<1>1. Inv => TypeOK
  <2> SUFFICES ASSUME Inv PROVE TypeOK
    OBVIOUS
  <2>1. CacheInv /\ in_flight \in Flights(Sources)
    BY DEF Inv, ServingInv, Types
  <2>2. \A r \in DOMAIN in_flight :
           in_flight[r].pending_fetch_tier \in FetchTier \cup {None}
    BY <2>1 DEF Flights, FlightOf, Sources
  <2> QED
    BY <2>1, <2>2, CacheGoodParts DEF CacheInv, TypeOK
<1> QED
  BY <1>1, Always, PTL

\* Serving keeps the cache well formed: its counters exact, no tier beyond its
\* size, no key that finds another session's KV, whatever the policy and
\* however requests, fetches and placements follow one another.
THEOREM CacheStaysSound == Spec => []CacheSound
<1>1. Inv => CacheSound
  BY CacheGoodSound DEF Inv, CacheInv
<1> QED
  BY <1>1, Always, PTL

\* No request is lost or duplicated between the event queue, the waiting queues
\* and the results, fetches under way included.
THEOREM NobodyIsLost == Spec => []OneWhere
<1>1. Inv => OneWhere
  BY SomeFetches, PlacedOnce DEF Inv
<1> QED
  BY <1>1, Always, PTL

\* No event is due in the past, the end of a fetch included, and the times a
\* result reports are those at which the stages of its request began and ended.
THEOREM TimelinesAreHonest == Spec => []TimelineHonest
<1>1. Inv => TimelineHonest
  BY DEF Inv, ServingInv
<1> QED
  BY <1>1, Always, PTL

\* In the first run of a runner no request waits for a wake-up that nobody will
\* give, although a fetch may end while every GPU is busy.
THEOREM QueuesAreAttended == Spec => [](runs <= 1 => WorkConserving)
<1>1. Inv => (runs <= 1 => WorkConserving)
  BY DEF Inv, WorkInv
<1> QED
  BY <1>1, Always, PTL

-----------------------------------------------------------------------------
(* Nobody is overtaken *)

\* Two requests that wait in one queue leave it in the order they entered it, or
\* together: the end of a fetch puts its request behind those who wait.
THEOREM NobodyJumpsTheQueue == Spec => QueuesAreFifo
<1>1. Inv /\ [Next]_vars
        => [runs' = runs => \A stage \in Stage : ~Overtakes(stage)]_vars
  <2> SUFFICES ASSUME Inv, Next, runs' = runs, NEW t \in Stage
               PROVE  ~Overtakes(t)
    OBVIOUS
  <2>1. HandleEvent
    <3>1. \A tr \in Traces : ~StartRun(tr)
      BY DEF StartRun, Inv
    <3> QED
      BY <3>1 DEF Next
  <2>2. PhasesKnown
    BY Known DEF Inv, Whereabouts
  <2>3. PICK e, q : Handled(e, q)
    BY <2>1, <2>2, EveryHandlerReturns
  <2>4. /\ ServingInv(Sources, FetchKind) /\ e.kind.request_id \in Request
        /\ \A s \in Stage : ~Waits(s, e.kind.request_id)
        /\ waiting' = q.waiting /\ q.waiting \in [Stage -> Seq(Request)]
    BY <2>3, HandledParts
  <2>5. PICK stage \in Stage : InLine(q, Pool, stage, e.kind.request_id)
    BY <2>3 DEF Handled
  <2> QED
    BY <2>4, <2>5, NobodyOvertaken
<1> QED
  BY <1>1, Always, PTL DEF Spec, QueuesAreFifo

-----------------------------------------------------------------------------
(* The runner implements RequestLifecycle *)

\* What the invariant says of the phases of RequestLifecycle.
PhasesSeen == PhasesKnown /\ (runs <= 1 => SomebodyServes)

LEMMA Seen == Inv => PhasesSeen
BY SomeFetches, PhasesAreKnown, SomebodyDoesServe DEF Inv, WorkInv, PhasesSeen

\* A runner that has been built has served nobody yet.
LEMMA BeginsNew == Init => Lifecycle!Init
<1> SUFFICES ASSUME Init PROVE Lifecycle!Init
  OBVIOUS
<1>1. trace = <<>>
  BY DEF Init, NewServing
<1>2. \A r \in Request : PhaseOf(r) = "New"
  BY <1>1 DEF PhaseOf
<1>3. Staffed \subseteq {"Prefill", "Decode"}
  BY DEF Staffed, Stage
<1> QED
  BY <1>2, <1>3 DEF Lifecycle!Init

\* run, called first, submits its batch.
LEMMA FirstRunSubmits ==
    ASSUME Inv, PhasesSeen', NEW tr \in Traces, StartRun(tr), runs' <= 1
    PROVE  Lifecycle!Submit
<1>1. StartServing(tr) /\ runs' = runs + 1 /\ runs \in 0 .. MaxRuns
  BY DEF StartRun, Inv
<1>2. runs = 0
  BY <1>1, CacheRunnerAssumption
<1>3. trace = <<>>
  BY <1>2 DEF Inv, Running
<1>4. \A r \in Request : PhaseOf(r) = "New"
  BY <1>3 DEF PhaseOf
<1>5. trace' = tr /\ queue' = Arrivals(tr) /\ role' = role
  BY <1>1 DEF StartServing
<1>6. Running'
  BY <1>5, TraceParts DEF Running
<1>7. ASSUME NEW r \in Request PROVE PhaseOf(r)' = "Arriving"
  <2> DEFINE e == [time_ns |-> tr[r].arrival_ns,
                   seq     |-> Cardinality({s \in Request : ArrivesBefore(tr, s, r)}),
                   kind    |-> [tag |-> "RequestArrival", request_id |-> r]]
  <2>1. e \in Arrivals(tr) /\ e.kind.request_id = r /\ e.kind.tag = "RequestArrival"
    BY DEF Arrivals
  <2> HIDE DEF e
  <2>2. PhaseOf(r)' = PhaseOfTag[e.kind.tag]
    BY <1>5, <1>6, <2>1 DEF PhasesSeen, PhasesKnown
  <2> QED
    BY <2>1, <2>2, PhasesOfEvents
<1>8. Staffed' = Staffed
  BY <1>5 DEF Staffed, Serves
<1> QED
  BY <1>4, <1>7, <1>8 DEF Lifecycle!Submit

\* Every phase is one of RequestLifecycle.
PhasesTyped == [r \in Request |-> PhaseOf(r)] \in [Request -> Lifecycle!Phase]

LEMMA PhasesAreTyped == Inv /\ PhasesSeen /\ Running => PhasesTyped
<1> SUFFICES ASSUME Inv, PhasesSeen, Running, NEW r \in Request
             PROVE  PhaseOf(r) \in Lifecycle!Phase
  BY DEF PhasesTyped
<1>1. CASE r \in DOMAIN results
  BY <1>1 DEF PhasesSeen, PhasesKnown, Lifecycle!Phase
<1>2. CASE \E t \in Stage : Waits(t, r)
  <2>1. PICK t \in Stage : Waits(t, r)
    BY <1>2
  <2>2. PhaseOf(r) = WaitingPhase(t)
    BY <2>1 DEF PhasesSeen, PhasesKnown
  <2> QED
    BY <2>2 DEF WaitingPhase, Lifecycle!Phase
<1>3. CASE \E e \in queue : e.kind.request_id = r
  <2>1. PICK e \in queue : e.kind.request_id = r
    BY <1>3
  <2>2. PhaseOf(r) = PhaseOfTag[e.kind.tag]
    BY <2>1 DEF PhasesSeen, PhasesKnown
  <2>3. e.kind \in ArrivalKind \cup FetchKind \cup GpuKind
    BY SomeFetches, EventParts DEF Inv
  <2>4. e.kind.tag \in {"RequestArrival", "FetchDone", "PrefillDone", "DecodeDone"}
    BY <2>3 DEF ArrivalKind, FetchKind, GpuKind
  <2> QED
    BY <2>2, <2>4 DEF PhaseOfTag, Lifecycle!Phase, Lifecycle!AtWork
<1> QED
  BY <1>1, <1>2, <1>3 DEF PhasesSeen, PhasesKnown

LEMMA PhasesTypedNext == Inv' /\ PhasesSeen' /\ Running' => PhasesTyped'
<1>1. Inv /\ PhasesSeen /\ Running => PhasesTyped
  BY PhasesAreTyped
<1> QED
  BY <1>1, PTL

\* A handler moves the request of its event on, past a fetch or a prefill that
\* it is spared, and others at most from a queue to work, in every run.
LEMMA HandlerMovesOne ==
    ASSUME Inv, PhasesSeen, PhasesSeen', NEW e, NEW q, Handled(e, q)
    PROVE  Lifecycle!MovesOn(e.kind.request_id)
<1> DEFINE r == e.kind.request_id
<1>1. r \in Request /\ PhasesKnown /\ PhasesKnown'
  BY HandledParts DEF PhasesSeen
<1>2. /\ PhaseOf(r) \in Lifecycle!AtWork
      /\ PhaseOf(r)' \in Lifecycle!After(PhaseOf(r))
  BY <1>1, HandlerMoves DEF PhaseOfTag, Lifecycle!AtWork, Lifecycle!After
<1>3. \A s \in Request \ {r} :
         PhaseOf(s)' = PhaseOf(s) \/ Lifecycle!Starts(PhaseOf(s), PhaseOf(s)')
  BY <1>1, HandlerMoves DEF Lifecycle!Starts
<1> HIDE DEF r
<1>4. Lifecycle!MovesOn(r)
  BY <1>1, <1>2, <1>3 DEF Lifecycle!MovesOn
<1> QED
  BY <1>4 DEF r

\* In the first run, nobody is left waiting for a GPU while nobody works.
LEMMA HandlerServes ==
    ASSUME Inv, Inv', PhasesSeen, PhasesSeen', HandleEvent, runs' <= 1
    PROVE  Lifecycle!Serve
<1>1. PICK e, q : Handled(e, q)
  BY EveryHandlerReturns DEF PhasesSeen
<1>2. /\ Running /\ e.kind.request_id \in Request
      /\ trace' = trace /\ role' = role
  BY <1>1, HandledParts
<1>3. PhasesTyped'
  BY <1>2, PhasesTypedNext DEF Running
<1>4. \E r \in Request : Lifecycle!MovesOn(r)
  BY <1>1, <1>2, HandlerMovesOne
<1>5. Lifecycle!SomebodyWorks'
  BY DEF PhasesSeen, SomebodyServes, Lifecycle!SomebodyWorks, WaitingPhase,
         Lifecycle!WaitingFor, Lifecycle!AtWork
<1>6. Staffed' = Staffed
  BY <1>2 DEF Staffed, Serves
<1> QED
  BY <1>3, <1>4, <1>5, <1>6 DEF PhasesTyped, Lifecycle!Serve

\* Every step of a runner that runs once is a step of RequestLifecycle with
\* reuse, and so the runner implements it: whatever a hit spares a request, one
\* request at a time moves on, and nobody waits for a stage that has a GPU while
\* nobody works.
THEOREM RunnerImplementsLifecycle == Spec /\ [](runs <= 1) => ImplementsLifecycle
<1>1. Inv /\ Inv' /\ PhasesSeen /\ PhasesSeen' /\ (runs <= 1)' /\ [Next]_vars
        => [Lifecycle!Next]_Lifecycle!lcVars
  <2> SUFFICES ASSUME Inv, Inv', PhasesSeen, PhasesSeen', (runs <= 1)', [Next]_vars
               PROVE  [Lifecycle!Next]_Lifecycle!lcVars
    OBVIOUS
  <2>1. CASE \E tr \in Traces : StartRun(tr)
    <3>1. Lifecycle!Submit
      BY <2>1, FirstRunSubmits
    <3> QED
      BY <3>1 DEF Lifecycle!Next
  <2>2. CASE HandleEvent
    <3>1. Lifecycle!Serve
      BY <2>2, HandlerServes
    <3> QED
      BY <3>1 DEF Lifecycle!Next
  <2>3. CASE UNCHANGED vars
    <3>1. /\ queue' = queue /\ trace' = trace /\ role' = role
          /\ waiting' = waiting /\ results' = results
      BY <2>3 DEF vars, simVars, clusterVars
    <3>2. \A r \in Request : PhaseOf(r)' = PhaseOf(r)
      BY <3>1 DEF PhaseOf, Waits
    <3>3. Staffed' = Staffed
      BY <3>1 DEF Staffed, Serves
    <3> QED
      BY <3>2, <3>3 DEF Lifecycle!lcVars
  <2> QED
    BY <2>1, <2>2, <2>3 DEF Next
<1>2. Inv => PhasesSeen
  BY Seen
<1> QED
  BY <1>1, <1>2, BeginsNew, Always, PTL
      DEF Spec, ImplementsLifecycle, Lifecycle!Spec

-----------------------------------------------------------------------------
(* The runner's cache is one that Placement describes *)

\* Serving does nothing to a cache but place what a prefill leaves behind and
\* record the access of a hit: what Placement says of such caches is true of
\* the one in use.
THEOREM CacheIsPlaced == Spec => KV!PlaceSpec
<1>1. Init => KV!PlaceInit
  BY DEF Init, KV!PlaceInit
<1>2. Inv /\ [Next]_vars => [KV!PlaceNext]_cache
  <2> SUFFICES ASSUME Inv, [Next]_vars PROVE KV!PlaceNext \/ cache' = cache
    BY DEF KV!PlaceNext
  <2>1. CASE UNCHANGED vars \/ \E tr \in Traces : StartRun(tr)
    BY <2>1 DEF StartRun, vars, cacheVars
  <2>2. ASSUME NEW e \in queue, NEW r \in Request, OnArrival(e, r)
        PROVE  KV!PlaceNext \/ cache' = cache
    <3>1. IsNext(e) /\ e.kind = [tag |-> "RequestArrival", request_id |-> r]
      BY <2>2 DEF OnArrival, OnGpuHit, OnFetchHit, OnFetchError, OnMiss, ArrivalOf
    <3>2. CacheInv /\ ClockAt(e) \in Nat /\ Running
      BY <3>1, Given
    <3>3. CASE OnGpuHit(e, r)
      <4>1. PICK k \in GpuHit(r) : cache' = KV!Touched(cache, k, ClockAt(e))
        BY <3>3 DEF OnGpuHit
      <4>2. k \in DOMAIN cache.objects
        BY <3>2, <4>1, HitParts DEF GpuHit
      <4>3. k \in KV!KvId
        BY <3>2, <4>2, CacheGoodParts DEF CacheInv
      <4> QED
        BY <3>2, <4>1, <4>2, <4>3 DEF KV!PlaceNext, KV!UpdateAccess
    <3>4. CASE OnFetchHit(e, r) \/ OnFetchError(e, r) \/ OnMiss(e, r)
      BY <3>4 DEF OnFetchHit, OnFetchError, OnMiss
    <3> QED
      BY <2>2, <3>3, <3>4 DEF OnArrival
  <2>3. ASSUME NEW e \in queue, OnPrefillDone(e)
        PROVE  KV!PlaceNext \/ cache' = cache
    <3> DEFINE r == e.kind.request_id
               now == ClockAt(e)
               n == trace[r].prompt_tokens
               s == trace[r].session_id
    <3>1. IsNext(e) /\ e.kind.tag = "PrefillDone" /\ Store(r, now)
      BY <2>3 DEF OnPrefillDone
    <3>2. CacheInv /\ trace \in Traces /\ r \in Request /\ now \in Nat
      BY <3>1, Given
    <3>3. n \in Tokens /\ s \in Session /\ policy \in {b.policy : b \in Builds}
      BY <3>2, TraceParts DEF CacheInv
    <3>4. cache.next_kv_id < MaxKvId
      BY <3>1, IdLeft, Known DEF Inv, Whereabouts
    <3>5. CASE n = 0
      BY <3>1, <3>5 DEF Store
    <3>6. CASE n # 0
      <4>1. \E a \in Storing(r, now) : cache' = a.cache
        BY <3>1, <3>6 DEF Store
      <4>2. KV!Place(policy, s, n, now)
        BY <3>4, <4>1 DEF KV!Place, Storing
      <4> HIDE DEF now, n, s
      <4> QED
        BY <3>2, <3>3, <4>2 DEF KV!PlaceNext
    <3> QED
      BY <3>5, <3>6
  <2>4. ASSUME NEW e \in queue, OnFetchDone(e) \/ OnDecodeDone(e)
        PROVE  cache' = cache
    BY <2>4 DEF OnFetchDone, OnDecodeDone, cacheVars
  <2> QED
    BY <2>1, <2>2, <2>3, <2>4 DEF Next, HandleEvent
<1> QED
  BY <1>1, <1>2, Always, PTL DEF Spec, KV!PlaceSpec
=============================================================================
