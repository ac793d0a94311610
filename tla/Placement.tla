----------------------------- MODULE Placement ------------------------------
(***************************************************************************)
(* The placement policies of policy/*.rs: where a newly computed KV object *)
(* goes, and what is evicted to make room.  All of them place on one node, *)
(* target_node.                                                            *)
(*                                                                         *)
(* A policy tries tiers one after the other.  An attempt, on its way       *)
(* through a policy, is the cache so far, the ids evicted so far, and the  *)
(* tier that took the object, None until one has.  objects_in_tier lists a *)
(* hash map's values, so that the victim among the objects with the oldest *)
(* access is anyone's guess: a policy maps a cache to a set of attempts.   *)
(***************************************************************************)
EXTENDS CacheState, Transfer

CONSTANTS
    TargetNode,     \* target_node of the policies
    Policies,       \* the policies that are used
    GpuThreshold,   \* SizeAware::gpu_threshold_bytes
    PrefillTime,    \* ComputeModel::prefill_time_ns, by prefix length
    BytesPerToken,  \* ModelProfile::kv_bytes_per_token
    MaxInt,         \* i128::MAX
    Capacities,     \* capacities the cells may have
    None

Tier == {"Gpu", "Cpu", "RemoteMemory", "RemoteSsd"}

Policy == {"LocalGpuLru", "CpuOffloadLru", "RemoteLru", "SizeAware",
           "NetworkAwarePlacement"}

On(tier) == <<TargetNode, tier>>

ASSUME PlacementAssumption ==
    /\ \A tier \in Tier : On(tier) \in Cell
    /\ Policies \subseteq Policy
    /\ GpuThreshold \in Nat
    /\ Prefix \subseteq Nat
    /\ PrefillTime \in [Prefix -> Nat]
    /\ BytesPerToken \in Nat \ {0}
    /\ \A prefix_tokens \in Prefix : BytesPerToken * prefix_tokens \in ByteSize
    /\ MaxInt \in Nat
    /\ Capacities \subseteq [Cell -> Nat]
    /\ None \notin Tier

KvBytes(prefix_tokens) == BytesPerToken * prefix_tokens

-----------------------------------------------------------------------------
(* Making room *)

LastAccess(c, k) == c.objects[k].last_access_ns

\* Mutant of Victims: one object at most.
VictimsAtMostOne(c, cell, bytes) ==
    IF Fits(c, cell, bytes) \/ ObjectsInTier(c, cell) = {} THEN {{}}
    ELSE {{v} : v \in {w \in ObjectsInTier(c, cell) :
                         \A k \in ObjectsInTier(c, cell) :
                            LastAccess(c, w) <= LastAccess(c, k)}}

\* The sets of objects that the eviction loop may have removed from the cell
\* when it stops: the least recently accessed, as few as give room for bytes,
\* or all of them.
Victims(c, cell, bytes) ==
    LET there == ObjectsInTier(c, cell)
        Enough(K) == Fits(Removed(c, K), cell, bytes)
    IN  {K \in SUBSET there :
            /\ \A v \in K, k \in there \ K : LastAccess(c, v) <= LastAccess(c, k)
            /\ Enough(K) \/ K = there
            /\ K # {} =>
                 \E v \in K :
                    /\ \A k \in K : LastAccess(c, k) <= LastAccess(c, v)
                    /\ ~Enough(K \ {v})}

\* Mutant of Put: the next id is used, not the one that was allocated.
PutAtNextId(a, tier, o) ==
    IF Fits(a.cache, On(tier), o.bytes)
    THEN [cache   |-> Inserted(a.cache, a.cache.next_kv_id,
                               [o EXCEPT !.location = On(tier)]),
          evicted |-> a.evicted,
          tier    |-> tier]
    ELSE a

\* The attempt after the object o has been put on the tier, where it fits.
Put(a, tier, o) ==
    LET k == a.cache.next_kv_id - 1
    IN  IF Fits(a.cache, On(tier), o.bytes)
        THEN [cache   |-> Inserted(a.cache, k, [o EXCEPT !.location = On(tier)]),
              evicted |-> a.evicted,
              tier    |-> tier]
        ELSE a

\* Mutant of Evicting: what an earlier tier lost is forgotten.
EvictingForgetting(a, K) ==
    [cache |-> Removed(a.cache, K), evicted |-> K, tier |-> None]

Evicting(a, K) ==
    [cache |-> Removed(a.cache, K), evicted |-> a.evicted \cup K, tier |-> None]

\* Evict from the tier until o fits, and put it there if it does.
TryEvicting(a, tier, o) ==
    IF a.tier # None THEN {a}
    ELSE {Put(Evicting(a, K), tier, o) : K \in Victims(a.cache, On(tier), o.bytes)}

\* Put o on the tier if there is room as it is.
TryAsItIs(a, tier, o) == {IF a.tier # None THEN a ELSE Put(a, tier, o)}

\* Mutant of TryIfLargeEnough: without the capacity short-circuit.
TryWhateverItsSize(a, tier, o) == TryEvicting(a, tier, o)

\* Leave alone a tier that is too small for o even when it is empty.
TryIfLargeEnough(a, tier, o) ==
    IF a.cache.capacities[On(tier)] < o.bytes THEN {a} ELSE TryEvicting(a, tier, o)

-----------------------------------------------------------------------------
(* The score of NetworkAwarePlacement *)

\* The i128 arithmetic of a release build.
Wrap(n) ==
    IF n < -MaxInt - 1 THEN n + 2 * MaxInt + 2
    ELSE IF n > MaxInt THEN n - 2 * MaxInt - 2
    ELSE n

FetchCost(tier, bytes) ==
    IF tier = "Gpu" THEN 0
    ELSE IF EstimateDuration(tier, bytes) = Fails THEN MaxInt
    ELSE EstimateDuration(tier, bytes)

PressurePenalty(tier, bytes) ==
    CASE tier = "Gpu"          -> 0
      [] tier = "Cpu"          -> bytes \div 100
      [] tier = "RemoteMemory" -> bytes \div 10
      [] OTHER                 -> bytes

UtilityForTier(tier, bytes, prefix_tokens) ==
    Wrap(Wrap(PrefillTime[prefix_tokens] - FetchCost(tier, bytes))
           - PressurePenalty(tier, bytes))

\* Tiers in the order in which they are listed, for the stable sort.
Listed == [Gpu |-> 1, Cpu |-> 2, RemoteMemory |-> 3, RemoteSsd |-> 4]

\* The i-th tier in descending order of utility, as a set of one.
Ranked(o, i) ==
    LET U(tier) == UtilityForTier(tier, o.bytes, o.prefix_tokens)
        Ahead(s, t) == U(s) > U(t) \/ (U(s) = U(t) /\ Listed[s] < Listed[t])
    IN  {t \in Tier : Cardinality({s \in Tier : Ahead(s, t)}) = i - 1}

-----------------------------------------------------------------------------
(* The policies *)

LocalGpuLru(start, o) ==
    UNION {TryAsItIs(a, "Cpu", o) : a \in TryEvicting(start, "Gpu", o)}

CpuOffloadLru(start, o) ==
    UNION {TryEvicting(a, "Cpu", o) : a \in TryEvicting(start, "Gpu", o)}

RemoteLru(start, o) == TryEvicting(start, "RemoteMemory", o)

SizeAware(start, o) ==
    TryEvicting(start, IF o.bytes <= GpuThreshold THEN "Gpu" ELSE "Cpu", o)

TryRanked(as, i, o) ==
    UNION {UNION {TryIfLargeEnough(a, tier, o) : tier \in Ranked(o, i)} : a \in as}

NetworkAware(start, o) ==
    TryRanked(TryRanked(TryRanked(TryRanked({start}, 1, o), 2, o), 3, o), 4, o)

\* What place may do with o, when an id has been allocated for it.
Attempts(policy, c, o) ==
    LET start == [cache |-> c, evicted |-> {}, tier |-> None]
    IN  CASE policy = "LocalGpuLru"           -> LocalGpuLru(start, o)
          [] policy = "CpuOffloadLru"         -> CpuOffloadLru(start, o)
          [] policy = "RemoteLru"             -> RemoteLru(start, o)
          [] policy = "SizeAware"             -> SizeAware(start, o)
          [] policy = "NetworkAwarePlacement" -> NetworkAware(start, o)

NewObject(session_id, prefix_tokens, now_ns) ==
    [session_id     |-> session_id,
     prefix_tokens  |-> prefix_tokens,
     bytes          |-> KvBytes(prefix_tokens),
     location       |-> Missing,
     last_access_ns |-> now_ns]

Allocated(c) == [c EXCEPT !.next_kv_id = @ + 1]

\* alloc_kv_id, and then place.
Placements(policy, c, session_id, prefix_tokens, now_ns) ==
    Attempts(policy, Allocated(c), NewObject(session_id, prefix_tokens, now_ns))

-----------------------------------------------------------------------------
(* A cache that a policy fills and that hits touch *)

PlaceInit == \E capacities \in Capacities :
                cache = [NewCache EXCEPT !.capacities = capacities]

Place(policy, session_id, prefix_tokens, now_ns) ==
    /\ cache.next_kv_id < MaxKvId
    /\ \E a \in Placements(policy, cache, session_id, prefix_tokens, now_ns) :
          cache' = a.cache

PlaceNext ==
    \/ \E policy \in Policies, session_id \in Session,
          prefix_tokens \in Prefix, now_ns \in Time :
            Place(policy, session_id, prefix_tokens, now_ns)
    \/ \E k \in KvId, now_ns \in Time : UpdateAccess(k, now_ns)

PlaceSpec == PlaceInit /\ [][PlaceNext]_cache

-----------------------------------------------------------------------------
(* What must hold *)

\* The utility of a tier in exact arithmetic.  That of a tier from which
\* nothing can be fetched is below every other.
Better(s, t, o) ==
    LET Exact(tier) == PrefillTime[o.prefix_tokens] - FetchCost(tier, o.bytes)
                         - PressurePenalty(tier, o.bytes)
    IN  Exact(s) > Exact(t) \/ (Exact(s) = Exact(t) /\ Listed[s] < Listed[t])

\* The tiers that a policy may choose for o, and which one it prefers.
Choices(policy, o) ==
    CASE policy = "LocalGpuLru"   -> {"Gpu"}
      [] policy = "CpuOffloadLru" -> {"Gpu", "Cpu"}
      [] policy = "RemoteLru"     -> {"RemoteMemory"}
      [] policy = "SizeAware"     ->
            {IF o.bytes > GpuThreshold THEN "Cpu" ELSE "Gpu"}
      [] policy = "NetworkAwarePlacement" -> Tier

Prefers(policy, s, t, o) ==
    IF policy = "NetworkAwarePlacement" THEN Better(s, t, o)
                                        ELSE Listed[s] < Listed[t]

LargeEnough(policy, o) ==
    {tier \in Choices(policy, o) : cache.capacities[On(tier)] >= o.bytes}

\* What any placement may do next.
Upcoming ==
    IF cache.next_kv_id < MaxKvId
    THEN Policies \X Session \X Prefix \X Time
    ELSE {}

\* Whatever happened before, a policy puts an object on the tier it prefers
\* among those that could hold it if they were empty: eviction always makes
\* the room it is meant to make, and a placement fails, or falls back, only
\* for an object that is larger than a whole tier.  For
\* NetworkAwarePlacement it is the tier of the highest utility.
PlacesOnBestTier ==
    \A call \in Upcoming :
        LET o == NewObject(call[2], call[3], call[4])
            large == LargeEnough(call[1], o)
        IN  \A a \in Placements(call[1], cache, call[2], call[3], call[4]) :
               /\ large # {} => /\ a.tier \in large
                                /\ \A t \in large \ {a.tier} :
                                      Prefers(call[1], a.tier, t, o)
               /\ large = {} => a.tier = None \/ call[1] = "LocalGpuLru"

\* NetworkAwarePlacement evicts only from the tier that then takes the object
\* (the capacity short-circuit): nothing when it falls through to a tier with
\* room, and nothing when no tier is large enough.
EvictsWhereItPlaces ==
    \A call \in Upcoming :
        call[1] = "NetworkAwarePlacement" =>
            \A a \in Placements(call[1], cache, call[2], call[3], call[4]) :
                \A k \in a.evicted :
                    a.tier # None /\ cache.objects[k].location = On(a.tier)

\* The object that was placed is the one a lookup of its key finds, even when
\* older objects with that key were evicted on the way, or were not.
PlacedIsFound ==
    \A call \in Upcoming :
        \A a \in Placements(call[1], cache, call[2], call[3], call[4]) :
            a.tier # None =>
                Lookup(a.cache, <<call[2], call[3]>>) = {cache.next_kv_id}
=============================================================================
