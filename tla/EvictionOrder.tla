---------------------------- MODULE EvictionOrder ----------------------------
(***************************************************************************)
(* CacheAwareRunner with a history of when each KV object was last used,   *)
(* which the policies know only as far as on_arrival tells the cache: an   *)
(* object is used when a prefill leaves it behind and when a request hits  *)
(* it, on whatever tier.                                                   *)
(***************************************************************************)
EXTENDS CacheAwareRunner

VARIABLE used   \* for every cached object, the run and the time of its last use

\* The object that the next event hits, if it is an arrival.
HitNow ==
    UNION {Hit(e.kind.request_id) :
             e \in {f \in Pending("RequestArrival") : IsNext(f)}}

Placed == DOMAIN cache'.objects \ DOMAIN cache.objects

Uses ==
    used' = [k \in DOMAIN cache'.objects |->
               IF k \in HitNow \cup Placed THEN <<runs, now_ns'>> ELSE used[k]]

OrderInit == Init /\ used = <<>>

OrderNext == Next /\ Uses

OrderSpec == OrderInit /\ [][OrderNext]_<<vars, used>>

OrderFairSpec == OrderSpec /\ WF_<<vars, used>>(HandleEvent /\ Uses)

-----------------------------------------------------------------------------
(* What must hold *)

UsedBefore(j, k) ==
    \/ used[j][1] < used[k][1]
    \/ used[j][1] = used[k][1] /\ used[j][2] < used[k][2]

\* In this step the object v is evicted from the tier, and an object that has
\* not been used since v was stays there.
EvictsInUse(tier) ==
    \E k \in DOMAIN cache.objects \cap DOMAIN cache'.objects,
       v \in DOMAIN cache.objects \ DOMAIN cache'.objects :
        /\ cache.objects[k].location = KV!On(tier)
        /\ cache.objects[v].location = KV!On(tier)
        /\ UsedBefore(k, v)

\* "Eviction uses LRU within each tier independently" (cpu_offload_lru.rs:7-8):
\* what is evicted from a tier was not used later than what stays there,
\* however arrivals, prefills and fetches interleave.
EvictsLeastRecentlyUsed ==
    [][\A tier \in KV!Tier : ~EvictsInUse(tier)]_<<vars, used>>
=============================================================================
