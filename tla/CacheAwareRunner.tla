-------------------------- MODULE CacheAwareRunner --------------------------
(***************************************************************************)
(* CacheAwareRunner of serving/cache_runner.rs: a request that finds the   *)
(* KV of its session's previous turns in the cache prefills only what is   *)
(* new.  KV on a GPU is used at once, KV elsewhere is fetched first, and   *)
(* every prefill leaves the KV of its whole prompt behind, where a         *)
(* placement policy puts it.                                               *)
(*                                                                         *)
(* Composes Serving (GPUs and queues), Placement over CacheState (the      *)
(* cache) and Transfer (the fetches).                                      *)
(***************************************************************************)
EXTENDS Serving, Transfer

CONSTANTS
    Session,
    Traces,         \* the batches of requests that run may be called with
    MaxRuns,        \* bound: how often run is called on one runner
    Node,           \* node ids
    Builds,         \* what it may be built with: placement policy, roles of the
                    \* GPUs and sizes of the nodes' memories
    TargetNode,     \* the node of the policy
    Missing,
    GpuThreshold,
    BytesPerToken,
    MaxInt

CacheTier == {"Gpu", "Cpu", "LocalSsd", "RemoteMemory", "RemoteSsd"}

Cell == Node \X CacheTier

\* The capacities that new gives the tiers of the nodes: remote tiers are as
\* large as the node's own CPU memory and SSD.
CapacityOf(b) ==
    [cell \in Cell |->
        LET node == b.memory[cell[1]]
        IN  CASE cell[2] = "Gpu"                     -> node.hbm
              [] cell[2] \in {"Cpu", "RemoteMemory"} -> node.cpu_mem
              [] OTHER                               -> node.local_ssd]

\* Every prefill allocates one id.
MaxKvId == MaxRuns * Cardinality(Request)

VARIABLES
    runs,
    policy,             \* the placement policy, which never changes
    cache,              \* CacheState
    nic_busy_until_ns,  \* QueuedTransferModel's
    stats               \* CacheHitStats and the three byte and token counters

KV ==
    INSTANCE Placement
        WITH Prefix <- Tokens, ByteSize <- Nat, Time <- Nat,
             Policies <- {b.policy : b \in Builds},
             Capacities <- {CapacityOf(b) : b \in Builds}

\* What the runner reads of a request is there.
IsRequest(q) ==
    /\ q.session_id \in Session
    /\ q.prompt_tokens \in Tokens /\ q.new_prompt_tokens \in Tokens
    /\ q.arrival_ns \in Nat /\ q.output_tokens \in Nat

ASSUME CacheRunnerAssumption ==
    /\ Request # {}
    /\ \A tr \in Traces : DOMAIN tr = Request /\ \A r \in Request : IsRequest(tr[r])
    /\ MaxRuns \in Nat
    /\ Builds \subseteq [policy : KV!Policy, role : [Gpu -> WorkerRole],
                         memory : [Node -> [hbm : Nat, cpu_mem : Nat,
                                            local_ssd : Nat]]]
    /\ TargetNode \in Node
    /\ Missing \notin Cell /\ None \notin CacheTier
    /\ GpuThreshold \in Nat /\ BytesPerToken \in Nat \ {0} /\ MaxInt \in Nat

cacheVars == <<cache, nic_busy_until_ns, stats>>

vars == <<simVars, clusterVars, runs, policy, cacheVars>>

NoStats ==
    [hits_gpu |-> 0, hits_cpu |-> 0, hits_remote |-> 0, misses |-> 0,
     fetch_errors |-> 0, placement_errors |-> 0, pending_fetches |-> 0,
     evicted_bytes |-> 0, recomputed_tokens |-> 0, fetched_bytes |-> 0]

\* The counters fs, each increased by one.
Counted(s, fs) == [f \in DOMAIN s |-> IF f \in fs THEN s[f] + 1 ELSE s[f]]

Init ==
    /\ runs = 0
    /\ \E b \in Builds :
          /\ NewServing(b.role)
          /\ policy = b.policy
          /\ cache = [KV!NewCache EXCEPT !.capacities = CapacityOf(b)]
    /\ nic_busy_until_ns = 0
    /\ stats = NoStats

\* The cache stays warm, and so does the transfer model.
StartRun(tr) ==
    /\ runs < MaxRuns
    /\ runs' = runs + 1
    /\ StartServing(tr)
    /\ stats' = NoStats
    /\ UNCHANGED <<policy, cache, nic_busy_until_ns>>

-----------------------------------------------------------------------------
(* Arrivals *)

ReusedPrefixTokens(r) ==
    KV!SatSub(trace[r].prompt_tokens, trace[r].new_prompt_tokens)

\* The object that an arriving request finds, if any.
Hit(r) ==
    {k \in KV!Lookup(cache, <<trace[r].session_id, ReusedPrefixTokens(r)>>) :
        ReusedPrefixTokens(r) > 0 /\ cache.objects[k].location # Missing}

TierOf(k) == cache.objects[k].location[2]

\* The hits that on_arrival can use: local SSD is not read.
GpuHit(r) == {k \in Hit(r) : TierOf(k) = "Gpu"}

FetchHit(r) == {k \in Hit(r) : TierOf(k) \in FetchTier}

\* The arrival r still needs a prefill of so many tokens.
Prefilling(p, now, r, tokens) ==
    StartOrQueue([p EXCEPT !.in_flight[r].prefill_tokens = tokens],
                 now, "Prefill", r)

\* start_or_queue_remaining_prefill
RemainingPrefill(p, now, r) ==
    IF trace[r].new_prompt_tokens = 0
    THEN StartOrQueue(p, now, "Decode", r)
    ELSE Prefilling(p, now, r, trace[r].new_prompt_tokens)

Recomputed(s, tokens) == [s EXCEPT !.recomputed_tokens = @ + tokens]

ArrivalOf(e, r) ==
    /\ IsNext(e)
    /\ e.kind = [tag |-> "RequestArrival", request_id |-> r]
    /\ UNCHANGED <<trace, results, runs, policy>>

OnGpuHit(e, r) ==
    /\ ArrivalOf(e, r)
    /\ Commit(e, RemainingPrefill(Pool, ClockAt(e), r))
    /\ \E k \in GpuHit(r) : cache' = KV!Touched(cache, k, ClockAt(e))
    /\ stats' = Recomputed(Counted(stats, {"hits_gpu"}), trace[r].new_prompt_tokens)
    /\ UNCHANGED nic_busy_until_ns

\* handle_fetch schedules the end of the transfer.
OnFetchHit(e, r) ==
    /\ ArrivalOf(e, r)
    /\ \E k \in FetchHit(r) :
          LET bytes == cache.objects[k].bytes
              now   == ClockAt(e)
              done  == [time_ns |-> FinishOf(nic_busy_until_ns, now, TierOf(k), bytes),
                        kind    |-> [tag |-> "FetchDone", request_id |-> r]]
          IN  /\ EstimateDuration(TierOf(k), bytes) # Fails
              /\ Commit(e, [Pool EXCEPT
                              !.in_flight[r].pending_fetch_tier = TierOf(k),
                              !.events = <<done>>])
              /\ nic_busy_until_ns' =
                    NicAfter(nic_busy_until_ns, now, TierOf(k), bytes)
              /\ stats' = [Counted(stats, {"pending_fetches"}) EXCEPT
                             !.fetched_bytes = @ + bytes]
    /\ UNCHANGED cache

\* Mutant of OnFetchError: the fetch stays pending.
OnFetchErrorPending(e, r) ==
    /\ ArrivalOf(e, r)
    /\ \E k \in FetchHit(r) :
          EstimateDuration(TierOf(k), cache.objects[k].bytes) = Fails
    /\ Commit(e, Prefilling(Pool, ClockAt(e), r, trace[r].prompt_tokens))
    /\ stats' = Recomputed(
         Counted(stats, {"fetch_errors", "misses", "pending_fetches"}),
         trace[r].prompt_tokens)
    /\ UNCHANGED <<cache, nic_busy_until_ns>>

\* degrade_to_miss: the fetch was pending for as long as the estimate took.
OnFetchError(e, r) ==
    /\ ArrivalOf(e, r)
    /\ \E k \in FetchHit(r) :
          EstimateDuration(TierOf(k), cache.objects[k].bytes) = Fails
    /\ Commit(e, Prefilling(Pool, ClockAt(e), r, trace[r].prompt_tokens))
    /\ stats' = Recomputed(Counted(stats, {"fetch_errors", "misses"}),
                           trace[r].prompt_tokens)
    /\ UNCHANGED <<cache, nic_busy_until_ns>>

\* Mutant of OnMiss: the KV is placed before it has been computed.
OnMissPlacing(e, r) ==
    /\ ArrivalOf(e, r)
    /\ GpuHit(r) = {} /\ FetchHit(r) = {}
    /\ Commit(e, Prefilling(Pool, ClockAt(e), r, trace[r].prompt_tokens))
    /\ \E a \in KV!Placements(policy, cache, trace[r].session_id,
                              trace[r].prompt_tokens, ClockAt(e)) :
          cache' = a.cache
    /\ stats' = Recomputed(Counted(stats, {"misses"}), trace[r].prompt_tokens)
    /\ UNCHANGED nic_busy_until_ns

\* Mutant of OnMiss: only the new tokens are counted.
OnMissCountingNew(e, r) ==
    /\ ArrivalOf(e, r)
    /\ GpuHit(r) = {} /\ FetchHit(r) = {}
    /\ Commit(e, Prefilling(Pool, ClockAt(e), r, trace[r].prompt_tokens))
    /\ stats' = Recomputed(Counted(stats, {"misses"}), trace[r].new_prompt_tokens)
    /\ UNCHANGED <<cache, nic_busy_until_ns>>

OnMiss(e, r) ==
    /\ ArrivalOf(e, r)
    /\ GpuHit(r) = {} /\ FetchHit(r) = {}
    /\ Commit(e, Prefilling(Pool, ClockAt(e), r, trace[r].prompt_tokens))
    /\ stats' = Recomputed(Counted(stats, {"misses"}), trace[r].prompt_tokens)
    /\ UNCHANGED <<cache, nic_busy_until_ns>>

OnArrival(e, r) ==
    \/ OnGpuHit(e, r)
    \/ OnFetchHit(e, r)
    \/ OnFetchError(e, r)
    \/ OnMiss(e, r)

-----------------------------------------------------------------------------
(* The other events *)

CreditOf(tier) == IF tier = "Cpu" THEN "hits_cpu" ELSE "hits_remote"

OnFetchDone(e) ==
    /\ IsNext(e)
    /\ e.kind.tag = "FetchDone"
    /\ LET now  == ClockAt(e)
           r    == e.kind.request_id
           tier == in_flight[r].pending_fetch_tier
           p1   == [Pool EXCEPT !.in_flight[r].pending_fetch_tier = None]
           p2   == RemainingPrefill(p1, now, r)
       IN  /\ \E p3 \in TryAssign(p2, now, "Decode") :
              \E p4 \in TryAssign(p3, now, "Prefill") : Commit(e, p4)
           /\ stats' = Recomputed(
                [Counted(stats, {CreditOf(tier)}) EXCEPT
                   !.pending_fetches = KV!SatSub(@, 1)],
                trace[r].new_prompt_tokens)
    /\ UNCHANGED <<trace, results, runs, policy, cache, nic_busy_until_ns>>

\* What place does with the KV of r's prompt.  An Err loses the list of the
\* objects it has evicted.
Storing(r, now) ==
    KV!Placements(policy, cache, trace[r].session_id, trace[r].prompt_tokens, now)

Store(r, now) ==
    IF trace[r].prompt_tokens = 0
    THEN UNCHANGED <<cache, stats>>
    ELSE \E a \in Storing(r, now) :
            /\ cache' = a.cache
            /\ stats' = IF a.tier = None THEN Counted(stats, {"placement_errors"})
                        ELSE [stats EXCEPT
                                !.evicted_bytes = @ + KV!Bytes(cache, a.evicted)]

\* Mutant of OnPrefillDone: only the decode queue is looked at.
OnPrefillDoneOnlyDecode(e) ==
    /\ IsNext(e)
    /\ e.kind.tag = "PrefillDone"
    /\ LET now == ClockAt(e)
           r   == e.kind.request_id
           p1  == Released(Pool, e.kind.gpu, now)
           p2  == StartOrQueue(p1, now, "Decode", r)
       IN  /\ Store(r, now)
           /\ \E p3 \in TryAssign(p2, now, "Decode") : Commit(e, p3)
    /\ UNCHANGED <<trace, results, runs, policy, nic_busy_until_ns>>

OnPrefillDone(e) ==
    /\ IsNext(e)
    /\ e.kind.tag = "PrefillDone"
    /\ LET now == ClockAt(e)
           r   == e.kind.request_id
           p1  == Released(Pool, e.kind.gpu, now)
           p2  == StartOrQueue(p1, now, "Decode", r)
       IN  /\ Store(r, now)
           /\ \E p3 \in TryAssign(p2, now, "Prefill") :
              \E p4 \in TryAssign(p3, now, "Decode") : Commit(e, p4)
    /\ UNCHANGED <<trace, results, runs, policy, nic_busy_until_ns>>

OnDecodeDone(e) ==
    /\ IsNext(e)
    /\ e.kind.tag = "DecodeDone"
    /\ DecodeDone(e)
    /\ UNCHANGED <<runs, policy, cacheVars>>

HandleEvent ==
    \/ \E e \in queue, r \in Request : OnArrival(e, r)
    \/ \E e \in queue : OnFetchDone(e)
    \/ \E e \in queue : OnPrefillDone(e)
    \/ \E e \in queue : OnDecodeDone(e)

Next ==
    \/ \E tr \in Traces : StartRun(tr)
    \/ HandleEvent

Spec == Init /\ [][Next]_vars

\* run's loop delivers events until none is left.
FairSpec == Spec /\ WF_vars(HandleEvent)

-----------------------------------------------------------------------------
(* What must hold *)

Lifecycle ==
    INSTANCE RequestLifecycle
        WITH phase <- [r \in Request |-> PhaseOf(r)], staffed <- Staffed,
             Reuse <- TRUE

\* The book-keeping of hits has its types, and the cache is well formed.
TypeOK ==
    /\ stats \in [DOMAIN NoStats -> Nat]
    /\ nic_busy_until_ns \in Nat
    /\ \A r \in DOMAIN in_flight :
          in_flight[r].pending_fetch_tier \in FetchTier \cup {None}
    /\ cache.next_kv_id \in 0 .. MaxKvId
    /\ \A k \in DOMAIN cache.objects :
          k < cache.next_kv_id /\ cache.objects[k] \in KV!KvObject
    /\ \A key \in DOMAIN cache.by_session_prefix :
          key \in KV!Key /\ cache.by_session_prefix[key] < cache.next_kv_id

\* "A single request contributes to exactly one of {hits_remote, hits_cpu,
\* misses}" (architecture.md:360): the counters add up to the requests that
\* have arrived, pending_fetches counts exactly the fetches under way, each of
\* which its request knows, and is 0 again when the run ends; a failed fetch
\* is a miss as well.
HitsAddUp ==
    /\ stats.hits_gpu + stats.hits_cpu + stats.hits_remote + stats.misses
         + stats.pending_fetches
         = IF Running
           THEN Cardinality(Request) - Cardinality(Pending("RequestArrival"))
           ELSE 0
    /\ stats.pending_fetches = Cardinality(Pending("FetchDone"))
    /\ \A r \in DOMAIN in_flight :
          in_flight[r].pending_fetch_tier # None
            <=> \E e \in Pending("FetchDone") : e.kind.request_id = r
    /\ stats.fetch_errors <= stats.misses

\* Serving leaves the cache's accounts exact, its tiers within their sizes
\* and its index sound, whatever the policy does between two events.
CacheSound ==
    /\ KV!UsageExact
    /\ KV!WithinCapacity
    /\ KV!IndexSound

\* A hit never reuses KV from the future: every object that a lookup can find
\* belongs to a request whose prefill is over.
ReuseIsCausal ==
    runs = 1 =>
        \A k \in DOMAIN cache.objects :
            \E r \in Request :
                /\ trace[r].session_id = cache.objects[k].session_id
                /\ trace[r].prompt_tokens = cache.objects[k].prefix_tokens
                /\ r \in DOMAIN in_flight =>
                     in_flight[r].prefill_done_ns \in 0 .. now_ns

\* A result's stages follow one another.  The prefill takes as long as that of
\* the whole prompt or that of its new tokens, or did not take place, and then
\* there was nothing new.
StagesInOrder ==
    \A r \in DOMAIN results :
        LET t == results[r]
            took == t.prefill_done_ns - t.prefill_start_ns
        IN  /\ trace[r].arrival_ns <= t.prefill_start_ns
            /\ t.prefill_done_ns <= t.decode_start_ns
            /\ \/ took = PrefillTime[trace[r].prompt_tokens]
               \/ /\ took = PrefillTime[trace[r].new_prompt_tokens]
                  /\ trace[r].new_prompt_tokens > 0
               \/ /\ took = 0
                  /\ trace[r].new_prompt_tokens = 0
            /\ t.finish_ns = t.decode_start_ns + StepTime(r) * trace[r].output_tokens

\* When the fetch that e ends holds the NIC.
OnNic(e) ==
    LET r     == e.kind.request_id
        tier  == in_flight[r].pending_fetch_tier
        begin == e.time_ns - EstimateDuration(tier, KV!KvBytes(ReusedPrefixTokens(r)))
        took  == Serialization(tier, KV!KvBytes(ReusedPrefixTokens(r)))
    IN  begin .. (begin + took - 1)

\* Fetches from remote tiers share a NIC "that serialises concurrent
\* transfers" (queued.rs:9): no two of them are on it at one time.
NicIsSerial ==
    \A e, f \in Pending("FetchDone") :
        /\ e # f
        /\ \A g \in {e, f} : IsRemote(in_flight[g.kind.request_id].pending_fetch_tier)
        => OnNic(e) \cap OnNic(f) = {}

\* Neither queue is ever overtaken from within, in a run.
QueuesAreFifo ==
    [][runs' = runs => \A stage \in Stage : ~Overtakes(stage)]_vars

\* The runner is an implementation of RequestLifecycle, for a cache that may
\* save a prefill or a part of it: each handler moves one request at a time,
\* forwards, and never leaves a queue to itself.
ImplementsLifecycle == Lifecycle!Spec
=============================================================================
