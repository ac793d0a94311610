-------------------------- MODULE ExperimentProofs ---------------------------
(***************************************************************************)
(* What an experiment finds out: batch after batch, generated, served on a *)
(* warm cache and summed up.                                               *)
(***************************************************************************)
EXTENDS Experiment, ReportsProofs

-----------------------------------------------------------------------------
(* An experiment is a use of the runner *)

\* The batch that is being served is the one of the plan.
PlanServed ==
    /\ plan \in Plans
    /\ Running => runs \in DOMAIN plan /\ trace = Generated(plan[runs])

LEMMA ExpBegins == ExpInit => Init /\ PlanServed
BY DEF ExpInit, OrderInit, PlanServed, Init, NewServing, Running

LEMMA Submitted ==
    ASSUME PlanServed, Inv, Submit
    PROVE  /\ \E tr \in Traces : StartRun(tr)
           /\ PlanServed'
<1> DEFINE config == plan[runs + 1]
<1>1. /\ StartRun(Generated(config)) /\ runs < Len(plan) /\ plan' = plan
      /\ runs \in Nat
  BY CacheRunnerAssumption DEF Submit, Inv
<1>2. runs + 1 \in DOMAIN plan /\ Generated(config) \in Traces
  <2>1. /\ Len(plan) <= MaxRuns
        /\ \A i \in DOMAIN plan : Generated(plan[i]) \in Traces
    BY ExperimentAssumption DEF PlanServed
  <2> QED
    BY <1>1, <2>1
<1> QED
  BY <1>1, <1>2 DEF PlanServed, StartRun, StartServing, Running

LEMMA ExpSteps == PlanServed /\ Inv /\ [ExpNext]_expVars => [Next]_vars /\ PlanServed'
<1> SUFFICES ASSUME PlanServed, Inv, [ExpNext]_expVars
             PROVE  [Next]_vars /\ PlanServed'
  OBVIOUS
<1>1. CASE Submit
  BY <1>1, Submitted DEF Next
<1>2. CASE Serve
  <2>1. HandleEvent /\ plan' = plan
    BY <1>2 DEF Serve, historyVars
  <2>2. trace' = trace /\ runs' = runs
    BY <2>1, Zenon DEF HandleEvent, OnArrival, OnGpuHit, OnFetchHit, OnFetchError, OnMiss,
                ArrivalOf, OnFetchDone, OnPrefillDone, OnDecodeDone, DecodeDone
  <2> QED
    BY <2>1, <2>2 DEF Next, PlanServed, Running
<1>3. CASE UNCHANGED expVars
  <2>1. vars' = vars /\ plan' = plan
    BY <1>3 DEF expVars, historyVars
  <2>2. trace' = trace /\ runs' = runs
    BY <2>1 DEF vars, clusterVars
  <2> QED
    BY <2>1, <2>2 DEF PlanServed, Running
<1> QED
  BY <1>1, <1>2, <1>3 DEF ExpNext

\* What holds in every experiment, the runner's invariants included.
ExpInv == PlanServed /\ Inv /\ PhasesKnown /\ ReportsInv /\ ReuseInv

LEMMA ExpAlways == ExpSpec => []ExpInv
<1>1. ExpInit => ExpInv
  BY ExpBegins, Begun, Seen, ReportsBegun, ReuseBegun DEF ExpInv, PhasesSeen
<1>2. ExpInv /\ [ExpNext]_expVars => ExpInv'
  <2>1. ExpInv /\ [ExpNext]_expVars => [Next]_vars /\ PlanServed'
    BY ExpSteps DEF ExpInv
  <2>2. ExpInv /\ [Next]_vars => Inv'
    BY Kept DEF ExpInv
  <2>3. Inv' => PhasesKnown'
    BY KnownNext DEF Inv, Whereabouts
  <2>4. ExpInv /\ PhasesKnown' /\ [Next]_vars => ReportsInv' /\ ReuseInv'
    BY ReportsKept, ReuseKept DEF ExpInv
  <2> QED
    BY <2>1, <2>2, <2>3, <2>4 DEF ExpInv
<1> QED
  BY <1>1, <1>2, PTL DEF ExpSpec

\* Every experiment is a behaviour of the runner, whatever its batches: what is
\* proved of CacheAwareRunner holds in experiments.
THEOREM ExperimentsAreRuns == ExpSpec => Spec
<1>1. ExpInit => Init
  BY ExpBegins
<1>2. ExpInv /\ [ExpNext]_expVars => [Next]_vars
  BY ExpSteps DEF ExpInv
<1> QED
  BY <1>1, <1>2, ExpAlways, PTL DEF ExpSpec, Spec

-----------------------------------------------------------------------------
(* The decision between fetching and computing again *)

\* A fetch of the analytical model takes from the arrival on as long as the
\* model estimates.
TimedFetch(e) ==
    LET r     == e.kind.request_id
        bytes == KV!KvBytes(ReusedPrefixTokens(r))
    IN  /\ TierFor(e) \in FetchTier /\ ReusedPrefixTokens(r) > 0
        /\ EstimateDuration(TierFor(e), bytes) # Fails
        /\ e.time_ns = trace[r].arrival_ns + EstimateDuration(TierFor(e), bytes)

FetchesTimed == \A e \in Pending("FetchDone") : TimedFetch(e)

LEMMA BeginsTimed ==
    ASSUME ~Queued, Inv, SizesRight, NEW e, Moves(e), e.kind.tag = "RequestArrival",
           NEW tier \in FetchTier, FetchBegins(e, tier)
    PROVE  \E f : /\ \A g \in Pending("FetchDone")' : g = f \/ g \in Pending("FetchDone")
                  /\ TimedFetch(f)'
<1> DEFINE r == e.kind.request_id
           nic == nic_busy_until_ns
           now == now_ns'
<1>1. PICK f : \E k \in FetchHit(r) :
         LET bytes == cache.objects[k].bytes
         IN  /\ \A g \in Pending("FetchDone")' : g = f \/ g \in Pending("FetchDone")
             /\ f.kind.request_id = r
             /\ f.time_ns = FinishOf(nic, now, tier, bytes)
             /\ tier = TierOf(k) /\ EstimateDuration(tier, bytes) # Fails
             /\ nic_busy_until_ns' = NicAfter(nic, now, tier, bytes)
  BY DEF FetchBegins, Books
<1>2. PICK k \in FetchHit(r) :
         LET bytes == cache.objects[k].bytes
         IN  /\ \A g \in Pending("FetchDone")' : g = f \/ g \in Pending("FetchDone")
             /\ f.kind.request_id = r
             /\ f.time_ns = FinishOf(nic, now, tier, bytes)
             /\ EstimateDuration(tier, bytes) # Fails
  BY <1>1
<1> DEFINE bytes == cache.objects[k].bytes
<1>0. /\ f.kind.request_id = r /\ f.time_ns = FinishOf(nic, now, tier, bytes)
      /\ EstimateDuration(tier, bytes) # Fails
  BY <1>2
<1>3. IsNext(e) /\ trace' = trace /\ now = ClockAt(e)
  BY MovedDomain, Zenon DEF Moves, OthersKept
<1>4. /\ Running /\ r \in Request /\ r \in DOMAIN in_flight
      /\ ServingInv(Sources, FetchKind) /\ e \in queue
  BY <1>3, Given DEF Pool
<1>5. now = trace[r].arrival_ns
  BY <1>3, <1>4, SomeFetches, DeliveredOnTime DEF ServingInv, TimelineHonest, Pending
<1>6. k \in Hit(r) /\ ReusedPrefixTokens(r) > 0
  BY DEF FetchHit, Hit
<1>7. bytes = KV!KvBytes(ReusedPrefixTokens(r))
  BY <1>6, HitSize
<1>8. TierFor(f)' = tier
  <2>1. in_flight'[r] = [in_flight[r] EXCEPT !.pending_fetch_tier = tier]
    BY DEF FetchBegins
  <2>2. in_flight[r] \in FlightOf(Sources)
    BY <1>4, FlightParts
  <2>3. in_flight'[r].pending_fetch_tier = tier
    BY <2>1, <2>2 DEF FlightOf
  <2> QED
    BY <1>2, <2>3 DEF TierFor
<1>9. ReusedPrefixTokens(r)' = ReusedPrefixTokens(r)
  BY <1>3 DEF ReusedPrefixTokens
<1>10. FinishOf(nic, now, tier, bytes) = now + EstimateDuration(tier, bytes)
  BY DEF FinishOf, StartOf
<1> HIDE DEF r, now, nic, bytes
<1>11. TimedFetch(f)'
  <2>1. ReusedPrefixTokens(f.kind.request_id)' = ReusedPrefixTokens(r)
    BY <1>0, <1>9
  <2>2. f.time_ns = trace[f.kind.request_id].arrival_ns + EstimateDuration(tier, bytes)
    BY <1>0, <1>5, <1>10
  <2> QED
    BY <1>0, <1>3, <1>6, <1>7, <1>8, <2>1, <2>2 DEF TimedFetch
<1> QED
  BY <1>2, <1>11

LEMMA FetchesTimedKept ==
    ASSUME ~Queued, Inv, PhasesKnown, SizesRight, FetchesTimed, NEW e, Moves(e)
    PROVE  FetchesTimed'
<1>1. ASSUME NEW f \in Pending("FetchDone"), f # e PROVE TimedFetch(f)'
  <2>1. TierFor(f)' = TierFor(f) /\ trace' = trace /\ TimedFetch(f)
    BY <1>1, FetchStays DEF Moves, FetchesTimed
  <2>2. ReusedPrefixTokens(f.kind.request_id)' = ReusedPrefixTokens(f.kind.request_id)
    BY <2>1 DEF ReusedPrefixTokens
  <2> QED
    BY <2>1, <2>2 DEF TimedFetch
<1>2. CASE FetchesEnd(e)
  BY <1>1, <1>2 DEF FetchesEnd, FetchesTimed
<1>3. ASSUME NEW tier \in FetchTier, FetchBegins(e, tier), e.kind.tag = "RequestArrival"
      PROVE  FetchesTimed'
  <2>1. PICK n : /\ \A g \in Pending("FetchDone")' : g = n \/ g \in Pending("FetchDone")
                 /\ TimedFetch(n)'
    BY <1>3, BeginsTimed
  <2>2. e \notin Pending("FetchDone")
    BY <1>3 DEF Pending
  <2> QED
    BY <1>1, <2>1, <2>2 DEF FetchesTimed
<1> QED
  BY <1>2, <1>3 DEF Moves, ArrivalMoves, FetchMoves, PrefillMoves, DecodeMoves, Goes

LEMMA TimedWithNobody == (Pending("FetchDone") = {})' => FetchesTimed'
<1>1. Pending("FetchDone") = {} => FetchesTimed
  BY DEF FetchesTimed
<1> QED
  BY <1>1, PTL

LEMMA FetchesTimedStep ==
    ASSUME ~Queued
    PROVE  ExpInv /\ PhasesKnown' /\ FetchesTimed /\ [Next]_vars => FetchesTimed'
<1> SUFFICES ASSUME ExpInv, PhasesKnown', FetchesTimed, [Next]_vars PROVE FetchesTimed'
  OBVIOUS
<1>1. ASSUME NEW tr \in Traces, StartRun(tr) PROVE FetchesTimed'
  BY <1>1, NobodyFetchesAtStart, TimedWithNobody
<1>2. CASE HandleEvent
  <2>1. PICK e : Moves(e)
    BY <1>2, EveryHandlerMoves DEF ExpInv
  <2> QED
    BY <2>1, FetchesTimedKept DEF ExpInv, ReuseInv
<1>3. CASE UNCHANGED vars
  <2>1. UNCHANGED simVars /\ UNCHANGED clusterVars
    BY <1>3 DEF vars
  <2>2. queue' = queue /\ trace' = trace /\ in_flight' = in_flight
    BY <2>1 DEF simVars, clusterVars
  <2>3. Pending("FetchDone")' = Pending("FetchDone") /\ \A e : TimedFetch(e)' = TimedFetch(e)
    BY <2>2 DEF Pending, TimedFetch, TierFor, ReusedPrefixTokens
  <2> QED
    BY <2>3 DEF FetchesTimed
<1> QED
  BY <1>1, <1>2, <1>3 DEF Next

\* The times of the linear model, for a request with a hit of some length.
LEMMA DecisionOf ==
    ASSUME NEW prompt \in Tokens, NEW new \in Tokens, prompt > new,
           NEW tier \in FetchTier, NEW d \in Nat,
           AnalyticalDuration(tier, KV!KvBytes(prompt - new)) = d
    PROVE  LET ready == d + (IF new = 0 THEN 0 ELSE PrefillTime[new])
           IN  /\ Evaluate(tier, prompt, prompt - new) = "Fetch"
                    => ready < PrefillTime[prompt] + LinearComputeModel.prefill_base_ns
               /\ Evaluate(tier, prompt, prompt - new) # "Fetch"
                    => ready >= PrefillTime[prompt]
<1> DEFINE base == LinearComputeModel.prefill_base_ns
           per == LinearComputeModel.prefill_per_token_ns
<1>1. base \in Nat /\ per \in Nat /\ prompt \in Nat /\ new \in Nat
  BY ComputeAssumption, ServingAssumption
<1>2. Shorter(prompt - new, prompt) = prompt - new /\ prompt - new \in Nat
  BY <1>1 DEF Shorter
<1>3. DecisionBytes(prompt, prompt - new) = KV!KvBytes(prompt - new)
  BY <1>2, ExperimentAssumption DEF DecisionBytes, KV!KvBytes
<1>4. d # Fails
  BY TransferAssumption
<1>5. PrefillTime[prompt] = base + per * prompt /\ PrefillTime[new] = base + per * new
  BY ExperimentAssumption DEF PrefillTimeNs
<1>6. RecomputeNs(prompt, prompt - new) = base + per * (prompt - new)
  BY <1>2 DEF RecomputeNs, PrefillTimeNs
<1>7. Evaluate(tier, prompt, prompt - new)
        = IF d < base + per * (prompt - new) THEN "Fetch" ELSE "RecomputePrefill"
  BY <1>3, <1>4, <1>6 DEF Evaluate
<1>8. /\ per * prompt = per * new + per * (prompt - new)
      /\ per * prompt \in Nat /\ per * new \in Nat /\ per * (prompt - new) \in Nat
      /\ new = 0 => per * new = 0
  BY <1>1, <1>2
<1> HIDE DEF base, per
<1>9. /\ Evaluate(tier, prompt, prompt - new) = "Fetch"
            => d + (IF new = 0 THEN 0 ELSE PrefillTime[new]) < PrefillTime[prompt] + base
      /\ Evaluate(tier, prompt, prompt - new) # "Fetch"
            => d + (IF new = 0 THEN 0 ELSE PrefillTime[new]) >= PrefillTime[prompt]
  BY <1>1, <1>5, <1>7, <1>8
<1> QED
  BY <1>9 DEF base

\* FetchVsRecompute decides as the runner turns out, for a transfer model that
\* is neither queued nor calibrated for the transfer at hand: a fetch that it
\* advises against never gets a request prefilled earlier than a miss would,
\* and one that it advises loses less than starting a prefill takes.
THEOREM DecisionsAreSound ==
    ASSUME ~Queued
    PROVE  ExpSpec => []DecisionIsSound
<1>1. ExpInit => FetchesTimed
  <2>1. ExpInit => queue = {}
    BY DEF ExpInit, OrderInit, Init, NewServing, NewSimulator
  <2> QED
    BY <2>1 DEF FetchesTimed, Pending
<1>2. ExpInv /\ ExpInv' /\ FetchesTimed /\ [ExpNext]_expVars => FetchesTimed'
  BY ExpSteps, FetchesTimedStep DEF ExpInv
<1>3. ExpInv /\ FetchesTimed => DecisionIsSound
  <2> SUFFICES ASSUME ExpInv, FetchesTimed, NEW e \in Pending("FetchDone"),
                      NEW r, r = e.kind.request_id, NEW tier, tier = TierFor(e),
                      NEW bytes, bytes = KV!KvBytes(Reused(trace[r])),
                      <<tier, bytes>> \notin DOMAIN Calibrated
               PROVE  LET new   == trace[r].new_prompt_tokens
                          ready == e.time_ns - trace[r].arrival_ns
                                     + (IF new = 0 THEN 0 ELSE PrefillTime[new])
                          miss  == PrefillTime[trace[r].prompt_tokens]
                          said  == Evaluate(tier, trace[r].prompt_tokens, Reused(trace[r]))
                      IN  /\ said = "Fetch" => ready < miss + LinearComputeModel.prefill_base_ns
                          /\ said # "Fetch" => ready >= miss
    BY DEF DecisionIsSound, TierFor
  <2> DEFINE prompt == trace[r].prompt_tokens
             new == trace[r].new_prompt_tokens
             d == EstimateDuration(tier, bytes)
  <2>1. e \in queue /\ ServingInv(Sources, FetchKind)
    BY DEF Pending, ExpInv, Inv
  <2>2. Running /\ r \in Request /\ trace \in Traces
    BY <2>1, SomeFetches, EventParts DEF ExpInv, Inv
  <2>3. prompt \in Tokens /\ new \in Tokens /\ trace[r].arrival_ns \in Nat
        /\ prompt \in Nat /\ new \in Nat
    BY <2>2, TraceParts, ServingAssumption, Zenon
  <2>4. TimedFetch(e)
    BY DEF FetchesTimed
  <2>5. ReusedPrefixTokens(r) = Reused(trace[r]) /\ Reused(trace[r]) > 0
    BY <2>4 DEF TimedFetch, ReusedPrefixTokens, Reused, KV!SatSub
  <2>6. prompt > new /\ Reused(trace[r]) = prompt - new
    BY <2>3, <2>5 DEF Reused
  <2>7. /\ tier \in FetchTier /\ d # Fails /\ e.time_ns = trace[r].arrival_ns + d
    BY <2>4, <2>5 DEF TimedFetch
  <2>8. d = AnalyticalDuration(tier, bytes)
    BY DEF EstimateDuration
  <2>9. bytes \in Nat
    BY <2>3, <2>6, CacheRunnerAssumption DEF KV!KvBytes
  <2>10. d \in Nat
    <3>1. 0 \in Nat
      OBVIOUS
    <3> QED
      BY <2>7, <2>9, <3>1, TransferTimes
  <2> HIDE DEF d, prompt, new
  <2>11. e.time_ns - trace[r].arrival_ns = d
    BY <2>3, <2>7, <2>10
  <2> QED
    BY <2>3, <2>6, <2>7, <2>8, <2>10, <2>11, DecisionOf DEF prompt, new
<1> QED
  BY <1>1, <1>2, <1>3, ExpAlways, PTL DEF ExpSpec

-----------------------------------------------------------------------------
(* No byte of a run is lost *)

LEMMA KvBytesNat ==
    ASSUME NEW n \in Tokens PROVE KV!KvBytes(n) \in Nat
<1>1. n \in Nat /\ BytesPerToken \in Nat
  BY ServingAssumption, CacheRunnerAssumption
<1> QED
  BY ONLY <1>1 DEF KV!KvBytes

LEMMA HeldIs == \A c : P!Held(c) = KV!Bytes(c, DOMAIN c.objects)
BY SameBytes DEF P!Held

LEMMA StoredAccounts ==
    ASSUME NEW c, CacheGood(c), NEW b \in Builds, c.next_kv_id < MaxKvId,
           NEW s \in Session, NEW n \in Tokens, NEW t \in Nat,
           NEW a \in KV!Placements(b.policy, c, s, n, t)
    PROVE  LET before == KV!Bytes(c, DOMAIN c.objects)
               after  == KV!Bytes(a.cache, DOMAIN a.cache.objects)
               out    == KV!Bytes(c, a.evicted)
           IN  /\ before \in Nat /\ after \in Nat /\ out \in Nat
               /\ a.tier # None => after + out = before + KV!KvBytes(n)
               /\ a.tier = None => after <= before
<1>1. Surroundings /\ P!Good(c) /\ b.policy \in {d.policy : d \in Builds}
  BY Surrounded DEF CacheGood
<1>2. a \in P!Placements(b.policy, c, s, n, t)
  BY SamePlacements
<1>3. /\ P!Held(c) \in Nat /\ P!Held(a.cache) \in Nat /\ P!Bytes(c, a.evicted) \in Nat
      /\ a.tier # None
           => P!Held(a.cache) + P!Bytes(c, a.evicted) = P!Held(c) + P!KvBytes(n)
      /\ a.tier = None => P!Held(a.cache) <= P!Held(c)
  BY <1>1, <1>2, P!PlacementsAccount DEF Surroundings
<1>4. P!KvBytes(n) = KV!KvBytes(n)
  BY DEF P!KvBytes, KV!KvBytes
<1> QED
  BY <1>3, <1>4, HeldIs, SameBytes

LEMMA TouchedHolds ==
    ASSUME NEW c, CacheGood(c), NEW k \in DOMAIN c.objects, NEW t
    PROVE  KV!Bytes(KV!Touched(c, k, t), DOMAIN KV!Touched(c, k, t).objects)
             = KV!Bytes(c, DOMAIN c.objects)
<1>1. P!Held(P!Touched(c, k, t)) = P!Held(c)
  BY Surrounded, P!TouchedHolds, Zenon DEF Surroundings, CacheGood
<1> QED
  BY <1>1, SameTouched, HeldIs

\* The bytes in the cache and those that the run says it has evicted.
Found == CachedBytes + stats.evicted_bytes

LEMMA FoundType ==
    CacheInv => CachedBytes \in Nat /\ Found \in Nat /\ stats.placement_errors \in Nat
<1> SUFFICES ASSUME CacheInv
             PROVE  CachedBytes \in Nat /\ Found \in Nat /\ stats.placement_errors \in Nat
  OBVIOUS
<1>1. Surroundings /\ P!Good(cache)
  BY Surrounded DEF CacheInv, CacheGood
<1>2. P!Held(cache) \in Nat
  BY <1>1, P!HeldType, Zenon DEF Surroundings
<1>3. stats.evicted_bytes \in Nat /\ stats.placement_errors \in Nat
  BY CounterNames DEF CacheInv
<1> QED
  BY <1>2, <1>3, HeldIs DEF Found, CachedBytes

\* The handler of e adds to the bytes found those of its prompt when its
\* prefill is over, or fails to place them; no other handler does anything.
Balances(e) ==
    LET bytes == KV!KvBytes(trace[e.kind.request_id].prompt_tokens)
    IN  \/ /\ e.kind.tag # "PrefillDone"
           /\ Found' = Found
           /\ stats'.placement_errors = stats.placement_errors
        \/ /\ e.kind.tag = "PrefillDone"
           /\ Found' = Found + bytes
           /\ stats'.placement_errors = stats.placement_errors
        \/ /\ e.kind.tag = "PrefillDone"
           /\ Found' <= Found
           /\ stats'.placement_errors # 0

\* From s to t nothing more was evicted and nothing failed to be placed.
SameStores(s, t) ==
    /\ t.evicted_bytes = s.evicted_bytes
    /\ t.placement_errors = s.placement_errors

LEMMA SameBalances ==
    ASSUME NEW e, e.kind.tag # "PrefillDone", CachedBytes' = CachedBytes,
           SameStores(stats, stats')
    PROVE  Balances(e)
BY DEF Balances, Found, SameStores

\* Counting a hit or a miss does not touch what was evicted or not placed.
LEMMA CountedElsewhere ==
    ASSUME NEW s \in [DOMAIN NoStats -> Nat], NEW n,
           NEW fs, "evicted_bytes" \notin fs, "placement_errors" \notin fs
    PROVE  /\ SameStores(s, Recomputed(Counted(s, fs), n))
           /\ SameStores(s, [Counted(s, fs) EXCEPT !.fetched_bytes = @ + n])
           /\ SameStores(s, Recomputed([Counted(s, fs) EXCEPT
                                          !.pending_fetches = KV!SatSub(@, 1)], n))
<1> DEFINE c == Counted(s, fs)
<1>1. /\ DOMAIN c = DOMAIN NoStats
      /\ c.evicted_bytes = s.evicted_bytes
      /\ c.placement_errors = s.placement_errors
  BY CountedIs, CounterNames
<1> HIDE DEF c
<1>2. /\ Recomputed(c, n).evicted_bytes = c.evicted_bytes
      /\ Recomputed(c, n).placement_errors = c.placement_errors
  BY DEF Recomputed
<1>3. LET d == [c EXCEPT !.fetched_bytes = @ + n]
      IN  d.evicted_bytes = c.evicted_bytes /\ d.placement_errors = c.placement_errors
  OBVIOUS
<1>4. LET d == Recomputed([c EXCEPT !.pending_fetches = KV!SatSub(@, 1)], n)
      IN  d.evicted_bytes = c.evicted_bytes /\ d.placement_errors = c.placement_errors
  BY DEF Recomputed
<1> QED
  BY <1>1, <1>2, <1>3, <1>4 DEF c, SameStores

LEMMA ArrivalBalances ==
    ASSUME Inv, NEW e, NEW r, OnArrival(e, r)
    PROVE  Balances(e)
<1>1. ArrivalOf(e, r)
  BY Zenon DEF OnArrival, OnGpuHit, OnFetchHit, OnFetchError, OnMiss
<1>2. /\ IsNext(e) /\ e.kind.tag = "RequestArrival" /\ e.kind.request_id = r
  BY <1>1 DEF ArrivalOf
<1>3. /\ CacheGood(cache) /\ stats \in [DOMAIN NoStats -> Nat]
      /\ Running /\ r \in Request
  BY <1>2, Given DEF CacheInv
<1>4. CASE OnGpuHit(e, r)
  <2>1. PICK k \in GpuHit(r) : cache' = KV!Touched(cache, k, ClockAt(e))
    BY <1>4 DEF OnGpuHit
  <2>2. k \in DOMAIN cache.objects
    BY <1>3, <2>1, HitParts DEF GpuHit
  <2>3. CachedBytes' = CachedBytes
    BY <1>3, <2>1, <2>2, TouchedHolds DEF CachedBytes
  <2>4. stats' = Recomputed(Counted(stats, {"hits_gpu"}), trace[r].new_prompt_tokens)
    BY <1>4 DEF OnGpuHit
  <2>5. SameStores(stats, stats')
    BY <1>3, <2>4, CountedElsewhere, Zenon
  <2> QED
    BY <1>2, <2>3, <2>5, SameBalances
<1>5. CASE OnFetchHit(e, r) \/ OnFetchError(e, r) \/ OnMiss(e, r)
  <2>1. CachedBytes' = CachedBytes
    BY <1>5, Zenon DEF OnFetchHit, OnFetchError, OnMiss, CachedBytes
  <2>2. ASSUME OnFetchHit(e, r) PROVE SameStores(stats, stats')
    <3>1. PICK n : stats' = [Counted(stats, {"pending_fetches"}) EXCEPT
                               !.fetched_bytes = @ + n]
      BY <2>2 DEF OnFetchHit
    <3> QED
      BY <1>3, <3>1, CountedElsewhere, Zenon
  <2>3. ASSUME OnFetchError(e, r) PROVE SameStores(stats, stats')
    <3>1. stats' = Recomputed(Counted(stats, {"fetch_errors", "misses"}),
                              trace[r].prompt_tokens)
      BY <2>3 DEF OnFetchError
    <3> QED
      BY <1>3, <3>1, CountedElsewhere, Zenon
  <2>4. ASSUME OnMiss(e, r) PROVE SameStores(stats, stats')
    <3>1. stats' = Recomputed(Counted(stats, {"misses"}), trace[r].prompt_tokens)
      BY <2>4 DEF OnMiss
    <3> QED
      BY <1>3, <3>1, CountedElsewhere, Zenon
  <2>5. SameStores(stats, stats')
    BY <1>5, <2>2, <2>3, <2>4
  <2> QED
    BY <1>2, <2>1, <2>5, SameBalances
<1> QED
  BY <1>4, <1>5 DEF OnArrival

LEMMA FetchDoneBalances ==
    ASSUME Inv, NEW e, OnFetchDone(e)
    PROVE  Balances(e)
<1>1. IsNext(e) /\ e.kind.tag = "FetchDone" /\ cache' = cache
  BY DEF OnFetchDone
<1>2. stats \in [DOMAIN NoStats -> Nat]
  BY <1>1, Given DEF CacheInv
<1>3. \E tier, n : stats' = Recomputed([Counted(stats, {CreditOf(tier)}) EXCEPT
                                          !.pending_fetches = KV!SatSub(@, 1)], n)
  BY Zenon DEF OnFetchDone
<1>4. \A tier : /\ "evicted_bytes" \notin {CreditOf(tier)}
                /\ "placement_errors" \notin {CreditOf(tier)}
  BY DEF CreditOf
<1>5. SameStores(stats, stats')
  BY <1>2, <1>3, <1>4, CountedElsewhere, Zenon
<1> QED
  BY <1>1, <1>5, SameBalances DEF CachedBytes

LEMMA PrefillDoneBalances ==
    ASSUME Inv, PhasesKnown, NEW e, OnPrefillDone(e)
    PROVE  Balances(e)
<1> DEFINE r == e.kind.request_id
           now == ClockAt(e)
           n == trace[r].prompt_tokens
<1>1. IsNext(e) /\ e.kind.tag = "PrefillDone" /\ Store(r, now)
  BY DEF OnPrefillDone
<1>2. CacheInv /\ trace \in Traces /\ r \in Request /\ e \in queue /\ now \in Nat
  BY <1>1, Given
<1>3. cache.next_kv_id < MaxKvId
  BY <1>1, <1>2, IdLeft
<1>4. n \in Tokens /\ trace[r].session_id \in Session
  BY <1>2, TraceParts
<1>5. CacheGood(cache) /\ stats \in [DOMAIN NoStats -> Nat]
  BY <1>2 DEF CacheInv
<1>6. /\ CachedBytes \in Nat /\ Found \in Nat
      /\ stats.evicted_bytes \in Nat /\ stats.placement_errors \in Nat
  BY <1>2, <1>5, FoundType, CounterNames
<1>7. CASE n = 0
  <2>1. Found' = Found /\ stats' = stats
    BY <1>1, <1>7 DEF Store, Found, CachedBytes
  <2>2. KV!KvBytes(n) = 0
    BY <1>7, CacheRunnerAssumption DEF KV!KvBytes
  <2> QED
    BY <1>1, <1>6, <2>1, <2>2 DEF Balances
<1>8. CASE n # 0
  <2>1. PICK a \in Storing(r, now) :
           /\ cache' = a.cache
           /\ stats' = IF a.tier = None THEN Counted(stats, {"placement_errors"})
                       ELSE [stats EXCEPT
                               !.evicted_bytes = @ + KV!Bytes(cache, a.evicted)]
    BY <1>1, <1>8 DEF Store
  <2>2. PICK b \in Builds : policy = b.policy
    BY <1>2 DEF CacheInv
  <2>3. a \in KV!Placements(b.policy, cache, trace[r].session_id, n, now)
    BY <2>1, <2>2 DEF Storing
  <2> HIDE DEF now
  <2> DEFINE out == KV!Bytes(cache, a.evicted)
  <2>4. /\ CachedBytes' \in Nat /\ out \in Nat
        /\ a.tier # None => CachedBytes' + out = CachedBytes + KV!KvBytes(n)
        /\ a.tier = None => CachedBytes' <= CachedBytes
    BY <1>2, <1>3, <1>4, <1>5, <2>1, <2>3, StoredAccounts DEF CachedBytes
  <2>5. KV!KvBytes(n) \in Nat
    BY <1>4, KvBytesNat
  <2>6. CASE a.tier = None
    <3>1. /\ stats'.evicted_bytes = stats.evicted_bytes
          /\ stats'.placement_errors = stats.placement_errors + 1
      BY <1>5, <2>1, <2>6, CountedIs, CounterNames
    <3>2. Found' <= Found /\ stats'.placement_errors # 0
      BY <1>6, <2>4, <2>6, <3>1 DEF Found
    <3> QED
      BY <1>1, <3>2 DEF Balances
  <2>7. CASE a.tier # None
    <3>1. /\ stats'.evicted_bytes = stats.evicted_bytes + out
          /\ stats'.placement_errors = stats.placement_errors
      BY <1>5, <2>1, <2>7, CounterNames
    <3> HIDE DEF out, n
    <3>2. Found' = Found + KV!KvBytes(n)
      BY <1>6, <2>4, <2>5, <2>7, <3>1 DEF Found
    <3> QED
      BY <1>1, <3>1, <3>2 DEF Balances, n
  <2> QED
    BY <2>6, <2>7
<1> QED
  BY <1>7, <1>8

LEMMA EveryHandlerBalances ==
    ASSUME Inv, PhasesKnown, PhasesKnown', HandleEvent
    PROVE  \E e : Moves(e) /\ Balances(e)
<1>1. ASSUME NEW e, NEW r, OnArrival(e, r) PROVE Moves(e) /\ Balances(e)
  BY <1>1, ArrivalRecords, ArrivalBalances
<1>2. ASSUME NEW e, OnFetchDone(e) PROVE Moves(e) /\ Balances(e)
  BY <1>2, FetchDoneRecords, FetchDoneBalances
<1>3. ASSUME NEW e, OnPrefillDone(e) PROVE Moves(e) /\ Balances(e)
  BY <1>3, PrefillDoneRecords, PrefillDoneBalances
<1>4. ASSUME NEW e, OnDecodeDone(e) PROVE Moves(e) /\ Balances(e)
  <2>1. e.kind.tag = "DecodeDone" /\ cache' = cache /\ stats' = stats
    BY <1>4 DEF OnDecodeDone, cacheVars
  <2> QED
    BY <1>4, <2>1, DecodeDoneRecords, SameBalances DEF CachedBytes, SameStores
<1> QED
  BY <1>1, <1>2, <1>3, <1>4 DEF HandleEvent

\* The prefill of a request whose record in the phase f is x is over.
IsOver(x, f) == f \in {"DecodeQueued", "Decode"} /\ x.prefill_done_ns # None

\* Prefilled, by phases.
Over(r) ==
    IF r \in DOMAIN results
    THEN results[r].prefill_done_ns > results[r].prefill_start_ns
    ELSE IsOver(in_flight[r], PhaseOf(r))

LEMMA PrefilledIs ==
    Inv /\ PhasesKnown /\ Shaped /\ Running => Prefilled = {r \in Request : Over(r)}
<1> SUFFICES ASSUME Inv, PhasesKnown, Shaped, Running
             PROVE  Prefilled = {r \in Request : Over(r)}
  OBVIOUS
<1>1. DOMAIN trace = Request
  BY CacheRunnerAssumption DEF Inv
<1>2. ASSUME NEW r \in Request, r \notin DOMAIN results
      PROVE  WasPrefilled(r) <=> Over(r)
  <2> DEFINE x == in_flight[r]
             f == PhaseOf(r)
             Pends == \E e \in Pending("PrefillDone") : e.kind.request_id = r
  <2>1. r \in DOMAIN in_flight /\ Shape(x, trace[r], f, now_ns)
    BY <1>2 DEF Shaped, Inv, ServingInv, Accounted
  <2>2. /\ Pends => f = "Prefill"
        /\ f \in {"PrefillQueued", "DecodeQueued", "Arriving", "Fetching", "Decode"}
             \/ (f = "Prefill" /\ Pends)
    <3>1. ASSUME NEW e \in queue, e.kind.request_id = r
          PROVE  /\ f = PhaseOfTag[e.kind.tag]
                 /\ e.kind.tag \in {"RequestArrival", "FetchDone", "PrefillDone",
                                    "DecodeDone"}
      <4>1. f = PhaseOfTag[e.kind.tag]
        BY <3>1 DEF PhasesKnown
      <4>2. e.kind \in ArrivalKind \cup FetchKind \cup GpuKind
        BY SomeFetches, EventParts DEF Inv
      <4> HIDE DEF f
      <4> QED
        BY <4>1, <4>2 DEF ArrivalKind, FetchKind, GpuKind
    <3>2. \A t \in Stage : Waits(t, r) => f \in {"PrefillQueued", "DecodeQueued"}
      BY <1>2 DEF PhasesKnown, WaitingPhase
    <3> HIDE DEF f
    <3>3. Pends => f = "Prefill"
      BY <3>1 DEF Pending, PhaseOfTag
    <3>4. ASSUME NEW e \in queue, e.kind.request_id = r
          PROVE  f \in {"Arriving", "Fetching", "Decode"} \/ (f = "Prefill" /\ Pends)
      BY <3>1, <3>4 DEF Pending, PhaseOfTag
    <3>5. (\E t \in Stage : Waits(t, r)) \/ (\E e \in queue : e.kind.request_id = r)
      BY <1>2 DEF PhasesKnown
    <3> QED
      BY <3>2, <3>3, <3>4, <3>5
  <2>3. WasPrefilled(r) <=> x.prefill_done_ns # None /\ ~Pends
    BY <1>2 DEF WasPrefilled
  <2>4. f \in {"Arriving", "Fetching", "PrefillQueued"} => x.prefill_done_ns = None
    BY <2>1 DEF Shape, Blank
  <2>5. Over(r) <=> IsOver(x, f)
    BY <1>2 DEF Over
  <2> HIDE DEF x, f, Pends
  <2> QED
    BY <2>2, <2>3, <2>4, <2>5 DEF IsOver
<1>3. ASSUME NEW r \in DOMAIN results PROVE WasPrefilled(r) <=> Over(r)
  BY DEF WasPrefilled, Over
<1> QED
  BY <1>1, <1>2, <1>3 DEF Prefilled

\* A stage that is not the prefill leaves the prefill's times.
LEMMA StampedOver ==
    ASSUME NEW x \in FlightOf(Sources), NEW now, NEW q, NEW t \in Stage
    PROVE  IsOver(StampOf(x, now, t, q), t) <=> IsOver(x, WaitingPhase(t))
<1>1. CASE t = "Prefill"
  BY <1>1 DEF IsOver, WaitingPhase
<1>2. CASE t = "Decode"
  <2>1. StampOf(x, now, t, q).prefill_done_ns = x.prefill_done_ns
    BY <1>2 DEF StampOf, FlightOf
  <2> QED
    BY <1>2, <2>1 DEF IsOver, WaitingPhase
<1> QED
  BY <1>1, <1>2 DEF Stage

\* The handlers leave alone what is over of the requests they are not for.
LEMMA OthersOver ==
    ASSUME Inv, PhasesKnown, NEW e, Moves(e), NEW s \in Request, s # e.kind.request_id
    PROVE  Over(s)' <=> Over(s)
<1>1. /\ IsNext(e) /\ Running /\ ServingInv(Sources, FetchKind) /\ e \in queue
      /\ e.kind.request_id \in Request
  BY Given DEF Moves
<1>2. DOMAIN in_flight = Request \ DOMAIN results
  BY <1>1 DEF ServingInv, Accounted
<1>3. /\ s \in DOMAIN results <=> s \in DOMAIN results'
      /\ s \in DOMAIN results => results'[s] = results[s]
  <2>1. CASE e.kind.tag # "DecodeDone"
    BY <2>1, MovedDomain, Zenon
  <2>2. CASE e.kind.tag = "DecodeDone"
    BY <2>2 DEF Moves, DecodeMoves
  <2> QED
    BY <2>1, <2>2
<1>4. CASE s \in DOMAIN results
  BY <1>3, <1>4 DEF Over
<1>5. CASE s \notin DOMAIN results
  <2> DEFINE x == in_flight[s]
  <2>1. s \in DOMAIN in_flight \ {e.kind.request_id} /\ x \in FlightOf(Sources)
    BY <1>1, <1>2, <1>5, FlightParts
  <2>2. (Over(s) <=> IsOver(x, PhaseOf(s)))
    BY <1>5 DEF Over
  <2>3. Over(s)' <=> IsOver(in_flight'[s], PhaseOf(s)')
    BY <1>3, <1>5 DEF Over
  <2>4. \/ PhaseOf(s)' = PhaseOf(s) /\ in_flight'[s] = x
        \/ \E t \in Stage :
              /\ PhaseOf(s) = WaitingPhase(t) /\ PhaseOf(s)' = t
              /\ in_flight'[s] = StampOf(x, now_ns', t, trace[s])
    BY <2>1, MovedDomain, Zenon DEF OthersKept
  <2> HIDE DEF x
  <2> QED
    BY <2>1, <2>2, <2>3, <2>4, StampedOver
<1> QED
  BY <1>4, <1>5

\* Nothing is prefilled in no time.
PrefillsTakeTime == \A n \in Tokens \ {0} : PrefillTime[n] > 0

LEMMA SentOver ==
    ASSUME Inv, NEW e, NEW y \in FlightOf(Sources), NEW stage \in Stage,
           e.kind.request_id \notin DOMAIN results', Goes(e, y, stage)
    PROVE  Over(e.kind.request_id)' <=> IsOver(y, WaitingPhase(stage))
<1> DEFINE r == e.kind.request_id
<1>1. Over(r)' <=> IsOver(in_flight'[r], PhaseOf(r)')
  BY DEF Over
<1>2. \/ PhaseOf(r)' = WaitingPhase(stage) /\ in_flight'[r] = y
      \/ /\ PhaseOf(r)' = stage
         /\ in_flight'[r] = StampOf(y, now_ns', stage, trace[r])
  BY DEF Goes, SentAs
<1> QED
  BY <1>1, <1>2, StampedOver

\* A finished request shows whether it was prefilled.
LEMMA FinishedOver ==
    ASSUME PrefillsTakeTime, Inv, PhasesKnown, Shaped, NEW e \in queue,
           e.kind.tag = "DecodeDone",
           trace[e.kind.request_id].prompt_tokens # 0
    PROVE  LET t == Timeline(e.kind.request_id)
           IN  t.prefill_done_ns > t.prefill_start_ns <=> Over(e.kind.request_id)
<1> DEFINE r == e.kind.request_id
           x == in_flight[r]
           q == trace[r]
           t == Timeline(r)
<1>1. Running /\ r \in DOMAIN in_flight
  BY SomeFetches, EventParts DEF Inv
<1>2. x \in FlightOf(Sources) /\ IsRequest(q) /\ r \in Request /\ r \notin DOMAIN results
  BY <1>1, FlightParts
<1>3. PhaseOf(r) = "Decode"
  BY <1>1, <1>2 DEF PhasesKnown, PhaseOfTag
<1>4. Shape(x, q, "Decode", now_ns)
  BY <1>1, <1>3 DEF Shaped
<1>5. Over(r) <=> x.prefill_done_ns # None
  BY <1>2, <1>3 DEF Over, IsOver
<1>6. q.arrival_ns \in Nat /\ None \notin Nat
  BY <1>2, ServingAssumption DEF IsRequest
<1>7. /\ t.prefill_start_ns = IF x.prefill_start_ns = None THEN q.arrival_ns
                                                           ELSE x.prefill_start_ns
      /\ t.prefill_done_ns = IF x.prefill_done_ns = None THEN q.arrival_ns
                                                         ELSE x.prefill_done_ns
  BY DEF Timeline, Stamps
<1>8. /\ q.prompt_tokens \in Tokens \ {0} /\ q.new_prompt_tokens \in Tokens
      /\ q.new_prompt_tokens \in Nat
  BY <1>2, ServingAssumption, Zenon DEF IsRequest
<1> HIDE DEF x, q, t
<1>9. PrefilledBy(x, q, x.decode_start_ns)
  BY <1>4 DEF Shape
<1>10. ASSUME NEW d, MayTake(d, q) PROVE d \in Nat /\ d > 0
  <2>1. PICK n \in Tokens \ {0} : d = PrefillTime[n]
    BY <1>8, <1>10 DEF MayTake
  <2> QED
    BY <2>1, ServingAssumption DEF PrefillsTakeTime
<1>11. CASE Blank(x)
  BY <1>5, <1>6, <1>7, <1>11 DEF Blank, t
<1>12. CASE ~Blank(x)
  <2>1. /\ x.prefill_start_ns \in Nat /\ x.prefill_done_ns \in Nat
        /\ MayTake(x.prefill_done_ns - x.prefill_start_ns, q)
    BY <1>9, <1>12 DEF PrefilledBy
  <2>2. x.prefill_done_ns - x.prefill_start_ns > 0
    BY <1>10, <2>1
  <2>3. t.prefill_start_ns = x.prefill_start_ns /\ t.prefill_done_ns = x.prefill_done_ns
    BY <1>6, <1>7, <2>1
  <2> QED
    BY <1>5, <1>6, <2>1, <2>2, <2>3 DEF t
<1> QED
  BY <1>11, <1>12

\* The handler of e sees the prefill over of its request when it is for the end
\* of one, and otherwise leaves it as over as it was, or its prompt is empty.
LEMMA MovedOver ==
    ASSUME PrefillsTakeTime, Inv, PhasesKnown, Shaped, NEW e, Moves(e)
    PROVE  LET r == e.kind.request_id
           IN  IF e.kind.tag = "PrefillDone" THEN ~Over(r) /\ Over(r)'
               ELSE trace[r].prompt_tokens = 0 \/ (Over(r)' <=> Over(r))
<1> DEFINE r == e.kind.request_id
           x == in_flight[r]
           q == trace[r]
<1>1. /\ IsNext(e) /\ Running /\ ServingInv(Sources, FetchKind) /\ e \in queue
      /\ r \in Request /\ r \in DOMAIN in_flight
  BY Given DEF Moves, Pool
<1>2. r \notin DOMAIN results /\ x \in FlightOf(Sources) /\ IsRequest(q)
  BY <1>1, FlightParts
<1>3. PhaseOf(r) = PhaseOfTag[e.kind.tag]
  BY <1>1 DEF PhasesKnown
<1>4. Over(r) <=> IsOver(x, PhaseOfTag[e.kind.tag])
  BY <1>2, <1>3 DEF Over
<1>5. Shape(x, q, PhaseOfTag[e.kind.tag], now_ns)
  BY <1>1, <1>3 DEF Shaped
<1>6. "Prefill" \in Stage /\ "Decode" \in Stage
      /\ WaitingPhase("Prefill") = "PrefillQueued"
      /\ WaitingPhase("Decode") = "DecodeQueued"
  BY DEF Stage, WaitingPhase
<1> HIDE DEF x
<1>7. CASE e.kind.tag = "PrefillDone"
  <2>1. ~Over(r)
    BY <1>4, <1>7 DEF IsOver, PhaseOfTag
  <2>2. Goes(e, x, "Decode") /\ results' = results
    BY <1>7 DEF Moves, PrefillMoves, x
  <2>3. Over(r)' <=> IsOver(x, "DecodeQueued")
    BY <1>2, <1>6, <2>2, SentOver
  <2>4. x.prefill_done_ns = e.time_ns /\ e.time_ns \in Nat
    BY <1>1, <1>7, SomeFetches, DeliveredOnTime DEF ServingInv, TimelineHonest, Pending, x
  <2>5. x.prefill_done_ns # None
    BY <2>4, ServingAssumption
  <2> QED
    BY <1>7, <2>1, <2>3, <2>5 DEF IsOver
<1>8. CASE e.kind.tag \in {"RequestArrival", "FetchDone"}
  <2>1. PhaseOfTag[e.kind.tag] \in {"Arriving", "Fetching"}
    BY <1>8 DEF PhaseOfTag
  <2>2. ~Over(r) /\ x.prefill_done_ns = None /\ results' = results
    BY <1>4, <1>5, <1>8, <2>1 DEF IsOver, Shape, Blank, Moves
  <2> DEFINE y == [x EXCEPT !.pending_fetch_tier = None]
             z == [x EXCEPT !.prefill_tokens = q.prompt_tokens]
  <2>3. \/ \E tier : FetchBegins(e, tier)
        \/ Goes(e, Remaining(x, r), RemainingStage(r))
        \/ Goes(e, Remaining(y, r), RemainingStage(r))
        \/ Goes(e, z, "Prefill")
    BY <1>8 DEF Moves, ArrivalMoves, FetchMoves, x
  <2>4. CASE \E tier : FetchBegins(e, tier)
    <3>1. PhaseOf(r)' = "Fetching"
      BY <2>4 DEF FetchBegins
    <3>2. ~Over(r)'
      BY <1>2, <2>2, <3>1 DEF Over, IsOver
    <3> QED
      BY <1>8, <2>2, <3>2
  <2>5. ASSUME NEW w \in {x, y}, Goes(e, Remaining(w, r), RemainingStage(r))
        PROVE  ~Over(r)'
    <3>1. w \in FlightOf(Sources) /\ w.prefill_done_ns = None
      BY <1>2, <2>2 DEF FlightOf, Sources
    <3>2. /\ Remaining(w, r) \in FlightOf(Sources)
          /\ Remaining(w, r).prefill_done_ns = None /\ RemainingStage(r) \in Stage
      BY <1>2, <1>6, <3>1 DEF Remaining, RemainingStage, FlightOf, IsRequest
    <3>3. Over(r)' <=> IsOver(Remaining(w, r), WaitingPhase(RemainingStage(r)))
      BY <1>2, <2>2, <2>5, <3>2, SentOver
    <3> QED
      BY <3>2, <3>3 DEF IsOver
  <2>6. CASE Goes(e, z, "Prefill")
    <3>1. z \in FlightOf(Sources)
      BY <1>2 DEF FlightOf, IsRequest
    <3>2. Over(r)' <=> IsOver(z, "PrefillQueued")
      BY <1>2, <1>6, <2>2, <2>6, <3>1, SentOver
    <3>3. ~Over(r)'
      BY <3>2 DEF IsOver
    <3> QED
      BY <1>8, <2>2, <3>3
  <2> QED
    BY <1>8, <2>2, <2>3, <2>4, <2>5, <2>6
<1>9. CASE e.kind.tag = "DecodeDone"
  <2>1. r \in DOMAIN results' /\ results'[r] = Timeline(r)
    BY <1>9 DEF Moves, DecodeMoves
  <2>2. Over(r)' <=> Timeline(r).prefill_done_ns > Timeline(r).prefill_start_ns
    BY <2>1 DEF Over
  <2> QED
    BY <1>1, <1>9, <2>2, FinishedOver
<1> QED
  BY <1>7, <1>8, <1>9 DEF Moves

\* The KV of the prompts of the requests S of the trace tr, slot by slot.
PromptSlots(tr, S) ==
    UNION {{r} \X (1 .. KV!KvBytes(tr[r].prompt_tokens)) : r \in S}

LEMMA PromptSlotsOfOne ==
    ASSUME NEW tr \in Traces, NEW r \in Request
    PROVE  LET slots == {r} \X (1 .. KV!KvBytes(tr[r].prompt_tokens))
           IN  /\ IsFiniteSet(slots)
               /\ Cardinality(slots) = KV!KvBytes(tr[r].prompt_tokens)
<1> DEFINE n == KV!KvBytes(tr[r].prompt_tokens)
<1>1. n \in Nat
  BY TraceParts, KvBytesNat
<1> HIDE DEF n
<1>2. IsFiniteSet(1 .. n) /\ Cardinality(1 .. n) = n
  BY <1>1, FS_Interval
<1>3. IsFiniteSet({r}) /\ Cardinality({r}) = 1
  BY FS_Singleton, Zenon
<1>4. IsFiniteSet({r} \X (1 .. n)) /\ Cardinality({r} \X (1 .. n)) = 1 * n
  BY <1>2, <1>3, FS_Product, Zenon
<1>5. Cardinality({r} \X (1 .. n)) = n
  BY <1>1, <1>4
<1> QED
  BY <1>4, <1>5 DEF n

LEMMA PromptSlotsFinite ==
    ASSUME NEW tr \in Traces, NEW S \in SUBSET Request
    PROVE  IsFiniteSet(PromptSlots(tr, S))
<1> DEFINE Of(r) == {r} \X (1 .. KV!KvBytes(tr[r].prompt_tokens))
           T == {Of(r) : r \in S}
           f == [r \in S |-> Of(r)]
<1>1. IsFiniteSet(S)
  BY ServingAssumption, FS_Subset, Zenon
<1>2. \A r \in S : IsFiniteSet(Of(r))
  BY PromptSlotsOfOne
<1>3. PromptSlots(tr, S) = UNION T
  BY DEF PromptSlots
<1> HIDE DEF Of
<1>4. f \in Surjection(S, T)
  BY DEF Surjection
<1>5. IsFiniteSet(T)
  BY <1>1, <1>4, FS_Surjection
<1>6. \A t \in T : IsFiniteSet(t)
  BY <1>2
<1> HIDE DEF T
<1> QED
  BY <1>3, <1>5, <1>6, FS_UNION

LEMMA PromptSlotsGrow ==
    ASSUME NEW tr \in Traces, NEW S \in SUBSET Request, NEW r \in Request \ S
    PROVE  /\ Cardinality(PromptSlots(tr, S)) \in Nat
           /\ Cardinality(PromptSlots(tr, S \cup {r}))
                = Cardinality(PromptSlots(tr, S)) + KV!KvBytes(tr[r].prompt_tokens)
<1> DEFINE A == PromptSlots(tr, S)
           n == KV!KvBytes(tr[r].prompt_tokens)
           B == {r} \X (1 .. n)
<1>1. IsFiniteSet(A) /\ IsFiniteSet(B) /\ Cardinality(B) = n
  BY PromptSlotsFinite, PromptSlotsOfOne
<1>2. PromptSlots(tr, S \cup {r}) = A \cup B /\ A \cap B = {}
  BY DEF PromptSlots
<1>3. Cardinality(A \cap B) = 0
  BY <1>2, FS_EmptySet
<1>4. Cardinality(A \cup B) = Cardinality(A) + Cardinality(B) - Cardinality(A \cap B)
  BY <1>1, FS_Union
<1>5. Cardinality(A) \in Nat /\ Cardinality(B) \in Nat
  BY <1>1, FS_CardinalityType
<1> HIDE DEF A, B, n
<1>6. Cardinality(A \cup B) = Cardinality(A) + n
  BY <1>1, <1>3, <1>4, <1>5
<1> QED
  BY <1>2, <1>5, <1>6, Zenon DEF A, B, n

\* An empty prompt leaves nothing behind.
LEMMA PromptSlotsSame ==
    ASSUME NEW tr, NEW S \in SUBSET Request, NEW T \in SUBSET Request,
           \A r \in Request : tr[r].prompt_tokens = 0 \/ (r \in S <=> r \in T)
    PROVE  PromptSlots(tr, S) = PromptSlots(tr, T)
<1> DEFINE Of(r) == {r} \X (1 .. KV!KvBytes(tr[r].prompt_tokens))
<1>1. ASSUME NEW r \in Request, tr[r].prompt_tokens = 0 PROVE Of(r) = {}
  <2>1. KV!KvBytes(tr[r].prompt_tokens) = 0
    BY <1>1, CacheRunnerAssumption DEF KV!KvBytes
  <2> QED
    BY <2>1
<1>2. /\ PromptSlots(tr, S) = UNION {Of(r) : r \in S}
      /\ PromptSlots(tr, T) = UNION {Of(r) : r \in T}
  BY DEF PromptSlots
<1> HIDE DEF Of
<1> QED
  BY <1>1, <1>2

\* The bytes of the prompts prefilled in this run.
LeftBytes == Cardinality(PromptSlots(trace, Prefilled))

\* BytesConserved, in these terms.
Conserved ==
    Running =>
        /\ Found <= bytes_before + LeftBytes
        /\ stats.placement_errors = 0 => Found = bytes_before + LeftBytes

LEMMA ConservedIs == Conserved <=> BytesConserved
BY DEF Conserved, BytesConserved, LeftBytes, PromptSlots, Found

Overs == {r \in Request : Over(r)}

LEMMA LeftMoves ==
    ASSUME PrefillsTakeTime, Inv, PhasesKnown, Shaped, NEW e, Moves(e)
    PROVE  LET r == e.kind.request_id
               n == Cardinality(PromptSlots(trace, Overs))
           IN  /\ n \in Nat
               /\ Cardinality(PromptSlots(trace', Overs'))
                    = IF e.kind.tag = "PrefillDone"
                      THEN n + KV!KvBytes(trace[r].prompt_tokens) ELSE n
<1> DEFINE r == e.kind.request_id
<1>1. /\ trace' = trace /\ trace \in Traces /\ r \in Request
  BY Given DEF Moves
<1>2. \A s \in Request \ {r} : s \in Overs' <=> s \in Overs
  BY OthersOver DEF Overs
<1>3. Overs \in SUBSET Request /\ Overs' \in SUBSET Request
  BY DEF Overs
<1>4. CASE e.kind.tag = "PrefillDone"
  <2>1. r \notin Overs /\ r \in Overs'
    BY <1>1, <1>4, MovedOver DEF Overs
  <2>2. Overs' = Overs \cup {r}
    BY <1>1, <1>2, <1>3, <2>1
  <2> QED
    BY <1>1, <1>3, <1>4, <2>1, <2>2, PromptSlotsGrow
<1>5. CASE e.kind.tag # "PrefillDone"
  <2>1. trace[r].prompt_tokens = 0 \/ (r \in Overs <=> r \in Overs')
    BY <1>1, <1>5, MovedOver DEF Overs
  <2>2. \A s \in Request : trace[s].prompt_tokens = 0 \/ (s \in Overs <=> s \in Overs')
    BY <1>2, <2>1
  <2>3. PromptSlots(trace, Overs) = PromptSlots(trace, Overs')
    BY <1>3, <2>2, PromptSlotsSame
  <2>4. Cardinality(PromptSlots(trace, Overs)) \in Nat
    BY <1>1, <1>3, PromptSlotsFinite, FS_CardinalityType
  <2> QED
    BY <1>1, <1>5, <2>3, <2>4
<1> QED
  BY <1>4, <1>5

LEMMA OversAre == ExpInv /\ Running => Prefilled = Overs
BY PrefilledIs DEF Overs, ExpInv, ReportsInv

LEMMA OversAreNext == ExpInv' /\ Running' => Prefilled' = Overs'
<1>1. (ExpInv /\ Running => Prefilled = Overs)'
  BY OversAre, PTL
<1> QED
  BY <1>1

LEMMA FoundTypeNext == CacheInv' => CachedBytes' \in Nat /\ Found' \in Nat
<1>1. (CacheInv => CachedBytes \in Nat /\ Found \in Nat)'
  BY FoundType, PTL
<1> QED
  BY <1>1

LEMMA ConservedStep ==
    ASSUME PrefillsTakeTime
    PROVE  ExpInv /\ ExpInv' /\ Conserved /\ bytes_before \in Nat /\ Serve
              => Conserved'
<1> SUFFICES ASSUME ExpInv, ExpInv', Conserved, bytes_before \in Nat, Serve
             PROVE  Conserved'
  OBVIOUS
<1>1. PICK e : Moves(e) /\ Balances(e)
  BY EveryHandlerBalances DEF Serve, ExpInv
<1>2. bytes_before' = bytes_before /\ Running
  BY <1>1, Given DEF Serve, historyVars, ExpInv, Moves
<1> DEFINE n == Cardinality(PromptSlots(trace, Overs))
           bytes == KV!KvBytes(trace[e.kind.request_id].prompt_tokens)
<1>3. LeftBytes = n
  BY <1>2, OversAre DEF LeftBytes
<1>4. Running' => Prefilled' = Overs'
  BY OversAreNext
<1>5. /\ n \in Nat
      /\ Running' => LeftBytes' = IF e.kind.tag = "PrefillDone" THEN n + bytes ELSE n
  BY <1>1, <1>4, LeftMoves DEF LeftBytes, ExpInv, ReportsInv
<1>6. bytes \in Nat
  <2>1. trace \in Traces /\ e.kind.request_id \in Request
    BY <1>1, Given DEF Moves, ExpInv
  <2> QED
    BY <2>1, TraceParts, KvBytesNat
<1>7. Found \in Nat /\ Found' \in Nat
      /\ stats.placement_errors \in Nat
  BY FoundType, FoundTypeNext DEF ExpInv, Inv
<1>8. stats'.placement_errors = 0 => stats.placement_errors = 0
  BY <1>1 DEF Balances
<1>9. /\ Found <= bytes_before + n
      /\ stats.placement_errors = 0 => Found = bytes_before + n
  BY <1>2, <1>3 DEF Conserved
<1> HIDE DEF n, bytes
<1> QED
  BY <1>1, <1>2, <1>5, <1>6, <1>7, <1>8, <1>9 DEF Balances, Conserved, bytes

LEMMA ConservedSubmit ==
    ExpInv /\ ExpInv' /\ Submit => Conserved' /\ bytes_before' \in Nat
<1> SUFFICES ASSUME ExpInv, ExpInv', Submit
             PROVE  Conserved' /\ bytes_before' \in Nat
  OBVIOUS
<1>1. PICK tr \in Traces : StartRun(tr)
  BY Submitted DEF ExpInv
<1>2. /\ cache' = cache /\ stats' = NoStats /\ StartServing(tr)
      /\ bytes_before' = CachedBytes
  BY <1>1 DEF StartRun, Submit
<1>3. Found' = CachedBytes /\ stats'.placement_errors = 0 /\ CachedBytes \in Nat
  <2>1. CachedBytes \in Nat
    BY FoundType DEF ExpInv, Inv
  <2>2. NoStats.evicted_bytes = 0 /\ NoStats.placement_errors = 0
    BY DEF NoStats
  <2> QED
    BY <1>2, <2>1, <2>2 DEF Found, CachedBytes
<1>4. Overs' = {}
  <2>1. /\ DOMAIN results' = {}
        /\ \A r \in Request : PhaseOf(r)' = "Arriving"
    BY <1>2, NobodyStarted DEF ExpInv
  <2>2. ASSUME NEW r \in Request PROVE ~Over(r)'
    BY <2>1 DEF Over, IsOver
  <2> QED
    BY <2>2 DEF Overs
<1>5. Running' => LeftBytes' = 0
  <2>1. Running' => LeftBytes' = Cardinality(PromptSlots(trace', {}))
    BY <1>4, OversAreNext DEF LeftBytes
  <2>2. PromptSlots(trace', {}) = {}
    BY DEF PromptSlots
  <2> QED
    BY <2>1, <2>2, FS_EmptySet
<1> QED
  BY <1>2, <1>3, <1>5 DEF Conserved

\* No byte is lost between the cache and the reports of a run: what the cache
\* held before the run and what was prefilled in it is in the cache or was
\* reported as evicted, unless a placement failed, and there is never more,
\* whatever was evicted from whichever tier in between, provided that a prefill
\* takes some time.
THEOREM BytesAreConserved ==
    ASSUME PrefillsTakeTime
    PROVE  ExpSpec => []BytesConserved
<1> DEFINE I == Conserved /\ bytes_before \in Nat
<1>1. ExpInit => I
  BY DEF ExpInit, OrderInit, Init, NewServing, Conserved, Running
<1>2. ExpInv /\ ExpInv' /\ I /\ [ExpNext]_expVars => I'
  <2>1. CASE Submit
    BY <2>1, ConservedSubmit
  <2>2. CASE Serve
    BY <2>2, ConservedStep DEF Serve, historyVars
  <2>3. CASE UNCHANGED expVars
    <3>1. /\ UNCHANGED vars /\ bytes_before' = bytes_before
      BY <2>3 DEF expVars, historyVars
    <3>2. /\ queue' = queue /\ trace' = trace /\ in_flight' = in_flight
          /\ results' = results /\ cache' = cache /\ stats' = stats
      BY <3>1 DEF vars, simVars, clusterVars, cacheVars
    <3>3. Prefilled' = Prefilled /\ Found' = Found /\ (Running' <=> Running)
      BY <3>2 DEF Prefilled, WasPrefilled, Pending, Found, CachedBytes, Running
    <3> QED
      BY <3>1, <3>2, <3>3 DEF Conserved, LeftBytes
  <2> QED
    BY <2>1, <2>2, <2>3 DEF ExpNext
<1>3. I => BytesConserved
  BY ConservedIs
<1> QED
  BY <1>1, <1>2, <1>3, ExpAlways, PTL DEF ExpSpec

-----------------------------------------------------------------------------
(* A warm cache and the clocks of its runs *)

LEMMA QueueAhead ==
    Inv => /\ now_ns \in Nat
           /\ \A e \in queue : e.time_ns \in Nat /\ e.time_ns >= now_ns
<1> SUFFICES ASSUME Inv
             PROVE  /\ now_ns \in Nat
                    /\ \A e \in queue : e.time_ns \in Nat /\ e.time_ns >= now_ns
  OBVIOUS
<1>1. ServingInv(Sources, FetchKind)
  BY DEF Inv
<1> QED
  BY <1>1, SomeFetches, EventParts, Zenon DEF ServingInv, Types

LEMMA QueueAheadNext ==
    Inv' => /\ now_ns' \in Nat
            /\ \A e \in queue' : e.time_ns \in Nat /\ e.time_ns >= now_ns'
<1>1. (Inv => /\ now_ns \in Nat
              /\ \A e \in queue : e.time_ns \in Nat /\ e.time_ns >= now_ns)'
  BY QueueAhead, PTL
<1> QED
  BY <1>1

\* Only one event is the next.
LEMMA OnlyNext ==
    ASSUME Inv, NEW e, IsNext(e), NEW f, IsNext(f)
    PROVE  e = f
<1>1. /\ e \in queue /\ f \in queue
      /\ e # f => Before(e, f) /\ Before(f, e)
  BY DEF IsNext
<1>2. /\ e.time_ns \in Nat /\ f.time_ns \in Nat
      /\ e.seq \in Nat /\ f.seq \in Nat
  BY <1>1, SomeFetches, EventParts DEF Inv
<1> QED
  BY <1>1, <1>2 DEF Before

\* No two objects are found under one key.
LEMMA OnlyHit ==
    ASSUME NEW r, NEW j \in Hit(r), NEW k \in Hit(r)
    PROVE  j = k
BY DEF Hit, KV!Lookup

LEMMA HitNowIs ==
    ASSUME Inv, NEW e, IsNext(e)
    PROVE  HitNow = IF e.kind.tag = "RequestArrival" THEN Hit(e.kind.request_id)
                    ELSE {}
<1>1. {f \in Pending("RequestArrival") : IsNext(f)}
        = IF e.kind.tag = "RequestArrival" THEN {e} ELSE {}
  BY OnlyNext DEF Pending, IsNext
<1> QED
  BY <1>1 DEF HitNow

OnGpu(c, k) == c.objects[k].location = KV!On("Gpu")

LastOf(c, k) == c.objects[k].last_access_ns

\* The cached object k was not used in this step, or it is used now, which the
\* cache knows if the object is on the GPU.
AgesRightly(k) ==
    \/ /\ k \in DOMAIN cache.objects
       /\ used'[k] = used[k]
       /\ OnGpu(cache', k) => OnGpu(cache, k) /\ LastOf(cache', k) = LastOf(cache, k)
    \/ /\ used'[k] = <<runs, now_ns'>>
       /\ OnGpu(cache', k) => LastOf(cache', k) = now_ns'

\* No object of its tier that stays was accessed before the one that goes.
LeavesInOrder ==
    \A v \in DOMAIN cache.objects \ DOMAIN cache'.objects,
       k \in DOMAIN cache.objects \cap DOMAIN cache'.objects :
        cache.objects[v].location = cache.objects[k].location
          => LastOf(cache, v) <= LastOf(cache, k)

AllAge ==
    /\ DOMAIN used' = DOMAIN cache'.objects
    /\ \A k \in DOMAIN cache'.objects : AgesRightly(k)
    /\ LeavesInOrder

LEMMA StoredKeep ==
    ASSUME NEW c, CacheGood(c), NEW b \in Builds, c.next_kv_id < MaxKvId,
           NEW s \in Session, NEW n \in Tokens, NEW t \in Nat,
           NEW a \in KV!Placements(b.policy, c, s, n, t)
    PROVE  /\ \A k \in DOMAIN a.cache.objects :
                 \/ k \in DOMAIN c.objects /\ a.cache.objects[k] = c.objects[k]
                 \/ k \notin DOMAIN c.objects /\ LastOf(a.cache, k) = t
           /\ \A v \in DOMAIN c.objects \ DOMAIN a.cache.objects,
                 k \in DOMAIN c.objects \cap DOMAIN a.cache.objects :
                 c.objects[v].location = c.objects[k].location
                   => LastOf(c, v) <= LastOf(c, k)
<1>1. Surroundings /\ P!Good(c) /\ b.policy \in {d.policy : d \in Builds}
  BY Surrounded DEF CacheGood
<1>2. a \in P!Placements(b.policy, c, s, n, t)
  BY SamePlacements
<1>3. /\ \A k \in DOMAIN a.cache.objects :
            \/ k \in DOMAIN c.objects /\ a.cache.objects[k] = c.objects[k]
            \/ /\ k \notin DOMAIN c.objects
               /\ a.cache.objects[k].last_access_ns = t
      /\ \A v \in DOMAIN c.objects \ DOMAIN a.cache.objects,
            k \in DOMAIN c.objects \cap DOMAIN a.cache.objects :
            c.objects[v].location = c.objects[k].location
              => P!LastAccess(c, v) <= P!LastAccess(c, k)
  BY <1>1, <1>2, P!PlacementsKeep, Zenon DEF Surroundings
<1> QED
  BY <1>3 DEF LastOf, P!LastAccess

\* A handler that leaves the cache alone, and does not hit on the GPU.
LEMMA UntouchedAges ==
    ASSUME Uses, cache' = cache, \A k \in HitNow : ~OnGpu(cache, k)
    PROVE  AllAge
<1>1. Placed = {}
  BY DEF Placed
<1>2. used' = [k \in DOMAIN cache.objects |->
                 IF k \in HitNow THEN <<runs, now_ns'>> ELSE used[k]]
  BY <1>1 DEF Uses
<1> QED
  BY <1>2 DEF AllAge, AgesRightly, LeavesInOrder

LEMMA ArrivalAges ==
    ASSUME Inv, Uses, NEW e, NEW r, OnArrival(e, r)
    PROVE  AllAge
<1>1. ArrivalOf(e, r)
  BY Zenon DEF OnArrival, OnGpuHit, OnFetchHit, OnFetchError, OnMiss
<1>2. /\ IsNext(e) /\ e.kind.tag = "RequestArrival" /\ e.kind.request_id = r
  BY <1>1 DEF ArrivalOf
<1>3. Running /\ r \in Request /\ HitNow = Hit(r)
  BY <1>2, Given, HitNowIs
<1>4. \A k : OnGpu(cache, k) => TierOf(k) = "Gpu"
  BY DEF OnGpu, TierOf, KV!On
<1>5. CASE OnGpuHit(e, r)
  <2>1. PICK k \in GpuHit(r) : cache' = KV!Touched(cache, k, ClockAt(e))
    BY <1>5 DEF OnGpuHit
  <2>2. k \in DOMAIN cache.objects /\ HitNow = {k}
    BY <1>3, <2>1, HitParts, OnlyHit DEF GpuHit
  <2>3. now_ns' = ClockAt(e)
    BY <1>5 DEF OnGpuHit, Commit, StepAndSchedule
  <2>4. cache'.objects = [cache.objects EXCEPT
                            ![k] = [@ EXCEPT !.last_access_ns = now_ns']]
    BY <2>1, <2>3 DEF KV!Touched, KV!With
  <2>5. DOMAIN cache'.objects = DOMAIN cache.objects /\ Placed = {}
    BY <2>4 DEF Placed
  <2>6. used' = [j \in DOMAIN cache.objects |->
                   IF j = k THEN <<runs, now_ns'>> ELSE used[j]]
    BY <2>2, <2>5 DEF Uses
  <2>7. LastOf(cache', k) = now_ns'
    <3>1. cache.objects[k] \in KV!KvObject
      BY <2>2, CacheGoodParts DEF Inv, CacheInv
    <3> QED
      BY <2>2, <2>4, <3>1 DEF LastOf, KV!KvObject
  <2>8. \A j \in DOMAIN cache.objects \ {k} : cache'.objects[j] = cache.objects[j]
    BY <2>4
  <2>9. \A j \in DOMAIN cache'.objects : AgesRightly(j)
    BY <2>5, <2>6, <2>7, <2>8 DEF AgesRightly, OnGpu, LastOf
  <2> QED
    BY <2>5, <2>6, <2>9 DEF AllAge, LeavesInOrder
<1>6. CASE OnFetchHit(e, r) \/ OnFetchError(e, r)
  <2>1. (\E k : k \in FetchHit(r)) /\ cache' = cache
    BY <1>6, Zenon DEF OnFetchHit, OnFetchError
  <2>2. PICK k : k \in Hit(r) /\ TierOf(k) # "Gpu"
    BY <2>1 DEF FetchHit, FetchTier
  <2> QED
    BY <1>3, <1>4, <2>1, <2>2, OnlyHit, UntouchedAges
<1>7. CASE OnMiss(e, r)
  BY <1>3, <1>4, <1>7, UntouchedAges DEF OnMiss, GpuHit
<1> QED
  BY <1>5, <1>6, <1>7 DEF OnArrival

LEMMA PrefillDoneAges ==
    ASSUME Inv, PhasesKnown, Uses, NEW e, OnPrefillDone(e)
    PROVE  AllAge
<1> DEFINE r == e.kind.request_id
           now == ClockAt(e)
           n == trace[r].prompt_tokens
<1>1. /\ IsNext(e) /\ e.kind.tag = "PrefillDone" /\ Store(r, now)
      /\ now_ns' = now
  BY DEF OnPrefillDone, Commit, StepAndSchedule
<1>2. CacheInv /\ trace \in Traces /\ r \in Request /\ e \in queue /\ now \in Nat
  BY <1>1, Given
<1>3. HitNow = {}
  BY <1>1, HitNowIs
<1>4. CASE n = 0
  BY <1>1, <1>3, <1>4, UntouchedAges DEF Store
<1>5. CASE n # 0
  <2>1. PICK a \in Storing(r, now) : cache' = a.cache
    BY <1>1, <1>5 DEF Store
  <2>2. PICK b \in Builds : policy = b.policy
    BY <1>2 DEF CacheInv
  <2>3. a \in KV!Placements(b.policy, cache, trace[r].session_id, n, now)
    BY <2>1, <2>2 DEF Storing
  <2>4. /\ cache.next_kv_id < MaxKvId /\ CacheGood(cache)
        /\ n \in Tokens /\ trace[r].session_id \in Session
    BY <1>1, <1>2, IdLeft, TraceParts DEF CacheInv
  <2> HIDE DEF now, n
  <2>5. /\ \A k \in DOMAIN cache'.objects :
              \/ k \in DOMAIN cache.objects /\ cache'.objects[k] = cache.objects[k]
              \/ k \notin DOMAIN cache.objects /\ LastOf(cache', k) = now
        /\ LeavesInOrder
    BY <1>2, <2>1, <2>3, <2>4, StoredKeep DEF LeavesInOrder
  <2>6. used' = [k \in DOMAIN cache'.objects |->
                   IF k \notin DOMAIN cache.objects THEN <<runs, now>> ELSE used[k]]
    BY <1>1, <1>3 DEF Uses, Placed
  <2>7. \A k \in DOMAIN cache'.objects : AgesRightly(k)
    BY <1>1, <2>5, <2>6 DEF AgesRightly, OnGpu, LastOf
  <2> QED
    BY <2>5, <2>6, <2>7 DEF AllAge
<1> QED
  BY <1>4, <1>5

LEMMA EveryHandlerAges ==
    ASSUME Inv, PhasesKnown, HandleEvent, Uses
    PROVE  AllAge /\ runs' = runs /\ \E e \in queue : now_ns' = e.time_ns
<1>1. PICK e : \/ \E r \in Request : OnArrival(e, r)
               \/ OnFetchDone(e) \/ OnPrefillDone(e) \/ OnDecodeDone(e)
  BY DEF HandleEvent
<1>2. IsNext(e) /\ now_ns' = ClockAt(e) /\ runs' = runs
  BY <1>1, Zenon DEF OnArrival, OnGpuHit, OnFetchHit, OnFetchError, OnMiss, ArrivalOf,
              OnFetchDone, OnPrefillDone, OnDecodeDone, DecodeDone, Commit,
              StepAndSchedule
<1>3. ClockAt(e) = e.time_ns /\ e \in queue
  BY <1>2, SomeFetches, DeliveredOnTime DEF Inv, IsNext
<1>4. CASE OnFetchDone(e) \/ OnDecodeDone(e)
  <2>1. cache' = cache /\ e.kind.tag # "RequestArrival"
    BY <1>4 DEF OnFetchDone, OnDecodeDone, cacheVars
  <2> QED
    BY <1>2, <1>3, <2>1, HitNowIs, UntouchedAges
<1> QED
  BY <1>1, <1>2, <1>3, <1>4, ArrivalAges, PrefillDoneAges

\* When each object was last used, which the cache knows of those on the GPU.
UsesKnown ==
    /\ DOMAIN used = DOMAIN cache.objects
    /\ \A k \in DOMAIN used :
          /\ used[k][1] \in 1 .. runs /\ used[k][2] \in Nat
          /\ OnGpu(cache, k) => used[k][2] = LastOf(cache, k)

\* Nothing of a run happens before its batch starts.
AfterStart ==
    runs > 0 =>
        /\ runs \in DOMAIN plan /\ plan[runs].start_ns \in Nat
        /\ \A e \in queue : e.time_ns >= plan[runs].start_ns
        /\ queue = {} => now_ns >= plan[runs].start_ns

\* What was used in an earlier run was used at an earlier time.
RunsApart ==
    \A k \in DOMAIN used :
        /\ used[k][1] = runs => used[k][2] <= now_ns
        /\ used[k][1] < runs => used[k][2] < plan[runs].start_ns
        /\ \A j \in DOMAIN used :
              used[j][1] < used[k][1] => used[j][2] < used[k][2]

UseInv == UsesKnown /\ AfterStart /\ (~restarted => RunsApart)

LEMMA UseSubmit == ExpInv /\ UseInv /\ Submit => UseInv'
<1> SUFFICES ASSUME ExpInv, UseInv, Submit PROVE UseInv'
  OBVIOUS
<1> DEFINE config == plan[runs + 1]
<1>1. /\ StartRun(Generated(config)) /\ Uses /\ plan' = plan
      /\ restarted' = (restarted \/ (runs > 0 /\ config.start_ns <= now_ns))
      /\ runs < Len(plan)
  BY DEF Submit
<1>2. /\ runs' = runs + 1 /\ cache' = cache /\ queue = {}
      /\ queue' = Arrivals(Generated(config)) /\ runs \in Nat /\ now_ns \in Nat
  BY <1>1, QueueAhead, CacheRunnerAssumption DEF StartRun, StartServing, ExpInv, Inv
<1>3. runs' \in DOMAIN plan /\ config \in TraceConfig /\ Generated(config) \in Traces
  <2>1. plan \in Plans
    BY DEF ExpInv, PlanServed
  <2>2. Len(plan) <= MaxRuns
        /\ \A i \in DOMAIN plan : plan[i] \in TraceConfig /\ Generated(plan[i]) \in Traces
    BY <2>1, ExperimentAssumption
  <2>3. runs + 1 \in DOMAIN plan
    BY <1>1, <1>2, <2>2, CacheRunnerAssumption
  <2> QED
    BY <1>2, <2>2, <2>3
<1>4. DOMAIN used' = DOMAIN used /\ \A k \in DOMAIN used : used'[k] = used[k]
  <2>1. HitNow = {} /\ Placed = {}
    BY <1>2 DEF HitNow, Pending, Placed
  <2>2. /\ DOMAIN used' = DOMAIN cache.objects
        /\ \A k \in DOMAIN cache.objects : used'[k] = used[k]
    <3>1. cache' = cache /\ Uses
      BY <1>1, <1>2
    <3> QED
      BY ONLY <2>1, <3>1 DEF Uses
  <2>3. DOMAIN used = DOMAIN cache.objects
    BY DEF UseInv, UsesKnown
  <2> QED
    BY <2>2, <2>3
<1>5. UsesKnown'
  BY <1>2, <1>4 DEF UseInv, UsesKnown
<1>6. AfterStart'
  <2>1. config.start_ns \in Nat /\ config.inter_arrival_ns \in Nat
    BY <1>3 DEF TraceConfig
  <2>2. DOMAIN Generated(config) = Request /\ Request # {}
    BY <1>3, CacheRunnerAssumption
  <2>3. ASSUME NEW r \in Request PROVE Generated(config)[r].arrival_ns >= config.start_ns
    <3>1. /\ r \in Nat
          /\ Generated(config)[r].arrival_ns
               = config.start_ns + r * config.inter_arrival_ns
      BY <2>2, ServingAssumption, Zenon DEF Generated
    <3>2. r * config.inter_arrival_ns \in Nat
      BY <2>1, <3>1
    <3> QED
      BY <2>1, <3>1, <3>2
  <2>4. ASSUME NEW e \in queue' PROVE e.time_ns >= config.start_ns
    <3>1. PICK r \in Request : e.time_ns = Generated(config)[r].arrival_ns
      <4> DEFINE tr == Generated(config)
      <4>1. e \in Arrivals(tr) /\ \A r \in Request : tr[r].arrival_ns \in Nat
        BY <1>2, <1>3, TraceParts
      <4> HIDE DEF tr
      <4>2. \E r \in Request : e.time_ns = tr[r].arrival_ns
        BY <4>1, ArrivalsNumbered
      <4> QED
        BY <4>2 DEF tr
    <3> QED
      BY <2>3, <3>1
  <2>5. queue' # {}
    BY <1>2, <2>2, Zenon DEF Arrivals
  <2> QED
    BY <1>1, <1>2, <1>3, <2>1, <2>4, <2>5 DEF AfterStart
<1>7. ASSUME ~restarted' PROVE RunsApart'
  <2>1. ~restarted /\ (runs > 0 => config.start_ns > now_ns)
    <3> DEFINE B == runs > 0 /\ config.start_ns <= now_ns
    <3>1. config.start_ns \in Nat
      BY <1>3 DEF TraceConfig
    <3>2. restarted' = (restarted \/ B)
      BY <1>1
    <3>3. ~B => (runs > 0 => config.start_ns > now_ns)
      BY <1>2, <3>1
    <3> HIDE DEF B
    <3> QED
      BY <1>7, <3>2, <3>3, Zenon
  <2>2. ASSUME NEW k \in DOMAIN used
        PROVE  used[k][1] < runs' /\ used[k][2] < config.start_ns
    <3>1. /\ used[k][1] \in 1 .. runs /\ used[k][2] \in Nat
          /\ used[k][1] = runs => used[k][2] <= now_ns
          /\ used[k][1] < runs => used[k][2] < plan[runs].start_ns
      BY <2>1 DEF UseInv, UsesKnown, RunsApart
    <3>2. runs > 0 /\ config.start_ns \in Nat
      BY <1>2, <1>3, <3>1 DEF TraceConfig
    <3>3. plan[runs].start_ns \in Nat /\ now_ns >= plan[runs].start_ns
      BY <1>2, <3>2 DEF UseInv, AfterStart
    <3> QED
      BY <1>2, <2>1, <3>1, <3>2, <3>3
  <2>3. \A k, j \in DOMAIN used : used[j][1] < used[k][1] => used[j][2] < used[k][2]
    BY <2>1 DEF UseInv, RunsApart
  <2>4. \A k \in DOMAIN used : used[k][1] # runs'
    BY <1>2, <2>2 DEF UseInv, UsesKnown
  <2> QED
    BY <1>1, <1>2, <1>4, <2>2, <2>3, <2>4 DEF RunsApart
<1> QED
  BY <1>5, <1>6, <1>7 DEF UseInv

LEMMA UseServe == ExpInv /\ ExpInv' /\ UseInv /\ Serve => UseInv'
<1> SUFFICES ASSUME ExpInv, ExpInv', UseInv, Serve PROVE UseInv'
  OBVIOUS
<1>1. /\ AllAge /\ runs' = runs /\ plan' = plan /\ restarted' = restarted
      /\ \E e \in queue : now_ns' = e.time_ns
  BY EveryHandlerAges DEF Serve, ExpInv, historyVars
<1>2. /\ now_ns \in Nat /\ now_ns' \in Nat /\ runs \in Nat /\ runs > 0
      /\ now_ns' >= now_ns
      /\ \A e \in queue' : e.time_ns \in Nat /\ e.time_ns >= now_ns'
  <2>1. PICK e \in queue : now_ns' = e.time_ns
    BY <1>1
  <2>2. Running
    BY SomeFetches, EventParts DEF ExpInv, Inv
  <2>3. runs \in Nat /\ runs # 0
    BY <2>2, CacheRunnerAssumption DEF ExpInv, Inv
  <2> QED
    BY <2>1, <2>3, QueueAhead, QueueAheadNext DEF ExpInv
<1> DEFINE start == plan[runs].start_ns
<1>3. start \in Nat /\ now_ns' >= start /\ runs \in DOMAIN plan
  BY <1>1, <1>2 DEF UseInv, AfterStart
<1>4. AfterStart'
  BY <1>1, <1>2, <1>3 DEF AfterStart
<1>5. \A k \in DOMAIN used' :
         \/ /\ k \in DOMAIN used /\ used'[k] = used[k]
            /\ OnGpu(cache', k) => /\ OnGpu(cache, k)
                                   /\ LastOf(cache', k) = LastOf(cache, k)
         \/ /\ used'[k] = <<runs, now_ns'>>
            /\ OnGpu(cache', k) => LastOf(cache', k) = now_ns'
  BY <1>1 DEF AllAge, AgesRightly, UseInv, UsesKnown
<1>6. UsesKnown'
  <2>1. DOMAIN used' = DOMAIN cache'.objects
    BY <1>1 DEF AllAge
  <2>2. ASSUME NEW k \in DOMAIN used'
        PROVE  /\ used'[k][1] \in 1 .. runs /\ used'[k][2] \in Nat
               /\ OnGpu(cache', k) => used'[k][2] = LastOf(cache', k)
    <3>1. CASE k \in DOMAIN used /\ used'[k] = used[k]
               /\ (OnGpu(cache', k) => /\ OnGpu(cache, k)
                                       /\ LastOf(cache', k) = LastOf(cache, k))
      BY <3>1 DEF UseInv, UsesKnown
    <3>2. CASE used'[k] = <<runs, now_ns'>>
               /\ (OnGpu(cache', k) => LastOf(cache', k) = now_ns')
      BY <1>2, <3>2
    <3> QED
      BY <1>5, <3>1, <3>2
  <2> QED
    BY <1>1, <2>1, <2>2 DEF UsesKnown, OnGpu, LastOf
<1>7. ASSUME ~restarted PROVE RunsApart'
  <2>1. \A k \in DOMAIN used :
           /\ used[k][1] \in 1 .. runs /\ used[k][2] \in Nat
           /\ used[k][1] = runs => used[k][2] <= now_ns
           /\ used[k][1] < runs => used[k][2] < start
           /\ \A j \in DOMAIN used :
                 used[j][1] < used[k][1] => used[j][2] < used[k][2]
    BY <1>7 DEF UseInv, UsesKnown, RunsApart
  <2>2. \A k \in DOMAIN used' : \/ k \in DOMAIN used /\ used'[k] = used[k]
                                \/ used'[k][1] = runs /\ used'[k][2] = now_ns'
    BY <1>5
  <2> HIDE DEF start
  <2>3. ASSUME NEW k \in DOMAIN used'
        PROVE  /\ used'[k][1] \in 1 .. runs /\ used'[k][2] \in Nat
               /\ used'[k][1] = runs => used'[k][2] <= now_ns'
               /\ used'[k][1] < runs => used'[k][2] < start
    BY <1>2, <2>1, <2>2
  <2>4. ASSUME NEW k \in DOMAIN used', NEW j \in DOMAIN used',
               used'[j][1] < used'[k][1]
        PROVE  used'[j][2] < used'[k][2]
    <3>1. used'[j][1] < runs
      BY <1>2, <2>3, <2>4
    <3>2. j \in DOMAIN used /\ used'[j] = used[j] /\ used'[j][2] < start
      BY <1>2, <2>2, <2>3, <3>1
    <3>3. CASE used'[k][1] = runs /\ used'[k][2] = now_ns'
      BY <1>2, <1>3, <2>3, <3>2, <3>3 DEF start
    <3>4. CASE k \in DOMAIN used /\ used'[k] = used[k]
      BY <2>1, <2>4, <3>2, <3>4
    <3> QED
      BY <2>2, <3>3, <3>4
  <2> QED
    BY <1>1, <2>3, <2>4 DEF RunsApart, start
<1> QED
  BY <1>1, <1>4, <1>6, <1>7 DEF UseInv

\* What is evicted from the GPU tier was not used later than what stays there,
\* in whichever runs they were used, as long as every batch starts after the
\* end of the last: hits and placements tell the cache of every use of an object
\* on the GPU, and the clocks put the uses of two runs in order.
THEOREM WarmEvictionIsLru == ExpSpec => WarmEvictsLruFromGpu
<1>1. ExpInit => UseInv
  <2> SUFFICES ASSUME ExpInit PROVE UseInv
    OBVIOUS
  <2>1. used = <<>> /\ runs = 0
    BY DEF ExpInit, OrderInit, Init
  <2>2. cache.objects = <<>>
    BY DEF ExpInit, OrderInit, Init, KV!NewCache
  <2> QED
    BY <2>1, <2>2 DEF UseInv, UsesKnown, AfterStart, RunsApart
<1>2. ExpInv /\ ExpInv' /\ UseInv /\ [ExpNext]_expVars => UseInv'
  <2>1. CASE UNCHANGED expVars
    <3>1. /\ used' = used /\ plan' = plan /\ restarted' = restarted
          /\ queue' = queue /\ now_ns' = now_ns /\ runs' = runs /\ cache' = cache
      BY <2>1 DEF expVars, historyVars, vars, simVars, clusterVars, cacheVars
    <3> QED
      BY <3>1 DEF UseInv, UsesKnown, AfterStart, RunsApart
  <2> QED
    BY <2>1, UseSubmit, UseServe DEF ExpNext
<1>3. ExpInv /\ UseInv /\ [ExpNext]_expVars
        => [restarted \/ ~EvictsInUse("Gpu")]_expVars
  <2> SUFFICES ASSUME ExpInv, UseInv, ExpNext, ~restarted, EvictsInUse("Gpu")
               PROVE  FALSE
    OBVIOUS
  <2>1. PICK k \in DOMAIN cache.objects \cap DOMAIN cache'.objects,
             v \in DOMAIN cache.objects \ DOMAIN cache'.objects :
           OnGpu(cache, k) /\ OnGpu(cache, v) /\ UsedBefore(k, v)
    BY DEF EvictsInUse, OnGpu
  <2>2. Serve
    BY <2>1 DEF ExpNext, Submit, StartRun
  <2>3. LastOf(cache, v) <= LastOf(cache, k)
    BY <2>1, <2>2, EveryHandlerAges DEF Serve, ExpInv, AllAge, LeavesInOrder, OnGpu
  <2>4. /\ used[k][2] = LastOf(cache, k) /\ used[v][2] = LastOf(cache, v)
        /\ used[k][2] \in Nat /\ used[v][2] \in Nat
        /\ used[k][1] < used[v][1] => used[k][2] < used[v][2]
    BY <2>1 DEF UseInv, UsesKnown, RunsApart
  <2> QED
    BY <2>1, <2>3, <2>4 DEF UsedBefore
<1> QED
  BY <1>1, <1>2, <1>3, ExpAlways, PTL DEF ExpSpec, WarmEvictsLruFromGpu

-----------------------------------------------------------------------------
(* A cache from which nothing has been evicted *)

KeysOf(c) == {KV!KeyOf(c.objects[k]) : k \in DOMAIN c.objects}

\* Every object that was allocated is there.
Intact(c) == DOMAIN c.objects = 0 .. (c.next_kv_id - 1)

\* Every object is where a policy places them.
Usable(c) ==
    \A k \in DOMAIN c.objects : \E tier \in KV!Tier : c.objects[k].location = KV!On(tier)

\* Every object's key is in the index.
Indexed(c) == KeysOf(c) \subseteq DOMAIN c.by_session_prefix

\* From c to d the cache may have gained the keys K.  If it has lost nothing, it
\* has gained them, and finds what it found.
Grows(c, d, K) ==
    /\ Usable(c) => Usable(d)
    /\ KeysOf(d) \subseteq KeysOf(c) \cup K
    /\ Intact(d) => /\ Intact(c)
                    /\ KeysOf(c) \cup K \subseteq KeysOf(d)
                    /\ Indexed(c) => Indexed(d)

LEMMA IntactIs ==
    ASSUME NEW c, CacheGood(c)
    PROVE  Intact(c) <=> Cardinality(DOMAIN c.objects) = c.next_kv_id
<1> DEFINE n == c.next_kv_id
           T == 0 .. (n - 1)
<1>1. n \in Nat /\ DOMAIN c.objects \subseteq T
  <2>1. /\ n \in 0 .. MaxKvId /\ MaxKvId \in Nat /\ DOMAIN c.objects \subseteq KV!KvId
        /\ \A k \in DOMAIN c.objects : k < n
    BY CacheGoodParts, IdsBounded
  <2> QED
    BY <2>1 DEF KV!KvId
<1> HIDE DEF n
<1>2. IsFiniteSet(T) /\ Cardinality(T) = n
  BY <1>1, FS_Interval
<1>3. Cardinality(DOMAIN c.objects) = Cardinality(T) => DOMAIN c.objects = T
  BY <1>1, <1>2, FS_Subset
<1> QED
  BY <1>2, <1>3 DEF Intact, n

LEMMA StoredGrows ==
    ASSUME NEW c, CacheGood(c), NEW b \in Builds, c.next_kv_id < MaxKvId,
           NEW s \in Session, NEW n \in Tokens, NEW t \in Nat,
           NEW a \in KV!Placements(b.policy, c, s, n, t)
    PROVE  Grows(c, a.cache, {<<s, n>>})
<1> DEFINE id == c.next_kv_id
           there == DOMAIN c.objects \ a.evicted
<1>1. Surroundings /\ P!Good(c) /\ b.policy \in {d.policy : d \in Builds}
  BY Surrounded DEF CacheGood
<1>2. a \in P!Placements(b.policy, c, s, n, t)
  BY SamePlacements
<1>3. /\ id \in Nat /\ id \notin DOMAIN c.objects
      /\ a.cache.next_kv_id = id + 1
      /\ a.evicted \subseteq DOMAIN c.objects
      /\ DOMAIN a.cache.objects = there \cup (IF a.tier = None THEN {} ELSE {id})
      /\ \A k \in there : a.cache.objects[k] = c.objects[k]
      /\ a.tier # None =>
           /\ a.tier \in P!Tier
           /\ P!KeyOf(a.cache.objects[id]) = <<s, n>>
           /\ a.cache.objects[id].location = P!On(a.tier)
           /\ <<s, n>> \in DOMAIN a.cache.by_session_prefix
      /\ a.evicted = {} =>
           DOMAIN c.by_session_prefix \subseteq DOMAIN a.cache.by_session_prefix
  BY <1>1, <1>2, P!PlacementsExtend, Zenon DEF Surroundings
<1>4. a.tier # None =>
        /\ a.tier \in KV!Tier /\ KV!KeyOf(a.cache.objects[id]) = <<s, n>>
        /\ a.cache.objects[id].location = KV!On(a.tier)
  BY <1>3, SameKey DEF P!Tier, KV!Tier, P!On, KV!On
<1>5. Usable(c) => Usable(a.cache)
  BY <1>3, <1>4 DEF Usable
<1>6. KeysOf(a.cache) \subseteq KeysOf(c) \cup {<<s, n>>}
  BY <1>3, <1>4 DEF KeysOf
<1>7. ASSUME Intact(a.cache)
      PROVE  /\ Intact(c)
             /\ KeysOf(c) \cup {<<s, n>>} \subseteq KeysOf(a.cache)
             /\ Indexed(c) => Indexed(a.cache)
  <2>1. /\ DOMAIN a.cache.objects = 0 .. id
        /\ \A k \in DOMAIN c.objects : k \in 0 .. (id - 1)
    <3>1. id + 1 - 1 = id
      BY <1>3
    <3>2. \A k \in DOMAIN c.objects : k \in Nat /\ k < id
      BY CacheGoodParts DEF KV!KvId
    <3> QED
      BY <1>3, <1>7, <3>1, <3>2 DEF Intact
  <2> HIDE DEF id
  <2>2. id \in 0 .. id /\ \A k \in 0 .. (id - 1) : k \in 0 .. id /\ k # id
    BY <1>3
  <2>3. a.tier # None /\ there = 0 .. (id - 1)
    BY <1>3, <2>1, <2>2
  <2>4. DOMAIN c.objects = 0 .. (id - 1) /\ a.evicted = {}
    BY <1>3, <2>1, <2>3, Zenon
  <2>5. KeysOf(a.cache) = KeysOf(c) \cup {<<s, n>>}
    <3>1. KV!KeyOf(a.cache.objects[id]) = <<s, n>>
      BY <1>4, <2>3
    <3>2. DOMAIN a.cache.objects = DOMAIN c.objects \cup {id}
      BY <1>3, <2>3, <2>4
    <3>3. \A k \in DOMAIN c.objects : a.cache.objects[k] = c.objects[k]
      BY <1>3, <2>4
    <3> QED
      BY <3>1, <3>2, <3>3 DEF KeysOf
  <2> QED
    BY <1>3, <2>3, <2>4, <2>5 DEF Intact, Indexed, id
<1> QED
  BY <1>5, <1>6, <1>7 DEF Grows

LEMMA SameGrows == ASSUME NEW c PROVE Grows(c, c, {})
BY DEF Grows

LEMMA TouchedGrows ==
    ASSUME NEW c, CacheGood(c), NEW k \in DOMAIN c.objects, NEW t
    PROVE  Grows(c, KV!Touched(c, k, t), {})
<1> DEFINE d == KV!Touched(c, k, t)
           touched == [c.objects[k] EXCEPT !.last_access_ns = t]
<1>1. c.objects[k] \in KV!KvObject
  BY CacheGoodParts
<1>2. /\ KV!KeyOf(touched) = KV!KeyOf(c.objects[k])
      /\ touched.location = c.objects[k].location
  BY <1>1 DEF KV!KvObject, KV!KeyOf
<1>3. /\ d.objects = [c.objects EXCEPT ![k] = touched]
      /\ d.by_session_prefix = c.by_session_prefix /\ d.next_kv_id = c.next_kv_id
  BY DEF KV!Touched, KV!With
<1> HIDE DEF touched, d
<1>4. /\ DOMAIN d.objects = DOMAIN c.objects
      /\ \A j \in DOMAIN c.objects :
            /\ KV!KeyOf(d.objects[j]) = KV!KeyOf(c.objects[j])
            /\ d.objects[j].location = c.objects[j].location
  <2>1. \A j \in DOMAIN c.objects :
           d.objects[j] = IF j = k THEN touched ELSE c.objects[j]
    BY <1>3
  <2> QED
    BY <1>2, <1>3, <2>1
<1>5. KeysOf(d) = KeysOf(c)
  BY <1>4 DEF KeysOf
<1> QED
  BY <1>3, <1>4, <1>5 DEF Grows, Usable, Intact, Indexed, d

-----------------------------------------------------------------------------
(* What the handlers do to the keys and to the hits *)

\* The hits that the counters s stand for, pending fetches included.
HitsIn(s) == s.hits_gpu + s.hits_cpu + s.hits_remote + s.pending_fetches

\* From s to t so many hits more are counted, unless a fetch has failed.
Gains(s, t, hits) ==
    t.fetch_errors = 0 => s.fetch_errors = 0 /\ HitsIn(t) = HitsIn(s) + hits

LEMMA CountedGains ==
    ASSUME NEW s \in [DOMAIN NoStats -> Nat], NEW n
    PROVE  /\ Gains(s, Recomputed(Counted(s, {"hits_gpu"}), n), 1)
           /\ Gains(s, [Counted(s, {"pending_fetches"}) EXCEPT
                          !.fetched_bytes = @ + n], 1)
           /\ Gains(s, Recomputed(Counted(s, {"fetch_errors", "misses"}), n), 1)
           /\ Gains(s, Recomputed(Counted(s, {"misses"}), n), 0)
           /\ \A tier : s.pending_fetches # 0 =>
                 Gains(s, Recomputed([Counted(s, {CreditOf(tier)}) EXCEPT
                                        !.pending_fetches = KV!SatSub(@, 1)], n), 0)
           /\ Gains(s, Counted(s, {"placement_errors"}), 0)
           /\ Gains(s, [s EXCEPT !.evicted_bytes = @ + n], 0)
           /\ Gains(s, s, 0)
<1>1. /\ s.hits_gpu \in Nat /\ s.hits_cpu \in Nat /\ s.hits_remote \in Nat
      /\ s.misses \in Nat /\ s.fetch_errors \in Nat /\ s.pending_fetches \in Nat
      /\ DOMAIN s = DOMAIN NoStats
  BY CounterNames
<1>2. \A fs : /\ DOMAIN Counted(s, fs) = DOMAIN NoStats
              /\ \A f \in DOMAIN NoStats :
                    Counted(s, fs)[f] = IF f \in fs THEN s[f] + 1 ELSE s[f]
  BY CountedIs
<1>3. \A c : DOMAIN c = DOMAIN NoStats =>
        /\ HitsIn(Recomputed(c, n)) = HitsIn(c)
        /\ Recomputed(c, n).fetch_errors = c.fetch_errors
        /\ LET d == [c EXCEPT !.fetched_bytes = @ + n]
           IN  HitsIn(d) = HitsIn(c) /\ d.fetch_errors = c.fetch_errors
        /\ LET d == [c EXCEPT !.evicted_bytes = @ + n]
           IN  HitsIn(d) = HitsIn(c) /\ d.fetch_errors = c.fetch_errors
  BY CounterNames DEF HitsIn, Recomputed
<1>4. Gains(s, Recomputed(Counted(s, {"hits_gpu"}), n), 1)
  <2> DEFINE c == Counted(s, {"hits_gpu"})
  <2>1. HitsIn(c) = HitsIn(s) + 1 /\ c.fetch_errors = s.fetch_errors
    BY <1>1, <1>2, CounterNames DEF HitsIn
  <2>2. DOMAIN c = DOMAIN NoStats
    BY <1>2
  <2> QED
    BY <1>3, <2>1, <2>2, Zenon DEF Gains
<1>5. Gains(s, [Counted(s, {"pending_fetches"}) EXCEPT !.fetched_bytes = @ + n], 1)
  <2> DEFINE c == Counted(s, {"pending_fetches"})
  <2>1. HitsIn(c) = HitsIn(s) + 1 /\ c.fetch_errors = s.fetch_errors
    BY <1>1, <1>2, CounterNames DEF HitsIn
  <2>2. DOMAIN c = DOMAIN NoStats
    BY <1>2
  <2> HIDE DEF c
  <2> QED
    BY <1>3, <2>1, <2>2, Zenon DEF Gains, c
<1>6. Gains(s, Recomputed(Counted(s, {"fetch_errors", "misses"}), n), 1)
  <2> DEFINE c == Counted(s, {"fetch_errors", "misses"})
  <2>1. c.fetch_errors = s.fetch_errors + 1
    BY <1>2, CounterNames
  <2>2. DOMAIN c = DOMAIN NoStats
    BY <1>2
  <2> HIDE DEF c
  <2>3. Recomputed(c, n).fetch_errors = s.fetch_errors + 1
    BY <1>3, <2>1, <2>2, Zenon
  <2>4. s.fetch_errors + 1 # 0
    BY <1>1
  <2> QED
    BY <2>3, <2>4 DEF Gains, c
<1>7. Gains(s, Recomputed(Counted(s, {"misses"}), n), 0)
  <2> DEFINE c == Counted(s, {"misses"})
  <2>1. HitsIn(c) = HitsIn(s) + 0 /\ c.fetch_errors = s.fetch_errors
    BY <1>1, <1>2, CounterNames DEF HitsIn
  <2>2. DOMAIN c = DOMAIN NoStats
    BY <1>2
  <2> HIDE DEF c
  <2> QED
    BY <1>3, <2>1, <2>2, Zenon DEF Gains, c
<1>8. ASSUME NEW tier, s.pending_fetches # 0
      PROVE  Gains(s, Recomputed([Counted(s, {CreditOf(tier)}) EXCEPT
                                    !.pending_fetches = KV!SatSub(@, 1)], n), 0)
  <2> DEFINE c == Counted(s, {CreditOf(tier)})
             d == [c EXCEPT !.pending_fetches = KV!SatSub(@, 1)]
  <2>1. DOMAIN c = DOMAIN NoStats
    BY <1>2
  <2>2. c.pending_fetches = s.pending_fetches /\ c.fetch_errors = s.fetch_errors
        /\ c.hits_gpu = s.hits_gpu
        /\ c.hits_cpu + c.hits_remote = s.hits_cpu + s.hits_remote + 1
        /\ c.hits_cpu \in Nat /\ c.hits_remote \in Nat
    BY <1>1, <1>2, CounterNames DEF CreditOf
  <2> HIDE DEF c
  <2>3. KV!SatSub(c.pending_fetches, 1) = s.pending_fetches - 1
    BY <1>1, <1>8, <2>2 DEF KV!SatSub
  <2>4. /\ d.pending_fetches = s.pending_fetches - 1
        /\ d.fetch_errors = s.fetch_errors /\ d.hits_gpu = s.hits_gpu
        /\ d.hits_cpu = c.hits_cpu /\ d.hits_remote = c.hits_remote
        /\ DOMAIN d = DOMAIN NoStats
    BY <2>1, <2>2, <2>3, CounterNames
  <2> HIDE DEF d
  <2>5. HitsIn(d) = HitsIn(s) + 0
    BY <1>1, <2>2, <2>4 DEF HitsIn
  <2> QED
    BY <1>3, <2>4, <2>5, Zenon DEF Gains, c, d
<1>9. Gains(s, Counted(s, {"placement_errors"}), 0)
  <2> DEFINE c == Counted(s, {"placement_errors"})
  <2>1. HitsIn(c) = HitsIn(s) + 0 /\ c.fetch_errors = s.fetch_errors
    BY <1>1, <1>2, CounterNames DEF HitsIn
  <2> QED
    BY <2>1 DEF Gains
<1>10. HitsIn(s) = HitsIn(s) + 0
  BY <1>1 DEF HitsIn
<1>11. Gains(s, s, 0) /\ Gains(s, [s EXCEPT !.evicted_bytes = @ + n], 0)
  BY <1>1, <1>3, <1>10, Zenon DEF Gains
<1> QED
  BY <1>4, <1>5, <1>6, <1>7, <1>8, <1>9, <1>11

\* r finds KV that it can use.
Finds(r) == GpuHit(r) # {} \/ FetchHit(r) # {}

\* The keys that the handler of e adds.
Leaves(e) ==
    LET r == e.kind.request_id
    IN  IF e.kind.tag = "PrefillDone" /\ trace[r].prompt_tokens # 0
        THEN {KeyOfPrompt(r)} ELSE {}

\* The handler of e stores the KV of its prompt when its prefill is over, and
\* counts a hit when it arrives and finds some KV.
Reckons(e) ==
    /\ Grows(cache, cache', Leaves(e))
    /\ Gains(stats, stats',
             IF e.kind.tag = "RequestArrival" /\ Finds(e.kind.request_id) THEN 1 ELSE 0)
    /\ runs' = runs
    /\ \E q : Returns(e, q, Sources, FetchKind)

LEMMA ArrivalReckons ==
    ASSUME Inv, NEW e, NEW r, OnArrival(e, r)
    PROVE  Reckons(e)
<1>1. ArrivalOf(e, r) /\ runs' = runs
  BY Zenon DEF OnArrival, OnGpuHit, OnFetchHit, OnFetchError, OnMiss, ArrivalOf
<1>2. /\ IsNext(e) /\ e.kind.tag = "RequestArrival" /\ e.kind.request_id = r
      /\ Leaves(e) = {}
  BY <1>1 DEF ArrivalOf, Leaves
<1>3. /\ CacheGood(cache) /\ stats \in [DOMAIN NoStats -> Nat]
      /\ Running /\ r \in Request
  BY <1>2, Given DEF CacheInv
<1>4. \E q : Returns(e, q, Sources, FetchKind)
  BY ArrivalHandled DEF Handled
<1>5. CASE OnGpuHit(e, r)
  <2>1. PICK k \in GpuHit(r) : cache' = KV!Touched(cache, k, ClockAt(e))
    BY <1>5 DEF OnGpuHit
  <2>2. k \in DOMAIN cache.objects /\ Finds(r)
    BY <1>3, <2>1, HitParts DEF GpuHit, Finds
  <2>3. Grows(cache, cache', {})
    BY <1>3, <2>1, <2>2, TouchedGrows
  <2>4. stats' = Recomputed(Counted(stats, {"hits_gpu"}), trace[r].new_prompt_tokens)
    BY <1>5 DEF OnGpuHit
  <2>5. Gains(stats, stats', 1)
    BY <1>3, <2>4, CountedGains, Zenon
  <2> QED
    BY <1>1, <1>2, <1>4, <2>2, <2>3, <2>5 DEF Reckons
<1>6. CASE OnFetchHit(e, r)
  <2>1. PICK k \in FetchHit(r) :
           stats' = [Counted(stats, {"pending_fetches"}) EXCEPT
                       !.fetched_bytes = @ + cache.objects[k].bytes]
    BY <1>6 DEF OnFetchHit
  <2>2. Finds(r) /\ cache' = cache /\ Gains(stats, stats', 1)
    BY <1>3, <1>6, <2>1, CountedGains, Zenon DEF Finds, OnFetchHit
  <2> QED
    BY <1>1, <1>2, <1>4, <2>2, SameGrows DEF Reckons
<1>7. CASE OnFetchError(e, r)
  <2>1. /\ \E k : k \in FetchHit(r)
        /\ cache' = cache
        /\ stats' = Recomputed(Counted(stats, {"fetch_errors", "misses"}),
                               trace[r].prompt_tokens)
    BY <1>7 DEF OnFetchError
  <2>2. Finds(r) /\ Gains(stats, stats', 1)
    BY <1>3, <2>1, CountedGains, Zenon DEF Finds
  <2> QED
    BY <1>1, <1>2, <1>4, <2>1, <2>2, SameGrows DEF Reckons
<1>8. CASE OnMiss(e, r)
  <2>1. /\ ~Finds(r) /\ cache' = cache
        /\ stats' = Recomputed(Counted(stats, {"misses"}), trace[r].prompt_tokens)
    BY <1>8 DEF OnMiss, Finds
  <2>2. Gains(stats, stats', 0)
    BY <1>3, <2>1, CountedGains, Zenon
  <2> QED
    BY <1>1, <1>2, <1>4, <2>1, <2>2, SameGrows DEF Reckons
<1> QED
  BY <1>5, <1>6, <1>7, <1>8 DEF OnArrival

LEMMA FetchDoneReckons ==
    ASSUME Inv, PhasesKnown, CountsRight, NEW e, OnFetchDone(e)
    PROVE  Reckons(e)
<1>1. /\ IsNext(e) /\ e.kind.tag = "FetchDone" /\ cache' = cache /\ runs' = runs
      /\ Leaves(e) = {}
  BY DEF OnFetchDone, Leaves
<1>2. /\ stats \in [DOMAIN NoStats -> Nat] /\ Running /\ e \in queue
      /\ e.kind.request_id \in Request
  BY <1>1, Given DEF CacheInv
<1>3. stats.pending_fetches # 0
  <2>1. PhaseOf(e.kind.request_id) = "Fetching"
    BY <1>1, <1>2, PhasesOfEvents DEF PhasesKnown
  <2>2. e.kind.request_id \in Fetching /\ Fetching \in SUBSET Request
    BY <1>2, <2>1 DEF Fetching
  <2>3. IsFiniteSet(Fetching)
    BY <2>2, ServingAssumption, FS_Subset, Zenon
  <2>4. Cardinality(Fetching) # 0
    BY <2>2, <2>3, FS_EmptySet
  <2> QED
    BY <2>4 DEF CountsRight
<1>4. \E tier, n : stats' = Recomputed([Counted(stats, {CreditOf(tier)}) EXCEPT
                                          !.pending_fetches = KV!SatSub(@, 1)], n)
  BY Zenon DEF OnFetchDone
<1>5. Gains(stats, stats', 0)
  BY <1>2, <1>3, <1>4, CountedGains, Zenon
<1>6. \E q : Returns(e, q, Sources, FetchKind)
  BY FetchDoneHandled DEF Handled
<1> QED
  BY <1>1, <1>5, <1>6, SameGrows DEF Reckons

LEMMA PrefillDoneReckons ==
    ASSUME Inv, PhasesKnown, NEW e, OnPrefillDone(e)
    PROVE  Reckons(e)
<1> DEFINE r == e.kind.request_id
           now == ClockAt(e)
           n == trace[r].prompt_tokens
<1>1. /\ IsNext(e) /\ e.kind.tag = "PrefillDone" /\ Store(r, now) /\ runs' = runs
  BY DEF OnPrefillDone
<1>2. /\ CacheInv /\ trace \in Traces /\ r \in Request /\ e \in queue /\ now \in Nat
      /\ stats \in [DOMAIN NoStats -> Nat] /\ CacheGood(cache)
  BY <1>1, Given DEF CacheInv
<1>3. \E q : Returns(e, q, Sources, FetchKind)
  BY PrefillDoneHandled DEF Handled
<1>4. CASE n = 0
  <2>1. cache' = cache /\ stats' = stats /\ Leaves(e) = {}
    BY <1>1, <1>4 DEF Store, Leaves
  <2>2. Gains(stats, stats', 0)
    BY <1>2, <2>1, CountedGains, Zenon
  <2> QED
    BY <1>1, <1>3, <2>1, <2>2, SameGrows DEF Reckons
<1>5. CASE n # 0
  <2>1. PICK a \in Storing(r, now) :
           /\ cache' = a.cache
           /\ stats' = IF a.tier = None THEN Counted(stats, {"placement_errors"})
                       ELSE [stats EXCEPT
                               !.evicted_bytes = @ + KV!Bytes(cache, a.evicted)]
    BY <1>1, <1>5 DEF Store
  <2>2. PICK b \in Builds : policy = b.policy
    BY <1>2 DEF CacheInv
  <2>3. a \in KV!Placements(b.policy, cache, trace[r].session_id, n, now)
    BY <2>1, <2>2 DEF Storing
  <2>4. /\ cache.next_kv_id < MaxKvId /\ n \in Tokens /\ trace[r].session_id \in Session
    BY <1>1, <1>2, IdLeft, TraceParts
  <2>5. Leaves(e) = {<<trace[r].session_id, n>>}
    BY <1>1, <1>5 DEF Leaves, KeyOfPrompt
  <2> HIDE DEF now, n
  <2>6. Grows(cache, cache', Leaves(e))
    BY <1>2, <2>1, <2>3, <2>4, <2>5, StoredGrows, Zenon
  <2>7. Gains(stats, stats', 0)
    BY <1>2, <2>1, CountedGains, Zenon
  <2> QED
    BY <1>1, <1>3, <2>6, <2>7 DEF Reckons
<1> QED
  BY <1>4, <1>5

LEMMA EveryHandlerReckons ==
    ASSUME Inv, PhasesKnown, PhasesKnown', CountsRight, HandleEvent
    PROVE  \E e : Moves(e) /\ Reckons(e)
<1>1. ASSUME NEW e, NEW r, OnArrival(e, r) PROVE Moves(e) /\ Reckons(e)
  BY <1>1, ArrivalRecords, ArrivalReckons
<1>2. ASSUME NEW e, OnFetchDone(e) PROVE Moves(e) /\ Reckons(e)
  BY <1>2, FetchDoneRecords, FetchDoneReckons
<1>3. ASSUME NEW e, OnPrefillDone(e) PROVE Moves(e) /\ Reckons(e)
  BY <1>3, PrefillDoneRecords, PrefillDoneReckons
<1>4. ASSUME NEW e, OnDecodeDone(e) PROVE Moves(e) /\ Reckons(e)
  <2>1. /\ e.kind.tag = "DecodeDone" /\ cache' = cache /\ stats' = stats
        /\ runs' = runs /\ Leaves(e) = {}
    BY <1>4 DEF OnDecodeDone, cacheVars, Leaves
  <2>2. stats \in [DOMAIN NoStats -> Nat]
    BY DEF Inv, CacheInv
  <2>3. \E q : Returns(e, q, Sources, FetchKind)
    BY <1>4, DecodeDoneHandled DEF Handled
  <2>4. Gains(stats, stats', 0)
    BY <2>1, <2>2, CountedGains, Zenon
  <2> QED
    BY <1>4, <2>1, <2>3, <2>4, DecodeDoneRecords, SameGrows DEF Reckons
<1> QED
  BY <1>1, <1>2, <1>3, <1>4 DEF HandleEvent

-----------------------------------------------------------------------------
(* When prefills are over and requests arrive *)

\* The handler of e is a step of the experiment.
Handling(e) ==
    /\ ExpInv /\ ExpInv' /\ Moves(e) /\ Reckons(e)
    /\ plan' = plan /\ kept' = kept

LEMMA HandlingParts ==
    ASSUME NEW e, Handling(e)
    PROVE  /\ Inv /\ PhasesKnown /\ PhasesKnown' /\ Shaped /\ CountsRight
           /\ ServingInv(Sources, FetchKind) /\ CacheGood(cache)
           /\ IsNext(e) /\ e \in queue /\ Running /\ Running'
           /\ trace' = trace /\ runs' = runs /\ trace \in Traces
           /\ e.kind.request_id \in Request
           /\ e.kind.request_id \in DOMAIN in_flight
           /\ now_ns' = e.time_ns /\ e.time_ns \in Nat /\ now_ns \in Nat
           /\ now_ns <= e.time_ns
           /\ Prefilled = Overs /\ Prefilled' = Overs'
           /\ e.kind.tag \in {"RequestArrival", "FetchDone", "PrefillDone",
                              "DecodeDone"}
<1>1. /\ Inv /\ PhasesKnown /\ PhasesKnown' /\ Shaped /\ CountsRight
      /\ Moves(e) /\ Reckons(e)
  BY DEF Handling, ExpInv, ReportsInv
<1>2. /\ IsNext(e) /\ trace' = trace /\ runs' = runs
      /\ e.kind.tag \in {"RequestArrival", "FetchDone", "PrefillDone", "DecodeDone"}
  BY <1>1 DEF Moves, Reckons
<1>3. /\ ServingInv(Sources, FetchKind) /\ CacheGood(cache)
      /\ e \in queue /\ Running /\ trace \in Traces
      /\ e.kind.request_id \in Request /\ e.kind.request_id \in DOMAIN in_flight
  BY <1>1, <1>2, Given DEF CacheInv, Pool
<1>4. /\ now_ns' = e.time_ns /\ e.time_ns \in Nat /\ now_ns \in Nat
      /\ now_ns <= e.time_ns
  BY <1>1, <1>2, <1>3, MovedDomain, SomeFetches, DeliveredOnTime, Zenon DEF OthersKept
<1>5. Running'
  BY <1>2, <1>3 DEF Running
<1>6. Prefilled = Overs /\ Prefilled' = Overs'
  BY <1>3, <1>5, OversAre, OversAreNext DEF Handling
<1> QED
  BY <1>1, <1>2, <1>3, <1>4, <1>5, <1>6

\* The time at which a prefill was over stays what it was.
LEMMA OverStays ==
    ASSUME PrefillsTakeTime, NEW e, Handling(e), NEW s \in Request, Over(s),
           trace[s].prompt_tokens # 0
    PROVE  Over(s)' /\ PrefilledAt(s)' = PrefilledAt(s)
<1> DEFINE r == e.kind.request_id
           x == in_flight[s]
<1>1. /\ Inv /\ PhasesKnown /\ Shaped /\ Moves(e) /\ Running
      /\ ServingInv(Sources, FetchKind) /\ r \in Request /\ r \in DOMAIN in_flight
      /\ e \in queue
  BY HandlingParts DEF Handling
<1>2. DOMAIN in_flight = Request \ DOMAIN results
  BY <1>1 DEF ServingInv, Accounted
<1>3. CASE s # r
  <2>1. Over(s)'
    BY <1>1, <1>3, OthersOver
  <2>2. /\ s \in DOMAIN results <=> s \in DOMAIN results'
        /\ s \in DOMAIN results => results'[s] = results[s]
    <3>1. CASE e.kind.tag # "DecodeDone"
      BY <1>1, <3>1, MovedDomain, Zenon
    <3>2. CASE e.kind.tag = "DecodeDone"
      BY <1>1, <1>3, <3>2 DEF Moves, DecodeMoves
    <3> QED
      BY <3>1, <3>2
  <2>3. CASE s \in DOMAIN results
    BY <2>1, <2>2, <2>3 DEF PrefilledAt
  <2>4. CASE s \notin DOMAIN results
    <3>1. s \in DOMAIN in_flight \ {r} /\ x \in FlightOf(Sources)
      BY <1>1, <1>2, <1>3, <2>4, FlightParts
    <3>2. PhaseOf(s) \in {"DecodeQueued", "Decode"}
      BY <2>4 DEF Over, IsOver
    <3>3. \/ in_flight'[s] = x
          \/ \E t \in Stage :
                /\ PhaseOf(s) = WaitingPhase(t)
                /\ in_flight'[s] = StampOf(x, now_ns', t, trace[s])
      BY <1>1, <3>1, MovedDomain, Zenon DEF OthersKept
    <3>4. \A t \in Stage : PhaseOf(s) = WaitingPhase(t) => t = "Decode"
      BY <3>2 DEF Stage, WaitingPhase
    <3> HIDE DEF x
    <3>5. StampOf(x, now_ns', "Decode", trace[s]).prefill_done_ns = x.prefill_done_ns
      BY <3>1 DEF StampOf, FlightOf
    <3>6. in_flight'[s].prefill_done_ns = x.prefill_done_ns
      BY <3>3, <3>4, <3>5
    <3> QED
      BY <2>1, <2>2, <2>4, <3>6 DEF PrefilledAt, x
  <2> QED
    BY <2>3, <2>4
<1>4. CASE s = r
  <2>1. s \notin DOMAIN results /\ PhaseOf(s) = PhaseOfTag[e.kind.tag]
    BY <1>1, <1>2, <1>4 DEF PhasesKnown
  <2>2. IsOver(x, PhaseOfTag[e.kind.tag])
    BY <2>1 DEF Over
  <2>3. e.kind.tag = "DecodeDone" /\ x.prefill_done_ns # None
    BY <2>2, HandlingParts DEF IsOver, PhaseOfTag
  <2>4. s \in DOMAIN results' /\ results'[s] = Timeline(s)
    BY <1>1, <1>4, <2>3 DEF Moves, DecodeMoves
  <2>5. Timeline(s).prefill_done_ns = x.prefill_done_ns
    BY <2>3 DEF Timeline, Stamps
  <2>6. Over(s)'
    BY <1>1, <1>4, <2>3, MovedOver
  <2> QED
    BY <2>1, <2>4, <2>5, <2>6 DEF PrefilledAt
<1> QED
  BY <1>3, <1>4

\* A prefill is over when its end is delivered.
LEMMA OverNow ==
    ASSUME PrefillsTakeTime, NEW e, Handling(e), e.kind.tag = "PrefillDone"
    PROVE  LET r == e.kind.request_id
           IN  Over(r)' /\ PrefilledAt(r)' = e.time_ns
<1> DEFINE r == e.kind.request_id
           x == in_flight[r]
<1>1. /\ Inv /\ PhasesKnown /\ Shaped /\ Moves(e) /\ Running
      /\ ServingInv(Sources, FetchKind) /\ r \in DOMAIN in_flight
      /\ e \in queue
  BY HandlingParts DEF Handling
<1>2. Over(r)'
  BY <1>1, MovedOver
<1>3. x.prefill_done_ns = e.time_ns
  BY <1>1 DEF ServingInv, TimelineHonest, Pending
<1>4. x \in FlightOf(Sources) /\ r \notin DOMAIN results
  BY <1>1, FlightParts
<1>5. Goes(e, x, "Decode") /\ results' = results
  BY <1>1 DEF Moves, PrefillMoves
<1> HIDE DEF x
<1>6. in_flight'[r] = x \/ in_flight'[r] = StampOf(x, now_ns', "Decode", trace[r])
  BY <1>5 DEF Goes, SentAs
<1>7. in_flight'[r].prefill_done_ns = x.prefill_done_ns
  BY <1>4, <1>6, Zenon DEF StampOf, FlightOf
<1> QED
  BY <1>2, <1>3, <1>4, <1>5, <1>7 DEF PrefilledAt

\* No other prefill becomes over.
LEMMA OverBefore ==
    ASSUME PrefillsTakeTime, NEW e, Handling(e), NEW s \in Request, Over(s)',
           trace[s].prompt_tokens # 0,
           ~(e.kind.tag = "PrefillDone" /\ s = e.kind.request_id)
    PROVE  Over(s)
<1>1. Inv /\ PhasesKnown /\ Shaped /\ Moves(e)
  BY HandlingParts DEF Handling
<1>2. CASE s # e.kind.request_id
  BY <1>1, <1>2, OthersOver
<1>3. CASE s = e.kind.request_id
  BY <1>1, <1>3, MovedOver
<1> QED
  BY <1>2, <1>3

\* The arrivals were scheduled first: at one instant they come before whatever
\* the handlers have scheduled.
ArrivalsFirst ==
    Running =>
        /\ next_seq >= Cardinality(Request)
        /\ \A e \in queue :
              e.kind.tag = "RequestArrival" <=> e.seq < Cardinality(Request)

LEMMA ArrivalsFirstKept ==
    ASSUME NEW e, Handling(e), ArrivalsFirst
    PROVE  ArrivalsFirst'
<1> DEFINE N == Cardinality(Request)
<1>1. PICK q : Returns(e, q, Sources, FetchKind)
  BY DEF Handling, Reckons
<1>2. /\ Commit(e, q)
      /\ q.events \in Seq([time_ns : Nat, kind : FetchKind \cup GpuKind])
  BY <1>1 DEF Returns, Committable
<1>3. Delivered(e, q)
  BY <1>2, CommittedQueue
<1>4. N \in Nat /\ next_seq \in Nat /\ next_seq >= N
  BY IdsBounded, HandlingParts DEF ArrivalsFirst, ServingInv, Types
<1>5. \A i \in DOMAIN q.events : q.events[i].kind.tag # "RequestArrival"
  <2>1. \A i \in DOMAIN q.events : q.events[i].kind \in FetchKind \cup GpuKind
    <3> DEFINE X == [time_ns : Nat, kind : FetchKind \cup GpuKind]
    <3>1. \A x \in X : x.kind \in FetchKind \cup GpuKind
      OBVIOUS
    <3>2. q.events \in Seq(X)
      BY <1>2
    <3> HIDE DEF X
    <3>3. \A i \in DOMAIN q.events : q.events[i] \in X
      BY <3>2
    <3> QED
      BY <3>1, <3>3
  <2> QED
    BY <2>1 DEF FetchKind, GpuKind
<1> HIDE DEF N
<1>6. ASSUME NEW f \in queue' PROVE f.kind.tag = "RequestArrival" <=> f.seq < N
  <2>1. CASE f \in queue
    BY <2>1, HandlingParts DEF ArrivalsFirst, N
  <2>2. ASSUME NEW i \in DOMAIN q.events, f = NewEvent(q, i)
        PROVE  f.kind.tag = "RequestArrival" <=> f.seq < N
    <3>1. f.seq = next_seq + i - 1 /\ f.kind = q.events[i].kind /\ i \in Nat /\ i >= 1
      BY <1>3, <2>2 DEF NewEvent, Delivered
    <3>2. ~(f.seq < N)
      BY <1>4, <3>1
    <3> QED
      BY <1>5, <3>1, <3>2
  <2> QED
    BY <1>3, <2>1, <2>2 DEF Delivered
<1>7. next_seq' >= N
  BY <1>3, <1>4 DEF Delivered
<1> QED
  BY <1>6, <1>7 DEF ArrivalsFirst, N

\* Who is not arriving any more has arrived.
ArrivedBy ==
    Running => \A r \in Request \ Arriving : trace[r].arrival_ns <= now_ns

\* What was prefilled was prefilled before anybody who is still to arrive.
PrefilledBefore ==
    Running =>
        \A s \in Overs, r \in Arriving :
            trace[s].prompt_tokens # 0 => PrefilledAt(s) < trace[r].arrival_ns

\* An arrival is that of its event; who is arriving after it still has one.
LEMMA ArrivingMoves ==
    ASSUME NEW e, Handling(e)
    PROVE  Arriving' = IF e.kind.tag = "RequestArrival"
                       THEN Arriving \ {e.kind.request_id} ELSE Arriving
<1> DEFINE r == e.kind.request_id
<1>1. /\ Inv /\ PhasesKnown /\ PhasesKnown' /\ Moves(e) /\ r \in Request /\ Running
      /\ e \in queue
  BY HandlingParts DEF Handling
<1>2. PhaseOf(r) = PhaseOfTag[e.kind.tag]
  BY <1>1 DEF PhasesKnown
<1>3. r \in Arriving <=> e.kind.tag = "RequestArrival"
  BY <1>1, <1>2, HandlingParts DEF Arriving, PhaseOfTag
<1>4. r \in Fetching <=> e.kind.tag = "FetchDone"
  BY <1>1, <1>2, HandlingParts DEF Fetching, PhaseOfTag
<1>5. CASE e.kind.tag # "RequestArrival"
  BY <1>1, <1>3, <1>5, SetsMove
<1>6. CASE e.kind.tag = "RequestArrival"
  <2>1. PhaseOf(r)' # "Arriving"
    <3>1. ArrivalMoves(e)
      BY <1>1, <1>6 DEF Moves
    <3>2. RemainingStage(r) \in Stage /\ "Prefill" \in Stage
          /\ \A t \in Stage : t # "Arriving" /\ WaitingPhase(t) # "Arriving"
      BY DEF RemainingStage, Stage, WaitingPhase
    <3> QED
      BY <3>1, <3>2, Zenon DEF ArrivalMoves, FetchBegins, Goes, SentAs
  <2>2. r \notin Arriving'
    BY <2>1 DEF Arriving
  <2> QED
    BY <1>1, <1>3, <1>6, <2>2, SetsMove
<1> QED
  BY <1>5, <1>6

LEMMA ArrivedByKept ==
    ASSUME NEW e, Handling(e), ArrivedBy
    PROVE  ArrivedBy'
<1> SUFFICES ASSUME NEW r \in Request \ Arriving' PROVE trace[r].arrival_ns <= now_ns'
  BY HandlingParts DEF ArrivedBy
<1>1. trace[r].arrival_ns \in Nat
  BY HandlingParts, TraceParts
<1>2. CASE r \notin Arriving
  BY <1>1, <1>2, HandlingParts DEF ArrivedBy
<1>3. CASE r \in Arriving
  <2>1. e.kind.tag = "RequestArrival" /\ r = e.kind.request_id
    BY <1>3, ArrivingMoves
  <2>2. e.time_ns = trace[r].arrival_ns
    BY <2>1, HandlingParts DEF ServingInv, TimelineHonest, Pending
  <2> QED
    BY <2>2, HandlingParts
<1> QED
  BY <1>2, <1>3

LEMMA PrefilledBeforeKept ==
    ASSUME PrefillsTakeTime, NEW e, Handling(e), ArrivalsFirst, PrefilledBefore
    PROVE  PrefilledBefore'
<1> SUFFICES ASSUME NEW s \in Overs', NEW r \in Arriving', trace[s].prompt_tokens # 0
             PROVE  PrefilledAt(s)' < trace[r].arrival_ns
  BY HandlingParts DEF PrefilledBefore
<1>1. s \in Request /\ Over(s)' /\ r \in Arriving /\ r \in Request
  BY ArrivingMoves DEF Overs, Arriving
<1>2. CASE ~(e.kind.tag = "PrefillDone" /\ s = e.kind.request_id)
  <2>1. Over(s)
    BY <1>1, <1>2, OverBefore
  <2>2. PrefilledAt(s)' = PrefilledAt(s)
    BY <1>1, <2>1, OverStays
  <2> QED
    BY <1>1, <2>1, <2>2, HandlingParts DEF PrefilledBefore, Overs
<1>3. CASE e.kind.tag = "PrefillDone" /\ s = e.kind.request_id
  <2>1. PrefilledAt(s)' = e.time_ns
    BY <1>3, OverNow
  <2>2. PICK f \in Pending("RequestArrival") : f.kind.request_id = r
    <3>1. PhaseOf(r) = PhaseOfTag["RequestArrival"]
      BY <1>1, PhasesOfEvents DEF Arriving
    <3> QED
      BY <1>1, <3>1, PhasesArePending, HandlingParts
  <2>3. /\ f \in queue /\ f.kind.tag = "RequestArrival" /\ f # e
        /\ f.time_ns = trace[r].arrival_ns
    BY <1>3, <2>2, HandlingParts DEF Pending, ServingInv, TimelineHonest
  <2>4. /\ f.seq < Cardinality(Request) /\ ~(e.seq < Cardinality(Request))
        /\ f.seq \in Nat /\ e.seq \in Nat /\ f.time_ns \in Nat /\ e.time_ns \in Nat
        /\ Cardinality(Request) \in Nat
    BY <1>3, <2>3, IdsBounded, HandlingParts, SomeFetches, EventParts DEF ArrivalsFirst
  <2>5. Before(e, f)
    BY <2>3, HandlingParts DEF IsNext
  <2> QED
    BY <2>1, <2>3, <2>4, <2>5 DEF Before
<1> QED
  BY <1>2, <1>3

-----------------------------------------------------------------------------
(* What an arrival finds *)

LEMMA TurnsBound ==
    ASSUME NEW s \in Nat \ {0}, NEW t \in Nat \ {0}, NEW r \in 0 .. (s * t - 1)
    PROVE  r \div s \in Nat /\ r \div s <= t - 1
<1> DEFINE q == r \div s
<1>1. \A a \in Nat, b \in Nat \ {0} : a \div b \in Nat /\ b * (a \div b) <= a
  OBVIOUS
<1>2. r \in Nat /\ r < s * t
  <2>1. s * t \in Nat
    OBVIOUS
  <2> HIDE DEF q
  <2> QED
    BY <2>1
<1>3. q \in Nat /\ s * q <= r
  BY <1>1, <1>2
<1> HIDE DEF q
<1>4. ASSUME q >= t PROVE FALSE
  <2>1. s * q >= s * t
    <3>1. q = t + (q - t) /\ q - t \in Nat
      BY <1>3, <1>4
    <3>2. s * (t + (q - t)) = s * t + s * (q - t)
      BY <1>3, <3>1
    <3>3. s * (q - t) \in Nat
      BY <3>1
    <3> QED
      BY <3>1, <3>2, <3>3
  <2>2. s * q \in Nat /\ s * t \in Nat
    BY <1>3
  <2> QED
    BY <1>2, <1>3, <2>1, <2>2
<1> QED
  BY <1>3, <1>4 DEF q

\* A product of naturals grows with its factor.
LEMMA ProductGrows ==
    ASSUME NEW a \in Nat, NEW m \in Nat, NEW n \in Nat, m <= n
    PROVE  m * a \in Nat /\ n * a \in Nat /\ m * a <= n * a
<1>1. n = m + (n - m) /\ n - m \in Nat
  OBVIOUS
<1>2. (m + (n - m)) * a = m * a + (n - m) * a /\ (n - m) * a \in Nat
  BY <1>1
<1>3. m * a \in Nat /\ n * a \in Nat
  OBVIOUS
<1> QED
  BY <1>1, <1>2, <1>3

\* The prefix that a turn reuses is the prompt of the turn before it.
LEMMA TurnsFit ==
    ASSUME ExpInv, Running, Unsaturated, NEW r \in Request
    PROVE  /\ trace[r].turn_id \in Nat
           /\ trace[r].turn_id = 0 => ReusedPrefixTokens(r) = 0
           /\ trace[r].turn_id > 0 =>
                 ReusedPrefixTokens(r)
                   = PromptTokens(plan[runs], trace[r].turn_id - 1)
           /\ ReusedPrefixTokens(r) \in Nat
<1> DEFINE config == plan[runs]
           S == config.sessions
           T == config.turns_per_session
           I == config.initial_prompt_tokens
           A == config.tokens_added_per_turn
           t == r \div S
<1>1. /\ plan \in Plans /\ runs \in DOMAIN plan /\ trace = Generated(config)
      /\ trace \in Traces
  BY DEF ExpInv, PlanServed, Inv
<1>2. config \in TraceConfig /\ MaxTokens \in Nat
  BY <1>1, ExperimentAssumption
<1>3. S \in Nat \ {0} /\ T \in Nat \ {0} /\ I \in Nat /\ A \in Nat
  BY <1>2 DEF TraceConfig
<1>4. r \in 0 .. (S * T - 1)
  <2>1. DOMAIN trace = Request
    BY <1>1, CacheRunnerAssumption
  <2> QED
    BY <1>1, <2>1, Zenon DEF Generated
<1>5. t \in Nat /\ t <= T - 1
  BY <1>3, <1>4, TurnsBound
<1>6. I + (T - 1) * A <= MaxTokens
  BY DEF Unsaturated
<1>7. /\ trace[r].turn_id = t
      /\ trace[r].prompt_tokens = PromptTokens(config, t)
      /\ trace[r].new_prompt_tokens = NewPromptTokens(config, t)
  BY <1>1, <1>4 DEF Generated, TurnOf
<1> HIDE DEF t, config
<1> HIDE DEF S, T, I, A
<1>8. ASSUME NEW n \in Nat, n <= T - 1
      PROVE  PromptTokens(config, n) = I + n * A /\ n * A \in Nat
  <2>1. T - 1 \in Nat
    BY <1>3
  <2>2. n * A \in Nat /\ (T - 1) * A \in Nat /\ n * A <= (T - 1) * A
    BY <1>3, <1>8, <2>1, ProductGrows
  <2>3. n * A <= MaxTokens /\ I + n * A <= MaxTokens
    BY <1>2, <1>3, <1>6, <2>2
  <2>4. AtMost(n * A) = n * A /\ AtMost(I + n * A) = I + n * A
    BY <2>3 DEF AtMost
  <2> QED
    BY <2>2, <2>4 DEF PromptTokens, I, A
<1>9. PromptTokens(config, t) = I + t * A /\ t * A \in Nat
  BY <1>5, <1>8
<1>10. ReusedPrefixTokens(r)
         = KV!SatSub(PromptTokens(config, t), NewPromptTokens(config, t))
  BY <1>7 DEF ReusedPrefixTokens
<1>11. CASE t = 0
  <2>1. NewPromptTokens(config, t) = PromptTokens(config, t)
    BY <1>11 DEF NewPromptTokens
  <2>2. PromptTokens(config, t) \in Nat
    BY <1>3, <1>9
  <2>3. ReusedPrefixTokens(r) = 0
    BY <1>10, <2>1, <2>2 DEF KV!SatSub
  <2> QED
    BY <1>5, <1>7, <1>11, <2>3
<1>12. CASE t # 0
  <2>1. NewPromptTokens(config, t) = A
    BY <1>12 DEF NewPromptTokens, A
  <2>2. PromptTokens(config, t - 1) = I + (t - 1) * A /\ (t - 1) * A \in Nat
    <3>1. t - 1 \in Nat /\ t - 1 <= T - 1
      BY <1>3, <1>5, <1>12
    <3> QED
      BY <1>8, <3>1
  <2>3. t * A = (t - 1) * A + A
    BY <1>3, <1>5
  <2> DEFINE p == PromptTokens(config, t)
             u == (t - 1) * A
             v == t * A
  <2>4. p = I + v /\ v = u + A /\ u \in Nat
    BY <1>9, <2>2, <2>3
  <2>5. ReusedPrefixTokens(r) = PromptTokens(config, t - 1)
    <3>1. PromptTokens(config, t - 1) = I + u
      BY <2>2
    <3>2. ReusedPrefixTokens(r) = KV!SatSub(p, A)
      BY <1>10, <2>1
    <3> HIDE DEF p, u, v
    <3>3. p >= A /\ p - A = I + u
      BY <1>3, <2>4
    <3>4. p \in Nat /\ p - A \in Nat
      BY <1>3, <2>4
    <3>5. KV!SatSub(p, A) = p - A
      BY <1>3, <3>3, <3>4 DEF KV!SatSub
    <3> QED
      BY <3>1, <3>2, <3>3, <3>5
  <2>6. PromptTokens(config, t - 1) \in Nat
    BY <1>3, <2>2
  <2> QED
    BY <1>5, <1>7, <1>12, <2>5, <2>6 DEF config
<1> QED
  BY <1>11, <1>12

\* The key that r looks up.
KeyOfReused(r) == <<trace[r].session_id, ReusedPrefixTokens(r)>>

\* In a cache that keeps what it has where it can be used, r finds what is there.
LEMMA FindsWhatIsThere ==
    ASSUME CacheGood(cache), Usable(cache), Indexed(cache), NEW r \in Request,
           ReusedPrefixTokens(r) \in Nat
    PROVE  Finds(r) <=> ReusedPrefixTokens(r) > 0 /\ KeyOfReused(r) \in KeysOf(cache)
<1> DEFINE key == KeyOfReused(r)
           n == ReusedPrefixTokens(r)
<1>1. ASSUME Finds(r) PROVE n > 0 /\ key \in KeysOf(cache)
  <2>1. PICK k : k \in Hit(r)
    BY <1>1 DEF Finds, GpuHit, FetchHit
  <2>2. n > 0 /\ k \in KV!Lookup(cache, <<trace[r].session_id, n>>)
    BY <2>1 DEF Hit
  <2>3. /\ k \in DOMAIN cache.objects
        /\ cache.objects[k].session_id = trace[r].session_id
        /\ cache.objects[k].prefix_tokens = n
    BY <2>2, FoundByKey
  <2>4. KV!KeyOf(cache.objects[k]) = key
    BY <2>3 DEF KV!KeyOf, KeyOfReused
  <2> QED
    BY <2>2, <2>3, <2>4 DEF KeysOf
<1>2. ASSUME n > 0, key \in KeysOf(cache) PROVE Finds(r)
  <2>1. key \in DOMAIN cache.by_session_prefix
    BY <1>2 DEF Indexed
  <2> DEFINE k == cache.by_session_prefix[key]
  <2>2. P!Sound(cache)
    BY DEF CacheGood, P!Good
  <2>3. k \in DOMAIN cache.objects
    BY <2>1, <2>2 DEF P!Sound
  <2>4. PICK tier \in KV!Tier : cache.objects[k].location = KV!On(tier)
    BY <2>3 DEF Usable
  <2>5. KV!On(tier) # Missing
    BY CacheRunnerAssumption DEF KV!On, KV!Tier, Cell, CacheTier
  <2>6. k \in Hit(r)
    BY <1>2, <2>1, <2>3, <2>4, <2>5 DEF Hit, KV!Lookup, KeyOfReused
  <2>7. TierOf(k) = tier
    BY <2>4 DEF TierOf, KV!On
  <2> HIDE DEF k
  <2> QED
    BY <2>4, <2>6, <2>7 DEF Finds, GpuHit, FetchHit, KV!Tier, FetchTier
<1> QED
  BY <1>1, <1>2

-----------------------------------------------------------------------------
(* What is reused *)

\* The keys of what the prefills of this run and the earlier ones have left.
Left == {key \in kept \cup {KeyOfPrompt(s) : s \in Prefilled} : key[2] > 0}

WellKept == Usable(cache) /\ (Intact(cache) => Indexed(cache))

\* The cache holds what was left, and all of it while nothing is evicted.
KeysRight ==
    /\ KeysOf(cache) \subseteq Left
    /\ Intact(cache) => Left \subseteq KeysOf(cache)

Reusers == {r \in Request \ Arriving : Reusable(r)}

AllCounted ==
    Running /\ Intact(cache) /\ stats.fetch_errors = 0 /\ Unsaturated =>
        HitsIn(stats) = Cardinality(Reusers)

ReuseKnown ==
    WellKept /\ KeysRight /\ ArrivalsFirst /\ ArrivedBy /\ PrefilledBefore /\ AllCounted

LEMMA PromptsNat ==
    ASSUME NEW e, Handling(e), NEW s \in Request
    PROVE  /\ trace[s].prompt_tokens \in Nat
           /\ trace[s].prompt_tokens # 0 <=> KeyOfPrompt(s)[2] > 0
           /\ KeyOfPrompt(s)' = KeyOfPrompt(s)
<1>1. trace[s].prompt_tokens \in Tokens /\ Tokens \subseteq Nat /\ trace' = trace
  BY HandlingParts, TraceParts, ServingAssumption
<1>2. KeyOfPrompt(s)[2] = trace[s].prompt_tokens
  BY DEF KeyOfPrompt
<1>3. KeyOfPrompt(s)' = KeyOfPrompt(s)
  BY <1>1 DEF KeyOfPrompt
<1>4. trace[s].prompt_tokens \in Nat
  BY <1>1, Zenon
<1> QED
  BY <1>2, <1>3, <1>4

\* Whose prefill has left KV behind.
LEMMA OversMove ==
    ASSUME PrefillsTakeTime, NEW e, Handling(e), NEW s \in Request,
           trace[s].prompt_tokens # 0
    PROVE  s \in Prefilled' <=> \/ s \in Prefilled
                                \/ e.kind.tag = "PrefillDone" /\ s = e.kind.request_id
<1>1. s \in Prefilled' <=> Over(s)'
  BY HandlingParts DEF Overs
<1>2. s \in Prefilled <=> Over(s)
  BY HandlingParts DEF Overs
<1> QED
  BY <1>1, <1>2, OverStays, OverNow, OverBefore

LEMMA PrefilledRequests ==
    ASSUME NEW e, Handling(e)
    PROVE  Prefilled \subseteq Request /\ Prefilled' \subseteq Request
BY HandlingParts DEF Overs

LEMMA LeftMoved ==
    ASSUME PrefillsTakeTime, NEW e, Handling(e)
    PROVE  Left' = Left \cup Leaves(e)
<1> DEFINE r == e.kind.request_id
           Of(S) == {KeyOfPrompt(s) : s \in {t \in S : KeyOfPrompt(t)[2] > 0}}
           old == {key \in kept : key[2] > 0}
<1>1. /\ kept' = kept /\ r \in Request
      /\ \A s \in Request : KeyOfPrompt(s)' = KeyOfPrompt(s)
  BY HandlingParts, PromptsNat DEF Handling
<1>2. Left = old \cup Of(Prefilled)
  BY DEF Left
<1>3. Left' = old \cup Of(Prefilled')
  <2>1. {KeyOfPrompt(s)' : s \in Prefilled'} = {KeyOfPrompt(s) : s \in Prefilled'}
    BY <1>1, PrefilledRequests
  <2> QED
    BY <1>1, <2>1 DEF Left
<1>4. \A s \in Request :
         KeyOfPrompt(s)[2] > 0 =>
           (s \in Prefilled' <=> s \in Prefilled \/ (e.kind.tag = "PrefillDone" /\ s = r))
  BY PromptsNat, OversMove
<1>5. Leaves(e) = IF e.kind.tag = "PrefillDone" THEN Of({r}) ELSE {}
  BY <1>1, PromptsNat DEF Leaves
<1>6. Of(Prefilled') = Of(Prefilled) \cup Leaves(e)
  <2>1. \A key : key \in Of(Prefilled')
                   <=> key \in Of(Prefilled) \/ key \in Leaves(e)
    BY <1>1, <1>4, <1>5, PrefilledRequests
  <2> HIDE DEF Of
  <2> QED
    BY <2>1
<1> QED
  BY <1>2, <1>3, <1>6

LEMMA KeptRight ==
    ASSUME PrefillsTakeTime, NEW e, Handling(e), WellKept, KeysRight
    PROVE  WellKept' /\ KeysRight'
<1>1. Grows(cache, cache', Leaves(e)) /\ Left' = Left \cup Leaves(e)
  BY LeftMoved DEF Handling, Reckons
<1>2. /\ Usable(cache)' <=> Usable(cache')
      /\ Intact(cache)' <=> Intact(cache')
      /\ Indexed(cache)' <=> Indexed(cache')
      /\ KeysOf(cache)' = KeysOf(cache')
  BY DEF Usable, Intact, Indexed, KeysOf
<1>3. WellKept'
  BY <1>1, <1>2 DEF WellKept, Grows
<1>4. KeysRight'
  BY <1>1, <1>2 DEF KeysRight, Grows
<1> QED
  BY <1>3, <1>4

\* What could be reused by who has arrived does not depend on what follows.
LEMMA ReusableStays ==
    ASSUME PrefillsTakeTime, NEW e, Handling(e), ArrivedBy,
           NEW r \in Request \ Arriving'
    PROVE  Reusable(r)' <=> Reusable(r)
<1> DEFINE key == <<trace[r].session_id,
                    PromptTokens(plan[runs], trace[r].turn_id - 1)>>
<1>1. trace' = trace /\ plan' = plan /\ runs' = runs /\ kept' = kept /\ key' = key
  BY HandlingParts DEF Handling
<1>2. ASSUME NEW s \in Request, KeyOfPrompt(s) = key, key[2] > 0
      PROVE  (s \in Prefilled' /\ PrefilledAt(s)' < trace[r].arrival_ns)
               <=> (s \in Prefilled /\ PrefilledAt(s) < trace[r].arrival_ns)
  <2>1. trace[s].prompt_tokens # 0
    BY <1>2, PromptsNat
  <2>2. CASE s \in Prefilled
    <3>1. Over(s)
      BY <2>2, HandlingParts DEF Overs
    <3> QED
      BY <2>1, <2>2, <3>1, OverStays, OversMove
  <2>3. CASE s \notin Prefilled /\ s \in Prefilled'
    <3>1. e.kind.tag = "PrefillDone" /\ s = e.kind.request_id
      BY <2>1, <2>3, OversMove
    <3>2. PrefilledAt(s)' = e.time_ns
      BY <3>1, OverNow
    <3>3. r \notin Arriving
      BY <3>1, ArrivingMoves
    <3>4. trace[r].arrival_ns <= now_ns /\ trace[r].arrival_ns \in Nat
      BY <3>3, HandlingParts, TraceParts DEF ArrivedBy
    <3>5. now_ns <= e.time_ns /\ now_ns \in Nat /\ e.time_ns \in Nat
      BY HandlingParts
    <3>6. ~(e.time_ns < trace[r].arrival_ns)
      BY <3>4, <3>5
    <3> QED
      BY <2>3, <3>2, <3>6
  <2> QED
    BY <2>2, <2>3
<1>3. \A s \in Request : KeyOfPrompt(s)' = KeyOfPrompt(s)
  BY PromptsNat
<1>4. Reusable(r) <=>
        /\ trace[r].turn_id > 0 /\ key[2] > 0
        /\ \/ key \in kept
           \/ \E s \in Prefilled : KeyOfPrompt(s) = key
                                   /\ PrefilledAt(s) < trace[r].arrival_ns
  BY DEF Reusable
<1>5. Reusable(r)' <=>
        /\ trace[r].turn_id > 0 /\ key[2] > 0
        /\ \/ key \in kept
           \/ \E s \in Prefilled' : KeyOfPrompt(s)' = key
                                    /\ PrefilledAt(s)' < trace[r].arrival_ns
  BY <1>1 DEF Reusable
<1> HIDE DEF key
<1> QED
  BY <1>2, <1>3, <1>4, <1>5, PrefilledRequests

\* Who arrives finds what it could reuse.
LEMMA FindsWhatIsReusable ==
    ASSUME NEW e, Handling(e), WellKept, KeysRight, PrefilledBefore,
           Intact(cache), Unsaturated, NEW r \in Arriving
    PROVE  Finds(r) <=> Reusable(r)
<1>1. r \in Request /\ ExpInv /\ Running /\ CacheGood(cache)
  BY HandlingParts DEF Arriving, Handling
<1> DEFINE n == trace[r].turn_id
           key == <<trace[r].session_id, PromptTokens(plan[runs], n - 1)>>
<1>2. /\ n \in Nat /\ ReusedPrefixTokens(r) \in Nat
      /\ n = 0 => ReusedPrefixTokens(r) = 0
      /\ n > 0 => ReusedPrefixTokens(r) = PromptTokens(plan[runs], n - 1)
  BY <1>1, TurnsFit
<1>3. Finds(r) <=> ReusedPrefixTokens(r) > 0 /\ KeyOfReused(r) \in KeysOf(cache)
  BY <1>1, <1>2, FindsWhatIsThere DEF WellKept
<1>4. KeysOf(cache) = Left
  BY DEF KeysRight
<1>5. n > 0 => KeyOfReused(r) = key /\ ReusedPrefixTokens(r) = key[2]
  BY <1>2 DEF KeyOfReused
<1>6. ASSUME key[2] > 0, NEW s \in Prefilled, KeyOfPrompt(s) = key
      PROVE  PrefilledAt(s) < trace[r].arrival_ns
  <2>1. s \in Request /\ s \in Overs
    BY HandlingParts DEF Overs
  <2>2. trace[s].prompt_tokens # 0
    BY <1>6, <2>1, PromptsNat
  <2> QED
    BY <1>1, <2>1, <2>2 DEF PrefilledBefore
<1>7. key \in Left <=>
        /\ key[2] > 0
        /\ key \in kept \/ \E s \in Prefilled : KeyOfPrompt(s) = key
  BY DEF Left
<1>8. Reusable(r) <=>
        /\ n > 0 /\ key[2] > 0
        /\ \/ key \in kept
           \/ \E s \in Prefilled : KeyOfPrompt(s) = key
                                   /\ PrefilledAt(s) < trace[r].arrival_ns
  BY DEF Reusable
<1> HIDE DEF n, key
<1>9. CASE n = 0
  <2>1. ~(n > 0) /\ ~(ReusedPrefixTokens(r) > 0)
    BY <1>2, <1>9
  <2> QED
    BY <1>3, <1>8, <2>1
<1>10. CASE n > 0
  BY <1>3, <1>4, <1>5, <1>6, <1>7, <1>8, <1>10
<1> QED
  BY <1>2, <1>9, <1>10

\* Every arrival that could reuse something adds a hit, and nothing else does.
LEMMA CountedStep ==
    ASSUME PrefillsTakeTime, NEW e, Handling(e), ReuseKnown
    PROVE  AllCounted'
<1> DEFINE r == e.kind.request_id
           hits == IF e.kind.tag = "RequestArrival" /\ Finds(r) THEN 1 ELSE 0
<1> SUFFICES ASSUME Intact(cache'), stats'.fetch_errors = 0, Unsaturated'
             PROVE  HitsIn(stats') = Cardinality(Reusers')
  BY DEF AllCounted, Intact, HitsIn
<1>1. /\ WellKept /\ KeysRight /\ ArrivedBy /\ PrefilledBefore /\ AllCounted
      /\ Running /\ r \in Request
  BY HandlingParts DEF ReuseKnown
<1>2. Unsaturated /\ Intact(cache)
      /\ stats.fetch_errors = 0 /\ HitsIn(stats') = HitsIn(stats) + hits
  <2>1. Grows(cache, cache', Leaves(e)) /\ Gains(stats, stats', hits)
    BY DEF Handling, Reckons
  <2>2. plan' = plan /\ runs' = runs
    BY HandlingParts DEF Handling
  <2> QED
    BY <2>1, <2>2 DEF Grows, Gains, Unsaturated
<1>3. HitsIn(stats) = Cardinality(Reusers)
  BY <1>1, <1>2 DEF AllCounted
<1>4. Arriving \subseteq Request /\ Arriving' \subseteq Arriving
  BY ArrivingMoves DEF Arriving
<1>5. Reusers' = {s \in Request \ Arriving' : Reusable(s)}
  BY <1>1, ReusableStays DEF Reusers
<1>6. IsFiniteSet(Reusers)
  BY ServingAssumption, FS_Subset DEF Reusers
<1>7. Cardinality(Reusers) \in Nat
  BY <1>6, FS_CardinalityType
<1>8. CASE e.kind.tag # "RequestArrival"
  <2>1. Arriving' = Arriving
    BY <1>8, ArrivingMoves
  <2>2. Reusers' = Reusers
    BY <1>5, <2>1 DEF Reusers
  <2> QED
    BY <1>2, <1>3, <1>7, <1>8, <2>2
<1>9. CASE e.kind.tag = "RequestArrival"
  <2>1. Arriving' = Arriving \ {r} /\ r \in Arriving
    <3>1. PhaseOf(r) = PhaseOfTag[e.kind.tag]
      BY HandlingParts DEF PhasesKnown
    <3> QED
      BY <1>1, <1>9, <3>1, ArrivingMoves, PhasesOfEvents DEF Arriving
  <2>2. Finds(r) <=> Reusable(r)
    BY <1>1, <1>2, <2>1, FindsWhatIsReusable
  <2>3. r \notin Reusers
    BY <2>1 DEF Reusers
  <2>4. Reusers' = IF Reusable(r) THEN Reusers \cup {r} ELSE Reusers
    BY <1>1, <1>5, <2>1 DEF Reusers
  <2>5. Cardinality(Reusers \cup {r}) = Cardinality(Reusers) + 1
    BY <1>6, <2>3, FS_AddElement, Zenon
  <2> QED
    BY <1>2, <1>3, <1>7, <1>9, <2>2, <2>4, <2>5
<1> QED
  BY <1>8, <1>9

LEMMA ReuseServe ==
    ASSUME PrefillsTakeTime
    PROVE  ExpInv /\ ExpInv' /\ ReuseKnown /\ Serve => ReuseKnown'
<1> SUFFICES ASSUME ExpInv, ExpInv', ReuseKnown, Serve PROVE ReuseKnown'
  OBVIOUS
<1>1. PICK e : Moves(e) /\ Reckons(e)
  BY EveryHandlerReckons DEF Serve, ExpInv, ReportsInv
<1>2. Handling(e)
  BY <1>1 DEF Handling, Serve, historyVars
<1> QED
  BY <1>2, KeptRight, ArrivalsFirstKept, ArrivedByKept, PrefilledBeforeKept,
     CountedStep DEF ReuseKnown

\* The next run begins with what the earlier ones have left.
LEMMA ReuseSubmit == ExpInv /\ ExpInv' /\ ReuseKnown /\ Submit => ReuseKnown'
<1> SUFFICES ASSUME ExpInv, ExpInv', ReuseKnown, Submit
             PROVE  ReuseKnown'
  OBVIOUS
<1>1. PICK tr \in Traces : StartRun(tr)
  BY Submitted DEF ExpInv
<1>2. /\ cache' = cache /\ stats' = NoStats /\ StartServing(tr)
      /\ kept' = kept \cup {KeyOfPrompt(s) : s \in Prefilled}
  BY <1>1 DEF StartRun, Submit
<1>3. /\ Running' /\ DOMAIN results' = {}
      /\ \A r \in Request : PhaseOf(r)' = "Arriving"
  BY <1>2, NobodyStarted DEF ExpInv
<1>4. Arriving' = Request
  BY <1>3 DEF Arriving
<1>5. Overs' = {} /\ Prefilled' = {}
  <2>1. ASSUME NEW r \in Request PROVE ~Over(r)'
    BY <1>3 DEF Over, IsOver
  <2> QED
    BY <1>3, <2>1, OversAreNext DEF Overs
<1>6. Left' = Left
  <2>1. {KeyOfPrompt(s)' : s \in Prefilled'} = {}
    BY <1>5
  <2> QED
    BY <1>2, <2>1 DEF Left
<1>7. WellKept' /\ KeysRight'
  BY <1>2, <1>6 DEF ReuseKnown, WellKept, KeysRight, Usable, Intact, Indexed, KeysOf
<1>8. ArrivalsFirst'
  <2>1. /\ queue' = Arrivals(tr) /\ next_seq' = Cardinality(Request)
    BY <1>2 DEF StartServing
  <2>2. \A r \in Request : tr[r].arrival_ns \in Nat
    BY TraceParts
  <2>3. \A e \in Arrivals(tr) : e.seq < Cardinality(Request)
    BY <2>2, ArrivalsNumbered
  <2>4. ASSUME NEW e \in Arrivals(tr) PROVE e.kind.tag = "RequestArrival"
    <3>1. PICK r \in Request :
             e = [time_ns |-> tr[r].arrival_ns,
                  seq     |-> Cardinality({s \in Request : ArrivesBefore(tr, s, r)}),
                  kind    |-> [tag |-> "RequestArrival", request_id |-> r]]
      BY DEF Arrivals
    <3> QED
      BY ONLY <3>1
  <2> QED
    BY <2>1, <2>3, <2>4, IdsBounded DEF ArrivalsFirst
<1>9. ArrivedBy' /\ PrefilledBefore'
  BY <1>4, <1>5 DEF ArrivedBy, PrefilledBefore
<1>10. AllCounted'
  <2>1. Reusers' = {}
    BY <1>4 DEF Reusers
  <2>2. HitsIn(NoStats) = 0
    BY DEF HitsIn, NoStats
  <2> QED
    BY <1>2, <2>1, <2>2, FS_EmptySet DEF AllCounted, HitsIn
<1> QED
  BY <1>7, <1>8, <1>9, <1>10 DEF ReuseKnown

LEMMA ReuseBegins == ExpInit => ReuseKnown
<1> SUFFICES ASSUME ExpInit PROVE ReuseKnown
  OBVIOUS
<1>1. /\ trace = <<>> /\ kept = {} /\ ~Running
      /\ cache.objects = [k \in {} |-> {}] /\ cache.next_kv_id = 0
  BY DEF ExpInit, OrderInit, Init, NewServing, Running, KV!NewCache
<1>2. DOMAIN cache.objects = {} /\ KeysOf(cache) = {}
  BY <1>1 DEF KeysOf
<1>3. Left = {}
  BY <1>1 DEF Left, Prefilled
<1>4. WellKept /\ KeysRight
  BY <1>2, <1>3 DEF WellKept, KeysRight, Usable, Indexed
<1> QED
  BY <1>1, <1>4 DEF ReuseKnown, ArrivalsFirst, ArrivedBy, PrefilledBefore, AllCounted

LEMMA ReuseStutters == ReuseKnown /\ UNCHANGED expVars => ReuseKnown'
<1> SUFFICES ASSUME ReuseKnown, UNCHANGED expVars PROVE ReuseKnown'
  OBVIOUS
<1>1. /\ UNCHANGED vars /\ plan' = plan /\ kept' = kept
  BY DEF expVars, historyVars
<1>2. /\ queue' = queue /\ next_seq' = next_seq /\ now_ns' = now_ns /\ trace' = trace
      /\ in_flight' = in_flight /\ waiting' = waiting /\ results' = results
      /\ role' = role /\ busy_until' = busy_until
      /\ runs' = runs /\ cache' = cache /\ stats' = stats
  BY <1>1 DEF vars, simVars, clusterVars, cacheVars
<1>3. /\ Running' <=> Running
      /\ \A r : PhaseOf(r)' = PhaseOf(r) /\ PrefilledAt(r)' = PrefilledAt(r)
      /\ Prefilled' = Prefilled
      /\ \A r : KeyOfPrompt(r)' = KeyOfPrompt(r)
  <2>1. Running' <=> Running
    BY <1>2 DEF Running
  <2>2. \A r : PhaseOf(r)' = PhaseOf(r)
    BY <1>2 DEF PhaseOf, Waits
  <2>3. \A r : PrefilledAt(r)' = PrefilledAt(r) /\ KeyOfPrompt(r)' = KeyOfPrompt(r)
    BY <1>2 DEF PrefilledAt, KeyOfPrompt
  <2>4. Prefilled' = Prefilled
    BY <1>2 DEF Prefilled, WasPrefilled, Pending
  <2> QED
    BY <2>1, <2>2, <2>3, <2>4
<1>4. \A r : (Over(r)' <=> Over(r)) /\ (Reusable(r)' <=> Reusable(r))
  BY <1>1, <1>2, <1>3 DEF Over, IsOver, Reusable
<1>5. Arriving' = Arriving /\ Overs' = Overs /\ Reusers' = Reusers
  BY <1>3, <1>4 DEF Arriving, Overs, Reusers
<1>6. Left' = Left /\ WellKept' /\ KeysRight'
  BY <1>1, <1>2, <1>3 DEF ReuseKnown, Left, WellKept, KeysRight, Usable, Intact,
                          Indexed, KeysOf
<1>7. ArrivalsFirst' /\ ArrivedBy' /\ PrefilledBefore'
  BY <1>2, <1>3, <1>5 DEF ReuseKnown, ArrivalsFirst, ArrivedBy, PrefilledBefore
<1>8. AllCounted'
  BY <1>1, <1>2, <1>3, <1>5
     DEF ReuseKnown, AllCounted, Intact, HitsIn, Unsaturated
<1> QED
  BY <1>6, <1>7, <1>8 DEF ReuseKnown

LEMMA ReuseKnownTells == ExpInv /\ ReuseKnown => ReuseIsComplete
<1> SUFFICES ASSUME ExpInv, ReuseKnown, Running, Untroubled, Unsaturated
             PROVE  Hits = Cardinality({r \in Arrived : Reusable(r)})
  BY DEF ReuseIsComplete
<1>1. CacheGood(cache) /\ ServingInv(Sources, FetchKind) /\ PhasesKnown
  BY DEF ExpInv, Inv, CacheInv
<1>2. Intact(cache) /\ stats.fetch_errors = 0
  BY <1>1, IntactIs DEF Untroubled
<1>3. Hits = Cardinality(Reusers)
  BY <1>2 DEF ReuseKnown, AllCounted, Hits, HitsIn
<1>4. Arrived = Request \ Arriving
  <2>1. \A r \in Request :
           PhaseOf(r) = PhaseOfTag["RequestArrival"]
             <=> \E e \in Pending("RequestArrival") : e.kind.request_id = r
    BY <1>1, PhasesArePending
  <2> QED
    BY <2>1, PhasesOfEvents DEF Arrived, Arriving
<1> QED
  BY <1>3, <1>4 DEF Reusers

\* No reuse is missed: as long as nothing is evicted and no placement or fetch
\* fails, the hits of a run, those being fetched included, are the requests
\* whose previous turn was prefilled before they arrived, whatever the order in
\* which arrivals, fetches, prefills and decodes interleave, provided that a
\* prefill takes some time.
THEOREM ReuseIsNeverMissed ==
    ASSUME PrefillsTakeTime
    PROVE  ExpSpec => []ReuseIsComplete
<1>1. ExpInit => ReuseKnown
  BY ReuseBegins
<1>2. ExpInv /\ ExpInv' /\ ReuseKnown /\ [ExpNext]_expVars => ReuseKnown'
  BY ReuseServe, ReuseSubmit, ReuseStutters DEF ExpNext
<1>3. ExpInv /\ ReuseKnown => ReuseIsComplete
  BY ReuseKnownTells
<1> QED
  BY <1>1, <1>2, <1>3, ExpAlways, PTL DEF ExpSpec
=============================================================================
