----------------------------- MODULE Experiment ------------------------------
(***************************************************************************)
(* What the programs of examples/ do with the library: they generate a     *)
(* batch of requests, have a CacheAwareRunner serve it, and summarise the  *)
(* run.  Here they go on with more batches: the runner's cache is meant to *)
(* stay warm from one to the next (cache_runner.rs:159).                   *)
(*                                                                         *)
(* Composes EvictionOrder (the runner), SyntheticTrace (the batches),      *)
(* Compute (the times), FetchDecision and Metrics.                         *)
(***************************************************************************)
EXTENDS EvictionOrder, SyntheticTrace, FetchDecision

CONSTANT Plans  \* the sequences of trace configurations that are served

Report == INSTANCE Metrics WITH NoValue <- None

TraceConfig ==
    [sessions : Nat \ {0}, turns_per_session : Nat \ {0}, start_ns : Nat,
     inter_arrival_ns : Nat, initial_prompt_tokens : Nat,
     tokens_added_per_turn : Nat, output_tokens : Nat,
     slo_ttft_ns : Nat \cup {None}, slo_tbt_ns : Nat \cup {None}]

ASSUME ExperimentAssumption ==
    /\ \A plan \in Plans :
          /\ Len(plan) <= MaxRuns
          /\ \A i \in DOMAIN plan :
                /\ plan[i] \in TraceConfig
                /\ Generated(plan[i]) \in Traces
    /\ \A n \in Tokens :
          /\ PrefillTime[n] = PrefillTimeNs(n)
          /\ DecodeStepTime[n] = DecodeStepTimeNs(n)
    /\ BytesPerToken = KvBytesPerToken
    /\ MaxTokens \in Nat

VARIABLES
    plan,           \* the configurations of this experiment
    kept,           \* the keys of the prefills of earlier runs
    bytes_before,   \* bytes in the cache when the current run began
    restarted       \* TRUE once a batch began no later than the last one ended

historyVars == <<plan, kept, bytes_before, restarted>>

expVars == <<vars, used, historyVars>>

CachedBytes == KV!Bytes(cache, DOMAIN cache.objects)

KeyOfPrompt(r) == <<trace[r].session_id, trace[r].prompt_tokens>>

\* The current run's requests whose prefill is over, those whose KV has been
\* left behind.  (A request of which nothing is new is never prefilled after a
\* hit; its timeline then shows a prefill of no length.)
WasPrefilled(r) ==
    IF r \in DOMAIN results
    THEN results[r].prefill_done_ns > results[r].prefill_start_ns
    ELSE /\ in_flight[r].prefill_done_ns # None
         /\ \A e \in Pending("PrefillDone") : e.kind.request_id # r

Prefilled == {r \in DOMAIN trace : WasPrefilled(r)}

ExpInit ==
    /\ OrderInit
    /\ plan \in Plans
    /\ kept = {}
    /\ bytes_before = 0
    /\ restarted = FALSE

\* The next batch of the plan.
Submit ==
    /\ runs < Len(plan)
    /\ LET config == plan[runs + 1]
       IN  /\ StartRun(Generated(config))
           /\ restarted' = (restarted \/ (runs > 0 /\ config.start_ns <= now_ns))
    /\ Uses
    /\ kept' = kept \cup {KeyOfPrompt(r) : r \in Prefilled}
    /\ bytes_before' = CachedBytes
    /\ UNCHANGED plan

Serve == HandleEvent /\ Uses /\ UNCHANGED historyVars

ExpNext == Submit \/ Serve

ExpSpec == ExpInit /\ [][ExpNext]_expVars

\* run's loop delivers events until none is left; whoever writes the program
\* may stop between two batches.
ExpFairSpec == ExpSpec /\ WF_expVars(Serve)

-----------------------------------------------------------------------------
(* What must hold *)

\* No object has ever been evicted, nor failed to be placed or fetched.
Untroubled ==
    /\ Cardinality(DOMAIN cache.objects) = cache.next_kv_id
    /\ stats.fetch_errors = 0

\* Every turn of the current batch is as long as it should be.
Unsaturated ==
    LET config == plan[runs]
    IN  config.initial_prompt_tokens
          + (config.turns_per_session - 1) * config.tokens_added_per_turn <= MaxTokens

\* When the prefill of s was over, or will be.
PrefilledAt(s) ==
    IF s \in DOMAIN results THEN results[s].prefill_done_ns
                            ELSE in_flight[s].prefill_done_ns

\* When r arrived the KV of the turn before it had been left behind, by an
\* earlier run or, before that instant, by this one.  An empty prompt leaves
\* none.
Reusable(r) ==
    /\ trace[r].turn_id > 0
    /\ LET key == <<trace[r].session_id,
                     PromptTokens(plan[runs], trace[r].turn_id - 1)>>
       IN  /\ key[2] > 0
           /\ \/ key \in kept
              \/ \E s \in Prefilled :
                    /\ KeyOfPrompt(s) = key
                    /\ PrefilledAt(s) < trace[r].arrival_ns

Arrived == {e \in Request : \A f \in Pending("RequestArrival") : f.kind.request_id # e}

Hits == stats.hits_gpu + stats.hits_cpu + stats.hits_remote + stats.pending_fetches

\* As long as nothing is evicted or fails, a request hits exactly when the turn
\* that it continues was prefilled before it arrived, in this run or an earlier
\* one, however late that turn was served: the generator's turns fit together
\* (unless their lengths saturate), and neither the runner, nor the policy, nor
\* the index of the cache lets any of their KV get out of sight.
ReuseIsComplete ==
    Running /\ Untroubled /\ Unsaturated =>
        Hits = Cardinality({r \in Arrived : Reusable(r)})

\* The bytes in the cache are those that were there when the run began and
\* those of the prompts prefilled since, less what evicted_bytes says; when a
\* placement failed, its object and what it evicted in vain are missing
\* (LocalGpuLru, CpuOffloadLru, RemoteLru and SizeAware, local_gpu_lru.rs:112).
BytesConserved ==
    Running =>
        LET left == Cardinality(UNION {{r} \X (1 .. KV!KvBytes(trace[r].prompt_tokens)) :
                                         r \in Prefilled})
            found == CachedBytes + stats.evicted_bytes
        IN  /\ found <= bytes_before + left
            /\ stats.placement_errors = 0 => found = bytes_before + left

\* What a run saves is what TraceStats promises at most: the prompt tokens that
\* it did not compute are at most the reused prefixes of its trace, all of them
\* when only those missed that have nothing to reuse, and none when all did.
SavedWithinPotential ==
    Ended /\ DOMAIN results = Request =>
        LET ts == TraceStats(trace)
            saved == ts.prompt_tokens.sum - stats.recomputed_tokens
        IN  /\ saved >= 0
            /\ saved <= ts.reused_prefix_tokens.sum
            /\ stats.misses = Cardinality({r \in Request : Reused(trace[r]) = 0})
                 => saved = ts.reused_prefix_tokens.sum
            /\ Hits = 0 => saved = 0

\* RequestResults of the run.
RequestResults ==
    [r \in DOMAIN results |->
        [f \in Stamps \cup {"arrival_ns", "output_tokens"} |->
            IF f \in Stamps THEN results[r][f] ELSE trace[r][f]]]

Percentiles == {<<"p50", 50>>, <<"p95", 95>>, <<"p99", 99>>}

\* The summary of a batch says of the run what its events did: the mean time
\* between tokens is a decode step's, nobody's latency exceeds the makespan,
\* and a latency objective that a percentile meets is violated by no more
\* requests than that percentile leaves out.
SummaryHonest ==
    LET summary == Report!Summary(RequestResults, trace)
        config  == plan[runs]
    IN  Ended /\ summary # None =>
            /\ \A r \in Request :
                  trace[r].output_tokens > 1 =>
                      Report!MeanTbt(RequestResults[r]) = StepTime(r)
            /\ summary.of.makespan_ns >= summary.of.jct.max
            /\ \A p \in Percentiles :
                  /\ summary.of.ttft[p[1]] <= summary.of.jct[p[1]]
                  /\ summary.of.ttft[p[1]] <= config.slo_ttft_ns =>
                        100 * summary.slos.slo_violations_ttft
                          <= (100 - p[2]) * summary.of.completed_requests

\* What FetchVsRecompute decides is borne out by the runner, where the
\* transfer is neither calibrated nor queued: when it says that computing the
\* prefix again is as fast, a request that fetches it is not prefilled earlier
\* than it would have been as a miss; when it says that the fetch is faster,
\* the fetch loses at most what starting one more prefill costs, which the
\* decision does not count (decision.rs:31).
DecisionIsSound ==
    \A e \in Pending("FetchDone") :
        LET r     == e.kind.request_id
            tier  == in_flight[r].pending_fetch_tier
            new   == trace[r].new_prompt_tokens
            ready == e.time_ns - trace[r].arrival_ns
                       + (IF new = 0 THEN 0 ELSE PrefillTime[new])
            miss  == PrefillTime[trace[r].prompt_tokens]
        IN  <<tier, KV!KvBytes(Reused(trace[r]))>> \notin DOMAIN Calibrated =>
              CASE Evaluate(tier, trace[r].prompt_tokens, Reused(trace[r])) = "Fetch"
                     -> ready < miss + LinearComputeModel.prefill_base_ns
                [] OTHER -> ready >= miss

\* "evict LRU objects within the GPU tier" (local_gpu_lru.rs:7), from one run to
\* the next as well, as long as every run's clock begins after the end of the
\* last: the access times of a warm cache are compared with those of the new
\* run (cache_runner.rs:159), and at the same instant there is no telling them
\* apart.
WarmEvictsLruFromGpu == [][restarted \/ ~EvictsInUse("Gpu")]_expVars
=============================================================================
