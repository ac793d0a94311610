------------------------------- MODULE Metrics -------------------------------
(***************************************************************************)
(* What is reported of a run: RequestResult's latencies (serving/runner.rs)*)
(* and ServingSummary (serving/metrics.rs).  Results and requests are      *)
(* functions of the request ids.  The throughputs, which are quotients of  *)
(* completed_requests, total_output_tokens and makespan_ns, are left out.  *)
(***************************************************************************)
EXTENDS Statistics

CONSTANT NoValue    \* Option::None

Since(later, earlier) == IF later >= earlier THEN later - earlier ELSE 0

Ttft(result) == Since(result.first_token_ns, result.arrival_ns)

Jct(result) == Since(result.finish_ns, result.arrival_ns)

\* The first token is not one of those that are waited for between tokens.
MeanTbt(result) ==
    IF result.output_tokens <= 1 THEN 0
    ELSE Since(result.finish_ns, result.first_token_ns)
           \div (result.output_tokens - 1)

Each(f(_), rs) == [r \in DOMAIN rs |-> f(rs[r])]

\* From the first arrival to the last finish, and never 0.
Makespan(rs) ==
    Max({1, Since(Max({rs[r].finish_ns : r \in DOMAIN rs}),
                  Min({rs[r].arrival_ns : r \in DOMAIN rs}))})

\* ServingSummary::from_results
FromResults(rs) ==
    [completed_requests  |-> Cardinality(DOMAIN rs),
     total_output_tokens |-> SumFunction([r \in DOMAIN rs |-> rs[r].output_tokens]),
     makespan_ns         |-> Makespan(rs),
     ttft                |-> StatsOf(Each(Ttft, rs)),
     tbt                 |-> StatsOf(Each(MeanTbt, rs)),
     jct                 |-> StatsOf(Each(Jct, rs))]

Exceeds(latency, slo) == slo # NoValue /\ latency > slo

Violations(rs, reqs) ==
    [slo_violations_ttft |->
        Cardinality({r \in DOMAIN reqs : Exceeds(Ttft(rs[r]), reqs[r].slo_ttft_ns)}),
     slo_violations_tbt |->
        Cardinality({r \in DOMAIN reqs : Exceeds(MeanTbt(rs[r]), reqs[r].slo_tbt_ns)})]

\* from_results_with_slos: there is no summary without results, nor when a
\* request has none.
Summary(rs, reqs) ==
    IF DOMAIN rs = {} \/ ~(DOMAIN reqs \subseteq DOMAIN rs) THEN NoValue
    ELSE [of |-> FromResults(rs), slos |-> Violations(rs, reqs)]
=============================================================================
