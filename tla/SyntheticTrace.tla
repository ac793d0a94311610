--------------------------- MODULE SyntheticTrace ----------------------------
(***************************************************************************)
(* generate_synthetic_trace (trace/synthetic.rs) and TraceStats            *)
(* (trace/stats.rs).  A trace is a function of its request ids.            *)
(***************************************************************************)
EXTENDS Statistics

CONSTANT MaxTokens  \* u32::MAX

AtMost(n) == IF n <= MaxTokens THEN n ELSE MaxTokens

\* The requests are numbered turn by turn: every session has its first turn
\* before any has its second.
TurnOf(config, r) == r \div config.sessions

PromptTokens(config, turn_id) ==
    AtMost(config.initial_prompt_tokens
             + AtMost(turn_id * config.tokens_added_per_turn))

\* Mutant of NewPromptTokens: every turn counts its whole prompt as new.
AllPromptTokens(config, turn_id) == PromptTokens(config, turn_id)

NewPromptTokens(config, turn_id) ==
    IF turn_id = 0 THEN PromptTokens(config, 0) ELSE config.tokens_added_per_turn

\* The generator leaves the objectives open; those of the configuration stand
\* for the ones that its user writes into the requests.
Generated(config) ==
    [r \in 0 .. (config.sessions * config.turns_per_session - 1) |->
        [session_id        |-> r % config.sessions,
         turn_id           |-> TurnOf(config, r),
         arrival_ns        |-> config.start_ns + r * config.inter_arrival_ns,
         prompt_tokens     |-> PromptTokens(config, TurnOf(config, r)),
         new_prompt_tokens |-> NewPromptTokens(config, TurnOf(config, r)),
         output_tokens     |-> config.output_tokens,
         slo_ttft_ns       |-> config.slo_ttft_ns,
         slo_tbt_ns        |-> config.slo_tbt_ns]]

Reused(request) ==
    IF request.prompt_tokens >= request.new_prompt_tokens
    THEN request.prompt_tokens - request.new_prompt_tokens
    ELSE 0

\* TraceStats::from_requests, for at least one request.  The mean of the reuse
\* ratios, a sum of quotients, is left out.
TraceStats(tr) ==
    LET Field(f(_)) == StatsOf([r \in DOMAIN tr |-> f(tr[r])])
    IN  [requests             |-> Cardinality(DOMAIN tr),
         sessions             |-> Cardinality({tr[r].session_id : r \in DOMAIN tr}),
         turns                |-> Cardinality({<<tr[r].session_id, tr[r].turn_id>> :
                                                 r \in DOMAIN tr}),
         prompt_tokens        |-> Field(LAMBDA q : q.prompt_tokens),
         new_prompt_tokens    |-> Field(LAMBDA q : q.new_prompt_tokens),
         reused_prefix_tokens |-> Field(Reused),
         output_tokens        |-> Field(LAMBDA q : q.output_tokens)]
=============================================================================
