---------------------------- MODULE FetchDecision ----------------------------
(***************************************************************************)
(* FetchVsRecompute of decision.rs: whether to fetch the KV of a prefix or *)
(* to compute it again, decided from the two models alone.                 *)
(***************************************************************************)
EXTENDS Transfer, Compute

Shorter(m, n) == IF m <= n THEN m ELSE n

\* Mutant of DecisionBytes: the size in tokens.
DecisionInTokens(prompt_tokens, reused_prefix_tokens) ==
    Shorter(reused_prefix_tokens, prompt_tokens)

DecisionBytes(prompt_tokens, reused_prefix_tokens) ==
    KvBytesPerToken * Shorter(reused_prefix_tokens, prompt_tokens)

\* What the KV costs when it is computed again: as a prefill of its own.
RecomputeNs(prompt_tokens, reused_prefix_tokens) ==
    PrefillTimeNs(Shorter(reused_prefix_tokens, prompt_tokens))

\* FetchVsRecompute::evaluate.  It asks the analytical model, and fails with it.
Evaluate(tier, prompt_tokens, reused_prefix_tokens) ==
    LET fetch == AnalyticalDuration(tier,
                    DecisionBytes(prompt_tokens, reused_prefix_tokens))
    IN  IF fetch = Fails THEN Fails
        ELSE IF fetch < RecomputeNs(prompt_tokens, reused_prefix_tokens)
        THEN "Fetch"
        ELSE "RecomputePrefill"
=============================================================================
