------------------------ MODULE MCEventDrivenRunner -------------------------
(***************************************************************************)
(* Three requests on two GPUs.                                             *)
(***************************************************************************)
EXTENDS EventDrivenRunner

MCRequest == 1 .. 3
MCTokens == {0, 1, 2}
MCPrefillTime == [n \in MCTokens |-> n]
MCDecodeStepTime == [n \in MCTokens |-> 1]

\* One GPU for each stage.
MCSplit == {<<"Prefill", "Decode">>}

Turn(arrival, prompt, output) ==
    [arrival_ns |-> arrival, prompt_tokens |-> prompt, output_tokens |-> output]

\* Every prefill and every decode takes some time; few enough for two calls of
\* run.
MCFewTraces ==
    [MCRequest -> {Turn(t, n, 1) : t \in {0, 2}, n \in {1, 2}}]
=============================================================================
