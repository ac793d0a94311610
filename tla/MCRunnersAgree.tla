--------------------------- MODULE MCRunnersAgree ---------------------------
(***************************************************************************)
(* Three requests on three GPUs.  A GPU with the role "Cache" serves       *)
(* nobody.                                                                 *)
(***************************************************************************)
EXTENDS RunnersAgree

MCRequest == 1 .. 3
MCTokens == {0, 1, 3}
MCPrefillTime == [n \in MCTokens |-> n]
MCDecodeStepTime == [n \in MCTokens |-> 1]

MCTwoPrefill == {<<"Prefill", "Prefill", "Decode">>}

\* One or two GPUs for a stage; a unified one that both queues compete for; and
\* clusters that nobody decodes in, or prefills in.
MCClusters ==
    MCTwoPrefill \cup {<<"Prefill", "Decode", "Cache">>,
                      <<"Prefill", "Decode", "Decode">>,
                      <<"Unified", "Prefill", "Cache">>,
                      <<"Prefill", "Cache", "Cache">>,
                      <<"Cache", "Decode", "Cache">>}

Turn(arrival, lengths) ==
    [arrival_ns |-> arrival, prompt_tokens |-> lengths[1], output_tokens |-> lengths[2]]

\* The first arrival is at 0.  A prefill or a decode may be the longer stage,
\* or take no time.
MCLengths == {<<1, 2>>, <<3, 1>>, <<0, 2>>, <<1, 0>>}
MCTraces ==
    {tr \in [MCRequest -> {Turn(t, n) : t \in 0 .. 2, n \in MCLengths}] :
        \E r \in MCRequest : tr[r].arrival_ns = 0}

\* Two requests are enough for two prefill workers to swap them.
MCTwoRequests == 1 .. 2
MCFewTraces ==
    [MCTwoRequests -> [arrival_ns : {0, 1}, prompt_tokens : {1, 3},
                       output_tokens : {2}]]
=============================================================================
