---------------------------- MODULE MCExperiment -----------------------------
(***************************************************************************)
(* Four requests: two sessions of two turns, or one of four.  Two batches, *)
(* the second like the first or of the other shape, its clock going on or  *)
(* starting again.  Prompts have 0 to 4 tokens; a fifth is cut off.        *)
(***************************************************************************)
EXTENDS Experiment, TLC

MCRequest == 0 .. 3
MCSession == 0 .. 1
MCNode == {0}

MCLinearComputeModel ==
    [prefill_base_ns |-> 4, prefill_per_token_ns |-> 8, decode_base_ns |-> 2,
     decode_per_sequence_ns |-> 1, decode_per_1k_context_ns |-> 1]
MCModelProfile ==
    [num_layers |-> 1, num_kv_heads |-> 1, head_dim |-> 1, bytes_per_elem |-> 1]

MCTokens == 0 .. 4
MCPrefillTime == [n \in MCTokens |-> 4 + 8 * n]
MCDecodeStepTime == [n \in MCTokens |-> 3 + (n + 1) \div 2]

\* For 4 bytes the CPU is slower than a prefill of 2 tokens, the remote memory
\* faster; 6 bytes are calibrated for the CPU; nothing is fetched from the
\* remote SSD.
MCBandwidth == [Cpu |-> 1, RemoteMemory |-> 2, RemoteSsd |-> 0]
MCBaseLatency == [Cpu |-> 6, RemoteMemory |-> 10, RemoteSsd |-> 0]
MCCalibrated == (<<"Cpu", 6>> :> 1)

Build(p, r, hbm, cpu_mem, local_ssd) ==
    [policy |-> p, role |-> r,
     memory |-> [n \in MCNode |-> [hbm |-> hbm, cpu_mem |-> cpu_mem,
                                   local_ssd |-> local_ssd]]]

Split == <<"Prefill", "Decode">>

\* Room for everything, on the GPU or in remote memory; a GPU and a CPU tier
\* for one prompt or two; a GPU tier for two and a half; an SSD from which
\* every fetch fails; nobody to decode.
MCBuilds ==
    {Build("LocalGpuLru", Split, 60, 0, 0),
     Build("RemoteLru", <<"Unified", "Prefill">>, 0, 60, 0),
     Build("CpuOffloadLru", Split, 2, 60, 0),
     Build("CpuOffloadLru", Split, 6, 8, 0),
     Build("LocalGpuLru", Split, 10, 0, 0),
     Build("SizeAware", Split, 8, 6, 0),
     Build("NetworkAwarePlacement", Split, 4, 4, 8),
     Build("LocalGpuLru", <<"Prefill", "Cache">>, 60, 0, 0)}

Config(sessions, start, initial, inter, added, output) ==
    [sessions |-> sessions, turns_per_session |-> 4 \div sessions,
     start_ns |-> start, inter_arrival_ns |-> inter,
     initial_prompt_tokens |-> initial, tokens_added_per_turn |-> added,
     output_tokens |-> output, slo_ttft_ns |-> 40, slo_tbt_ns |-> 4]

\* A second turn arrives at the instant at which the first one's prefill ends,
\* or long after; prompts grow or are repeated.
MCPlans ==
    {<<Config(s[1], 0, length[1], inter, length[2], output),
       Config(s[2], start, length[1], inter, length[2], output)>> :
        s \in {1, 2} \X {1, 2}, inter \in {12, 20, 60},
        length \in {<<0, 1>>, <<1, 1>>, <<2, 0>>, <<2, 1>>}, output \in {1, 3},
        start \in {0, 1000}}

MCTraces == {Generated(p[i]) : p \in MCPlans, i \in 1 .. 2}
=============================================================================
