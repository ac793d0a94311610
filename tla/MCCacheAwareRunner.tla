------------------------ MODULE MCCacheAwareRunner --------------------------
(***************************************************************************)
(* Three requests of two sessions on two GPUs of one node.  The first one  *)
(* opens a session; the others continue it, repeat it or open another.     *)
(***************************************************************************)
EXTENDS EvictionOrder

MCRequest == 1 .. 3
MCTokens == 0 .. 3
MCPrefillTime == [n \in MCTokens |-> n]
MCDecodeStepTime == [n \in MCTokens |-> 1]
MCSession == {1, 2}
MCNode == {1}

\* A fetch from the CPU takes no time or one unit, one from remote memory its
\* size and one more; nothing can be fetched from the remote SSD.
MCBandwidth == [Cpu |-> 2, RemoteMemory |-> 1, RemoteSsd |-> 0]
MCBaseLatency == [Cpu |-> 0, RemoteMemory |-> 1, RemoteSsd |-> 2]
MCNoTable == <<>>

Build(p, r, hbm, cpu_mem, local_ssd) ==
    [policy |-> p, role |-> r,
     memory |-> [n \in MCNode |-> [hbm |-> hbm, cpu_mem |-> cpu_mem,
                                   local_ssd |-> local_ssd]]]

Split == <<"Prefill", "Decode">>
Mixed == <<"Unified", "Prefill">>

\* A small GPU and a small CPU tier; a GPU tier for three small objects; remote
\* memory; a GPU tier and an SSD from which every fetch fails.
MCBuilds ==
    {Build("CpuOffloadLru", Split, 1, 2, 0),
     Build("LocalGpuLru", Split, 3, 0, 0),
     Build("RemoteLru", Mixed, 0, 3, 0),
     Build("NetworkAwarePlacement", Split, 1, 0, 2)}

\* Everything on the CPU.
MCOnCpu == {Build("CpuOffloadLru", Split, 0, 3, 0)}

Turn(session, arrival, prompt, new) ==
    [session_id |-> session, arrival_ns |-> arrival, prompt_tokens |-> prompt,
     new_prompt_tokens |-> new, output_tokens |-> 1]

\* Session 1 is opened by a prompt of one or two tokens.  A later turn has a
\* prompt of so many tokens, of which so many are new: it opens its session
\* (again), continues it, or repeats it.  Session 2 only opens or continues.
LaterTurns(arrivals) ==
    {Turn(1, t, n[1], n[2]) :
        t \in arrivals, n \in {<<1, 1>>, <<2, 1>>, <<1, 0>>, <<3, 1>>, <<2, 0>>}}
      \cup {Turn(2, t, n[1], n[2]) : t \in arrivals, n \in {<<1, 1>>, <<2, 1>>}}

MCTraces ==
    {<<first, second, third>> :
        first \in {Turn(1, 0, 1, 1), Turn(1, 0, 2, 2)},
        second \in LaterTurns({0, 1, 3}), third \in LaterTurns({1, 3, 4})}
=============================================================================
