---------------------------- MODULE MCPlacement -----------------------------
(***************************************************************************)
(* Two sessions, objects of one and two bytes, three placements.           *)
(***************************************************************************)
EXTENDS Eviction

MCPrefix == {1, 2}
MCTime == {0, 1}
MCCell == {1} \X Tier
MCPrefillTime == [n \in MCPrefix |-> 2 * n]
MCBandwidth == [Cpu |-> 2, RemoteMemory |-> 1, RemoteSsd |-> 1]
MCBaseLatency == [Cpu |-> 0, RemoteMemory |-> 1, RemoteSsd |-> 2]
MCNoTable == <<>>

\* A remote SSD without bandwidth, for which estimate_duration fails, and
\* prefills so fast that KV has more bytes than they take ns, as with the
\* profiles and the compute model that the code comes with.
MCFastPrefill == [n \in MCPrefix |-> 0]
MCNoSsdBandwidth == [Cpu |-> 2, RemoteMemory |-> 1, RemoteSsd |-> 0]

Sizes(gpu, cpu, remote, ssd) ==
    [cell \in MCCell |->
        CASE cell[2] = "Gpu" -> gpu [] cell[2] = "Cpu" -> cpu
          [] cell[2] = "RemoteMemory" -> remote [] OTHER -> ssd]

\* Tiers that hold nothing, one small object, one large one or two small ones.
MCCapacities ==
    {Sizes(0, 2, 1, 0), Sizes(1, 1, 3, 2), Sizes(2, 1, 1, 0), Sizes(3, 2, 2, 2),
     Sizes(1, 0, 0, 2)}

MCAllPolicies == Policy
MCNetworkAware == {"NetworkAwarePlacement"}
=============================================================================
