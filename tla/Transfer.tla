------------------------------ MODULE Transfer ------------------------------
(***************************************************************************)
(* How long it takes to bring KV to a GPU: transfer/analytical.rs,         *)
(* transfer/queued.rs and transfer/table.rs.  The queued model computes the*)
(* duration of the analytical one and makes remote transfers wait for one  *)
(* shared NIC; the table model looks the duration up and falls back on the *)
(* analytical one.                                                         *)
(***************************************************************************)
EXTENDS Integers

CONSTANTS
    Bandwidth,      \* of each tier a transfer may start from
    BaseLatency,    \* of each such tier
    NsPerUnit,      \* ns to send a byte at bandwidth 1: 8 * 10^9 in the code
    Queued,         \* TRUE for QueuedTransferModel
    Calibrated,     \* the entries of TableCalibratedTransferModel, the latency
                    \* by tier and size; none for the other models
    Fails           \* a model that returns Err

FetchTier == {"Cpu", "RemoteMemory", "RemoteSsd"}

ASSUME TransferAssumption ==
    /\ Bandwidth \in [FetchTier -> Nat]
    /\ BaseLatency \in [FetchTier -> Nat]
    /\ NsPerUnit \in Nat
    /\ Queued \in BOOLEAN
    /\ DOMAIN Calibrated \subseteq FetchTier \X Nat
    /\ \A entry \in DOMAIN Calibrated : Calibrated[entry] \in Nat
    /\ Queued => DOMAIN Calibrated = {}
    /\ Fails \notin Int

IsRemote(tier) == tier \in {"RemoteMemory", "RemoteSsd"}

Serialization(tier, bytes) == (bytes * NsPerUnit) \div Bandwidth[tier]

\* The estimate_duration of the analytical and of the queued model.
AnalyticalDuration(tier, bytes) ==
    IF Bandwidth[tier] = 0 THEN Fails
    ELSE BaseLatency[tier] + Serialization(tier, bytes)

\* estimate_duration: it changes nothing, so that scoring a tier does not
\* book the NIC.  A calibrated transfer needs no bandwidth.
EstimateDuration(tier, bytes) ==
    IF <<tier, bytes>> \in DOMAIN Calibrated THEN Calibrated[<<tier, bytes>>]
                                             ELSE AnalyticalDuration(tier, bytes)

Latest(a, b) == IF a >= b THEN a ELSE b

StartOf(nic_busy_until_ns, now_ns, tier) ==
    IF Queued /\ IsRemote(tier) THEN Latest(now_ns, nic_busy_until_ns) ELSE now_ns

\* estimate, for a tier it does not fail for: when the transfer is over, and
\* until when the NIC is taken.
FinishOf(nic_busy_until_ns, now_ns, tier, bytes) ==
    StartOf(nic_busy_until_ns, now_ns, tier) + EstimateDuration(tier, bytes)

\* Mutant of NicAfter: a transfer does not book the NIC.
NicAfterNothing(nic_busy_until_ns, now_ns, tier, bytes) == nic_busy_until_ns

NicAfter(nic_busy_until_ns, now_ns, tier, bytes) ==
    IF Queued /\ IsRemote(tier)
    THEN StartOf(nic_busy_until_ns, now_ns, tier) + Serialization(tier, bytes)
    ELSE nic_busy_until_ns
=============================================================================
