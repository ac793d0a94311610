------------------------------- MODULE Compute -------------------------------
(***************************************************************************)
(* How long a GPU computes and how large KV is: LinearComputeModel         *)
(* (model/compute.rs) and ModelProfile (model/profile.rs).                 *)
(***************************************************************************)
EXTENDS Naturals

CONSTANTS
    LinearComputeModel, \* its five parameters
    ModelProfile,       \* the shape of a model's KV
    DecodeBatchSize,    \* ServingConfig::decode_batch_size
    ContextBlock        \* tokens per unit of context: 1024 in the code

ASSUME ComputeAssumption ==
    /\ LinearComputeModel \in
         [prefill_base_ns : Nat, prefill_per_token_ns : Nat, decode_base_ns : Nat,
          decode_per_sequence_ns : Nat, decode_per_1k_context_ns : Nat]
    \* What ModelProfile::new accepts.
    /\ ModelProfile \in
         [num_layers : Nat \ {0}, num_kv_heads : Nat \ {0}, head_dim : Nat \ {0},
          bytes_per_elem : Nat \ {0}]
    /\ DecodeBatchSize \in Nat
    /\ ContextBlock \in Nat \ {0}

PrefillTimeNs(prompt_tokens) ==
    LinearComputeModel.prefill_base_ns
      + LinearComputeModel.prefill_per_token_ns * prompt_tokens

\* The runners decode at least one sequence at a time.
ActiveSequences == IF DecodeBatchSize = 0 THEN 1 ELSE DecodeBatchSize

\* A context counts as so many started blocks.
ContextK(context_tokens) == (context_tokens + ContextBlock - 1) \div ContextBlock

DecodeStepTimeNs(context_tokens) ==
    LinearComputeModel.decode_base_ns
      + LinearComputeModel.decode_per_sequence_ns * ActiveSequences
      + LinearComputeModel.decode_per_1k_context_ns * ContextK(context_tokens)

\* A key and a value for every layer and head.
KvBytesPerToken ==
    2 * ModelProfile.num_layers * ModelProfile.num_kv_heads
      * ModelProfile.head_dim * ModelProfile.bytes_per_elem
=============================================================================
