---------------------------- MODULE MCHybridEngine ----------------------------
(* Instances of HybridEngine for TLC.                                      *)
EXTENDS HybridEngine

\* What the training scripts of examples/perceval set: a sync vLLM engine that
\* keeps its memory, nothing offloaded.
ShippedConfigs ==
    {c \in ConfigSet : /\ c.engine = "vllm"
                       /\ ~c.megatron /\ ~c.async /\ ~c.freeCache
                       /\ ~c.offloadParam /\ ~c.offloadOptim /\ ~c.multiStage}

=============================================================================
