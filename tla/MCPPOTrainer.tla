----------------------------- MODULE MCPPOTrainer -----------------------------
(* Instances of PPOTrainer for TLC.                                        *)
EXTENDS PPOTrainer

MCWeights == (0..MaxRuns) \X (0..MaxStep)
=============================================================================
