----------------------------- MODULE MCAgentLoop -----------------------------
(* Instances of AgentLoop for TLC.                                         *)
EXTENDS AgentLoop

\* Two conversations of a worker that compete for the cache, or of two workers
\* that share the bucket; batches padded with one row, or twice with the same.
MCJobs ==
    {[prompts |-> 2, workers |-> 1, agent |-> "tool"],
     [prompts |-> 1, workers |-> 2, agent |-> "tool"],
     [prompts |-> 1, workers |-> 3, agent |-> "single_turn"],
     [prompts |-> 3, workers |-> 2, agent |-> "single_turn"]}
=============================================================================
