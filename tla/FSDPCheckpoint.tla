---------------------------- MODULE FSDPCheckpoint ----------------------------
(***************************************************************************)
(* FSDPCheckpointManager.save_checkpoint (verl/utils/checkpoint/           *)
(* fsdp_checkpoint_manager.py) of one worker group: rank 0 removes old     *)
(* checkpoints, every rank makes the directory, all meet at a barrier,     *)
(* each writes its own shard, and all meet again before the path is        *)
(* remembered.                                                             *)
(*                                                                         *)
(* Abstracted: the model, optimizer and extra-state files of a rank are    *)
(* one shard, which is torn while it is being written; the HF config and   *)
(* fsdp_config.json that rank 0 adds are not read back by load_checkpoint. *)
(* A directory is named by the step of its checkpoint.                     *)
(***************************************************************************)
EXTENDS Naturals, FiniteSets, Sequences

CONSTANTS
    WorldSize,  \* number of ranks
    MaxStep,    \* bound: largest step that is trained
    MaxKeep,    \* max_ckpt_to_keep, 0 if it is None
    Weights,    \* what the ranks may hold and save
    NoShard,    \* the file does not exist
    TornShard   \* the file is incomplete

Ranks == 0..(WorldSize - 1)
Steps == 1..MaxStep

ASSUME CheckpointAssumption ==
    /\ WorldSize \in Nat \ {0}
    /\ MaxStep \in Nat \ {0}
    /\ MaxKeep \in Nat
    /\ NoShard \notin Weights /\ TornShard \notin Weights
    /\ NoShard # TornShard

VARIABLES
    rpc,         \* where each rank is in save_checkpoint
    target,      \* global_step of the save in progress
    doomed,      \* directories rank 0 still has to remove
    savedPaths,  \* rank 0's previous_saved_paths
    dirs,        \* checkpoint directories on disk
    shard,       \* shard[s][r]: the file of rank r in directory s
    weights      \* what each rank holds

diskVars == <<dirs, shard>>
saveVars == <<rpc, target, doomed, savedPaths>>
groupVars == <<saveVars, diskVars, weights>>

RankPCs == {"idle", "rotate", "mkdir", "barrier1", "write", "writing",
            "barrier2", "saved"}

NoGroupSave ==
    /\ rpc = [r \in Ranks |-> "idle"]
    /\ target = 1
    /\ doomed = {}
    /\ savedPaths = <<>>

EmptyDisk ==
    /\ dirs = {}
    /\ shard = [s \in Steps |-> [r \in Ranks |-> NoShard]]

\* Every shard of directory s is there in full.
WholeGroup(s) == \A r \in Ranks : shard[s][r] \in Weights

-----------------------------------------------------------------------------

KeepStartTooFew == Len(savedPaths) - MaxKeep

KeepStartTooMany == Len(savedPaths) - MaxKeep + 2

\* keep_start: how many of the remembered checkpoints make room for this one.
KeepStart == Len(savedPaths) - MaxKeep + 1

Rotates == MaxKeep > 0 /\ Len(savedPaths) >= MaxKeep

\* ONE_TO_ALL: every rank enters save_checkpoint; rank 0 first rotates.
CallSave(s) ==
    /\ \A r \in Ranks : rpc[r] = "idle"
    /\ target' = s
    /\ rpc' = [r \in Ranks |-> IF r = 0 THEN "rotate" ELSE "mkdir"]
    /\ IF Rotates
       THEN /\ doomed' = {savedPaths[i] : i \in 1..KeepStart}
            /\ savedPaths' = SubSeq(savedPaths, KeepStart + 1, Len(savedPaths))
       ELSE UNCHANGED <<doomed, savedPaths>>
    /\ UNCHANGED <<diskVars, weights>>

\* shutil.rmtree deletes the files one by one, then the directory.
RemoveShard(s, r) ==
    /\ rpc[0] = "rotate"
    /\ s \in doomed
    /\ shard[s][r] # NoShard
    /\ shard' = [shard EXCEPT ![s][r] = NoShard]
    /\ UNCHANGED <<saveVars, dirs, weights>>

RemoveDir(s) ==
    /\ rpc[0] = "rotate"
    /\ s \in doomed
    /\ \A r \in Ranks : shard[s][r] = NoShard
    /\ doomed' = doomed \ {s}
    /\ dirs' = dirs \ {s}
    /\ UNCHANGED <<rpc, target, savedPaths, shard, weights>>

RotateDone ==
    /\ rpc[0] = "rotate"
    /\ doomed = {}
    /\ rpc' = [rpc EXCEPT ![0] = "mkdir"]
    /\ UNCHANGED <<target, doomed, savedPaths, diskVars, weights>>

\* local_mkdir_safe; a rank other than 0 does not wait for the rotation.
MakeDir(r) ==
    /\ rpc[r] = "mkdir"
    /\ dirs' = dirs \cup {target}
    /\ rpc' = [rpc EXCEPT ![r] = "barrier1"]
    /\ UNCHANGED <<target, doomed, savedPaths, shard, weights>>

NoBarrier(waiting) == TRUE

\* torch.distributed.barrier: a rank leaves when no rank is still before it.
AllArrived(before) == \A r \in Ranks : rpc[r] \notin before

BeforeBarrier1 == {"idle", "rotate", "mkdir"}
BeforeBarrier2 == BeforeBarrier1 \cup {"barrier1", "write", "writing"}

LeaveBarrier1(r) ==
    /\ rpc[r] = "barrier1"
    /\ AllArrived(BeforeBarrier1)
    /\ rpc' = [rpc EXCEPT ![r] = "write"]
    /\ UNCHANGED <<target, doomed, savedPaths, diskVars, weights>>

\* torch.save truncates the file, then fills it.
OpenShard(r) ==
    /\ rpc[r] = "write"
    /\ shard' = [shard EXCEPT ![target][r] = TornShard]
    /\ rpc' = [rpc EXCEPT ![r] = "writing"]
    /\ UNCHANGED <<target, doomed, savedPaths, dirs, weights>>

CloseShard(r) ==
    /\ rpc[r] = "writing"
    /\ shard' = [shard EXCEPT ![target][r] = weights[r]]
    /\ rpc' = [rpc EXCEPT ![r] = "barrier2"]
    /\ UNCHANGED <<target, doomed, savedPaths, dirs, weights>>

\* The rank returns; rank 0's memory of its own saves is the one that counts.
LeaveBarrier2(r) ==
    /\ rpc[r] = "barrier2"
    /\ AllArrived(BeforeBarrier2)
    /\ rpc' = [rpc EXCEPT ![r] = "saved"]
    /\ savedPaths' = IF r = 0 THEN Append(savedPaths, target) ELSE savedPaths
    /\ UNCHANGED <<target, doomed, diskVars, weights>>

SaveStep ==
    \/ \E s \in Steps, r \in Ranks : RemoveShard(s, r)
    \/ \E s \in Steps : RemoveDir(s)
    \/ RotateDone
    \/ \E r \in Ranks : \/ MakeDir(r)
                        \/ LeaveBarrier1(r)
                        \/ OpenShard(r)
                        \/ CloseShard(r)
                        \/ LeaveBarrier2(r)

AllSaved == \A r \in Ranks : rpc[r] = "saved"

\* The driver has the result of every rank.
ReturnSave ==
    /\ AllSaved
    /\ rpc' = [r \in Ranks |-> "idle"]
    /\ UNCHANGED <<target, doomed, savedPaths, diskVars, weights>>

-----------------------------------------------------------------------------

\* load_checkpoint: every rank loads its own shard.
LoadGroup(s) ==
    /\ weights' = [r \in Ranks |-> shard[s][r]]
    /\ UNCHANGED <<saveVars, diskVars>>

GroupTypeOK ==
    /\ rpc \in [Ranks -> RankPCs]
    /\ target \in Steps
    /\ doomed \subseteq Steps
    /\ savedPaths \in Seq(Steps)
    /\ dirs \subseteq Steps
    /\ shard \in [Steps -> [Ranks -> Weights \cup {NoShard, TornShard}]]
    /\ weights \in [Ranks -> Weights]

\* No rank is told that the save is over while another's shard is missing or
\* torn: the second barrier of save_checkpoint.
SavedMeansWhole ==
    (\E r \in Ranks : rpc[r] = "saved") => WholeGroup(target)

\* A rank writes only into a directory that exists and that rank 0 is not
\* about to remove: the first barrier of save_checkpoint.
WritersAfterRotation ==
    \A r \in Ranks : rpc[r] \in {"write", "writing"} =>
        target \in dirs /\ doomed = {}
=============================================================================
