--------------------------- MODULE PPOTrainerProofs ---------------------------
(***************************************************************************)
(* Proofs about PPOTrainer and the FSDPCheckpoint it is built on: for      *)
(* every number of ranks, steps, kept checkpoints and kills, and every     *)
(* resume mode,                                                            *)
(*   - types are kept (TrainerTypeCorrect),                                *)
(*   - no rank has returned from a save with a shard missing               *)
(*     (SavesAreWhole), nor writes into a directory about to be removed    *)
(*     (WritersWaitForRotation),                                           *)
(*   - a finished job has published its weights (FinishedJobIsPublished),  *)
(*   - a start keeps no more checkpoints than it may (RotationMakesRoom);  *)
(* and, in the second part, that with more than one kept checkpoint and    *)
(* automatic resume a kill loses nothing that was published                *)
(* (TrackedStaysLoadable, ResumesFromOneSave, NoPublishedStepIsLost).      *)
(*                                                                         *)
(* The second is what the barriers are for, and needs to know where the    *)
(* other ranks are: BarrierInv says that a rank behind a barrier has left  *)
(* no rank before it, whatever happened to the directories meanwhile.      *)
(* FinishInv follows the weights from the last training step to the        *)
(* tracker.  KeptInv accounts for every shard rank 0 has written: its step *)
(* is remembered, about to be removed, or just being saved.                *)
(***************************************************************************)
EXTENDS PPOTrainer, TLAPS, SequenceTheorems, FiniteSetTheorems

AfterBarrier1 == {"write", "writing", "barrier2", "saved"}

BarrierInv ==
    /\ rpc[0] # "rotate" => doomed = {}
    /\ rpc[0] \notin {"idle", "rotate", "mkdir"} => target \in dirs
    /\ \A r, q \in Ranks : rpc[r] \in AfterBarrier1 => rpc[q] \notin BeforeBarrier1
    /\ \A r, q \in Ranks : rpc[r] = "saved" => rpc[q] \notin BeforeBarrier2
    /\ \A r \in Ranks : rpc[r] \in {"barrier2", "saved"} => shard[target][r] \in Weights

\* The step at work may be saved, and the last one that is modelled is never
\* resumed from.
StepInv ==
    /\ dpc = "start" => MaxStep \notin folders
    /\ dpc \notin {"start", "finished", "failed"} => globalSteps \in Steps

CInv == TypeOK /\ BarrierInv /\ StepInv

-----------------------------------------------------------------------------

\* Ranks and steps are natural numbers, weights are pairs of them, and no
\* marker of a file is its contents.
LEMMA Constants ==
    /\ WorldSize \in Nat \ {0} /\ MaxStep \in Nat \ {0} /\ MaxKeep \in Nat
    /\ MaxRuns \in Nat \ {0} /\ TotalSteps \in Nat \ {0} /\ MaxStep > TotalSteps
    /\ 0 \in Ranks /\ 1 \in Steps
    /\ \A r \in Ranks : r \in Nat
    /\ \A s : s \in Steps <=> s \in Nat /\ 1 <= s /\ s <= MaxStep
    /\ \A n \in 1..MaxRuns, s \in 0..MaxStep : <<n, s>> \in Weights
    /\ <<0, 0>> \in Weights
    /\ NoShard \notin Weights /\ TornShard \notin Weights /\ NoShard # TornShard
    /\ NoFile \notin Nat /\ EmptyFile \notin Nat /\ NoFile # EmptyFile
  BY CheckpointAssumption, TrainerAssumption DEF Ranks, Steps

\* The first start of the job is in the invariant.
LEMMA InitCInv == Init => CInv
  <1> SUFFICES ASSUME Init PROVE CInv
    OBVIOUS
  <1> USE Constants DEF Init, NoGroupSave, EmptyDisk, FreshWeights
  <1>1. GroupTypeOK
    <2>1. savedPaths \in Seq(Steps)
      OBVIOUS
    <2> QED
      BY <2>1 DEF GroupTypeOK, RankPCs
  <1>2. TypeOK
    BY <1>1 DEF TypeOK, DriverPCs, FileContents
  <1>3. BarrierInv
    BY DEF BarrierInv, AfterBarrier1
  <1> QED
    BY <1>2, <1>3 DEF CInv, StepInv


-----------------------------------------------------------------------------
(* The steps of a save.                                                    *)

GroupInv == GroupTypeOK /\ BarrierInv

\* A new save starts with every rank before its barriers; what is to be
\* removed are paths that rank 0 remembers.
LEMMA CallSaveGroup ==
    ASSUME GroupInv, NEW s \in Steps, CallSave(s)
    PROVE  GroupInv'
  <1> USE Constants DEF GroupInv
  <1>1. ASSUME Rotates PROVE doomed' \subseteq Steps /\ savedPaths' \in Seq(Steps)
    <2>1. KeepStart \in 1..Len(savedPaths)
      BY <1>1 DEF Rotates, KeepStart, GroupTypeOK
    <2>2. \A i \in 1..Len(savedPaths) : savedPaths[i] \in Steps
      BY DEF GroupTypeOK
    <2>3. SubSeq(savedPaths, KeepStart + 1, Len(savedPaths)) \in Seq(Steps)
      <3>1. KeepStart + 1 \in Int /\ Len(savedPaths) \in Int
        BY <2>1 DEF GroupTypeOK
      <3>2. \A i \in (KeepStart + 1)..Len(savedPaths) : savedPaths[i] \in Steps
        BY <2>1, <2>2, <3>1
      <3> QED
        BY <3>1, <3>2, SubSeqProperties
    <2>4. \A i \in 1..KeepStart : savedPaths[i] \in Steps
      <3>1. Len(savedPaths) \in Nat
        BY DEF GroupTypeOK
      <3> QED
        BY <2>1, <2>2, <3>1
    <2>5. /\ doomed' = {savedPaths[i] : i \in 1..KeepStart}
          /\ savedPaths' = SubSeq(savedPaths, KeepStart + 1, Len(savedPaths))
      BY <1>1 DEF CallSave
    <2> QED
      BY <2>3, <2>4, <2>5
  <1>2. ASSUME ~Rotates PROVE doomed' \subseteq Steps /\ savedPaths' \in Seq(Steps)
    BY <1>2 DEF CallSave, GroupTypeOK
  <1>3. doomed' \subseteq Steps /\ savedPaths' \in Seq(Steps)
    BY <1>1, <1>2
  <1>4. GroupTypeOK'
    BY <1>3 DEF CallSave, GroupTypeOK, RankPCs, diskVars
  <1>5. BarrierInv'
    BY DEF CallSave, BarrierInv, GroupTypeOK, AfterBarrier1, diskVars
  <1> QED
    BY <1>4, <1>5

\* Removing goes on only while rank 0 is before the first barrier, and so no
\* rank's finished shard is at stake.
LEMMA RemoveShardGroup ==
    ASSUME GroupInv, NEW s \in Steps, NEW r \in Ranks, RemoveShard(s, r)
    PROVE  GroupInv'
  <1> USE Constants DEF GroupInv
  <1>1. GroupTypeOK'
    BY DEF GroupTypeOK, BarrierInv, RemoveShard, RankPCs, saveVars, diskVars
  <1>2. BarrierInv'
    BY DEF GroupTypeOK, BarrierInv, RemoveShard, RankPCs, AfterBarrier1, BeforeBarrier1,
           BeforeBarrier2, saveVars, diskVars
  <1> QED
    BY <1>1, <1>2

\* The same for a directory.
LEMMA RemoveDirGroup ==
    ASSUME GroupInv, NEW s \in Steps, RemoveDir(s)
    PROVE  GroupInv'
  <1> USE Constants DEF GroupInv
  <1>1. GroupTypeOK'
    BY DEF GroupTypeOK, BarrierInv, RemoveDir, RankPCs, saveVars, diskVars
  <1>2. BarrierInv'
    BY DEF GroupTypeOK, BarrierInv, RemoveDir, RankPCs, AfterBarrier1, BeforeBarrier1,
           BeforeBarrier2, saveVars, diskVars
  <1> QED
    BY <1>1, <1>2

\* Rank 0 goes on with nothing left to remove.
LEMMA RotateDoneGroup ==
    ASSUME GroupInv, RotateDone
    PROVE  GroupInv'
  <1> USE Constants DEF GroupInv
  <1>1. GroupTypeOK'
    BY DEF GroupTypeOK, BarrierInv, RotateDone, RankPCs, saveVars, diskVars
  <1>2. BarrierInv'
    BY DEF GroupTypeOK, BarrierInv, RotateDone, RankPCs, AfterBarrier1, BeforeBarrier1,
           BeforeBarrier2, saveVars, diskVars
  <1> QED
    BY <1>1, <1>2

\* The last rank to make the directory is still before the first barrier.
LEMMA MakeDirGroup ==
    ASSUME GroupInv, NEW r \in Ranks, MakeDir(r)
    PROVE  GroupInv'
  <1> USE Constants DEF GroupInv
  <1>1. GroupTypeOK'
    BY DEF GroupTypeOK, BarrierInv, MakeDir, RankPCs, saveVars, diskVars
  <1>2. BarrierInv'
    BY DEF GroupTypeOK, BarrierInv, MakeDir, RankPCs, AfterBarrier1, BeforeBarrier1,
           BeforeBarrier2, saveVars, diskVars
  <1> QED
    BY <1>1, <1>2

\* The first barrier opens when every rank has made the directory.
LEMMA LeaveBarrier1Group ==
    ASSUME GroupInv, NEW r \in Ranks, LeaveBarrier1(r)
    PROVE  GroupInv'
  <1> USE Constants DEF GroupInv
  <1>1. GroupTypeOK'
    BY DEF GroupTypeOK, BarrierInv, LeaveBarrier1, RankPCs, saveVars, diskVars
  <1>2. BarrierInv'
    BY DEF GroupTypeOK, BarrierInv, LeaveBarrier1, RankPCs, AfterBarrier1, BeforeBarrier1,
           BeforeBarrier2, AllArrived, saveVars, diskVars
  <1> QED
    BY <1>1, <1>2

\* A rank that opens its file touches no other rank's.
LEMMA OpenShardGroup ==
    ASSUME GroupInv, NEW r \in Ranks, OpenShard(r)
    PROVE  GroupInv'
  <1> USE Constants DEF GroupInv
  <1>1. GroupTypeOK'
    BY DEF GroupTypeOK, BarrierInv, OpenShard, RankPCs, saveVars, diskVars
  <1>2. BarrierInv'
    BY DEF GroupTypeOK, BarrierInv, OpenShard, RankPCs, AfterBarrier1, BeforeBarrier1,
           BeforeBarrier2, saveVars, diskVars
  <1> QED
    BY <1>1, <1>2

\* What a rank has written are its weights.
LEMMA CloseShardGroup ==
    ASSUME GroupInv, NEW r \in Ranks, CloseShard(r)
    PROVE  GroupInv'
  <1> USE Constants DEF GroupInv
  <1>1. GroupTypeOK'
    BY DEF GroupTypeOK, BarrierInv, CloseShard, RankPCs, saveVars, diskVars
  <1>2. BarrierInv'
    BY DEF GroupTypeOK, BarrierInv, CloseShard, RankPCs, AfterBarrier1, BeforeBarrier1,
           BeforeBarrier2, saveVars, diskVars
  <1> QED
    BY <1>1, <1>2

\* The second barrier opens when every rank has written.
LEMMA LeaveBarrier2Group ==
    ASSUME GroupInv, NEW r \in Ranks, LeaveBarrier2(r)
    PROVE  GroupInv'
  <1> USE Constants DEF GroupInv
  <1>1. savedPaths' \in Seq(Steps)
    BY AppendProperties DEF GroupTypeOK, LeaveBarrier2
  <1>2. GroupTypeOK'
    BY <1>1 DEF GroupTypeOK, LeaveBarrier2, RankPCs, diskVars
  <1>3. BarrierInv'
    BY DEF GroupTypeOK, BarrierInv, LeaveBarrier2, RankPCs, AfterBarrier1, BeforeBarrier1,
           BeforeBarrier2, AllArrived, diskVars
  <1> QED
    BY <1>2, <1>3

\* The group is idle again.
LEMMA ReturnSaveGroup ==
    ASSUME GroupInv, ReturnSave
    PROVE  GroupInv'
  <1> USE Constants DEF GroupInv
  <1>1. GroupTypeOK'
    BY DEF GroupTypeOK, BarrierInv, ReturnSave, RankPCs, saveVars, diskVars
  <1>2. BarrierInv'
    BY DEF GroupTypeOK, BarrierInv, ReturnSave, RankPCs, AfterBarrier1, BeforeBarrier1,
           BeforeBarrier2, AllSaved, saveVars, diskVars
  <1> QED
    BY <1>1, <1>2

\* Every step of a save keeps the invariant of the group.
LEMMA SaveStepGroup == GroupInv /\ SaveStep => GroupInv'
  BY RemoveShardGroup, RemoveDirGroup, RotateDoneGroup, MakeDirGroup, LeaveBarrier1Group,
     OpenShardGroup, CloseShardGroup, LeaveBarrier2Group DEF SaveStep

-----------------------------------------------------------------------------
(* The steps of the driver.                                                *)

\* What the driver's variables hold, beside the group's.
DriverTypeOK ==
    /\ dpc \in DriverPCs
    /\ run \in 1..MaxRuns
    /\ globalSteps \in 0..(MaxStep + 1)
    /\ loader \in Nat
    /\ folders \subseteq Steps
    /\ dataFile \in [Steps -> FileContents]
    /\ tracker \in Steps \cup {NoFile, EmptyFile}
    /\ published \in Steps \cup {NoFile}

\* The invariant is that of the group and that of the driver,
\* before a step and after it.
LEMMA CInvParts ==
    /\ CInv <=> GroupInv /\ DriverTypeOK /\ StepInv
    /\ CInv' <=> GroupInv' /\ DriverTypeOK' /\ StepInv'
  BY DEF CInv, GroupInv, DriverTypeOK, TypeOK

\* A step of the driver alone leaves the group's invariant.
LEMMA GroupUnchanged == GroupInv /\ UNCHANGED groupVars => GroupInv'
  BY DEF GroupInv, GroupTypeOK, BarrierInv, groupVars, saveVars, diskVars

\* Training from scratch, and a refused start.
LEMMA ScratchOrFails ==
    ASSUME CInv, dpc = "start", FromScratch \/ StartFails
    PROVE  CInv'
  <1> USE Constants, CInvParts
  <1>1. GroupInv'
    BY GroupUnchanged DEF FromScratch, StartFails
  <1>2. DriverTypeOK' /\ StepInv'
    BY DEF DriverTypeOK, DriverPCs, StepInv, FromScratch, StartFails, driverDisk
  <1> QED
    BY <1>1, <1>2

\* A resume loads whole shards only, of a step that leaves another to train.
LEMMA ResumeCInv ==
    ASSUME CInv, dpc = "start", NEW s \in folders, ResumeFrom(s)
    PROVE  CInv'
  <1> USE Constants, CInvParts
  <1>1. CASE StartFails
    BY <1>1, ScratchOrFails
  <1>2. CASE ~StartFails
    <2>1. /\ WholeGroup(s) /\ dataFile[s] # EmptyFile
          /\ LoadGroup(s)
          /\ dpc' = "train" /\ globalSteps' = s + 1 /\ loader' = LoaderState(s)
          /\ UNCHANGED <<run, driverDisk>>
      BY <1>2 DEF ResumeFrom
    <2>2. s \in Steps /\ s # MaxStep
      BY DEF DriverTypeOK, StepInv
    <2>3. s + 1 \in Steps
      BY <2>2
    <2>4. GroupInv'
      <3>1. weights' \in [Ranks -> Weights]
        BY <2>1, <2>2 DEF LoadGroup, WholeGroup
      <3> QED
        BY <2>1, <3>1 DEF LoadGroup, GroupInv, GroupTypeOK, BarrierInv, saveVars, diskVars
    <2>5. loader' \in Nat
      BY <2>1, <2>2 DEF LoaderState, DriverTypeOK, FileContents
    <2>6. DriverTypeOK' /\ StepInv'
      BY <2>1, <2>2, <2>3, <2>5 DEF DriverTypeOK, DriverPCs, StepInv, driverDisk
    <2> QED
      BY <2>4, <2>6
  <1> QED
    BY <1>1, <1>2

\* Every way to start.
LEMMA StartCInv ==
    ASSUME CInv, StartDisabled \/ StartAuto \/ StartFromPath
    PROVE  CInv'
  <1>1. CASE StartDisabled
    BY <1>1, ScratchOrFails DEF StartDisabled
  <1>2. CASE StartAuto
    BY <1>2, ScratchOrFails, ResumeCInv DEF StartAuto
  <1>3. CASE StartFromPath
    BY <1>3, ScratchOrFails, ResumeCInv DEF StartFromPath
  <1> QED
    BY <1>1, <1>2, <1>3

\* Training gives every rank weights of this start and step.
LEMMA TrainStepCInv ==
    ASSUME CInv, TrainStep
    PROVE  CInv'
  <1> USE Constants, CInvParts
  <1>1. globalSteps \in Steps /\ run \in 1..MaxRuns
    BY DEF TrainStep, StepInv, DriverTypeOK
  <1>2. <<run, globalSteps>> \in Weights
    BY <1>1
  <1>3. GroupInv'
    BY <1>2 DEF TrainStep, GroupInv, GroupTypeOK, BarrierInv, saveVars, diskVars
  <1>4. dpc' \in {"save", "stepEnd"} /\ dpc = "train" /\ loader' = loader + 1
        /\ UNCHANGED <<run, globalSteps, driverDisk>>
    BY DEF TrainStep
  <1>5. DriverTypeOK' /\ StepInv'
    BY <1>1, <1>4 DEF DriverTypeOK, DriverPCs, StepInv, driverDisk
  <1> QED
    BY <1>3, <1>5

\* The driver's part of a save of the group.
LEMMA GroupSaveCInv ==
    ASSUME CInv, SaveGroup \/ GroupStep \/ GroupSaved
    PROVE  CInv'
  <1> USE Constants, CInvParts
  <1>1. CASE SaveGroup
    <2>1. globalSteps \in Steps
      BY <1>1 DEF SaveGroup, StepInv
    <2>2. GroupInv'
      BY <1>1, <2>1, CallSaveGroup DEF SaveGroup
    <2>3. DriverTypeOK' /\ StepInv'
      BY <1>1, <2>1 DEF SaveGroup, DriverTypeOK, DriverPCs, StepInv, driverDisk
    <2> QED
      BY <2>2, <2>3
  <1>2. CASE GroupStep
    <2>1. GroupInv'
      BY <1>2, SaveStepGroup DEF GroupStep
    <2>2. dirs' \subseteq Steps
      BY <2>1 DEF GroupInv, GroupTypeOK
    <2>3. DriverTypeOK' /\ StepInv'
      BY <1>2, <2>2 DEF GroupStep, DriverTypeOK, StepInv, driverVars
    <2> QED
      BY <2>1, <2>3
  <1>3. CASE GroupSaved
    <2>1. GroupInv'
      BY <1>3, ReturnSaveGroup DEF GroupSaved
    <2>2. DriverTypeOK' /\ StepInv'
      BY <1>3 DEF GroupSaved, DriverTypeOK, DriverPCs, StepInv, driverDisk
    <2> QED
      BY <2>1, <2>2
  <1> QED
    BY <1>1, <1>2, <1>3

\* The driver writes its files, and ends the step.
LEMMA FilesCInv ==
    ASSUME CInv, OpenData \/ CloseData \/ OpenTracker \/ CloseTracker \/ EndStep
    PROVE  CInv'
  <1> USE Constants, CInvParts
  <1>1. GroupInv'
    BY GroupUnchanged DEF OpenData, CloseData, OpenTracker, CloseTracker, EndStep
  <1>2. globalSteps \in Steps
    BY DEF StepInv, OpenData, CloseData, OpenTracker, CloseTracker, EndStep
  <1>3. CASE OpenData \/ CloseData
    BY <1>1, <1>2, <1>3 DEF OpenData, CloseData, DriverTypeOK, DriverPCs, FileContents, StepInv
  <1>4. CASE OpenTracker \/ CloseTracker
    BY <1>1, <1>2, <1>4
       DEF OpenTracker, CloseTracker, StepWritten, DriverTypeOK, DriverPCs, StepInv
  <1>5. CASE EndStep
    BY <1>1, <1>2, <1>5
       DEF EndStep, Returns, IsLastStep, DriverTypeOK, DriverPCs, StepInv, driverDisk
  <1> QED
    BY <1>3, <1>4, <1>5

\* A restart keeps the disk, and finds no rank in a save.
LEMMA RestartCInv ==
    ASSUME CInv, Restart
    PROVE  CInv'
  <1> USE Constants, CInvParts
  <1>1. savedPaths' \in Seq(Steps)
    BY DEF Restart
  <1>2. GroupTypeOK'
    BY <1>1 DEF Restart, GroupInv, GroupTypeOK, RankPCs, FreshWeights, diskVars
  <1>3. BarrierInv'
    BY DEF Restart, BarrierInv, AfterBarrier1
  <1>4. DriverTypeOK' /\ StepInv'
    BY DEF Restart, DriverTypeOK, DriverPCs, StepInv, driverDisk
  <1> QED
    BY <1>2, <1>3, <1>4 DEF GroupInv

\* Every step of the trainer keeps the invariant.
LEMMA StepCInv == CInv /\ [Next]_vars => CInv'
  <1> SUFFICES ASSUME CInv, [Next]_vars PROVE CInv'
    OBVIOUS
  <1>1. CASE Driver
    BY <1>1, StartCInv, TrainStepCInv, GroupSaveCInv, FilesCInv DEF Driver
  <1>2. CASE Restart
    BY <1>2, RestartCInv
  <1>3. CASE UNCHANGED vars
    <2>1. GroupInv'
      BY <1>3, CInvParts, GroupUnchanged DEF vars
    <2>2. DriverTypeOK' /\ StepInv'
      BY <1>3, CInvParts DEF DriverTypeOK, StepInv, vars, driverVars, driverDisk
    <2> QED
      BY <2>1, <2>2, CInvParts
  <1> QED
    BY <1>1, <1>2, <1>3 DEF Next

-----------------------------------------------------------------------------

\* The inductive invariant holds in every behaviour of the job.
THEOREM CheckpointInvariance == Spec => []CInv
  BY InitCInv, StepCInv, PTL DEF Spec

\* Every variable of the trainer and its ranks keeps its type.
THEOREM TrainerTypeCorrect == Spec => []TypeOK
  <1>1. CInv => TypeOK
    BY DEF CInv
  <1> QED
    BY <1>1, CheckpointInvariance, PTL

\* The second barrier of save_checkpoint: a rank has returned from a save only
\* when the shard of every rank is complete.
THEOREM SavesAreWhole == Spec => []SavedMeansWhole
  <1>1. CInv => SavedMeansWhole
    <2> SUFFICES ASSUME CInv, NEW q \in Ranks, rpc[q] = "saved", NEW r \in Ranks
                 PROVE  shard[target][r] \in Weights
      BY DEF SavedMeansWhole, WholeGroup
    <2>1. rpc[r] \notin BeforeBarrier2 /\ rpc[r] \in RankPCs
      BY DEF CInv, BarrierInv, TypeOK, GroupTypeOK
    <2>2. rpc[r] \in {"barrier2", "saved"}
      BY <2>1 DEF RankPCs, BeforeBarrier1, BeforeBarrier2
    <2> QED
      BY <2>2 DEF CInv, BarrierInv
  <1> QED
    BY <1>1, CheckpointInvariance, PTL

\* The first barrier of save_checkpoint: a rank writes only after rank 0 has
\* removed what it will, and into a directory that is there.
THEOREM WritersWaitForRotation == Spec => []WritersAfterRotation
  <1>1. CInv => WritersAfterRotation
    <2> SUFFICES ASSUME CInv, NEW r \in Ranks, rpc[r] \in {"write", "writing"}
                 PROVE  target \in dirs /\ doomed = {}
      BY DEF WritersAfterRotation
    <2>1. rpc[0] \notin BeforeBarrier1
      BY Constants DEF CInv, BarrierInv, AfterBarrier1
    <2> QED
      BY <2>1 DEF CInv, BarrierInv, BeforeBarrier1
  <1> QED
    BY <1>1, CheckpointInvariance, PTL
-----------------------------------------------------------------------------
(* What a finished job leaves behind.                                      *)

\* The folder of step s has the shards of the weights at hand.
Holds(s) == s \in folders /\ \A r \in Ranks : shard[s][r] = weights[r]

\* Step s is the tracked one, and is of the weights at hand.
PublishedAt(s) == tracker = s /\ Holds(s) /\ dataFile[s] \in Nat

\* From the save of the last step to the end, weights do not change any more,
\* and a rank that has written its shard keeps it.
FinishInv ==
    /\ dirs \subseteq folders
    /\ dpc = "saving" =>
         /\ target = globalSteps
         /\ \A r \in Ranks : rpc[r] \in {"barrier2", "saved"} => shard[target][r] = weights[r]
    /\ dpc \in {"openData", "closeData", "openTracker", "closeTracker"} => Holds(globalSteps)
    /\ dpc \in {"openTracker", "closeTracker"} => dataFile[globalSteps] \in Nat
    /\ dpc = "stepEnd" /\ SaveFreq > 0 /\ IsLastStep => PublishedAt(globalSteps)
    /\ dpc = "finished" /\ SaveFreq > 0 => PublishedAt(globalSteps - 1)

\* A step of the group keeps what a rank has written: files are removed only
\* while every rank is before the first barrier.
LEMMA GroupStepFinish ==
    ASSUME CInv, FinishInv, GroupStep
    PROVE  FinishInv'
  <1> USE Constants
  <1>1. /\ dpc = "saving" /\ dpc' = "saving" /\ target = globalSteps
        /\ globalSteps' = globalSteps /\ folders' = folders \cup dirs' /\ SaveStep
    BY DEF GroupStep, FinishInv, driverVars
  <1>2. /\ rpc \in [Ranks -> RankPCs] /\ target \in Steps
        /\ shard \in [Steps -> [Ranks -> Weights \cup {NoShard, TornShard}]]
    BY DEF CInv, TypeOK, GroupTypeOK
  <1>3. target' = target /\ weights' = weights
    BY <1>1 DEF SaveStep, RemoveShard, RemoveDir, RotateDone, MakeDir, LeaveBarrier1, OpenShard,
                CloseShard, LeaveBarrier2, saveVars, diskVars
  <1>4. SUFFICES ASSUME NEW r \in Ranks, rpc'[r] \in {"barrier2", "saved"}
                 PROVE  shard'[target][r] = weights[r]
    BY <1>1, <1>3 DEF FinishInv
  <1>5. rpc[r] \in {"barrier2", "saved"} => shard[target][r] = weights[r]
    BY <1>1 DEF FinishInv
  <1>6. CASE \E s \in Steps, q \in Ranks : RemoveShard(s, q)
    <2>1. rpc[0] = "rotate" /\ rpc' = rpc
      BY <1>6 DEF RemoveShard, saveVars
    <2> QED
      BY <1>4, <2>1 DEF CInv, BarrierInv, AfterBarrier1, BeforeBarrier1
  <1>7. CASE (\E s \in Steps : RemoveDir(s)) \/ RotateDone
    BY <1>2, <1>4, <1>5, <1>7 DEF RemoveDir, RotateDone, diskVars
  <1>8. CASE \E q \in Ranks : MakeDir(q) \/ LeaveBarrier1(q) \/ LeaveBarrier2(q)
    BY <1>2, <1>4, <1>5, <1>8 DEF MakeDir, LeaveBarrier1, LeaveBarrier2, diskVars
  <1>9. CASE \E q \in Ranks : OpenShard(q) \/ CloseShard(q)
    BY <1>2, <1>4, <1>5, <1>9 DEF OpenShard, CloseShard
  <1> QED
    BY <1>1, <1>6, <1>7, <1>8, <1>9 DEF SaveStep

\* The group returns when every rank has written its weights.
LEMMA GroupSavedFinish ==
    ASSUME CInv, FinishInv, GroupSaved
    PROVE  FinishInv'
  <1> USE Constants
  <1>1. /\ dpc = "saving" /\ dpc' = "openData" /\ AllSaved
        /\ UNCHANGED <<target, diskVars, weights, globalSteps, folders>>
    BY DEF GroupSaved, ReturnSave, driverDisk
  <1>2. target = globalSteps /\ \A r \in Ranks : shard[target][r] = weights[r]
    BY <1>1 DEF FinishInv, AllSaved
  <1>3. target \in folders
    BY <1>1 DEF CInv, BarrierInv, FinishInv, AllSaved
  <1> QED
    BY <1>1, <1>2, <1>3 DEF FinishInv, Holds, diskVars

\* A start, a training step and the call of a save: a step that is not saved
\* is not the last.
LEMMA TrainFinish ==
    ASSUME CInv, FinishInv,
           StartDisabled \/ StartAuto \/ StartFromPath \/ TrainStep \/ SaveGroup
    PROVE  FinishInv'
  <1> USE Constants
  <1>1. CASE StartDisabled \/ StartAuto \/ StartFromPath
    <2>1. dpc' \in {"train", "failed"} /\ UNCHANGED <<dirs, folders>>
      BY <1>1 DEF StartDisabled, StartAuto, StartFromPath, FromScratch, StartFails, ResumeFrom,
                  LoadGroup, groupVars, diskVars, driverDisk
    <2> QED
      BY <2>1 DEF FinishInv
  <1>2. CASE TrainStep
    <2>1. PICK esi \in EsiSignals : dpc' = IF SaveDue(esi) THEN "save" ELSE "stepEnd"
      BY <1>2 DEF TrainStep
    <2>2. UNCHANGED <<dirs, folders, globalSteps>>
      BY <1>2 DEF TrainStep, diskVars, driverDisk
    <2>3. dpc' = "stepEnd" /\ SaveFreq > 0 => ~IsLastStep'
      BY <2>1, <2>2 DEF SaveDue, IsLastStep
    <2> QED
      BY <2>1, <2>2, <2>3 DEF FinishInv
  <1>3. CASE SaveGroup
    <2>1. /\ dpc' = "saving" /\ target' = globalSteps /\ UNCHANGED <<globalSteps, dirs, folders>>
          /\ \A r \in Ranks : rpc'[r] \notin {"barrier2", "saved"}
      BY <1>3 DEF SaveGroup, CallSave, diskVars, driverDisk
    <2> QED
      BY <2>1 DEF FinishInv
  <1> QED
    BY <1>1, <1>2, <1>3

\* The driver's files, and the end of the step.
LEMMA FilesFinish ==
    ASSUME CInv, FinishInv, OpenData \/ CloseData \/ OpenTracker \/ CloseTracker \/ EndStep
    PROVE  FinishInv'
  <1> USE Constants
  <1>1. UNCHANGED <<dirs, folders, shard, weights>>
    BY DEF OpenData, CloseData, OpenTracker, CloseTracker, EndStep, groupVars, diskVars, driverDisk
  <1>2. globalSteps \in Steps /\ globalSteps \in Nat /\ loader \in Nat
        /\ dataFile \in [Steps -> FileContents]
    BY DEF CInv, TypeOK, StepInv, OpenData, CloseData, OpenTracker, CloseTracker, EndStep
  <1>3. CASE OpenData \/ CloseData
    BY <1>1, <1>2, <1>3 DEF OpenData, CloseData, FinishInv, Holds
  <1>4. CASE OpenTracker
    BY <1>1, <1>4 DEF OpenTracker, FinishInv, Holds
  <1>5. CASE CloseTracker
    BY <1>1, <1>5 DEF CloseTracker, StepWritten, FinishInv, PublishedAt, Holds
  <1>6. CASE EndStep
    <2>1. /\ dpc = "stepEnd" /\ dpc' = IF Returns THEN "finished" ELSE "train"
          /\ globalSteps' = globalSteps + 1 /\ UNCHANGED <<tracker, dataFile>>
      BY <1>6 DEF EndStep, driverDisk
    <2>2. globalSteps' - 1 = globalSteps
      BY <1>2, <2>1
    <2> QED
      BY <1>1, <2>1, <2>2 DEF FinishInv, PublishedAt, Holds, Returns
  <1> QED
    BY <1>3, <1>4, <1>5, <1>6

\* Every step of the trainer keeps the invariant.
LEMMA StepFinish == CInv /\ FinishInv /\ [Next]_vars => FinishInv'
  <1> SUFFICES ASSUME CInv, FinishInv, [Next]_vars PROVE FinishInv'
    OBVIOUS
  <1>1. CASE Driver
    BY <1>1, TrainFinish, GroupStepFinish, GroupSavedFinish, FilesFinish DEF Driver
  <1>2. CASE Restart
    BY <1>2 DEF Restart, FinishInv, diskVars, driverDisk
  <1>3. CASE UNCHANGED vars
    BY <1>3 DEF vars, groupVars, saveVars, diskVars, driverVars, driverDisk, FinishInv, PublishedAt,
                Holds, IsLastStep
  <1> QED
    BY <1>1, <1>2, <1>3 DEF Next

\* A job that ends has published the weights it ends with, whatever save_freq,
\* resume mode and number of kept checkpoints: the last step is always saved,
\* by every rank, and tracked.
THEOREM FinishedJobIsPublished == Spec => []FinishedIsPublished
  <1>1. Init => FinishInv
    BY DEF Init, EmptyDisk, FinishInv
  <1>2. CInv /\ FinishInv => FinishedIsPublished
    <2> SUFFICES ASSUME CInv, FinishInv, dpc = "finished", SaveFreq > 0
                 PROVE  /\ tracker = globalSteps - 1
                        /\ Loadable(tracker)
                        /\ shard[tracker] = weights
      BY DEF FinishedIsPublished
    <2>1. PublishedAt(globalSteps - 1)
      BY DEF FinishInv
    <2>2. tracker \in Steps /\ weights \in [Ranks -> Weights]
          /\ shard \in [Steps -> [Ranks -> Weights \cup {NoShard, TornShard}]]
      BY <2>1 DEF CInv, TypeOK, GroupTypeOK, PublishedAt, Holds
    <2>3. shard[tracker] = weights
      BY <2>1, <2>2 DEF PublishedAt, Holds
    <2> QED
      BY <2>1, <2>2, <2>3 DEF PublishedAt, Holds, Loadable, WholeGroup
  <1> QED
    BY <1>1, <1>2, StepFinish, CheckpointInvariance, PTL DEF Spec
-----------------------------------------------------------------------------
(* How many checkpoints a start keeps.                                     *)

\* The steps rank 0 remembers.
Remembered == {savedPaths[i] : i \in 1..Len(savedPaths)}

\* Rank 0's shard of s was written by this start of the job.
OfThisStart(s) == shard[s][0] \in Weights /\ shard[s][0][1] = run

\* Whatever this start has written is remembered, about to be removed or just
\* being saved, and rank 0 has made room before it writes.
KeptInv ==
    /\ \A r \in Ranks : weights[r][1] <= run
    /\ \A s \in Steps, r \in Ranks : shard[s][r] \in Weights => shard[s][r][1] <= run
    /\ \A s \in Steps : OfThisStart(s) =>
         s \in Remembered \/ s \in doomed \/ (rpc[0] = "barrier2" /\ s = target)
    /\ MaxKeep > 0 =>
         /\ Len(savedPaths) <= MaxKeep
         /\ rpc[0] \notin {"idle", "saved"} => Len(savedPaths) < MaxKeep

\* What the invariant says of the types of the variables at hand.
LEMMA CTypes ==
    ASSUME CInv
    PROVE  /\ savedPaths \in Seq(Steps) /\ Len(savedPaths) \in Nat
           /\ shard \in [Steps -> [Ranks -> Weights \cup {NoShard, TornShard}]]
           /\ rpc \in [Ranks -> RankPCs] /\ target \in Steps
           /\ weights \in [Ranks -> Weights]
           /\ run \in Nat /\ run \in 1..MaxRuns
           /\ \A w \in Weights : w[1] \in Nat
  <1> USE Constants DEF CInv, TypeOK, GroupTypeOK
  <1>1. savedPaths \in Seq(Steps)
    OBVIOUS
  <1>2. Len(savedPaths) \in Nat
    BY <1>1
  <1>3. \A w \in Weights : w[1] \in Nat
    BY TrainerAssumption
  <1>4. run \in Nat /\ run \in 1..MaxRuns
    OBVIOUS
  <1> QED
    BY <1>1, <1>2, <1>3, <1>4

\* The rotation splits what is remembered into what is removed and what is not.
LEMMA CallSaveKept ==
    ASSUME CInv, KeptInv, NEW s0 \in Steps, CallSave(s0), UNCHANGED run
    PROVE  KeptInv'
  <1> USE Constants, CTypes
  <1>1. rpc[0] = "idle" /\ doomed = {} /\ rpc'[0] = "rotate"
    BY DEF CallSave, CInv, BarrierInv
  <1>2. UNCHANGED <<shard, weights>>
    BY DEF CallSave, diskVars
  <1>3. Remembered \subseteq Remembered' \cup doomed'
    <2>1. CASE Rotates
      <3>1. /\ doomed' = {savedPaths[i] : i \in 1..KeepStart}
            /\ savedPaths' = SubSeq(savedPaths, KeepStart + 1, Len(savedPaths))
        BY <2>1 DEF CallSave
      <3>2. KeepStart \in 1..Len(savedPaths)
        BY <2>1 DEF Rotates, KeepStart
      <3>3. /\ Len(savedPaths') = Len(savedPaths) - KeepStart
            /\ \A i \in 1..Len(savedPaths) - KeepStart :
                  savedPaths'[i] = savedPaths[KeepStart + i]
        <4>1. KeepStart + 1 \in Int /\ Len(savedPaths) \in Int
          BY <3>2
        <4>2. \A i \in (KeepStart + 1)..Len(savedPaths) : savedPaths[i] \in Steps
          BY <3>2
        <4> QED
          BY <3>1, <3>2, <4>1, <4>2, SubSeqProperties
      <3>4. ASSUME NEW i \in 1..Len(savedPaths) PROVE savedPaths[i] \in Remembered' \cup doomed'
        <4>1. CASE i <= KeepStart
          <5>1. i \in 1..KeepStart
            BY <3>2, <4>1
          <5> QED
            BY <3>1, <5>1
        <4>2. CASE i > KeepStart
          <5>1. /\ i - KeepStart \in 1..Len(savedPaths) - KeepStart
                /\ KeepStart + (i - KeepStart) = i
            BY <3>2, <4>2
          <5>2. savedPaths'[i - KeepStart] = savedPaths[i]
            BY <3>3, <5>1
          <5> QED
            BY <3>3, <5>1, <5>2 DEF Remembered
        <4> QED
          BY <3>2, <4>1, <4>2
      <3> QED
        BY <3>4 DEF Remembered
    <2>2. CASE ~Rotates
      BY <2>2 DEF CallSave, Remembered
    <2> QED
      BY <2>1, <2>2
  <1>4. MaxKeep > 0 => Len(savedPaths') < MaxKeep
    <2>1. CASE Rotates
      <3>1. KeepStart \in 1..Len(savedPaths) /\ Len(savedPaths) - KeepStart = MaxKeep - 1
        BY <2>1 DEF Rotates, KeepStart
      <3>2. \A i \in (KeepStart + 1)..Len(savedPaths) : savedPaths[i] \in Steps
        BY <3>1
      <3>3. Len(savedPaths') = Len(savedPaths) - KeepStart
        <4>1. KeepStart + 1 \in Int /\ Len(savedPaths) \in Int
          BY <3>1
        <4>2. savedPaths' = SubSeq(savedPaths, KeepStart + 1, Len(savedPaths))
          BY <2>1 DEF CallSave
        <4> QED
          BY <3>1, <3>2, <4>1, <4>2, SubSeqProperties
      <3> QED
        BY <3>1, <3>3
    <2>2. CASE ~Rotates
      BY <2>2 DEF CallSave, Rotates
    <2> QED
      BY <2>1, <2>2
  <1>5. \A s \in Steps : OfThisStart(s)' => s \in Remembered' \/ s \in doomed'
    BY <1>1, <1>2, <1>3 DEF KeptInv, OfThisStart
  <1> QED
    BY <1>1, <1>2, <1>4, <1>5 DEF KeptInv

\* The steps of a save: a directory is forgotten only once its files are gone,
\* and a path is remembered with the shard complete.
LEMMA GroupStepKept ==
    ASSUME CInv, KeptInv, SaveStep, UNCHANGED run
    PROVE  KeptInv'
  <1> USE Constants, CTypes
  <1>1. CASE \E s \in Steps, r \in Ranks : RemoveShard(s, r)
    <2>1. PICK s0 \in Steps, q \in Ranks : RemoveShard(s0, q)
      BY <1>1
    <2>2. UNCHANGED <<rpc, target, doomed, savedPaths, weights>>
      BY <2>1 DEF RemoveShard, saveVars
    <2>3. \A s \in Steps, r \in Ranks : shard'[s][r] \in Weights => shard'[s][r] = shard[s][r]
      BY <2>1 DEF RemoveShard
    <2>4. \A s \in Steps : OfThisStart(s)' => OfThisStart(s)
      BY <2>3 DEF OfThisStart
    <2>5. Remembered' = Remembered
      BY <2>2 DEF Remembered
    <2>6. \A s \in Steps, r \in Ranks : shard'[s][r] \in Weights => shard'[s][r][1] <= run
      BY <2>3 DEF KeptInv
    <2> QED
      BY <2>2, <2>4, <2>5, <2>6 DEF KeptInv
  <1>2. CASE \E s \in Steps : RemoveDir(s)
    <2>1. PICK s0 \in Steps : RemoveDir(s0)
      BY <1>2
    <2>2. UNCHANGED <<rpc, target, savedPaths, shard, weights>> /\ doomed' = doomed \ {s0}
      BY <2>1 DEF RemoveDir
    <2>3. ~OfThisStart(s0)
      BY <2>1 DEF RemoveDir, OfThisStart
    <2> QED
      <3>1. Remembered' = Remembered /\ \A s \in Steps : OfThisStart(s)' <=> OfThisStart(s)
        BY <2>2 DEF Remembered, OfThisStart
      <3> QED
        BY <2>2, <2>3, <3>1 DEF KeptInv
  <1>3. CASE RotateDone
    BY <1>3 DEF RotateDone, KeptInv, Remembered, OfThisStart, diskVars
  <1>4. CASE \E r \in Ranks : MakeDir(r) \/ LeaveBarrier1(r)
    <2>1. UNCHANGED <<target, doomed, savedPaths, shard, weights>>
      BY <1>4 DEF MakeDir, LeaveBarrier1, diskVars
    <2>2. rpc'[0] = rpc[0] \/ (rpc[0] \in {"mkdir", "barrier1"} /\ rpc'[0] \in {"barrier1", "write"})
      BY <1>4 DEF MakeDir, LeaveBarrier1
    <2>3. Remembered' = Remembered /\ \A s \in Steps : OfThisStart(s)' <=> OfThisStart(s)
      BY <2>1 DEF OfThisStart, Remembered
    <2> QED
      BY <2>1, <2>2, <2>3 DEF KeptInv
  <1>5. CASE \E r \in Ranks : OpenShard(r) \/ CloseShard(r)
    <2>1. PICK q \in Ranks : OpenShard(q) \/ CloseShard(q)
      BY <1>5
    <2>2. UNCHANGED <<target, doomed, savedPaths, weights>>
      BY <2>1 DEF OpenShard, CloseShard
    <2>3. \A s \in Steps, r \in Ranks :
             \/ shard'[s][r] = shard[s][r]
             \/ r = q /\ s = target /\ shard'[s][r] = TornShard
             \/ r = q /\ s = target /\ shard'[s][r] = weights[r] /\ rpc'[r] = "barrier2"
      <3>1. CASE OpenShard(q)
        BY <3>1 DEF OpenShard
      <3>2. CASE CloseShard(q)
        BY <3>2 DEF CloseShard
      <3> QED
        BY <2>1, <3>1, <3>2
    <2>4. rpc[0] # "barrier2" \/ rpc'[0] = "barrier2"
      BY <2>1 DEF OpenShard, CloseShard
    <2>5. rpc[0] \notin {"idle", "saved"} \/ rpc'[0] = rpc[0]
      BY <2>1 DEF OpenShard, CloseShard
    <2>6. \A s \in Steps, r \in Ranks : shard'[s][r] \in Weights => shard'[s][r][1] <= run
      <3>1. ASSUME NEW s \in Steps, NEW r \in Ranks, shard'[s][r] \in Weights
            PROVE  shard'[s][r] = shard[s][r] \/ shard'[s][r] = weights[r]
        BY <2>3, <3>1
      <3>2. /\ \A r \in Ranks : weights[r][1] <= run
            /\ \A s \in Steps, r \in Ranks : shard[s][r] \in Weights => shard[s][r][1] <= run
        BY DEF KeptInv
      <3>3. SUFFICES ASSUME NEW s \in Steps, NEW r \in Ranks, shard'[s][r] \in Weights
                     PROVE  shard'[s][r][1] <= run
        OBVIOUS
      <3>4. CASE shard'[s][r] = shard[s][r]
        BY <3>2, <3>3, <3>4
      <3>5. CASE shard'[s][r] = weights[r]
        BY <3>2, <3>5
      <3> QED
        BY <3>1, <3>3, <3>4, <3>5
    <2>7. \A s \in Steps : OfThisStart(s)' =>
             s \in Remembered' \/ s \in doomed' \/ (rpc'[0] = "barrier2" /\ s = target')
      BY <2>2, <2>3, <2>4 DEF KeptInv, OfThisStart, Remembered
    <2> QED
      BY <2>2, <2>5, <2>6, <2>7 DEF KeptInv
  <1>6. CASE \E r \in Ranks : LeaveBarrier2(r)
    <2>1. PICK q \in Ranks : LeaveBarrier2(q)
      BY <1>6
    <2>2. UNCHANGED <<target, doomed, shard, weights>> /\ rpc' = [rpc EXCEPT ![q] = "saved"]
          /\ rpc[q] = "barrier2"
      BY <2>1 DEF LeaveBarrier2, diskVars
    <2>3. CASE q # 0
      <3>1. savedPaths' = savedPaths /\ rpc'[0] = rpc[0]
        BY <2>1, <2>2, <2>3 DEF LeaveBarrier2
      <3>2. Remembered' = Remembered
        BY <3>1 DEF Remembered
      <3>3. \A s \in Steps : OfThisStart(s)' <=> OfThisStart(s)
        BY <2>2 DEF OfThisStart
      <3> QED
        BY <2>2, <3>1, <3>2, <3>3 DEF KeptInv
    <2>4. CASE q = 0
      <3>1. savedPaths' = Append(savedPaths, target)
        BY <2>1, <2>4 DEF LeaveBarrier2
      <3>2. /\ Len(savedPaths') = Len(savedPaths) + 1
            /\ savedPaths'[Len(savedPaths) + 1] = target
            /\ \A i \in 1..Len(savedPaths) : savedPaths'[i] = savedPaths[i]
        BY <3>1, AppendProperties
      <3>3. Remembered \subseteq Remembered' /\ target \in Remembered'
        <4>1. \A i \in 1..Len(savedPaths) : i \in 1..Len(savedPaths')
          BY <3>2
        <4>2. Len(savedPaths) + 1 \in 1..Len(savedPaths')
          BY <3>2
        <4> QED
          BY <3>2, <4>1, <4>2 DEF Remembered
      <3>4. MaxKeep > 0 => Len(savedPaths') <= MaxKeep
        BY <2>2, <2>4, <3>2 DEF KeptInv
      <3> QED
        BY <2>2, <2>4, <3>3, <3>4 DEF KeptInv, OfThisStart
    <2> QED
      BY <2>3, <2>4
  <1> QED
    BY <1>1, <1>2, <1>3, <1>4, <1>5, <1>6 DEF SaveStep

\* A start reads the disk only: what it loads was written by an earlier one.
LEMMA StartKept ==
    ASSUME CInv, KeptInv, StartDisabled \/ StartAuto \/ StartFromPath
    PROVE  KeptInv'
  <1> USE Constants, CTypes
  <1>1. UNCHANGED <<saveVars, diskVars, run>>
    BY DEF StartDisabled, StartAuto, StartFromPath, FromScratch, StartFails, ResumeFrom, LoadGroup,
           groupVars
  <1>2. \/ weights' = weights
        \/ \E s \in folders : WholeGroup(s) /\ weights' = [r \in Ranks |-> shard[s][r]]
    BY DEF StartDisabled, StartAuto, StartFromPath, FromScratch, StartFails, ResumeFrom, LoadGroup,
           groupVars
  <1>3. folders \subseteq Steps
    BY DEF CInv, TypeOK
  <1>4. \A r \in Ranks : weights'[r][1] <= run
    BY <1>2, <1>3 DEF KeptInv, WholeGroup
  <1> QED
    BY <1>1, <1>4 DEF KeptInv, OfThisStart, Remembered, saveVars, diskVars

\* A restart forgets what was remembered, and no file is of the new start yet.
LEMMA RestartKept ==
    ASSUME CInv, KeptInv, Restart
    PROVE  KeptInv'
  <1> USE Constants, CTypes
  <1>1. run' = run + 1 /\ savedPaths' = <<>> /\ shard' = shard /\ rpc'[0] = "idle"
        /\ weights' = FreshWeights
    BY DEF Restart, diskVars
  <1>2. \A s \in Steps : ~OfThisStart(s)'
    BY <1>1 DEF KeptInv, OfThisStart
  <1>3. \A r \in Ranks : weights'[r][1] <= run'
    BY <1>1 DEF FreshWeights
  <1>4. \A s \in Steps, r \in Ranks : shard'[s][r] \in Weights => shard'[s][r][1] <= run'
    BY <1>1 DEF KeptInv
  <1> QED
    BY <1>1, <1>2, <1>3, <1>4 DEF KeptInv

\* Every step of the trainer keeps the invariant.
LEMMA StepKept == CInv /\ KeptInv /\ [Next]_vars => KeptInv'
  <1> SUFFICES ASSUME CInv, KeptInv, [Next]_vars PROVE KeptInv'
    OBVIOUS
  <1> USE Constants, CTypes
  <1>1. CASE StartDisabled \/ StartAuto \/ StartFromPath
    BY <1>1, StartKept
  <1>2. CASE TrainStep
    <2>1. /\ weights' = [r \in Ranks |-> <<run, globalSteps>>]
          /\ UNCHANGED <<saveVars, diskVars, run>>
      BY <1>2 DEF TrainStep
    <2> QED
      BY <2>1 DEF KeptInv, OfThisStart, Remembered, saveVars, diskVars
  <1>3. CASE SaveGroup
    <2>1. globalSteps \in Steps
      BY <1>3 DEF SaveGroup, CInv, StepInv
    <2>2. CallSave(globalSteps) /\ UNCHANGED run
      BY <1>3 DEF SaveGroup
    <2> QED
      BY <2>1, <2>2, CallSaveKept
  <1>4. CASE GroupStep
    BY <1>4, GroupStepKept DEF GroupStep, driverVars
  <1>5. CASE GroupSaved
    <2>1. UNCHANGED <<target, doomed, savedPaths, shard, weights, run>>
          /\ rpc[0] = "saved" /\ rpc'[0] = "idle"
      BY <1>5 DEF GroupSaved, ReturnSave, AllSaved, diskVars
    <2>2. Remembered' = Remembered /\ \A s \in Steps : OfThisStart(s)' <=> OfThisStart(s)
      BY <2>1 DEF OfThisStart, Remembered
    <2> QED
      BY <2>1, <2>2 DEF KeptInv
  <1>6. CASE \/ OpenData \/ CloseData \/ OpenTracker \/ CloseTracker \/ EndStep
             \/ UNCHANGED vars
    <2>1. UNCHANGED <<groupVars, run>>
      BY <1>6 DEF OpenData, CloseData, OpenTracker, CloseTracker, EndStep, vars, driverVars
    <2>2. UNCHANGED <<rpc, target, doomed, savedPaths, shard, weights, run>>
      BY <2>1 DEF groupVars, saveVars, diskVars
    <2>3. Remembered' = Remembered /\ \A s \in Steps : OfThisStart(s)' <=> OfThisStart(s)
      BY <2>2 DEF OfThisStart, Remembered
    <2> QED
      BY <2>2, <2>3 DEF KeptInv
  <1>7. CASE Restart
    BY <1>7, RestartKept
  <1> QED
    BY <1>1, <1>2, <1>3, <1>4, <1>5, <1>6, <1>7 DEF Next, Driver

\* Once a save is over, no more than max_ckpt_to_keep of the checkpoints of
\* this start are left, whatever an earlier start left or a kill interrupted.
THEOREM RotationMakesRoom == Spec => []KeptPerRun
  <1>1. Init => KeptInv
    BY Constants DEF Init, NoGroupSave, EmptyDisk, FreshWeights, KeptInv, OfThisStart, Remembered
  <1>2. CInv /\ KeptInv => KeptPerRun
    <2> DEFINE Own == {s \in Steps : \E step \in 0..MaxStep : shard[s][0] = <<run, step>>}
               path == [i \in 1..Len(savedPaths) |-> savedPaths[i]]
    <2> SUFFICES ASSUME CInv, KeptInv, MaxKeep > 0, AllSaved
                 PROVE  Cardinality(Own) <= MaxKeep
      BY DEF KeptPerRun
    <2> USE Constants, CTypes
    <2>1. rpc[0] = "saved" /\ doomed = {}
      BY DEF AllSaved, CInv, BarrierInv
    <2>2. \A s \in Own : OfThisStart(s)
      <3>1. SUFFICES ASSUME NEW s \in Steps, NEW step \in 0..MaxStep, shard[s][0] = <<run, step>>
                     PROVE  OfThisStart(s)
        OBVIOUS
      <3>2. <<run, step>> \in Weights
        OBVIOUS
      <3> QED
        BY <3>1, <3>2 DEF OfThisStart
    <2>3. Own \subseteq Remembered
      BY <2>1, <2>2 DEF KeptInv
    <2>4. path \in Surjection(1..Len(savedPaths), Remembered)
      BY DEF Surjection, Remembered
    <2>5. IsFiniteSet(1..Len(savedPaths)) /\ Cardinality(1..Len(savedPaths)) = Len(savedPaths)
      <3>1. 1 \in Int /\ Len(savedPaths) \in Int
        OBVIOUS
      <3>2. IsFiniteSet(1..Len(savedPaths))
            /\ Cardinality(1..Len(savedPaths))
                 = IF 1 > Len(savedPaths) THEN 0 ELSE Len(savedPaths) - 1 + 1
        BY <3>1, FS_Interval
      <3> QED
        BY <3>2
    <2>6. IsFiniteSet(Remembered) /\ Cardinality(Remembered) <= Len(savedPaths)
      BY <2>4, <2>5, FS_Surjection
    <2>7. Cardinality(Own) <= Cardinality(Remembered) /\ IsFiniteSet(Own)
      BY <2>3, <2>6, FS_Subset
    <2>8. Cardinality(Own) \in Nat /\ Cardinality(Remembered) \in Nat
      BY <2>6, <2>7, FS_CardinalityType
    <2>9. Len(savedPaths) <= MaxKeep
      BY DEF KeptInv
    <2> QED
      BY <2>6, <2>7, <2>8, <2>9
  <1> QED
    BY <1>1, <1>2, StepKept, CheckpointInvariance, PTL DEF Spec

-----------------------------------------------------------------------------
(***************************************************************************)
(* A job that keeps more than one checkpoint and resumes automatically can *)
(* be killed at any moment: what the tracker file names is loadable, a     *)
(* resume takes the weights and the position in the data from one save,    *)
(* and no published step is lost.                                          *)
(*                                                                         *)
(* Both assumptions are needed.  With one kept checkpoint the rotation     *)
(* removes the very one the tracker names, and after a resume from a given *)
(* path a step that the tracker names may be saved a second time.          *)
(*                                                                         *)
(* The argument: rank 0 remembers the paths of this start in the order of  *)
(* their steps (Ascending), and between two saves the last of them is the  *)
(* one the tracker names (PathInv).  The rotation leaves the last path out *)
(* because it keeps at least MaxKeep - 1 >= 1, so the tracked checkpoint   *)
(* is never doomed; and the step being saved is a later one (DiskInv).     *)
(* TrainInv then follows the step's number from the training step through  *)
(* the shards, data.pt and the tracker to the next start.                  *)
(***************************************************************************)
\* Rank 0 saved step s last.
EndsAt(s) == savedPaths # <<>> /\ savedPaths[Len(savedPaths)] = s

\* Rank 0 saved every step it remembers before s.
AllBefore(s) == \A i \in 1..Len(savedPaths) : savedPaths[i] < s

Ascending ==
    \A i, j \in 1..Len(savedPaths) : i < j => savedPaths[i] < savedPaths[j]

\* The group has saved this step, and the driver writes its own files.
Written == {"openData", "closeData", "openTracker", "closeTracker"}

DiskInv ==
    /\ tracker \in Steps => Loadable(tracker) /\ tracker \notin doomed
    /\ dirs \subseteq folders
    /\ dpc # "saving" => doomed = {}
    /\ dpc \in {"train", "save", "saving", "openData", "closeData", "openTracker"}
         /\ tracker \in Steps => tracker < globalSteps
    /\ dpc = "stepEnd" /\ tracker \in Steps => tracker <= globalSteps
    /\ dpc \in Written => WholeGroup(globalSteps) /\ globalSteps \in folders
    /\ dpc \in {"openTracker", "closeTracker"} => dataFile[globalSteps] \in Nat

PathInv ==
    /\ Ascending
    /\ dpc \in {"start", "failed"} => savedPaths = <<>>
    /\ dpc \in {"train", "save", "stepEnd"} /\ savedPaths # <<>> =>
         tracker \in Steps /\ EndsAt(tracker)
    /\ dpc = "saving" => /\ target = globalSteps
                         /\ IF rpc[0] = "saved" THEN EndsAt(globalSteps)
                                                ELSE AllBefore(globalSteps)
    /\ dpc \in Written => EndsAt(globalSteps)

KInv == CInv /\ DiskInv /\ PathInv

\* The settings in which a kill is harmless.
Settings == MaxKeep # 1 /\ ResumeModes \subseteq {"auto"}

-----------------------------------------------------------------------------

\* The first start of the job has neither files nor paths.
LEMMA InitKInv == Init => KInv
  <1> SUFFICES ASSUME Init PROVE KInv
    OBVIOUS
  <1>1. CInv
    BY InitCInv
  <1>2. DiskInv
    BY Constants DEF Init, NoGroupSave, EmptyDisk, DiskInv, Written
  <1>3. PathInv
    BY Constants DEF Init, NoGroupSave, PathInv, Ascending, Written
  <1> QED
    BY <1>1, <1>2, <1>3 DEF KInv

\* What the invariant says of the types of the variables at hand.
LEMMA KTypes ==
    ASSUME CInv
    PROVE  /\ savedPaths \in Seq(Steps) /\ Len(savedPaths) \in Nat
           /\ \A i \in 1..Len(savedPaths) : savedPaths[i] \in Nat
           /\ target \in Steps /\ target \in Nat
           /\ globalSteps \in Nat /\ loader \in Nat
           /\ tracker \in Steps \cup {NoFile, EmptyFile}
           /\ shard \in [Steps -> [Ranks -> Weights \cup {NoShard, TornShard}]]
           /\ dataFile \in [Steps -> FileContents]
           /\ dirs \subseteq Steps /\ folders \subseteq Steps
           /\ rpc \in [Ranks -> RankPCs]
           /\ weights \in [Ranks -> Weights]
  <1> USE Constants DEF CInv, TypeOK, GroupTypeOK
  <1>1. savedPaths \in Seq(Steps)
    OBVIOUS
  <1>2. Len(savedPaths) \in Nat /\ \A i \in 1..Len(savedPaths) : savedPaths[i] \in Nat
    BY <1>1
  <1> QED
    BY <1>1, <1>2

-----------------------------------------------------------------------------
(* Starting.                                                               *)

\* A start reads the disk only, and goes on after the tracked step.
LEMMA StartKInv ==
    ASSUME Settings, KInv, StartDisabled \/ StartAuto \/ StartFromPath
    PROVE  DiskInv' /\ PathInv'
  <1> USE Constants
  <1>1. StartAuto /\ dpc = "start"
    BY DEF Settings, StartDisabled, StartFromPath, StartAuto
  <1>2. savedPaths = <<>> /\ doomed = {} /\ dirs \subseteq folders
    BY <1>1 DEF KInv, DiskInv, PathInv
  <1>3. tracker \in Steps => Loadable(tracker)
    BY DEF KInv, DiskInv
  <1>4. UNCHANGED <<saveVars, diskVars, driverDisk>>
    BY <1>1 DEF StartAuto, FromScratch, StartFails, ResumeFrom, LoadGroup, groupVars
  <1>5. dpc' \in {"train", "failed"}
    BY <1>1 DEF StartAuto, FromScratch, StartFails, ResumeFrom
  <1>6. dpc' = "train" /\ tracker \in Steps => globalSteps' = tracker + 1
    BY <1>1, <1>3 DEF StartAuto, FromScratch, StartFails, ResumeFrom, Loadable
  <1>7. tracker' = tracker /\ savedPaths' = <<>> /\ doomed' = {} /\ dirs' \subseteq folders'
    BY <1>2, <1>4 DEF saveVars, diskVars, driverDisk
  <1>8. tracker \in Steps => Loadable(tracker)'
    BY <1>3, <1>4 DEF Loadable, WholeGroup, diskVars, driverDisk
  <1>9. DiskInv'
    BY <1>5, <1>6, <1>7, <1>8 DEF DiskInv, Written
  <1>10. PathInv'
    BY <1>5, <1>7 DEF PathInv, Ascending, Written
  <1> QED
    BY <1>9, <1>10

-----------------------------------------------------------------------------
(* A save of the group.                                                    *)

\* In ascending order the last is the largest.
LEMMA LastIsLargest ==
    ASSUME CInv, Ascending, NEW t \in Steps, EndsAt(t)
    PROVE  \A i \in 1..Len(savedPaths) : savedPaths[i] <= t
  <1> USE Constants
  <1>1. Len(savedPaths) \in Nat /\ t \in Nat
    BY KTypes
  <1>2. t = savedPaths[Len(savedPaths)]
    BY DEF EndsAt
  <1>3. SUFFICES ASSUME NEW i \in 1..Len(savedPaths) PROVE savedPaths[i] <= t
    OBVIOUS
  <1>4. savedPaths[i] \in Nat
    BY KTypes
  <1>5. CASE i = Len(savedPaths)
    BY <1>1, <1>2, <1>5
  <1>6. CASE i < Len(savedPaths)
    <2>1. Len(savedPaths) \in 1..Len(savedPaths)
      BY <1>1, <1>6
    <2>2. savedPaths[i] < t
      BY <1>2, <1>6, <2>1 DEF Ascending
    <2> QED
      BY <1>1, <1>4, <2>2
  <1> QED
    BY <1>1, <1>5, <1>6

\* The rotation takes the oldest paths, never the last one, and the paths it
\* leaves are in the order they had.
LEMMA RotationSparesTheLast ==
    ASSUME CInv, Settings, Ascending, NEW s \in Steps, CallSave(s)
    PROVE  /\ Ascending'
           /\ savedPaths = <<>> => doomed' = doomed /\ savedPaths' = <<>>
           /\ \A t \in Steps : EndsAt(t) /\ t \notin doomed => t \notin doomed'
           /\ \A t \in Steps, m \in Nat : EndsAt(t) /\ t < m =>
                \A i \in 1..Len(savedPaths') : savedPaths'[i] < m
  <1> USE Constants
  <1> DEFINE n == Len(savedPaths)
  <1>1. n \in Nat /\ \A i \in 1..n : savedPaths[i] \in Nat
    BY KTypes
  <1>2. \A t \in Steps : EndsAt(t) => n >= 1 /\ savedPaths[n] = t
    <2>1. savedPaths \in Seq(Steps)
      BY KTypes
    <2> QED
      BY <1>1, <2>1, EmptySeq DEF EndsAt
  <1>3. CASE ~Rotates
    <2>1. doomed' = doomed /\ savedPaths' = savedPaths
      BY <1>3 DEF CallSave
    <2>2. Ascending'
      BY <2>1 DEF Ascending
    <2>3. ASSUME NEW t \in Steps, NEW m \in Nat, EndsAt(t), t < m
          PROVE  \A i \in 1..Len(savedPaths') : savedPaths'[i] < m
      <3>1. \A i \in 1..n : savedPaths[i] <= t
        BY <2>3, LastIsLargest
      <3>2. t \in Nat
        OBVIOUS
      <3> QED
        BY <1>1, <2>1, <2>3, <3>1, <3>2
    <2> QED
      BY <2>1, <2>2, <2>3
  <1>4. CASE Rotates
    <2> DEFINE k == KeepStart
    <2>1. MaxKeep >= 2 /\ n >= MaxKeep /\ k = n - MaxKeep + 1
      BY <1>1, <1>4 DEF Rotates, KeepStart, Settings
    <2>2. k \in Nat /\ 1 <= k /\ k < n
      BY <1>1, <2>1
    <2>3. /\ doomed' = {savedPaths[i] : i \in 1..k}
          /\ savedPaths' = SubSeq(savedPaths, k + 1, n)
      BY <1>4 DEF CallSave
    <2> HIDE DEF k, n
    <2>4. /\ Len(SubSeq(savedPaths, k + 1, n)) = n - k
          /\ \A i \in 1..(n - k) : SubSeq(savedPaths, k + 1, n)[i] = savedPaths[k + i]
      <3>1. \A i \in (k + 1)..n : savedPaths[i] \in Steps
        <4>1. savedPaths \in Seq(Steps)
          BY KTypes
        <4> QED
          BY <2>2, <4>1 DEF n
      <3>2. k + 1 \in Int /\ n \in Int /\ k + 1 <= n
        BY <1>1, <2>2
      <3> DEFINE sub == SubSeq(savedPaths, k + 1, n)
      <3>3. /\ Len(sub) = IF k + 1 <= n THEN n - (k + 1) + 1 ELSE 0
            /\ \A i \in 1..(n - (k + 1) + 1) : sub[i] = savedPaths[k + 1 + i - 1]
        BY <3>1, <3>2, SubSeqProperties
      <3>4. n - (k + 1) + 1 = n - k
        BY <1>1, <2>2
      <3>5. \A i \in 1..(n - k) : k + 1 + i - 1 = k + i
        BY <2>2
      <3> HIDE DEF sub
      <3>6. Len(sub) = n - k
        BY <3>2, <3>3, <3>4
      <3>7. \A i \in 1..(n - k) : sub[i] = savedPaths[k + i]
        BY <3>3, <3>4, <3>5
      <3> QED
        BY <3>6, <3>7 DEF sub
    <2>5. Len(savedPaths') = n - k /\ \A i \in 1..(n - k) : savedPaths'[i] = savedPaths[k + i]
      BY <2>3, <2>4
    <2>6. \A i \in 1..(n - k) : k + i \in 1..n
      BY <1>1, <2>2
    <2>7. \A i, j \in 1..n : i < j => savedPaths[i] < savedPaths[j]
      BY DEF Ascending, n
    <2>8. Ascending'
      <3> SUFFICES ASSUME NEW i \in 1..(n - k), NEW j \in 1..(n - k), i < j
                   PROVE  savedPaths'[i] < savedPaths'[j]
        BY <2>5 DEF Ascending
      <3>1. k + i < k + j /\ k + i \in 1..n /\ k + j \in 1..n
        BY <2>2, <2>6
      <3>2. savedPaths[k + i] < savedPaths[k + j]
        BY <2>7, <3>1
      <3>3. savedPaths'[i] = savedPaths[k + i] /\ savedPaths'[j] = savedPaths[k + j]
        BY <2>5
      <3> QED
        BY <3>2, <3>3
    <2>9. ASSUME NEW t \in Steps, EndsAt(t) PROVE t \notin doomed'
      <3>1. t = savedPaths[n] /\ n \in 1..n
        BY <1>1, <1>2, <2>2, <2>9
      <3>2. \A i \in 1..k : savedPaths[i] < t /\ savedPaths[i] \in Nat
        BY <1>1, <2>2, <2>7, <3>1
      <3>3. \A i \in 1..k : savedPaths[i] # t
        BY <3>2
      <3> QED
        BY <2>3, <3>3
    <2>10. ASSUME NEW t \in Steps, NEW m \in Nat, EndsAt(t), t < m
           PROVE  \A i \in 1..Len(savedPaths') : savedPaths'[i] < m
      <3>1. \A i \in 1..n : savedPaths[i] <= t
        BY <2>10, LastIsLargest DEF n
      <3>2. t \in Nat
        OBVIOUS
      <3>3. \A i \in 1..n : savedPaths[i] < m
        BY <1>1, <2>10, <3>1, <3>2
      <3>4. \A i \in 1..(n - k) : savedPaths'[i] = savedPaths[k + i] /\ k + i \in 1..n
        BY <2>5, <2>6
      <3>5. \A i \in 1..(n - k) : savedPaths'[i] < m
        BY <3>3, <3>4
      <3> QED
        BY <2>5, <3>5
    <2>11. savedPaths # <<>>
      BY <1>1, <2>2 DEF n
    <2> QED
      BY <2>8, <2>9, <2>10, <2>11
  <1> QED
    BY <1>3, <1>4

\* The driver calls the group.
LEMMA SaveGroupKInv ==
    ASSUME Settings, KInv, CInv', SaveGroup
    PROVE  DiskInv' /\ PathInv'
  <1> USE Constants
  <1>1. /\ CInv /\ Ascending /\ doomed = {} /\ dirs \subseteq folders
        /\ tracker \in Steps => Loadable(tracker) /\ tracker < globalSteps
        /\ savedPaths # <<>> => tracker \in Steps /\ EndsAt(tracker)
        /\ dpc = "save"
    BY DEF KInv, DiskInv, PathInv, SaveGroup
  <1>2. globalSteps \in Steps /\ globalSteps \in Nat
    BY <1>1 DEF CInv, StepInv
  <1>3. CallSave(globalSteps)
    BY DEF SaveGroup
  <1>4. /\ dpc' = "saving" /\ target' = globalSteps' /\ globalSteps' = globalSteps
        /\ tracker' = tracker /\ folders' = folders /\ dataFile' = dataFile
        /\ dirs' = dirs /\ shard' = shard
        /\ rpc'[0] = "rotate"
    BY DEF SaveGroup, CallSave, driverDisk, diskVars
  <1>5. /\ Ascending'
        /\ savedPaths = <<>> => doomed' = doomed /\ savedPaths' = <<>>
        /\ \A t \in Steps : EndsAt(t) /\ t \notin doomed => t \notin doomed'
        /\ \A t \in Steps, m \in Nat : EndsAt(t) /\ t < m =>
             \A i \in 1..Len(savedPaths') : savedPaths'[i] < m
    BY <1>1, <1>2, <1>3, ZenonT(30), RotationSparesTheLast
  <1>6. tracker \in Steps => tracker \notin doomed'
    BY <1>1, <1>5
  <1>7. AllBefore(globalSteps)'
    <2>1. \A i \in 1..Len(savedPaths') : savedPaths'[i] < globalSteps
      <3>1. CASE savedPaths = <<>>
        BY <1>5, <3>1
      <3>2. CASE savedPaths # <<>>
        BY <1>1, <1>2, <1>5, <3>2
      <3> QED
        BY <3>1, <3>2
    <2> QED
      BY <1>4, <2>1 DEF AllBefore
  <1>8. DiskInv'
    BY <1>1, <1>4, <1>6 DEF DiskInv, Loadable, WholeGroup, Written
  <1>9. PathInv'
    BY <1>4, <1>5, <1>7 DEF PathInv, Written
  <1> QED
    BY <1>8, <1>9

\* Removing a checkpoint touches no shard of the tracked one.
LEMMA GroupStepKInv ==
    ASSUME Settings, KInv, CInv', GroupStep
    PROVE  DiskInv' /\ PathInv'
  <1> USE Constants
  <1>1. /\ CInv /\ Ascending /\ dirs \subseteq folders
        /\ tracker \in Steps => Loadable(tracker) /\ tracker \notin doomed
        /\ tracker \in Steps => tracker < globalSteps
        /\ target = globalSteps
        /\ IF rpc[0] = "saved" THEN EndsAt(globalSteps) ELSE AllBefore(globalSteps)
        /\ dpc = "saving" /\ SaveStep
    BY DEF KInv, DiskInv, PathInv, GroupStep
  <1>2. /\ dpc' = "saving" /\ globalSteps' = globalSteps /\ tracker' = tracker
        /\ dataFile' = dataFile /\ folders' = folders \cup dirs'
    BY DEF GroupStep, driverVars
  <1>3. globalSteps \in Nat /\ savedPaths \in Seq(Steps) /\ Len(savedPaths) \in Nat
        /\ rpc \in [Ranks -> RankPCs]
        /\ shard \in [Steps -> [Ranks -> Weights \cup {NoShard, TornShard}]]
        /\ weights \in [Ranks -> Weights]
    BY <1>1, KTypes
  <1>4. target' = target /\ doomed' \subseteq doomed
    BY <1>1 DEF SaveStep, RemoveShard, RemoveDir, RotateDone, MakeDir, LeaveBarrier1,
                OpenShard, CloseShard, LeaveBarrier2, saveVars
  <1>5. tracker \in Steps => shard'[tracker] = shard[tracker]
    <2>1. ASSUME tracker \in Steps PROVE tracker # target /\ tracker \notin doomed
      BY <1>1, <1>3, <2>1
    <2> QED
      BY <1>1, <1>3, <2>1
         DEF SaveStep, RemoveShard, RemoveDir, RotateDone, MakeDir, LeaveBarrier1,
             OpenShard, CloseShard, LeaveBarrier2, diskVars
  <1>6. tracker \in Steps => Loadable(tracker)' /\ tracker \notin doomed'
    BY <1>1, <1>2, <1>4, <1>5 DEF Loadable, WholeGroup
  <1>7. DiskInv'
    BY <1>1, <1>2, <1>6 DEF DiskInv, Written
  <1>8. Ascending' /\ IF rpc'[0] = "saved" THEN EndsAt(globalSteps)'
                                          ELSE AllBefore(globalSteps)'
    <2>1. CASE LeaveBarrier2(0)
      <3>1. /\ rpc'[0] = "saved" /\ rpc[0] = "barrier2"
            /\ savedPaths' = Append(savedPaths, globalSteps)
        BY <1>1, <1>3, <2>1 DEF LeaveBarrier2
      <3>2. \A i \in 1..Len(savedPaths) : savedPaths[i] < globalSteps
        BY <1>1, <3>1 DEF AllBefore
      <3>3. globalSteps \in Steps
        BY <1>1 DEF CInv, StepInv
      <3> DEFINE n == Len(savedPaths)
      <3>4. /\ Len(savedPaths') = n + 1 /\ savedPaths'[n + 1] = globalSteps
            /\ \A i \in 1..n : savedPaths'[i] = savedPaths[i]
        BY <1>3, <3>1, <3>3, AppendProperties
      <3>5. \A i \in 1..(n + 1) : i \in 1..n \/ i = n + 1
        BY <1>3
      <3>6. \A i, j \in 1..n : i < j => savedPaths[i] < savedPaths[j]
        BY <1>1 DEF Ascending
      <3> HIDE DEF n
      <3>7. Ascending'
        <4> SUFFICES ASSUME NEW i \in 1..(n + 1), NEW j \in 1..(n + 1), i < j
                     PROVE  savedPaths'[i] < savedPaths'[j]
          BY <3>4 DEF Ascending
        <4>1. i \in 1..n
          BY <1>3 DEF n
        <4>2. CASE j = n + 1
          BY <3>2, <3>4, <4>1, <4>2 DEF n
        <4>3. CASE j \in 1..n
          BY <3>4, <3>6, <4>1, <4>3
        <4> QED
          BY <3>5, <4>2, <4>3
      <3>8. EndsAt(globalSteps)'
        <4>1. savedPaths' # <<>>
          BY <1>3, <3>4 DEF n
        <4> QED
          BY <1>2, <3>4, <4>1 DEF EndsAt
      <3> QED
        BY <3>1, <3>7, <3>8
    <2>2. CASE ~LeaveBarrier2(0)
      <3>1. savedPaths' = savedPaths /\ (rpc'[0] = "saved" <=> rpc[0] = "saved")
        BY <1>1, <1>3, <2>2
           DEF SaveStep, RemoveShard, RemoveDir, RotateDone, MakeDir, LeaveBarrier1,
               OpenShard, CloseShard, LeaveBarrier2, saveVars, RankPCs
      <3> QED
        BY <1>1, <1>2, <3>1 DEF Ascending, EndsAt, AllBefore
    <2> QED
      BY <2>1, <2>2
  <1>9. PathInv'
    BY <1>1, <1>2, <1>4, <1>8 DEF PathInv, Written
  <1> QED
    BY <1>7, <1>9

\* What the group returns from is whole, and its folder is there.
LEMMA GroupSavedKInv ==
    ASSUME Settings, KInv, CInv', GroupSaved
    PROVE  DiskInv' /\ PathInv'
  <1> USE Constants
  <1>1. /\ CInv /\ Ascending /\ dirs \subseteq folders
        /\ tracker \in Steps => Loadable(tracker)
        /\ tracker \in Steps => tracker < globalSteps
        /\ target = globalSteps
        /\ rpc[0] = "saved" => EndsAt(globalSteps)
        /\ AllSaved
    BY DEF KInv, DiskInv, PathInv, GroupSaved, ReturnSave
  <1>2. /\ dpc' = "openData" /\ globalSteps' = globalSteps /\ tracker' = tracker
        /\ dataFile' = dataFile /\ folders' = folders /\ target' = target
        /\ dirs' = dirs /\ shard' = shard
        /\ savedPaths' = savedPaths /\ doomed' = doomed
    BY DEF GroupSaved, ReturnSave, diskVars, driverDisk
  <1>3. \A r \in Ranks : rpc[r] = "saved"
    BY <1>1 DEF AllSaved
  <1>4. doomed = {} /\ target \in dirs /\ \A r \in Ranks : shard[target][r] \in Weights
    BY <1>1, <1>3 DEF CInv, BarrierInv
  <1>5. WholeGroup(globalSteps)' /\ globalSteps' \in folders'
    BY <1>1, <1>2, <1>4 DEF WholeGroup
  <1>6. DiskInv'
    BY <1>1, <1>2, <1>4, <1>5 DEF DiskInv, Loadable, WholeGroup, Written
  <1>7. PathInv'
    BY <1>1, <1>2, <1>3 DEF PathInv, Ascending, EndsAt, Written
  <1> QED
    BY <1>6, <1>7

-----------------------------------------------------------------------------
(* The driver's own steps.                                                 *)

\* Training changes no file.
LEMMA TrainStepKInv ==
    ASSUME Settings, KInv, TrainStep
    PROVE  DiskInv' /\ PathInv'
  <1> USE Constants
  <1>1. CInv /\ DiskInv /\ PathInv /\ dpc = "train"
    BY DEF KInv, TrainStep
  <1>2. /\ dpc' \in {"save", "stepEnd"} /\ globalSteps' = globalSteps
        /\ UNCHANGED <<saveVars, diskVars, driverDisk>>
    BY DEF TrainStep
  <1>3. globalSteps \in Nat /\ tracker \in Steps \cup {NoFile, EmptyFile}
    BY <1>1, KTypes
  <1>4. DiskInv'
    BY <1>1, <1>2, <1>3 DEF DiskInv, Loadable, WholeGroup, Written, saveVars, diskVars, driverDisk
  <1>5. PathInv'
    BY <1>1, <1>2 DEF PathInv, Ascending, EndsAt, Written, saveVars, driverDisk
  <1> QED
    BY <1>4, <1>5

\* data.pt of this step is not that of the tracked one.
LEMMA DataKInv ==
    ASSUME Settings, KInv, OpenData \/ CloseData
    PROVE  DiskInv' /\ PathInv'
  <1> USE Constants
  <1>1. CInv /\ DiskInv /\ PathInv /\ dpc \in {"openData", "closeData"}
    BY DEF KInv, OpenData, CloseData
  <1>2. /\ globalSteps' = globalSteps /\ tracker' = tracker /\ folders' = folders
        /\ UNCHANGED groupVars
    BY DEF OpenData, CloseData
  <1>3. globalSteps \in Nat /\ loader \in Nat /\ dataFile \in [Steps -> FileContents]
        /\ globalSteps \in Steps
    BY <1>1, KTypes DEF CInv, StepInv
  <1>4. ASSUME tracker \in Steps PROVE tracker # globalSteps
    BY <1>1, <1>3, <1>4 DEF DiskInv
  <1>5. /\ \/ dpc = "openData" /\ dpc' = "closeData"
           \/ dpc = "closeData" /\ dpc' = "openTracker" /\ dataFile'[globalSteps] = loader
        /\ tracker \in Steps => dataFile'[tracker] = dataFile[tracker]
    BY <1>3, <1>4 DEF OpenData, CloseData
  <1>6. DiskInv'
    BY <1>1, <1>2, <1>3, <1>5
       DEF DiskInv, Loadable, WholeGroup, Written, groupVars, saveVars, diskVars
  <1>7. PathInv'
    BY <1>1, <1>2, <1>5 DEF PathInv, Ascending, EndsAt, Written, groupVars, saveVars
  <1> QED
    BY <1>6, <1>7

\* The tracker is emptied, then names the step whose files are complete.
LEMMA TrackerKInv ==
    ASSUME Settings, KInv, OpenTracker \/ CloseTracker
    PROVE  DiskInv' /\ PathInv'
  <1> USE Constants
  <1>1. CInv /\ DiskInv /\ PathInv
    BY DEF KInv
  <1>2. /\ globalSteps' = globalSteps /\ dataFile' = dataFile /\ folders' = folders
        /\ UNCHANGED groupVars
    BY DEF OpenTracker, CloseTracker
  <1>3. globalSteps \in Nat /\ globalSteps \in Steps
    BY <1>1, KTypes DEF CInv, StepInv, OpenTracker, CloseTracker
  <1>4. EmptyFile \notin Steps
    OBVIOUS
  <1>5. \/ dpc = "openTracker" /\ dpc' = "closeTracker" /\ tracker' = EmptyFile
        \/ dpc = "closeTracker" /\ dpc' = "stepEnd" /\ tracker' = globalSteps
    BY DEF OpenTracker, CloseTracker, StepWritten
  <1>6. DiskInv'
    BY <1>1, <1>2, <1>3, <1>4, <1>5
       DEF DiskInv, Loadable, WholeGroup, Written, groupVars, saveVars, diskVars
  <1>7. PathInv'
    BY <1>1, <1>2, <1>3, <1>5
       DEF PathInv, Ascending, EndsAt, Written, groupVars, saveVars
  <1> QED
    BY <1>6, <1>7

\* The next step is later than the tracked one.
LEMMA EndStepKInv ==
    ASSUME Settings, KInv, EndStep
    PROVE  DiskInv' /\ PathInv'
  <1> USE Constants
  <1>1. CInv /\ DiskInv /\ PathInv /\ dpc = "stepEnd"
    BY DEF KInv, EndStep
  <1>2. /\ dpc' \in {"train", "finished"} /\ globalSteps' = globalSteps + 1
        /\ UNCHANGED <<groupVars, driverDisk>>
    BY DEF EndStep
  <1>3. globalSteps \in Nat
    BY <1>1, KTypes
  <1>4. DiskInv'
    BY <1>1, <1>2, <1>3
       DEF DiskInv, Loadable, WholeGroup, Written, groupVars, saveVars, diskVars, driverDisk
  <1>5. PathInv'
    BY <1>1, <1>2 DEF PathInv, Ascending, EndsAt, Written, groupVars, saveVars, driverDisk
  <1> QED
    BY <1>4, <1>5

\* A kill leaves the disk, and a start remembers no path.
LEMMA RestartKInv ==
    ASSUME Settings, KInv, Restart
    PROVE  DiskInv' /\ PathInv'
  <1> USE Constants
  <1>1. DiskInv
    BY DEF KInv
  <1>2. /\ dpc' = "start" /\ savedPaths' = <<>> /\ doomed' = {}
        /\ UNCHANGED <<diskVars, driverDisk>>
    BY DEF Restart
  <1>3. DiskInv'
    BY <1>1, <1>2 DEF DiskInv, Loadable, WholeGroup, Written, diskVars, driverDisk
  <1>4. PathInv'
    BY <1>2 DEF PathInv, Ascending, Written
  <1> QED
    BY <1>3, <1>4

\* Every step of the job keeps the invariant.
LEMMA StepKInv == Settings /\ KInv /\ [Next]_vars => KInv'
  <1> SUFFICES ASSUME Settings, KInv, [Next]_vars PROVE KInv'
    OBVIOUS
  <1>1. CInv'
    BY StepCInv DEF KInv
  <1>2. CASE Driver
    <2>1. DiskInv' /\ PathInv'
      BY <1>1, <1>2, StartKInv, SaveGroupKInv, GroupStepKInv, GroupSavedKInv, TrainStepKInv,
         DataKInv, TrackerKInv, EndStepKInv DEF Driver
    <2> QED
      BY <1>1, <2>1 DEF KInv
  <1>3. CASE Restart
    BY <1>1, <1>3, RestartKInv DEF KInv
  <1>4. CASE UNCHANGED vars
    BY <1>1, <1>4
       DEF KInv, DiskInv, PathInv, Ascending, EndsAt, AllBefore, Loadable, WholeGroup, Written,
           vars, groupVars, saveVars, diskVars, driverVars, driverDisk
  <1> QED
    BY <1>2, <1>3, <1>4 DEF Next

-----------------------------------------------------------------------------

\* save_checkpoint and _save_checkpoint of a job that keeps two checkpoints or
\* more (or all) and resumes automatically: whenever it is killed, what
\* latest_checkpointed_iteration.txt names is there in full.
THEOREM TrackedStaysLoadable ==
    ASSUME MaxKeep # 1, ResumeModes \subseteq {"auto"}
    PROVE  Spec => []TrackedIsLoadable
  <1>1. Settings
    BY DEF Settings
  <1>2. KInv /\ [Next]_vars => KInv'
    BY <1>1, StepKInv
  <1>3. KInv => TrackedIsLoadable
    BY DEF KInv, DiskInv, TrackedIsLoadable
  <1> QED
    BY InitKInv, <1>2, <1>3, PTL DEF Spec

-----------------------------------------------------------------------------
(* What a resume finds.  TrainInv follows the weights and the position of  *)
(* the dataloader from the training step through the save, the disk and    *)
(* the next start.                                                         *)

\* The files of step s come from one and the same save, the one of that step.
OneSave(s) ==
    /\ dataFile[s] = s
    /\ \A r \in Ranks : shard[s][r] = shard[s][0]
    /\ shard[s][0][2] = s

\* The step at work has been trained.
Trained == {"save", "saving", "stepEnd"} \cup Written

TrainInv ==
    /\ tracker \in Steps => OneSave(tracker)
    /\ tracker # EmptyFile => published = tracker
    /\ dpc = "start" => loader = 0 /\ weights = FreshWeights
    /\ dpc = "train" => /\ loader = globalSteps - 1
                        /\ \A r \in Ranks : weights[r] = weights[0]
                        /\ weights[0][2] = globalSteps - 1
    /\ dpc \in Trained => /\ loader = globalSteps
                          /\ \A r \in Ranks : weights[r] = <<run, globalSteps>>
    /\ dpc = "saving" => \A r \in Ranks : rpc[r] \in {"barrier2", "saved"} =>
                                            shard[globalSteps][r] = <<run, globalSteps>>
    /\ dpc \in Written => \A r \in Ranks : shard[globalSteps][r] = <<run, globalSteps>>
    /\ dpc \in {"openTracker", "closeTracker"} => dataFile[globalSteps] = globalSteps

LInv == KInv /\ TrainInv

\* Nothing is trained and nothing saved.
LEMMA InitLInv == Init => LInv
  <1> SUFFICES ASSUME Init PROVE LInv
    OBVIOUS
  <1>1. TrainInv
    BY Constants DEF Init, TrainInv, Trained, Written
  <1> QED
    BY <1>1, InitKInv DEF LInv

\* A start has what the tracked save had, or what a fresh run has.
LEMMA StartLInv ==
    ASSUME Settings, LInv, StartDisabled \/ StartAuto \/ StartFromPath
    PROVE  TrainInv'
  <1> USE Constants
  <1>1. /\ StartAuto /\ dpc = "start"
        /\ tracker \in Steps \cup {NoFile, EmptyFile}
        /\ tracker \in Steps => Loadable(tracker)
        /\ TrainInv
    BY KTypes DEF Settings, StartDisabled, StartFromPath, StartAuto, LInv, KInv, DiskInv
  <1>2. UNCHANGED <<diskVars, driverDisk>>
    BY <1>1 DEF StartAuto, FromScratch, StartFails, ResumeFrom, LoadGroup, groupVars
  <1>3. tracker \in Steps => OneSave(tracker) /\ OneSave(tracker)'
    BY <1>1, <1>2 DEF TrainInv, OneSave, diskVars, driverDisk
  <1>4. CASE StartFails
    BY <1>1, <1>2, <1>3, <1>4 DEF StartFails, TrainInv, Trained, Written, driverDisk
  <1>5. CASE FromScratch
    <2>1. /\ dpc' = "train" /\ globalSteps' = 1 /\ loader' = 0 /\ weights' = FreshWeights
          /\ tracker' = tracker /\ published' = published
      BY <1>1, <1>5 DEF FromScratch, TrainInv, groupVars, driverDisk
    <2>2. \A r \in Ranks : weights'[r] = <<0, 0>>
      BY <2>1 DEF FreshWeights
    <2> QED
      BY <1>1, <1>3, <2>1, <2>2 DEF TrainInv, Trained, Written
  <1>6. CASE ResumeFrom(tracker) /\ tracker \in Steps /\ ~StartFails
    <2>1. /\ dpc' = "train" /\ globalSteps' = tracker + 1 /\ loader' = dataFile[tracker]
          /\ weights' = [r \in Ranks |-> shard[tracker][r]]
          /\ tracker' = tracker /\ published' = published
      BY <1>1, <1>6 DEF ResumeFrom, LoadGroup, LoaderState, Loadable, driverDisk
    <2>2. loader' = globalSteps' - 1 /\ weights'[0][2] = globalSteps' - 1
      BY <1>3, <1>6, <2>1 DEF OneSave
    <2>3. \A r \in Ranks : weights'[r] = weights'[0]
      BY <1>3, <1>6, <2>1 DEF OneSave
    <2> QED
      BY <1>1, <1>3, <2>1, <2>2, <2>3 DEF TrainInv, Trained, Written
  <1> QED
    BY <1>1, <1>4, <1>5, <1>6 DEF StartAuto

\* Every rank is given the weights of this step.
LEMMA TrainStepLInv ==
    ASSUME Settings, LInv, TrainStep
    PROVE  TrainInv'
  <1> USE Constants
  <1>1. TrainInv /\ dpc = "train" /\ globalSteps \in Nat
    BY KTypes DEF LInv, KInv, TrainStep
  <1>2. /\ dpc' \in {"save", "stepEnd"} /\ globalSteps' = globalSteps /\ run' = run
        /\ loader' = loader + 1
        /\ weights' = [r \in Ranks |-> <<run, globalSteps>>]
        /\ UNCHANGED <<diskVars, driverDisk>>
    BY DEF TrainStep
  <1>3. loader' = globalSteps
    BY <1>1, <1>2 DEF TrainInv
  <1> QED
    BY <1>1, <1>2, <1>3 DEF TrainInv, OneSave, Trained, Written, diskVars, driverDisk

\* No rank has written when the group is called.
LEMMA SaveGroupLInv ==
    ASSUME Settings, LInv, SaveGroup
    PROVE  TrainInv'
  <1>1. TrainInv /\ dpc = "save"
    BY DEF LInv, SaveGroup
  <1>2. /\ dpc' = "saving" /\ globalSteps' = globalSteps /\ run' = run /\ loader' = loader
        /\ weights' = weights
        /\ rpc' = [r \in Ranks |-> IF r = 0 THEN "rotate" ELSE "mkdir"]
        /\ UNCHANGED <<diskVars, driverDisk>>
    BY DEF SaveGroup, CallSave
  <1>3. \A r \in Ranks : rpc'[r] \notin {"barrier2", "saved"}
    BY <1>2
  <1> QED
    BY <1>1, <1>2, <1>3 DEF TrainInv, OneSave, Trained, Written, diskVars, driverDisk

\* A rank past its write has written what it holds, and nobody undoes it.
LEMMA GroupStepLInv ==
    ASSUME Settings, LInv, GroupStep
    PROVE  TrainInv'
  <1> USE Constants
  <1>1. /\ TrainInv /\ CInv /\ dpc = "saving" /\ SaveStep /\ target = globalSteps
        /\ globalSteps \in Steps /\ globalSteps \in Nat
        /\ tracker \in Steps => tracker # globalSteps /\ tracker \notin doomed
    BY KTypes DEF LInv, KInv, CInv, StepInv, DiskInv, PathInv, GroupStep
  <1>2. /\ dpc' = "saving" /\ globalSteps' = globalSteps /\ tracker' = tracker
        /\ dataFile' = dataFile /\ published' = published /\ run' = run /\ loader' = loader
    BY DEF GroupStep, driverVars
  <1>3. /\ rpc \in [Ranks -> RankPCs]
        /\ shard \in [Steps -> [Ranks -> Weights \cup {NoShard, TornShard}]]
    BY <1>1, KTypes
  <1>4. weights' = weights
    BY <1>1 DEF SaveStep, RemoveShard, RemoveDir, RotateDone, MakeDir, LeaveBarrier1,
                OpenShard, CloseShard, LeaveBarrier2
  <1>5. tracker \in Steps => shard'[tracker] = shard[tracker]
    BY <1>1, <1>3
       DEF SaveStep, RemoveShard, RemoveDir, RotateDone, MakeDir, LeaveBarrier1,
           OpenShard, CloseShard, LeaveBarrier2, diskVars
  <1>6. tracker \in Steps => OneSave(tracker)'
    BY <1>1, <1>2, <1>5 DEF TrainInv, OneSave
  <1>7. ASSUME NEW r \in Ranks, rpc'[r] \in {"barrier2", "saved"}
        PROVE  shard'[globalSteps][r] = <<run, globalSteps>>
    <2>1. \A q \in Ranks : weights[q] = <<run, globalSteps>>
      BY <1>1 DEF TrainInv, Trained
    <2>2. \A q \in Ranks : rpc[q] \in {"barrier2", "saved"} =>
                             shard[globalSteps][q] = <<run, globalSteps>>
      BY <1>1 DEF TrainInv
    <2>3. CASE \E x \in Steps, q \in Ranks : RemoveShard(x, q)
      <3>1. rpc[0] = "rotate" /\ rpc' = rpc
        BY <2>3 DEF RemoveShard, saveVars
      <3> QED
        BY <1>1, <1>7, <3>1 DEF CInv, BarrierInv, AfterBarrier1, BeforeBarrier1
    <2>4. CASE \E q \in Ranks : OpenShard(q)
      BY <1>1, <1>3, <1>7, <2>2, <2>4 DEF OpenShard
    <2>5. CASE \E q \in Ranks : CloseShard(q)
      BY <1>1, <1>3, <1>7, <2>1, <2>2, <2>5 DEF CloseShard
    <2>6. CASE \E q \in Ranks : LeaveBarrier2(q)
      BY <1>1, <1>3, <1>7, <2>2, <2>6 DEF LeaveBarrier2, diskVars
    <2>7. CASE \/ \E x \in Steps : RemoveDir(x)
               \/ RotateDone
               \/ \E q \in Ranks : MakeDir(q) \/ LeaveBarrier1(q)
      <3>1. shard' = shard /\ (rpc'[r] \in {"barrier2", "saved"} => rpc[r] = rpc'[r])
        BY <1>3, <2>7 DEF RemoveDir, RotateDone, MakeDir, LeaveBarrier1, diskVars
      <3> QED
        BY <1>7, <2>2, <3>1
    <2> QED
      BY <1>1, <2>3, <2>4, <2>5, <2>6, <2>7 DEF SaveStep
  <1> QED
    BY <1>1, <1>2, <1>4, <1>6, <1>7 DEF TrainInv, Trained, Written

\* Once all have returned, every shard is of this step.
LEMMA GroupSavedLInv ==
    ASSUME Settings, LInv, GroupSaved
    PROVE  TrainInv'
  <1>1. TrainInv /\ dpc = "saving" /\ \A r \in Ranks : rpc[r] = "saved"
    BY DEF LInv, GroupSaved, ReturnSave, AllSaved
  <1>2. /\ dpc' = "openData" /\ globalSteps' = globalSteps /\ run' = run /\ loader' = loader
        /\ weights' = weights
        /\ UNCHANGED <<diskVars, driverDisk>>
    BY DEF GroupSaved, ReturnSave
  <1> QED
    BY <1>1, <1>2 DEF TrainInv, OneSave, Trained, Written, diskVars, driverDisk

\* The driver's files say the same step as the shards.
LEMMA FilesLInv ==
    ASSUME Settings, LInv, OpenData \/ CloseData \/ OpenTracker \/ CloseTracker
    PROVE  TrainInv'
  <1> USE Constants
  <1>1. /\ TrainInv /\ CInv /\ DiskInv
        /\ dpc \in Written
        /\ globalSteps \in Steps /\ globalSteps \in Nat
        /\ dataFile \in [Steps -> FileContents]
    BY KTypes
       DEF LInv, KInv, CInv, StepInv, Written, OpenData, CloseData, OpenTracker, CloseTracker
  <1>2. /\ globalSteps' = globalSteps /\ run' = run /\ loader' = loader
        /\ weights' = weights /\ shard' = shard
    BY DEF OpenData, CloseData, OpenTracker, CloseTracker, groupVars, diskVars
  <1>3. /\ loader = globalSteps
        /\ \A r \in Ranks : weights[r] = <<run, globalSteps>>
        /\ \A r \in Ranks : shard[globalSteps][r] = <<run, globalSteps>>
    BY <1>1 DEF TrainInv, Trained
  <1>4. CASE OpenData \/ CloseData
    <2>1. tracker \in Steps => tracker # globalSteps
      BY <1>1, <1>4 DEF DiskInv, OpenData, CloseData
    <2>2. /\ tracker' = tracker /\ published' = published
          /\ tracker \in Steps => dataFile'[tracker] = dataFile[tracker]
      BY <1>1, <1>4, <2>1 DEF OpenData, CloseData
    <2>3. tracker \in Steps => OneSave(tracker)'
      BY <1>1, <1>2, <2>2 DEF TrainInv, OneSave
    <2>4. dpc' \in {"closeData", "openTracker"}
          /\ (dpc' = "openTracker" => dataFile'[globalSteps] = globalSteps)
      BY <1>1, <1>3, <1>4 DEF OpenData, CloseData
    <2> QED
      BY <1>1, <1>2, <1>3, <2>2, <2>3, <2>4 DEF TrainInv, Trained, Written
  <1>5. CASE OpenTracker
    <2>1. /\ dpc' = "closeTracker" /\ tracker' = EmptyFile /\ dataFile' = dataFile
          /\ dataFile[globalSteps] = globalSteps
      BY <1>1, <1>5 DEF OpenTracker, TrainInv
    <2> QED
      BY <1>2, <1>3, <2>1 DEF TrainInv, Trained, Written
  <1>6. CASE CloseTracker
    <2>1. /\ dpc' = "stepEnd" /\ tracker' = globalSteps /\ published' = globalSteps
          /\ dataFile' = dataFile /\ dataFile[globalSteps] = globalSteps
      BY <1>1, <1>6 DEF CloseTracker, StepWritten, TrainInv
    <2>2. OneSave(tracker)'
      BY <1>2, <1>3, <2>1 DEF OneSave
    <2> QED
      BY <1>2, <1>3, <2>1, <2>2 DEF TrainInv, Trained, Written
  <1> QED
    BY <1>4, <1>5, <1>6

\* The next step starts from the weights and the batch of this one.
LEMMA EndStepLInv ==
    ASSUME Settings, LInv, EndStep
    PROVE  TrainInv'
  <1> USE Constants
  <1>1. TrainInv /\ dpc = "stepEnd" /\ globalSteps \in Nat
    BY KTypes DEF LInv, KInv, EndStep
  <1>2. /\ dpc' \in {"train", "finished"} /\ globalSteps' = globalSteps + 1
        /\ loader' = loader /\ weights' = weights
        /\ UNCHANGED <<diskVars, driverDisk>>
    BY DEF EndStep, groupVars
  <1>3. loader = globalSteps /\ \A r \in Ranks : weights[r] = <<run, globalSteps>>
    BY <1>1 DEF TrainInv, Trained
  <1>4. /\ loader' = globalSteps' - 1 /\ weights'[0][2] = globalSteps' - 1
        /\ \A r \in Ranks : weights'[r] = weights'[0]
    BY <1>1, <1>2, <1>3
  <1> QED
    BY <1>1, <1>2, <1>4 DEF TrainInv, OneSave, Trained, Written, diskVars, driverDisk

\* A restart forgets all but the disk.
LEMMA RestartLInv ==
    ASSUME Settings, LInv, Restart
    PROVE  TrainInv'
  <1>1. TrainInv
    BY DEF LInv
  <1>2. /\ dpc' = "start" /\ loader' = 0 /\ weights' = FreshWeights
        /\ UNCHANGED <<diskVars, driverDisk>>
    BY DEF Restart
  <1> QED
    BY <1>1, <1>2 DEF TrainInv, OneSave, Trained, Written, FreshWeights, diskVars, driverDisk

\* Every step of the job keeps both invariants.
LEMMA StepLInv == Settings /\ LInv /\ [Next]_vars => LInv'
  <1> SUFFICES ASSUME Settings, LInv, [Next]_vars PROVE LInv'
    OBVIOUS
  <1>1. KInv'
    BY StepKInv DEF LInv
  <1>2. CASE Driver
    <2>1. TrainInv'
      BY <1>2, StartLInv, SaveGroupLInv, GroupStepLInv, GroupSavedLInv, TrainStepLInv,
         FilesLInv, EndStepLInv DEF Driver
    <2> QED
      BY <1>1, <2>1 DEF LInv
  <1>3. CASE Restart
    BY <1>1, <1>3, RestartLInv DEF LInv
  <1>4. CASE UNCHANGED vars
    <2>1. TrainInv'
      BY <1>4 DEF LInv, TrainInv, OneSave, Trained, Written, FreshWeights,
                  vars, groupVars, saveVars, diskVars, driverVars, driverDisk
    <2> QED
      BY <1>1, <2>1 DEF LInv
  <1> QED
    BY <1>2, <1>3, <1>4 DEF Next

\* _load_checkpoint: training goes on with the weights and the position in the
\* data that one and the same save has written, that of the step before.
THEOREM ResumesFromOneSave ==
    ASSUME MaxKeep # 1, ResumeModes \subseteq {"auto"}
    PROVE  Spec => []ResumedFromOneSave
  <1>1. LInv /\ [Next]_vars => LInv'
    BY StepLInv DEF Settings
  <1>2. LInv => ResumedFromOneSave
    <2> SUFFICES ASSUME LInv, dpc = "train", NEW r \in Ranks
                 PROVE  /\ loader = globalSteps - 1
                        /\ weights[r] = weights[0] /\ weights[r][2] = globalSteps - 1
      BY Constants DEF ResumedFromOneSave
    <2> QED
      BY DEF LInv, TrainInv
  <1> QED
    BY InitLInv, <1>1, <1>2, PTL DEF Spec

\* find_latest_ckpt_path: a start goes on after the last published step, and is
\* refused only over a tracker that was empty when the job was killed.
THEOREM NoPublishedStepIsLost ==
    ASSUME MaxKeep # 1, ResumeModes \subseteq {"auto"}
    PROVE  Spec => ResumesAfterPublished
  <1>1. LInv /\ [Next]_vars => LInv'
    BY StepLInv DEF Settings
  <1> DEFINE A == dpc = "start" =>
                    /\ dpc' = "train" =>
                         globalSteps' = 1 + (IF published \in Steps THEN published ELSE 0)
                    /\ dpc' = "failed" => tracker = EmptyFile
  <1>2. LInv /\ [Next]_vars => [A]_vars
    <2> SUFFICES ASSUME LInv, Next, dpc = "start", dpc' \in {"train", "failed"}
                 PROVE  A
      BY DEF A
    <2>1. StartAuto
      BY DEF Next, Driver, Restart, TrainStep, SaveGroup, GroupStep, GroupSaved, OpenData,
             CloseData, OpenTracker, CloseTracker, EndStep, StartDisabled, StartFromPath
    <2>2. tracker \in Steps => Loadable(tracker)
      BY DEF LInv, KInv, DiskInv
    <2>3. tracker # EmptyFile => published = tracker
      BY DEF LInv, TrainInv
    <2>4. NoFile \notin Steps /\ EmptyFile \notin Steps
      BY Constants
    <2>5. \A s \in Steps : s + 1 = 1 + s
      BY Constants
    <2>6. CASE tracker = EmptyFile
      BY <2>1, <2>4, <2>6, Constants DEF StartAuto, StartFails
    <2>7. CASE tracker = NoFile
      BY <2>1, <2>3, <2>4, <2>7, Constants DEF StartAuto, FromScratch
    <2>8. CASE tracker \in Steps
      BY <2>1, <2>2, <2>3, <2>4, <2>5, <2>8, Constants
         DEF StartAuto, ResumeFrom, StartFails, Loadable
    <2> QED
      BY <2>1, <2>6, <2>7, <2>8 DEF StartAuto
  <1> QED
    BY InitLInv, <1>1, <1>2, PTL DEF Spec, ResumesAfterPublished
=============================================================================
