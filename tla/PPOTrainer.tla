------------------------------ MODULE PPOTrainer ------------------------------
(***************************************************************************)
(* The driver's training loop with checkpoints and restarts:               *)
(* RayPPOTrainer.fit, _save_checkpoint and _load_checkpoint                *)
(* (verl/trainer/ppo/ray_trainer.py) over FSDPCheckpoint, whose steps are  *)
(* steps of this module.  The job may be killed at any moment and started  *)
(* again in the same default_local_dir.                                    *)
(*                                                                         *)
(* Abstracted: a training step replaces the weights of every rank by those *)
(* of <<run, step>>, where `run` counts the starts of the job; the         *)
(* dataloader is the number of batches it has produced; an epoch's end is  *)
(* not told apart (total_epochs leaves batches for every step).  One       *)
(* worker group (no critic), a local directory, and no validation.         *)
(***************************************************************************)
EXTENDS FSDPCheckpoint

CONSTANTS
    TotalSteps,    \* total_training_steps
    SaveFreq,      \* trainer.save_freq, 0 if not positive
    EsiSignals,    \* what should_save_ckpt_esi may answer
    ResumeModes,   \* values of trainer.resume_mode the job is started with
    MaxRuns,       \* bound: starts of the job
    NoFile,        \* the tracker or data.pt does not exist
    EmptyFile      \* it was opened for writing and not filled yet

ASSUME TrainerAssumption ==
    /\ TotalSteps \in Nat \ {0} /\ MaxStep > TotalSteps
    /\ SaveFreq \in Nat
    /\ EsiSignals \subseteq BOOLEAN
    /\ ResumeModes \subseteq {"auto", "disable", "resume_path"}
    /\ MaxRuns \in Nat \ {0}
    /\ NoFile \notin Nat /\ EmptyFile \notin Nat /\ NoFile # EmptyFile
    /\ Weights = (0..MaxRuns) \X (0..MaxStep)

VARIABLES
    dpc,          \* where the driver is
    run,          \* which start of the job this is
    globalSteps,  \* self.global_steps
    loader,       \* batches the dataloader has produced
    folders,      \* global_step_N folders on disk
    dataFile,     \* data.pt of each folder
    tracker,      \* latest_checkpointed_iteration.txt
    published     \* history: last step whose tracker write finished

driverVars == <<dpc, run, globalSteps, loader>>
driverDisk == <<folders, dataFile, tracker, published>>
vars == <<groupVars, driverVars, driverDisk>>

FreshWeights == [r \in Ranks |-> <<0, 0>>]

Init ==
    /\ NoGroupSave
    /\ EmptyDisk
    /\ weights = FreshWeights
    /\ dpc = "start"
    /\ run = 1
    /\ globalSteps = 0
    /\ loader = 0
    /\ folders = {}
    /\ dataFile = [s \in Steps |-> NoFile]
    /\ tracker = NoFile
    /\ published = NoFile

-----------------------------------------------------------------------------
(* Starting: _load_checkpoint.                                             *)

FromScratch ==
    /\ dpc' = "train"
    /\ globalSteps' = 1
    /\ UNCHANGED <<groupVars, run, loader, driverDisk>>

StartFails ==
    /\ dpc' = "failed"
    /\ UNCHANGED <<groupVars, run, globalSteps, loader, driverDisk>>

LoaderStateIgnored(s) == 0

\* The dataloader goes on from data.pt, or from scratch if there is none.
LoaderState(s) == IF dataFile[s] = NoFile THEN 0 ELSE dataFile[s]

\* Every rank loads its shard of folder s, then the driver its data.pt; a
\* missing shard or a torn file raises.
ResumeFrom(s) ==
    IF WholeGroup(s) /\ dataFile[s] # EmptyFile
    THEN /\ LoadGroup(s)
         /\ dpc' = "train"
         /\ globalSteps' = s + 1
         /\ loader' = LoaderState(s)
         /\ UNCHANGED <<run, driverDisk>>
    ELSE StartFails

StartDisabled ==
    /\ dpc = "start"
    /\ "disable" \in ResumeModes
    /\ FromScratch

\* find_latest_ckpt_path: an empty tracker raises, a missing one or a missing
\* folder means training from scratch.
StartAuto ==
    /\ dpc = "start"
    /\ "auto" \in ResumeModes
    /\ \/ tracker = EmptyFile /\ StartFails
       \/ tracker = NoFile /\ FromScratch
       \/ /\ tracker \in Steps
          /\ IF tracker \in folders THEN ResumeFrom(tracker) ELSE FromScratch

\* The tracker is read in this mode too, before the given path is used.
StartFromPath ==
    /\ dpc = "start"
    /\ "resume_path" \in ResumeModes
    /\ \E s \in folders :
         IF tracker = EmptyFile THEN StartFails ELSE ResumeFrom(s)

-----------------------------------------------------------------------------
(* The training loop.                                                      *)

IsLastStep == globalSteps >= TotalSteps

SaveDueNotLast(esi) == SaveFreq > 0 /\ (globalSteps % SaveFreq = 0 \/ esi)

SaveDue(esi) ==
    SaveFreq > 0 /\ (IsLastStep \/ globalSteps % SaveFreq = 0 \/ esi)

\* One iteration of fit up to the decision to save.
TrainStep ==
    /\ dpc = "train"
    /\ weights' = [r \in Ranks |-> <<run, globalSteps>>]
    /\ loader' = loader + 1
    /\ \E esi \in EsiSignals :
         dpc' = IF SaveDue(esi) THEN "save" ELSE "stepEnd"
    /\ UNCHANGED <<saveVars, diskVars, run, globalSteps, driverDisk>>

\* _save_checkpoint: the worker group first (the group makes the folder).
SaveGroup ==
    /\ dpc = "save"
    /\ CallSave(globalSteps)
    /\ dpc' = "saving"
    /\ UNCHANGED <<run, globalSteps, loader, driverDisk>>

GroupStep ==
    /\ dpc = "saving"
    /\ SaveStep
    /\ folders' = folders \cup dirs'
    /\ UNCHANGED <<driverVars, dataFile, tracker, published>>

GroupSaved ==
    /\ dpc = "saving"
    /\ ReturnSave
    /\ dpc' = "openData"
    /\ UNCHANGED <<run, globalSteps, loader, driverDisk>>

\* torch.save(dataloader_state_dict, data.pt)
OpenData ==
    /\ dpc = "openData"
    /\ dataFile' = [dataFile EXCEPT ![globalSteps] = EmptyFile]
    /\ dpc' = "closeData"
    /\ UNCHANGED <<groupVars, run, globalSteps, loader, folders, tracker, published>>

CloseData ==
    /\ dpc = "closeData"
    /\ dataFile' = [dataFile EXCEPT ![globalSteps] = loader]
    /\ dpc' = "openTracker"
    /\ UNCHANGED <<groupVars, run, globalSteps, loader, folders, tracker, published>>

\* open(tracker, "w") empties the file; the step is in it once it is closed.
OpenTracker ==
    /\ dpc = "openTracker"
    /\ tracker' = EmptyFile
    /\ dpc' = "closeTracker"
    /\ UNCHANGED <<groupVars, run, globalSteps, loader, folders, dataFile, published>>

StepBefore == globalSteps - 1

\* What the tracker is to say.
StepWritten == globalSteps

CloseTracker ==
    /\ dpc = "closeTracker"
    /\ tracker' = StepWritten
    /\ published' = globalSteps
    /\ dpc' = "stepEnd"
    /\ UNCHANGED <<groupVars, run, globalSteps, loader, folders, dataFile>>

ReturnsNever == FALSE

\* fit returns at the end of the last step.
Returns == IsLastStep

\* global_steps += 1, on the last step too.
EndStep ==
    /\ dpc = "stepEnd"
    /\ Returns \/ globalSteps < MaxStep
    /\ globalSteps' = globalSteps + 1
    /\ dpc' = IF Returns THEN "finished" ELSE "train"
    /\ UNCHANGED <<groupVars, run, loader, driverDisk>>

-----------------------------------------------------------------------------
(* The job is killed while it works, or started again after it ended; only *)
(* the disk survives.                                                      *)

Restart ==
    /\ run < MaxRuns
    /\ MaxStep \notin folders
    /\ dpc # "start"
    /\ run' = run + 1
    /\ dpc' = "start"
    /\ globalSteps' = 0
    /\ loader' = 0
    /\ rpc' = [r \in Ranks |-> "idle"]
    /\ target' = 1
    /\ doomed' = {}
    /\ savedPaths' = <<>>
    /\ weights' = FreshWeights
    /\ UNCHANGED <<diskVars, driverDisk>>

Driver ==
    \/ StartDisabled
    \/ StartAuto
    \/ StartFromPath
    \/ TrainStep
    \/ SaveGroup
    \/ GroupStep
    \/ GroupSaved
    \/ OpenData
    \/ CloseData
    \/ OpenTracker
    \/ CloseTracker
    \/ EndStep

Next == Driver \/ Restart

Spec == Init /\ [][Next]_vars

\* A job that is not killed goes on; kills are not fair, and bounded.
FairSpec == Spec /\ WF_vars(Driver)

-----------------------------------------------------------------------------
(* Properties.                                                             *)

DriverPCs == {"start", "train", "save", "saving", "openData", "closeData",
              "openTracker", "closeTracker", "stepEnd", "finished", "failed"}
FileContents == Nat \cup {NoFile, EmptyFile}

\* Every variable holds a value of its type.
TypeOK ==
    /\ GroupTypeOK
    /\ dpc \in DriverPCs
    /\ run \in 1..MaxRuns
    /\ globalSteps \in 0..(MaxStep + 1)
    /\ loader \in Nat
    /\ folders \subseteq Steps
    /\ dataFile \in [Steps -> FileContents]
    /\ tracker \in Steps \cup {NoFile, EmptyFile}
    /\ published \in Steps \cup {NoFile}

Loadable(s) == s \in folders /\ WholeGroup(s) /\ dataFile[s] \in Nat

\* Whatever the tracker names can be loaded, at any moment the job may be
\* killed: rotation, saves and re-saves after a restart never touch it.
TrackedIsLoadable == tracker \in Steps => Loadable(tracker)

\* The weights and the dataloader training continues from are those of one
\* and the same save: every rank's, of the step before, with as many batches
\* consumed as steps were made.
ResumedFromOneSave ==
    dpc = "train" =>
        /\ loader = globalSteps - 1
        /\ \A r \in Ranks : /\ weights[r] = weights[0]
                            /\ weights[r][2] = globalSteps - 1

\* With automatic resume a start loses no published step: it goes on after the
\* last one, and it fails only on a tracker that was being written when the
\* job was killed.
ResumesAfterPublished ==
    [][dpc = "start" =>
         /\ dpc' = "train" => globalSteps' = 1 + (IF published \in Steps THEN published ELSE 0)
         /\ dpc' = "failed" => tracker = EmptyFile]_vars

\* Once a save is over, no more than MaxKeep of the checkpoints this start of
\* the job has written are left: rotation makes room before every save.
KeptPerRun ==
    MaxKeep > 0 /\ AllSaved =>
        Cardinality({s \in Steps : \E step \in 0..MaxStep :
                                      shard[s][0] = <<run, step>>}) <= MaxKeep

\* A job that finished has saved, completely, the weights it ended with.
FinishedIsPublished ==
    dpc = "finished" /\ SaveFreq > 0 =>
        /\ tracker = globalSteps - 1
        /\ Loadable(tracker)
        /\ shard[tracker] = weights

\* A start that is not killed ends, trained to the last step or refused: no
\* rank waits for ever at a barrier of a save.
JobEnds == <>[](dpc \in {"finished", "failed"})

\* ppo_trainer.yaml:887: "auto": resume from last checkpoint if available: once
\* a checkpoint was published and its tracker is intact, a start succeeds.
AutoResumes == dpc = "failed" => tracker = EmptyFile
=============================================================================
