----------------------------- MODULE TRMTrainStep -----------------------------
(***************************************************************************)
(* One training step around the reward call: compute_reward with its       *)
(* fallback (verl/trainer/ppo/reward.py), the merge of the extra lists     *)
(* into the batch, the penalty mask of the `trm` advantage estimator and   *)
(* the hand-over of the batch to the actor's workers (ray_trainer.py,      *)
(* protocol.py).  The reward manager it calls is TRMRewardManager, whose   *)
(* actions are steps of this module.                                       *)
(*                                                                         *)
(* Abstracted: log-probabilities, values and the update itself change      *)
(* nothing the properties read.  The step is one of fit's after            *)
(* critic_warmup, without a critic, as in the project's training scripts.  *)
(***************************************************************************)
EXTENDS TRMRewardManager, Integers

CONSTANT GlobalStep   \* self.global_steps, at least 1 in fit

ASSUME GlobalStepAssumption == GlobalStep \in Nat \ {0}

VARIABLES
    dpc,          \* where the driver is
    asyncReward,  \* config.reward_model.launch_reward_fn_async
    calls,        \* calls of the reward manager in this step
    columns,      \* extra lists merged into batch.non_tensor_batch
    penaltyOf     \* row whose spans penalise each row, 0 if none

driverVars == <<dpc, asyncReward, calls, columns, penaltyOf>>
stepVars == <<vars, driverVars>>

NoColumns == [scores |-> <<>>, positions |-> <<>>]

StepInit ==
    /\ Init
    /\ dpc = "launch"
    /\ asyncReward \in BOOLEAN
    /\ calls = 0
    /\ columns = NoColumns
    /\ penaltyOf = [r \in Rows |-> 0]

-----------------------------------------------------------------------------

\* compute_reward_async calls compute_reward without its global_step.
StepPassed(async) == IF async THEN -1 ELSE GlobalStep

\* compute_reward refuses a step that was not given; the driver meets the
\* ValueError at ray.get when the call was asynchronous.
ComputeReward ==
    /\ dpc = "launch"
    /\ IF StepPassed(asyncReward) = -1
       THEN dpc' = "crashed" /\ calls' = calls
       ELSE dpc' = "reward" /\ calls' = 1
    /\ UNCHANGED <<vars, asyncReward, columns, penaltyOf>>

\* reward_fn at work, in the first call or in the fallback.
ManagerStep ==
    /\ dpc \in {"reward", "fallback"}
    /\ Next
    /\ UNCHANGED driverVars

\* The result and its extra lists, merged into the batch unchecked.
TakeResult ==
    /\ dpc = "reward"
    /\ pc = "returned"
    /\ columns' = [scores |-> scores, positions |-> positions]
    /\ dpc' = "advantage"
    /\ UNCHANGED <<vars, asyncReward, calls, penaltyOf>>

NeedsFallbackAlways == pc \in {"raised", "returned"}

NeedsFallback == pc = "raised"

\* except Exception: reward_fn(data) - a fresh call scores the whole batch
\* again; only the files keep what the first one did.
ScoreAgain ==
    /\ dpc = "reward"
    /\ NeedsFallback
    /\ pc' = "call"
    /\ fstate' = [f \in Futures |-> "none"]
    /\ futures' = {}
    /\ done' = {}
    /\ retries' = [r \in Rows |-> 0]
    /\ sleeping' = 0
    /\ results' = [r \in Rows |-> Pending]
    /\ next' = 1
    /\ reward' = [r \in Rows |-> 0]
    /\ scores' = <<>>
    /\ positions' = <<>>
    /\ dpc' = "fallback"
    /\ calls' = calls + 1
    /\ UNCHANGED <<rmScores, fileVars, asyncReward, columns, penaltyOf>>

\* reward_extra_infos_dict = {}
FallbackColumns == NoColumns

TakeFallbackResult ==
    /\ dpc = "fallback"
    /\ pc = "returned"
    /\ columns' = FallbackColumns
    /\ dpc' = "advantage"
    /\ UNCHANGED <<vars, asyncReward, calls, penaltyOf>>

FallbackRaises ==
    /\ dpc = "fallback"
    /\ pc = "raised"
    /\ dpc' = "crashed"
    /\ UNCHANGED <<vars, asyncReward, calls, columns, penaltyOf>>

\* create_penalty_mask_vectorized reads 'positions' (KeyError if no row has
\* any) and applies its i-th entry to row i of the batch.
CreatePenaltyMask ==
    /\ dpc = "advantage"
    /\ IF columns.positions = <<>>
       THEN dpc' = "crashed" /\ UNCHANGED penaltyOf
       ELSE /\ dpc' = "update"
            /\ penaltyOf' = [r \in Rows |->
                 IF r <= Len(columns.positions) THEN columns.positions[r] ELSE 0]
    /\ UNCHANGED <<vars, asyncReward, calls, columns>>

FitsUnchecked(column) == TRUE

\* check_consistency of the chunks: a column of another length than the batch
\* leaves some chunk with a column of another length than its rows.
Fits(column) == Len(column) = NumTasks

UpdateActor ==
    /\ dpc = "update"
    /\ dpc' = IF Fits(columns.scores) /\ Fits(columns.positions)
              THEN "trained" ELSE "crashed"
    /\ UNCHANGED <<vars, asyncReward, calls, columns, penaltyOf>>

-----------------------------------------------------------------------------

Driver ==
    \/ ComputeReward
    \/ TakeResult
    \/ ScoreAgain
    \/ TakeFallbackResult
    \/ FallbackRaises
    \/ CreatePenaltyMask
    \/ UpdateActor

StepNext == Driver \/ ManagerStep

StepSpec == StepInit /\ [][StepNext]_stepVars

\* The driver and the manager's threads keep running, as in FairSpec.
FairStepSpec ==
    /\ StepSpec
    /\ WF_stepVars(Driver)
    /\ WF_stepVars(ManagerStep /\ Caller)
    /\ WF_stepVars(ManagerStep /\ Workers)

-----------------------------------------------------------------------------
(* Properties.                                                             *)

\* The actor is only ever trained on a batch in which every row carries its
\* own reward and is penalised by its own spans, scored by the first call: a
\* row that was given up, which shifts the columns of the rows after it, and
\* a fallback, which drops them, never get as far as the update.
TrainedOnOwnSpans ==
    dpc = "trained" =>
        \A r \in Rows : Scored(r) /\ reward[r] = r /\ penaltyOf[r] = r

\* A row is recorded a second time only after a failed write made
\* compute_reward score the batch again, and never a third time.
RerecordedOnlyAfterError ==
    \A r \in Rows : records[r] > 1 => /\ writeErrors > 0
                                      /\ calls = 2
                                      /\ records[r] = 2

\* The step ends, in an update or in an exception.
StepEnds == <>(dpc \in {"trained", "crashed"})

\* README.md:24: m_{i,t} = 1 iff token t in response i falls inside a span
\* flagged in it: a row's mask never comes from another row's spans.
MaskFromOwnSpans ==
    dpc = "update" => \A r \in Rows : penaltyOf[r] \in {0, r}

=============================================================================
