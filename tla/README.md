# Perceval: TLA+ models and proofs

Perceval trains a vision-language policy with token-level credit from PERCEVAL, a process reward
model that flags hallucinated spans. The code is a fork of verl (`src/verl`) with its own reward
manager (`trm.py`), reward function (`hallu_token_reward_vstar.py`), penalty mask (`ray_trainer.py`)
and advantage estimator (`trm` in `core_algos.py`). This directory holds TLA+ modules of the parts
whose control can go wrong, TLC instances of them, and TLAPS proofs.

    tlc -workers 2 -config MCPPOTrainerAuto.cfg MCPPOTrainer     (a run of PROJECT.json)
    tlapm TRMRewardManagerProofs.tla                             (the proofs of one module)

`PROJECT.json` lists components, runs, the mutant of each property, the source lines of each
definition, findings, hazards and theorems.

## Inventory

| Part | State it keeps | Operations | Interacts with |
|---|---|---|---|
| Trainer loop (`ray_trainer.py: RayPPOTrainer`) | `global_steps`, the dataloader, the tracker file | `fit`, `_save_checkpoint`, `_load_checkpoint`, `_validate` | worker groups by remote calls, the reward call, the disk |
| Reward call (`ppo/reward.py`) | none | `compute_reward`, `compute_reward_async` | calls the reward manager, once more as a fallback |
| TRM reward manager (`reward_manager/trm.py`) | futures, retry counters, results; record and failed-task files | `__call__`, `pack_data`, `write_record`, `pad_nested_list` | runs the reward function on a thread pool |
| Reward function (`hallu_token_reward_vstar.py`) | clients and model names, made at import | `adaptive_comput_score`, `compute_score`, `process_verify`, token finder, interval metrics | judge and PERCEVAL servers over HTTP |
| Penalty mask and TRM advantage (`ray_trainer.py:207`, `core_algos.py:1097`) | none | pure functions on a batch | reads `positions` of the reward call |
| Checkpoint manager (`fsdp_checkpoint_manager.py`) | `previous_saved_paths`, directories and shards | `save_checkpoint`, `load_checkpoint` on every rank | barriers between ranks, the trainer's tracker |
| DataProto and dispatch (`protocol.py`, `decorator.py`) | a batch | pad, unpad, chunk, concat, union; dispatch and collect | every remote call |
| Ray worker groups (`single_controller/ray`) | workers, resource pools | spawn, execute, fuse | Ray |
| Agent loops and LLM servers (`experimental/agent_loop`) | per worker a request count per server and an LRU of sticky sessions; per row a response and its mask | `generate_sequences`, turns of a conversation | rollout servers, tools, the trainer's padded batch |
| SGLang multi-turn rollout (`sglang_rollout.py`, `schemas.py`) | one `AsyncRolloutRequest` per row: state, tokens, loss mask, live tool instances | `_req_level_generate_sequences`, `add_*_messages`, `finalize` | the engine on rank 0, tools, users, the other ranks by barrier and broadcast |
| Tools (`tools/`) | instances, token bucket | create, execute, release | HTTP services, a Ray actor |
| Sharding managers, rollout engines | memory of weights and KV cache, whose weights, two random states | wake, sync, offload, sleep | FSDP or Megatron, vLLM or SGLang |
| Workers, actors, critics, losses | shards and optimizer state on GPU or CPU; tensors | load, offload, forward, update | devices |
| Seqlen balancing, datasets, SFT trainer, model merger, metrics, recipes | (see PROJECT.json) | | |

Hard behaviours:

- *Threads*: the manager iterates over a set of finished futures while it removes and adds futures of
  the dictionary it waits on, and may leave the pool by an exception while workers run.
- *Retries and partial failure*: three layers retry (the reward function, the manager, the fallback of
  `compute_reward`), and files are appended in between.
- *Ordering between ranks*: rank 0 removes old checkpoints while others make the new directory; the
  tracker must not be written before the last shard.
- *Crashes*: a job is killed anywhere in rotation, save or tracker write and started again.
- *Coroutines*: every conversation of a batch is a coroutine; they share a cache of sticky sessions, a
  bounded pool of threads and a token bucket, and end in half a dozen places.
- *Shared GPUs*: engine, actor and critic take turns on one memory and one random stream, rank by rank,
  between collectives in which a missing rank stops all.
- *Index arithmetic*: characters, tokens, half-open ranges, clipping and padding between the flagged
  phrase and the advantage; one step off penalises the wrong token and no test would notice.

What makes each part correct:

- *Reward manager*: every row is settled exactly once; retries follow failures; files
  agree with the results; the pool is idle at the exit; the call ends.
- *Training step*: the actor is trained only on a batch in which every row has its own reward and spans.
- *Checkpoints*: a tracked checkpoint is whole at every instant; what is resumed is one save and the
  last one; a finished job has published its weights.
- *Reward function*: no score from an outage, each client asks its own model, a list of spans for every
  training row.
- *Agent loops*: rows come back unpadded and in order; a mask marks what the model wrote; a conversation
  keeps its server; the batch ends with every token of the rate limit given back.
- *SGLang rollout*: only answers are trained on; no tool instance is left behind; `finalize` knows every
  reason; the ranks that wait get the batch.
- *Hybrid engine*: generation on the current weights, in memory that is there, with its own random stream;
  training alone on the GPU; no rank left in a collective.
- *Spans to advantages*: the mask is one exactly on flagged tokens; a flag never pays; the order of
  rewards survives the penalty.

## Modules

| Module | Models | Source |
|---|---|---|
| `BatchScoring` | abstract: what a reward call promises | the contract `compute_reward` relies on |
| `TRMRewardManager` | the call, its thread and its workers | `trm.py` 40-301 |
| `TRMTrainStep` | one step around the call; `EXTENDS TRMRewardManager`, whose actions are its steps | `reward.py` 123-153, `ray_trainer.py` 207-243, 1163-1341 |
| `FSDPCheckpoint` | the ranks of one group in `save_checkpoint` | `fsdp_checkpoint_manager.py` 95-344 |
| `PPOTrainer` | the driver over it, kills and restarts; `EXTENDS FSDPCheckpoint` | `ray_trainer.py` 970-1083, 1102-1430 |
| `HalluReward` | one reward task with its two services; a critic task runs `SpanMetrics` | `hallu_token_reward_vstar.py` 62-158, 473-550, 720-909, 1124-1227 |
| `TokenFinder` | a phrase to its token range | same file, 203-312 |
| `SpanMetrics` | the reward of the critic task | same file, 986-1116 |
| `PenaltyMask` | padding, mask, advantage | `trm.py` 305-368, `ray_trainer.py` 207-243, `core_algos.py` 1097-1181 |
| `FlaggedSpans` | composition: every quoted phrase of every row through `TokenFinder`, then `PenaltyMask` | `process_verify`, `fit` |
| `DataProto` | padding, unpadding, chunk and concat of a batch | `protocol.py` 70-114, 704-751 |
| `AgentLoop` | a batch of conversations over workers, servers and the search tool; `EXTENDS DataProto` | `agent_loop.py`, `tool_agent_loop.py`, `single_turn_agent_loop.py`, `search_tool.py` |
| `SGLangRollout` | a batch of conversations of one tensor-parallel group | `sglang_rollout.py` 806-1264, `schemas.py` |
| `HybridEngine` | the ranks of one group that share their GPUs with the rollout engine | `fsdp_workers.py`, sharding managers, async rollouts, actors and critics |

`MC<Module>` gives constants to TLC; each `.cfg` is one run. `<Module>Proofs` holds the theorems of a module
and of the modules it is composed of.

### How state and actions correspond to the code

**TRMRewardManager.** `pc` is where the calling thread is. `futures` is the dictionary's key set, `done`
what is left of the set being iterated, `fstate` the state of each future (kept after it leaves the
dictionary), `retries` is `task['retries']`. A future is `<<row, attempt>>`, a score is the row it was
computed for, so a score at a wrong row is visible. `WorkerStart` and `WorkerFinish` are the pool's
threads and interleave with everything; the order in which the pool takes futures is left open.
`HandleRetry` enters the sleep of `RETRY_DELAY`, `Resubmit` leaves it: workers run meanwhile. The
record and log writes may fail, `MaxWriteErrors` times in a behaviour.

**TRMTrainStep.** `ManagerStep` is any step of the manager while the driver is in the first call or in
the fallback. `ScoreAgain` is the fallback: fresh variables, the same files. `Fits` stands for
`DataProto.check_consistency` of the chunks sent to the actor's workers: a column of another length
than the batch raises there, not before.

**FSDPCheckpoint.** `rpc[r]` is rank r's place in `save_checkpoint`; the barriers are
`LeaveBarrier1` and `LeaveBarrier2`. Rotation removes files one by one (`RemoveShard`, `RemoveDir`)
while other ranks go on to `MakeDir`. A shard is torn between `OpenShard` and `CloseShard`. `KeepStart`
and `Rotates` are the code's arithmetic on `previous_saved_paths`.

**PPOTrainer.** `dpc` is the driver. Weights are `<<start of the job, step>>`, so that mixing two saves
is visible. `Restart` is a kill or a new start at any point: memory is lost, the disk stays.
`published` is a history variable.

**HalluReward.** `judges` and `prms` are the lists of model names, which skip servers that were down at
import, while the client lists do not; they are in the order of the servers (`ModelNames`). What an exception leaves unbound (`chat_response`, the judge's
text) is modelled, since handlers read it. A critic task asks no service: `CallEvaluate` is the call of
`SpanMetrics`, `CompareSpans` any of its steps, `Evaluate` its result as the reward. Rewards are quotients
of two numbers.

**TokenFinder, PenaltyMask, FlaggedSpans, SpanMetrics.** Algorithms run over every bounded input and
compared with a reference in sets. `SpanMetrics` takes a step per turn of each loop: the greedy match, the
merging of either list, the two nested loops of the intersection, the sums of lengths. In `TokenFinder` the loop is a step per token, since its two searches
share one `break`; offsets may leave gaps, and neighbours may share a character, wholly or partly: a byte-level tokenizer that
cuts a character gives offsets such as `(0, 2), (1, 2)`. `FlaggedSpans` runs it for each phrase of each row, keeps what it finds as `process_verify`
does, and hands the ranges to `PenaltyMask`; its reference relates characters of the quoted phrases to the
mask directly. `PenaltyMask` keeps the advantage an integer by leaving out the positive factor
`1 / (std + epsilon)`, one for the whole group.

**DataProto.** A batch is the sequence of its rows; the columns of a row stay together, as
`check_consistency` demands. `Chunk` and `Concat` are the split and the collection of a dispatched call.

**AgentLoop.** `phase` is the trainer's thread: pad, wake the servers, dispatch, gather, sleep, unpad. A
row is a coroutine with a `pc`; `ChooseSticky` finds the conversation in `lru[worker]`, the cache in the order
of use, `ChooseLeastLoaded` takes the server with the fewest requests counted; `content` says who wrote each token of the response, `mask` is
`response_mask`. A tool call is a coroutine of its own (`CreateTool`, `StartSearch` when a thread is free,
`Acquire` when a token is, `SearchEnds`, `ReleaseInstance`), and `releases` are the release calls nobody waits for.

**SGLangRollout.** `at[r]` and `state[r]` are where the coroutine of request r is and its
`AsyncRolloutRequestStateEnum`. Tokens are known by who wrote them; each action is one iteration of the
loop of `_async_rollout_a_request`, the calls of a turn as one gather; every way out of the loop goes through
`ReleaseTool` and `Finalize`, but an exception does not. Whatever a conversation calls may raise: creating a tool,
starting the interaction or not finding its name, the engine, a tool, the user, taking a reward or releasing
(`CallRaises`, `UnknownUser`, `UnknownTool`). Rank 0 gathers. The barrier is the whole world's: ranks of the
other groups reach it (`ReachBarrier`) or raise before it (`OtherRaises`); behind it (`PassBarrier`) the ranks of the
group receive the finished requests.

**HybridEngine.** A call of the driver is a list of steps per rank (`Methods`, `EnterKVFirst`, ...), the
order of which is the code's; a collective step is taken by all ranks together, all others by each rank
alone. Weights are a version number, so generation on old weights or old cached prefixes is visible; a
random stream is its name, and a swap copies the names between device and slots.

## Runs

| Run | Bounds | Distinct states | Shows |
|---|---|---|---|
| `manager` | 3 rows, 2 workers, 2 retries, 1 failing write | 16 148 | no task lost or doubled (`EveryTaskAccounted`), `RetryDiscipline`, `QuiescentAtExit`, `FilesFollowResults`, `CallTerminates`, refinement of `BatchScoring` |
| `train_step` | 2 rows, 2 workers, 1 retry, 2 failing writes | 1 976 | an update only on own rewards and spans; double records only after an error; the step ends |
| `ckpt_auto` | 3 ranks, 3 steps, 2 kept, 3 starts | 31 079 | barriers and rotation keep the tracked checkpoint whole; a resume is one save and the last published one; no more than two kept |
| `ckpt_modes` | 2 ranks, 3 steps, 1 kept, save every 2, all resume modes, expiring instance | | a finished job has published its weights; a start that is not killed ends |
| `hallu_reward` | 2 judges, 1 PERCEVAL server, the code's retry limits; critic tasks with 2 and 2 spans of 3 tokens | 7.0 million | an outage is never a score; a training row always has a list of spans; a client asks another server's model only if a server was down at import; a critic's reward is the Jaccard index of the token sets |
| `flagged_spans` | 2 responses, 3 characters in up to 4 tokens, tensors of 3 tokens | 1.8 million | a token is marked exactly when a quoted phrase covers it, but for later pieces of a cut last character; a phrase is found iff it is in the text; a flagged token never gains on an unflagged one, and padding gets nothing; a better response's token never falls below a worse one's |
| `agent_loop` | 1 to 3 prompts over 1 to 3 workers, 2 servers, cache of 1, 1 token, 1 thread, response of 4 | 128 618 | rows in order and unpadded; the mask marks the model; a conversation changes its server only if evicted; the batch ends with the bucket full |
| `sglang_rollout` | a group of 2 ranks in a world of 3, 2 tools, 1 or 2 requests, response of 5, 2 answers, 1 user turn | 30 632 | only answers are trained on; tools released; no check of what the loop did before fails, so only calls and unknown names raise; every rank gets the batch unless a conversation raises |
| `hybrid_engine` | 2 ranks, 3 updates, every engine, mode, offload and cache switch | 44 272 | current weights wherever they are brought to the engine, no older prefix wherever its cache is reset, training alone on the GPU, one random stream for generation, KV cache after the offload, no rank left behind |
| `hybrid_prefix` | 1 rank, 2 updates, what the training scripts configure | | a finding: prefixes of older weights are reused |
| `train_step_mask`, `ckpt_keep_one` | as above, one property each | | the other findings |

Why the bounds are enough. *manager*: two futures in `done` and a third row in the pool is the least
in which one row is retried while another is handled and a third runs; two workers for three rows keep
one future queued; MAX_RETRIES has its value. Row 2 carries no `positions`, so the extra lists differ in
length. *train_step*: two failing writes are what it takes for the fallback to raise as well. *ckpt_auto*:
three ranks let one be before, one at and one behind a barrier; with two kept, three steps rotate;
three starts allow a kill during the save after a resume. `MaxStep` exceeds `TotalSteps` because a finished
job that is started again trains one more step. *flagged_spans*: each comparison of a phrase end with a
token (before, inside, at the end, in a gap, shared wholly or partly) occurs with three characters; one row takes every
encoding with every phrase, the other none, one or two phrases, so lists are ragged and ranges overlap; a
response ends before its tensor does, fills it, or is one token longer and cut; responses share a prompt or do not; the penalty is one tenth,
the default. *hallu_reward*: two judges are one
that is down and one whose name moves to its place; two
spans of three tokens on each side give containment, partial overlap, touching, repetition and one annotation that
two flags want. With one PERCEVAL server its client either has its name or none, so that a wrong name is met on the
judges' side only; both use the same draw, and the theorem covers any number.
*agent_loop*: batches are padded with one row, or twice with the same; two conversations of one worker compete
for one cache entry, two workers for one token; a response of 4 with turns of 1 or 2 tokens is cut inside a
model's turn, or ended because a tool's turn has no room. `MaxCalls` exceeds `max_parallel_calls`. *sglang_rollout*:
a row with a tool next to one with a user, a row with both, one whose interaction is unknown, and a prompt that
leaves no room; the third rank stands for all other groups;
with messages of 1 or 2 tokens the response and the model length are reached in each kind of turn.
*hybrid_engine*: the third update follows two whole cycles, and nothing depends on a version but equality
with another; two ranks are one that takes part in waking and one that does not. All configurations are run, with
`free_cache_engine` on (the default) or off (the training scripts); `OnPolicy` demands current weights unless the
mode is async and the cache kept (`Resynchronised`), and fresh prefixes unless vLLM keeps its cache in sync mode or
any engine does in async mode (`CacheIsReset`); what happens then is a finding or told below. *hybrid_prefix* has just the configuration
of the scripts: two updates with a validation between them are enough. *agent_loop* again: with a cache of one entry
the least recently used one is the oldest; `SessionsStick` is proved for every size.

Deadlock is not checked: a call returns, a job finishes, a start is refused, a run ends; these models stop by
design. Where everyone waiting on everyone would matter, `CallTerminates`, `StepEnds`, `JobEnds`,
`BatchEnds`, `EveryRankGetsTheBatch` and `RunEnds` say so.

**Fairness.** Weak everywhere, and only of what the system runs by itself. `FairSpec` of the manager: the
calling thread and the pool's workers; threads of a running process are scheduled, and a request to a server
ends by an answer or an exception (the OpenAI client has a default timeout). Nothing is assumed about which
future finishes first, nor that any succeeds. `FairStepSpec` is the same with the driver. `PPOTrainer`:
the driver and its ranks; kills are not fair and bounded by `MaxRuns`, so that `JobEnds` is about a start that
is no longer killed. `AgentLoop`: the driver, each conversation and tool call, and the delivery of releases;
asyncio and Ray schedule what is ready, generation and searches have timeouts. `SGLangRollout`: the ranks and
each coroutine; that a call raises is never assumed. `HybridEngine`: the driver, each rank, and a
collective once all ranks are in it.

## Proofs

Eight modules, 44 theorems. Each states its result for every value of the constants that the named
`ASSUME` of its module allows (positive counts, markers that are not data). None of the properties is
inductive alone; each section names the invariant that is.

`TRMRewardManagerProofs`: for every number of rows, workers and retries, every set of rows with positions and
any number of failing writes, `TypeCorrect`, `NoTaskLost`, `RetriesDisciplined`, `PoolIdleAtExit`,
`FilesAreComplete`, and `CallRefinesBatch`: the call implements `BatchScoring`. `EveryTaskAccounted` counts the
futures of a row in the dictionary, but a
step that handles one future must know that it is the row's *current* attempt (`DictInv`), that earlier
attempts raised and later ones do not exist (`AttemptInv`), that what is left of `done` is still in
the dictionary (`DoneInv`) and that the one row outside it is the one whose retry is delayed
(`SleepInv`, `PlaceInv`). `IInv` is their conjunction; there is one lemma per action, and `StepIInv`
puts them together. The refinement uses `IInv` for the return (`RewardInv`: rows before `next` have
their rewards) and for storing a result (a row is `Pending` when its future is handled). The files need
`FileInv`: a row is recorded once the row loop is past it, and logged once it is given up.

`TRMTrainStepProofs`: `TrainingOnOwnSpans` and `NoNeedlessRecord`. `SInv` is `IInv` in each call,
`ColumnInv` (an extra list never grows faster than the row loop, and while it has grown with every row it
holds row r at place r), `RecordInv` and `DriverInv`. The point: a list as long as the batch, which is
all that `check_consistency` asks for, is the list of all rows in order. So a cheap test of lengths, far from
where the lists are made, is what keeps wrong masks out of training.

`PPOTrainerProofs`: for every world size, number of steps, `max_ckpt_to_keep`, `save_freq`, resume
mode and number of kills, `TrainerTypeCorrect` (which includes that a resumed rank holds real
weights and never a missing or torn shard), `SavesAreWhole` and `WritersWaitForRotation`: what the second and
the first barrier of `save_checkpoint` are for. `CInv` adds to the types where the ranks are: a rank behind a
barrier has left none before it, rank 0 has nothing left to remove once it has rotated, and a rank that
has written keeps its shard, since removing goes on only while every rank is before the first barrier. The
last modelled step is never resumed from (`StepInv`), which the bound of `Restart` ensures.
`FinishedJobIsPublished` adds `FinishInv`, which follows the last step's weights from the training step to the
tracker: the save of the last step is due whatever positive `save_freq` is. `RotationMakesRoom` (`KeptPerRun`) adds
`KeptInv`: every shard that rank 0 wrote in this start is in `previous_saved_paths`, about to be removed, or just
being saved, so the length of that list bounds their number.

On top of `CInv`, the same module proves `TrackedStaysLoadable`, `ResumesFromOneSave` and
`NoPublishedStepIsLost`, under two hypotheses. `MaxKeep # 1`: with one kept checkpoint the rotation removes the
tracked one (a finding). `ResumeModes \subseteq {"auto"}`: after a start from a given path or from
scratch, a step that the tracker names may be saved a second time, and a kill leaves it torn. `KInv` says that
rank 0 remembers this start's paths in ascending order, that between two saves the last is the tracked one
and so never doomed, and that the step being saved is a later one; `LInv` follows the step's
number from training through shards, `data.pt` and tracker to the next start.

`HalluRewardProofs`, for any number of servers, retries and rounds: `TrainingHasSpans` and `OutageRaises` from
`HInv`, which says what each place of the control flow is reached with. `WrongModelNeedsOutage` from
`NamesInv` (the lists of names rise, and a drawn client is inside its list): a name never stands after its server's
place, and stands before it only if a server up to that place has no name. `CriticRewardIsJaccard`
(`MacroIoUIsJaccard`) for spans of any number and length, from `MetricsInv`, one conjunct per loop of
`compute_interval_set_metrics`. While a list is merged (`MergesTo`), what is merged and what is left cover the
list's tokens, merged spans are separated, and none that is left starts before the last merged one; so
lengths of the merged list count tokens (`LengthCounts`). In the nested loops (`Intersects`) the sum is the
number of common tokens in the rows before, plus those of this row up to the place (`TurnCounts`, `RowCounts`).
That touching spans are joined and empty ones kept does not matter; that lists are sorted first does.

`FlaggedSpansProofs`: for any number of rows, phrases and tokens, any text and any of the encodings
`TokenFinder` allows, `FoundWhenInText`, `MarksAreQuotes`, `FlagsOnlyCost` and `RewardsStayInOrder`. The invariant
`FlaggedInv` is the conjunction of `FinderInv` (where the scan of a phrase stands, and that neither end was passed),
`BatchInv` (the ranges found so far belong to the phrases of the row, in order) and `MaskInv` (the padded lists
and the mask agree with the ranges). The argument has four parts: the offsets of an encoding are in
order; the two ends of a range are found by searches that share a loop, so that they too are in order
(`StartBeforeEnd`) and the range covers the phrase (`RangeCovers`); padding to the longest list adds only
fillers that mark nothing; and the advantage is the centred reward less a share of its absolute
value, a share of at most one (`PenaltyLowers`).

`HybridEngineProofs`: for every size of the group, every number of updates and every configuration,
`UpdatesTrainAlone` (the engine sleeps during an update only where `free_cache_engine` has it sleep),
`GenerationIsSeeded`, `CacheWakesAfterOffload` and `GenerationIsOnPolicy`. The last has no hypothesis: `OnPolicy` itself
says for which configurations weights are current and prefixes fresh; in the others they are not (see *Findings*). The steps of all methods can be put in one order (`Pos`),
so a rank is known by the kinds of step it has left. `HInv` says for each part of the state what it is given that
set: `ShardInv`, `RngInv`, `SleepInv`, `MemoryInv`, `EngineInv`, `ListInv`, `LeftInv`. `StepsList` shows that every method of
every configuration takes its steps in that order.

`AgentLoopProofs`: `PaddedCanBeChunked`, `UnpadUndoesPad` and `ConcatUndoesChunk` about `DataProto`, for data of
every length and every divisor. With them `RowsComeInOrder`, and `MasksMarkTheModel` with `RowInv` (the mask
follows the tokens; no tool's token is at or behind the end of the response, so that no cut leaves one at its
end). `SessionsStick` (`StickyUnlessEvicted`) rests on `CacheInv`: the cache has at most one entry of a request,
it names the server of the last turn, and the entries used after it are of requests that asked since. An entry
that a new one pushes out was the oldest of a full cache, so all the others in it asked since.

`SGLangRolloutProofs`: `ToolsAreReleased`, `FinalizeKnowsTheReason` and `AnswersAreTrained`. `RInv` says which tools are
alive at each of the ends of a conversation, that a break has set a stop or a length by the time
`finalize` reads the reason, that no state is entered whose check would raise (`OwnChecksHold`), that mask and tokens agree, and that every generation prompt is answered unless
it is the last token.

*Assumptions.* Beside the types of the constants and the distinctness of model values:

- `BatchesAssumption`: the batches of `FlaggedSpans` have offsets of some encoding (starts and ends never go back,
  neighbours share at most one character) and phrases of the text's positions; and `Penalty \in 0 .. Unit` (`penalty_percentage` is a share of the absolute advantage);
- `MaxModelLen >= PromptLength + ResponseLength`, which `sglang_rollout.py` asserts when it is built, and `WorldSize >= TPSize`;
- `MaxStep > TotalSteps`: the bound on steps of `PPOTrainer` does not cut a run short;
- the hypotheses on `MaxKeep` and `ResumeModes` named above.

There are no others. TLC evaluates every `ASSUME` in a run.

*Induction.* What a loop computes is proved with its loop invariant, step by step, so algorithms
are machines here and not recursive definitions. Where a fact about data needs an induction (offsets are in
order, a name is not late, a padded list has the greatest width), the proof takes a least counterexample
(`LeastNumber`, from the well-foundedness of the natural numbers) and finds a smaller one.

*Only model-checked*: liveness under fairness (`CallTerminates`, `StepEnds`, `JobEnds`, `BatchEnds`,
`EveryRankGetsTheBatch`, `RunEnds`), which is beyond the prover. Every safety property of a passing run is a
theorem.

## Findings

1. **Shifted masks** (`train_step_mask`). A row that is given up is skipped, so the extra lists get shorter
   and later rows get another row's spans (`ray_trainer.py:1300`). The length check at the hand-over to
   the actor stops the step before it trains: one failing task ends the run.
2. **One kept checkpoint** (`ckpt_keep_one`). With `max_ckpt_to_keep = 1` the only checkpoint is removed
   before the next is written; a kill in between leaves a tracker at a folder that cannot be loaded.
3. **Stale prefixes** (`hybrid_prefix`). `examples/perceval/train/3b_vstar_trm.sh` and `7b_vstar_trm.sh` train with vLLM in
   sync mode and `free_cache_engine=False`. Prefix caching is on (`vllm_rollout_spmd.py:167`) and only the sleep that is
   then skipped drops the cache (`fsdp_vllm.py:232`), so after an update the new weights generate on KV blocks that the
   old ones computed: of a shared system prompt, or of a validation prompt that comes again.

Seen while modelling, without a run of their own:

*Rewards.* `launch_reward_fn_async` always ends in the `ValueError` for a missing `global_step`
(`reward.py:132`, `153`). The handler of a PERCEVAL request calls `time.sleep` in a module that does not import
`time` (`hallu_token_reward_vstar.py:507`), so its first retryable error leaves `process_verify`. A failed
verification raises instead of returning the empty value. A judge that fails at every attempt raises in its own
handler. When the last character of a phrase is cut
into several tokens, only the first that ends with it is penalised: for `[1, 2)` and tokens `(0, 2), (1, 2)` the
`break` of `hallu_token_reward_vstar.py:265` leaves the second unmarked (the exception in `MarkedIffQuoted`). The greedy match of the
metrics drops a flag whose best annotation is taken though another is free.

*Checkpoints.* A kill between truncating and writing the tracker leaves it empty, and every later automatic start
raises (`ray_trainer.py:1025`; the exception in `ResumesAfterPublished`). Checkpoints of earlier starts are never
rotated, as `previous_saved_paths` lives in memory (hence `KeptPerRun` counts one start's). A start from
scratch in an old directory, killed in its first save, is resumed from shards of two runs. A finished job
that is started again trains one step past the total.

*Hybrid engine.* With `free_cache_engine` off the async modes never sync weights, since the sync is part of the
wake-up that is skipped (`agent_loop.py:397`, `vllm_async_server.py:331`, `async_sglang_server.py:73`). The first sleep of the async vLLM leaves a sharding
manager that was never entered, which loses the seeded random stream (`fsdp_vllm.py:105`, `225`). With SGLang, ranks other than
0 may still hold their parameters when rank 0 resumes the KV cache; Megatron's manager resumes everything before the sync.

*Agent loops.* Servers are shuffled, but ties are broken by the hash in the heap's entry; request counts never
decrease; the servers' sleep is not in a `finally`. An empty generation would make the whole prompt the
response (`prompt_ids[-0:]`); `TurnTokens` excludes it. `search_tool.py:90` registers the release
before the acquire.

*SGLang rollout.* Interactions are started and never finalized. A response may end with a tool's or a user's turn
when no room is left. An answer cut for its length is closed by the chat template and its closing tokens are
trained. Conversations go on up to `max_model_len` though only `response_length` is kept, and a prompt longer than
`prompt_length` shortens what is kept. The length checks after a tool's or a user's turn take
`len` of a `(1, n)` tensor (`sglang_rollout.py:827`), so they never fire. A call that raises, a tool that
is missing from the row's `tools_kwargs` or an interaction that is not configured fails the batch and leaves all other
ranks, of every group, at the barrier. A conversation that raises never releases its tools.

## Not modelled, and why

Tensor numerics (losses, forward and backward passes, the other estimators), the inside of vLLM, SGLang, Ray and
Megatron, prompt texts, the tokenizer, vendored scoring scripts, model conversion, kernels, metrics, and recipes: numbers,
text or other projects' code. They are most of the repository's lines, which is why the modelled share of it
is small. HDFS copies and file-system errors other than a failing append are left out.
The JSON parsing of an answer is data to `HalluReward`; that a decoded response may be encoded to
other tokens than were generated is a hazard no model of this kind reaches. Of the modelled parts, the
batch-level path of SGLang, images, the checks of the tokenisation, LoRA, the reference policy and the reward model's
workers, `DataProto`'s union, repeat and reorder, and placement on nodes are left out.

## Plan

1. Done: the reward manager with its abstraction, the training step, checkpoints and resume, the reward
   function with both of its tasks, spans to advantages as one composition, the batch plumbing, agent loops with
   tools, the SGLang rollout, the hybrid engine; proofs of every safety property the runs check.
2. Possible next: sequence length balancing against a reference partition; the other dispatch modes and
   resource pools; the dynamic sampling of the DAPO recipe; the batch-level path of SGLang.
3. Proofs left: the safety core of the liveness properties (a step is always enabled until the end, and a
   measure decreases); the abstract promise of a save and its resume as a specification `PPOTrainer` implements.
