----------------------------- MODULE HybridEngine -----------------------------
(***************************************************************************)
(* The workers of one tensor-parallel group in hybrid mode: every rank     *)
(* holds a shard of the actor and of the critic and shares its GPU with    *)
(* the rollout engine (verl/workers/fsdp_workers.py, megatron_workers.py,  *)
(* the sharding managers, the wake_up and sleep of the async rollouts).    *)
(* The driver calls one method at a time on all ranks and waits for all of *)
(* them (ray.get); between two collectives the ranks run freely.           *)
(*                                                                         *)
(* A call is the list of steps its method takes on a rank; a collective    *)
(* step is taken by all ranks together.  Weights are a version number, a   *)
(* random stream its name.                                                 *)
(*                                                                         *)
(* Abstracted: LoRA adapters, gradient buffers, the reference policy and   *)
(* the reward model, the values computed.                                  *)
(***************************************************************************)
EXTENDS Naturals, Sequences, FiniteSets

CONSTANTS
    TP,            \* tensor_model_parallel_size, the ranks of the group
    MaxUpdates,    \* bound: updates of the actor before the run ends
    Configs        \* the configurations to start from

Ranks == 0 .. TP - 1
Roles == {"actor", "critic"}
Engines == {"vllm", "sglang"}

ConfigSet == [megatron : BOOLEAN, engine : Engines, async : BOOLEAN,
              freeCache : BOOLEAN, offloadParam : BOOLEAN, offloadOptim : BOOLEAN,
              multiStage : BOOLEAN]

ASSUME EngineAssumption ==
    TP \in Nat \ {0} /\ MaxUpdates \in Nat /\ Configs \subseteq ConfigSet

VARIABLES
    config,       \* config.actor.strategy, rollout.{name, mode, ...}
    call,         \* the method the driver waits for, or the last one
    todo,         \* steps each rank has left in it
    version,      \* of the actor's weights
    params,       \* where the FSDP shard of each role is
    optim,        \* where its optimizer state is
    engineMem,    \* the engine's weights have memory on the rank's GPU
    kv,           \* its KV cache has memory on the rank's GPU
    engineVersion,\* weights in the engine
    cached,       \* versions the cached prefixes were computed with
    isSleep,      \* rollout.is_sleep of the async rollouts
    rng,          \* the random stream the device draws from
    torchSlot,    \* sharding_manager.torch_random_states
    genSlot       \* sharding_manager.gen_random_states

gpuVars == <<params, optim>>
engineVars == <<engineMem, kv, engineVersion, cached, isSleep>>
rngVars == <<rng, torchSlot, genSlot>>
vars == <<config, call, todo, version, gpuVars, engineVars, rngVars>>

VLLM == config.engine = "vllm"
Unread == 0   \* what the engine's loader left in its weights
-----------------------------------------------------------------------------

If(condition, steps) == IF condition THEN steps ELSE <<>>

Load(role) == If(config.offloadParam, << <<"load", role>> >>)
Offload(role) == If(config.offloadParam, << <<"offload", role>> >>)
LoadOptim(role) == If(config.offloadOptim, << <<"loadOptim", role>> >>)
OffloadOptim(role) == If(config.offloadOptim, << <<"offloadOptim", role>> >>)

\* A step that only some configurations take, or only rank 0 of the group.
Wake(what, r) == If(config.freeCache, << <<what, "actor">> >>)
WakeOfGroup(what, r) == If(r = 0, Wake(what, r))

EnterKVFirst(r) ==
    Load("actor")
    \o Wake("wakeWeights", r)
    \o << <<"sync", "actor">> >>
    \o Wake("wakeKV", r)
    \o Offload("actor")
    \o << <<"drawGen", "actor">> >>

\* FSDPVLLMShardingManager.__enter__ (MegatronVLLMShardingManager's is the same)
EnterVLLM(r) ==
    Load("actor")
    \o Wake("wakeWeights", r)
    \o << <<"sync", "actor">> >>
    \o Offload("actor")
    \o Wake("wakeKV", r)
    \o << <<"drawGen", "actor">> >>

\* FSDPSGLangShardingManager.wake_up
EnterSGLang(r) ==
    Load("actor")
    \o WakeOfGroup(IF config.multiStage THEN "wakeWeights" ELSE "wakeAll", r)
    \o << <<"sync", "actor">> >>
    \o Offload("actor")
    \o If(config.multiStage, WakeOfGroup("wakeKV", r))
    \o << <<"drawGen", "actor">> >>

\* MegatronSGLangShardingManager.wake_up: its update_weights wakes the engine.
EnterMegatronSGLang(r) ==
    Load("actor")
    \o WakeOfGroup("wakeAll", r)
    \o << <<"sync", "actor">> >>
    \o Offload("actor")
    \o << <<"drawGen", "actor">> >>

Enter(r) ==
    IF VLLM THEN EnterVLLM(r)
    ELSE IF config.megatron THEN EnterMegatronSGLang(r) ELSE EnterSGLang(r)

ExitKeepsStream(r) ==
    IF VLLM THEN Wake("sleep", r) ELSE WakeOfGroup("sleep", r)

\* __exit__ and sleep of the sharding managers
Exit(r) ==
    (IF VLLM THEN Wake("sleep", r) ELSE WakeOfGroup("sleep", r))
    \o << <<"drawTrain", "actor">> >>

WakeUpDriver(r) ==
    If(isSleep[r] /\ (VLLM \/ r = 0), Enter(r) \o << <<"awake", "actor">> >>)

\* vLLMAsyncRollout and SGLangRollout: wake_up, sleep
WakeUp(r) == If(isSleep[r], Enter(r) \o << <<"awake", "actor">> >>)
Sleep(r) == Exit(r) \o << <<"asleep", "actor">> >>

Generate(r) ==
    IF config.async
    THEN If(config.freeCache, WakeUp(r)) \o << <<"generate", "actor">> >>
         \o If(config.freeCache, Sleep(r))
    ELSE If(config.megatron, OffloadOptim("actor"))
         \o Enter(r) \o << <<"generate", "actor">> >> \o Exit(r)

ComputeLogProb == Load("actor") \o << <<"logProb", "actor">> >> \o Offload("actor")
ComputeValues == Load("critic") \o << <<"values", "critic">> >> \o Offload("critic")

UpdateActor ==
    Load("actor") \o LoadOptim("actor") \o << <<"update", "actor">> >>
    \o Offload("actor") \o OffloadOptim("actor")

UpdateCriticKeepsOptim ==
    Load("critic") \o LoadOptim("critic") \o << <<"update", "critic">> >>
    \o Offload("critic")

UpdateCritic ==
    Load("critic") \o LoadOptim("critic") \o << <<"update", "critic">> >>
    \o Offload("critic") \o OffloadOptim("critic")

SaveCheckpoint(role) == Load(role) \o << <<"save", role>> >> \o Offload(role)

LoadCheckpoint(role) ==
    Load(role) \o << <<"restore", role>> >> \o Offload(role) \o OffloadOptim(role)

Steps(method, r) ==
    CASE method = "sleep" -> If(config.freeCache /\ ~isSleep[r], Sleep(r))
      [] method \in {"val_before_train", "generate", "validate"} -> Generate(r)
      [] method = "compute_log_prob" -> ComputeLogProb
      [] method = "compute_values" -> ComputeValues
      [] method = "update_critic" -> UpdateCritic
      [] method = "update_actor" -> UpdateActor
      [] method = "save_actor" -> SaveCheckpoint("actor")
      [] method = "save_critic" -> SaveCheckpoint("critic")
      [] method = "load_actor" -> LoadCheckpoint("actor")
      [] method = "load_critic" -> LoadCheckpoint("critic")

\* The order of fit: resume, validate, then the calls of a training step.
After(method) ==
    CASE method \in {"init_model", "sleep"} -> {"load_actor", "val_before_train", "generate"}
      [] method = "load_actor" -> {"load_critic"}
      [] method = "load_critic" -> {"val_before_train", "generate"}
      [] method = "val_before_train" -> {"generate"}
      [] method = "validate" -> {"generate", "save_actor"}
      [] method = "generate" -> {"compute_log_prob"}
      [] method = "compute_log_prob" -> {"compute_values"}
      [] method = "compute_values" -> {"update_critic"}
      [] method = "update_critic" -> {"update_actor"}
      [] method = "update_actor" -> {"validate", "save_actor", "generate"}
      [] method = "save_actor" -> {"save_critic"}
      [] method = "save_critic" -> {"generate"}
      [] method = "stop" -> {}
-----------------------------------------------------------------------------

At(location, offloaded) == IF offloaded THEN "cpu" ELSE location

\* vLLM's engine of the sync mode is put to sleep by its constructor.
AwakeAtInit == ~(VLLM /\ ~config.async /\ config.freeCache)

\* The server of the async mode loads the model's weights (load_format "auto"),
\* the other engines start with dummy weights.
LoadedAtInit == IF VLLM /\ config.async THEN 1 ELSE Unread

\* After init_model, on every rank.
Init ==
    /\ config \in Configs
    /\ call = "init_model"
    /\ todo = [r \in Ranks |-> <<>>]
    /\ version = 1
    /\ params = [x \in Roles \X Ranks |-> At("gpu", config.offloadParam)]
    /\ optim = [x \in Roles \X Ranks |-> At("gpu", config.offloadOptim)]
    /\ engineMem = [r \in Ranks |-> AwakeAtInit]
    /\ kv = [r \in Ranks |-> AwakeAtInit]
    /\ engineVersion = LoadedAtInit
    /\ cached = {}
    /\ isSleep = [r \in Ranks |-> ~VLLM]
    /\ rng = [r \in Ranks |-> "train"]
    /\ torchSlot = [r \in Ranks |-> "train"]
    /\ genSlot = [r \in Ranks |-> "gen"]

Idle == \A r \in Ranks : todo[r] = <<>>

\* The first call of the async mode: AgentLoopManager starts asleep.
NextCalls ==
    IF call = "init_model" /\ config.async THEN {"sleep"} ELSE After(call)

CallMethod(method) ==
    /\ Idle
    /\ method \in NextCalls
    /\ method = "generate" => version <= MaxUpdates
    /\ call' = method
    /\ todo' = [r \in Ranks |-> Steps(method, r)]
    /\ UNCHANGED <<config, version, gpuVars, engineVars, rngVars>>

Stop ==
    /\ Idle
    /\ version > MaxUpdates
    /\ call \in {"update_actor", "validate", "save_critic"}
    /\ call' = "stop"
    /\ UNCHANGED <<config, todo, version, gpuVars, engineVars, rngVars>>

-----------------------------------------------------------------------------
\* Steps of one rank.

AtStep(r, kind) == todo[r] # <<>> /\ Head(todo[r])[1] = kind
RoleOf(r) == Head(todo[r])[2]
Advance(r) == todo' = [todo EXCEPT ![r] = Tail(@)]
Fixed == UNCHANGED <<config, call, version>>

MoveParams(r, kind, location) ==
    /\ AtStep(r, kind)
    /\ params' = [params EXCEPT ![<<RoleOf(r), r>>] = location]
    /\ Advance(r) /\ Fixed /\ UNCHANGED <<optim, engineVars, rngVars>>

LoadModel(r) == MoveParams(r, "load", "gpu")
OffloadModel(r) == MoveParams(r, "offload", "cpu")

MoveOptim(r, kind, location) ==
    /\ AtStep(r, kind)
    /\ optim' = [optim EXCEPT ![<<RoleOf(r), r>>] = location]
    /\ Advance(r) /\ Fixed /\ UNCHANGED <<params, engineVars, rngVars>>

LoadOptimizer(r) == MoveOptim(r, "loadOptim", "gpu")
OffloadOptimizer(r) == MoveOptim(r, "offloadOptim", "cpu")

\* The GPUs of the engine that rank r drives.
Reach(r) == IF VLLM THEN {r} ELSE Ranks

\* wake_up(tags=["weights"]) of a vLLM engine; resume_memory_occupation, which
\* first releases what the engine was started with
WakeWeights(r) ==
    /\ \/ AtStep(r, "wakeWeights")
       \/ AtStep(r, "wakeAll")
    /\ engineMem' = [q \in Ranks |-> engineMem[q] \/ q \in Reach(r)]
    /\ kv' = IF VLLM THEN kv ELSE [q \in Ranks |-> AtStep(r, "wakeAll")]
    /\ cached' = IF VLLM THEN cached ELSE {}
    /\ Advance(r) /\ Fixed
    /\ UNCHANGED <<gpuVars, engineVersion, isSleep, rngVars>>

WakeKV(r) ==
    /\ AtStep(r, "wakeKV")
    /\ kv' = [q \in Ranks |-> kv[q] \/ q \in Reach(r)]
    /\ Advance(r) /\ Fixed
    /\ UNCHANGED <<gpuVars, engineMem, engineVersion, cached, isSleep, rngVars>>

\* sleep(level=1), release_memory_occupation
PutToSleep(r) ==
    /\ AtStep(r, "sleep")
    /\ engineMem' = [q \in Ranks |-> engineMem[q] /\ q \notin Reach(r)]
    /\ kv' = [q \in Ranks |-> kv[q] /\ q \notin Reach(r)]
    /\ cached' = {}
    /\ Advance(r) /\ Fixed
    /\ UNCHANGED <<gpuVars, engineVersion, isSleep, rngVars>>

DrawGen(r) ==
    /\ AtStep(r, "drawGen")
    /\ torchSlot' = [torchSlot EXCEPT ![r] = rng[r]]
    /\ rng' = [rng EXCEPT ![r] = genSlot[r]]
    /\ Advance(r) /\ Fixed /\ UNCHANGED <<gpuVars, engineVars, genSlot>>

DrawTrain(r) ==
    /\ AtStep(r, "drawTrain")
    /\ genSlot' = [genSlot EXCEPT ![r] = rng[r]]
    /\ rng' = [rng EXCEPT ![r] = torchSlot[r]]
    /\ Advance(r) /\ Fixed /\ UNCHANGED <<gpuVars, engineVars, torchSlot>>

SetSleep(r, kind, asleep) ==
    /\ AtStep(r, kind)
    /\ isSleep' = [isSleep EXCEPT ![r] = asleep]
    /\ Advance(r) /\ Fixed
    /\ UNCHANGED <<gpuVars, engineMem, kv, engineVersion, cached, rngVars>>

Awake(r) == SetSleep(r, "awake", FALSE)
Asleep(r) == SetSleep(r, "asleep", TRUE)

-----------------------------------------------------------------------------
\* Collectives: every rank of the group takes part.

Together(kind) == \A r \in Ranks : AtStep(r, kind)
AdvanceAll == todo' = [r \in Ranks |-> Tail(todo[r])]

SyncWeightsOnce ==
    /\ Together("sync")
    /\ engineVersion' = IF engineVersion = Unread THEN version ELSE engineVersion
    /\ cached' = IF VLLM THEN cached ELSE {}
    /\ AdvanceAll /\ Fixed
    /\ UNCHANGED <<gpuVars, engineMem, kv, isSleep, rngVars>>

\* update_params, update_weights (SGLang flushes its cache with the last tensor)
SyncWeights ==
    /\ Together("sync")
    /\ engineVersion' = version
    /\ cached' = IF VLLM THEN cached ELSE {}
    /\ AdvanceAll /\ Fixed
    /\ UNCHANGED <<gpuVars, engineMem, kv, isSleep, rngVars>>

\* Generation leaves its prefixes in the cache.
RolloutGenerate ==
    /\ Together("generate")
    /\ cached' = cached \union {engineVersion}
    /\ AdvanceAll /\ Fixed
    /\ UNCHANGED <<gpuVars, engineMem, kv, engineVersion, isSleep, rngVars>>

\* Passes over the batch and saves leave weights and memory as they are.
ReadOnly(kind) ==
    /\ Together(kind)
    /\ AdvanceAll /\ Fixed /\ UNCHANGED <<gpuVars, engineVars, rngVars>>

ActorForward == ReadOnly("logProb")
CriticForward == ReadOnly("values")
SaveShards == ReadOnly("save")

\* The optimizer's state is made, or stays, where the parameters are.
OptimOnGPU(role) ==
    optim' = [x \in Roles \X Ranks |-> IF x[1] = role THEN "gpu" ELSE optim[x]]

\* update_policy of the actor: every mini-batch of every epoch
UpdatePolicy ==
    /\ Together("update") /\ RoleOf(0) = "actor"
    /\ version' = version + 1
    /\ OptimOnGPU("actor")
    /\ AdvanceAll
    /\ UNCHANGED <<config, call, params, engineVars, rngVars>>

UpdateValues ==
    /\ Together("update") /\ RoleOf(0) = "critic"
    /\ OptimOnGPU("critic")
    /\ AdvanceAll /\ Fixed /\ UNCHANGED <<params, engineVars, rngVars>>

\* checkpoint_manager.load_checkpoint puts weights of an earlier run into the
\* module and the optimizer's state where the parameters are.
Restore ==
    /\ Together("restore")
    /\ version' = IF RoleOf(0) = "actor" THEN version + 1 ELSE version
    /\ OptimOnGPU(RoleOf(0))
    /\ AdvanceAll
    /\ UNCHANGED <<config, call, params, engineVars, rngVars>>

-----------------------------------------------------------------------------

Collective ==
    \/ SyncWeights
    \/ RolloutGenerate
    \/ ActorForward
    \/ CriticForward
    \/ SaveShards
    \/ UpdatePolicy
    \/ UpdateValues
    \/ Restore

RankStep(r) ==
    \/ LoadModel(r)
    \/ OffloadModel(r)
    \/ LoadOptimizer(r)
    \/ OffloadOptimizer(r)
    \/ WakeWeights(r)
    \/ WakeKV(r)
    \/ PutToSleep(r)
    \/ DrawGen(r)
    \/ DrawTrain(r)
    \/ Awake(r)
    \/ Asleep(r)

Methods ==
    {"sleep", "load_actor", "load_critic", "val_before_train", "generate",
     "validate", "compute_log_prob", "compute_values", "update_critic", "update_actor",
     "save_actor", "save_critic"}

Next ==
    \/ \E method \in Methods : CallMethod(method)
    \/ Collective
    \/ \E r \in Ranks : RankStep(r)
    \/ Stop

Spec == Init /\ [][Next]_vars

\* The driver goes on and so does every rank: nothing else holds them up.
FairSpec ==
    /\ Spec
    /\ WF_vars(Stop \/ \E method \in Methods : CallMethod(method))
    /\ WF_vars(Collective)
    /\ \A r \in Ranks : WF_vars(RankStep(r))

-----------------------------------------------------------------------------
(***************************************************************************)
(* Properties.                                                             *)
(***************************************************************************)

\* Only the wake-up of free_cache_engine brings weights to an async engine.
Resynchronised == config.async => config.freeCache

\* An engine that is put to sleep drops its prefixes, and SGLang's flushes them
\* with new weights.  A sync vLLM engine that stays awake does neither; an async
\* engine that does gets no new weights, so that its prefixes are old with them.
CacheIsReset == config.freeCache \/ (~VLLM /\ ~config.async)

\* Whatever is generated is generated on memory every rank has back, with the
\* actor's current weights where they are brought to the engine at all, and
\* reuses no prefix computed with older ones where its cache is ever reset.
OnPolicy ==
    Together("generate") =>
        /\ \A r \in Ranks : engineMem[r] /\ kv[r]
        /\ Resynchronised => engineVersion = version
        /\ CacheIsReset => cached \subseteq {version}

\* A sync engine "Utilize[s] state_dict from the FSDP to synchronize the
\* weights" (vllm_rollout_spmd.py:18): the rollouts are all of these weights.
FreshPrefixes ==
    Together("generate") /\ ~config.async => cached \subseteq {version}

\* A rank whose engine wakes in two stages gets its KV cache back only after
\* its parameters have left the GPU: the two never need the memory together.
KVCacheAfterOffload ==
    [][\A r \in Ranks :
         /\ config.offloadParam
         /\ VLLM \/ (config.multiStage /\ ~config.megatron /\ r = 0)
         /\ ~kv[r] /\ kv'[r]
         => \A role \in Roles : params[<<role, r>>] = "cpu"]_vars

\* An update finds its model and optimizer state on every GPU, and there with
\* them no offloaded shard or state of the other role, nor, where it may sleep
\* (free_cache_engine), the engine.
TrainsAlone ==
    Together("update") =>
        \A r \in Ranks :
            /\ params[<<RoleOf(r), r>>] = "gpu"
            /\ optim[<<RoleOf(r), r>>] = "gpu"
            /\ rng[r] = "train"
            /\ config.freeCache => ~engineMem[r] /\ ~kv[r]
            /\ \A role \in Roles \ {RoleOf(r)} :
                  /\ config.offloadParam => params[<<role, r>>] = "cpu"
                  /\ config.offloadOptim => optim[<<role, r>>] = "cpu"

\* Generation draws from the stream seeded per data-parallel rank, the same on
\* all ranks of the group, and leaves the training stream alone: with every
\* engine that is woken before it is first put to sleep.
SeededGeneration ==
    (Together("generate") /\ ~(config.async /\ VLLM)
        /\ (config.async => config.freeCache)) =>
        \A r \in Ranks : rng[r] = "gen" /\ torchSlot[r] = "train"

\* No rank waits in a collective the others do not enter: the run ends.
RunEnds == <>(call = "stop")
=============================================================================
