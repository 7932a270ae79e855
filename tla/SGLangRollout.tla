---------------------------- MODULE SGLangRollout ----------------------------
(***************************************************************************)
(* A batch of multi-turn conversations generated by one tensor-parallel    *)
(* group (SGLangRollout._req_level_generate_sequences): rank 0 runs every  *)
(* AsyncRolloutRequest as a coroutine of its own while the other ranks     *)
(* wait at dist.barrier, which is the whole world's; then those of the     *)
(* group get its finished requests.                                        *)
(*                                                                         *)
(* Tokens are known by who wrote them: "prompt", "gen" (the generation     *)
(* prompt of the chat template, one token here), "answer" (the model's     *)
(* text and the closing token the template adds), "tool" and "user".       *)
(*                                                                         *)
(* Abstracted: texts, images, rewards, attention and position ids (cut and *)
(* extended together with the loss mask), sampling parameters.             *)
(***************************************************************************)
EXTENDS Integers, Sequences

CONSTANTS
    Batches,           \* batches of prompts to start with
    Tools,             \* names in _tool_map
    TPSize,            \* ranks of the group
    WorldSize,         \* ranks of all groups
    PromptLength,      \* config.prompt_length
    ResponseLength,    \* config.response_length
    MaxModelLen,       \* config.max_model_len
    MaxAssistantTurns, \* multi_turn.max_assistant_turns
    MaxUserTurns,      \* multi_turn.max_user_turns
    MessageTokens      \* bound: numbers of tokens a tool's or a user's turn has

\* A prompt's tokens without the generation prompt, the tools of its
\* tools_kwargs, and whether its interaction_kwargs, if it has any, name an
\* interaction of a configured interaction_map.
Row == [length : Nat \ {0}, tools : SUBSET Tools, user : {"none", "known", "unknown"}]

\* _verify_config; a prompt may be longer than prompt_length, which is logged.
ASSUME RolloutAssumption ==
    /\ Batches \subseteq Seq(Row) \ {<<>>}
    /\ {TPSize, PromptLength, ResponseLength, MaxAssistantTurns} \subseteq Nat \ {0}
    /\ MaxUserTurns \in Nat /\ WorldSize \in Nat /\ WorldSize >= TPSize
    /\ MessageTokens \subseteq Nat \ {0}
    /\ MaxModelLen \in Nat /\ MaxModelLen >= PromptLength + ResponseLength

VARIABLES
    batch,
    at,       \* where each request's coroutine is
    state,    \* AsyncRolloutRequestStateEnum
    ids,      \* input_ids
    mask,     \* loss_mask
    turns,    \* current_turns
    users,    \* user_turns
    calls,    \* tools the last message calls
    reason,   \* finish_reason_type
    live,     \* tools with an instance for the request
    pending,  \* tools a gather still has to create or to release
    result,   \* response and response_loss_mask of a finalized request
    rank,     \* where each rank of the world is
    received  \* the requests each rank of the group has

talkVars == <<state, ids, mask, turns, users, calls, reason>>
rankVars == <<rank, received>>
vars == <<batch, at, talkVars, live, pending, result, rankVars>>

Requests == DOMAIN batch
Ranks == 0 .. TPSize - 1
World == 0 .. WorldSize - 1
NoReason == "None"

Repeat(value, n) == [i \in 1 .. n |-> value]
Least(a, b) == IF a < b THEN a ELSE b
Upto(sequence, n) == SubSeq(sequence, 1, Least(Len(sequence), n))
EndsWithPrompt(tokens) == tokens[Len(tokens)] = "gen"

Prompt(r) == Append(Repeat("prompt", batch[r].length), "gen")

Init ==
    /\ batch \in Batches
    /\ at = [r \in Requests |-> "loop"]
    /\ state = [r \in Requests |-> "PENDING"]
    /\ ids = [r \in Requests |-> Prompt(r)]
    /\ mask = [r \in Requests |-> Repeat(0, Len(Prompt(r)))]
    /\ turns = [r \in Requests |-> 0]
    /\ users = [r \in Requests |-> 0]
    /\ calls = [r \in Requests |-> {}]
    /\ reason = [r \in Requests |-> NoReason]
    /\ live = [r \in Requests |-> {}]
    /\ pending = [r \in Requests |-> batch[r].tools]
    /\ result = [r \in Requests |-> <<>>]
    /\ rank = [k \in World |-> IF k = 0 THEN "generating" ELSE "called"]
    /\ received = [k \in Ranks |-> <<>>]

-----------------------------------------------------------------------------
(* AsyncRolloutRequest                                                     *)

\* _update_input_ids
Extend(r, tokens, loss) ==
    /\ ids' = [ids EXCEPT ![r] = @ \o tokens]
    /\ mask' = [mask EXCEPT ![r] = @ \o Repeat(loss, Len(tokens))]

AlwaysPrompted(tokens) == <<"gen">>

\* get_generation_prompt_ids: what it adds, unless the ids end with it already
GenerationPrompt(tokens) == IF EndsWithPrompt(tokens) THEN <<>> ELSE <<"gen">>

\* truncate_output_ids, of ids and mask already cut to max_model_len
Response(tokens, losses, r) ==
    LET from == Len(Prompt(r)) + 1
    IN  [tokens |-> Upto(SubSeq(tokens, from, Len(tokens)), ResponseLength),
         mask |-> Upto(SubSeq(losses, from, Len(losses)), ResponseLength)]

\* The request's own max_model_len
RequestMaxLen == Least(MaxModelLen, PromptLength + ResponseLength)

\* finalize: a generation prompt that no answer followed is taken off.
Finalized(r) ==
    LET kept == Len(ids[r]) - IF EndsWithPrompt(ids[r]) THEN 1 ELSE 0
        end == Least(kept, RequestMaxLen)
    IN  Response(SubSeq(ids[r], 1, end), SubSeq(mask[r], 1, end), r)

-----------------------------------------------------------------------------
(* _async_rollout_a_request                                                *)

\* Rank 0's event loop runs the requests until one of them raises.
InLoop(r, label) ==
    /\ rank[0] = "generating"
    /\ at[r] = "loop"
    /\ turns[r] < MaxAssistantTurns
    /\ state[r] = label

\* An exception ends the conversation where it is: nothing of the request is
\* read again, and its tools are not released.
Raise(r) ==
    /\ at' = [at EXCEPT ![r] = "raised"]
    /\ UNCHANGED <<batch, talkVars, live, pending, result, rankVars>>

\* _handle_pending_state: the tools are created by one gather, then the user's
\* interaction is started.
CreateTool(r, t) ==
    /\ InLoop(r, "PENDING")
    /\ t \in pending[r]
    /\ pending' = [pending EXCEPT ![r] = @ \ {t}]
    /\ live' = [live EXCEPT ![r] = @ \union {t}]
    /\ UNCHANGED <<batch, at, talkVars, result, rankVars>>

CreateRaises(r) == InLoop(r, "PENDING") /\ pending[r] # {} /\ Raise(r)

\* The row names no interaction of the map.
UnknownUser(r) ==
    InLoop(r, "PENDING") /\ pending[r] = {} /\ batch[r].user = "unknown" /\ Raise(r)

\* start_interaction raises.
StartRaises(r) ==
    InLoop(r, "PENDING") /\ pending[r] = {} /\ batch[r].user = "known" /\ Raise(r)

Start(r) ==
    /\ InLoop(r, "PENDING")
    /\ pending[r] = {}
    /\ batch[r].user # "unknown"
    /\ state' = [state EXCEPT ![r] = "RUNNING"]
    /\ UNCHANGED <<batch, at, ids, mask, turns, users, calls, reason, live, pending,
                   result, rankVars>>

Continue(r, label) ==
    /\ state' = [state EXCEPT ![r] = label]
    /\ UNCHANGED <<at, pending>>

LastReason(taken, why) == why

\* After the loop: the turn limit makes any reason a stop.
FinishReason(taken, why) == IF taken >= MaxAssistantTurns THEN "STOP" ELSE why

FinalizeAtLength(r, why) ==
    /\ at' = [at EXCEPT ![r] = "releasing"]
    /\ pending' = [pending EXCEPT ![r] = IF why = "LENGTH" THEN {} ELSE batch[r].tools]

\* Every way out of the loop goes on to calc_reward_and_release_fn.
Leave(r, why) ==
    /\ at' = [at EXCEPT ![r] = "releasing"]
    /\ pending' = [pending EXCEPT ![r] = batch[r].tools]

\* break
Break(r, why) ==
    /\ reason' = [reason EXCEPT ![r] = FinishReason(turns'[r], why)]
    /\ Leave(r, why)

\* One token and the end of sequence would fit.
HasRoom(r) == Len(ids[r]) + Len(GenerationPrompt(ids[r])) + 1 < MaxModelLen

NoRoomToGenerate(r) ==
    LET added == GenerationPrompt(ids[r]) IN
    /\ InLoop(r, "RUNNING")
    /\ ~HasRoom(r)
    /\ Extend(r, added, 0)
    /\ UNCHANGED turns
    /\ Break(r, "LENGTH")
    /\ UNCHANGED <<batch, state, users, calls, live, result, rankVars>>

\* What the engine is given to write (_handle_engine_generate)
MaxNewTokens(length) == Least(ResponseLength, MaxModelLen - length - 1)

\* An answer of n tokens, which add_assistant_message closes.
Answered(r, n) ==
    LET added == GenerationPrompt(ids[r]) IN
    /\ InLoop(r, "RUNNING")
    /\ HasRoom(r)
    /\ n <= MaxNewTokens(Len(ids[r]) + Len(added))
    /\ ids' = [ids EXCEPT ![r] = @ \o added \o Repeat("answer", n + 1)]
    /\ mask' = [mask EXCEPT ![r] = @ \o Repeat(0, Len(added)) \o Repeat(1, n + 1)]
    /\ turns' = [turns EXCEPT ![r] = @ + 1]
    /\ UNCHANGED <<batch, users, live, result, rankVars>>

Full(r, n) == n = MaxNewTokens(Len(ids[r]) + Len(GenerationPrompt(ids[r])))

\* The engine fails, or ends for another reason than a stop or a length.
EngineRaises(r) == InLoop(r, "RUNNING") /\ HasRoom(r) /\ Raise(r)

Lengths == 0 .. ResponseLength

\* The engine stopped for length.
AnswerCut(r) ==
    /\ \E n \in Lengths : Full(r, n) /\ Answered(r, n)
    /\ Break(r, "LENGTH")
    /\ UNCHANGED <<state, calls>>

\* The answer calls tools; calls whose arguments cannot be decoded are dropped.
AnswerCalls(r) ==
    \E n \in Lengths \ {0}, called \in SUBSET Tools :
        /\ ~Full(r, n)
        /\ Answered(r, n)
        /\ calls' = [calls EXCEPT ![r] = called]
        /\ IF called = {}
           THEN /\ state' = [state EXCEPT ![r] = "COMPLETED"]
                /\ Break(r, "STOP")
           ELSE /\ Continue(r, "TOOL_CALLING")
                /\ reason' = [reason EXCEPT ![r] = "TOOL_CALL"]

\* The answer calls none: the user's turn, if the request has a user and both
\* have turns left.
AnswerTalks(r) ==
    /\ \E n \in Lengths : ~Full(r, n) /\ Answered(r, n)
    /\ IF batch[r].user # "none" /\ users[r] < MaxUserTurns /\ turns'[r] < MaxAssistantTurns
       THEN /\ Continue(r, "INTERACTING")
            /\ reason' = [reason EXCEPT ![r] = "STOP"]
       ELSE Break(r, "STOP") /\ UNCHANGED state
    /\ UNCHANGED calls

\* asyncio.gather of the calls: rows are only given their own tools.  (The code
\* then compares len(input_ids) with max_model_len; input_ids has the shape
\* (1, n), so this never ends a conversation, here or after a user's turn: the
\* check before the next answer does.)
AnswerTools(r) ==
    /\ InLoop(r, "TOOL_CALLING")
    /\ calls[r] \subseteq batch[r].tools
    /\ \E n \in MessageTokens : Extend(r, Repeat("tool", n), 0)
    /\ Continue(r, "RUNNING")
    /\ UNCHANGED <<batch, turns, users, calls, reason, live, result, rankVars>>

\* The model named a tool the row has no tools_kwargs for.
UnknownTool(r) ==
    InLoop(r, "TOOL_CALLING") /\ ~(calls[r] \subseteq batch[r].tools) /\ Raise(r)

\* A tool raises while it executes.
ToolRaises(r) ==
    InLoop(r, "TOOL_CALLING") /\ calls[r] \subseteq batch[r].tools /\ Raise(r)

\* The user ends the conversation or says something.  (The name is looked up
\* again before; OwnChecksHold says that it is in the map.)
AnswerUser(r) ==
    /\ InLoop(r, "INTERACTING")
    /\ users' = [users EXCEPT ![r] = @ + 1]
    /\ UNCHANGED turns
    /\ \/ /\ state' = [state EXCEPT ![r] = "COMPLETED"]
          /\ UNCHANGED <<ids, mask>>
          /\ Break(r, "STOP")
       \/ /\ \E n \in MessageTokens : Extend(r, Repeat("user", n), 0)
          /\ Continue(r, "RUNNING")
          /\ UNCHANGED reason
    /\ UNCHANGED <<batch, calls, live, result, rankVars>>

\* generate_response raises.
UserRaises(r) == InLoop(r, "INTERACTING") /\ Raise(r)

\* The loop's condition fails, with whatever was to be done next undone.
TurnsUsed(r) ==
    /\ rank[0] = "generating"
    /\ at[r] = "loop" /\ turns[r] >= MaxAssistantTurns
    /\ UNCHANGED turns
    /\ Break(r, reason[r])
    /\ UNCHANGED <<batch, state, ids, mask, users, calls, live, result, rankVars>>

\* calc_reward_and_release_fn of one of the request's tools
ReleaseTool(r, t) ==
    /\ rank[0] = "generating"
    /\ at[r] = "releasing"
    /\ t \in pending[r]
    /\ pending' = [pending EXCEPT ![r] = @ \ {t}]
    /\ live' = [live EXCEPT ![r] = @ \ {t}]
    /\ UNCHANGED <<batch, at, talkVars, result, rankVars>>

\* calc_reward or release raises.
ReleaseRaises(r) ==
    rank[0] = "generating" /\ at[r] = "releasing" /\ pending[r] # {} /\ Raise(r)

Supported == {"STOP", "LENGTH"}

Finalize(r) ==
    /\ rank[0] = "generating"
    /\ at[r] = "releasing"
    /\ pending[r] = {}
    /\ state' = [state EXCEPT ![r] = "COMPLETED"]
    /\ IF reason[r] \in Supported
       THEN /\ result' = [result EXCEPT ![r] = Finalized(r)]
            /\ at' = [at EXCEPT ![r] = "returned"]
       ELSE /\ at' = [at EXCEPT ![r] = "unsupported"]
            /\ UNCHANGED result
    /\ UNCHANGED <<batch, ids, mask, turns, users, calls, reason, live, pending, rankVars>>

-----------------------------------------------------------------------------
(* _req_level_generate_sequences, on every rank of the world               *)

RankGoes(k, label) ==
    /\ rank' = [rank EXCEPT ![k] = label]
    /\ UNCHANGED <<batch, at, talkVars, live, pending, result>>

\* The gather of rank 0 has every request, in the order of the prompts, or an
\* exception of one of them; then the others stay where they are.
Gathered ==
    /\ rank[0] = "generating"
    /\ \/ /\ \A r \in Requests : at[r] = "returned"
          /\ received' = [received EXCEPT ![0] = result]
          /\ RankGoes(0, "barrier")
       \/ /\ \E r \in Requests : at[r] \in {"raised", "unsupported"}
          /\ UNCHANGED received
          /\ RankGoes(0, "raised")

SkipsBarrier(k) ==
    /\ k # 0 /\ rank[k] = "called"
    /\ RankGoes(k, "passed")
    /\ UNCHANGED received

\* A rank with nothing to generate, or the first of another group with its
\* conversations done.
ReachBarrier(k) ==
    /\ k # 0 /\ rank[k] = "called"
    /\ RankGoes(k, "barrier")
    /\ UNCHANGED received

\* A conversation of another group raises.
OtherRaises(k) ==
    /\ k \notin Ranks /\ rank[k] = "called"
    /\ RankGoes(k, "raised")
    /\ UNCHANGED received

PassBarrier ==
    /\ \A k \in World : rank[k] = "barrier"
    /\ rank' = [k \in World |-> "passed"]
    /\ UNCHANGED <<batch, at, talkVars, live, pending, result, received>>

\* broadcast_pyobj in the group, from rank 0, and the batch built of it
Return(k) ==
    /\ rank[k] = "passed"
    /\ rank[0] \in {"passed", "returned"}
    /\ received' = [received EXCEPT ![k] = received[0]]
    /\ RankGoes(k, "returned")

-----------------------------------------------------------------------------

Step(r) ==
    \/ \E t \in Tools : CreateTool(r, t) \/ ReleaseTool(r, t)
    \/ UnknownUser(r)
    \/ Start(r)
    \/ NoRoomToGenerate(r)
    \/ AnswerCut(r)
    \/ AnswerCalls(r)
    \/ AnswerTalks(r)
    \/ AnswerTools(r)
    \/ UnknownTool(r)
    \/ AnswerUser(r)
    \/ TurnsUsed(r)
    \/ Finalize(r)

\* A tool, the user or the engine may raise whenever it is called.
CallRaises(r) ==
    \/ CreateRaises(r)
    \/ StartRaises(r)
    \/ EngineRaises(r)
    \/ ToolRaises(r)
    \/ UserRaises(r)
    \/ ReleaseRaises(r)

Group ==
    \/ Gathered
    \/ PassBarrier
    \/ \E k \in World : ReachBarrier(k)
    \/ \E k \in Ranks : Return(k)

Next ==
    \/ Group
    \/ \E k \in World : OtherRaises(k)
    \/ \E r \in Requests : Step(r) \/ CallRaises(r)

Spec == Init /\ [][Next]_vars

RequestIds == UNION {DOMAIN b : b \in Batches}

\* The event loop resumes every coroutine whose engine, tool or user answered,
\* and the ranks run on their own; nothing has to raise.
FairSpec ==
    /\ Spec
    /\ WF_vars(Group)
    /\ \A r \in RequestIds : WF_vars(r \in Requests /\ Step(r))

-----------------------------------------------------------------------------
(***************************************************************************)
(* Properties.                                                             *)
(***************************************************************************)

Complete(r) ==
    /\ Len(result[r].tokens) < ResponseLength
    /\ Len(Prompt(r)) + Len(result[r].tokens) < RequestMaxLen

\* The loss is taken on what the model wrote and on nothing else, and every
\* answer was asked for by just one generation prompt, the first by the one in
\* the prompt: in each response, which starts with an answer, the mask has its
\* ones exactly on the answers, and a generation prompt stands right before an
\* answer, unless it is where the response was cut.
OnlyAnswersAreTrained ==
    \A r \in Requests : at[r] = "returned" =>
        LET row == result[r] IN
        /\ Len(row.tokens) <= ResponseLength
        /\ row.mask = [i \in DOMAIN row.tokens |-> IF row.tokens[i] = "answer" THEN 1 ELSE 0]
        /\ row.tokens # <<>> => row.tokens[1] = "answer"
        /\ \A i \in DOMAIN row.tokens : row.tokens[i] = "gen" =>
              IF i = Len(row.tokens) THEN ~Complete(r)
                                     ELSE row.tokens[i + 1] = "answer"

\* A tool has an instance for the request from before its first call until
\* after its reward was taken, and none is left behind, whatever ended the
\* conversation, unless it raised.
ToolsReleased ==
    \A r \in Requests :
        /\ state[r] = "TOOL_CALLING" /\ at[r] = "loop" => live[r] = batch[r].tools
        /\ at[r] = "releasing" => live[r] = pending[r]
        /\ at[r] = "returned" => live[r] = {}

\* A conversation raises only by a call it makes or a name it does not know,
\* never by a check of what the loop itself did before: finalize's for a reason
\* that is no stop and no length (one cut off between the call of a tool and its
\* answer has none of these by itself), the tool state's for an answer with no
\* call, and the second look-up of the user, which only the first one makes safe.
OwnChecksHold ==
    \A r \in Requests :
        /\ at[r] # "unsupported"
        /\ at[r] = "loop" /\ state[r] = "TOOL_CALLING" => calls[r] # {}
        /\ at[r] = "loop" /\ state[r] = "INTERACTING" => batch[r].user = "known"

\* Every rank of the group returns, with the requests of rank 0, all of them
\* finalized, unless a conversation of some group raised.
EveryRankGetsTheBatch ==
    <>[](\/ \E k \in World : rank[k] = "raised"
         \/ \A k \in Ranks : /\ rank[k] = "returned"
                             /\ received[k] = result
                             /\ \A r \in Requests : state[r] = "COMPLETED")
=============================================================================
