----------------------------- MODULE HalluReward -----------------------------
(***************************************************************************)
(* One reward task: adaptive_comput_score (verl/utils/reward_score/        *)
(* hallu_token_reward_vstar.py), which asks a judge model for the score of *)
(* a response and PERCEVAL, the process reward model, for its flagged      *)
(* spans.  The clients of both are built once, when the module is          *)
(* imported.  A critic task asks no model: SpanMetrics compares the spans  *)
(* it flags with annotated ones.  Whatever the task raises is seen by      *)
(* TRMRewardManager, whose worker threads run it.                          *)
(*                                                                         *)
(* Abstracted: prompts, images and answers; a model's text is what is read *)
(* in it ("yes", "no" or "junk" from a judge, spans or none from           *)
(* PERCEVAL); an endpoint serves one model, named like the endpoint; a     *)
(* reward is a quotient of two natural numbers.                            *)
(***************************************************************************)
EXTENDS Integers, Sequences, FiniteSets

CONSTANTS
    NJudges,    \* endpoints in LLM_AS_A_JUDGE_BASE
    NPRMs,      \* endpoints in PRM_BASE
    MaxRetries, \* MAX_RETRIES
    MaxRounds,  \* range(8) of compute_common_reasoning
    MaxToken, MaxTruth, MaxFlags  \* of SpanMetrics

ASSUME RewardAssumption ==
    /\ NJudges \in Nat /\ NPRMs \in Nat
    /\ MaxRetries \in Nat \ {0} /\ MaxRounds \in Nat \ {0}
    /\ {MaxToken, MaxTruth, MaxFlags} \subseteq Nat

\* Kinds of data_source that adaptive_comput_score tells apart.
ScoreSources == {"vstar", "vstar_test", "chart"}
ReasonSources == {"math", "math_test"}
TestSources == {"vstar_test", "math_test"}
Sources == ScoreSources \cup ReasonSources \cup {"critic", "unknown"}

VARIABLES
    judges,     \* endpoints in the order of judge_model_name_list
    prms,       \* endpoints in the order of process_reward_model_name_list
    pc,
    source,     \* kind of data_source
    answer,     \* the response's answer: "none", "short" or "long"
    wellFormed, \* check_format_by_regex_whitespace
    verify,     \* verify_process
    client,     \* the endpoint in use, 0 before one is drawn
    attempt,    \* turn of the retry loop
    chat,       \* what the last request did: "unbound" until one returned
    response,   \* what was read in the judge's text, "unbound" if nothing
    acc,        \* acc_reward
    score,      \* final_reward
    spans,      \* what process_verify found, "absent" before
    mpc, truth, flags, next, matched, hits,   \* of SpanMetrics
    todo, merged, truthParts, flagParts, at, shared, union

clientVars == <<judges, prms>>
taskVars == <<source, answer, wellFormed, verify>>
loopVars == <<client, attempt, chat, response>>
resultVars == <<acc, score, spans>>
metricsVars == <<mpc, truth, flags, next, matched, hits, todo, merged, truthParts, flagParts,
                 at, shared, union>>
vars == <<clientVars, pc, taskVars, loopVars, resultVars, metricsVars>>

Metrics == INSTANCE SpanMetrics WITH pc <- mpc

\* Rewards of 1.0 and 0.0.
One == <<1, 1>>
Zero == <<0, 1>>

Init ==
    /\ judges = <<>> /\ prms = <<>>
    /\ pc = "import"
    /\ source \in Sources
    /\ answer \in IF source = "critic" THEN {"none"} ELSE {"none", "short", "long"}
    /\ wellFormed \in BOOLEAN
    /\ verify \in BOOLEAN
    /\ client = 0 /\ attempt = 0
    /\ chat = "unbound" /\ response = "unbound"
    /\ acc = Zero /\ score = Zero /\ spans = "absent"
    /\ Metrics!Init

-----------------------------------------------------------------------------

Lists(n) == UNION {[1..m -> 1..n] : m \in 0..n}

NamesPrepended(n) ==
    {names \in Lists(n) : \A i, j \in DOMAIN names : i < j => names[j] < names[i]}

\* initialize_clients makes a client for each of n endpoints, and appends the
\* name of a model for those that answer, whichever they are: the two lists
\* need not have one length, but they are in one order.
ModelNames(n) ==
    {names \in Lists(n) : \A i, j \in DOMAIN names : i < j => names[i] < names[j]}

InitializeClients ==
    /\ pc = "import"
    /\ judges' \in ModelNames(NJudges)
    /\ prms' \in ModelNames(NPRMs)
    /\ pc' = "call"
    /\ UNCHANGED <<taskVars, loopVars, resultVars, metricsVars>>

Raise == pc' = "raised"

RaiseUnchanged == Raise /\ UNCHANGED <<clientVars, taskVars, loopVars, resultVars, metricsVars>>

\* client_idx is drawn among the clients and used in both lists: randint
\* raises on no client, the second list on an index past its end.
Draw(n, names, place) ==
    \/ \E c \in 1..n :
         /\ c <= Len(names)
         /\ client' = c /\ attempt' = 1
         /\ chat' = "unbound" /\ response' = "unbound"
         /\ pc' = place
         /\ UNCHANGED <<clientVars, taskVars, resultVars, metricsVars>>
    \/ /\ n = 0 \/ \E c \in 1..n : c > Len(names)
       /\ RaiseUnchanged

\* The score is given without a judge.
ScoreWithout(a) ==
    /\ acc' = a
    /\ score' = IF wellFormed THEN a ELSE Zero
    /\ pc' = "scored"
    /\ UNCHANGED <<clientVars, taskVars, loopVars, spans, metricsVars>>

CallComputeScore ==
    /\ pc = "call"
    /\ source \in ScoreSources
    /\ Draw(NJudges, judges, "judge")

CallCommonReasoning ==
    /\ pc = "call"
    /\ source \in ReasonSources
    /\ IF answer = "short" THEN Draw(NJudges, judges, "reason") ELSE ScoreWithout(Zero)

\* evaluate_process_verification asks no model: the critic's answer is the
\* list of phrases it flags.
CallEvaluate ==
    /\ pc = "call"
    /\ source = "critic"
    /\ Metrics!Call
    /\ pc' = "metrics"
    /\ UNCHANGED <<clientVars, taskVars, loopVars, resultVars>>

CompareSpans ==
    /\ pc = "metrics"
    /\ Metrics!Compare
    /\ UNCHANGED <<clientVars, pc, taskVars, loopVars, resultVars>>

Evaluate ==
    /\ pc = "metrics"
    /\ mpc \in {"trivial", "done"}
    /\ ScoreWithout(Metrics!MacroIoU)

CallUnknown == pc = "call" /\ source = "unknown" /\ RaiseUnchanged

-----------------------------------------------------------------------------
(* compute_score: up to MAX_RETRIES requests to the judge.                 *)

CanRetry == attempt < MaxRetries

JudgeRetryable ==
    /\ pc = "judge"
    /\ IF CanRetry
       THEN attempt' = attempt + 1 /\ UNCHANGED pc
       ELSE pc' = "judged" /\ UNCHANGED attempt
    /\ UNCHANGED <<clientVars, taskVars, client, chat, response, resultVars, metricsVars>>

\* Any other exception breaks the loop.
JudgeFatal ==
    /\ pc = "judge"
    /\ pc' = "judged"
    /\ UNCHANGED <<clientVars, taskVars, client, attempt, chat, response, resultVars, metricsVars>>

\* The request returns; .strip() on an absent text is such an exception.
JudgeReturns ==
    /\ pc = "judge"
    /\ chat' = "bound"
    /\ \E text \in {"yes", "no", "junk", "absent"} :
         /\ response' = IF text = "absent" THEN "unbound" ELSE text
    /\ pc' = "judged"
    /\ UNCHANGED <<clientVars, taskVars, client, attempt, resultVars, metricsVars>>

UnboundIsWrong == FALSE

\* The handler of an unbound response formats chat_response, and raises
\* itself when no request returned.
HandlerRaises == response = "unbound" /\ chat = "unbound"

\* An answer of 1000 characters or more is worth nothing.
JudgedAcc == IF response = "yes" /\ answer # "long" THEN One ELSE Zero

ReadJudgement ==
    /\ pc = "judged"
    /\ IF HandlerRaises THEN RaiseUnchanged ELSE ScoreWithout(JudgedAcc)

-----------------------------------------------------------------------------
(* compute_common_reasoning: requests until a text can be read; nothing is *)
(* caught.                                                                 *)

ReasonReturns ==
    /\ pc = "reason"
    /\ chat' = "bound"
    /\ \E text \in {"yes", "no", "junk"} :
         /\ response' = text
         /\ IF text = "junk" /\ attempt < MaxRounds
            THEN attempt' = attempt + 1 /\ UNCHANGED <<pc, acc, score>>
            ELSE /\ acc' = IF text = "yes" THEN One ELSE Zero
                 /\ score' = IF text = "yes" /\ wellFormed THEN One ELSE Zero
                 /\ pc' = "scored"
                 /\ UNCHANGED attempt
    /\ UNCHANGED <<clientVars, taskVars, client, spans, metricsVars>>

ReasonRaises ==
    /\ pc = "reason"
    /\ Raise
    /\ UNCHANGED <<clientVars, taskVars, client, attempt, chat, response, resultVars, metricsVars>>

-----------------------------------------------------------------------------
(* process_verify, if it is asked for.                                     *)

Return(found) ==
    /\ pc' = "done"
    /\ spans' = found
    /\ UNCHANGED <<clientVars, taskVars, acc, score, metricsVars>>

NothingUnlessVerified == "absent"

\* positions of a task whose spans are not asked for: an empty list in
\* training, none at all in a test set.
UnverifiedSpans == IF source \in TestSources THEN "absent" ELSE "none"

SkipVerify ==
    /\ pc = "scored"
    /\ ~verify \/ source # "vstar"
    /\ Return(IF verify THEN UnverifiedSpans ELSE "absent")
    /\ UNCHANGED loopVars

\* The images are read first, then a client is drawn.
CallProcessVerify ==
    /\ pc = "scored"
    /\ verify /\ source = "vstar"
    /\ Draw(NPRMs, prms, "prm") \/ RaiseUnchanged

\* Before the last attempt the handler calls time.sleep, but the module does
\* not import time; after the last one chat_response is still unbound.
PRMRetryable ==
    /\ pc = "prm"
    /\ Raise
    /\ UNCHANGED <<clientVars, taskVars, client, attempt, chat, response, resultVars, metricsVars>>

\* The loop is left, and the test of chat_response raises: it is unbound.
PRMFatal ==
    /\ pc = "prm"
    /\ Raise
    /\ UNCHANGED <<clientVars, taskVars, client, attempt, chat, response, resultVars, metricsVars>>

\* Without choices the message names last_exception, which is unbound.
PRMNoChoices ==
    /\ pc = "prm"
    /\ chat' = "bound"
    /\ Raise
    /\ UNCHANGED <<clientVars, taskVars, client, attempt, response, resultVars, metricsVars>>

\* Spans that are not in the response are dropped, an absent or unreadable
\* text flags nothing.
PRMReturns ==
    /\ pc = "prm"
    /\ chat' = "bound"
    /\ \E found \in {"none", "some"} : Return(found)
    /\ UNCHANGED <<client, attempt, response>>

Call == CallComputeScore \/ CallCommonReasoning \/ CallUnknown
Critic == CallEvaluate \/ CompareSpans \/ Evaluate
Judge == JudgeRetryable \/ JudgeFatal \/ JudgeReturns \/ ReadJudgement
Reason == ReasonReturns \/ ReasonRaises
Verify == SkipVerify \/ CallProcessVerify \/ PRMRetryable \/ PRMFatal
          \/ PRMNoChoices \/ PRMReturns

Next == InitializeClients \/ Call \/ Critic \/ Judge \/ Reason \/ Verify

Spec == Init /\ [][Next]_vars

-----------------------------------------------------------------------------
(* Properties.                                                             *)

Judged ==
    \/ source \in ScoreSources
    \/ source \in ReasonSources /\ answer = "short"

\* A judge that cannot be reached never counts as a wrong answer: the task
\* raises, and the reward manager tries it again.
OutageIsNeverAScore ==
    [][pc' = "scored" /\ Judged => chat' = "bound"]_vars

\* A client asks for the model of another endpoint only if an endpoint that
\* is configured before it, or itself, did not report a model.
OwnModelUnlessOneIsDown ==
    /\ pc \in {"judge", "reason"} /\ judges[client] # client =>
         \E e \in 1..client : \A i \in DOMAIN judges : judges[i] # e
    /\ pc = "prm" /\ prms[client] # client =>
         \E e \in 1..client : \A i \in DOMAIN prms : prms[i] # e

\* The reward of a critic task is the share of tokens on which policy and
\* annotation agree: however spans overlap, touch, repeat or are empty, none
\* counts twice.  With no token on either side only two empty lists agree.
MacroIoUIsJaccard ==
    source = "critic" /\ pc \in {"scored", "done"} =>
        LET both == Cardinality(Metrics!TokensOf(truth) \cap Metrics!TokensOf(flags))
            either == Cardinality(Metrics!TokensOf(truth) \cup Metrics!TokensOf(flags))
        IN  IF either = 0
            THEN acc = IF truth = <<>> /\ flags = <<>> THEN One ELSE Zero
            ELSE acc[2] > 0 /\ acc[1] * either = both * acc[2]

\* In training every task that returns has a list of spans, if only an empty
\* one: the reward manager pads these lists to one shape, entry by entry.
SpansInTraining ==
    pc = "done" => ((spans # "absent") <=> (verify /\ source \notin TestSources))

=============================================================================
