----------------------------- MODULE PenaltyMask -----------------------------
(***************************************************************************)
(* From the spans of a batch to its advantages: pad_nested_list (verl/     *)
(* workers/reward_manager/trm.py) makes the ragged lists rectangular,      *)
(* create_penalty_mask_vectorized (verl/trainer/ppo/ray_trainer.py) turns  *)
(* them into a mask, and compute_TRM_outcome_advantage (verl/trainer/ppo/  *)
(* core_algos.py) lowers the group-relative advantage under the mask.      *)
(* Every row has its list of spans; TRMTrainStep is about rows without.    *)
(*                                                                         *)
(* Abstracted: an advantage is kept as an integer.  The deviation from the *)
(* mean of the group is multiplied by the group's size, and the division   *)
(* by std + epsilon, one positive factor for the whole group, is left out; *)
(* penalty_percentage is the fraction Penalty / Unit.                      *)
(***************************************************************************)
EXTENDS Integers, Sequences, FiniteSets, FiniteSetsExt, SequencesExt

CONSTANTS
    NRows,      \* responses in the batch
    RespLen,    \* width of the response tensor
    MaxToken,   \* bound: a span may end beyond the tensor, up to here
    MaxSpans,   \* bound: spans of a response
    Penalty,    \* penalty_percentage = Penalty / Unit
    Unit

Rows == 1..NRows
Tokens == 0..(RespLen - 1)
Spans == {s \in (0..MaxToken) \X (0..MaxToken) : s[1] <= s[2]}
Filler == -100

VARIABLES
    spans,       \* positions, as process_verify returned them
    valid,       \* length of each response; the rest of the row is padding
    reward,      \* the score of each response
    uid,         \* the prompt of each response
    pc,
    positions,   \* the padded lists
    mask,        \* penalty_mask
    advantages

inputVars == <<spans, valid, reward, uid>>
vars == <<inputVars, pc, positions, mask, advantages>>

ZeroRows == [i \in Rows |-> [t \in Tokens |-> 0]]

Init ==
    /\ spans \in [Rows -> BoundedSeq(Spans, MaxSpans)]
    /\ valid \in [Rows -> 1..RespLen]
    /\ reward \in [Rows -> {0, 1}]
    /\ uid \in {[i \in Rows |-> 1], [i \in Rows |-> i]}
    /\ pc = "pad"
    /\ positions = spans
    /\ mask = ZeroRows
    /\ advantages = ZeroRows

-----------------------------------------------------------------------------

\* target_shape of the second level: the longest list.
Width == Max({Len(spans[i]) : i \in Rows})

\* pad_nested_list: every list gets that many spans; the fillers are spans of
\* fillers, as every span has two numbers.
Pad ==
    /\ pc = "pad"
    /\ positions' = [i \in Rows |->
         [k \in 1..Width |-> IF k <= Len(spans[i]) THEN spans[i][k] ELSE <<Filler, Filler>>]]
    /\ pc' = "mask"
    /\ UNCHANGED <<inputVars, mask, advantages>>

InclusiveEnd(end) == end

LastToken(end) == end - 1

\* The columns one span marks.
Columns(region) ==
    IF region[1] = Filler \/ region[2] = Filler \/ region[1] >= RespLen
    THEN {}
    ELSE region[1]..Min({LastToken(region[2]), RespLen - 1})

CreatePenaltyMask ==
    /\ pc = "mask"
    /\ mask' = [i \in Rows |-> [t \in Tokens |->
         IF \E k \in DOMAIN positions[i] : t \in Columns(positions[i][k]) THEN 1 ELSE 0]]
    /\ pc' = "advantage"
    /\ UNCHANGED <<inputVars, positions, advantages>>

Group(i) == {j \in Rows : uid[j] = uid[i]}

\* The mean of the group, times its size, is how many of its rewards are 1; a
\* response alone is compared to 0.
GroupMean(i) ==
    IF Cardinality(Group(i)) = 1 THEN 0
    ELSE Cardinality({j \in Group(i) : reward[j] = 1})

Centred(i) == reward[i] * Cardinality(Group(i)) - GroupMean(i)

Abs(n) == IF n < 0 THEN -n ELSE n

ScaledDown(a) == Unit * a - Penalty * a

PercentNotFraction(a) == Unit * a - Unit * Unit * Penalty * Abs(a)

\* Eq. 3: advantage - percentage * |advantage|, over Unit.
Penalised(a) == Unit * a - Penalty * Abs(a)

ResponseMask(i, t) == IF t < valid[i] THEN 1 ELSE 0

ComputeAdvantage ==
    /\ pc = "advantage"
    /\ advantages' = [i \in Rows |-> [t \in Tokens |->
         LET a == Centred(i) * ResponseMask(i, t) IN
         IF mask[i][t] = 1 THEN Penalised(a) ELSE Unit * a]]
    /\ pc' = "done"
    /\ UNCHANGED <<inputVars, positions, mask>>

Next == Pad \/ CreatePenaltyMask \/ ComputeAdvantage

Spec == Init /\ [][Next]_vars

-----------------------------------------------------------------------------
(* Properties.                                                             *)

Flagged(i, t) == \E k \in DOMAIN spans[i] : t \in spans[i][k][1]..(spans[i][k][2] - 1)

\* README.md:21-24, between responses: of two responses to one prompt with the
\* same reward, a flagged token never gains on an unflagged one, and loses
\* whenever rewards in the group differ; padding gets nothing.
FlaggedNeverGains ==
    pc = "done" =>
        /\ \A i, j \in Rows : uid[i] = uid[j] /\ reward[i] = reward[j] =>
             \A t \in 0..(valid[i] - 1), u \in 0..(valid[j] - 1) :
                /\ Flagged(i, t) = Flagged(j, u) => advantages[i][t] = advantages[j][u]
                /\ Flagged(i, t) /\ ~Flagged(j, u) =>
                     \/ advantages[i][t] < advantages[j][u]
                     \/ Penalty = 0 \/ advantages[j][u] = 0
        /\ \A i \in Rows : \A t \in Tokens : t >= valid[i] => advantages[i][t] = 0

\* A penalty never turns a good response's token into a bad one, or against
\* the order of rewards: in a group a flagged token of a better response does
\* not fall below any token of a worse one.
OrderOfRewardsKept ==
    pc = "done" =>
        \A i, j \in Rows : uid[i] = uid[j] /\ reward[i] > reward[j] =>
            \A t \in 0..(valid[i] - 1), u \in 0..(valid[j] - 1) :
                advantages[i][t] >= advantages[j][u]
=============================================================================
