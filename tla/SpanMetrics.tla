----------------------------- MODULE SpanMetrics -----------------------------
(***************************************************************************)
(* The reward of the critic task: compute_interval_set_metrics (verl/      *)
(* utils/reward_score/hallu_token_reward_vstar.py) compares the token      *)
(* spans a policy flags with the annotated ones.  A greedy match counts    *)
(* true positives; then both lists are merged and their intersection over  *)
(* union is the reward.  HalluReward calls it for its critic tasks.        *)
(*                                                                         *)
(* Abstracted: a quotient is a pair of natural numbers, compared by        *)
(* cross-multiplication; iou_threshold is 1/2.                             *)
(***************************************************************************)
EXTENDS Integers, Sequences, FiniteSets, FiniteSetsExt, SequencesExt

CONSTANTS
    MaxToken, \* bound: spans end here at the latest
    MaxTruth, \* bound: annotated spans
    MaxFlags  \* bound: flagged spans

Spans == {s \in (0..MaxToken) \X (0..MaxToken) : s[1] <= s[2]}

VARIABLES
    truth,   \* ground_truth_intervals
    flags,   \* predicted_intervals
    pc,      \* "idle" before the call
    next,    \* the flagged span to be matched
    matched, \* annotated spans that are matched
    hits,    \* true_positives
    todo,    \* spans of the sorted list that are left to merge
    merged,  \* the list that is being merged
    truthParts, \* merged_gt
    flagParts,  \* merged_pred
    at,      \* places of the loops over the two merged lists
    shared,  \* total_intersection
    union    \* total_union

inputVars == <<truth, flags>>
matchVars == <<next, matched, hits>>
mergeVars == <<todo, merged, truthParts, flagParts>>
sumVars == <<at, shared, union>>
vars == <<inputVars, pc, matchVars, mergeVars, sumVars>>

Init ==
    /\ truth = <<>> /\ flags = <<>>
    /\ pc = "idle"
    /\ next = 1 /\ matched = {} /\ hits = 0
    /\ todo = <<>> /\ merged = <<>>
    /\ truthParts = <<>> /\ flagParts = <<>>
    /\ at = <<1, 1>> /\ shared = 0 /\ union = 0

-----------------------------------------------------------------------------

Length(s) == s[2] - s[1]

\* The length the two spans have in common.
Intersection(a, b) == Max({0, Min({a[2], b[2]}) - Max({a[1], b[1]})})

\* _calculate_single_iou as <<numerator, denominator>>.
IoU(a, b) ==
    LET common == Intersection(a, b) IN
    IF common = 0 THEN <<0, 1>> ELSE <<common, Length(a) + Length(b) - common>>

Less(q, r) == q[1] * r[2] < r[1] * q[2]

\* The call, on the ranges of the phrases that were found.  Nothing is compared
\* if a list is empty: the metrics are constants.
Call ==
    /\ pc = "idle"
    /\ truth' \in BoundedSeq(Spans, MaxTruth)
    /\ flags' \in BoundedSeq(Spans, MaxFlags)
    /\ pc' = IF truth' = <<>> \/ flags' = <<>> THEN "trivial" ELSE "match"
    /\ UNCHANGED <<matchVars, mergeVars, sumVars>>

Better(f, best, k) ==
    IF Less(IF best = 0 THEN <<0, 1>> ELSE IoU(f, truth[best]), IoU(f, truth[k]))
    THEN k ELSE best

\* The first annotated span of the largest positive IoU, matched or not;
\* 0 if there is none.
BestFor(f) ==
    FoldLeft(LAMBDA best, k : Better(f, best, k), 0, [k \in DOMAIN truth |-> k])

StillFree(k) == k \notin matched

Match ==
    /\ pc = "match"
    /\ next <= Len(flags)
    /\ LET k == BestFor(flags[next]) IN
       IF k # 0 /\ ~Less(IoU(flags[next], truth[k]), <<1, 2>>) /\ StillFree(k)
       THEN matched' = matched \cup {k} /\ hits' = hits + 1
       ELSE UNCHANGED <<matched, hits>>
    /\ next' = next + 1
    /\ UNCHANGED <<inputVars, pc, mergeVars, sumVars>>

-----------------------------------------------------------------------------
(* _merge_intervals, for one list and then for the other.                  *)

\* sort(key=lambda x: x[0]), which is stable.
ByStart(list) ==
    {[k \in DOMAIN list |-> list[p[k]]] : p \in
        {q \in Bijection(DOMAIN list, DOMAIN list) :
           \A i, j \in DOMAIN list : i < j =>
              \/ list[q[i]][1] < list[q[j]][1]
              \/ list[q[i]][1] = list[q[j]][1] /\ q[i] < q[j]}}

MatchEnds ==
    /\ pc = "match"
    /\ next > Len(flags)
    /\ todo' \in ByStart(truth)
    /\ pc' = "mergeTruth"
    /\ UNCHANGED <<inputVars, matchVars, merged, truthParts, flagParts, sumVars>>

LastOf(a, b) == b

\* The end of two merged spans.
Later(a, b) == Max({a, b})

\* One turn of the loop: the span joins the last one, or follows it.
Merge(list, s) ==
    IF list # <<>> /\ s[1] <= list[Len(list)][2]
    THEN [list EXCEPT ![Len(list)] = <<@[1], Later(@[2], s[2])>>]
    ELSE Append(list, s)

MergeTurn ==
    /\ pc \in {"mergeTruth", "mergeFlags"}
    /\ todo # <<>>
    /\ merged' = Merge(merged, Head(todo))
    /\ todo' = Tail(todo)
    /\ UNCHANGED <<inputVars, pc, matchVars, truthParts, flagParts, sumVars>>

MergeTruthEnds ==
    /\ pc = "mergeTruth"
    /\ todo = <<>>
    /\ truthParts' = merged
    /\ merged' = <<>>
    /\ todo' \in ByStart(flags)
    /\ pc' = "mergeFlags"
    /\ UNCHANGED <<inputVars, matchVars, flagParts, sumVars>>

MergeFlagsEnds ==
    /\ pc = "mergeFlags"
    /\ todo = <<>>
    /\ flagParts' = merged
    /\ pc' = "intersect"
    /\ UNCHANGED <<inputVars, matchVars, todo, merged, truthParts, sumVars>>

-----------------------------------------------------------------------------
(* The macro IoU of the merged lists.                                      *)

\* The two nested loops; neither list is empty.
IntersectTurn ==
    /\ pc = "intersect"
    /\ at[1] <= Len(truthParts)
    /\ shared' = shared + Intersection(truthParts[at[1]], flagParts[at[2]])
    /\ at' = IF at[2] < Len(flagParts) THEN <<at[1], at[2] + 1>> ELSE <<at[1] + 1, 1>>
    /\ UNCHANGED <<inputVars, pc, matchVars, mergeVars, union>>

IntersectEnds ==
    /\ pc = "intersect"
    /\ at[1] > Len(truthParts)
    /\ at' = <<1, 1>>
    /\ pc' = "sum"
    /\ UNCHANGED <<inputVars, matchVars, mergeVars, shared, union>>

\* The sums of the lengths of the parts, one list after the other.
SumTruth ==
    /\ pc = "sum"
    /\ at[1] <= Len(truthParts)
    /\ union' = union + Length(truthParts[at[1]])
    /\ at' = <<at[1] + 1, at[2]>>
    /\ UNCHANGED <<inputVars, pc, matchVars, mergeVars, shared>>

SumFlags ==
    /\ pc = "sum"
    /\ at[1] > Len(truthParts) /\ at[2] <= Len(flagParts)
    /\ union' = union + Length(flagParts[at[2]])
    /\ at' = <<at[1], at[2] + 1>>
    /\ UNCHANGED <<inputVars, pc, matchVars, mergeVars, shared>>

SumEnds ==
    /\ pc = "sum"
    /\ at[1] > Len(truthParts) /\ at[2] > Len(flagParts)
    /\ union' = union - shared
    /\ pc' = "done"
    /\ UNCHANGED <<inputVars, matchVars, mergeVars, at, shared>>

\* macro_iou, as a quotient.
MacroIoU ==
    IF pc = "trivial"
    THEN IF truth = <<>> /\ flags = <<>> THEN <<1, 1>> ELSE <<0, 1>>
    ELSE IF union > 0 THEN <<shared, union>>
         ELSE IF shared > 0 THEN <<1, 1>> ELSE <<0, 1>>

Merging == MergeTurn \/ MergeTruthEnds \/ MergeFlagsEnds
Summing == IntersectTurn \/ IntersectEnds \/ SumTruth \/ SumFlags \/ SumEnds

\* The steps after the call.
Compare == Match \/ MatchEnds \/ Merging \/ Summing

Next == Call \/ Compare

Spec == Init /\ [][Next]_vars

\* The reference: the tokens of a list of spans.
TokensOf(list) == UNION {list[k][1]..(list[k][2] - 1) : k \in DOMAIN list}
=============================================================================
