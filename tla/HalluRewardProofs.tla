--------------------------- MODULE HalluRewardProofs ---------------------------
(***************************************************************************)
(* Proofs about HalluReward: for any number of endpoints, retries and      *)
(* rounds, an outage of the judge is never taken for its verdict, in       *)
(* training every task that returns has a list of spans, a client asks for *)
(* the model of another endpoint only after an outage at import, and the   *)
(* reward of a critic task is the Jaccard index of its tokens, for spans   *)
(* of any number and length.                                               *)
(*                                                                         *)
(* HInv says what each place of the control flow is reached with: a judge  *)
(* is only asked for the sources that have one, PERCEVAL only for a        *)
(* verified training task, and a text that was read came with a request    *)
(* that returned.                                                          *)
(***************************************************************************)
EXTENDS HalluReward, TLAPS, FiniteSetTheorems, WellFoundedInduction

HInv ==
    /\ source \in Sources
    /\ chat \in {"unbound", "bound"}
    /\ response # "unbound" => chat = "bound"
    /\ pc \in {"judge", "judged"} => source \in ScoreSources
    /\ pc = "reason" => source \in ReasonSources
    /\ pc = "prm" => verify /\ source = "vstar"
    /\ pc = "metrics" => source = "critic"
    /\ SpansInTraining

\* A task starts before its first request.
LEMMA InitHInv == Init => HInv
  BY DEF Init, HInv, SpansInTraining

\* A drawn client starts a fresh loop, in the place it was drawn for.
LEMMA DrawHInv ==
  ASSUME HInv, NEW n, NEW names, NEW place, Draw(n, names, place),
         place \in {"judge", "reason", "prm"},
         place = "judge" => source \in ScoreSources,
         place = "reason" => source \in ReasonSources,
         place = "prm" => verify /\ source = "vstar"
  PROVE  HInv'
  BY DEF HInv, SpansInTraining, Draw, RaiseUnchanged, Raise, taskVars, loopVars, resultVars

\* A score without a judge is not yet a result.
LEMMA ScoreHInv ==
  ASSUME HInv, NEW a, ScoreWithout(a) \/ RaiseUnchanged
  PROVE  HInv'
  BY DEF HInv, SpansInTraining, ScoreWithout, RaiseUnchanged, Raise, taskVars, loopVars,
         resultVars

\* The clients are made, and the task is called.
LEMMA CallHInv ==
  ASSUME HInv, InitializeClients \/ Call \/ Critic
  PROVE  HInv'
  <1>1. CASE InitializeClients
    BY <1>1 DEF InitializeClients, HInv, SpansInTraining, taskVars, loopVars, resultVars
  <1>2. CASE CallComputeScore
    BY <1>2, DrawHInv DEF CallComputeScore
  <1>3. CASE CallCommonReasoning
    BY <1>3, DrawHInv, ScoreHInv DEF CallCommonReasoning
  <1>4. CASE CallEvaluate \/ CompareSpans
    BY <1>4 DEF CallEvaluate, CompareSpans, HInv, SpansInTraining, taskVars, loopVars, resultVars
  <1>5. CASE CallUnknown
    BY <1>5, ScoreHInv DEF CallUnknown
  <1>6. CASE Evaluate
    BY <1>6, ScoreHInv DEF Evaluate
  <1> QED
    BY <1>1, <1>2, <1>3, <1>4, <1>5, <1>6 DEF Call, Critic

\* The judge's loops.
LEMMA JudgeHInv ==
  ASSUME HInv, Judge \/ Reason
  PROVE  HInv'
  <1>1. CASE JudgeRetryable \/ JudgeFatal \/ JudgeReturns
    BY <1>1 DEF JudgeRetryable, JudgeFatal, JudgeReturns, HInv, SpansInTraining, taskVars,
                resultVars
  <1>2. CASE ReadJudgement
    BY <1>2, ScoreHInv DEF ReadJudgement
  <1>3. CASE Reason
    BY <1>3 DEF Reason, ReasonReturns, ReasonRaises, Raise, HInv, SpansInTraining, taskVars,
                resultVars
  <1> QED
    BY <1>1, <1>2, <1>3 DEF Judge

\* What process_verify returns, or the list that stands for it.
LEMMA VerifyHInv ==
  ASSUME HInv, Verify
  PROVE  HInv'
  <1>1. CASE SkipVerify
    <2>1. /\ pc' = "done" /\ UNCHANGED <<taskVars, loopVars>>
          /\ spans' = IF verify THEN UnverifiedSpans ELSE "absent"
      BY <1>1 DEF SkipVerify, Return
    <2> QED
      BY <2>1 DEF HInv, SpansInTraining, UnverifiedSpans, taskVars, loopVars
  <1>2. CASE CallProcessVerify
    <2>1. CASE RaiseUnchanged
      BY <2>1, ScoreHInv
    <2>2. CASE Draw(NPRMs, prms, "prm")
      BY <1>2, <2>2, DrawHInv DEF CallProcessVerify
    <2> QED
      BY <1>2, <2>1, <2>2 DEF CallProcessVerify
  <1>3. CASE PRMRetryable \/ PRMFatal \/ PRMNoChoices
    BY <1>3 DEF PRMRetryable, PRMFatal, PRMNoChoices, Raise, HInv, SpansInTraining, taskVars,
                resultVars
  <1>4. CASE PRMReturns
    <2>1. /\ pc = "prm" /\ pc' = "done" /\ chat' = "bound" /\ response' = response
          /\ spans' \in {"none", "some"} /\ UNCHANGED taskVars
      BY <1>4 DEF PRMReturns, Return
    <2> QED
      BY <2>1 DEF HInv, SpansInTraining, TestSources, taskVars
  <1> QED
    BY <1>1, <1>2, <1>3, <1>4 DEF Verify

\* Every step of the task keeps the invariant.
LEMMA StepHInv == HInv /\ [Next]_vars => HInv'
  <1>1. ASSUME HInv, UNCHANGED vars PROVE HInv'
    BY <1>1 DEF HInv, SpansInTraining, vars, taskVars, loopVars, resultVars
  <1> QED
    BY <1>1, CallHInv, JudgeHInv, VerifyHInv DEF Next

-----------------------------------------------------------------------------

\* process_verify and the placeholders of adaptive_comput_score: a training
\* task that returns has a list of spans, a test task has none.
THEOREM TrainingHasSpans == Spec => []SpansInTraining
  <1>1. HInv => SpansInTraining
    BY DEF HInv
  <1> QED
    BY <1>1, InitHInv, StepHInv, PTL DEF Spec

\* compute_score and compute_common_reasoning: a task that has a judge is given
\* a score only when a request to the judge returned.
THEOREM OutageRaises == Spec => OutageIsNeverAScore
  <1> DEFINE A == pc' = "scored" /\ Judged => chat' = "bound"
  <1>1. HInv /\ [Next]_vars => [A]_vars
    <2> SUFFICES ASSUME HInv, Next, pc' = "scored", Judged PROVE chat' = "bound"
      BY DEF A
    <2>1. \/ CallCommonReasoning \/ Evaluate \/ ReadJudgement \/ ReasonReturns
      BY DEF Next, InitializeClients, Call, Critic, CallEvaluate, CompareSpans, CallComputeScore,
             CallUnknown, Judge, JudgeRetryable,
             JudgeFatal, JudgeReturns, Reason, ReasonRaises, Verify, SkipVerify,
             CallProcessVerify, PRMRetryable, PRMFatal, PRMNoChoices, PRMReturns, Return, Draw,
             RaiseUnchanged, Raise
    <2>2. ~ CallCommonReasoning
      BY DEF CallCommonReasoning, Judged, ScoreSources, ReasonSources, Draw, RaiseUnchanged, Raise
    <2>3. CASE ReadJudgement
      BY <2>3 DEF ReadJudgement, HandlerRaises, HInv, ScoreWithout, RaiseUnchanged, Raise,
                  loopVars
    <2>4. CASE ReasonReturns
      BY <2>4 DEF ReasonReturns
    <2>5. CASE Evaluate
      <3>1. source = "critic" /\ source' = source
        BY <2>5 DEF Evaluate, ScoreWithout, taskVars, HInv
      <3> QED
        BY <3>1 DEF Judged, ScoreSources, ReasonSources
    <2> QED
      BY <2>1, <2>2, <2>3, <2>4, <2>5
  <1> QED
    BY <1>1, InitHInv, StepHInv, PTL DEF Spec, OutageIsNeverAScore

-----------------------------------------------------------------------------
(* Whose model a client asks for.  The names are in the order of the        *)
(* endpoints, so a name stands at its endpoint's place or before it, and it *)
(* moves before it only when an endpoint up to that place has no name.      *)

NatOrder == {p \in Nat \X Nat : p[1] < p[2]}

\* Every set of natural numbers has a least element.
LEMMA LeastNumber ==
  ASSUME NEW T \in SUBSET Nat, T # {}
  PROVE  \E x \in T : \A y \in T : x <= y
  <1>1. IsWellFoundedOn(NatOrder, Nat)
    BY NatLessThanWellFounded DEF NatOrder, OpToRel
  <1>2. PICK x \in T : \A y \in T : ~ (<<y, x>> \in NatOrder)
    BY <1>1, WFMin
  <1>3. ASSUME NEW y \in T PROVE x <= y
    <2>1. <<y, x>> \in Nat \X Nat /\ <<y, x>>[1] = y /\ <<y, x>>[2] = x
      OBVIOUS
    <2>2. ~ (y < x)
      BY <1>2, <2>1 DEF NatOrder
    <2> QED
      BY <2>2
  <1> QED
    BY <1>3

\* A list of names is a function on 1..m, and rises.
LEMMA NamesRise ==
  ASSUME NEW n \in Nat, NEW names \in ModelNames(n)
  PROVE  \E m \in 0..n :
           /\ names \in [1..m -> 1..n] /\ DOMAIN names = 1..m /\ Len(names) = m
           /\ \A i, j \in 1..m : i < j => names[i] < names[j]
  <1>1. PICK m \in 0..n : names \in [1..m -> 1..n]
    BY DEF ModelNames, Lists
  <1>2. DOMAIN names = 1..m
    BY <1>1
  <1>3. Len(names) = m
    <2>1. names \in Seq(1..n)
      BY <1>1
    <2> QED
      BY <1>2, <2>1
  <1> QED
    BY <1>1, <1>2, <1>3 DEF ModelNames

\* No name stands after its endpoint's place.
LEMMA NamesNotLate ==
  ASSUME NEW n \in Nat, NEW names \in ModelNames(n), NEW c \in DOMAIN names
  PROVE  names[c] >= c
  <1>1. PICK m \in 0..n :
           /\ names \in [1..m -> 1..n] /\ DOMAIN names = 1..m
           /\ \A i, j \in 1..m : i < j => names[i] < names[j]
    BY NamesRise
  <1> DEFINE Late == {k \in 1..m : names[k] < k}
  <1>2. SUFFICES ASSUME Late # {} PROVE FALSE
    BY <1>1
  <1>3. PICK k \in Late : \A y \in Late : k <= y
    <2>1. Late \in SUBSET Nat
      OBVIOUS
    <2> HIDE DEF Late
    <2> QED
      BY <1>2, <2>1, LeastNumber
  <1>4. k \in 1..m /\ names[k] < k /\ names[k] \in 1..n
    BY <1>1, <1>3
  <1>5. k - 1 \in 1..m /\ names[k - 1] \in 1..n
    BY <1>1, <1>4
  <1>6. names[k - 1] < names[k]
    BY <1>1, <1>4, <1>5
  <1>7. k - 1 \in Late
    BY <1>4, <1>5, <1>6
  <1> QED
    BY <1>3, <1>4, <1>7

\* When every endpoint up to a place has a name, that place has its own.
LEMMA NamesInPlace ==
  ASSUME NEW n \in Nat, NEW names \in ModelNames(n), NEW c \in DOMAIN names,
         \A e \in 1..c : \E i \in DOMAIN names : names[i] = e
  PROVE  names[c] = c
  <1>1. PICK m \in 0..n :
           /\ names \in [1..m -> 1..n] /\ DOMAIN names = 1..m
           /\ \A i, j \in 1..m : i < j => names[i] < names[j]
    BY NamesRise
  <1> DEFINE Moved == {k \in 1..c : names[k] # k}
  <1>c. c \in 1..m
    BY <1>1
  <1>2. SUFFICES ASSUME Moved # {} PROVE FALSE
    BY <1>c
  <1>3. PICK k \in Moved : \A y \in Moved : k <= y
    <2>1. Moved \in SUBSET Nat
      BY <1>c
    <2> HIDE DEF Moved
    <2> QED
      BY <1>2, <2>1, LeastNumber
  <1>4. k \in 1..c /\ k \in 1..m /\ names[k] # k /\ names[k] \in 1..n
    BY <1>1, <1>3, <1>c
  <1>5. names[k] > k
    <2>1. names[k] >= k
      BY <1>1, <1>4, NamesNotLate, Zenon
    <2> QED
      BY <1>4, <2>1
  <1>6. PICK i \in 1..m : names[i] = k
    BY <1>1, <1>4
  <1>7. CASE i < k
    <2>1. i \in 1..c /\ i \notin Moved
      BY <1>3, <1>4, <1>6, <1>7, <1>c
    <2> QED
      BY <1>6, <1>7, <2>1
  <1>8. CASE i > k
    <2>1. names[k] < names[i]
      BY <1>1, <1>4, <1>6, <1>8
    <2> QED
      BY <1>4, <1>5, <1>6, <2>1
  <1> QED
    BY <1>4, <1>5, <1>6, <1>7, <1>8

NamesInv ==
    /\ judges \in ModelNames(NJudges) /\ prms \in ModelNames(NPRMs)
    /\ pc \in {"judge", "judged", "reason"} => client \in DOMAIN judges
    /\ pc = "prm" => client \in DOMAIN prms

\* Before the import no name is known.
LEMMA InitNames == Init => NamesInv
  <1>1. ASSUME NEW n \in Nat PROVE <<>> \in ModelNames(n)
    <2>1. <<>> \in [1..0 -> 1..n] /\ DOMAIN <<>> = {} /\ 0 \in 0..n
      OBVIOUS
    <2> QED
      BY <2>1 DEF ModelNames, Lists
  <1> QED
    BY <1>1, RewardAssumption DEF Init, NamesInv

\* A client is drawn inside the list of names it is used with.
LEMMA DrawNames ==
  ASSUME NamesInv, NEW n \in Nat, NEW names, NEW place, Draw(n, names, place),
         \/ names = judges /\ n = NJudges /\ place \in {"judge", "reason"}
         \/ names = prms /\ n = NPRMs /\ place = "prm"
  PROVE  NamesInv'
  <1>1. CASE RaiseUnchanged
    BY <1>1 DEF NamesInv, RaiseUnchanged, Raise, clientVars, loopVars
  <1>2. ASSUME NEW c \in 1..n, c <= Len(names), client' = c, pc' = place, UNCHANGED clientVars
        PROVE NamesInv'
    <2>1. names \in ModelNames(n)
      BY DEF NamesInv
    <2>2. c \in DOMAIN names
      BY <1>2, <2>1, NamesRise
    <2> QED
      BY <1>2, <2>2 DEF NamesInv, clientVars
  <1> QED
    BY <1>1, <1>2 DEF Draw

\* Every step keeps the lists in order and the client inside its list.
LEMMA StepNames == NamesInv /\ [Next]_vars => NamesInv'
  <1> SUFFICES ASSUME NamesInv, [Next]_vars PROVE NamesInv'
    OBVIOUS
  <1> USE RewardAssumption
  <1>1. CASE UNCHANGED vars
    BY <1>1 DEF NamesInv, vars, clientVars, loopVars
  <1>2. CASE InitializeClients
    BY <1>2 DEF InitializeClients, NamesInv
  <1>3. CASE CallComputeScore
    BY <1>3, DrawNames DEF CallComputeScore
  <1>4. ASSUME NEW a, ScoreWithout(a) \/ RaiseUnchanged PROVE NamesInv'
    BY <1>4 DEF NamesInv, ScoreWithout, RaiseUnchanged, Raise, clientVars, loopVars
  <1>5. CASE CallCommonReasoning
    BY <1>4, <1>5, DrawNames DEF CallCommonReasoning
  <1>6. CASE Evaluate \/ CallUnknown \/ ReadJudgement
    BY <1>4, <1>6 DEF Evaluate, CallUnknown, ReadJudgement
  <1>c. CASE CallEvaluate \/ CompareSpans
    BY <1>c DEF CallEvaluate, CompareSpans, NamesInv, clientVars, loopVars
  <1>7. CASE JudgeRetryable \/ JudgeFatal \/ JudgeReturns
    BY <1>7 DEF JudgeRetryable, JudgeFatal, JudgeReturns, NamesInv, clientVars
  <1>8. CASE Reason
    BY <1>8 DEF Reason, ReasonReturns, ReasonRaises, Raise, NamesInv, clientVars
  <1>9. CASE CallProcessVerify
    BY <1>4, <1>9, DrawNames DEF CallProcessVerify
  <1>10. CASE SkipVerify \/ PRMRetryable \/ PRMFatal \/ PRMNoChoices \/ PRMReturns
    BY <1>10 DEF SkipVerify, PRMRetryable, PRMFatal, PRMNoChoices, PRMReturns, Return, Raise,
                 NamesInv, clientVars, loopVars
  <1> QED
    BY <1>1, <1>2, <1>3, <1>5, <1>6, <1>7, <1>8, <1>9, <1>10, <1>c
       DEF Next, Call, Critic, Judge, Verify

\* initialize_clients and the two draws of a client: the model a client asks
\* for is another endpoint's only if an endpoint up to its own reported none.
THEOREM WrongModelNeedsOutage == Spec => []OwnModelUnlessOneIsDown
  <1>1. NamesInv => OwnModelUnlessOneIsDown
    <2> SUFFICES ASSUME NamesInv PROVE OwnModelUnlessOneIsDown
      OBVIOUS
    <2>1. ASSUME NEW n \in Nat, NEW names \in ModelNames(n), NEW c \in DOMAIN names,
                 names[c] # c
          PROVE \E e \in 1..c : \A i \in DOMAIN names : names[i] # e
      BY <2>1, NamesInPlace
    <2>2. CASE pc \in {"judge", "reason"}
      BY <2>1, <2>2, RewardAssumption DEF NamesInv, OwnModelUnlessOneIsDown
    <2>3. CASE pc = "prm"
      BY <2>1, <2>3, RewardAssumption DEF NamesInv, OwnModelUnlessOneIsDown
    <2> QED
      BY <2>2, <2>3 DEF OwnModelUnlessOneIsDown
  <1> QED
    BY <1>1, InitNames, StepNames, PTL DEF Spec

-----------------------------------------------------------------------------
(* The critic task.  A span is the set of its tokens; each loop of         *)
(* SpanMetrics is at a place of its list, and what it has summed up is a   *)
(* fact about the tokens of the spans before that place.                   *)

Tokens(s) == s[1]..(s[2] - 1)

\* The tokens of the first n spans.
UpTo(list, n) == UNION {Tokens(list[k]) : k \in 1..n}

Sorted(list) == \A j, k \in 1..Len(list) : j < k => list[j][1] <= list[k][1]

\* Every span ends before the next one starts.
Separated(list) == \A j, k \in 1..Len(list) : j < k => list[j][2] < list[k][1]

\* _merge_intervals is at work on a list: no token is lost.
MergesTo(left, into, list) ==
    /\ left \in Seq(Metrics!Spans) /\ Sorted(left)
    /\ into \in Seq(Metrics!Spans) /\ Separated(into)
    /\ into # <<>> => \A k \in 1..Len(left) : into[Len(into)][1] <= left[k][1]
    /\ into = <<>> => left # <<>>
    /\ UpTo(into, Len(into)) \cup UpTo(left, Len(left)) = UpTo(list, Len(list))

\* What it returns.
IsMerged(parts, list) ==
    /\ parts \in Seq(Metrics!Spans) /\ Separated(parts) /\ parts # <<>>
    /\ UpTo(parts, Len(parts)) = UpTo(list, Len(list))

Both(parts, others) == UpTo(parts, Len(parts)) \cap UpTo(others, Len(others))
Either(parts, others) == UpTo(parts, Len(parts)) \cup UpTo(others, Len(others))

\* Tokens of the rows before this one, and of this row up to its place.
RowsBefore(parts, others, i) == UpTo(parts, i - 1) \cap UpTo(others, Len(others))
RowBefore(parts, others, i, j) == {t \in UpTo(others, j - 1) : t \in Tokens(parts[i])}

Intersects ==
    /\ at[1] \in 1..(Len(truthParts) + 1) /\ at[2] \in 1..Len(flagParts)
    /\ at[1] > Len(truthParts) => at[2] = 1
    /\ shared = Cardinality(RowsBefore(truthParts, flagParts, at[1]))
                 + Cardinality(RowBefore(truthParts, flagParts, at[1], at[2]))
    /\ union = 0

Sums ==
    /\ at[1] \in 1..(Len(truthParts) + 1) /\ at[2] \in 1..(Len(flagParts) + 1)
    /\ at[1] <= Len(truthParts) => at[2] = 1
    /\ shared = Cardinality(Both(truthParts, flagParts))
    /\ union = Cardinality(UpTo(truthParts, at[1] - 1)) + Cardinality(UpTo(flagParts, at[2] - 1))

Unsummed == at = <<1, 1>> /\ shared = 0 /\ union = 0

\* Nothing is compared if a list is empty.
GivenInv ==
    /\ truth \in Seq(Metrics!Spans) /\ flags \in Seq(Metrics!Spans)
    /\ mpc = "trivial" => truth = <<>> \/ flags = <<>>
    /\ mpc \notin {"idle", "trivial"} => truth # <<>> /\ flags # <<>>

MergeInv ==
    /\ mpc \in {"idle", "trivial", "match"} => merged = <<>>
    /\ mpc = "mergeTruth" => MergesTo(todo, merged, truth)
    /\ mpc = "mergeFlags" => MergesTo(todo, merged, flags)
    /\ mpc \in {"mergeFlags", "intersect", "sum", "done"} => IsMerged(truthParts, truth)
    /\ mpc \in {"intersect", "sum", "done"} => IsMerged(flagParts, flags)

SumInv ==
    /\ mpc \in {"idle", "trivial", "match", "mergeTruth", "mergeFlags"} => Unsummed
    /\ mpc = "intersect" => at \in Nat \X Nat /\ Intersects
    /\ mpc = "sum" => at \in Nat \X Nat /\ Sums
    /\ mpc = "done" => /\ shared = Cardinality(Both(truthParts, flagParts))
                       /\ union = Cardinality(Either(truthParts, flagParts))

MetricsInv ==
    /\ mpc \in {"idle", "trivial", "match", "mergeTruth", "mergeFlags", "intersect", "sum", "done"}
    /\ GivenInv
    /\ MergeInv
    /\ SumInv

CriticInv ==
    /\ MetricsInv
    /\ source = "critic" /\ pc \in {"scored", "done"} =>
         mpc \in {"trivial", "done"} /\ acc = Metrics!MacroIoU

LEMMA SpanType ==
  ASSUME NEW s \in Metrics!Spans
  PROVE  /\ s[1] \in 0..MaxToken /\ s[2] \in 0..MaxToken /\ s[1] <= s[2]
         /\ s = <<s[1], s[2]>>
         /\ Tokens(s) \subseteq 0..MaxToken
         /\ IsFiniteSet(Tokens(s)) /\ Cardinality(Tokens(s)) = Metrics!Length(s)
  <1> USE RewardAssumption
  <1>1. s[1] \in 0..MaxToken /\ s[2] \in 0..MaxToken /\ s[1] <= s[2] /\ s = <<s[1], s[2]>>
    BY DEF Metrics!Spans
  <1>2. Tokens(s) \subseteq 0..MaxToken
    BY <1>1 DEF Tokens
  <1>3. s[1] \in Int /\ s[2] - 1 \in Int
    BY <1>1
  <1>4. /\ IsFiniteSet(Tokens(s))
        /\ Cardinality(Tokens(s)) = IF s[1] > s[2] - 1 THEN 0 ELSE s[2] - 1 - s[1] + 1
    BY <1>3, FS_Interval DEF Tokens
  <1> QED
    BY <1>1, <1>2, <1>4 DEF Metrics!Length

LEMMA SpanMade ==
  ASSUME NEW a \in 0..MaxToken, NEW b \in 0..MaxToken, a <= b
  PROVE  <<a, b>> \in Metrics!Spans
  BY DEF Metrics!Spans

LEMMA GreaterOfTwo ==
  ASSUME NEW a \in Int, NEW b \in Int
  PROVE  Metrics!Max({a, b}) = IF a >= b THEN a ELSE b
  <1> DEFINE m == IF a >= b THEN a ELSE b
  <1>1. m \in {a, b} /\ \A y \in {a, b} : m >= y
    OBVIOUS
  <1>2. ASSUME NEW x \in {a, b}, \A y \in {a, b} : x >= y PROVE x = m
    BY <1>2
  <1> HIDE DEF m
  <1>3. Metrics!Max({a, b}) = m
    BY <1>1, <1>2 DEF Metrics!Max
  <1> QED
    BY <1>3 DEF m

LEMMA SmallerOfTwo ==
  ASSUME NEW a \in Int, NEW b \in Int
  PROVE  Metrics!Min({a, b}) = IF a <= b THEN a ELSE b
  <1> DEFINE m == IF a <= b THEN a ELSE b
  <1>1. m \in {a, b} /\ \A y \in {a, b} : m <= y
    OBVIOUS
  <1>2. ASSUME NEW x \in {a, b}, \A y \in {a, b} : x <= y PROVE x = m
    BY <1>2
  <1> HIDE DEF m
  <1>3. Metrics!Min({a, b}) = m
    BY <1>1, <1>2 DEF Metrics!Min
  <1> QED
    BY <1>3 DEF m

\* The length two spans have in common is the number of tokens they share.
LEMMA SharedTokens ==
  ASSUME NEW a \in Metrics!Spans, NEW b \in Metrics!Spans
  PROVE  Metrics!Intersection(a, b) = Cardinality(Tokens(a) \cap Tokens(b))
  <1> DEFINE lo == IF a[1] >= b[1] THEN a[1] ELSE b[1]
             hi == IF a[2] <= b[2] THEN a[2] ELSE b[2]
  <1>1. /\ a[1] \in Int /\ a[2] \in Int /\ b[1] \in Int /\ b[2] \in Int
    BY SpanType, RewardAssumption
  <1>2. Metrics!Max({a[1], b[1]}) = lo /\ Metrics!Min({a[2], b[2]}) = hi
    BY <1>1, GreaterOfTwo, SmallerOfTwo
  <1>3. lo \in Int /\ hi \in Int
    BY <1>1
  <1>4. Tokens(a) \cap Tokens(b) = lo..(hi - 1)
    BY <1>1 DEF Tokens
  <1> HIDE DEF lo, hi
  <1>5. Metrics!Intersection(a, b) = IF 0 >= hi - lo THEN 0 ELSE hi - lo
    <2>1. 0 \in Int /\ hi - lo \in Int
      BY <1>3
    <2> QED
      BY <1>2, <2>1, GreaterOfTwo DEF Metrics!Intersection
  <1>6. hi - 1 \in Int
    BY <1>3
  <1>7. Cardinality(lo..(hi - 1)) = IF lo > hi - 1 THEN 0 ELSE hi - 1 - lo + 1
    BY <1>3, <1>6, FS_Interval
  <1>8. Cardinality(Tokens(a) \cap Tokens(b)) = Cardinality(lo..(hi - 1))
    BY <1>4, Zenon
  <1> QED
    BY <1>3, <1>5, <1>7, <1>8

\* Two sets without a common element.
LEMMA Disjoint ==
  ASSUME NEW S, NEW T, IsFiniteSet(S), IsFiniteSet(T), S \cap T = {}
  PROVE  Cardinality(S \cup T) = Cardinality(S) + Cardinality(T)
  <1>1. Cardinality(S \cup T) = Cardinality(S) + Cardinality(T) - Cardinality(S \cap T)
    BY FS_Union
  <1>2. Cardinality(S) \in Nat /\ Cardinality(T) \in Nat /\ Cardinality({}) = 0
    BY FS_CardinalityType, FS_EmptySet
  <1>3. Cardinality(S \cap T) = 0
    BY <1>2, Zenon
  <1> QED
    BY <1>1, <1>2, <1>3

LEMMA UpToNone ==
  ASSUME NEW list
  PROVE  UpTo(list, 0) = {}
  BY DEF UpTo

LEMMA UpToNext ==
  ASSUME NEW list, NEW n \in Nat
  PROVE  UpTo(list, n + 1) = UpTo(list, n) \cup Tokens(list[n + 1])
  <1>1. 1..(n + 1) = (1..n) \cup {n + 1}
    OBVIOUS
  <1> QED
    BY <1>1, Zenon DEF UpTo

LEMMA UpToFinite ==
  ASSUME NEW list \in Seq(Metrics!Spans), NEW n \in Nat, n <= Len(list)
  PROVE  /\ UpTo(list, n) \subseteq 0..MaxToken
         /\ IsFiniteSet(UpTo(list, n))
         /\ Cardinality(UpTo(list, n)) \in Nat
  <1>1. \A k \in 1..n : list[k] \in Metrics!Spans
    OBVIOUS
  <1>2. \A k \in 1..n : Tokens(list[k]) \subseteq 0..MaxToken
    BY <1>1, SpanType, Zenon
  <1>3. UpTo(list, n) \subseteq 0..MaxToken
    BY <1>2, Zenon DEF UpTo
  <1>4. IsFiniteSet(0..MaxToken)
    <2>1. 0 \in Int /\ MaxToken \in Int
      BY RewardAssumption
    <2> QED
      BY <2>1, FS_Interval
  <1> QED
    BY <1>3, <1>4, FS_Subset, FS_CardinalityType, Zenon

\* The reference's tokens of a list are those of all its spans.
LEMMA AllTokens ==
  ASSUME NEW list \in Seq(Metrics!Spans)
  PROVE  Metrics!TokensOf(list) = UpTo(list, Len(list))
  <1>1. DOMAIN list = 1..Len(list)
    OBVIOUS
  <1> QED
    BY <1>1, Zenon DEF Metrics!TokensOf, UpTo, Tokens

\* A span of a separated list shares no token with those before it.
LEMMA SeparateTokens ==
  ASSUME NEW list \in Seq(Metrics!Spans), Separated(list), NEW k \in 1..Len(list)
  PROVE  UpTo(list, k - 1) \cap Tokens(list[k]) = {}
  <1> SUFFICES ASSUME NEW j \in 1..(k - 1), NEW t \in Tokens(list[j]), t \in Tokens(list[k])
               PROVE  FALSE
    BY Zenon DEF UpTo
  <1>1. j \in 1..Len(list) /\ j < k
    OBVIOUS
  <1>2. list[j] \in Metrics!Spans /\ list[k] \in Metrics!Spans
    BY <1>1
  <1>3. list[j][2] < list[k][1]
    BY <1>1 DEF Separated
  <1>4. /\ list[j][1] \in 0..MaxToken /\ list[j][2] \in 0..MaxToken
        /\ list[k][1] \in 0..MaxToken /\ list[k][2] \in 0..MaxToken
    BY <1>2, SpanType
  <1>5. t \in list[j][1]..(list[j][2] - 1) /\ t \in list[k][1]..(list[k][2] - 1)
    BY Zenon DEF Tokens
  <1>6. /\ list[j][1] \in Int /\ list[j][2] \in Int /\ list[k][1] \in Int /\ list[k][2] \in Int
    BY <1>4, RewardAssumption
  <1> QED
    BY <1>3, <1>5, <1>6

\* _merge_intervals: sorting keeps the spans.
LEMMA SortedList ==
  ASSUME NEW list \in Seq(Metrics!Spans), NEW s \in Metrics!ByStart(list)
  PROVE  /\ s \in Seq(Metrics!Spans) /\ Len(s) = Len(list)
         /\ Sorted(s)
         /\ UpTo(s, Len(s)) = UpTo(list, Len(list))
  <1> DEFINE D == 1..Len(list)
  <1>1. DOMAIN list = D /\ Len(list) \in Nat /\ \A k \in D : list[k] \in Metrics!Spans
    OBVIOUS
  <1>2. PICK p \in Metrics!Bijection(D, D) :
           /\ s = [k \in D |-> list[p[k]]]
           /\ \A i, j \in D : i < j =>
                \/ list[p[i]][1] < list[p[j]][1]
                \/ list[p[i]][1] = list[p[j]][1] /\ p[i] < p[j]
    BY <1>1, Zenon DEF Metrics!ByStart
  <1>3. p \in [D -> D] /\ \A t \in D : \E k \in D : p[k] = t
    BY Zenon DEF Metrics!Bijection, Metrics!Injection, Metrics!Surjection
  <1>4. \A k \in D : s[k] = list[p[k]] /\ p[k] \in D
    BY <1>2, <1>3
  <1>5. s \in Seq(Metrics!Spans) /\ Len(s) = Len(list)
    <2>1. s \in [D -> Metrics!Spans]
      BY <1>1, <1>2, <1>4
    <2> QED
      BY <1>1, <2>1
  <1>6. Sorted(s)
    <2> SUFFICES ASSUME NEW i \in D, NEW j \in D, i < j PROVE s[i][1] <= s[j][1]
      BY <1>5 DEF Sorted
    <2>1. list[p[i]][1] \in 0..MaxToken /\ list[p[j]][1] \in 0..MaxToken
      BY <1>1, <1>4, SpanType
    <2>2. list[p[i]][1] < list[p[j]][1] \/ list[p[i]][1] = list[p[j]][1]
      BY <1>2
    <2>3. list[p[i]][1] <= list[p[j]][1]
      BY <2>1, <2>2, RewardAssumption
    <2> QED
      BY <1>4, <2>3
  <1>7. UpTo(s, Len(list)) = UpTo(list, Len(list))
    <2> HIDE DEF D
    <2>1. UNION {Tokens(s[k]) : k \in D} = UNION {Tokens(list[k]) : k \in D}
      <3> SUFFICES ASSUME NEW t
                   PROVE  (\E k \in D : t \in Tokens(s[k])) <=> \E k \in D : t \in Tokens(list[k])
        BY Zenon
      <3>1. ASSUME NEW k \in D, t \in Tokens(s[k]) PROVE \E j \in D : t \in Tokens(list[j])
        BY <1>4, <3>1, Zenon
      <3>2. ASSUME NEW k \in D, t \in Tokens(list[k]) PROVE \E j \in D : t \in Tokens(s[j])
        <4>1. PICK j \in D : p[j] = k
          BY <1>3, <3>2
        <4>2. s[j] = list[k]
          BY <1>4, <4>1
        <4> QED
          BY <3>2, <4>2, Zenon
      <3> QED
        BY <3>1, <3>2, Zenon
    <2> QED
      BY <2>1 DEF UpTo, D
  <1> QED
    BY <1>5, <1>6, <1>7

\* Tokens of a list and of the one longer by a span.
LEMMA OneSpanMore ==
  ASSUME NEW list \in Seq(Metrics!Spans), NEW s \in Metrics!Spans
  PROVE  /\ Append(list, s) \in Seq(Metrics!Spans) /\ Len(Append(list, s)) = Len(list) + 1
         /\ \A k \in 1..Len(list) : Append(list, s)[k] = list[k]
         /\ Append(list, s)[Len(list) + 1] = s
         /\ UpTo(Append(list, s), Len(list) + 1) = UpTo(list, Len(list)) \cup Tokens(s)
  <1> DEFINE longer == Append(list, s)
  <1>1. /\ longer \in Seq(Metrics!Spans) /\ Len(longer) = Len(list) + 1
        /\ \A k \in 1..Len(list) : longer[k] = list[k]
        /\ longer[Len(list) + 1] = s
        /\ Len(list) \in Nat
    OBVIOUS
  <1> HIDE DEF longer
  <1>2. UpTo(longer, Len(list)) = UpTo(list, Len(list))
    BY <1>1, Zenon DEF UpTo
  <1>3. UpTo(longer, Len(list) + 1) = UpTo(longer, Len(list)) \cup Tokens(s)
    BY <1>1, UpToNext
  <1>4. UpTo(longer, Len(list) + 1) = UpTo(list, Len(list)) \cup Tokens(s)
    BY <1>2, <1>3
  <1> QED
    BY <1>1, <1>4 DEF longer

\* The last span of a list is replaced.
LastIs(new, list, s) ==
    /\ new \in Seq(Metrics!Spans) /\ Len(new) = Len(list) /\ Len(list) \in Nat \ {0}
    /\ \A k \in 1..(Len(list) - 1) : new[k] = list[k]
    /\ new[Len(list)] = s
    /\ UpTo(list, Len(list)) = UpTo(list, Len(list) - 1) \cup Tokens(list[Len(list)])
    /\ UpTo(new, Len(list)) = UpTo(list, Len(list) - 1) \cup Tokens(s)

LEMMA LastReplaced ==
  ASSUME NEW list \in Seq(Metrics!Spans), list # <<>>, NEW s \in Metrics!Spans, NEW new,
         new = [list EXCEPT ![Len(list)] = s]
  PROVE  LastIs(new, list, s)
  <1>1. /\ new \in Seq(Metrics!Spans) /\ Len(new) = Len(list) /\ Len(list) \in Nat \ {0}
        /\ \A k \in 1..(Len(list) - 1) : new[k] = list[k]
        /\ new[Len(list)] = s
    OBVIOUS
  <1>2. UpTo(new, Len(list) - 1) = UpTo(list, Len(list) - 1)
    BY <1>1, Zenon DEF UpTo
  <1>3. Len(list) - 1 \in Nat /\ Len(list) - 1 + 1 = Len(list)
    <2>1. Len(list) \in Nat \ {0}
      OBVIOUS
    <2> QED
      BY <2>1
  <1>4. /\ UpTo(list, Len(list)) = UpTo(list, Len(list) - 1) \cup Tokens(list[Len(list)])
        /\ UpTo(new, Len(list)) = UpTo(new, Len(list) - 1) \cup Tokens(new[Len(list)])
    BY <1>3, UpToNext
  <1>5. UpTo(new, Len(list)) = UpTo(list, Len(list) - 1) \cup Tokens(s)
    BY <1>1, <1>2, <1>4
  <1> QED
    BY <1>1, <1>4, <1>5 DEF LastIs

\* A span that starts within another one is joined to it.
LEMMA JoinedTokens ==
  ASSUME NEW a \in Nat, NEW b \in Nat, NEW c \in Nat, NEW d \in Nat,
         a <= c, c <= b, c <= d, NEW e, e = IF b >= d THEN b ELSE d
  PROVE  a..(e - 1) = (a..(b - 1)) \cup (c..(d - 1))
  OBVIOUS

\* A turn of _merge_intervals: the spans stay separated, the span's tokens are
\* added, and a span that starts no earlier than this one may come next.
LEMMA MergeKeeps ==
  ASSUME NEW list \in Seq(Metrics!Spans), Separated(list), NEW s \in Metrics!Spans,
         list # <<>> => list[Len(list)][1] <= s[1]
  PROVE  LET new == Metrics!Merge(list, s) IN
         /\ new \in Seq(Metrics!Spans) /\ new # <<>> /\ Separated(new)
         /\ new[Len(new)][1] <= s[1]
         /\ UpTo(new, Len(new)) = UpTo(list, Len(list)) \cup Tokens(s)
  <1> DEFINE new == Metrics!Merge(list, s)
             n == Len(list)
             last == list[n]
  <1>0. n \in Nat /\ \A k \in 1..n : list[k] \in Metrics!Spans
    OBVIOUS
  <1>s. s[1] \in 0..MaxToken /\ s[2] \in 0..MaxToken /\ s[1] <= s[2]
    BY SpanType
  <1> SUFFICES /\ new \in Seq(Metrics!Spans) /\ new # <<>> /\ Separated(new)
               /\ new[Len(new)][1] <= s[1]
               /\ UpTo(new, Len(new)) = UpTo(list, n) \cup Tokens(s)
    OBVIOUS
  <1>1. CASE list # <<>> /\ s[1] <= last[2]
    <2> DEFINE end == IF last[2] >= s[2] THEN last[2] ELSE s[2]
               joined == <<last[1], end>>
    <2>1. n \in 1..n /\ last \in Metrics!Spans
      BY <1>0, <1>1
    <2>2. /\ last[1] \in 0..MaxToken /\ last[2] \in 0..MaxToken /\ last[1] <= last[2]
          /\ last[1] <= s[1]
      BY <1>1, <2>1, SpanType
    <2>3. Metrics!Later(last[2], s[2]) = end
      <3>1. last[2] \in Int /\ s[2] \in Int
        BY <1>s, <2>2
      <3> QED
        BY <3>1, GreaterOfTwo DEF Metrics!Later
    <2>4. joined \in Metrics!Spans
      <3>1. end \in 0..MaxToken /\ last[1] <= end
        BY <1>s, <2>2, RewardAssumption
      <3> HIDE DEF end
      <3> QED
        BY <2>2, <3>1, SpanMade
    <2>5. new = [list EXCEPT ![n] = joined]
      BY <1>1, <2>3 DEF Metrics!Merge
    <2>6. Tokens(joined) = Tokens(last) \cup Tokens(s)
      <3>1. joined[1] = last[1] /\ joined[2] = end
        OBVIOUS
      <3> QED
        <4>1. /\ last[1] \in Nat /\ last[2] \in Nat /\ s[1] \in Nat /\ s[2] \in Nat
              /\ last[1] <= s[1] /\ s[1] <= last[2] /\ s[1] <= s[2]
          BY <1>1, <1>s, <2>2
        <4>2. last[1]..(end - 1) = (last[1]..(last[2] - 1)) \cup (s[1]..(s[2] - 1))
          <5> DEFINE a == last[1]
                     b == last[2]
                     c == s[1]
                     d == s[2]
          <5>1. /\ a \in Nat /\ b \in Nat /\ c \in Nat /\ d \in Nat
                /\ a <= c /\ c <= b /\ c <= d /\ end = IF b >= d THEN b ELSE d
            BY <4>1
          <5> HIDE DEF a, b, c, d, end
          <5>2. a..(end - 1) = (a..(b - 1)) \cup (c..(d - 1))
            BY <5>1, JoinedTokens
          <5> QED
            BY <5>2 DEF a, b, c, d
        <4>3. Tokens(joined) = last[1]..(end - 1)
          BY <3>1, Zenon DEF Tokens
        <4> QED
          BY <4>2, <4>3, Zenon DEF Tokens
    <2>7. joined[1] = last[1]
      OBVIOUS
    <2> HIDE DEF joined, new
    <2>8. /\ new \in Seq(Metrics!Spans) /\ Len(new) = n /\ n \in Nat \ {0}
          /\ \A k \in 1..(n - 1) : new[k] = list[k]
          /\ new[n] = joined
          /\ UpTo(list, n) = UpTo(list, n - 1) \cup Tokens(last)
          /\ UpTo(new, n) = UpTo(list, n - 1) \cup Tokens(joined)
      <3>1. LastIs(new, list, joined)
        BY <1>1, <2>4, <2>5, LastReplaced, Zenon
      <3> QED
        BY <3>1 DEF LastIs
    <2>9. Separated(new)
      <3> SUFFICES ASSUME NEW j \in 1..n, NEW k \in 1..n, j < k PROVE new[j][2] < new[k][1]
        BY <2>8 DEF Separated
      <3>1. list[j][2] < list[k][1]
        BY DEF Separated
      <3>2. new[j] = list[j]
        BY <2>8
      <3>3. new[k][1] = list[k][1]
        BY <2>7, <2>8
      <3> QED
        BY <3>1, <3>2, <3>3
    <2>10. UpTo(new, n) = UpTo(list, n) \cup Tokens(s)
      BY <2>6, <2>8
    <2>11. new[n][1] <= s[1]
      BY <2>2, <2>7, <2>8
    <2> QED
      BY <2>8, <2>9, <2>10, <2>11
  <1>2. CASE ~ (list # <<>> /\ s[1] <= last[2])
    <2>1. new = Append(list, s)
      BY <1>2 DEF Metrics!Merge
    <2> HIDE DEF new
    <2>2. /\ new \in Seq(Metrics!Spans) /\ Len(new) = n + 1
          /\ \A k \in 1..n : new[k] = list[k]
          /\ new[n + 1] = s
          /\ UpTo(new, n + 1) = UpTo(list, n) \cup Tokens(s)
      BY <2>1, OneSpanMore, Zenon
    <2>3. Separated(new)
      <3> SUFFICES ASSUME NEW j \in 1..(n + 1), NEW k \in 1..(n + 1), j < k
                   PROVE  new[j][2] < new[k][1]
        BY <2>2 DEF Separated
      <3>1. j \in 1..n /\ n \in 1..n /\ new[j] = list[j]
        BY <1>0, <2>2
      <3>2. CASE k \in 1..n
        BY <2>2, <3>1, <3>2 DEF Separated
      <3>3. CASE k = n + 1
        <4>1. list # <<>> /\ ~ (s[1] <= last[2])
          BY <1>2, <3>1
        <4>2. /\ last[1] \in 0..MaxToken /\ last[2] \in 0..MaxToken /\ last[1] <= last[2]
              /\ list[j][2] \in 0..MaxToken
          BY <1>0, <3>1, SpanType
        <4>3. j = n \/ list[j][2] < last[1]
          BY <3>1 DEF Separated
        <4>4. list[j][2] < s[1]
          <5>1. /\ last[1] \in Nat /\ last[2] \in Nat /\ list[j][2] \in Nat /\ s[1] \in Nat
                /\ last[1] <= last[2] /\ last[2] < s[1]
            BY <1>s, <4>1, <4>2
          <5>2. CASE j = n
            BY <5>1, <5>2
          <5>3. CASE list[j][2] < last[1]
            <6> DEFINE a == list[j][2]
                       b == last[1]
                       c == last[2]
                       d == s[1]
            <6>1. a \in Nat /\ b \in Nat /\ c \in Nat /\ d \in Nat /\ a < b /\ b <= c /\ c < d
              BY <5>1, <5>3
            <6> HIDE DEF a, b, c, d
            <6>2. a < d
              BY <6>1
            <6> QED
              BY <6>2 DEF a, d
          <5> QED
            BY <4>3, <5>2, <5>3
        <4> QED
          BY <2>2, <3>1, <3>3, <4>4
      <3> QED
        BY <1>0, <3>2, <3>3
    <2>4. new # <<>>
      BY <1>0, <2>2
    <2>5. new[n + 1][1] <= s[1]
      BY <1>s, <2>2
    <2> QED
      BY <2>2, <2>3, <2>4, <2>5
  <1> QED
    BY <1>1, <1>2

\* The tokens of a list are those of its head and of its tail.
LEMMA HeadFirst ==
  ASSUME NEW list \in Seq(Metrics!Spans), list # <<>>
  PROVE  /\ Head(list) \in Metrics!Spans /\ Head(list) = list[1] /\ Len(list) \in Nat \ {0}
         /\ Tail(list) \in Seq(Metrics!Spans) /\ Len(Tail(list)) = Len(list) - 1
         /\ \A k \in 1..(Len(list) - 1) : Tail(list)[k] = list[k + 1]
         /\ UpTo(list, Len(list)) = Tokens(Head(list)) \cup UpTo(Tail(list), Len(Tail(list)))
  <1> DEFINE rest == Tail(list)
             n == Len(list)
  <1>1. /\ Head(list) \in Metrics!Spans /\ Head(list) = list[1] /\ n \in Nat \ {0}
        /\ rest \in Seq(Metrics!Spans) /\ Len(rest) = n - 1
        /\ \A k \in 1..(n - 1) : rest[k] = list[k + 1]
    OBVIOUS
  <1> HIDE DEF rest
  <1>2. UpTo(list, n) = Tokens(list[1]) \cup UpTo(rest, n - 1)
    <2>0. n \in Nat \ {0}
      BY <1>1
    <2> HIDE DEF n
    <2> SUFFICES ASSUME NEW t
                 PROVE  (\E k \in 1..n : t \in Tokens(list[k])) <=>
                          (t \in Tokens(list[1]) \/ \E k \in 1..(n - 1) : t \in Tokens(rest[k]))
      BY Zenon DEF UpTo
    <2>1. ASSUME NEW k \in 1..n, t \in Tokens(list[k])
          PROVE  t \in Tokens(list[1]) \/ \E i \in 1..(n - 1) : t \in Tokens(rest[i])
      <3>1. CASE k = 1
        BY <2>1, <3>1
      <3>2. CASE k # 1
        <4>1. k - 1 \in 1..(n - 1) /\ k - 1 + 1 = k
          BY <2>0, <3>2
        <4>2. rest[k - 1] = list[k]
          BY <1>1, <4>1
        <4> QED
          BY <2>1, <4>1, <4>2, Zenon
      <3> QED
        BY <3>1, <3>2
    <2>2. ASSUME t \in Tokens(list[1]) PROVE \E k \in 1..n : t \in Tokens(list[k])
      <3>1. 1 \in 1..n
        BY <2>0
      <3> QED
        BY <2>2, <3>1, Zenon
    <2>3. ASSUME NEW k \in 1..(n - 1), t \in Tokens(rest[k])
          PROVE  \E i \in 1..n : t \in Tokens(list[i])
      <3>1. k + 1 \in 1..n
        BY <2>0
      <3>2. rest[k] = list[k + 1]
        BY <1>1
      <3> QED
        BY <2>3, <3>1, <3>2, Zenon
    <2> QED
      BY <2>1, <2>2, <2>3, Zenon
  <1>3. UpTo(list, n) = Tokens(Head(list)) \cup UpTo(rest, Len(rest))
    BY <1>1, <1>2
  <1> QED
    BY <1>1, <1>3 DEF rest

\* A list that is about to be into.
LEMMA MergeStarts ==
  ASSUME NEW list \in Seq(Metrics!Spans), list # <<>>, NEW left \in Metrics!ByStart(list)
  PROVE  MergesTo(left, <<>>, list)
  <1>1. /\ left \in Seq(Metrics!Spans) /\ Len(left) = Len(list) /\ Sorted(left)
        /\ UpTo(left, Len(left)) = UpTo(list, Len(list))
    BY SortedList
  <1>2. left # <<>>
    BY <1>1
  <1>3. UpTo(<<>>, Len(<<>>)) = {} /\ <<>> \in Seq(Metrics!Spans) /\ Separated(<<>>)
    <2>1. Len(<<>>) = 0 /\ <<>> \in Seq(Metrics!Spans)
      OBVIOUS
    <2> QED
      BY <2>1, UpToNone DEF Separated
  <1>4. UpTo(<<>>, Len(<<>>)) \cup UpTo(left, Len(left)) = UpTo(list, Len(list))
    BY <1>1, <1>3
  <1> QED
    BY <1>1, <1>2, <1>3, <1>4 DEF MergesTo

LEMMA MergesNext ==
  ASSUME NEW left, NEW into, NEW list, MergesTo(left, into, list), left # <<>>
  PROVE  MergesTo(Tail(left), Metrics!Merge(into, Head(left)), list)
  <1> DEFINE s == Head(left)
             n == Len(left)
             rest == Tail(left)
             new == Metrics!Merge(into, s)
  <1>1. /\ left \in Seq(Metrics!Spans) /\ Sorted(left)
        /\ into \in Seq(Metrics!Spans) /\ Separated(into)
        /\ into # <<>> => \A k \in 1..n : into[Len(into)][1] <= left[k][1]
        /\ UpTo(into, Len(into)) \cup UpTo(left, n) = UpTo(list, Len(list))
    BY DEF MergesTo
  <1>2. /\ s \in Metrics!Spans /\ s = left[1] /\ n \in Nat \ {0}
        /\ rest \in Seq(Metrics!Spans) /\ Len(rest) = n - 1
        /\ \A k \in 1..(n - 1) : rest[k] = left[k + 1]
        /\ UpTo(left, n) = Tokens(s) \cup UpTo(rest, Len(rest))
    BY <1>1, HeadFirst
  <1>3. into # <<>> => into[Len(into)][1] <= s[1]
    BY <1>1, <1>2
  <1> HIDE DEF s, rest
  <1>4. /\ new \in Seq(Metrics!Spans) /\ new # <<>> /\ Separated(new)
        /\ new[Len(new)][1] <= s[1]
        /\ UpTo(new, Len(new)) = UpTo(into, Len(into)) \cup Tokens(s)
    BY <1>1, <1>2, <1>3, MergeKeeps
  <1> HIDE DEF new
  <1>5. Sorted(rest)
    <2> SUFFICES ASSUME NEW j \in 1..(n - 1), NEW k \in 1..(n - 1), j < k
                 PROVE  rest[j][1] <= rest[k][1]
      BY <1>2 DEF Sorted
    <2>1. j + 1 \in 1..n /\ k + 1 \in 1..n /\ j + 1 < k + 1
      BY <1>2
    <2>2. left[j + 1][1] <= left[k + 1][1]
      BY <1>1, <2>1 DEF Sorted
    <2> QED
      BY <1>2, <2>2
  <1>6. \A k \in 1..Len(rest) : new[Len(new)][1] <= rest[k][1]
    <2> SUFFICES ASSUME NEW k \in 1..(n - 1) PROVE new[Len(new)][1] <= left[k + 1][1]
      BY <1>2
    <2>1. 1 \in 1..n /\ k + 1 \in 1..n /\ 1 < k + 1 /\ Len(new) \in 1..Len(new)
      BY <1>2, <1>4
    <2>2. s[1] <= left[k + 1][1]
      BY <1>1, <1>2, <2>1 DEF Sorted
    <2>3. /\ left[k + 1] \in Metrics!Spans /\ new[Len(new)] \in Metrics!Spans
      BY <1>1, <1>4, <2>1
    <2>4. /\ s[1] \in 0..MaxToken /\ left[k + 1][1] \in 0..MaxToken
          /\ new[Len(new)][1] \in 0..MaxToken
      BY <1>2, <2>3, SpanType
    <2> QED
      BY <1>4, <2>2, <2>4, RewardAssumption
  <1>7. UpTo(new, Len(new)) \cup UpTo(rest, Len(rest)) = UpTo(list, Len(list))
    BY <1>1, <1>2, <1>4, Zenon
  <1>8. MergesTo(rest, new, list)
    BY <1>2, <1>4, <1>5, <1>6, <1>7 DEF MergesTo
  <1> QED
    BY <1>8 DEF s, rest, new

\* What is left at the end.
LEMMA MergeEnds ==
  ASSUME NEW into, NEW list, MergesTo(<<>>, into, list)
  PROVE  IsMerged(into, list)
  <1>1. UpTo(<<>>, Len(<<>>)) = {}
    <2>1. Len(<<>>) = 0
      OBVIOUS
    <2> QED
      BY <2>1, UpToNone
  <1> QED
    BY <1>1 DEF MergesTo, IsMerged

-----------------------------------------------------------------------------

\* The length of a span is counted to the tokens before it.
LEMMA LengthCounts ==
  ASSUME NEW list \in Seq(Metrics!Spans), Separated(list), NEW i \in 1..Len(list)
  PROVE  Cardinality(UpTo(list, i)) = Cardinality(UpTo(list, i - 1)) + Metrics!Length(list[i])
  <1>1. i - 1 \in Nat /\ i - 1 <= Len(list) /\ i - 1 + 1 = i /\ list[i] \in Metrics!Spans
    OBVIOUS
  <1>2. UpTo(list, i) = UpTo(list, i - 1) \cup Tokens(list[i])
    BY <1>1, UpToNext
  <1>3. IsFiniteSet(UpTo(list, i - 1))
    BY <1>1, UpToFinite, Zenon
  <1>4. IsFiniteSet(Tokens(list[i])) /\ Cardinality(Tokens(list[i])) = Metrics!Length(list[i])
    BY <1>1, SpanType, Zenon
  <1>5. UpTo(list, i - 1) \cap Tokens(list[i]) = {}
    BY SeparateTokens
  <1>6. Cardinality(UpTo(list, i - 1) \cup Tokens(list[i])) =
          Cardinality(UpTo(list, i - 1)) + Cardinality(Tokens(list[i]))
    BY <1>3, <1>4, <1>5, Disjoint, Zenon
  <1> QED
    BY <1>2, <1>4, <1>6, Zenon

\* The tokens a turn of the two loops counts are new ones of its row.
LEMMA TurnCounts ==
  ASSUME NEW parts \in Seq(Metrics!Spans), Separated(parts),
         NEW others \in Seq(Metrics!Spans), Separated(others),
         NEW i \in 1..Len(parts), NEW j \in 1..Len(others)
  PROVE  Cardinality(RowBefore(parts, others, i, j + 1)) =
           Cardinality(RowBefore(parts, others, i, j)) + Metrics!Intersection(parts[i], others[j])
  <1> DEFINE row == Tokens(parts[i])
             before == UpTo(others, j - 1)
             new == Tokens(others[j])
  <1>1. /\ parts[i] \in Metrics!Spans /\ others[j] \in Metrics!Spans
        /\ j - 1 \in Nat /\ j - 1 <= Len(others) /\ j - 1 + 1 = j /\ j + 1 - 1 = j
    OBVIOUS
  <1>2. UpTo(others, j) = before \cup new
    BY <1>1, UpToNext
  <1>3. before \cap new = {}
    BY SeparateTokens
  <1>4. Metrics!Intersection(parts[i], others[j]) = Cardinality(row \cap new)
    BY <1>1, SharedTokens, Zenon
  <1>5. /\ RowBefore(parts, others, i, j) = before \cap row
        /\ RowBefore(parts, others, i, j + 1) = UpTo(others, j) \cap row
    <2>1. UpTo(others, j + 1 - 1) = UpTo(others, j)
      BY <1>1, Zenon
    <2> HIDE DEF before, row
    <2> QED
      BY <2>1 DEF RowBefore, before, row
  <1>6. IsFiniteSet(row) /\ IsFiniteSet(before)
    BY <1>1, SpanType, UpToFinite
  <1> HIDE DEF row, before, new
  <1>7. IsFiniteSet(before \cap row) /\ IsFiniteSet(row \cap new)
    BY <1>6, FS_Intersection, Zenon
  <1>8. (before \cap row) \cap (row \cap new) = {}
    BY <1>3
  <1>9. UpTo(others, j) \cap row = (before \cap row) \cup (row \cap new)
    BY <1>2
  <1>10. Cardinality((before \cap row) \cup (row \cap new)) =
           Cardinality(before \cap row) + Cardinality(row \cap new)
    BY <1>7, <1>8, Disjoint, Zenon
  <1> QED
    BY <1>4, <1>5, <1>9, <1>10, Zenon

\* The tokens of a whole row are new ones.
LEMMA RowCounts ==
  ASSUME NEW parts \in Seq(Metrics!Spans), Separated(parts),
         NEW others \in Seq(Metrics!Spans), Separated(others),
         NEW i \in 1..Len(parts)
  PROVE  Cardinality(RowsBefore(parts, others, i + 1)) =
           Cardinality(RowsBefore(parts, others, i))
           + Cardinality(RowBefore(parts, others, i, Len(others) + 1))
  <1> DEFINE all == UpTo(others, Len(others))
             row == Tokens(parts[i])
             before == UpTo(parts, i - 1)
  <1>1. /\ parts[i] \in Metrics!Spans /\ Len(others) \in Nat
        /\ Len(others) + 1 - 1 = Len(others)
        /\ i - 1 \in Nat /\ i - 1 <= Len(parts) /\ i - 1 + 1 = i /\ i + 1 - 1 = i
    OBVIOUS
  <1>2. UpTo(parts, i) = before \cup row
    BY <1>1, UpToNext
  <1>3. before \cap row = {}
    BY SeparateTokens
  <1>4. RowBefore(parts, others, i, Len(others) + 1) = row \cap all
    <2>1. UpTo(others, Len(others) + 1 - 1) = all
      BY <1>1, Zenon
    <2> HIDE DEF all, row
    <2> QED
      BY <2>1 DEF RowBefore, row
  <1>5. /\ RowsBefore(parts, others, i) = before \cap all
        /\ RowsBefore(parts, others, i + 1) = UpTo(parts, i) \cap all
    <2>1. UpTo(parts, i + 1 - 1) = UpTo(parts, i)
      BY <1>1, Zenon
    <2>2. RowsBefore(parts, others, i) = before \cap all
      BY DEF RowsBefore
    <2>3. RowsBefore(parts, others, i + 1) = UpTo(parts, i + 1 - 1) \cap all
      BY DEF RowsBefore
    <2> HIDE DEF before, all
    <2> QED
      BY <2>1, <2>2, <2>3
  <1>6. IsFiniteSet(row) /\ IsFiniteSet(before)
    BY <1>1, SpanType, UpToFinite
  <1> HIDE DEF all, row, before
  <1>7. IsFiniteSet(before \cap all) /\ IsFiniteSet(row \cap all)
    BY <1>6, FS_Intersection, Zenon
  <1>8. (before \cap all) \cap (row \cap all) = {}
    BY <1>3
  <1>9. UpTo(parts, i) \cap all = (before \cap all) \cup (row \cap all)
    BY <1>2
  <1>10. Cardinality((before \cap all) \cup (row \cap all)) =
           Cardinality(before \cap all) + Cardinality(row \cap all)
    BY <1>7, <1>8, Disjoint, Zenon
  <1> QED
    BY <1>4, <1>5, <1>9, <1>10, Zenon

\* Before the first row, and before the first place of a row, nothing is counted.
LEMMA NoRows ==
  ASSUME NEW parts, NEW others, NEW i
  PROVE  /\ RowsBefore(parts, others, 1) = {} /\ RowBefore(parts, others, i, 1) = {}
         /\ Cardinality({}) = 0
  <1>1. 1 - 1 = 0
    OBVIOUS
  <1>2. RowsBefore(parts, others, 1) = {}
    BY <1>1, UpToNone DEF RowsBefore
  <1>3. RowBefore(parts, others, i, 1) = {}
    BY <1>1, UpToNone DEF RowBefore
  <1> QED
    BY <1>2, <1>3, FS_EmptySet

-----------------------------------------------------------------------------

LEMMA InitMetrics == Metrics!Init => MetricsInv
  <1> SUFFICES ASSUME Metrics!Init PROVE MetricsInv
    OBVIOUS
  <1>1. <<>> \in Seq(Metrics!Spans)
    OBVIOUS
  <1>2. GivenInv
    BY <1>1 DEF Metrics!Init, GivenInv
  <1>3. MergeInv /\ SumInv
    BY DEF Metrics!Init, MergeInv, SumInv, Unsummed
  <1> QED
    BY <1>2, <1>3 DEF Metrics!Init, MetricsInv

\* The greedy match is no part of what the reward depends on.
LEMMA MetricsUnchanged ==
  ASSUME MetricsInv,
         UNCHANGED <<truth, flags, mpc, todo, merged, truthParts, flagParts, at, shared, union>>
  PROVE  MetricsInv'
  <1>1. GivenInv'
    BY DEF MetricsInv, GivenInv
  <1>2. MergeInv'
    BY DEF MetricsInv, MergeInv
  <1>3. SumInv'
    BY DEF MetricsInv, SumInv, Unsummed, Intersects, Sums
  <1> QED
    BY <1>1, <1>2, <1>3 DEF MetricsInv

\* The lists of a call.
LEMMA Bounded ==
  ASSUME NEW n \in Nat, NEW list \in Metrics!BoundedSeq(Metrics!Spans, n)
  PROVE  list \in Seq(Metrics!Spans)
  <1>1. PICK m \in 0..n : list \in [1..m -> Metrics!Spans]
    BY Zenon DEF Metrics!BoundedSeq, Metrics!SeqOf
  <1> QED
    BY <1>1

LEMMA CallKeeps == MetricsInv /\ Metrics!Call => MetricsInv'
  <1> SUFFICES ASSUME MetricsInv, Metrics!Call PROVE MetricsInv'
    OBVIOUS
  <1>1. /\ mpc = "idle" /\ mpc' = IF truth' = <<>> \/ flags' = <<>> THEN "trivial" ELSE "match"
        /\ UNCHANGED <<merged, at, shared, union>>
    BY DEF Metrics!Call, Metrics!mergeVars, Metrics!sumVars
  <1>2. truth' \in Seq(Metrics!Spans) /\ flags' \in Seq(Metrics!Spans)
    BY Bounded, RewardAssumption DEF Metrics!Call
  <1>3. GivenInv'
    BY <1>1, <1>2 DEF GivenInv
  <1>4. MergeInv' /\ SumInv'
    BY <1>1 DEF MetricsInv, MergeInv, SumInv, Unsummed
  <1> QED
    BY <1>1, <1>3, <1>4 DEF MetricsInv

LEMMA MatchKeeps == MetricsInv /\ (Metrics!Match \/ Metrics!MatchEnds) => MetricsInv'
  <1>1. ASSUME MetricsInv, Metrics!Match PROVE MetricsInv'
    BY <1>1, MetricsUnchanged
       DEF Metrics!Match, Metrics!inputVars, Metrics!mergeVars, Metrics!sumVars
  <1>2. ASSUME MetricsInv, Metrics!MatchEnds PROVE MetricsInv'
    <2>1. /\ mpc = "match" /\ mpc' = "mergeTruth" /\ todo' \in Metrics!ByStart(truth)
          /\ UNCHANGED <<truth, flags, merged, at, shared, union>>
      BY <1>2 DEF Metrics!MatchEnds, Metrics!inputVars, Metrics!sumVars
    <2>2. /\ truth \in Seq(Metrics!Spans) /\ truth # <<>> /\ merged = <<>>
      BY <1>2, <2>1 DEF MetricsInv, GivenInv, MergeInv
    <2>3. GivenInv' /\ SumInv'
      BY <1>2, <2>1 DEF MetricsInv, GivenInv, SumInv, Unsummed
    <2>4. MergesTo(todo', merged', truth')
      BY <2>1, <2>2, MergeStarts
    <2> QED
      BY <2>1, <2>3, <2>4 DEF MetricsInv, MergeInv
  <1> QED
    BY <1>1, <1>2

LEMMA MergingKeeps == MetricsInv /\ Metrics!Merging => MetricsInv'
  <1>1. ASSUME MetricsInv, Metrics!MergeTurn PROVE MetricsInv'
    <2>1. /\ mpc \in {"mergeTruth", "mergeFlags"} /\ todo # <<>>
          /\ merged' = Metrics!Merge(merged, Head(todo)) /\ todo' = Tail(todo)
          /\ UNCHANGED <<truth, flags, mpc, truthParts, flagParts, at, shared, union>>
      BY <1>1 DEF Metrics!MergeTurn, Metrics!inputVars, Metrics!sumVars
    <2>2. GivenInv' /\ SumInv'
      BY <1>1, <2>1 DEF MetricsInv, GivenInv, SumInv, Unsummed
    <2>3. ASSUME NEW list, MergesTo(todo, merged, list) PROVE MergesTo(todo', merged', list)
      BY <2>1, <2>3, MergesNext, Zenon
    <2>4. MergeInv'
      BY <1>1, <2>1, <2>3 DEF MetricsInv, MergeInv
    <2> QED
      BY <1>1, <2>1, <2>2, <2>4 DEF MetricsInv
  <1>2. ASSUME MetricsInv, Metrics!MergeTruthEnds PROVE MetricsInv'
    <2>1. /\ mpc = "mergeTruth" /\ mpc' = "mergeFlags" /\ todo = <<>>
          /\ truthParts' = merged /\ merged' = <<>> /\ todo' \in Metrics!ByStart(flags)
          /\ UNCHANGED <<truth, flags, at, shared, union>>
      BY <1>2 DEF Metrics!MergeTruthEnds, Metrics!inputVars, Metrics!sumVars
    <2>2. /\ flags \in Seq(Metrics!Spans) /\ flags # <<>> /\ MergesTo(todo, merged, truth)
      BY <1>2, <2>1 DEF MetricsInv, GivenInv, MergeInv
    <2>3. GivenInv' /\ SumInv'
      BY <1>2, <2>1 DEF MetricsInv, GivenInv, SumInv, Unsummed
    <2>4. MergesTo(todo', merged', flags')
      BY <2>1, <2>2, MergeStarts
    <2>5. IsMerged(truthParts', truth')
      BY <2>1, <2>2, MergeEnds
    <2> QED
      BY <2>1, <2>3, <2>4, <2>5 DEF MetricsInv, MergeInv
  <1>3. ASSUME MetricsInv, Metrics!MergeFlagsEnds PROVE MetricsInv'
    <2>1. /\ mpc = "mergeFlags" /\ mpc' = "intersect" /\ todo = <<>>
          /\ flagParts' = merged
          /\ UNCHANGED <<truth, flags, truthParts, at, shared, union>>
      BY <1>3 DEF Metrics!MergeFlagsEnds, Metrics!inputVars, Metrics!sumVars
    <2>2. /\ MergesTo(todo, merged, flags) /\ IsMerged(truthParts, truth) /\ Unsummed
      BY <1>3, <2>1 DEF MetricsInv, MergeInv, SumInv
    <2>3. IsMerged(flagParts', flags')
      BY <2>1, <2>2, MergeEnds
    <2>4. GivenInv' /\ MergeInv'
      BY <1>3, <2>1, <2>2, <2>3 DEF MetricsInv, GivenInv, MergeInv
    <2>5. SumInv'
      <3>1. at' = <<1, 1>> /\ shared' = 0 /\ union' = 0
        BY <2>1, <2>2 DEF Unsummed
      <3>2. Len(truthParts') \in Nat \ {0} /\ Len(flagParts') \in Nat \ {0}
        BY <2>1, <2>2, <2>3 DEF IsMerged
      <3>3. at' \in Nat \X Nat /\ at'[1] = 1 /\ at'[2] = 1
        BY <3>1
      <3>4. /\ Cardinality(RowsBefore(truthParts', flagParts', 1)) = 0
            /\ Cardinality(RowBefore(truthParts', flagParts', 1, 1)) = 0
        BY NoRows, Zenon
      <3>5. Intersects'
        BY <3>1, <3>2, <3>3, <3>4 DEF Intersects
      <3> QED
        BY <2>1, <3>3, <3>5 DEF SumInv
    <2> QED
      BY <2>1, <2>4, <2>5 DEF MetricsInv
  <1> QED
    BY <1>1, <1>2, <1>3 DEF Metrics!Merging

LEMMA RowsAreFinite ==
  ASSUME NEW parts \in Seq(Metrics!Spans), NEW others \in Seq(Metrics!Spans),
         NEW i \in 1..(Len(parts) + 1), NEW k, NEW j \in 1..(Len(others) + 1)
  PROVE  /\ Cardinality(RowsBefore(parts, others, i)) \in Nat
         /\ Cardinality(RowBefore(parts, others, k, j)) \in Nat
  <1>1. i - 1 \in Nat /\ i - 1 <= Len(parts) /\ j - 1 \in Nat /\ j - 1 <= Len(others)
    OBVIOUS
  <1>2. IsFiniteSet(UpTo(parts, i - 1)) /\ IsFiniteSet(UpTo(others, j - 1))
    BY <1>1, UpToFinite
  <1>3. RowsBefore(parts, others, i) \subseteq UpTo(parts, i - 1)
    BY DEF RowsBefore
  <1>4. RowBefore(parts, others, k, j) \subseteq UpTo(others, j - 1)
    BY DEF RowBefore
  <1> QED
    BY <1>2, <1>3, <1>4, FS_Subset, FS_CardinalityType, Zenon

\* What the loops over the merged lists know of them.
LEMMA MergedLists ==
  ASSUME MetricsInv, mpc \in {"intersect", "sum", "done"}
  PROVE  /\ truthParts \in Seq(Metrics!Spans) /\ Separated(truthParts)
         /\ flagParts \in Seq(Metrics!Spans) /\ Separated(flagParts)
         /\ Len(truthParts) \in Nat \ {0} /\ Len(flagParts) \in Nat \ {0}
  BY DEF MetricsInv, MergeInv, IsMerged

LEMMA IntersectKeeps == MetricsInv /\ Metrics!IntersectTurn => MetricsInv'
  <1> SUFFICES ASSUME MetricsInv, Metrics!IntersectTurn PROVE MetricsInv'
    OBVIOUS
  <1>1. /\ mpc = "intersect" /\ at[1] <= Len(truthParts)
        /\ shared' = shared + Metrics!Intersection(truthParts[at[1]], flagParts[at[2]])
        /\ at' = IF at[2] < Len(flagParts) THEN <<at[1], at[2] + 1>> ELSE <<at[1] + 1, 1>>
        /\ UNCHANGED <<truth, flags, mpc, todo, merged, truthParts, flagParts, union>>
    BY DEF Metrics!IntersectTurn, Metrics!inputVars, Metrics!mergeVars
  <1>2. GivenInv' /\ MergeInv'
    BY <1>1 DEF MetricsInv, GivenInv, MergeInv
  <1>3. /\ truthParts \in Seq(Metrics!Spans) /\ Separated(truthParts)
        /\ flagParts \in Seq(Metrics!Spans) /\ Separated(flagParts)
        /\ Len(truthParts) \in Nat \ {0} /\ Len(flagParts) \in Nat \ {0}
    BY <1>1, MergedLists
  <1>4. at \in Nat \X Nat /\ Intersects
    BY <1>1 DEF MetricsInv, SumInv
  <1>5. PICK i, j \in Nat : i = at[1] /\ j = at[2]
    BY <1>4
  <1> DEFINE tp == truthParts
             fp == flagParts
             m == Len(fp)
  <1>6. /\ i \in 1..Len(tp) /\ j \in 1..m /\ i + 1 \in 1..(Len(tp) + 1) /\ m \in Nat \ {0}
        /\ i \in 1..(Len(tp) + 1) /\ j \in 1..(m + 1) /\ j + 1 \in 1..(m + 1)
    <2>1. i \in 1..(Len(tp) + 1) /\ j \in 1..m /\ i <= Len(tp)
      BY <1>1, <1>4, <1>5 DEF Intersects
    <2>2. Len(tp) \in Nat \ {0} /\ m \in Nat \ {0}
      BY <1>3
    <2> HIDE DEF tp, m
    <2> QED
      BY <2>1, <2>2
  <1>7. /\ shared = Cardinality(RowsBefore(tp, fp, i)) + Cardinality(RowBefore(tp, fp, i, j))
        /\ union = 0
    BY <1>4, <1>5 DEF Intersects
  <1>8. Cardinality(RowBefore(tp, fp, i, j + 1)) =
          Cardinality(RowBefore(tp, fp, i, j)) + Metrics!Intersection(tp[i], fp[j])
    BY <1>3, <1>6, TurnCounts
  <1>9. /\ Cardinality(RowsBefore(tp, fp, i)) \in Nat
        /\ Cardinality(RowBefore(tp, fp, i, j)) \in Nat
        /\ Cardinality(RowBefore(tp, fp, i, j + 1)) \in Nat
        /\ Metrics!Intersection(tp[i], fp[j]) \in Nat
    <2>1. /\ Cardinality(RowsBefore(tp, fp, i)) \in Nat
          /\ Cardinality(RowBefore(tp, fp, i, j)) \in Nat
          /\ Cardinality(RowBefore(tp, fp, i, j + 1)) \in Nat
      BY <1>3, <1>6, RowsAreFinite
    <2>2. tp[i] \in Metrics!Spans /\ fp[j] \in Metrics!Spans
      BY <1>3, <1>6
    <2>3. IsFiniteSet(Tokens(tp[i]) \cap Tokens(fp[j]))
      BY <2>2, SpanType, FS_Intersection, Zenon
    <2>4. Metrics!Intersection(tp[i], fp[j]) \in Nat
      BY <2>2, <2>3, SharedTokens, FS_CardinalityType, Zenon
    <2> QED
      BY <2>1, <2>4
  <1>10. shared' = Cardinality(RowsBefore(tp, fp, i)) + Cardinality(RowBefore(tp, fp, i, j + 1))
    <2>1. shared' = shared + Metrics!Intersection(tp[i], fp[j])
      BY <1>1, <1>5, Zenon
    <2> QED
      BY <1>7, <1>8, <1>9, <2>1
  <1>11. CASE j < m
    <2>1. at' = <<i, j + 1>>
      BY <1>1, <1>5, <1>11
    <2>2. at' \in Nat \X Nat /\ at'[1] = i /\ at'[2] = j + 1
      BY <2>1
    <2>3. j + 1 \in 1..m /\ ~ (i > Len(tp))
      BY <1>6, <1>11
    <2>4. Intersects'
      BY <1>1, <1>6, <1>7, <1>10, <2>2, <2>3 DEF Intersects
    <2> QED
      BY <1>1, <1>2, <2>2, <2>4 DEF MetricsInv, SumInv
  <1>12. CASE ~ (j < m)
    <2>0. j = m
      BY <1>6, <1>12
    <2>1. at' = <<i + 1, 1>>
      BY <1>1, <1>5, <1>12
    <2>2. at' \in Nat \X Nat /\ at'[1] = i + 1 /\ at'[2] = 1
      BY <2>1
    <2>3. Cardinality(RowsBefore(tp, fp, i + 1)) =
            Cardinality(RowsBefore(tp, fp, i)) + Cardinality(RowBefore(tp, fp, i, m + 1))
      BY <1>3, <1>6, RowCounts
    <2>4. /\ Cardinality(RowBefore(tp, fp, i + 1, 1)) = 0
          /\ Cardinality(RowsBefore(tp, fp, i + 1)) \in Nat
      BY <1>3, <1>6, NoRows, RowsAreFinite
    <2>5. shared' = Cardinality(RowsBefore(tp, fp, i + 1))
      BY <1>10, <2>0, <2>3
    <2>6. shared' = Cardinality(RowsBefore(tp, fp, i + 1))
                    + Cardinality(RowBefore(tp, fp, i + 1, 1))
      BY <2>4, <2>5
    <2>7. 1 \in 1..m
      BY <1>6
    <2>8. Intersects'
      BY <1>1, <1>6, <1>7, <2>2, <2>6, <2>7 DEF Intersects
    <2> QED
      BY <1>1, <1>2, <2>2, <2>8 DEF MetricsInv, SumInv
  <1> QED
    BY <1>11, <1>12

LEMMA IntersectEndsKeeps == MetricsInv /\ Metrics!IntersectEnds => MetricsInv'
  <1> SUFFICES ASSUME MetricsInv, Metrics!IntersectEnds PROVE MetricsInv'
    OBVIOUS
  <1>1. /\ mpc = "intersect" /\ mpc' = "sum" /\ at[1] > Len(truthParts) /\ at' = <<1, 1>>
        /\ UNCHANGED <<truth, flags, todo, merged, truthParts, flagParts, shared, union>>
    BY DEF Metrics!IntersectEnds, Metrics!inputVars, Metrics!mergeVars
  <1>2. GivenInv' /\ MergeInv'
    BY <1>1 DEF MetricsInv, GivenInv, MergeInv
  <1> DEFINE tp == truthParts
             fp == flagParts
             n == Len(tp)
  <1>3. /\ tp \in Seq(Metrics!Spans) /\ fp \in Seq(Metrics!Spans)
        /\ n \in Nat \ {0} /\ Len(fp) \in Nat \ {0}
    BY <1>1, MergedLists
  <1>4. Intersects
    BY <1>1 DEF MetricsInv, SumInv
  <1>5. at[1] = n + 1 /\ at[2] = 1
    BY <1>1, <1>3, <1>4 DEF Intersects
  <1>6. /\ shared = Cardinality(RowsBefore(tp, fp, n + 1))
                    + Cardinality(RowBefore(tp, fp, n + 1, 1))
        /\ union = 0
    BY <1>4, <1>5 DEF Intersects
  <1>7. RowsBefore(tp, fp, n + 1) = Both(tp, fp)
    <2>1. n + 1 - 1 = n
      BY <1>3
    <2> QED
      BY <2>1 DEF RowsBefore, Both
  <1>8. shared = Cardinality(Both(tp, fp))
    <2>1. /\ Cardinality(RowBefore(tp, fp, n + 1, 1)) = 0
          /\ Cardinality(RowsBefore(tp, fp, n + 1)) \in Nat
      <3>1. n + 1 \in 1..(n + 1) /\ 1 \in 1..(Len(fp) + 1)
        BY <1>3
      <3> QED
        BY <1>3, <3>1, NoRows, RowsAreFinite
    <2>2. shared = Cardinality(RowsBefore(tp, fp, n + 1))
      BY <1>6, <2>1
    <2> QED
      BY <1>7, <2>2
  <1>9. at' \in Nat \X Nat /\ at'[1] = 1 /\ at'[2] = 1
    BY <1>1
  <1>10. Cardinality(UpTo(tp, 1 - 1)) = 0 /\ Cardinality(UpTo(fp, 1 - 1)) = 0
    <2>1. 1 - 1 = 0
      OBVIOUS
    <2> QED
      BY <2>1, UpToNone, FS_EmptySet
  <1>11. 1 \in 1..(n + 1) /\ 1 \in 1..(Len(fp) + 1)
    BY <1>3
  <1>12. Sums'
    BY <1>1, <1>6, <1>8, <1>9, <1>10, <1>11 DEF Sums
  <1> QED
    BY <1>1, <1>2, <1>9, <1>12 DEF MetricsInv, SumInv

LEMMA SumKeeps == MetricsInv /\ (Metrics!SumTruth \/ Metrics!SumFlags) => MetricsInv'
  <1> DEFINE tp == truthParts
             fp == flagParts
             t(i) == Cardinality(UpTo(tp, i))
             f(i) == Cardinality(UpTo(fp, i))
  <1>1. ASSUME MetricsInv, mpc = "sum"
        PROVE  \E i, j \in Nat :
                 /\ at = <<i, j>> /\ i \in 1..(Len(tp) + 1) /\ j \in 1..(Len(fp) + 1)
                 /\ i <= Len(tp) => j = 1
                 /\ shared = Cardinality(Both(tp, fp))
                 /\ union = t(i - 1) + f(j - 1)
    <2>1. at \in Nat \X Nat /\ Sums
      BY <1>1 DEF MetricsInv, SumInv
    <2>2. PICK i, j \in Nat : at = <<i, j>> /\ i = at[1] /\ j = at[2]
      BY <2>1
    <2> QED
      BY <2>1, <2>2 DEF Sums
  <1>2. ASSUME MetricsInv, Metrics!SumTruth PROVE MetricsInv'
    <2>1. /\ mpc = "sum" /\ at[1] <= Len(tp) /\ union' = union + Metrics!Length(tp[at[1]])
          /\ at' = <<at[1] + 1, at[2]>>
          /\ UNCHANGED <<truth, flags, mpc, todo, merged, truthParts, flagParts, shared>>
      BY <1>2 DEF Metrics!SumTruth, Metrics!inputVars, Metrics!mergeVars
    <2>2. PICK i, j \in Nat :
            /\ at = <<i, j>> /\ i \in 1..(Len(tp) + 1) /\ j \in 1..(Len(fp) + 1)
            /\ i <= Len(tp) => j = 1
            /\ shared = Cardinality(Both(tp, fp))
            /\ union = t(i - 1) + f(j - 1)
      BY <1>1, <1>2, <2>1
    <2>3. at[1] = i /\ at[2] = j
      BY <2>2
    <2>4. /\ tp \in Seq(Metrics!Spans) /\ Separated(tp) /\ fp \in Seq(Metrics!Spans)
          /\ Len(tp) \in Nat /\ Len(fp) \in Nat
      BY <1>2, <2>1, MergedLists
    <2>5. i \in 1..Len(tp) /\ j = 1
      BY <2>1, <2>2, <2>3
    <2>6. t(i) = t(i - 1) + Metrics!Length(tp[i])
      BY <2>4, <2>5, LengthCounts
    <2>7. t(i - 1) \in Nat /\ f(j - 1) \in Nat /\ Metrics!Length(tp[i]) \in Nat
      <3>1. i - 1 \in Nat /\ i - 1 <= Len(tp) /\ j - 1 \in Nat /\ j - 1 <= Len(fp)
        BY <2>2, <2>4, <2>5
      <3>2. t(i - 1) \in Nat /\ f(j - 1) \in Nat
        BY <2>4, <3>1, UpToFinite
      <3>3. tp[i] \in Metrics!Spans
        BY <2>4, <2>5
      <3>4. Metrics!Length(tp[i]) \in Nat
        BY <3>3, SpanType, FS_CardinalityType, Zenon
      <3> QED
        BY <3>2, <3>4
    <2>8. union' = t(i) + f(j - 1)
      <3>1. union' = union + Metrics!Length(tp[i])
        BY <2>1, <2>3, Zenon
      <3> HIDE DEF t, f
      <3> QED
        BY <2>2, <2>6, <2>7, <3>1
    <2>9. at' \in Nat \X Nat /\ at'[1] = i + 1 /\ at'[2] = j
      BY <2>1, <2>3
    <2>10. i + 1 \in 1..(Len(tp) + 1) /\ i + 1 - 1 = i
      BY <2>4, <2>5
    <2>11. Sums'
      BY <2>1, <2>2, <2>5, <2>8, <2>9, <2>10 DEF Sums
    <2> QED
      BY <1>2, <2>1, <2>9, <2>11 DEF MetricsInv, GivenInv, MergeInv, SumInv
  <1>3. ASSUME MetricsInv, Metrics!SumFlags PROVE MetricsInv'
    <2>1. /\ mpc = "sum" /\ at[1] > Len(tp) /\ at[2] <= Len(fp)
          /\ union' = union + Metrics!Length(fp[at[2]])
          /\ at' = <<at[1], at[2] + 1>>
          /\ UNCHANGED <<truth, flags, mpc, todo, merged, truthParts, flagParts, shared>>
      BY <1>3 DEF Metrics!SumFlags, Metrics!inputVars, Metrics!mergeVars
    <2>2. PICK i, j \in Nat :
            /\ at = <<i, j>> /\ i \in 1..(Len(tp) + 1) /\ j \in 1..(Len(fp) + 1)
            /\ i <= Len(tp) => j = 1
            /\ shared = Cardinality(Both(tp, fp))
            /\ union = t(i - 1) + f(j - 1)
      BY <1>1, <1>3, <2>1
    <2>3. at[1] = i /\ at[2] = j
      BY <2>2
    <2>4. /\ tp \in Seq(Metrics!Spans) /\ Separated(fp) /\ fp \in Seq(Metrics!Spans)
          /\ Len(tp) \in Nat /\ Len(fp) \in Nat
      BY <1>3, <2>1, MergedLists
    <2>5. ~ (i <= Len(tp)) /\ j \in 1..Len(fp)
      BY <2>1, <2>2, <2>3, <2>4
    <2>6. f(j) = f(j - 1) + Metrics!Length(fp[j])
      BY <2>4, <2>5, LengthCounts
    <2>7. t(i - 1) \in Nat /\ f(j - 1) \in Nat /\ Metrics!Length(fp[j]) \in Nat
      <3>1. i - 1 \in Nat /\ i - 1 <= Len(tp) /\ j - 1 \in Nat /\ j - 1 <= Len(fp)
        BY <2>2, <2>4, <2>5
      <3>2. t(i - 1) \in Nat /\ f(j - 1) \in Nat
        BY <2>4, <3>1, UpToFinite
      <3>3. fp[j] \in Metrics!Spans
        BY <2>4, <2>5
      <3>4. Metrics!Length(fp[j]) \in Nat
        BY <3>3, SpanType, FS_CardinalityType, Zenon
      <3> QED
        BY <3>2, <3>4
    <2>8. union' = t(i - 1) + f(j)
      <3>1. union' = union + Metrics!Length(fp[j])
        BY <2>1, <2>3, Zenon
      <3> HIDE DEF t, f
      <3> QED
        BY <2>2, <2>6, <2>7, <3>1
    <2>9. at' \in Nat \X Nat /\ at'[1] = i /\ at'[2] = j + 1
      BY <2>1, <2>3
    <2>10. j + 1 \in 1..(Len(fp) + 1) /\ j + 1 - 1 = j
      BY <2>4, <2>5
    <2>11. Sums'
      BY <2>1, <2>2, <2>5, <2>8, <2>9, <2>10 DEF Sums
    <2> QED
      BY <1>3, <2>1, <2>9, <2>11 DEF MetricsInv, GivenInv, MergeInv, SumInv
  <1> QED
    BY <1>2, <1>3

LEMMA SumEndsKeeps == MetricsInv /\ Metrics!SumEnds => MetricsInv'
  <1> SUFFICES ASSUME MetricsInv, Metrics!SumEnds PROVE MetricsInv'
    OBVIOUS
  <1> DEFINE tp == truthParts
             fp == flagParts
             T == UpTo(tp, Len(tp))
             F == UpTo(fp, Len(fp))
  <1>1. /\ mpc = "sum" /\ mpc' = "done" /\ at[1] > Len(tp) /\ at[2] > Len(fp)
        /\ union' = union - shared
        /\ UNCHANGED <<truth, flags, todo, merged, truthParts, flagParts, shared>>
    BY DEF Metrics!SumEnds, Metrics!inputVars, Metrics!mergeVars
  <1>2. GivenInv' /\ MergeInv'
    BY <1>1 DEF MetricsInv, GivenInv, MergeInv
  <1>3. /\ tp \in Seq(Metrics!Spans) /\ fp \in Seq(Metrics!Spans)
        /\ Len(tp) \in Nat /\ Len(fp) \in Nat
    BY <1>1, MergedLists
  <1>4. Sums
    BY <1>1 DEF MetricsInv, SumInv
  <1>5. at[1] - 1 = Len(tp) /\ at[2] - 1 = Len(fp)
    BY <1>1, <1>3, <1>4 DEF Sums
  <1>6. shared = Cardinality(T \cap F) /\ union = Cardinality(T) + Cardinality(F)
    BY <1>4, <1>5 DEF Sums, Both
  <1>7. IsFiniteSet(T) /\ IsFiniteSet(F)
    BY <1>3, UpToFinite
  <1>8. Cardinality(T \cup F) = Cardinality(T) + Cardinality(F) - Cardinality(T \cap F)
    BY <1>7, FS_Union, Zenon
  <1>9. union' = Cardinality(T \cup F)
    <2> DEFINE t == Cardinality(T)
               f == Cardinality(F)
               c == Cardinality(T \cap F)
               u == Cardinality(T \cup F)
    <2>1. union = t + f /\ shared = c /\ u = t + f - c
      BY <1>6, <1>8
    <2>2. t \in Nat /\ f \in Nat /\ c \in Nat
      BY <1>7, FS_CardinalityType, FS_Intersection, Zenon
    <2> HIDE DEF t, f, c, u
    <2>3. union' = u
      BY <1>1, <2>1, <2>2
    <2> QED
      BY <2>3 DEF u
  <1>10. shared' = Cardinality(Both(tp', fp')) /\ union' = Cardinality(Either(tp', fp'))
    BY <1>1, <1>6, <1>9 DEF Both, Either
  <1> QED
    BY <1>1, <1>2, <1>10 DEF MetricsInv, SumInv

\* Every step of compute_interval_set_metrics keeps the invariant.
LEMMA StepMetrics == MetricsInv /\ (Metrics!Call \/ Metrics!Compare) => MetricsInv'
  BY CallKeeps, MatchKeeps, MergingKeeps, IntersectKeeps, IntersectEndsKeeps, SumKeeps,
     SumEndsKeeps, Zenon DEF Metrics!Compare, Metrics!Summing

-----------------------------------------------------------------------------

\* What the call returns.
LEMMA MacroIoUCounts ==
  ASSUME MetricsInv, mpc \in {"trivial", "done"}
  PROVE  LET both == Cardinality(Metrics!TokensOf(truth) \cap Metrics!TokensOf(flags))
             either == Cardinality(Metrics!TokensOf(truth) \cup Metrics!TokensOf(flags))
         IN  IF either = 0
             THEN Metrics!MacroIoU = IF truth = <<>> /\ flags = <<>> THEN One ELSE Zero
             ELSE /\ Metrics!MacroIoU[2] > 0
                  /\ Metrics!MacroIoU[1] * either = both * Metrics!MacroIoU[2]
  <1> DEFINE T == UpTo(truth, Len(truth))
             F == UpTo(flags, Len(flags))
             both == Cardinality(T \cap F)
             either == Cardinality(T \cup F)
             Correct(q) == IF either = 0
                           THEN q = IF truth = <<>> /\ flags = <<>> THEN One ELSE Zero
                           ELSE q[2] > 0 /\ q[1] * either = both * q[2]
  <1>1. truth \in Seq(Metrics!Spans) /\ flags \in Seq(Metrics!Spans)
    BY DEF MetricsInv, GivenInv
  <1>2. Metrics!TokensOf(truth) = T /\ Metrics!TokensOf(flags) = F
    BY <1>1, AllTokens
  <1>3. IsFiniteSet(T) /\ IsFiniteSet(F)
    <2>1. Len(truth) \in Nat /\ Len(flags) \in Nat
      BY <1>1
    <2> QED
      BY <1>1, <2>1, UpToFinite
  <1>4. SUFFICES Correct(Metrics!MacroIoU)
    BY <1>2
  <1>5. both \in Nat /\ either \in Nat /\ both <= either
    <2>1. IsFiniteSet(T \cup F) /\ (T \cap F) \in SUBSET (T \cup F)
      BY <1>3, FS_Union
    <2> QED
      BY <2>1, FS_Subset, FS_CardinalityType
  <1>6. CASE mpc = "trivial"
    <2>1. T = {} \/ F = {}
      <3>1. truth = <<>> \/ flags = <<>>
        BY <1>6 DEF MetricsInv, GivenInv
      <3>2. CASE truth = <<>>
        <4>1. Len(truth) = 0
          BY <3>2
        <4> QED
          BY <4>1, UpToNone
      <3>3. CASE flags = <<>>
        <4>1. Len(flags) = 0
          BY <3>3
        <4> QED
          BY <4>1, UpToNone
      <3> QED
        BY <3>1, <3>2, <3>3
    <2>2. both = 0
      <3>1. T \cap F = {}
        BY <2>1
      <3> QED
        BY <3>1, FS_EmptySet
    <2>3. Metrics!MacroIoU = IF truth = <<>> /\ flags = <<>> THEN One ELSE Zero
      BY <1>6 DEF Metrics!MacroIoU, One, Zero
    <2>4. either # 0 => ~ (truth = <<>> /\ flags = <<>>)
      <3> SUFFICES ASSUME truth = <<>>, flags = <<>> PROVE either = 0
        OBVIOUS
      <3>1. Len(truth) = 0 /\ Len(flags) = 0
        OBVIOUS
      <3>2. T = {} /\ F = {}
        BY <3>1, UpToNone
      <3>3. T \cup F = {}
        BY <3>2
      <3> QED
        BY <3>3, FS_EmptySet
    <2>5. Zero[1] = 0 /\ Zero[2] = 1
      BY DEF Zero
    <2> HIDE DEF both, either
    <2> QED
      BY <1>5, <2>2, <2>3, <2>4, <2>5
  <1>7. CASE mpc = "done"
    <2>1. /\ UpTo(truthParts, Len(truthParts)) = T /\ UpTo(flagParts, Len(flagParts)) = F
          /\ shared = Cardinality(Both(truthParts, flagParts))
          /\ union = Cardinality(Either(truthParts, flagParts))
          /\ truth # <<>>
      BY <1>7 DEF MetricsInv, GivenInv, MergeInv, SumInv, IsMerged
    <2>2. shared = both /\ union = either
      BY <2>1, Zenon DEF Both, Either
    <2>3. Metrics!MacroIoU = IF union > 0 THEN <<shared, union>>
                             ELSE IF shared > 0 THEN <<1, 1>> ELSE <<0, 1>>
      BY <1>7 DEF Metrics!MacroIoU
    <2> HIDE DEF both, either
    <2>4. CASE either = 0
      BY <1>5, <2>1, <2>2, <2>3, <2>4 DEF Zero
    <2>5. CASE either # 0
      <3>1. Metrics!MacroIoU = <<both, either>>
        BY <1>5, <2>2, <2>3, <2>5
      <3>2. Metrics!MacroIoU[1] = both /\ Metrics!MacroIoU[2] = either
        BY <3>1
      <3> QED
        BY <1>5, <2>5, <3>2
    <2> QED
      BY <2>4, <2>5
  <1> QED
    BY <1>6, <1>7

\* Outside of the critic's steps nothing of it changes.
LEMMA StepCritic == HInv /\ CriticInv /\ [Next]_vars => CriticInv'
  <1> SUFFICES ASSUME HInv, CriticInv, [Next]_vars PROVE CriticInv'
    OBVIOUS
  <1>1. ASSUME UNCHANGED metricsVars PROVE MetricsInv'
    BY <1>1, MetricsUnchanged DEF CriticInv, metricsVars
  <1>2. ASSUME UNCHANGED metricsVars PROVE UNCHANGED <<mpc, Metrics!MacroIoU>>
    BY <1>2 DEF metricsVars, Metrics!MacroIoU
  <1>3. CASE CallEvaluate \/ CompareSpans
    <2>1. MetricsInv'
      BY <1>3, StepMetrics DEF CallEvaluate, CompareSpans, CriticInv
    <2>2. pc' \notin {"scored", "done"}
      BY <1>3 DEF CallEvaluate, CompareSpans
    <2> QED
      BY <2>1, <2>2 DEF CriticInv
  <1>4. CASE Evaluate
    <2>1. /\ mpc \in {"trivial", "done"} /\ acc' = Metrics!MacroIoU /\ UNCHANGED metricsVars
      BY <1>4 DEF Evaluate, ScoreWithout
    <2> QED
      BY <1>1, <1>2, <2>1 DEF CriticInv
  <1>5. ASSUME UNCHANGED metricsVars,
               \/ pc' \notin {"scored", "done"}
               \/ source' # "critic"
               \/ pc \in {"scored", "done"} /\ UNCHANGED <<source, acc>>
        PROVE  CriticInv'
    BY <1>1, <1>2, <1>5 DEF CriticInv
  <1>6. CASE UNCHANGED vars
    BY <1>5, <1>6 DEF vars, taskVars, resultVars
  <1>7. ASSUME RaiseUnchanged PROVE CriticInv'
    BY <1>5, <1>7 DEF RaiseUnchanged, Raise
  <1>8. ASSUME NEW n, NEW names, NEW place \in {"judge", "reason", "prm"}, Draw(n, names, place)
        PROVE CriticInv'
    <2>1. UNCHANGED metricsVars /\ pc' \notin {"scored", "done"}
      BY <1>8 DEF Draw, RaiseUnchanged, Raise
    <2> QED
      BY <1>5, <2>1
  <1>9. ASSUME NEW a, ScoreWithout(a), source # "critic" PROVE CriticInv'
    BY <1>5, <1>9 DEF ScoreWithout, taskVars
  <1>10. CASE InitializeClients
    BY <1>5, <1>10 DEF InitializeClients
  <1>11. CASE CallComputeScore \/ CallUnknown
    BY <1>7, <1>8, <1>11 DEF CallComputeScore, CallUnknown
  <1>12. CASE CallCommonReasoning
    BY <1>8, <1>9, <1>12 DEF CallCommonReasoning, ReasonSources
  <1>13. CASE JudgeRetryable \/ JudgeFatal \/ JudgeReturns
    BY <1>5, <1>13 DEF JudgeRetryable, JudgeFatal, JudgeReturns
  <1>14. CASE ReadJudgement
    <2>1. source # "critic"
      BY <1>14 DEF ReadJudgement, HInv, ScoreSources
    <2> QED
      BY <1>7, <1>9, <1>14, <2>1 DEF ReadJudgement
  <1>15. CASE Reason
    <2>1. source # "critic" /\ UNCHANGED <<taskVars, metricsVars>>
      BY <1>15 DEF Reason, ReasonReturns, ReasonRaises, HInv, ReasonSources
    <2> QED
      BY <1>5, <2>1 DEF taskVars
  <1>16. CASE SkipVerify
    BY <1>5, <1>16 DEF SkipVerify, Return, taskVars
  <1>17. CASE CallProcessVerify
    BY <1>7, <1>8, <1>17 DEF CallProcessVerify
  <1>18. CASE PRMRetryable \/ PRMFatal \/ PRMNoChoices
    BY <1>5, <1>18 DEF PRMRetryable, PRMFatal, PRMNoChoices, Raise
  <1>19. CASE PRMReturns
    <2>1. source # "critic" /\ UNCHANGED <<taskVars, metricsVars>>
      BY <1>19 DEF PRMReturns, Return, HInv
    <2> QED
      BY <1>5, <2>1 DEF taskVars
  <1> QED
    BY <1>3, <1>4, <1>6, <1>10, <1>11, <1>12, <1>13, <1>14, <1>15, <1>16, <1>17, <1>18, <1>19
       DEF Next, Call, Critic, Judge, Verify

\* compute_interval_set_metrics and evaluate_process_verification: the reward
\* of a critic task is the Jaccard index of the tokens flagged and annotated.
THEOREM CriticRewardIsJaccard == Spec => []MacroIoUIsJaccard
  <1>1. Init => CriticInv
    BY InitMetrics DEF Init, CriticInv
  <1>2. CriticInv => MacroIoUIsJaccard
    <2> SUFFICES ASSUME CriticInv, source = "critic", pc \in {"scored", "done"}
                 PROVE  MacroIoUIsJaccard
      BY DEF MacroIoUIsJaccard
    <2>1. MetricsInv /\ mpc \in {"trivial", "done"} /\ acc = Metrics!MacroIoU
      BY DEF CriticInv
    <2> QED
      BY <2>1, MacroIoUCounts, Zenon DEF MacroIoUIsJaccard
  <1> QED
    BY <1>1, <1>2, InitHInv, StepHInv, StepCritic, PTL DEF Spec
=============================================================================
