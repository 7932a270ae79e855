-------------------------- MODULE TRMTrainStepProofs --------------------------
(***************************************************************************)
(* Proofs about TRMTrainStep: for every batch size, pool size, retry       *)
(* budget and pattern of failing writes, a batch reaches the update only   *)
(* with every row scored and penalised by its own spans, and a row is      *)
(* recorded twice only after a failed write.                               *)
(*                                                                         *)
(* The manager's inductive invariant IInv (TRMRewardManagerProofs) is kept *)
(* by every step of the driver too.  On top of it, ColumnInv says that an  *)
(* extra list never grows faster than the serial pass and, as long as it   *)
(* has grown with every row, holds row r at place r: a list as long as the *)
(* batch, which is all that check_consistency asks for, is therefore the   *)
(* list of all rows in order.                                              *)
(***************************************************************************)
EXTENDS TRMTrainStep, TRMRewardManagerProofs, SequenceTheorems

\* The serial pass has not begun.
BeforePass == pc \in {"call", "wait", "handle", "sleep", "unwind"}

\* A list filled by the serial pass, which is at row n.
InStep(list, n) ==
    /\ Len(list) < n
    /\ Len(list) + 1 = n => \A r \in Rows : r < n => list[r] = r

ColumnInv ==
    /\ BeforePass \/ rmScores => scores = <<>> /\ positions = <<>> /\ next = 1
    /\ pc \in {"post", "returned"} =>
         /\ InStep(scores, next) /\ InStep(positions, next)
         /\ Len(scores) + 1 = next => \A r \in Rows : r < next => Scored(r)

\* Lines this call of the reward manager may have written for row r.
OwnLine(r) == IF r < next THEN 1 ELSE 0

RecordInv ==
    /\ pc \in {"unwind", "raised"} => writeErrors > 0
    /\ calls \in {0, 1} => \A r \in Rows : records[r] <= OwnLine(r)
    /\ calls = 2 => writeErrors > 0 /\ \A r \in Rows : records[r] <= 1 + OwnLine(r)

DriverInv ==
    /\ calls \in {0, 1, 2}
    /\ dpc = "launch" => pc = "call" /\ calls = 0
    /\ dpc = "reward" => calls = 1
    /\ dpc = "fallback" => calls = 2
    /\ dpc \in {"advantage", "update"} =>
         /\ pc = "returned"
         /\ columns \in {NoColumns, [scores |-> scores, positions |-> positions]}
    /\ dpc = "update" => /\ columns.positions # <<>>
                         /\ \A r \in Rows : r <= Len(columns.positions) =>
                                              penaltyOf[r] = columns.positions[r]
    /\ dpc = "trained" => TrainedOnOwnSpans

SInv == IInv /\ ColumnInv /\ RecordInv /\ DriverInv

-----------------------------------------------------------------------------
(* The lists.                                                              *)

\* A list that is in step stays so when the pass goes on, with the row's own
\* entry or, then for good, without one.
LEMMA PassGoesOn ==
  ASSUME NEW list \in Seq(Rows), NEW n \in Rows, InStep(list, n)
  PROVE  /\ InStep(list, n + 1) /\ Len(list) + 1 # n + 1
         /\ InStep(Append(list, n), n + 1)
         /\ Len(Append(list, n)) + 1 = n + 1 => Len(list) + 1 = n
  <1> USE Ranges
  <1>1. Len(list) \in Nat /\ n \in Nat /\ Len(list) < n
    BY DEF InStep
  <1>2. InStep(list, n + 1) /\ Len(list) + 1 # n + 1
    BY <1>1 DEF InStep
  <1>3. Len(Append(list, n)) = Len(list) + 1
    BY AppendProperties
  <1>4. ASSUME Len(list) + 1 = n, NEW r \in Rows, r < n + 1
        PROVE  Append(list, n)[r] = r
    <2>1. r \in Nat /\ (r < n \/ r = n)
      BY <1>1, <1>4
    <2>2. CASE r < n
      <3>1. r \in 1..Len(list)
        BY <1>1, <1>4, <2>1, <2>2
      <3>2. list[r] = r
        BY <1>4, <2>2 DEF InStep
      <3> QED
        BY <3>1, <3>2, AppendProperties
    <2>3. CASE r = n
      BY <1>4, <2>3, AppendProperties
    <2> QED
      BY <2>1, <2>2, <2>3
  <1>5. InStep(Append(list, n), n + 1)
    BY <1>1, <1>3, <1>4 DEF InStep
  <1>6. Len(Append(list, n)) + 1 = n + 1 => Len(list) + 1 = n
    BY <1>1, <1>3
  <1> QED
    BY <1>2, <1>5, <1>6

\* What a scored row's result says of the row: it is the row's own.
LEMMA ResultOfRow ==
  ASSUME IInv, NEW r \in Rows, Scored(r)
  PROVE  results[r][1] = r
  <1>1. PICK c \in Futures : c[1] = r /\ c[2] = retries[r]
    BY FuturePairs, ZenonT(40) DEF IInv, TypeOK
  <1> QED
    BY <1>1 DEF IInv, ResultInv

\* Before the pass every list is empty and so in step.
LEMMA EmptyInStep ==
    /\ InStep(<<>>, 1)
    /\ \A r \in Rows : ~(r < 1)
  BY Ranges DEF InStep

\* A manager's step before the pass, or the one that begins it.
LEMMA BeforePassColumns ==
  ASSUME IInv, ColumnInv,
         \/ ReturnRMScores \/ SubmitAll \/ WaitFirstCompleted \/ Resubmit \/ Unwind
         \/ \E f \in Futures : HandleScore(f)
         \/ \E f \in Futures : HandleRetry(f)
         \/ \E f \in Futures : HandleGiveUp(f)
         \/ \E f \in Futures : HandleGiveUpLogError(f)
  PROVE  ColumnInv'
  <1>1. BeforePass /\ UNCHANGED <<rmScores, postVars>>
    BY DEF BeforePass, ReturnRMScores, SubmitAll, WaitFirstCompleted, Resubmit, Unwind,
           HandleScore, HandleRetry, HandleGiveUp, HandleGiveUpLogError, GiveUp, Pop
  <1>2. scores = <<>> /\ positions = <<>> /\ next = 1
    BY <1>1 DEF ColumnInv
  <1>3. scores' = <<>> /\ positions' = <<>> /\ next' = 1
    BY <1>1, <1>2 DEF postVars
  <1> QED
    BY <1>3, EmptyInStep DEF ColumnInv

\* A manager's step of the pass.
LEMMA PassColumns ==
  ASSUME IInv, ColumnInv, PostSkip \/ PostRow \/ PostRowWriteError \/ PostDone
  PROVE  ColumnInv'
  <1> USE Ranges
  <1>1. /\ pc = "post" /\ UNCHANGED <<rmScores, results>>
        /\ ~rmScores
        /\ scores \in Seq(Rows) /\ positions \in Seq(Rows)
        /\ InStep(scores, next) /\ InStep(positions, next)
        /\ Len(scores) + 1 = next => \A r \in Rows : r < next => Scored(r)
    BY DEF PostSkip, PostRow, PostRowWriteError, PostDone, TakeScore, IInv, TypeOK, ColumnInv
  <1>2. CASE PostRowWriteError
    <2>1. pc' = "raised"
      BY <1>2 DEF PostRowWriteError
    <2> QED
      BY <1>1, <2>1 DEF ColumnInv, BeforePass
  <1>3. CASE PostDone
    <2>1. pc' = "returned" /\ UNCHANGED postVars
      BY <1>3 DEF PostDone
    <2> QED
      BY <1>1, <2>1 DEF ColumnInv, BeforePass, Scored, postVars
  <1>4. CASE PostSkip
    <2>1. pc' = pc /\ next \in Rows /\ next' = next + 1
          /\ scores' = scores /\ positions' = positions
      BY <1>4 DEF PostSkip
    <2>2. /\ InStep(scores, next + 1) /\ Len(scores) + 1 # next + 1
          /\ InStep(positions, next + 1)
      BY <1>1, <2>1, PassGoesOn
    <2>3. /\ InStep(scores', next') /\ InStep(positions', next')
          /\ Len(scores') + 1 # next'
      BY <2>1, <2>2
    <2> QED
      BY <1>1, <2>1, <2>3 DEF ColumnInv, BeforePass
  <1>5. CASE PostRow
    <2>1. /\ pc' = pc /\ next \in Rows /\ next' = next + 1 /\ Scored(next)
          /\ scores' = Append(scores, results[next][1])
          /\ positions' \in {positions, Append(positions, results[next][1])}
      BY <1>5 DEF PostRow, TakeScore
    <2>2. results[next][1] = next
      BY <2>1, ResultOfRow
    <2>3. /\ InStep(Append(scores, next), next + 1)
          /\ Len(Append(scores, next)) + 1 = next + 1 => Len(scores) + 1 = next
          /\ InStep(positions, next + 1) /\ InStep(Append(positions, next), next + 1)
      BY <1>1, <2>1, ZenonT(30), PassGoesOn
    <2>4. /\ InStep(scores', next') /\ InStep(positions', next')
          /\ Len(scores') + 1 = next' => Len(scores) + 1 = next
      BY <2>1, <2>2, <2>3
    <2>5. ASSUME Len(scores') + 1 = next', NEW r \in Rows, r < next'
          PROVE  Scored(r)'
      <3>1. r < next \/ r = next
        BY <2>1, <2>5
      <3>2. Scored(r)
        BY <1>1, <2>1, <2>4, <2>5, <3>1
      <3> QED
        BY <1>1, <3>2 DEF Scored
    <2> QED
      BY <1>1, <2>1, <2>4, <2>5 DEF ColumnInv, BeforePass
  <1> QED
    BY <1>2, <1>3, <1>4, <1>5

\* Every step of the manager keeps its lists in step.
LEMMA ManagerColumns == IInv /\ ColumnInv /\ Next => ColumnInv'
  <1> SUFFICES ASSUME IInv, ColumnInv, Next PROVE ColumnInv'
    OBVIOUS
  <1>1. CASE Workers
    <2>1. pc' = pc /\ UNCHANGED <<rmScores, results, postVars>>
      BY <1>1 DEF Workers, WorkerStart, WorkerFinish
    <2> QED
      BY <2>1 DEF ColumnInv, BeforePass, InStep, Scored, postVars
  <1>2. CASE PostSkip \/ PostRow \/ PostRowWriteError \/ PostDone
    BY <1>2, PassColumns
  <1>3. CASE \/ ReturnRMScores \/ SubmitAll \/ WaitFirstCompleted \/ Resubmit \/ Unwind
             \/ \E f \in Futures : HandleScore(f)
             \/ \E f \in Futures : HandleRetry(f)
             \/ \E f \in Futures : HandleGiveUp(f)
             \/ \E f \in Futures : HandleGiveUpLogError(f)
    BY <1>3, BeforePassColumns
  <1> QED
    BY <1>1, <1>2, <1>3 DEF Next, Caller

-----------------------------------------------------------------------------
(* The record file.                                                        *)

\* A step of the manager writes no second line for a row, and only a failed
\* write ends it by an exception.
LEMMA ManagerRecords ==
  ASSUME IInv, RecordInv, Next, calls' = calls
  PROVE  RecordInv'
  <1> USE Ranges
  <1>1. records \in [Rows -> Nat] /\ next \in Nat /\ writeErrors \in Nat
    BY DEF IInv, TypeOK
  <1>2. pc' \in {"unwind", "raised"} /\ pc' # pc => writeErrors' > 0
    <2>1. CASE Unwind
      BY <1>1, <2>1 DEF Unwind, RecordInv, fileVars
    <2>2. CASE PostRowWriteError \/ \E f \in Futures : HandleGiveUpLogError(f)
      BY <1>1, <2>2 DEF PostRowWriteError, HandleGiveUpLogError
    <2>3. CASE ~Unwind /\ ~PostRowWriteError /\ ~\E f \in Futures : HandleGiveUpLogError(f)
      BY <2>3 DEF Next, Caller, Workers, WorkerStart, WorkerFinish, ReturnRMScores, SubmitAll,
                  WaitFirstCompleted, HandleScore, HandleRetry, Resubmit, HandleGiveUp, LoopHead,
                  PostSkip, PostRow, TakeScore, PostDone
    <2> QED
      BY <2>1, <2>2, <2>3
  <1>3. writeErrors' \in Nat /\ writeErrors' >= writeErrors
    BY <1>1 DEF Next, Caller, Workers, WorkerStart, WorkerFinish, ReturnRMScores, SubmitAll,
                WaitFirstCompleted, HandleScore, HandleRetry, Resubmit, HandleGiveUp,
                HandleGiveUpLogError, Unwind, PostSkip, PostRow, PostRowWriteError, PostDone,
                fileVars
  <1>4. CASE PostRow
    <2>1. /\ pc = "post" /\ pc' = pc /\ next \in Rows /\ next' = next + 1
          /\ records' = [records EXCEPT ![next] = @ + 1] /\ writeErrors' = writeErrors
      BY <1>4 DEF PostRow, TakeScore
    <2>2. \A r \in Rows : /\ r # next => records'[r] = records[r] /\ OwnLine(r)' = OwnLine(r)
                          /\ r = next => /\ records'[r] = records[r] + 1
                                         /\ OwnLine(r) = 0 /\ OwnLine(r)' = 1
      <3> TAKE r \in Rows
      <3>1. r \in Nat /\ (r # next => (r < next + 1 <=> r < next))
        BY <1>1
      <3> QED
        BY <1>1, <2>1, <3>1 DEF OwnLine
    <2> QED
      BY <1>1, <2>1, <2>2 DEF RecordInv
  <1>5. CASE ~PostRow
    <2>1. records' = records /\ next' \in {next, next + 1}
      BY <1>5 DEF Next, Caller, Workers, WorkerStart, WorkerFinish, ReturnRMScores, SubmitAll,
                  WaitFirstCompleted, HandleScore, HandleRetry, Resubmit, HandleGiveUp,
                  HandleGiveUpLogError, Unwind, PostSkip, PostRowWriteError, PostDone,
                  postVars, fileVars
    <2>2. \A r \in Rows : OwnLine(r) \in {0, 1} /\ OwnLine(r)' \in {0, 1}
                          /\ OwnLine(r) <= OwnLine(r)'
      BY <1>1, <2>1 DEF OwnLine
    <2>3. \A r \in Rows, n \in Nat : n <= OwnLine(r) => n <= OwnLine(r)'
      BY <2>2
    <2>4. \A r \in Rows, n \in Nat : n <= 1 + OwnLine(r) => n <= 1 + OwnLine(r)'
      BY <2>2
    <2>5. pc' \in {"unwind", "raised"} => writeErrors' > 0
      BY <1>1, <1>2, <1>3 DEF RecordInv
    <2>6. ASSUME calls \in {0, 1}, NEW r \in Rows PROVE records'[r] <= OwnLine(r)'
      <3>1. records[r] \in Nat /\ records[r] <= OwnLine(r)
        BY <1>1, <2>6 DEF RecordInv
      <3> QED
        BY <2>1, <2>3, <3>1
    <2>7. ASSUME calls = 2 PROVE writeErrors' > 0
      BY <1>1, <1>3, <2>7 DEF RecordInv
    <2>8. ASSUME calls = 2, NEW r \in Rows PROVE records'[r] <= 1 + OwnLine(r)'
      <3>1. records[r] \in Nat /\ records[r] <= 1 + OwnLine(r)
        BY <1>1, <2>8 DEF RecordInv
      <3> QED
        BY <2>1, <2>4, <3>1
    <2> QED
      BY <2>5, <2>6, <2>7, <2>8 DEF RecordInv
  <1> QED
    BY <1>4, <1>5

-----------------------------------------------------------------------------
(* The driver.                                                             *)

\* The step starts with a reward manager that was not called.
LEMMA InitSInv == StepInit => SInv
  <1> SUFFICES ASSUME StepInit PROVE SInv
    OBVIOUS
  <1>1. IInv
    BY InitIInv DEF StepInit
  <1>2. ColumnInv
    BY EmptyInStep DEF StepInit, Init, ColumnInv
  <1>3. RecordInv
    BY Ranges DEF StepInit, Init, RecordInv, OwnLine
  <1>4. DriverInv
    BY DEF StepInit, Init, DriverInv
  <1> QED
    BY <1>1, <1>2, <1>3, <1>4 DEF SInv

\* A step that leaves the manager's variables leaves what is said of them.
LEMMA ManagerUnchanged ==
  ASSUME IInv, ColumnInv, UNCHANGED vars
  PROVE  IInv' /\ ColumnInv'
  <1>1. IInv'
    BY StepIInv
  <1>2. pc' = pc /\ UNCHANGED <<rmScores, results, postVars>>
    BY DEF vars
  <1>3. ColumnInv'
    BY <1>2 DEF ColumnInv, BeforePass, InStep, Scored, postVars
  <1> QED
    BY <1>1, <1>3

\* compute_reward is entered with a step, or refused.
LEMMA ComputeRewardSInv ==
  ASSUME SInv, ComputeReward
  PROVE  SInv'
  <1>1. UNCHANGED vars /\ calls = 0 /\ calls' \in {0, 1} /\ dpc' \in {"crashed", "reward"}
        /\ (dpc' = "reward" => calls' = 1)
    BY DEF ComputeReward, SInv, DriverInv
  <1>2. IInv' /\ ColumnInv'
    BY <1>1, ManagerUnchanged DEF SInv
  <1>3. RecordInv'
    BY <1>1 DEF SInv, RecordInv, OwnLine, vars, postVars, fileVars
  <1>4. DriverInv'
    BY <1>1 DEF DriverInv
  <1> QED
    BY <1>2, <1>3, <1>4 DEF SInv

\* The manager at work, in the first call or in the fallback.
LEMMA ManagerStepSInv ==
  ASSUME SInv, ManagerStep
  PROVE  SInv'
  <1>1. Next /\ UNCHANGED driverVars /\ dpc \in {"reward", "fallback"}
    BY DEF ManagerStep
  <1>2. IInv' /\ ColumnInv' /\ RecordInv'
    BY <1>1, StepIInv, ManagerColumns, ManagerRecords DEF SInv, driverVars
  <1>3. DriverInv'
    BY <1>1 DEF SInv, DriverInv, driverVars
  <1> QED
    BY <1>2, <1>3 DEF SInv

\* A fresh call keeps of the first one only the files, and that a write of it
\* failed.
LEMMA ScoreAgainSInv ==
  ASSUME SInv, ScoreAgain
  PROVE  SInv'
  <1> USE FuturePairs, Ranges
  <1>1. /\ pc = "raised" /\ dpc = "reward" /\ calls = 1 /\ ~rmScores
        /\ TypeOK /\ writeErrors > 0
    BY DEF ScoreAgain, NeedsFallback, SInv, DriverInv, IInv, RecordInv
  <1>2. /\ pc' = "call" /\ next' = 1 /\ rmScores' = rmScores /\ dpc' = "fallback"
        /\ scores' = <<>> /\ positions' = <<>> /\ calls' = 2
        /\ records' = records /\ failedLog' = failedLog /\ writeErrors' = writeErrors
    BY <1>1 DEF ScoreAgain, fileVars
  <1>3. Untouched'
    BY DEF ScoreAgain, Untouched
  <1>4. TypeOK'
    <2>1. /\ fstate' \in [Futures -> FutureStates] /\ futures' \subseteq Futures
          /\ done' \subseteq Futures /\ retries' \in [Rows -> Attempts] /\ sleeping' = 0
          /\ results' \in [Rows -> Futures \cup {Pending, GivenUp}]
          /\ reward' \in [Rows -> Rows \cup {0}]
      BY DEF ScoreAgain, FutureStates
    <2>2. scores' \in Seq(Rows) /\ positions' \in Seq(Rows)
      BY <1>2
    <2>3. /\ rmScores' \in BOOLEAN /\ next' \in 1..(NumTasks + 1)
          /\ records' \in [Rows -> Nat] /\ failedLog' \in [Rows -> Nat] /\ writeErrors' \in Nat
      BY <1>1, <1>2 DEF TypeOK
    <2> QED
      BY <1>2, <2>1, <2>2, <2>3 DEF TypeOK, PCs
  <1>5. IInv'
    <2>1. AttemptInv' /\ ResultInv'
      BY <1>3 DEF Untouched, AttemptInv, ResultInv, Scored
    <2>2. SleepInv' /\ DoneInv' /\ DictInv' /\ PlaceInv' /\ RewardInv' /\ QuiescentAtExit'
      BY <1>2, <1>3
         DEF ScoreAgain, Untouched, SleepInv, DoneInv, DictInv, PlaceInv, Looping, RewardInv,
             QuiescentAtExit
    <2> QED
      BY <1>1, <1>2, <1>3, <1>4, <2>1, <2>2 DEF IInv
  <1>6. ColumnInv'
    BY <1>2 DEF ColumnInv
  <1>7. RecordInv'
    <2>1. \A r \in Rows : records[r] \in Nat /\ records[r] <= OwnLine(r)
      BY <1>1 DEF SInv, RecordInv, TypeOK
    <2>2. \A r \in Rows : records[r] <= 1 /\ OwnLine(r)' = 0
      BY <1>2, <2>1 DEF OwnLine
    <2> QED
      BY <1>1, <1>2, <2>2 DEF RecordInv
  <1>8. DriverInv'
    BY <1>2 DEF DriverInv
  <1> QED
    BY <1>5, <1>6, <1>7, <1>8 DEF SInv

\* The result is taken over with its lists, or in the fallback without.
LEMMA TakeSInv ==
  ASSUME SInv, TakeResult \/ TakeFallbackResult \/ FallbackRaises
  PROVE  SInv'
  <1>1. UNCHANGED vars /\ calls' = calls /\ dpc' \in {"advantage", "crashed"}
    BY DEF TakeResult, TakeFallbackResult, FallbackRaises
  <1>2. IInv' /\ ColumnInv'
    BY <1>1, ManagerUnchanged DEF SInv
  <1>3. RecordInv'
    BY <1>1 DEF SInv, RecordInv, OwnLine, vars, postVars, fileVars
  <1>4. dpc' = "advantage" => /\ pc' = "returned"
                              /\ columns' \in {NoColumns,
                                               [scores |-> scores, positions |-> positions]}
    BY <1>1 DEF TakeResult, TakeFallbackResult, FallbackRaises, FallbackColumns, vars
  <1>5. DriverInv'
    BY <1>1, <1>4 DEF SInv, DriverInv, vars, postVars
  <1> QED
    BY <1>2, <1>3, <1>5 DEF SInv

\* The mask takes the spans at place r for row r.
LEMMA MaskSInv ==
  ASSUME SInv, CreatePenaltyMask
  PROVE  SInv'
  <1>1. /\ UNCHANGED vars /\ calls' = calls /\ columns' = columns
        /\ dpc = "advantage" /\ dpc' \in {"update", "crashed"}
        /\ dpc' = "update" =>
             /\ columns.positions # <<>>
             /\ penaltyOf' = [r \in Rows |-> IF r <= Len(columns.positions)
                                             THEN columns.positions[r] ELSE 0]
    BY DEF CreatePenaltyMask
  <1>2. IInv' /\ ColumnInv'
    BY <1>1, ManagerUnchanged DEF SInv
  <1>3. RecordInv'
    BY <1>1 DEF SInv, RecordInv, OwnLine, vars, postVars, fileVars
  <1>4. DriverInv'
    BY <1>1 DEF SInv, DriverInv, vars, postVars
  <1> QED
    BY <1>2, <1>3, <1>4 DEF SInv

\* Lists as long as the batch are those of all rows, in order.
LEMMA UpdateSInv ==
  ASSUME SInv, UpdateActor
  PROVE  SInv'
  <1> USE Ranges
  <1>1. /\ UNCHANGED <<vars, calls, columns, penaltyOf>>
        /\ dpc = "update" /\ dpc' \in {"trained", "crashed"}
        /\ dpc' = "trained" => Len(columns.scores) = NumTasks /\ Len(columns.positions) = NumTasks
    BY DEF UpdateActor, Fits
  <1>2. IInv' /\ ColumnInv'
    BY <1>1, ManagerUnchanged DEF SInv
  <1>3. RecordInv'
    BY <1>1 DEF SInv, RecordInv, OwnLine, vars, postVars, fileVars
  <1>4. ASSUME dpc' = "trained" PROVE TrainedOnOwnSpans'
    <2>1. /\ pc = "returned"
          /\ columns \in {NoColumns, [scores |-> scores, positions |-> positions]}
          /\ columns.positions # <<>>
          /\ \A r \in Rows : r <= Len(columns.positions) => penaltyOf[r] = columns.positions[r]
      BY <1>1 DEF SInv, DriverInv
    <2>2. columns = [scores |-> scores, positions |-> positions]
      BY <2>1 DEF NoColumns
    <2>3. columns.scores = scores /\ columns.positions = positions
      BY <2>2
    <2>4. /\ Len(scores) = NumTasks /\ Len(positions) = NumTasks /\ positions # <<>>
          /\ \A r \in Rows : penaltyOf[r] = positions[r]
      BY <1>1, <1>4, <2>1, <2>3
    <2>5. ~rmScores
      BY <2>4 DEF SInv, ColumnInv
    <2>6. next = NumTasks + 1
          /\ \A r \in Rows : reward[r] = IF r < next /\ Scored(r) THEN r ELSE 0
      BY <2>1, <2>5 DEF SInv, IInv, RewardInv
    <2>7. /\ InStep(positions, next)
          /\ Len(scores) + 1 = next => \A r \in Rows : r < next => Scored(r)
      BY <2>1 DEF SInv, ColumnInv
    <2>8. \A r \in Rows : r < next
      BY <2>6
    <2>9. \A r \in Rows : Scored(r) /\ positions[r] = r
      BY <2>4, <2>6, <2>7, <2>8 DEF InStep
    <2>10. \A r \in Rows : reward[r] = r /\ penaltyOf[r] = r
      BY <2>4, <2>6, <2>8, <2>9
    <2> QED
      BY <1>1, <2>9, <2>10 DEF TrainedOnOwnSpans, Scored, vars, postVars
  <1>5. DriverInv'
    BY <1>1, <1>4 DEF SInv, DriverInv
  <1> QED
    BY <1>2, <1>3, <1>5 DEF SInv

\* Every step keeps the invariant.
LEMMA StepSInv == SInv /\ [StepNext]_stepVars => SInv'
  <1> SUFFICES ASSUME SInv, [StepNext]_stepVars PROVE SInv'
    OBVIOUS
  <1>1. CASE Driver
    BY <1>1, ComputeRewardSInv, TakeSInv, ScoreAgainSInv, MaskSInv, UpdateSInv DEF Driver
  <1>2. CASE ManagerStep
    BY <1>2, ManagerStepSInv
  <1>3. CASE UNCHANGED stepVars
    <2>1. UNCHANGED vars /\ UNCHANGED driverVars
      BY <1>3 DEF stepVars
    <2>2. IInv' /\ ColumnInv'
      BY <2>1, ManagerUnchanged DEF SInv
    <2>3. RecordInv' /\ DriverInv'
      BY <2>1 DEF SInv, RecordInv, OwnLine, DriverInv, TrainedOnOwnSpans, Scored, vars, postVars,
                  fileVars, driverVars
    <2> QED
      BY <2>2, <2>3 DEF SInv
  <1> QED
    BY <1>1, <1>2, <1>3 DEF StepNext

-----------------------------------------------------------------------------

\* The inductive invariant holds in every behaviour of the step.
THEOREM StepInvariance == StepSpec => []SInv
  BY InitSInv, StepSInv, PTL DEF StepSpec

\* compute_reward, the merge of the extra lists, the mask and check_consistency
\* together: what is trained is trained on its own reward and spans.
THEOREM TrainingOnOwnSpans == StepSpec => []TrainedOnOwnSpans
  <1>1. SInv => TrainedOnOwnSpans
    BY DEF SInv, DriverInv, TrainedOnOwnSpans
  <1> QED
    BY <1>1, StepInvariance, PTL

\* The record file and the fallback of compute_reward: no row is recorded a
\* second time unless a write failed, and none a third time.
THEOREM NoNeedlessRecord == StepSpec => []RerecordedOnlyAfterError
  <1>1. SInv => RerecordedOnlyAfterError
    <2> SUFFICES ASSUME SInv, NEW r \in Rows, records[r] > 1
                 PROVE  writeErrors > 0 /\ calls = 2 /\ records[r] = 2
      BY DEF RerecordedOnlyAfterError
    <2>1. records[r] \in Nat /\ OwnLine(r) \in {0, 1}
      BY DEF SInv, IInv, TypeOK, OwnLine
    <2>2. calls = 2
      BY <2>1 DEF SInv, RecordInv, DriverInv
    <2> QED
      BY <2>1, <2>2 DEF SInv, RecordInv
  <1> QED
    BY <1>1, StepInvariance, PTL

=============================================================================
