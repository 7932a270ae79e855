--------------------------- MODULE TRMRewardManager ---------------------------
(***************************************************************************)
(* One call of TRMRewardManager.__call__ (verl/workers/reward_manager/     *)
(* trm.py): a batch of tasks is scored by a thread pool, one future per    *)
(* task, a future that raised is submitted again at most MAX_RETRIES       *)
(* times, a task that keeps failing is given up, and a serial pass turns   *)
(* the results into a reward tensor, the extra lists and record lines.     *)
(*                                                                         *)
(* Data abstracted: a row of the batch is its number (1-based here); a     *)
(* score, a reward or an entry of an extra list is the row it was computed *)
(* for; a future is <<row, attempt>>.  The pool's queue is a set: which    *)
(* queued future a worker takes first is left open.                        *)
(***************************************************************************)
EXTENDS Naturals, FiniteSets, Sequences

CONSTANTS
    NumTasks,       \* len(data)
    MaxWorkers,     \* reward_kwargs.max_workers
    MAX_RETRIES,    \* trm.py's constant (2 in the code)
    PositionRows,   \* rows whose score carries the key 'positions'
    FailedTaskLog,  \* is PERCEVAL_FAILED_TASK_LOG set?
    MaxWriteErrors, \* bound: failing writes of a record or log line
    Pending,        \* results[i] is still the None it was created with
    GivenUp         \* results[i] is (None, info)

Rows == 1..NumTasks
Attempts == 0..MAX_RETRIES
Futures == Rows \X Attempts

ASSUME ConstantsAssumption ==
    /\ NumTasks \in Nat \ {0}
    /\ MaxWorkers \in Nat \ {0}
    /\ MAX_RETRIES \in Nat
    /\ PositionRows \subseteq Rows
    /\ FailedTaskLog \in BOOLEAN
    /\ MaxWriteErrors \in Nat
    /\ Pending \notin Futures
    /\ GivenUp \notin Futures
    /\ Pending # GivenUp

VARIABLES
    pc,          \* where the calling thread is
    rmScores,    \* is "rm_scores" already in the batch?
    fstate,      \* state of every future, kept after it leaves the dict
    futures,     \* keys of the dict `futures`
    done,        \* the rest of the `done` set being iterated
    retries,     \* task['retries'] of each row
    sleeping,    \* row whose retry waits for RETRY_DELAY, 0 if none
    results,     \* the list `results`
    next,        \* next row of the post-processing loop
    reward,      \* reward_tensor: the row whose score it holds, 0 if zero
    scores,      \* reward_extra_info['score']
    positions,   \* reward_extra_info['positions']
    records,     \* lines written to record_name, per row
    failedLog,   \* lines written to the failed-task log, per row
    writeErrors  \* writes that failed so far

taskVars == <<fstate, futures, done, retries, sleeping>>
postVars == <<next, reward, scores, positions>>
fileVars == <<records, failedLog, writeErrors>>
vars == <<pc, rmScores, taskVars, results, postVars, fileVars>>

FutureStates == {"none", "queued", "running", "ok", "exc"}
Finished(f) == fstate[f] \in {"ok", "exc"}
InPool(f) == fstate[f] \in {"queued", "running"}
Running == {f \in Futures : fstate[f] = "running"}
Scored(r) == results[r] \in Futures

Init ==
    /\ pc = "call"
    /\ fstate = [f \in Futures |-> "none"]
    /\ futures = {}
    /\ done = {}
    /\ retries = [r \in Rows |-> 0]
    /\ sleeping = 0
    /\ results = [r \in Rows |-> Pending]
    /\ next = 1
    /\ reward = [r \in Rows |-> 0]
    /\ scores = <<>>
    /\ positions = <<>>
    /\ rmScores \in BOOLEAN
    /\ records = [r \in Rows |-> 0]
    /\ failedLog = [r \in Rows |-> 0]
    /\ writeErrors = 0

-----------------------------------------------------------------------------
(* The calling thread.                                                     *)

\* A batch that already has rm_scores is returned as it is.
ReturnRMScores ==
    /\ pc = "call"
    /\ rmScores
    /\ pc' = "returned"
    /\ UNCHANGED <<rmScores, taskVars, results, postVars, fileVars>>

\* Pack every row and submit it to the pool.
SubmitAll ==
    /\ pc = "call"
    /\ ~rmScores
    /\ pc' = "wait"
    /\ fstate' = [f \in Futures |-> IF f[2] = 0 THEN "queued" ELSE "none"]
    /\ futures' = Rows \X {0}
    /\ UNCHANGED <<rmScores, done, retries, sleeping, results, postVars, fileVars>>

\* concurrent.futures.wait(FIRST_COMPLETED): every future of the dict that is
\* finished now, at least one.
WaitFirstCompleted ==
    /\ pc = "wait"
    /\ done' = {f \in futures : Finished(f)}
    /\ done' # {}
    /\ pc' = "handle"
    /\ UNCHANGED <<rmScores, fstate, futures, retries, sleeping, results,
                   postVars, fileVars>>

LoopHeadIgnoresDict(fs, d) == IF d # {} THEN "handle" ELSE "post"

LoopHeadForever(fs, d) == IF d # {} THEN "handle" ELSE "wait"

\* The inner loop goes on while `done` has futures, the outer one while the
\* dict has; the pool is then shut down with nothing left in it.
LoopHead(fs, d) ==
    IF d # {} THEN "handle" ELSE IF fs # {} THEN "wait" ELSE "post"

\* futures.pop(future)
Pop(f) ==
    /\ pc = "handle"
    /\ f \in done
    /\ done' = done \ {f}

HandleScore(f) ==
    /\ Pop(f)
    /\ fstate[f] = "ok"
    /\ futures' = futures \ {f}
    /\ results' = [results EXCEPT ![f[1]] = f]
    /\ pc' = LoopHead(futures', done')
    /\ UNCHANGED <<rmScores, fstate, retries, sleeping, postVars, fileVars>>

CanRetryOnceMore(r) == retries[r] <= MAX_RETRIES

CanRetryOnceLess(r) == retries[r] + 1 < MAX_RETRIES

CanRetry(r) == retries[r] < MAX_RETRIES

\* A task with budget left: count the retry, then sleep on the calling thread.
HandleRetry(f) ==
    /\ Pop(f)
    /\ fstate[f] = "exc"
    /\ CanRetry(f[1])
    /\ futures' = futures \ {f}
    /\ retries' = [retries EXCEPT ![f[1]] = @ + 1]
    /\ sleeping' = f[1]
    /\ pc' = "sleep"
    /\ UNCHANGED <<rmScores, fstate, results, postVars, fileVars>>

TrackNothing(f) == futures

\* futures[new_future] = task
Track(f) == futures \cup {f}

\* The sleep is over: submit the same task again.
Resubmit ==
    /\ pc = "sleep"
    /\ LET f == <<sleeping, retries[sleeping]>>
       IN /\ fstate' = [fstate EXCEPT ![f] = "queued"]
          /\ futures' = Track(f)
    /\ sleeping' = 0
    /\ pc' = LoopHead(futures', done)
    /\ UNCHANGED <<rmScores, done, retries, results, postVars, fileVars>>

\* No budget left: the row keeps (None, info).
GiveUp(f) ==
    /\ Pop(f)
    /\ fstate[f] = "exc"
    /\ ~CanRetry(f[1])
    /\ futures' = futures \ {f}
    /\ results' = [results EXCEPT ![f[1]] = GivenUp]

LogNothing(r) == failedLog

\* One line for the row, if a log is set.
LogFailure(r) ==
    IF FailedTaskLog THEN [failedLog EXCEPT ![r] = @ + 1] ELSE failedLog

HandleGiveUp(f) ==
    /\ GiveUp(f)
    /\ failedLog' = LogFailure(f[1])
    /\ pc' = LoopHead(futures', done')
    /\ UNCHANGED <<rmScores, fstate, retries, sleeping, postVars, records, writeErrors>>

\* Writing the log line raises: the exception leaves the `with` block.
HandleGiveUpLogError(f) ==
    /\ FailedTaskLog
    /\ writeErrors < MaxWriteErrors
    /\ GiveUp(f)
    /\ writeErrors' = writeErrors + 1
    /\ pc' = "unwind"
    /\ UNCHANGED <<rmScores, fstate, retries, sleeping, postVars, records, failedLog>>

PoolAbandoned == TRUE

\* ThreadPoolExecutor.__exit__ waits for everything still in the pool.
PoolDrained == \A f \in Futures : ~InPool(f)

Unwind ==
    /\ pc = "unwind"
    /\ PoolDrained
    /\ pc' = "raised"
    /\ UNCHANGED <<rmScores, taskVars, results, postVars, fileVars>>

-----------------------------------------------------------------------------
(* The serial pass over `results`.                                         *)

PostSkip ==
    /\ pc = "post"
    /\ next \in Rows
    /\ ~Scored(next)
    /\ next' = next + 1
    /\ UNCHANGED <<pc, rmScores, taskVars, results, reward, scores, positions, fileVars>>

\* The row of reward_tensor the score goes to.
RewardRow == next

\* What one scored row adds to the outputs, before its record is written.
TakeScore ==
    LET source == results[next][1]
    IN /\ pc = "post"
       /\ next \in Rows
       /\ Scored(next)
       /\ scores' = Append(scores, source)
       /\ positions' = IF source \in PositionRows
                       THEN Append(positions, source)
                       ELSE positions
       /\ reward' = [reward EXCEPT ![RewardRow] = source]

PostRow ==
    /\ TakeScore
    /\ records' = [records EXCEPT ![next] = @ + 1]
    /\ next' = next + 1
    /\ UNCHANGED <<pc, rmScores, taskVars, results, failedLog, writeErrors>>

\* write_record raises: the call raises half way through the batch.
PostRowWriteError ==
    /\ TakeScore
    /\ writeErrors < MaxWriteErrors
    /\ writeErrors' = writeErrors + 1
    /\ pc' = "raised"
    /\ UNCHANGED <<rmScores, taskVars, results, next, records, failedLog>>

PostDone ==
    /\ pc = "post"
    /\ next \notin Rows
    /\ pc' = "returned"
    /\ UNCHANGED <<rmScores, taskVars, results, postVars, fileVars>>

-----------------------------------------------------------------------------
(* The pool's worker threads (concurrent.futures, external).               *)

WorkerStart(f) ==
    /\ fstate[f] = "queued"
    /\ Cardinality(Running) < MaxWorkers
    /\ fstate' = [fstate EXCEPT ![f] = "running"]
    /\ UNCHANGED <<pc, rmScores, futures, done, retries, sleeping, results,
                   postVars, fileVars>>

\* compute_score returns or raises.
WorkerFinish(f) ==
    /\ fstate[f] = "running"
    /\ \E outcome \in {"ok", "exc"} : fstate' = [fstate EXCEPT ![f] = outcome]
    /\ UNCHANGED <<pc, rmScores, futures, done, retries, sleeping, results,
                   postVars, fileVars>>

-----------------------------------------------------------------------------

Caller ==
    \/ ReturnRMScores
    \/ SubmitAll
    \/ WaitFirstCompleted
    \/ \E f \in Futures : HandleScore(f)
    \/ \E f \in Futures : HandleRetry(f)
    \/ Resubmit
    \/ \E f \in Futures : HandleGiveUp(f)
    \/ \E f \in Futures : HandleGiveUpLogError(f)
    \/ Unwind
    \/ PostSkip
    \/ PostRow
    \/ PostRowWriteError
    \/ PostDone

Workers ==
    \/ \E f \in Futures : WorkerStart(f)
    \/ \E f \in Futures : WorkerFinish(f)

Next == Caller \/ Workers

Spec == Init /\ [][Next]_vars

\* The calling thread runs, and a worker thread that can take or finish a
\* task does: the OpenAI client times a request out, so compute_score ends.
FairSpec == Spec /\ WF_vars(Caller) /\ WF_vars(Workers)

-----------------------------------------------------------------------------
(* Properties.                                                             *)

PCs == {"call", "wait", "handle", "sleep", "unwind", "post", "returned", "raised"}

\* Every variable holds a value of its type.
TypeOK ==
    /\ pc \in PCs
    /\ rmScores \in BOOLEAN
    /\ fstate \in [Futures -> FutureStates]
    /\ futures \subseteq Futures
    /\ done \subseteq Futures
    /\ retries \in [Rows -> Attempts]
    /\ sleeping \in Rows \cup {0}
    /\ results \in [Rows -> Futures \cup {Pending, GivenUp}]
    /\ next \in 1..(NumTasks + 1)
    /\ reward \in [Rows -> Rows \cup {0}]
    /\ scores \in Seq(Rows)
    /\ positions \in Seq(Rows)
    /\ records \in [Rows -> Nat]
    /\ failedLog \in [Rows -> Nat]
    /\ writeErrors \in Nat

Looping == pc \in {"wait", "handle", "sleep", "post"}

\* No task is lost and none is in two places: from the submission until the
\* end of the serial pass a row has a result, or exactly one future in the
\* dict, or is the one whose retry is being delayed - the hazard of popping a
\* future and adding another while iterating over a stale `done` set.
EveryTaskAccounted ==
    Looping =>
        \A r \in Rows :
            LET inDict == {f \in futures : f[1] = r}
            IN \/ results[r] # Pending /\ inDict = {} /\ sleeping # r
               \/ results[r] = Pending /\ inDict = {} /\ sleeping = r
               \/ /\ results[r] = Pending
                  /\ sleeping # r
                  /\ inDict = {<<r, retries[r]>>}

\* A retry happens only after the attempt before it raised, a score is that
\* of the row's own last attempt, and a row is given up only when all of its
\* 1 + MAX_RETRIES attempts raised.
RetryDiscipline ==
    \A r \in Rows :
        /\ \A a \in Attempts : a > 0 /\ fstate[<<r, a>>] # "none"
                                  => fstate[<<r, a - 1>>] = "exc"
        /\ Scored(r) => /\ results[r] = <<r, retries[r]>>
                        /\ fstate[results[r]] = "ok"
        /\ results[r] = GivenUp => \A a \in Attempts : fstate[<<r, a>>] = "exc"

\* When the call has returned or raised, no thread of its pool is still
\* scoring: a caller that calls again never overlaps the first call's work.
QuiescentAtExit ==
    pc \in {"returned", "raised"} => \A f \in Futures : ~InPool(f)

\* A call that returns has written one record per scored row and one log line
\* per row it gave up (when the log is set): no line is lost or duplicated by
\* a retry.
FilesFollowResults ==
    pc = "returned" /\ ~rmScores =>
        \A r \in Rows :
            /\ records[r] = IF Scored(r) THEN 1 ELSE 0
            /\ failedLog[r] = IF ~Scored(r) /\ FailedTaskLog THEN 1 ELSE 0

\* The call ends, whatever compute_score raises: the loop never waits for a
\* future nobody runs.
CallTerminates == <>(pc \in {"returned", "raised"})

\* The call implements BatchScoring: a row is resolved when its result is
\* stored, and the outputs appear when the call returns.
Batch == INSTANCE BatchScoring WITH
    BatchRows <- Rows,
    NoReward <- 0,
    phase <- IF pc \in {"returned", "raised"} THEN pc ELSE "scoring",
    outcome <- [r \in Rows |-> IF Scored(r) THEN "scored"
                               ELSE IF results[r] = GivenUp THEN "givenup"
                               ELSE "pending"],
    output <- IF pc = "returned" THEN reward ELSE [r \in Rows |-> 0]

\* What the caller may rely on: rows are resolved once and for all, and the
\* call returns only when all are, each score at its own row.
BatchSpec == Batch!ASpec

=============================================================================
