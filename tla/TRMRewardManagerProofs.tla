------------------------ MODULE TRMRewardManagerProofs ------------------------
(***************************************************************************)
(* Proofs about TRMRewardManager: for every batch size, pool size and      *)
(* retry budget, types are kept, no task is lost or duplicated, retries    *)
(* follow failures, the pool is idle when the call ends, and the call      *)
(* implements BatchScoring.                                                *)
(*                                                                         *)
(* None of these is inductive by itself: that a row is in one place needs  *)
(* to know that a future in the dict belongs to the row's current attempt  *)
(* and is in the pool or finished, and that the pool is idle follows from  *)
(* the state of every attempt, past, current and future.  IInv says this.  *)
(***************************************************************************)
EXTENDS TRMRewardManager, TLAPS

\* Before the submission, and in a call that returned rm_scores.
Untouched ==
    /\ \A f \in Futures : fstate[f] = "none"
    /\ futures = {}
    /\ done = {}
    /\ \A r \in Rows : retries[r] = 0 /\ results[r] = Pending
    /\ \A r \in Rows : reward[r] = 0

\* A retry is delayed exactly while the thread sleeps, for an attempt that
\* has not been submitted.
SleepInv ==
    /\ pc = "sleep" => sleeping \in Rows
    /\ pc # "sleep" => sleeping = 0
    /\ \A f \in Futures : sleeping = f[1] =>
         /\ results[f[1]] = Pending
         /\ f[2] = retries[f[1]] => fstate[f] = "none"

\* `done` holds finished futures of the dict, only while it is iterated.
DoneInv ==
    /\ done \subseteq futures
    /\ \A f \in done : Finished(f)
    /\ pc \in {"wait", "post"} => done = {}

\* A future of the dict is the current attempt of a row with no result.
DictInv ==
    /\ \A f \in futures : /\ f[2] = retries[f[1]]
                          /\ fstate[f] # "none"
                          /\ results[f[1]] = Pending
                          /\ sleeping # f[1]
    /\ pc = "post" => futures = {}

\* Attempts beyond the current one do not exist, those before it raised.
AttemptInv ==
    \A f \in Futures :
        /\ f[2] > retries[f[1]] => fstate[f] = "none"
        /\ f[2] < retries[f[1]] => fstate[f] = "exc"

\* A result is that of the row's current attempt, the last one if given up.
ResultInv ==
    \A f \in Futures :
        /\ results[f[1]] = GivenUp => retries[f[1]] = MAX_RETRIES
        /\ f[2] = retries[f[1]] =>
             /\ Scored(f[1]) => results[f[1]] = f /\ fstate[f] = "ok"
             /\ results[f[1]] = GivenUp => fstate[f] = "exc"

\* The current attempt of a row without result is in the dict or sleeping.
PlaceInv ==
    Looping =>
        \A f \in Futures : f[2] = retries[f[1]] =>
            \/ results[f[1]] # Pending
            \/ f \in futures
            \/ sleeping = f[1]

\* The rows before `next` have their rewards, the others none.
RewardInv ==
    /\ pc \in {"wait", "handle", "sleep", "unwind"} => next = 1
    /\ pc \in {"wait", "handle", "sleep", "unwind", "post", "returned"} /\ ~rmScores =>
         \A r \in Rows : reward[r] = IF r < next /\ Scored(r) THEN r ELSE 0
    /\ pc = "returned" /\ ~rmScores => next = NumTasks + 1

IInv ==
    /\ TypeOK
    /\ pc = "call" => Untouched /\ next = 1
    /\ pc # "call" /\ rmScores => pc = "returned" /\ Untouched
    /\ SleepInv
    /\ DoneInv
    /\ DictInv
    /\ AttemptInv
    /\ ResultInv
    /\ PlaceInv
    /\ RewardInv
    /\ QuiescentAtExit
    /\ pc = "post" => \A f \in Futures : ~InPool(f)

-----------------------------------------------------------------------------
(* Futures are pairs.                                                      *)

\* A future is determined by its row and its attempt, and a row by none of
\* the other values a variable may hold.
LEMMA FuturePairs ==
    /\ \A f \in Futures : f[1] \in Rows /\ f[2] \in Attempts
    /\ \A f, g \in Futures : f[1] = g[1] /\ f[2] = g[2] => f = g
    /\ \A r \in Rows, a \in Attempts :
         <<r, a>> \in Futures /\ <<r, a>>[1] = r /\ <<r, a>>[2] = a
    /\ \A f : f \in Rows \X {0} <=> f \in Futures /\ f[2] = 0
    /\ Pending \notin Futures /\ GivenUp \notin Futures /\ Pending # GivenUp
  BY ConstantsAssumption DEF Futures, Rows, Attempts

\* Rows and attempts are natural numbers in the ranges their names say.
LEMMA Ranges ==
    /\ NumTasks \in Nat /\ MAX_RETRIES \in Nat
    /\ \A r : r \in Rows <=> r \in Nat /\ 1 <= r /\ r <= NumTasks
    /\ \A a : a \in Attempts <=> a \in Nat /\ a <= MAX_RETRIES
  BY ConstantsAssumption DEF Rows, Attempts

\* The call starts in the inductive invariant.
LEMMA InitIInv == Init => IInv
  <1> SUFFICES ASSUME Init PROVE IInv
    OBVIOUS
  <1> USE FuturePairs, Ranges DEF Init
  <1>1. TypeOK
    BY ConstantsAssumption DEF TypeOK, PCs, FutureStates
  <1>2. AttemptInv
    BY DEF AttemptInv
  <1>3. Untouched
    BY DEF Untouched
  <1>4. ResultInv
    BY DEF ResultInv, Scored
  <1> QED
    BY <1>1, <1>2, <1>3, <1>4
       DEF IInv, SleepInv, DoneInv, DictInv, PlaceInv, RewardInv, Looping, QuiescentAtExit

-----------------------------------------------------------------------------
(* Every step keeps the invariant: one lemma per kind of action.           *)

\* A future being handled is the current attempt of its row, finished, and the
\* only one of its row in the dict.
LEMMA PopFacts ==
  ASSUME IInv, NEW f \in Futures, Pop(f)
  PROVE  /\ f \in futures /\ Finished(f)
         /\ f[1] \in Rows /\ f[2] \in Attempts
         /\ f[2] = retries[f[1]]
         /\ results[f[1]] = Pending
         /\ pc = "handle" /\ sleeping = 0 /\ ~rmScores
         /\ \A g \in Futures : g[1] = f[1] /\ g[2] = retries[f[1]] => g = f
         /\ \A g \in futures \ {f} : g[1] # f[1]
  <1>1. f \in futures /\ Finished(f) /\ pc = "handle"
    BY DEF Pop, IInv, DoneInv
  <1>2. futures \subseteq Futures
    BY DEF IInv, TypeOK
  <1>3. f[2] = retries[f[1]] /\ results[f[1]] = Pending
    BY <1>1 DEF IInv, DictInv
  <1>4. \A g \in Futures : g[1] = f[1] /\ g[2] = retries[f[1]] => g = f
    BY <1>3, FuturePairs
  <1>5. \A g \in futures \ {f} : g[1] # f[1]
    BY <1>2, <1>4 DEF IInv, DictInv
  <1>6. f[1] \in Rows /\ f[2] \in Attempts
    BY FuturePairs
  <1> QED
    BY <1>1, <1>3, <1>4, <1>5, <1>6 DEF IInv, SleepInv

LEMMA ReturnRMScoresIInv ==
  ASSUME IInv, ReturnRMScores PROVE IInv'
  <1> USE FuturePairs, Ranges
  <1>1. TypeOK'
    BY
       DEF IInv, ReturnRMScores, TypeOK, PCs, FutureStates, LoopHead, taskVars,
           postVars, fileVars
  <1>2. (pc = "call" => Untouched /\ next = 1)'
    BY DEF IInv, ReturnRMScores, Untouched, LoopHead, taskVars, postVars, fileVars
  <1>3. (pc # "call" /\ rmScores => pc = "returned" /\ Untouched)'
    BY DEF IInv, ReturnRMScores, Untouched, LoopHead, taskVars, postVars, fileVars
  <1>4. SleepInv'
    BY DEF IInv, ReturnRMScores, SleepInv, DictInv, LoopHead, taskVars, postVars, fileVars
  <1>5. DoneInv'
    BY
       DEF IInv, ReturnRMScores, DoneInv, DictInv, Finished, LoopHead, taskVars,
           postVars, fileVars
  <1>6. DictInv'
    BY
       DEF IInv, ReturnRMScores, DictInv, DoneInv, SleepInv, LoopHead, taskVars,
           postVars, fileVars
  <1>7. AttemptInv'
    BY
       DEF IInv, ReturnRMScores, AttemptInv, DictInv, LoopHead, taskVars, postVars,
           fileVars
  <1>8. ResultInv'
    BY
       DEF IInv, ReturnRMScores, ResultInv, Scored, DictInv, AttemptInv, LoopHead,
           taskVars, postVars, fileVars
  <1>9. PlaceInv'
    BY
       DEF IInv, ReturnRMScores, PlaceInv, Looping, DictInv, LoopHead, taskVars,
           postVars, fileVars
  <1>10. RewardInv'
    BY DEF IInv, ReturnRMScores, RewardInv, Scored, LoopHead, taskVars, postVars, fileVars
  <1>11. (pc \in {"post", "returned", "raised"} => \A g \in Futures : ~InPool(g))'
    BY
       DEF IInv, ReturnRMScores, InPool, QuiescentAtExit, Untouched, DictInv,
           PlaceInv, SleepInv, AttemptInv, ResultInv, Looping, LoopHead, taskVars,
           postVars, fileVars
  <1> QED
    BY <1>1, <1>2, <1>3, <1>4, <1>5, <1>6, <1>7, <1>8, <1>9, <1>10, <1>11
       DEF IInv, QuiescentAtExit

LEMMA SubmitAllIInv ==
  ASSUME IInv, SubmitAll PROVE IInv'
  <1> USE FuturePairs, Ranges
  <1>f1. Untouched /\ next = 1 /\ ~rmScores /\ sleeping = 0
    BY DEF SubmitAll, IInv, SleepInv
  <1>f2. \A g \in Futures : /\ fstate'[g] = IF g[2] = 0 THEN "queued" ELSE "none"
                            /\ g \in futures' <=> g[2] = 0
                            /\ retries'[g[1]] = 0 /\ results'[g[1]] = Pending
    BY <1>f1 DEF SubmitAll, Untouched
  <1>f3. futures' \subseteq Futures /\ done' = {} /\ sleeping' = 0 /\ pc' = "wait"
    BY <1>f1 DEF SubmitAll, Untouched
  <1>f4. reward' = reward /\ next' = 1 /\ results' = results
    BY <1>f1 DEF SubmitAll, postVars
  <1>f5. \A r \in Rows : reward[r] = 0 /\ results[r] = Pending
    BY <1>f1 DEF Untouched
  <1>f6. \A g \in Futures : ~(g[2] < 0) /\ (g[2] > 0 => g[2] # 0)
    OBVIOUS
  <1>1. TypeOK'
    BY <1>f1, <1>f2, <1>f3, <1>f4, <1>f5, <1>f6
       DEF IInv, SubmitAll, TypeOK, PCs, FutureStates, LoopHead, taskVars, postVars,
           fileVars
  <1>2. (pc = "call" => Untouched /\ next = 1)'
    BY <1>f1, <1>f2, <1>f3, <1>f4, <1>f5, <1>f6
       DEF IInv, SubmitAll, Untouched, LoopHead, taskVars, postVars, fileVars
  <1>3. (pc # "call" /\ rmScores => pc = "returned" /\ Untouched)'
    BY <1>f1, <1>f2, <1>f3, <1>f4, <1>f5, <1>f6
       DEF IInv, SubmitAll, Untouched, LoopHead, taskVars, postVars, fileVars
  <1>4. SleepInv'
    BY <1>f1, <1>f2, <1>f3, <1>f4, <1>f5, <1>f6
       DEF IInv, SubmitAll, SleepInv, DictInv, LoopHead, taskVars, postVars, fileVars
  <1>5. DoneInv'
    BY <1>f1, <1>f2, <1>f3, <1>f4, <1>f5, <1>f6
       DEF IInv, SubmitAll, DoneInv, DictInv, Finished, LoopHead, taskVars, postVars,
           fileVars
  <1>6. DictInv'
    BY <1>f1, <1>f2, <1>f3, <1>f4, <1>f5, <1>f6
       DEF IInv, SubmitAll, DictInv, DoneInv, SleepInv, LoopHead, taskVars, postVars,
           fileVars
  <1>7. AttemptInv'
    <2> SUFFICES ASSUME NEW g \in Futures
                 PROVE  (/\ g[2] > retries[g[1]] => fstate[g] = "none"
                         /\ g[2] < retries[g[1]] => fstate[g] = "exc")'
      BY DEF AttemptInv
    <2> QED
      BY <1>f2, <1>f6
  <1>8. ResultInv'
    BY <1>f1, <1>f2, <1>f3, <1>f4, <1>f5, <1>f6
       DEF IInv, SubmitAll, ResultInv, Scored, DictInv, AttemptInv, LoopHead,
           taskVars, postVars, fileVars
  <1>9. PlaceInv'
    <2> SUFFICES ASSUME NEW g \in Futures, (g[2] = retries[g[1]])'
                 PROVE  g \in futures'
      BY DEF PlaceInv
    <2> QED
      BY <1>f2
  <1>10. RewardInv'
    BY <1>f1, <1>f2, <1>f3, <1>f4, <1>f5, <1>f6
       DEF IInv, SubmitAll, RewardInv, Scored, LoopHead, taskVars, postVars, fileVars
  <1>11. (pc \in {"post", "returned", "raised"} => \A g \in Futures : ~InPool(g))'
    BY <1>f1, <1>f2, <1>f3, <1>f4, <1>f5, <1>f6
       DEF IInv, SubmitAll, InPool, QuiescentAtExit, Untouched, DictInv, PlaceInv,
           SleepInv, AttemptInv, ResultInv, Looping, LoopHead, taskVars, postVars,
           fileVars
  <1> QED
    BY <1>1, <1>2, <1>3, <1>4, <1>5, <1>6, <1>7, <1>8, <1>9, <1>10, <1>11
       DEF IInv, QuiescentAtExit

LEMMA WaitFirstCompletedIInv ==
  ASSUME IInv, WaitFirstCompleted PROVE IInv'
  <1> USE FuturePairs, Ranges
  <1>1. TypeOK'
    BY
       DEF IInv, WaitFirstCompleted, TypeOK, PCs, FutureStates, LoopHead, taskVars,
           postVars, fileVars
  <1>2. (pc = "call" => Untouched /\ next = 1)'
    BY DEF IInv, WaitFirstCompleted, Untouched, LoopHead, taskVars, postVars, fileVars
  <1>3. (pc # "call" /\ rmScores => pc = "returned" /\ Untouched)'
    BY DEF IInv, WaitFirstCompleted, Untouched, LoopHead, taskVars, postVars, fileVars
  <1>4. SleepInv'
    BY
       DEF IInv, WaitFirstCompleted, SleepInv, DictInv, LoopHead, taskVars, postVars,
           fileVars
  <1>5. DoneInv'
    BY
       DEF IInv, WaitFirstCompleted, DoneInv, DictInv, Finished, LoopHead, taskVars,
           postVars, fileVars
  <1>6. DictInv'
    BY
       DEF IInv, WaitFirstCompleted, DictInv, DoneInv, SleepInv, LoopHead, taskVars,
           postVars, fileVars
  <1>7. AttemptInv'
    BY
       DEF IInv, WaitFirstCompleted, AttemptInv, DictInv, LoopHead, taskVars,
           postVars, fileVars
  <1>8. ResultInv'
    BY
       DEF IInv, WaitFirstCompleted, ResultInv, Scored, DictInv, AttemptInv,
           LoopHead, taskVars, postVars, fileVars
  <1>9. PlaceInv'
    BY
       DEF IInv, WaitFirstCompleted, PlaceInv, Looping, DictInv, LoopHead, taskVars,
           postVars, fileVars
  <1>10. RewardInv'
    BY
       DEF IInv, WaitFirstCompleted, RewardInv, Scored, LoopHead, taskVars, postVars,
           fileVars
  <1>11. (pc \in {"post", "returned", "raised"} => \A g \in Futures : ~InPool(g))'
    BY
       DEF IInv, WaitFirstCompleted, InPool, QuiescentAtExit, Untouched, DictInv,
           PlaceInv, SleepInv, AttemptInv, ResultInv, Looping, LoopHead, taskVars,
           postVars, fileVars
  <1> QED
    BY <1>1, <1>2, <1>3, <1>4, <1>5, <1>6, <1>7, <1>8, <1>9, <1>10, <1>11
       DEF IInv, QuiescentAtExit

LEMMA HandleScoreIInv ==
  ASSUME IInv, NEW f \in Futures, HandleScore(f) PROVE IInv'
  <1> USE FuturePairs, Ranges
  <1>f1. f \in Futures /\ Pop(f)
    BY DEF HandleScore
  <1>f2. /\ f \in futures /\ Finished(f) /\ f[1] \in Rows /\ f[2] \in Attempts
         /\ f[2] = retries[f[1]] /\ results[f[1]] = Pending
         /\ pc = "handle" /\ sleeping = 0 /\ ~rmScores
         /\ \A g \in Futures : g[1] = f[1] /\ g[2] = retries[f[1]] => g = f
         /\ \A g \in futures \ {f} : g[1] # f[1]
    BY <1>f1, PopFacts
  <1>f3. /\ results' \in [Rows -> Futures \cup {Pending, GivenUp}]
         /\ \A r \in Rows : results'[r] = IF r = f[1] THEN f ELSE results[r]
    BY <1>f2 DEF HandleScore, IInv, TypeOK
  <1>1. TypeOK'
    BY <1>f1, <1>f2, <1>f3
       DEF IInv, HandleScore, Pop, TypeOK, PCs, FutureStates, LoopHead, taskVars,
           postVars, fileVars
  <1>2. (pc = "call" => Untouched /\ next = 1)'
    BY <1>f1, <1>f2, <1>f3
       DEF IInv, HandleScore, Pop, Untouched, LoopHead, taskVars, postVars, fileVars
  <1>3. (pc # "call" /\ rmScores => pc = "returned" /\ Untouched)'
    BY <1>f1, <1>f2, <1>f3
       DEF IInv, HandleScore, Pop, Untouched, LoopHead, taskVars, postVars, fileVars
  <1>4. SleepInv'
    BY <1>f1, <1>f2, <1>f3
       DEF IInv, HandleScore, Pop, SleepInv, DictInv, LoopHead, taskVars, postVars,
           fileVars
  <1>5. DoneInv'
    BY <1>f1, <1>f2, <1>f3
       DEF IInv, HandleScore, Pop, DoneInv, DictInv, Finished, LoopHead, taskVars,
           postVars, fileVars
  <1>6. DictInv'
    BY <1>f1, <1>f2, <1>f3
       DEF IInv, HandleScore, Pop, DictInv, DoneInv, SleepInv, LoopHead, taskVars,
           postVars, fileVars
  <1>7. AttemptInv'
    BY <1>f1, <1>f2, <1>f3
       DEF IInv, HandleScore, Pop, AttemptInv, DictInv, LoopHead, taskVars, postVars,
           fileVars
  <1>8. ResultInv'
    BY <1>f1, <1>f2, <1>f3
       DEF IInv, HandleScore, Pop, ResultInv, Scored, DictInv, AttemptInv, LoopHead,
           taskVars, postVars, fileVars
  <1>9. PlaceInv'
    BY <1>f1, <1>f2, <1>f3
       DEF IInv, HandleScore, Pop, PlaceInv, Looping, DictInv, LoopHead, taskVars,
           postVars, fileVars
  <1>10. RewardInv'
    BY <1>f1, <1>f2, <1>f3
       DEF IInv, HandleScore, Pop, RewardInv, Scored, LoopHead, taskVars, postVars,
           fileVars
  <1>11. (pc \in {"post", "returned", "raised"} => \A g \in Futures : ~InPool(g))'
    <2> SUFFICES ASSUME pc' = "post", NEW g \in Futures PROVE ~InPool(g)'
      BY <1>f1, <1>f2 DEF LoopHead, HandleScore
    <2>1. futures' = {} /\ sleeping' = 0
      BY <1>4, <1>6 DEF DictInv, SleepInv
    <2>2. retries'[g[1]] \in Nat /\ g[2] \in Nat
      BY <1>1 DEF TypeOK
    <2>3. CASE g[2] # retries'[g[1]]
      BY <1>7, <2>2, <2>3 DEF AttemptInv, InPool
    <2>4. CASE g[2] = retries'[g[1]]
      <3>1. results'[g[1]] \in Futures \cup {GivenUp}
        BY <1>1, <1>9, <2>1, <2>4 DEF TypeOK, PlaceInv, Looping
      <3> QED
        BY <1>8, <2>4, <3>1 DEF ResultInv, Scored, InPool
    <2> QED
      BY <2>3, <2>4
  <1> QED
    BY <1>1, <1>2, <1>3, <1>4, <1>5, <1>6, <1>7, <1>8, <1>9, <1>10, <1>11
       DEF IInv, QuiescentAtExit

LEMMA HandleRetryIInv ==
  ASSUME IInv, NEW f \in Futures, HandleRetry(f) PROVE IInv'
  <1> USE FuturePairs, Ranges
  <1>f1. f \in Futures /\ Pop(f)
    BY DEF HandleRetry
  <1>f2. /\ f \in futures /\ Finished(f) /\ f[1] \in Rows /\ f[2] \in Attempts
         /\ f[2] = retries[f[1]] /\ results[f[1]] = Pending
         /\ pc = "handle" /\ sleeping = 0 /\ ~rmScores
         /\ \A g \in Futures : g[1] = f[1] /\ g[2] = retries[f[1]] => g = f
         /\ \A g \in futures \ {f} : g[1] # f[1]
    BY <1>f1, PopFacts
  <1>f3. /\ fstate[f] = "exc" /\ retries[f[1]] < MAX_RETRIES
         /\ retries[f[1]] \in Attempts /\ retries[f[1]] + 1 \in Attempts
    BY <1>f2 DEF HandleRetry, CanRetry
  <1>f4. /\ retries' \in [Rows -> Attempts]
         /\ \A r \in Rows : retries'[r] = IF r = f[1] THEN retries[r] + 1 ELSE retries[r]
    BY <1>f2, <1>f3 DEF HandleRetry, IInv, TypeOK
  <1>f5. \A g \in Futures : retries[g[1]] \in Nat /\ g[2] \in Nat
    BY DEF IInv, TypeOK
  <1>f6. pc' = "sleep" /\ sleeping' = f[1] /\ fstate' = fstate /\ results' = results /\ futures' = futures \ {f}
    BY DEF HandleRetry
  <1>1. TypeOK'
    <2>1. futures' \subseteq Futures /\ done' \subseteq Futures
      BY DEF HandleRetry, Pop, IInv, TypeOK
    <2>2. pc' \in PCs /\ sleeping' \in Rows \cup {0} /\ retries' \in [Rows -> Attempts]
      BY <1>f2, <1>f4, <1>f6 DEF PCs
    <2>3. UNCHANGED <<rmScores, fstate, results, next, reward, scores, positions,
                      records, failedLog, writeErrors>>
      BY DEF HandleRetry, postVars, fileVars
    <2> QED
      BY <2>1, <2>2, <2>3 DEF IInv, TypeOK
  <1>2. (pc = "call" => Untouched /\ next = 1)'
    BY <1>f1, <1>f2, <1>f3, <1>f4, <1>f5, <1>f6
       DEF IInv, HandleRetry, Pop, CanRetry, Untouched, LoopHead, taskVars, postVars,
           fileVars
  <1>3. (pc # "call" /\ rmScores => pc = "returned" /\ Untouched)'
    BY <1>f1, <1>f2, <1>f3, <1>f4, <1>f5, <1>f6
       DEF IInv, HandleRetry, Pop, CanRetry, Untouched, LoopHead, taskVars, postVars,
           fileVars
  <1>4. SleepInv'
    <2>1. ASSUME NEW g \in Futures, f[1] = g[1]
          PROVE  results'[g[1]] = Pending /\ (g[2] = retries'[g[1]] => fstate'[g] = "none")
      BY <1>f2, <1>f3, <1>f4, <1>f5, <1>f6, <2>1 DEF IInv, AttemptInv
    <2> QED
      BY <1>f2, <1>f6, <2>1 DEF SleepInv
  <1>5. DoneInv'
    BY <1>f1, <1>f2, <1>f3, <1>f4, <1>f5, <1>f6
       DEF IInv, HandleRetry, Pop, CanRetry, DoneInv, DictInv, Finished, LoopHead,
           taskVars, postVars, fileVars
  <1>6. DictInv'
    BY <1>f1, <1>f2, <1>f3, <1>f4, <1>f5, <1>f6
       DEF IInv, HandleRetry, Pop, CanRetry, DictInv, DoneInv, SleepInv, LoopHead,
           taskVars, postVars, fileVars
  <1>7. AttemptInv'
    BY <1>f1, <1>f2, <1>f3, <1>f4, <1>f5, <1>f6
       DEF IInv, HandleRetry, Pop, CanRetry, AttemptInv, DictInv, LoopHead, taskVars,
           postVars, fileVars
  <1>8. ResultInv'
    BY <1>f1, <1>f2, <1>f3, <1>f4, <1>f5, <1>f6
       DEF IInv, HandleRetry, Pop, CanRetry, ResultInv, Scored, DictInv, AttemptInv,
           LoopHead, taskVars, postVars, fileVars
  <1>9. PlaceInv'
    BY <1>f1, <1>f2, <1>f3, <1>f4, <1>f5, <1>f6
       DEF IInv, HandleRetry, Pop, CanRetry, PlaceInv, Looping, DictInv, LoopHead,
           taskVars, postVars, fileVars
  <1>10. RewardInv'
    BY <1>f1, <1>f2, <1>f3, <1>f4, <1>f5, <1>f6
       DEF IInv, HandleRetry, Pop, CanRetry, RewardInv, Scored, LoopHead, taskVars,
           postVars, fileVars
  <1>11. (pc \in {"post", "returned", "raised"} => \A g \in Futures : ~InPool(g))'
    BY <1>f1, <1>f2, <1>f3, <1>f4, <1>f5, <1>f6
       DEF IInv, HandleRetry, Pop, CanRetry, InPool, QuiescentAtExit, Untouched,
           DictInv, PlaceInv, SleepInv, AttemptInv, ResultInv, Looping, LoopHead,
           taskVars, postVars, fileVars
  <1> QED
    BY <1>1, <1>2, <1>3, <1>4, <1>5, <1>6, <1>7, <1>8, <1>9, <1>10, <1>11
       DEF IInv, QuiescentAtExit

LEMMA ResubmitIInv ==
  ASSUME IInv, Resubmit PROVE IInv'
  <1> USE FuturePairs, Ranges
  <1>f1. pc = "sleep" /\ sleeping \in Rows /\ retries[sleeping] \in Attempts /\ results[sleeping] = Pending
    BY DEF Resubmit, IInv, SleepInv, TypeOK
  <1>f2. PICK h \in Futures : h = <<sleeping, retries[sleeping]>> /\ h[1] = sleeping /\ h[2] = retries[sleeping]
    BY <1>f1, ZenonT(40)
  <1>f3. /\ futures' = futures \cup {h} /\ done' = done /\ sleeping' = 0
         /\ fstate' = [fstate EXCEPT ![h] = "queued"]
         /\ retries' = retries /\ results' = results /\ pc' \in {"wait", "handle"}
    BY <1>f2 DEF Resubmit, Track, LoopHead
  <1>1. TypeOK'
    BY <1>f1, <1>f2, <1>f3
       DEF IInv, Resubmit, Track, TypeOK, PCs, FutureStates, LoopHead, taskVars,
           postVars, fileVars
  <1>2. (pc = "call" => Untouched /\ next = 1)'
    BY <1>f1, <1>f2, <1>f3
       DEF IInv, Resubmit, Track, Untouched, LoopHead, taskVars, postVars, fileVars
  <1>3. (pc # "call" /\ rmScores => pc = "returned" /\ Untouched)'
    BY <1>f1, <1>f2, <1>f3
       DEF IInv, Resubmit, Track, Untouched, LoopHead, taskVars, postVars, fileVars
  <1>4. SleepInv'
    BY <1>f1, <1>f2, <1>f3
       DEF IInv, Resubmit, Track, SleepInv, DictInv, LoopHead, taskVars, postVars,
           fileVars
  <1>5. DoneInv'
    BY <1>f1, <1>f2, <1>f3
       DEF IInv, Resubmit, Track, DoneInv, DictInv, Finished, LoopHead, taskVars,
           postVars, fileVars
  <1>6. DictInv'
    <2>1. ASSUME NEW g \in futures'
          PROVE  /\ g[2] = retries'[g[1]]
                 /\ fstate'[g] # "none"
                 /\ results'[g[1]] = Pending
                 /\ sleeping' # g[1]
      <3>1. g \in Futures /\ g[1] \in Rows
        BY <1>f3, <2>1 DEF IInv, TypeOK
      <3>2. CASE g = h
        BY <1>f1, <1>f2, <1>f3, <3>1, <3>2 DEF IInv, TypeOK
      <3>3. CASE g # h
        BY <1>f3, <2>1, <3>1, <3>3 DEF IInv, TypeOK, DictInv
      <3> QED
        BY <3>2, <3>3
    <2> QED
      BY <1>f3, <2>1 DEF DictInv
  <1>7. AttemptInv'
    BY <1>f1, <1>f2, <1>f3
       DEF IInv, Resubmit, Track, AttemptInv, DictInv, LoopHead, taskVars, postVars,
           fileVars
  <1>8. ResultInv'
    BY <1>f1, <1>f2, <1>f3
       DEF IInv, Resubmit, Track, ResultInv, Scored, DictInv, AttemptInv, LoopHead,
           taskVars, postVars, fileVars
  <1>9. PlaceInv'
    BY <1>f1, <1>f2, <1>f3
       DEF IInv, Resubmit, Track, PlaceInv, Looping, DictInv, LoopHead, taskVars,
           postVars, fileVars
  <1>10. RewardInv'
    BY <1>f1, <1>f2, <1>f3
       DEF IInv, Resubmit, Track, RewardInv, Scored, LoopHead, taskVars, postVars,
           fileVars
  <1>11. (pc \in {"post", "returned", "raised"} => \A g \in Futures : ~InPool(g))'
    BY <1>f1, <1>f2, <1>f3
       DEF IInv, Resubmit, Track, InPool, QuiescentAtExit, Untouched, DictInv,
           PlaceInv, SleepInv, AttemptInv, ResultInv, Looping, LoopHead, taskVars,
           postVars, fileVars
  <1> QED
    BY <1>1, <1>2, <1>3, <1>4, <1>5, <1>6, <1>7, <1>8, <1>9, <1>10, <1>11
       DEF IInv, QuiescentAtExit

LEMMA HandleGiveUpIInv ==
  ASSUME IInv, NEW f \in Futures, HandleGiveUp(f) PROVE IInv'
  <1> USE FuturePairs, Ranges
  <1>f1. f \in Futures /\ Pop(f)
    BY DEF HandleGiveUp, GiveUp
  <1>f2. /\ f \in futures /\ Finished(f) /\ f[1] \in Rows /\ f[2] \in Attempts
         /\ f[2] = retries[f[1]] /\ results[f[1]] = Pending
         /\ pc = "handle" /\ sleeping = 0 /\ ~rmScores
         /\ \A g \in Futures : g[1] = f[1] /\ g[2] = retries[f[1]] => g = f
         /\ \A g \in futures \ {f} : g[1] # f[1]
    BY <1>f1, PopFacts
  <1>f3. /\ fstate[f] = "exc" /\ retries[f[1]] = MAX_RETRIES
    BY <1>f2 DEF HandleGiveUp, GiveUp, CanRetry
  <1>f4. /\ results' \in [Rows -> Futures \cup {Pending, GivenUp}]
         /\ \A r \in Rows : results'[r] = IF r = f[1] THEN GivenUp ELSE results[r]
    BY <1>f2 DEF HandleGiveUp, GiveUp, IInv, TypeOK
  <1>f5. failedLog' \in [Rows -> Nat] /\ writeErrors' \in Nat
    <2>1. failedLog \in [Rows -> Nat] /\ writeErrors \in Nat
      BY DEF IInv, TypeOK
    <2>2. failedLog' = LogFailure(f[1]) /\ writeErrors' = writeErrors
      BY DEF HandleGiveUp
    <2> QED
      BY <1>f2, <2>1, <2>2 DEF LogFailure
  <1>1. TypeOK'
    BY <1>f1, <1>f2, <1>f3, <1>f4, <1>f5
       DEF IInv, HandleGiveUp, GiveUp, Pop, CanRetry, LogFailure, TypeOK, PCs,
           FutureStates, LoopHead, taskVars, postVars, fileVars
  <1>2. (pc = "call" => Untouched /\ next = 1)'
    BY <1>f1, <1>f2, <1>f3, <1>f4, <1>f5
       DEF IInv, HandleGiveUp, GiveUp, Pop, CanRetry, LogFailure, Untouched,
           LoopHead, taskVars, postVars, fileVars
  <1>3. (pc # "call" /\ rmScores => pc = "returned" /\ Untouched)'
    BY <1>f1, <1>f2, <1>f3, <1>f4, <1>f5
       DEF IInv, HandleGiveUp, GiveUp, Pop, CanRetry, LogFailure, Untouched,
           LoopHead, taskVars, postVars, fileVars
  <1>4. SleepInv'
    BY <1>f1, <1>f2, <1>f3, <1>f4, <1>f5
       DEF IInv, HandleGiveUp, GiveUp, Pop, CanRetry, LogFailure, SleepInv, DictInv,
           LoopHead, taskVars, postVars, fileVars
  <1>5. DoneInv'
    BY <1>f1, <1>f2, <1>f3, <1>f4, <1>f5
       DEF IInv, HandleGiveUp, GiveUp, Pop, CanRetry, LogFailure, DoneInv, DictInv,
           Finished, LoopHead, taskVars, postVars, fileVars
  <1>6. DictInv'
    BY <1>f1, <1>f2, <1>f3, <1>f4, <1>f5
       DEF IInv, HandleGiveUp, GiveUp, Pop, CanRetry, LogFailure, DictInv, DoneInv,
           SleepInv, LoopHead, taskVars, postVars, fileVars
  <1>7. AttemptInv'
    BY <1>f1, <1>f2, <1>f3, <1>f4, <1>f5
       DEF IInv, HandleGiveUp, GiveUp, Pop, CanRetry, LogFailure, AttemptInv,
           DictInv, LoopHead, taskVars, postVars, fileVars
  <1>8. ResultInv'
    BY <1>f1, <1>f2, <1>f3, <1>f4, <1>f5
       DEF IInv, HandleGiveUp, GiveUp, Pop, CanRetry, LogFailure, ResultInv, Scored,
           DictInv, AttemptInv, LoopHead, taskVars, postVars, fileVars
  <1>9. PlaceInv'
    BY <1>f1, <1>f2, <1>f3, <1>f4, <1>f5
       DEF IInv, HandleGiveUp, GiveUp, Pop, CanRetry, LogFailure, PlaceInv, Looping,
           DictInv, LoopHead, taskVars, postVars, fileVars
  <1>10. RewardInv'
    BY <1>f1, <1>f2, <1>f3, <1>f4, <1>f5
       DEF IInv, HandleGiveUp, GiveUp, Pop, CanRetry, LogFailure, RewardInv, Scored,
           LoopHead, taskVars, postVars, fileVars
  <1>11. (pc \in {"post", "returned", "raised"} => \A g \in Futures : ~InPool(g))'
    <2> SUFFICES ASSUME pc' = "post", NEW g \in Futures PROVE ~InPool(g)'
      BY <1>f1, <1>f2 DEF LoopHead, HandleGiveUp, GiveUp
    <2>1. futures' = {} /\ sleeping' = 0
      BY <1>4, <1>6 DEF DictInv, SleepInv
    <2>2. retries'[g[1]] \in Nat /\ g[2] \in Nat
      BY <1>1 DEF TypeOK
    <2>3. CASE g[2] # retries'[g[1]]
      BY <1>7, <2>2, <2>3 DEF AttemptInv, InPool
    <2>4. CASE g[2] = retries'[g[1]]
      <3>1. results'[g[1]] \in Futures \cup {GivenUp}
        BY <1>1, <1>9, <2>1, <2>4 DEF TypeOK, PlaceInv, Looping
      <3> QED
        BY <1>8, <2>4, <3>1 DEF ResultInv, Scored, InPool
    <2> QED
      BY <2>3, <2>4
  <1> QED
    BY <1>1, <1>2, <1>3, <1>4, <1>5, <1>6, <1>7, <1>8, <1>9, <1>10, <1>11
       DEF IInv, QuiescentAtExit

LEMMA HandleGiveUpLogErrorIInv ==
  ASSUME IInv, NEW f \in Futures, HandleGiveUpLogError(f) PROVE IInv'
  <1> USE FuturePairs, Ranges
  <1>f1. f \in Futures /\ Pop(f)
    BY DEF HandleGiveUpLogError, GiveUp
  <1>f2. /\ f \in futures /\ Finished(f) /\ f[1] \in Rows /\ f[2] \in Attempts
         /\ f[2] = retries[f[1]] /\ results[f[1]] = Pending
         /\ pc = "handle" /\ sleeping = 0 /\ ~rmScores
         /\ \A g \in Futures : g[1] = f[1] /\ g[2] = retries[f[1]] => g = f
         /\ \A g \in futures \ {f} : g[1] # f[1]
    BY <1>f1, PopFacts
  <1>f3. /\ fstate[f] = "exc" /\ retries[f[1]] = MAX_RETRIES
    BY <1>f2 DEF HandleGiveUpLogError, GiveUp, CanRetry
  <1>f4. /\ results' \in [Rows -> Futures \cup {Pending, GivenUp}]
         /\ \A r \in Rows : results'[r] = IF r = f[1] THEN GivenUp ELSE results[r]
    BY <1>f2 DEF HandleGiveUpLogError, GiveUp, IInv, TypeOK
  <1>f5. failedLog' \in [Rows -> Nat] /\ writeErrors' \in Nat
    <2>1. failedLog \in [Rows -> Nat] /\ writeErrors \in Nat
      BY DEF IInv, TypeOK
    <2>2. failedLog' = failedLog /\ writeErrors' = writeErrors + 1
      BY DEF HandleGiveUpLogError
    <2> QED
      BY <2>1, <2>2
  <1>1. TypeOK'
    BY <1>f1, <1>f2, <1>f3, <1>f4, <1>f5
       DEF IInv, HandleGiveUpLogError, GiveUp, Pop, CanRetry, TypeOK, PCs,
           FutureStates, LoopHead, taskVars, postVars, fileVars
  <1>2. (pc = "call" => Untouched /\ next = 1)'
    BY <1>f1, <1>f2, <1>f3, <1>f4, <1>f5
       DEF IInv, HandleGiveUpLogError, GiveUp, Pop, CanRetry, Untouched, LoopHead,
           taskVars, postVars, fileVars
  <1>3. (pc # "call" /\ rmScores => pc = "returned" /\ Untouched)'
    BY <1>f1, <1>f2, <1>f3, <1>f4, <1>f5
       DEF IInv, HandleGiveUpLogError, GiveUp, Pop, CanRetry, Untouched, LoopHead,
           taskVars, postVars, fileVars
  <1>4. SleepInv'
    BY <1>f1, <1>f2, <1>f3, <1>f4, <1>f5
       DEF IInv, HandleGiveUpLogError, GiveUp, Pop, CanRetry, SleepInv, DictInv,
           LoopHead, taskVars, postVars, fileVars
  <1>5. DoneInv'
    BY <1>f1, <1>f2, <1>f3, <1>f4, <1>f5
       DEF IInv, HandleGiveUpLogError, GiveUp, Pop, CanRetry, DoneInv, DictInv,
           Finished, LoopHead, taskVars, postVars, fileVars
  <1>6. DictInv'
    BY <1>f1, <1>f2, <1>f3, <1>f4, <1>f5
       DEF IInv, HandleGiveUpLogError, GiveUp, Pop, CanRetry, DictInv, DoneInv,
           SleepInv, LoopHead, taskVars, postVars, fileVars
  <1>7. AttemptInv'
    BY <1>f1, <1>f2, <1>f3, <1>f4, <1>f5
       DEF IInv, HandleGiveUpLogError, GiveUp, Pop, CanRetry, AttemptInv, DictInv,
           LoopHead, taskVars, postVars, fileVars
  <1>8. ResultInv'
    BY <1>f1, <1>f2, <1>f3, <1>f4, <1>f5
       DEF IInv, HandleGiveUpLogError, GiveUp, Pop, CanRetry, ResultInv, Scored,
           DictInv, AttemptInv, LoopHead, taskVars, postVars, fileVars
  <1>9. PlaceInv'
    BY <1>f1, <1>f2, <1>f3, <1>f4, <1>f5
       DEF IInv, HandleGiveUpLogError, GiveUp, Pop, CanRetry, PlaceInv, Looping,
           DictInv, LoopHead, taskVars, postVars, fileVars
  <1>10. RewardInv'
    BY <1>f1, <1>f2, <1>f3, <1>f4, <1>f5
       DEF IInv, HandleGiveUpLogError, GiveUp, Pop, CanRetry, RewardInv, Scored,
           LoopHead, taskVars, postVars, fileVars
  <1>11. (pc \in {"post", "returned", "raised"} => \A g \in Futures : ~InPool(g))'
    BY <1>f1, <1>f2, <1>f3, <1>f4, <1>f5
       DEF IInv, HandleGiveUpLogError, GiveUp, Pop, CanRetry, InPool,
           QuiescentAtExit, Untouched, DictInv, PlaceInv, SleepInv, AttemptInv,
           ResultInv, Looping, LoopHead, taskVars, postVars, fileVars
  <1> QED
    BY <1>1, <1>2, <1>3, <1>4, <1>5, <1>6, <1>7, <1>8, <1>9, <1>10, <1>11
       DEF IInv, QuiescentAtExit

LEMMA UnwindIInv ==
  ASSUME IInv, Unwind PROVE IInv'
  <1> USE FuturePairs, Ranges
  <1>1. TypeOK'
    BY
       DEF IInv, Unwind, PoolDrained, TypeOK, PCs, FutureStates, LoopHead, taskVars,
           postVars, fileVars
  <1>2. (pc = "call" => Untouched /\ next = 1)'
    BY DEF IInv, Unwind, PoolDrained, Untouched, LoopHead, taskVars, postVars, fileVars
  <1>3. (pc # "call" /\ rmScores => pc = "returned" /\ Untouched)'
    BY DEF IInv, Unwind, PoolDrained, Untouched, LoopHead, taskVars, postVars, fileVars
  <1>4. SleepInv'
    BY
       DEF IInv, Unwind, PoolDrained, SleepInv, DictInv, LoopHead, taskVars,
           postVars, fileVars
  <1>5. DoneInv'
    BY
       DEF IInv, Unwind, PoolDrained, DoneInv, DictInv, Finished, LoopHead, taskVars,
           postVars, fileVars
  <1>6. DictInv'
    BY
       DEF IInv, Unwind, PoolDrained, DictInv, DoneInv, SleepInv, LoopHead, taskVars,
           postVars, fileVars
  <1>7. AttemptInv'
    BY
       DEF IInv, Unwind, PoolDrained, AttemptInv, DictInv, LoopHead, taskVars,
           postVars, fileVars
  <1>8. ResultInv'
    BY
       DEF IInv, Unwind, PoolDrained, ResultInv, Scored, DictInv, AttemptInv,
           LoopHead, taskVars, postVars, fileVars
  <1>9. PlaceInv'
    BY
       DEF IInv, Unwind, PoolDrained, PlaceInv, Looping, DictInv, LoopHead, taskVars,
           postVars, fileVars
  <1>10. RewardInv'
    BY
       DEF IInv, Unwind, PoolDrained, RewardInv, Scored, LoopHead, taskVars,
           postVars, fileVars
  <1>11. (pc \in {"post", "returned", "raised"} => \A g \in Futures : ~InPool(g))'
    BY
       DEF IInv, Unwind, PoolDrained, InPool, QuiescentAtExit, Untouched, DictInv,
           PlaceInv, SleepInv, AttemptInv, ResultInv, Looping, LoopHead, taskVars,
           postVars, fileVars
  <1> QED
    BY <1>1, <1>2, <1>3, <1>4, <1>5, <1>6, <1>7, <1>8, <1>9, <1>10, <1>11
       DEF IInv, QuiescentAtExit

LEMMA PostSkipIInv ==
  ASSUME IInv, PostSkip PROVE IInv'
  <1> USE FuturePairs, Ranges
  <1>f1. next \in Rows /\ next + 1 \in 1..(NumTasks + 1) /\ next' = next + 1
    BY DEF PostSkip
  <1>1. TypeOK'
    BY <1>f1, SMTT(30)
       DEF IInv, PostSkip, TypeOK, PCs, FutureStates, LoopHead, taskVars, postVars,
           fileVars
  <1>2. (pc = "call" => Untouched /\ next = 1)'
    BY <1>f1 DEF IInv, PostSkip, Untouched, LoopHead, taskVars, postVars, fileVars
  <1>3. (pc # "call" /\ rmScores => pc = "returned" /\ Untouched)'
    BY <1>f1 DEF IInv, PostSkip, Untouched, LoopHead, taskVars, postVars, fileVars
  <1>4. SleepInv'
    BY <1>f1 DEF IInv, PostSkip, SleepInv, DictInv, LoopHead, taskVars, postVars, fileVars
  <1>5. DoneInv'
    BY <1>f1
       DEF IInv, PostSkip, DoneInv, DictInv, Finished, LoopHead, taskVars, postVars,
           fileVars
  <1>6. DictInv'
    BY <1>f1
       DEF IInv, PostSkip, DictInv, DoneInv, SleepInv, LoopHead, taskVars, postVars,
           fileVars
  <1>7. AttemptInv'
    BY <1>f1
       DEF IInv, PostSkip, AttemptInv, DictInv, LoopHead, taskVars, postVars,
           fileVars
  <1>8. ResultInv'
    BY <1>f1
       DEF IInv, PostSkip, ResultInv, Scored, DictInv, AttemptInv, LoopHead,
           taskVars, postVars, fileVars
  <1>9. PlaceInv'
    BY <1>f1
       DEF IInv, PostSkip, PlaceInv, Looping, DictInv, LoopHead, taskVars, postVars,
           fileVars
  <1>10. RewardInv'
    BY <1>f1 DEF IInv, PostSkip, RewardInv, Scored, LoopHead, taskVars, postVars, fileVars
  <1>11. (pc \in {"post", "returned", "raised"} => \A g \in Futures : ~InPool(g))'
    BY <1>f1
       DEF IInv, PostSkip, InPool, QuiescentAtExit, Untouched, DictInv, PlaceInv,
           SleepInv, AttemptInv, ResultInv, Looping, LoopHead, taskVars, postVars,
           fileVars
  <1> QED
    BY <1>1, <1>2, <1>3, <1>4, <1>5, <1>6, <1>7, <1>8, <1>9, <1>10, <1>11
       DEF IInv, QuiescentAtExit

LEMMA PostRowIInv ==
  ASSUME IInv, PostRow PROVE IInv'
  <1> USE FuturePairs, Ranges
  <1>f1. pc = "post" /\ ~rmScores /\ next \in Rows /\ Scored(next) /\ next + 1 \in 1..(NumTasks + 1)
    BY DEF PostRow, TakeScore, IInv
  <1>f2. <<next, retries[next]>> \in Futures /\ results[next][1] = next
    <2>1. retries[next] \in Attempts
      BY <1>f1 DEF IInv, TypeOK
    <2>2. PICK g \in Futures : g[1] = next /\ g[2] = retries[next] /\ g = <<next, retries[next]>>
      BY <1>f1, <2>1
    <2>3. results[next] = g
      BY <1>f1, <2>2 DEF IInv, ResultInv
    <2> QED
      BY <2>2, <2>3
  <1>f3. /\ reward' \in [Rows -> Rows \cup {0}]
         /\ \A r \in Rows : reward'[r] = IF r = next THEN next ELSE reward[r]
    BY <1>f1, <1>f2 DEF PostRow, TakeScore, RewardRow, IInv, TypeOK
  <1>f4. records' \in [Rows -> Nat] /\ writeErrors' \in Nat /\ next' \in 1..(NumTasks + 1)
    BY <1>f1 DEF PostRow, TakeScore, IInv, TypeOK
  <1>f5. scores' \in Seq(Rows) /\ positions' \in Seq(Rows)
    BY <1>f1, <1>f2 DEF PostRow, TakeScore, IInv, TypeOK
  <1>1. TypeOK'
    BY <1>f1, <1>f2, <1>f3, <1>f4, <1>f5
       DEF IInv, PostRow, TakeScore, RewardRow, TypeOK, PCs, FutureStates, LoopHead,
           taskVars, postVars, fileVars
  <1>2. (pc = "call" => Untouched /\ next = 1)'
    BY <1>f1, <1>f2, <1>f3, <1>f4, <1>f5
       DEF IInv, PostRow, TakeScore, RewardRow, Untouched, LoopHead, taskVars,
           postVars, fileVars
  <1>3. (pc # "call" /\ rmScores => pc = "returned" /\ Untouched)'
    BY <1>f1, <1>f2, <1>f3, <1>f4, <1>f5
       DEF IInv, PostRow, TakeScore, RewardRow, Untouched, LoopHead, taskVars,
           postVars, fileVars
  <1>4. SleepInv'
    BY <1>f1, <1>f2, <1>f3, <1>f4, <1>f5
       DEF IInv, PostRow, TakeScore, RewardRow, SleepInv, DictInv, LoopHead,
           taskVars, postVars, fileVars
  <1>5. DoneInv'
    BY <1>f1, <1>f2, <1>f3, <1>f4, <1>f5
       DEF IInv, PostRow, TakeScore, RewardRow, DoneInv, DictInv, Finished, LoopHead,
           taskVars, postVars, fileVars
  <1>6. DictInv'
    BY <1>f1, <1>f2, <1>f3, <1>f4, <1>f5
       DEF IInv, PostRow, TakeScore, RewardRow, DictInv, DoneInv, SleepInv, LoopHead,
           taskVars, postVars, fileVars
  <1>7. AttemptInv'
    BY <1>f1, <1>f2, <1>f3, <1>f4, <1>f5
       DEF IInv, PostRow, TakeScore, RewardRow, AttemptInv, DictInv, LoopHead,
           taskVars, postVars, fileVars
  <1>8. ResultInv'
    BY <1>f1, <1>f2, <1>f3, <1>f4, <1>f5
       DEF IInv, PostRow, TakeScore, RewardRow, ResultInv, Scored, DictInv,
           AttemptInv, LoopHead, taskVars, postVars, fileVars
  <1>9. PlaceInv'
    BY <1>f1, <1>f2, <1>f3, <1>f4, <1>f5
       DEF IInv, PostRow, TakeScore, RewardRow, PlaceInv, Looping, DictInv, LoopHead,
           taskVars, postVars, fileVars
  <1>10. RewardInv'
    BY <1>f1, <1>f2, <1>f3, <1>f4, <1>f5, SMTT(30)
       DEF IInv, PostRow, TakeScore, RewardRow, RewardInv, Scored, LoopHead,
           taskVars, postVars, fileVars
  <1>11. (pc \in {"post", "returned", "raised"} => \A g \in Futures : ~InPool(g))'
    BY <1>f1, <1>f2, <1>f3, <1>f4, <1>f5
       DEF IInv, PostRow, TakeScore, RewardRow, InPool, QuiescentAtExit, Untouched,
           DictInv, PlaceInv, SleepInv, AttemptInv, ResultInv, Looping, LoopHead,
           taskVars, postVars, fileVars
  <1> QED
    BY <1>1, <1>2, <1>3, <1>4, <1>5, <1>6, <1>7, <1>8, <1>9, <1>10, <1>11
       DEF IInv, QuiescentAtExit

LEMMA PostRowWriteErrorIInv ==
  ASSUME IInv, PostRowWriteError PROVE IInv'
  <1> USE FuturePairs, Ranges
  <1>f1. pc = "post" /\ ~rmScores /\ next \in Rows /\ Scored(next) /\ next + 1 \in 1..(NumTasks + 1)
    BY DEF PostRowWriteError, TakeScore, IInv
  <1>f2. <<next, retries[next]>> \in Futures /\ results[next][1] = next
    <2>1. retries[next] \in Attempts
      BY <1>f1 DEF IInv, TypeOK
    <2>2. PICK g \in Futures : g[1] = next /\ g[2] = retries[next] /\ g = <<next, retries[next]>>
      BY <1>f1, <2>1
    <2>3. results[next] = g
      BY <1>f1, <2>2 DEF IInv, ResultInv
    <2> QED
      BY <2>2, <2>3
  <1>f3. /\ reward' \in [Rows -> Rows \cup {0}]
         /\ \A r \in Rows : reward'[r] = IF r = next THEN next ELSE reward[r]
    BY <1>f1, <1>f2 DEF PostRowWriteError, TakeScore, RewardRow, IInv, TypeOK
  <1>f4. records' \in [Rows -> Nat] /\ writeErrors' \in Nat /\ next' \in 1..(NumTasks + 1)
    BY <1>f1 DEF PostRowWriteError, TakeScore, IInv, TypeOK
  <1>f5. scores' \in Seq(Rows) /\ positions' \in Seq(Rows)
    BY <1>f1, <1>f2 DEF PostRowWriteError, TakeScore, IInv, TypeOK
  <1>1. TypeOK'
    BY <1>f1, <1>f2, <1>f3, <1>f4, <1>f5
       DEF IInv, PostRowWriteError, TakeScore, RewardRow, TypeOK, PCs, FutureStates,
           LoopHead, taskVars, postVars, fileVars
  <1>2. (pc = "call" => Untouched /\ next = 1)'
    BY <1>f1, <1>f2, <1>f3, <1>f4, <1>f5
       DEF IInv, PostRowWriteError, TakeScore, RewardRow, Untouched, LoopHead,
           taskVars, postVars, fileVars
  <1>3. (pc # "call" /\ rmScores => pc = "returned" /\ Untouched)'
    BY <1>f1, <1>f2, <1>f3, <1>f4, <1>f5
       DEF IInv, PostRowWriteError, TakeScore, RewardRow, Untouched, LoopHead,
           taskVars, postVars, fileVars
  <1>4. SleepInv'
    BY <1>f1, <1>f2, <1>f3, <1>f4, <1>f5
       DEF IInv, PostRowWriteError, TakeScore, RewardRow, SleepInv, DictInv,
           LoopHead, taskVars, postVars, fileVars
  <1>5. DoneInv'
    BY <1>f1, <1>f2, <1>f3, <1>f4, <1>f5
       DEF IInv, PostRowWriteError, TakeScore, RewardRow, DoneInv, DictInv, Finished,
           LoopHead, taskVars, postVars, fileVars
  <1>6. DictInv'
    BY <1>f1, <1>f2, <1>f3, <1>f4, <1>f5
       DEF IInv, PostRowWriteError, TakeScore, RewardRow, DictInv, DoneInv, SleepInv,
           LoopHead, taskVars, postVars, fileVars
  <1>7. AttemptInv'
    BY <1>f1, <1>f2, <1>f3, <1>f4, <1>f5
       DEF IInv, PostRowWriteError, TakeScore, RewardRow, AttemptInv, DictInv,
           LoopHead, taskVars, postVars, fileVars
  <1>8. ResultInv'
    BY <1>f1, <1>f2, <1>f3, <1>f4, <1>f5
       DEF IInv, PostRowWriteError, TakeScore, RewardRow, ResultInv, Scored, DictInv,
           AttemptInv, LoopHead, taskVars, postVars, fileVars
  <1>9. PlaceInv'
    BY <1>f1, <1>f2, <1>f3, <1>f4, <1>f5
       DEF IInv, PostRowWriteError, TakeScore, RewardRow, PlaceInv, Looping, DictInv,
           LoopHead, taskVars, postVars, fileVars
  <1>10. RewardInv'
    BY <1>f1, <1>f2, <1>f3, <1>f4, <1>f5
       DEF IInv, PostRowWriteError, TakeScore, RewardRow, RewardInv, Scored,
           LoopHead, taskVars, postVars, fileVars
  <1>11. (pc \in {"post", "returned", "raised"} => \A g \in Futures : ~InPool(g))'
    BY <1>f1, <1>f2, <1>f3, <1>f4, <1>f5
       DEF IInv, PostRowWriteError, TakeScore, RewardRow, InPool, QuiescentAtExit,
           Untouched, DictInv, PlaceInv, SleepInv, AttemptInv, ResultInv, Looping,
           LoopHead, taskVars, postVars, fileVars
  <1> QED
    BY <1>1, <1>2, <1>3, <1>4, <1>5, <1>6, <1>7, <1>8, <1>9, <1>10, <1>11
       DEF IInv, QuiescentAtExit

LEMMA PostDoneIInv ==
  ASSUME IInv, PostDone PROVE IInv'
  <1> USE FuturePairs, Ranges
  <1>f1. pc = "post" /\ next = NumTasks + 1
    BY DEF PostDone, IInv, TypeOK, Rows
  <1>1. TypeOK'
    BY <1>f1
       DEF IInv, PostDone, TypeOK, PCs, FutureStates, LoopHead, taskVars, postVars,
           fileVars
  <1>2. (pc = "call" => Untouched /\ next = 1)'
    BY <1>f1 DEF IInv, PostDone, Untouched, LoopHead, taskVars, postVars, fileVars
  <1>3. (pc # "call" /\ rmScores => pc = "returned" /\ Untouched)'
    BY <1>f1 DEF IInv, PostDone, Untouched, LoopHead, taskVars, postVars, fileVars
  <1>4. SleepInv'
    BY <1>f1 DEF IInv, PostDone, SleepInv, DictInv, LoopHead, taskVars, postVars, fileVars
  <1>5. DoneInv'
    BY <1>f1
       DEF IInv, PostDone, DoneInv, DictInv, Finished, LoopHead, taskVars, postVars,
           fileVars
  <1>6. DictInv'
    BY <1>f1
       DEF IInv, PostDone, DictInv, DoneInv, SleepInv, LoopHead, taskVars, postVars,
           fileVars
  <1>7. AttemptInv'
    BY <1>f1
       DEF IInv, PostDone, AttemptInv, DictInv, LoopHead, taskVars, postVars,
           fileVars
  <1>8. ResultInv'
    BY <1>f1
       DEF IInv, PostDone, ResultInv, Scored, DictInv, AttemptInv, LoopHead,
           taskVars, postVars, fileVars
  <1>9. PlaceInv'
    BY <1>f1
       DEF IInv, PostDone, PlaceInv, Looping, DictInv, LoopHead, taskVars, postVars,
           fileVars
  <1>10. RewardInv'
    BY <1>f1 DEF IInv, PostDone, RewardInv, Scored, LoopHead, taskVars, postVars, fileVars
  <1>11. (pc \in {"post", "returned", "raised"} => \A g \in Futures : ~InPool(g))'
    BY <1>f1
       DEF IInv, PostDone, InPool, QuiescentAtExit, Untouched, DictInv, PlaceInv,
           SleepInv, AttemptInv, ResultInv, Looping, LoopHead, taskVars, postVars,
           fileVars
  <1> QED
    BY <1>1, <1>2, <1>3, <1>4, <1>5, <1>6, <1>7, <1>8, <1>9, <1>10, <1>11
       DEF IInv, QuiescentAtExit

LEMMA WorkerStartIInv ==
  ASSUME IInv, NEW f \in Futures, WorkerStart(f) PROVE IInv'
  <1> USE FuturePairs, Ranges
  <1>1. TypeOK'
    BY
       DEF IInv, WorkerStart, TypeOK, PCs, FutureStates, LoopHead, taskVars,
           postVars, fileVars
  <1>2. (pc = "call" => Untouched /\ next = 1)'
    BY DEF IInv, WorkerStart, Untouched, LoopHead, taskVars, postVars, fileVars
  <1>3. (pc # "call" /\ rmScores => pc = "returned" /\ Untouched)'
    BY DEF IInv, WorkerStart, Untouched, LoopHead, taskVars, postVars, fileVars
  <1>4. SleepInv'
    BY DEF IInv, WorkerStart, SleepInv, DictInv, LoopHead, taskVars, postVars, fileVars
  <1>5. DoneInv'
    BY
       DEF IInv, WorkerStart, DoneInv, DictInv, Finished, LoopHead, taskVars,
           postVars, fileVars
  <1>6. DictInv'
    BY
       DEF IInv, WorkerStart, DictInv, DoneInv, SleepInv, LoopHead, taskVars,
           postVars, fileVars
  <1>7. AttemptInv'
    BY DEF IInv, WorkerStart, AttemptInv, DictInv, LoopHead, taskVars, postVars, fileVars
  <1>8. ResultInv'
    BY
       DEF IInv, WorkerStart, ResultInv, Scored, DictInv, AttemptInv, LoopHead,
           taskVars, postVars, fileVars
  <1>9. PlaceInv'
    BY
       DEF IInv, WorkerStart, PlaceInv, Looping, DictInv, LoopHead, taskVars,
           postVars, fileVars
  <1>10. RewardInv'
    BY DEF IInv, WorkerStart, RewardInv, Scored, LoopHead, taskVars, postVars, fileVars
  <1>11. (pc \in {"post", "returned", "raised"} => \A g \in Futures : ~InPool(g))'
    BY
       DEF IInv, WorkerStart, InPool, QuiescentAtExit, Untouched, DictInv, PlaceInv,
           SleepInv, AttemptInv, ResultInv, Looping, LoopHead, taskVars, postVars,
           fileVars
  <1> QED
    BY <1>1, <1>2, <1>3, <1>4, <1>5, <1>6, <1>7, <1>8, <1>9, <1>10, <1>11
       DEF IInv, QuiescentAtExit

LEMMA WorkerFinishIInv ==
  ASSUME IInv, NEW f \in Futures, WorkerFinish(f) PROVE IInv'
  <1> USE FuturePairs, Ranges
  <1>1. TypeOK'
    BY
       DEF IInv, WorkerFinish, TypeOK, PCs, FutureStates, LoopHead, taskVars,
           postVars, fileVars
  <1>2. (pc = "call" => Untouched /\ next = 1)'
    BY DEF IInv, WorkerFinish, Untouched, LoopHead, taskVars, postVars, fileVars
  <1>3. (pc # "call" /\ rmScores => pc = "returned" /\ Untouched)'
    BY DEF IInv, WorkerFinish, Untouched, LoopHead, taskVars, postVars, fileVars
  <1>4. SleepInv'
    BY DEF IInv, WorkerFinish, SleepInv, DictInv, LoopHead, taskVars, postVars, fileVars
  <1>5. DoneInv'
    BY
       DEF IInv, WorkerFinish, DoneInv, DictInv, Finished, LoopHead, taskVars,
           postVars, fileVars
  <1>6. DictInv'
    BY
       DEF IInv, WorkerFinish, DictInv, DoneInv, SleepInv, LoopHead, taskVars,
           postVars, fileVars
  <1>7. AttemptInv'
    BY DEF IInv, WorkerFinish, AttemptInv, DictInv, LoopHead, taskVars, postVars, fileVars
  <1>8. ResultInv'
    BY
       DEF IInv, WorkerFinish, ResultInv, Scored, DictInv, AttemptInv, LoopHead,
           taskVars, postVars, fileVars
  <1>9. PlaceInv'
    BY
       DEF IInv, WorkerFinish, PlaceInv, Looping, DictInv, LoopHead, taskVars,
           postVars, fileVars
  <1>10. RewardInv'
    BY DEF IInv, WorkerFinish, RewardInv, Scored, LoopHead, taskVars, postVars, fileVars
  <1>11. (pc \in {"post", "returned", "raised"} => \A g \in Futures : ~InPool(g))'
    BY
       DEF IInv, WorkerFinish, InPool, QuiescentAtExit, Untouched, DictInv, PlaceInv,
           SleepInv, AttemptInv, ResultInv, Looping, LoopHead, taskVars, postVars,
           fileVars
  <1> QED
    BY <1>1, <1>2, <1>3, <1>4, <1>5, <1>6, <1>7, <1>8, <1>9, <1>10, <1>11
       DEF IInv, QuiescentAtExit

-----------------------------------------------------------------------------
(* The invariant and what it gives.                                        *)

LEMMA StepIInv == IInv /\ [Next]_vars => IInv'
  <1> SUFFICES ASSUME IInv, [Next]_vars PROVE IInv'
    OBVIOUS
  <1>1. CASE Caller
    BY <1>1, ReturnRMScoresIInv, SubmitAllIInv, WaitFirstCompletedIInv, HandleScoreIInv,
       HandleRetryIInv, ResubmitIInv, HandleGiveUpIInv, HandleGiveUpLogErrorIInv,
       UnwindIInv, PostSkipIInv, PostRowIInv, PostRowWriteErrorIInv, PostDoneIInv
       DEF Caller
  <1>2. CASE Workers
    BY <1>2, WorkerStartIInv, WorkerFinishIInv DEF Workers
  <1>3. CASE UNCHANGED vars
    BY <1>3 DEF vars, taskVars, postVars, fileVars, IInv, TypeOK, Untouched, SleepInv,
       DoneInv, DictInv, AttemptInv, ResultInv, PlaceInv, RewardInv, QuiescentAtExit,
       Looping, Scored, Finished, InPool
  <1> QED
    BY <1>1, <1>2, <1>3 DEF Next

\* The inductive invariant holds in every reachable state.
THEOREM Invariance == Spec => []IInv
  BY InitIInv, StepIInv, PTL DEF Spec

\* Types are kept for every batch, pool and retry budget (trm.py's state).
THEOREM TypeCorrect == Spec => []TypeOK
  <1>1. IInv => TypeOK
    BY DEF IInv
  <1> QED
    BY <1>1, Invariance, PTL

LEMMA IInvAccounts == IInv => EveryTaskAccounted
  <1> SUFFICES ASSUME IInv, Looping, NEW r \in Rows
               PROVE  LET inDict == {f \in futures : f[1] = r}
                      IN \/ results[r] # Pending /\ inDict = {} /\ sleeping # r
                         \/ results[r] = Pending /\ inDict = {} /\ sleeping = r
                         \/ /\ results[r] = Pending
                            /\ sleeping # r
                            /\ inDict = {<<r, retries[r]>>}
    BY DEF EveryTaskAccounted
  <1> USE FuturePairs
  <1> DEFINE current == <<r, retries[r]>>
             inDict == {f \in futures : f[1] = r}
  <1>1. current \in Futures /\ current[1] = r /\ current[2] = retries[r]
    BY DEF IInv, TypeOK
  <1>2. futures \subseteq Futures
    BY DEF IInv, TypeOK
  <1>3. \A f \in futures : f[2] = retries[f[1]] /\ results[f[1]] = Pending /\ sleeping # f[1]
    BY DEF IInv, DictInv
  <1>4. inDict \subseteq {current}
    BY <1>1, <1>2, <1>3
  <1>5. CASE results[r] # Pending
    BY <1>1, <1>3, <1>5 DEF IInv, SleepInv
  <1>6. CASE results[r] = Pending /\ sleeping = r
    BY <1>3, <1>6
  <1>7. CASE results[r] = Pending /\ sleeping # r
    <2>1. current \in futures
      BY <1>1, <1>7 DEF IInv, PlaceInv
    <2> QED
      BY <1>1, <1>4, <1>7, <2>1
  <1> QED
    BY <1>5, <1>6, <1>7

\* No task is ever lost or in two places, however retries, results and the
\* iteration over `done` interleave with the pool (trm.py:159-202).
THEOREM NoTaskLost == Spec => []EveryTaskAccounted
  BY IInvAccounts, Invariance, PTL

LEMMA IInvDiscipline == IInv => RetryDiscipline
  <1> SUFFICES ASSUME IInv, NEW r \in Rows
               PROVE  /\ \A a \in Attempts : a > 0 /\ fstate[<<r, a>>] # "none"
                                               => fstate[<<r, a - 1>>] = "exc"
                      /\ Scored(r) => /\ results[r] = <<r, retries[r]>>
                                      /\ fstate[results[r]] = "ok"
                      /\ results[r] = GivenUp =>
                           \A a \in Attempts : fstate[<<r, a>>] = "exc"
    BY DEF RetryDiscipline
  <1> USE FuturePairs, Ranges
  <1>1. retries[r] \in Attempts
    BY DEF IInv, TypeOK
  <1>2. \A a \in Attempts : /\ a > retries[r] => fstate[<<r, a>>] = "none"
                            /\ a < retries[r] => fstate[<<r, a>>] = "exc"
    <2> TAKE a \in Attempts
    <2>1. PICK f \in Futures : f = <<r, a>> /\ f[1] = r /\ f[2] = a
      BY ZenonT(40)
    <2> QED
      BY <2>1 DEF IInv, AttemptInv
  <1>3. PICK c \in Futures : c = <<r, retries[r]>> /\ c[1] = r /\ c[2] = retries[r]
    BY <1>1
  <1>4. /\ Scored(r) => results[r] = c /\ fstate[c] = "ok"
        /\ results[r] = GivenUp => retries[r] = MAX_RETRIES /\ fstate[c] = "exc"
    BY <1>3 DEF IInv, ResultInv
  <1>5. ASSUME NEW a \in Attempts, a > 0, fstate[<<r, a>>] # "none"
        PROVE  fstate[<<r, a - 1>>] = "exc"
    <2>1. a - 1 \in Attempts /\ a - 1 < retries[r]
      BY <1>1, <1>2, <1>5
    <2> QED
      BY <1>2, <2>1
  <1>6. ASSUME results[r] = GivenUp, NEW a \in Attempts
        PROVE  fstate[<<r, a>>] = "exc"
    <2>1. CASE a < retries[r]
      BY <1>2, <2>1
    <2>2. CASE a = retries[r]
      BY <1>3, <1>4, <1>6, <2>2
    <2> QED
      BY <1>1, <1>4, <1>6, <2>1, <2>2
  <1> QED
    BY <1>3, <1>4, <1>5, <1>6

\* A retry follows a failure, a score is that of the last attempt, a row is
\* given up only after 1 + MAX_RETRIES failures (trm.py:177-196).
THEOREM RetriesDisciplined == Spec => []RetryDiscipline
  BY IInvDiscipline, Invariance, PTL

\* When the call returns or raises, its pool is idle (trm.py:152): a second
\* call by compute_reward never overlaps the first one's requests.
THEOREM PoolIdleAtExit == Spec => []QuiescentAtExit
  <1>1. IInv => QuiescentAtExit
    BY DEF IInv
  <1> QED
    BY <1>1, Invariance, PTL

-----------------------------------------------------------------------------
(* The call implements BatchScoring.                                       *)

absPhase == IF pc \in {"returned", "raised"} THEN pc ELSE "scoring"
absOutcome == [r \in Rows |-> IF Scored(r) THEN "scored"
                              ELSE IF results[r] = GivenUp THEN "givenup"
                              ELSE "pending"]
absOutput == IF pc = "returned" THEN reward ELSE [r \in Rows |-> 0]

LEMMA InitRefines == Init => Batch!AInit
  <1> SUFFICES ASSUME Init PROVE Batch!AInit
    OBVIOUS
  <1>1. \A r \in Rows : ~Scored(r) /\ results[r] # GivenUp
    BY FuturePairs DEF Init, Scored
  <1> QED
    BY <1>1 DEF Init, Batch!AInit

LEMMA StoreRefines ==
  ASSUME IInv, NEW f \in Futures, Pop(f), NEW v \in Futures \cup {GivenUp},
         results' = [results EXCEPT ![f[1]] = v],
         pc' \notin {"returned", "raised"}
  PROVE  Batch!Resolve(f[1])
  <1> USE FuturePairs
  <1>1. f[1] \in Rows /\ results[f[1]] = Pending /\ pc = "handle"
    BY PopFacts
  <1>2. results \in [Rows -> Futures \cup {Pending, GivenUp}]
    BY DEF IInv, TypeOK
  <1>3. \A r \in Rows : results'[r] = IF r = f[1] THEN v ELSE results[r]
    BY <1>1, <1>2
  <1> DEFINE o == IF v \in Futures THEN "scored" ELSE "givenup"
  <1>4. absOutcome' = [absOutcome EXCEPT ![f[1]] = o]
    <2> DEFINE kind(x) == IF x \in Futures THEN "scored"
                          ELSE IF x = GivenUp THEN "givenup" ELSE "pending"
    <2>1. kind(v) = o
      OBVIOUS
    <2>2. /\ absOutcome = [r \in Rows |-> kind(results[r])]
          /\ absOutcome' = [r \in Rows |-> kind(results'[r])]
      BY DEF absOutcome, Scored
    <2> HIDE DEF kind, o
    <2> QED
      BY <1>1, <1>3, <2>1, <2>2
  <1>5. absOutcome[f[1]] = "pending"
    BY <1>1 DEF absOutcome, Scored
  <1>6. absPhase = "scoring" /\ absPhase' = "scoring" /\ absOutput' = absOutput
    BY <1>1 DEF absPhase, absOutput
  <1> QED
    BY <1>4, <1>5, <1>6 DEF Batch!Resolve, absPhase, absOutcome, absOutput

LEMMA StutterRefines ==
  ASSUME results' = results, reward' = reward \/ pc \notin {"returned", "raised"},
         pc' = pc \/ {pc, pc'} \cap {"returned", "raised"} = {}
  PROVE  UNCHANGED Batch!avars
  BY DEF Batch!avars, Scored

LEMMA RaiseRefines ==
  ASSUME IInv, pc \notin {"returned", "raised"}, pc' = "raised", results' = results
  PROVE  Batch!Raise
  BY DEF Batch!Raise, Scored

\* The dictionary is empty after the loop: every row has its result.
LEMMA NoRowPending ==
  ASSUME IInv, pc = "post", NEW r \in Rows
  PROVE  results[r] \in Futures \cup {GivenUp}
  <1> USE FuturePairs, Ranges
  <1>1. PICK c \in Futures : c[1] = r /\ c[2] = retries[r]
    BY ZenonT(40) DEF IInv, TypeOK
  <1>2. futures = {} /\ sleeping # r
    BY DEF IInv, DictInv, SleepInv
  <1> QED
    BY <1>1, <1>2 DEF IInv, TypeOK, PlaceInv, Looping

LEMMA ReturnRefines ==
  ASSUME IInv, PostDone
  PROVE  Batch!Return
  <1> USE FuturePairs, Ranges
  <1>1. pc = "post" /\ pc' = "returned" /\ results' = results /\ reward' = reward
    BY DEF PostDone, postVars
  <1>2. next = NumTasks + 1 /\ ~rmScores
    BY <1>1 DEF PostDone, IInv, TypeOK, Rows
  <1>3. reward = [r \in Rows |-> IF Scored(r) THEN r ELSE 0]
    <2>1. \A r \in Rows : reward[r] = IF r < next /\ Scored(r) THEN r ELSE 0
      BY <1>1, <1>2 DEF IInv, RewardInv
    <2> QED
      BY <1>2, <2>1 DEF IInv, TypeOK
  <1>4. \A r \in Rows : results[r] \in Futures \cup {GivenUp}
    BY <1>1, NoRowPending
  <1>5. absOutcome' = absOutcome /\ \A r \in Rows : absOutcome[r] # "pending"
    BY <1>1, <1>4 DEF absOutcome, Scored
  <1>6. absOutput' = [r \in Rows |-> IF absOutcome[r] = "scored" THEN r ELSE 0]
    BY <1>1, <1>3 DEF absOutput, absOutcome
  <1>7. absPhase = "scoring" /\ absPhase' = "returned"
    BY <1>1 DEF absPhase
  <1> QED
    BY <1>5, <1>6, <1>7 DEF Batch!Return, absPhase, absOutcome, absOutput

LEMMA ReturnGivenRefines ==
  ASSUME IInv, ReturnRMScores
  PROVE  Batch!ReturnGiven
  <1> USE FuturePairs
  <1>1. pc = "call" /\ pc' = "returned" /\ results' = results /\ reward' = reward
    BY DEF ReturnRMScores, postVars
  <1>2. \A r \in Rows : results[r] = Pending /\ reward[r] = 0
    BY <1>1 DEF IInv, Untouched
  <1>3. reward = [r \in Rows |-> 0]
    BY <1>2 DEF IInv, TypeOK
  <1>4. absOutcome' = absOutcome /\ \A r \in Rows : absOutcome[r] = "pending"
    BY <1>1, <1>2 DEF absOutcome, Scored
  <1>5. absOutput' = absOutput /\ absPhase = "scoring" /\ absPhase' = "returned"
    BY <1>1, <1>3 DEF absOutput, absPhase
  <1> QED
    BY <1>4, <1>5 DEF Batch!ReturnGiven, absPhase, absOutcome, absOutput

LEMMA StepRefines == IInv /\ [Next]_vars => [Batch!ANext]_Batch!avars
  <1> SUFFICES ASSUME IInv, [Next]_vars
               PROVE  Batch!ANext \/ UNCHANGED Batch!avars
    OBVIOUS
  <1>1. CASE ReturnRMScores
    BY <1>1, ReturnGivenRefines DEF Batch!ANext
  <1>2. CASE SubmitAll \/ WaitFirstCompleted \/ Resubmit \/ PostSkip \/ PostRow
    <2>1. results' = results /\ {pc, pc'} \cap {"returned", "raised"} = {}
      BY <1>2 DEF SubmitAll, WaitFirstCompleted, Resubmit, LoopHead, PostSkip, PostRow,
         TakeScore
    <2> QED
      BY <2>1, StutterRefines
  <1>3. ASSUME NEW f \in Futures, HandleScore(f)
        PROVE  Batch!ANext
    <2>1. /\ Pop(f) /\ results' = [results EXCEPT ![f[1]] = f]
          /\ pc' \notin {"returned", "raised"}
      BY <1>3 DEF HandleScore, LoopHead
    <2>2. Batch!Resolve(f[1])
      BY <2>1, StoreRefines
    <2> QED
      BY <2>2, FuturePairs DEF Batch!ANext
  <1>4. ASSUME NEW f \in Futures, HandleRetry(f)
        PROVE  UNCHANGED Batch!avars
    <2>1. results' = results /\ {pc, pc'} \cap {"returned", "raised"} = {}
      BY <1>4 DEF HandleRetry, Pop
    <2> QED
      BY <2>1, StutterRefines
  <1>5. ASSUME NEW f \in Futures, HandleGiveUp(f) \/ HandleGiveUpLogError(f)
        PROVE  Batch!ANext
    <2>1. /\ Pop(f) /\ results' = [results EXCEPT ![f[1]] = GivenUp]
          /\ pc' \notin {"returned", "raised"}
      BY <1>5 DEF HandleGiveUp, HandleGiveUpLogError, GiveUp, LoopHead
    <2>2. Batch!Resolve(f[1])
      BY <2>1, StoreRefines
    <2> QED
      BY <2>2, FuturePairs DEF Batch!ANext
  <1>6. CASE Unwind \/ PostRowWriteError
    <2>1. pc \notin {"returned", "raised"} /\ pc' = "raised" /\ results' = results
      BY <1>6 DEF Unwind, PostRowWriteError, TakeScore
    <2> QED
      BY <2>1, RaiseRefines DEF Batch!ANext
  <1>7. CASE PostDone
    BY <1>7, ReturnRefines DEF Batch!ANext
  <1>8. CASE Workers
    <2>1. results' = results /\ reward' = reward /\ pc' = pc
      BY <1>8 DEF Workers, WorkerStart, WorkerFinish, postVars
    <2> QED
      BY <2>1, StutterRefines
  <1>9. CASE UNCHANGED vars
    <2>1. results' = results /\ reward' = reward /\ pc' = pc
      BY <1>9 DEF vars, postVars
    <2> QED
      BY <2>1, StutterRefines
  <1> QED
    BY <1>1, <1>2, <1>3, <1>4, <1>5, <1>6, <1>7, <1>8, <1>9 DEF Next, Caller

\* Every behaviour of the call is one of BatchScoring: each row is resolved
\* once, and the call returns only when all rows are, every score at its row.
THEOREM CallRefinesBatch == Spec => BatchSpec
  BY InitRefines, StepRefines, Invariance, PTL DEF Spec, BatchSpec, Batch!ASpec

-----------------------------------------------------------------------------
(* The files.                                                              *)

\* Unless a write failed, the record file has a line for every scored row the
\* serial pass is past, and the log one for every row given up.
FileInv ==
    /\ pc \notin {"unwind", "raised"} =>
         \A r \in Rows :
            /\ records[r] = IF r < next /\ Scored(r) THEN 1 ELSE 0
            /\ failedLog[r] = IF results[r] = GivenUp /\ FailedTaskLog THEN 1 ELSE 0
    /\ pc = "returned" /\ ~rmScores => \A r \in Rows : results[r] # Pending

\* Nothing has been written.
LEMMA InitFileInv == Init => FileInv
  BY FuturePairs, Ranges DEF Init, FileInv, Scored

\* The steps of the loop write nothing into the record file: the serial pass
\* has not begun.
LEMMA LoopFileInv ==
  ASSUME IInv, FileInv, IInv',
         \/ ReturnRMScores \/ SubmitAll \/ WaitFirstCompleted \/ Resubmit \/ Workers
         \/ \E f \in Futures : HandleRetry(f)
  PROVE  FileInv'
  <1>1. /\ results' = results /\ next' = next
        /\ records' = records /\ failedLog' = failedLog
        /\ pc' \notin {"unwind", "raised"} => pc \notin {"unwind", "raised"}
        /\ rmScores' = rmScores
    BY DEF ReturnRMScores, SubmitAll, WaitFirstCompleted, Resubmit, HandleRetry, Pop,
           Workers, WorkerStart, WorkerFinish, postVars, fileVars
  <1>2. pc' = "returned" => pc = "returned" \/ rmScores
    BY DEF ReturnRMScores, SubmitAll, WaitFirstCompleted, Resubmit, LoopHead, HandleRetry,
           Workers, WorkerStart, WorkerFinish
  <1> QED
    BY <1>1, <1>2 DEF FileInv, Scored

\* A row given up gets its one line when its result is stored.
LEMMA StoreFileInv ==
  ASSUME IInv, FileInv, NEW f \in Futures, HandleScore(f) \/ HandleGiveUp(f)
  PROVE  FileInv'
  <1> USE Ranges
  <1>1. /\ f[1] \in Rows /\ results[f[1]] = Pending /\ pc = "handle" /\ pc' # "returned"
    BY PopFacts DEF HandleScore, HandleGiveUp, GiveUp, LoopHead
  <1>2. next = 1 /\ next' = next /\ records' = records
    BY <1>1 DEF IInv, RewardInv, HandleScore, HandleGiveUp, postVars, fileVars
  <1>3. \A r \in Rows : records[r] = 0 /\ ~(r < next)
    BY <1>1, <1>2 DEF FileInv
  <1>4. \A r \in Rows :
          failedLog[r] = IF results[r] = GivenUp /\ FailedTaskLog THEN 1 ELSE 0
    BY <1>1 DEF FileInv
  <1>5. /\ results \in [Rows -> Futures \cup {Pending, GivenUp}]
        /\ failedLog \in [Rows -> Nat]
    BY DEF IInv, TypeOK
  <1>6. \A r \in Rows :
          failedLog'[r] = IF results'[r] = GivenUp /\ FailedTaskLog THEN 1 ELSE 0
    <2>1. CASE HandleScore(f)
      <3>1. results' = [results EXCEPT ![f[1]] = f] /\ failedLog' = failedLog
        BY <2>1 DEF HandleScore, fileVars
      <3> QED
        BY <1>1, <1>4, <1>5, <3>1, FuturePairs
    <2>2. CASE HandleGiveUp(f)
      <3>1. /\ results' = [results EXCEPT ![f[1]] = GivenUp]
            /\ failedLog' = IF FailedTaskLog THEN [failedLog EXCEPT ![f[1]] = @ + 1]
                                             ELSE failedLog
        BY <2>2 DEF HandleGiveUp, GiveUp, LogFailure
      <3>2. failedLog[f[1]] = 0
        BY <1>1, <1>4, FuturePairs
      <3> QED
        BY <1>1, <1>4, <1>5, <3>1, <3>2
    <2> QED
      BY <2>1, <2>2
  <1> QED
    BY <1>1, <1>2, <1>3, <1>6 DEF FileInv

\* The serial pass writes the line of the row it takes.
LEMMA PostFileInv ==
  ASSUME IInv, FileInv, PostSkip \/ PostRow \/ PostDone
  PROVE  FileInv'
  <1> USE Ranges
  <1>1. /\ pc = "post" /\ results' = results /\ failedLog' = failedLog
        /\ next \in Nat /\ records \in [Rows -> Nat]
    BY DEF IInv, TypeOK, PostSkip, PostRow, PostDone, TakeScore, fileVars
  <1>2. \A r \in Rows :
          /\ records[r] = IF r < next /\ Scored(r) THEN 1 ELSE 0
          /\ failedLog[r] = IF results[r] = GivenUp /\ FailedTaskLog THEN 1 ELSE 0
    BY <1>1 DEF FileInv
  <1>3. CASE PostSkip
    <2>1. next' = next + 1 /\ ~Scored(next) /\ records' = records /\ pc' = pc
      BY <1>3 DEF PostSkip, fileVars
    <2> QED
      BY <1>1, <1>2, <2>1 DEF FileInv, Scored
  <1>4. CASE PostRow
    <2>1. /\ next' = next + 1 /\ Scored(next) /\ next \in Rows
          /\ records' = [records EXCEPT ![next] = @ + 1] /\ pc' = pc
      BY <1>4 DEF PostRow, TakeScore
    <2>2. \A r \in Rows : r < next + 1 <=> r < next \/ r = next
      BY <1>1
    <2>3. \A r \in Rows : records'[r] = IF r < next' /\ Scored(r) THEN 1 ELSE 0
      BY <1>1, <1>2, <2>1, <2>2
    <2>4. \A r \in Rows : records'[r] = IF r < next' /\ Scored(r)' THEN 1 ELSE 0
      BY <1>1, <2>3 DEF Scored
    <2> QED
      BY <1>1, <1>2, <2>1, <2>4 DEF FileInv
  <1>5. CASE PostDone
    <2>1. \A r \in Rows : results[r] # Pending
      BY <1>1, NoRowPending, FuturePairs
    <2> QED
      BY <1>1, <1>2, <1>5, <2>1 DEF PostDone, FileInv, Scored, postVars, fileVars
  <1> QED
    BY <1>3, <1>4, <1>5

\* Every step keeps what the files hold.
LEMMA StepFileInv == IInv /\ FileInv /\ [Next]_vars => FileInv'
  <1> SUFFICES ASSUME IInv, FileInv, [Next]_vars PROVE FileInv'
    OBVIOUS
  <1>1. IInv'
    BY StepIInv
  <1>2. CASE \/ ReturnRMScores \/ SubmitAll \/ WaitFirstCompleted \/ Resubmit \/ Workers
             \/ \E f \in Futures : HandleRetry(f)
    BY <1>1, <1>2, LoopFileInv
  <1>3. CASE \E f \in Futures : HandleScore(f) \/ HandleGiveUp(f)
    BY <1>3, StoreFileInv
  <1>4. CASE PostSkip \/ PostRow \/ PostDone
    BY <1>4, PostFileInv
  <1>5. CASE \/ Unwind \/ PostRowWriteError
             \/ \E f \in Futures : HandleGiveUpLogError(f)
    <2>1. pc' \in {"unwind", "raised"}
      BY <1>5 DEF Unwind, PostRowWriteError, HandleGiveUpLogError
    <2> QED
      BY <2>1 DEF FileInv
  <1>6. CASE UNCHANGED vars
    BY <1>6 DEF FileInv, Scored, vars, postVars, fileVars
  <1> QED
    BY <1>2, <1>3, <1>4, <1>5, <1>6 DEF Next, Caller

\* When the call returns no row is pending and the pass is past them all.
LEMMA ReturnedFiles == IInv /\ FileInv => FilesFollowResults
  <1> SUFFICES ASSUME IInv, FileInv, pc = "returned", ~rmScores, NEW r \in Rows
               PROVE  /\ records[r] = IF Scored(r) THEN 1 ELSE 0
                      /\ failedLog[r] = IF ~Scored(r) /\ FailedTaskLog THEN 1 ELSE 0
    BY DEF FilesFollowResults
  <1>1. r < next
    BY Ranges DEF IInv, RewardInv
  <1>2. results[r] # Pending
    BY DEF FileInv
  <1> QED
    BY <1>1, <1>2, FuturePairs DEF FileInv, IInv, TypeOK, Scored

\* trm.py's record file and failed-task log: a call that returns has written
\* one line per row, in the one file or in the other.
THEOREM FilesAreComplete == Spec => []FilesFollowResults
  BY InitIInv, StepIInv, InitFileInv, StepFileInv, ReturnedFiles, PTL DEF Spec

=============================================================================
