-------------------------- MODULE SGLangRolloutProofs --------------------------
(***************************************************************************)
(* Proofs about SGLangRollout: for every batch, set of tools, number of    *)
(* ranks and limit on turns and tokens,                                    *)
(*   - the instances of a request's tools are alive from its first turn to *)
(*     its end and none is left behind (ToolsAreReleased),                 *)
(*   - no check of a conversation's own finds fault with it: it ends with  *)
(*     a reason finalize knows, calls something when it calls tools and    *)
(*     speaks to a user that is known (FinalizeKnowsTheReason),            *)
(*   - the response it is cut to is trained on the model's answers and on  *)
(*     nothing else (AnswersAreTrained).                                   *)
(*                                                                         *)
(* The first two are about the ends of a conversation, of which there are  *)
(* several; ToolInv says what each of them finds: which tools are alive,   *)
(* that the reason of a break is a stop or a length by the time it is      *)
(* used, and what the states in which tools or a user are called promise.  *)
(* The third is about what a conversation grows by: Marked says     *)
(* that the loss mask follows the tokens and every generation prompt is    *)
(* answered, GrowMarked that each turn keeps it so, CutIsMarked that       *)
(* finalize does.  A tool or a user could only be preceded by a generation *)
(* prompt if it spoke in another state than right after an answer, which   *)
(* is what TokenInv adds.                                                  *)
(***************************************************************************)
EXTENDS SGLangRollout, TLAPS, SequenceTheorems

States == {"PENDING", "RUNNING", "TOOL_CALLING", "INTERACTING", "COMPLETED"}

TalkTypeOK ==
    /\ batch \in Batches
    /\ at \in [Requests -> {"loop", "releasing", "returned", "raised", "unsupported"}]
    /\ state \in [Requests -> States]
    /\ turns \in [Requests -> Nat]
    /\ calls \in [Requests -> SUBSET Tools]
    /\ reason \in [Requests -> {NoReason, "STOP", "LENGTH", "TOOL_CALL"}]
    /\ live \in [Requests -> SUBSET Tools]
    /\ pending \in [Requests -> SUBSET Tools]

ToolInv(r) ==
    /\ state[r] = "PENDING" =>
          /\ at[r] \in {"loop", "raised"} /\ turns[r] = 0
          /\ live[r] = batch[r].tools \ pending[r]
          /\ pending[r] \subseteq batch[r].tools
    /\ at[r] = "loop" /\ state[r] # "PENDING" =>
          live[r] = batch[r].tools /\ pending[r] = {}
    /\ at[r] = "releasing" => live[r] = pending[r] /\ reason[r] \in Supported
    /\ at[r] = "returned" => live[r] = {}
    /\ at[r] # "unsupported"
    /\ state[r] # "PENDING" => batch[r].user # "unknown"
    /\ at[r] = "loop" /\ state[r] = "TOOL_CALLING" => calls[r] # {}
    /\ at[r] = "loop" /\ state[r] = "INTERACTING" => batch[r].user # "none"

RInv == TalkTypeOK /\ \A r \in Requests : ToolInv(r)

-----------------------------------------------------------------------------

\* A row names tools of the rollout, and a conversation has a turn at least.
LEMMA Rows ==
    ASSUME batch \in Batches
    PROVE  /\ \A r \in Requests : /\ batch[r].tools \in SUBSET Tools
                                  /\ batch[r].user \in {"none", "known", "unknown"}
           /\ MaxAssistantTurns \in Nat /\ MaxAssistantTurns > 0
  <1>1. batch \in Seq(Row)
    BY RolloutAssumption
  <1>2. \A r \in Requests : batch[r] \in Row
    BY <1>1 DEF Requests
  <1> QED
    BY <1>2, RolloutAssumption DEF Row

\* Every request starts with its tools still to be created.
LEMMA InitRInv == Init => RInv
  <1> SUFFICES ASSUME Init PROVE RInv
    OBVIOUS
  <1>1. \A r \in Requests : batch[r].tools \in SUBSET Tools
    BY Rows DEF Init
  <1>2. TalkTypeOK
    BY <1>1 DEF Init, TalkTypeOK, States, NoReason
  <1> QED
    BY <1>1, <1>2 DEF Init, RInv, ToolInv

-----------------------------------------------------------------------------
(* The steps of a request.                                                 *)

\* A request in the loop with a turn left that breaks with a stop or a length
\* goes on to the release of all its tools.
LEMMA BreakRInv ==
    ASSUME RInv, NEW r \in Requests, NEW why \in Supported \union {reason[r]},
           NEW s \in States \ {"PENDING"},
           at[r] = "loop", state[r] # "PENDING",
           why \in Supported \/ turns[r] >= MaxAssistantTurns,
           turns' \in {turns, [turns EXCEPT ![r] = @ + 1]},
           Break(r, why),
           state' = [state EXCEPT ![r] = s],
           calls' \in {calls, [calls EXCEPT ![r] = {}]},
           UNCHANGED <<batch, live>>
    PROVE  RInv'
  <1> USE Rows DEF RInv, TalkTypeOK
  <1>1. turns'[r] \in Nat /\ turns'[r] >= turns[r]
    OBVIOUS
  <1>2. FinishReason(turns'[r], why) \in Supported
    BY <1>1 DEF FinishReason, Supported
  <1>3. TalkTypeOK'
    BY <1>2 DEF Break, Leave, States, Supported, Requests
  <1>4. ToolInv(r)'
    BY <1>2 DEF Break, Leave, ToolInv, States
  <1>5. ASSUME NEW q \in Requests \ {r} PROVE ToolInv(q)'
    BY DEF Break, Leave, ToolInv
  <1> QED
    BY <1>3, <1>4, <1>5 DEF Requests

\* A request in the loop that goes on with its tools as they are.
LEMMA ContinueRInv ==
    ASSUME RInv, NEW r \in Requests, NEW s \in States \ {"PENDING"},
           at[r] = "loop", state[r] # "PENDING",
           turns' \in {turns, [turns EXCEPT ![r] = @ + 1]},
           reason' \in {reason, [reason EXCEPT ![r] = "TOOL_CALL"],
                        [reason EXCEPT ![r] = "STOP"]},
           Continue(r, s),
           calls' \in [Requests -> SUBSET Tools],
           \A q \in Requests \ {r} : calls'[q] = calls[q],
           s = "TOOL_CALLING" => calls'[r] # {},
           s = "INTERACTING" => batch[r].user # "none",
           UNCHANGED <<batch, live>>
    PROVE  RInv'
  <1> USE DEF RInv, TalkTypeOK, Continue
  <1>1. turns' \in [Requests -> Nat]
    OBVIOUS
  <1>2. reason' \in [Requests -> {NoReason, "STOP", "LENGTH", "TOOL_CALL"}]
    OBVIOUS
  <1>3. TalkTypeOK'
    BY <1>1, <1>2 DEF States, Requests
  <1>4. ASSUME NEW q \in Requests PROVE ToolInv(q)'
    BY DEF ToolInv, States
  <1> QED
    BY <1>3, <1>4 DEF Requests

\* The creation of a tool takes it from those that are pending.
LEMMA CreateToolRInv ==
    ASSUME RInv, NEW r \in Requests, NEW t \in Tools, CreateTool(r, t)
    PROVE  RInv'
  <1> USE Rows DEF RInv, TalkTypeOK, CreateTool, InLoop, talkVars
  <1>1. TalkTypeOK'
    BY DEF States, Requests
  <1>2. ToolInv(r)'
    BY DEF ToolInv
  <1>3. ASSUME NEW q \in Requests \ {r} PROVE ToolInv(q)'
    BY DEF ToolInv
  <1> QED
    BY <1>1, <1>2, <1>3 DEF Requests

\* A conversation starts when all its tools are there.
LEMMA StartRInv ==
    ASSUME RInv, NEW r \in Requests, Start(r)
    PROVE  RInv'
  <1> USE Rows DEF RInv, TalkTypeOK, Start, InLoop
  <1>1. TalkTypeOK'
    BY DEF States, Requests
  <1>2. ToolInv(r)'
    <2>1. /\ pending[r] = {} /\ at[r] = "loop"
          /\ live[r] = batch[r].tools \ pending[r]
      BY DEF ToolInv
    <2>2. \A S : S \ {} = S
      OBVIOUS
    <2>3. state'[r] = "RUNNING" /\ UNCHANGED <<batch, at, live, pending>>
      BY DEF States
    <2> QED
      BY <2>1, <2>2, <2>3 DEF ToolInv
  <1>3. ASSUME NEW q \in Requests \ {r} PROVE ToolInv(q)'
    BY DEF ToolInv
  <1> QED
    BY <1>1, <1>2, <1>3 DEF Requests

\* The model's turn, or none because there is no room for one.
LEMMA AnswerRInv ==
    ASSUME RInv, NEW r \in Requests,
           NoRoomToGenerate(r) \/ AnswerCut(r) \/ AnswerCalls(r) \/ AnswerTalks(r)
    PROVE  RInv'
  <1> USE DEF States, Supported
  <1>0. state \in [Requests -> States] /\ turns \in [Requests -> Nat]
    BY DEF RInv, TalkTypeOK
  <1>1. CASE NoRoomToGenerate(r)
    <2>1. /\ at[r] = "loop" /\ state[r] = "RUNNING"
          /\ turns' = turns /\ Break(r, "LENGTH") /\ UNCHANGED <<batch, state, calls, live>>
      BY <1>1 DEF NoRoomToGenerate, InLoop
    <2>2. state' = [state EXCEPT ![r] = "RUNNING"]
      BY <1>0, <2>1
    <2> QED
      BY <2>1, <2>2, BreakRInv
  <1>2. CASE AnswerCut(r)
    <2>1. PICK n \in Lengths : Full(r, n) /\ Answered(r, n)
      BY <1>2 DEF AnswerCut
    <2>2. /\ at[r] = "loop" /\ state[r] = "RUNNING"
          /\ turns' = [turns EXCEPT ![r] = @ + 1] /\ UNCHANGED <<batch, live>>
      BY <2>1 DEF Answered, InLoop
    <2>3. Break(r, "LENGTH") /\ state' = [state EXCEPT ![r] = "RUNNING"] /\ calls' = calls
      BY <1>0, <1>2, <2>2 DEF AnswerCut
    <2> QED
      BY <2>2, <2>3, BreakRInv
  <1>3. CASE AnswerCalls(r)
    <2>1. PICK n \in Lengths \ {0}, called \in SUBSET Tools :
             /\ Answered(r, n)
             /\ calls' = [calls EXCEPT ![r] = called]
             /\ IF called = {}
                THEN /\ state' = [state EXCEPT ![r] = "COMPLETED"]
                     /\ Break(r, "STOP")
                ELSE /\ Continue(r, "TOOL_CALLING")
                     /\ reason' = [reason EXCEPT ![r] = "TOOL_CALL"]
      BY <1>3 DEF AnswerCalls
    <2>2. /\ at[r] = "loop" /\ state[r] = "RUNNING"
          /\ turns' = [turns EXCEPT ![r] = @ + 1] /\ UNCHANGED <<batch, live>>
      BY <2>1 DEF Answered, InLoop
    <2>3. CASE called = {}
      BY <2>1, <2>2, <2>3, BreakRInv
    <2>4. CASE called # {}
      <3>1. /\ calls' \in [Requests -> SUBSET Tools] /\ calls'[r] # {}
            /\ \A q \in Requests \ {r} : calls'[q] = calls[q]
        BY <2>1, <2>4 DEF RInv, TalkTypeOK
      <3> QED
        BY <2>1, <2>2, <2>4, <3>1, ContinueRInv
    <2> QED
      BY <2>3, <2>4
  <1>4. CASE AnswerTalks(r)
    <2>1. PICK n \in Lengths : Answered(r, n)
      BY <1>4 DEF AnswerTalks
    <2>2. /\ at[r] = "loop" /\ state[r] = "RUNNING"
          /\ turns' = [turns EXCEPT ![r] = @ + 1] /\ UNCHANGED <<batch, calls, live>>
          /\ calls \in [Requests -> SUBSET Tools]
      BY <1>4, <2>1 DEF Answered, InLoop, AnswerTalks, RInv, TalkTypeOK
    <2>3. CASE Break(r, "STOP") /\ UNCHANGED state
      <3>1. state' = [state EXCEPT ![r] = "RUNNING"]
        BY <1>0, <2>2, <2>3
      <3> QED
        BY <2>2, <2>3, <3>1, BreakRInv
    <2>4. CASE /\ batch[r].user # "none"
               /\ Continue(r, "INTERACTING") /\ reason' = [reason EXCEPT ![r] = "STOP"]
      BY <2>2, <2>4, ContinueRInv
    <2> QED
      BY <1>4, <2>3, <2>4 DEF AnswerTalks
  <1> QED
    BY <1>1, <1>2, <1>3, <1>4

\* The turn of the tools or of the user.
LEMMA ReplyRInv ==
    ASSUME RInv, NEW r \in Requests, AnswerTools(r) \/ AnswerUser(r)
    PROVE  RInv'
  <1> USE DEF States, Supported
  <1>0. calls \in [Requests -> SUBSET Tools]
    BY DEF RInv, TalkTypeOK
  <1>1. CASE AnswerTools(r)
    BY <1>0, <1>1, ContinueRInv DEF AnswerTools, InLoop
  <1>2. CASE AnswerUser(r)
    <2>1. /\ at[r] = "loop" /\ state[r] = "INTERACTING"
          /\ turns' = turns /\ UNCHANGED <<batch, calls, live>>
      BY <1>2 DEF AnswerUser, InLoop
    <2>2. CASE state' = [state EXCEPT ![r] = "COMPLETED"] /\ Break(r, "STOP")
      BY <2>1, <2>2, BreakRInv
    <2>3. CASE Continue(r, "RUNNING") /\ UNCHANGED reason
      BY <1>0, <2>1, <2>3, ContinueRInv
    <2> QED
      BY <1>2, <2>2, <2>3 DEF AnswerUser
  <1> QED
    BY <1>1, <1>2

\* The turn limit: the reason may be any, and becomes a stop.
LEMMA TurnsUsedRInv ==
    ASSUME RInv, NEW r \in Requests, TurnsUsed(r)
    PROVE  RInv'
  <1>1. /\ at[r] = "loop" /\ turns[r] >= MaxAssistantTurns
        /\ turns' = turns /\ Break(r, reason[r]) /\ UNCHANGED <<batch, state, calls, live>>
    BY DEF TurnsUsed
  <1>2. state[r] # "PENDING"
    BY <1>1, Rows DEF RInv, TalkTypeOK, ToolInv
  <1>3. state[r] \in States \ {"PENDING"} /\ state' = [state EXCEPT ![r] = state[r]]
    BY <1>1, <1>2 DEF RInv, TalkTypeOK
  <1> QED
    BY <1>1, <1>2, <1>3, BreakRInv

\* Whatever raises in or behind the loop leaves the conversation as it is.
LEMMA RaiseRInv ==
    ASSUME RInv, NEW r \in Requests, Raise(r)
    PROVE  RInv'
  <1> USE DEF RInv, TalkTypeOK, Raise, talkVars
  <1>1. TalkTypeOK'
    BY DEF Requests
  <1>2. ASSUME NEW q \in Requests PROVE ToolInv(q)'
    BY DEF ToolInv
  <1> QED
    BY <1>1, <1>2 DEF Requests

\* Every call that raises does so.
LEMMA CallIsRaise ==
    ASSUME NEW r, CallRaises(r)
    PROVE  Raise(r)
  BY DEF CallRaises, CreateRaises, StartRaises, EngineRaises, ToolRaises, UserRaises,
         ReleaseRaises

\* A tool is released and forgotten at once.
LEMMA ReleaseToolRInv ==
    ASSUME RInv, NEW r \in Requests, NEW t \in Tools, ReleaseTool(r, t)
    PROVE  RInv'
  <1> USE DEF RInv, TalkTypeOK, ReleaseTool, talkVars
  <1>1. TalkTypeOK'
    BY DEF Requests
  <1>2. ToolInv(r)'
    BY DEF ToolInv
  <1>3. ASSUME NEW q \in Requests \ {r} PROVE ToolInv(q)'
    BY DEF ToolInv
  <1> QED
    BY <1>1, <1>2, <1>3 DEF Requests

\* finalize finds a reason it knows, and nothing left to release.
LEMMA FinalizeRInv ==
    ASSUME RInv, NEW r \in Requests, Finalize(r)
    PROVE  RInv'
  <1> USE DEF RInv, TalkTypeOK
  <1>1. reason[r] \in Supported /\ live[r] = {} /\ state[r] # "PENDING"
    BY DEF Finalize, ToolInv
  <1>2. /\ at' = [at EXCEPT ![r] = "returned"]
        /\ state' = [state EXCEPT ![r] = "COMPLETED"]
        /\ UNCHANGED <<batch, turns, calls, reason, live, pending>>
    BY <1>1 DEF Finalize
  <1>3. TalkTypeOK'
    BY <1>2 DEF States, Requests
  <1>4. ToolInv(r)'
    BY <1>1, <1>2 DEF ToolInv
  <1>5. ASSUME NEW q \in Requests \ {r} PROVE ToolInv(q)'
    BY <1>2 DEF ToolInv
  <1> QED
    BY <1>2, <1>3, <1>4, <1>5 DEF Requests

\* What the ranks do at the barrier leaves the requests alone.
LEMMA GroupRInv ==
    ASSUME RInv, Group \/ (\E k \in World : OtherRaises(k)) \/ UNCHANGED vars
    PROVE  RInv'
  <1>1. UNCHANGED <<batch, at, state, turns, calls, reason, live, pending>>
    BY DEF Group, Gathered, PassBarrier, ReachBarrier, OtherRaises, Return, RankGoes, vars,
           talkVars
  <1> QED
    BY <1>1 DEF RInv, TalkTypeOK, ToolInv, Requests

-----------------------------------------------------------------------------

\* The invariant holds in every behaviour, whatever the constants are.
THEOREM RequestsInvariance == Spec => []RInv
  <1>1. RInv /\ [Next]_vars => RInv'
    <2> SUFFICES ASSUME RInv, [Next]_vars PROVE RInv'
      OBVIOUS
    <2>1. CASE Group \/ (\E k \in World : OtherRaises(k)) \/ UNCHANGED vars
      BY <2>1, GroupRInv
    <2>2. ASSUME NEW r \in Requests, Step(r) PROVE RInv'
      BY <2>2, CreateToolRInv, ReleaseToolRInv, StartRInv, AnswerRInv, ReplyRInv,
         TurnsUsedRInv, RaiseRInv, FinalizeRInv DEF Step, UnknownTool, UnknownUser
    <2>3. ASSUME NEW r \in Requests, CallRaises(r) PROVE RInv'
      BY <2>3, CallIsRaise, RaiseRInv
    <2> QED
      BY <2>1, <2>2, <2>3 DEF Next
  <1> QED
    BY <1>1, InitRInv, PTL DEF Spec

\* No instance of a tool is used before it is created, released before its
\* reward was taken, or left behind when its conversation is over.
THEOREM ToolsAreReleased == Spec => []ToolsReleased
  <1>1. RInv => ToolsReleased
    BY DEF RInv, TalkTypeOK, ToolInv, ToolsReleased
  <1> QED
    BY <1>1, RequestsInvariance, PTL

\* finalize never gets a reason it does not know, tools are never called
\* without a call, and a conversation never turns to a user nobody knows: when
\* a request raises, a call of its own did or a name was not known.
THEOREM FinalizeKnowsTheReason == Spec => []OwnChecksHold
  <1>1. RInv => OwnChecksHold
    BY Rows DEF RInv, TalkTypeOK, ToolInv, OwnChecksHold
  <1> QED
    BY <1>1, RequestsInvariance, PTL

-----------------------------------------------------------------------------
(* The tokens of a conversation.                                           *)

Kinds == {"prompt", "gen", "answer", "tool", "user"}
Written(kind) == IF kind = "answer" THEN 1 ELSE 0

\* Ids and mask of a conversation whose prompt has p tokens: behind them the
\* mask marks the answers, and a generation prompt is answered or the last.
Marked(s, m, p) ==
    /\ s \in Seq(Kinds) /\ m \in Seq({0, 1}) /\ Len(m) = Len(s)
    /\ p \in Nat \ {0} /\ p <= Len(s) /\ s[p] = "gen"
    /\ \A i \in p + 1 .. Len(s) : m[i] = Written(s[i])
    /\ \A i \in p .. Len(s) - 1 : s[i] = "gen" => s[i + 1] = "answer"

LEMMA RepeatIsSeq ==
    ASSUME NEW S, NEW value \in S, NEW n \in Nat
    PROVE  /\ Repeat(value, n) \in Seq(S)
           /\ Len(Repeat(value, n)) = n
           /\ \A i \in 1 .. n : Repeat(value, n)[i] = value
  BY DEF Repeat

LEMMA ConcatIsSeq ==
    ASSUME NEW S, NEW s \in Seq(S), NEW t \in Seq(S)
    PROVE  /\ s \o t \in Seq(S)
           /\ Len(s \o t) = Len(s) + Len(t)
           /\ \A i \in 1 .. Len(s) + Len(t) :
                 (s \o t)[i] = IF i <= Len(s) THEN s[i] ELSE t[i - Len(s)]
  BY ConcatProperties

\* What is put behind a conversation keeps it marked if it is marked itself
\* and answers the generation prompt before it.
LEMMA GrowMarked ==
    ASSUME NEW s, NEW m, NEW p, Marked(s, m, p),
           NEW kind \in Kinds, NEW n \in Nat,
           kind = "gen" => n = 1,
           kind = "answer" \/ s[Len(s)] # "gen"
    PROVE  /\ Marked(s \o Repeat(kind, n), m \o Repeat(Written(kind), n), p)
           /\ n > 0 => (s \o Repeat(kind, n))[Len(s \o Repeat(kind, n))] = kind
  <1> DEFINE t == Repeat(kind, n)
             l == Repeat(Written(kind), n)
             u == s \o t
             v == m \o l
             len == Len(s)
  <1>1. /\ t \in Seq(Kinds) /\ Len(t) = n /\ \A i \in 1 .. n : t[i] = kind
        /\ l \in Seq({0, 1}) /\ Len(l) = n /\ \A i \in 1 .. n : l[i] = Written(kind)
    <2>1. kind \in Kinds /\ Written(kind) \in {0, 1} /\ n \in Nat
      BY DEF Written
    <2> QED
      BY <2>1, RepeatIsSeq, ZenonT(30)
  <1> HIDE DEF t, l
  <1>2. /\ s \in Seq(Kinds) /\ m \in Seq({0, 1}) /\ Len(m) = len
        /\ len \in Nat /\ p \in Nat /\ p > 0 /\ p <= len /\ s[p] = "gen"
    BY DEF Marked
  <1>3. /\ u \in Seq(Kinds) /\ Len(u) = len + n
        /\ \A i \in 1 .. len + n : u[i] = IF i <= len THEN s[i] ELSE t[i - len]
    <2>1. s \in Seq(Kinds) /\ t \in Seq(Kinds)
      BY <1>1, <1>2
    <2>2. /\ s \o t \in Seq(Kinds)
          /\ Len(s \o t) = Len(s) + Len(t)
          /\ \A i \in 1 .. Len(s) + Len(t) :
                (s \o t)[i] = IF i <= Len(s) THEN s[i] ELSE t[i - Len(s)]
      BY <2>1, ConcatIsSeq
    <2>3. Len(s) = len /\ Len(t) = n
      BY <1>1, <1>2
    <2> QED
      BY <2>2, <2>3
  <1>4. /\ v \in Seq({0, 1}) /\ Len(v) = len + n
        /\ \A i \in 1 .. len + n : v[i] = IF i <= len THEN m[i] ELSE l[i - len]
    <2>1. m \in Seq({0, 1}) /\ l \in Seq({0, 1})
      BY <1>1, <1>2
    <2>2. /\ m \o l \in Seq({0, 1})
          /\ Len(m \o l) = Len(m) + Len(l)
          /\ \A i \in 1 .. Len(m) + Len(l) :
                (m \o l)[i] = IF i <= Len(m) THEN m[i] ELSE l[i - Len(m)]
      BY <2>1, ConcatIsSeq
    <2>3. Len(m) = len /\ Len(l) = n
      BY <1>1, <1>2
    <2> QED
      BY <2>2, <2>3
  <1>5. /\ \A i \in p + 1 .. len : m[i] = Written(s[i])
        /\ \A i \in p .. len - 1 : s[i] = "gen" => s[i + 1] = "answer"
    BY DEF Marked
  <1>6. kind = "answer" \/ s[len] # "gen"
    OBVIOUS
  <1> HIDE DEF u, v, len
  <1>7. /\ \A i \in len + 1 .. len + n : u[i] = kind /\ v[i] = Written(kind)
        /\ \A i \in 1 .. len : u[i] = s[i] /\ v[i] = m[i]
    <2>1. ASSUME NEW i \in len + 1 .. len + n PROVE u[i] = kind /\ v[i] = Written(kind)
      <3>1. i \in 1 .. len + n /\ ~(i <= len) /\ i - len \in 1 .. n
        BY <1>2
      <3> QED
        BY <3>1, <1>1, <1>3, <1>4
    <2>2. ASSUME NEW i \in 1 .. len PROVE u[i] = s[i] /\ v[i] = m[i]
      <3>1. i \in 1 .. len + n /\ i <= len
        BY <1>2
      <3> QED
        BY <3>1, <1>3, <1>4
    <2> QED
      BY <2>1, <2>2
  <1>8. \A i \in p + 1 .. len + n : v[i] = Written(u[i])
    <2> TAKE i \in p + 1 .. len + n
    <2>1. CASE i <= len
      <3>1. i \in p + 1 .. len /\ i \in 1 .. len
        BY <1>2, <2>1
      <3> QED
        BY <3>1, <1>5, <1>7
    <2>2. CASE i > len
      <3>1. i \in len + 1 .. len + n
        BY <1>2, <2>2
      <3> QED
        BY <3>1, <1>7
    <2> QED
      BY <1>2, <2>1, <2>2
  <1>9. \A i \in p .. len + n - 1 : u[i] = "gen" => u[i + 1] = "answer"
    <2> SUFFICES ASSUME NEW i \in p .. len + n - 1, u[i] = "gen"
                 PROVE  u[i + 1] = "answer"
      OBVIOUS
    <2>1. CASE i < len
      <3>1. i \in p .. len - 1 /\ i \in 1 .. len /\ i + 1 \in 1 .. len
        BY <1>2, <2>1
      <3> QED
        BY <3>1, <1>5, <1>7
    <2>2. CASE i = len
      <3>1. i \in 1 .. len /\ i + 1 \in len + 1 .. len + n
        BY <1>2, <2>2
      <3> QED
        BY <2>2, <3>1, <1>6, <1>7
    <2>3. CASE i > len
      <3>1. i \in len + 1 .. len + n /\ n # 1
        BY <1>2, <2>3
      <3> QED
        BY <3>1, <1>7
    <2> QED
      BY <1>2, <2>1, <2>2, <2>3
  <1>10. Marked(u, v, p)
    <2>1. p \in 1 .. len /\ u[p] = s[p]
      BY <1>2, <1>7
    <2>2. p \in Nat \ {0} /\ p <= Len(u)
      BY <1>2, <1>3
    <2> QED
      BY <1>2, <1>3, <1>4, <1>8, <1>9, <2>1, <2>2 DEF Marked
  <1>11. n > 0 => u[Len(u)] = kind
    BY <1>2, <1>3, <1>7
  <1> QED
    BY <1>10, <1>11 DEF t, l, u, v

-----------------------------------------------------------------------------
(* What finalize makes of them.                                            *)

\* The part of a sequence behind its first p elements, cut at "end" and then
\* to n elements.
Cut(s, p, end, n) ==
    LET head == SubSeq(s, 1, end) IN Upto(SubSeq(head, p + 1, Len(head)), n)

CutLength(p, end, n) == Least(IF p < end THEN end - p ELSE 0, n)

LEMMA CutIsSeq ==
    ASSUME NEW S, NEW s \in Seq(S), NEW p \in Nat, NEW end \in Nat, end <= Len(s),
           NEW n \in Nat
    PROVE  /\ Cut(s, p, end, n) \in Seq(S)
           /\ Len(Cut(s, p, end, n)) = CutLength(p, end, n)
           /\ \A i \in 1 .. CutLength(p, end, n) : Cut(s, p, end, n)[i] = s[p + i]
  <1> DEFINE a == SubSeq(s, 1, end)
             b == SubSeq(a, p + 1, Len(a))
             d == IF p < end THEN end - p ELSE 0
             c == Cut(s, p, end, n)
             k == CutLength(p, end, n)
  <1>0. /\ Len(s) \in Nat /\ \A i \in 1 .. Len(s) : s[i] \in S
        /\ c = Upto(b, n) /\ k = Least(d, n)
    BY DEF Cut, CutLength
  <1> HIDE DEF c, k
  <1>1. a \in Seq(S) /\ Len(a) = end /\ \A i \in 1 .. end : a[i] = s[i]
    <2>1. \A i \in 1 .. end : s[i] \in S
      BY <1>0
    <2>2. /\ a \in Seq(S) /\ Len(a) = IF 1 <= end THEN end - 1 + 1 ELSE 0
          /\ \A i \in 1 .. end - 1 + 1 : a[i] = s[1 + i - 1]
      BY <2>1, SubSeqProperties
    <2> QED
      BY <2>2
  <1> HIDE DEF a
  <1>2. b \in Seq(S) /\ Len(b) = d /\ \A i \in 1 .. d : b[i] = s[p + i]
    <2>1. \A i \in p + 1 .. end : a[i] = s[i] /\ a[i] \in S
      BY <1>0, <1>1
    <2>2. /\ b \in Seq(S) /\ Len(b) = IF p + 1 <= end THEN end - (p + 1) + 1 ELSE 0
          /\ \A i \in 1 .. end - (p + 1) + 1 : b[i] = a[p + 1 + i - 1]
      <3>1. b = SubSeq(a, p + 1, end) /\ p + 1 \in Int /\ end \in Int
        BY <1>1
      <3> HIDE DEF b
      <3> QED
        BY <2>1, <3>1, SubSeqProperties
    <2> HIDE DEF b
    <2>3. ASSUME NEW i \in 1 .. d PROVE b[i] = s[p + i]
      <3>1. i \in 1 .. end - (p + 1) + 1 /\ p + 1 + i - 1 = p + i /\ p + i \in p + 1 .. end
        OBVIOUS
      <3> QED
        BY <2>1, <2>2, <3>1
    <2>4. Len(b) = d
      BY <2>2
    <2> QED
      BY <2>2, <2>3, <2>4
  <1> HIDE DEF b
  <1>3. d \in Nat /\ k \in Nat /\ k <= d /\ Least(Len(b), n) = k
    BY <1>0, <1>2 DEF Least
  <1>4. c = SubSeq(b, 1, k)
    BY <1>0, <1>3 DEF Upto
  <1> HIDE DEF d
  <1>5. \A i \in 1 .. k : b[i] = s[p + i] /\ b[i] \in S
    <2> TAKE i \in 1 .. k
    <2>1. i \in 1 .. Len(b)
      BY <1>2, <1>3
    <2> QED
      BY <1>2, <2>1, ElementOfSeq
  <1>6. /\ SubSeq(b, 1, k) \in Seq(S)
        /\ Len(SubSeq(b, 1, k)) = IF 1 <= k THEN k - 1 + 1 ELSE 0
        /\ \A i \in 1 .. k - 1 + 1 : SubSeq(b, 1, k)[i] = b[1 + i - 1]
    <2>1. 1 \in Int /\ k \in Int /\ \A i \in 1 .. k : b[i] \in S
      BY <1>3, <1>5
    <2> QED
      BY <2>1, SubSeqProperties
  <1>7. c \in Seq(S) /\ Len(c) = k /\ \A i \in 1 .. k : c[i] = s[p + i]
    BY <1>3, <1>4, <1>5, <1>6
  <1> QED
    BY <1>7 DEF c, k

LEMMA CutHasLength ==
    ASSUME NEW S, NEW s \in Seq(S), NEW p \in Nat, NEW end \in Nat, end <= Len(s),
           NEW n \in Nat
    PROVE  Len(Cut(s, p, end, n)) = CutLength(p, end, n)
  BY CutIsSeq, ZenonT(30)

LEMMA CutElements ==
    ASSUME NEW S, NEW s \in Seq(S), NEW p \in Nat, NEW end \in Nat, end <= Len(s),
           NEW n \in Nat
    PROVE  \A i \in 1 .. CutLength(p, end, n) : Cut(s, p, end, n)[i] = s[p + i]
  <1> TAKE i \in 1 .. CutLength(p, end, n)
  <1> QED
    BY CutIsSeq, ZenonT(60)

\* A response of at most n tokens behind p tokens of prompt, whose mask marks
\* the answers, which begins with an answer, and in which a generation prompt is
\* answered unless it is where the response was cut, to n elements or at limit.
Trained(tokens, losses, p, n, limit) ==
    /\ tokens \in Seq(Kinds) /\ losses \in Seq({0, 1}) /\ Len(losses) = Len(tokens)
    /\ Len(tokens) <= n
    /\ \A i \in 1 .. Len(tokens) : losses[i] = Written(tokens[i])
    /\ Len(tokens) > 0 => tokens[1] = "answer"
    /\ \A i \in 1 .. Len(tokens) : tokens[i] = "gen" =>
          IF i = Len(tokens) THEN Len(tokens) = n \/ p + Len(tokens) = limit
                             ELSE tokens[i + 1] = "answer"

\* Such is a part of a marked conversation that is cut at limit or where no
\* generation prompt is left at the end.
LEMMA CutIsMarked ==
    ASSUME NEW s, NEW m, NEW p, Marked(s, m, p),
           NEW end \in Nat, end <= Len(s), NEW limit, NEW n \in Nat,
           s[Len(s)] = "gen" => end # Len(s),
           \/ end = limit
           \/ s[Len(s)] = "gen" /\ end = Len(s) - 1
           \/ s[Len(s)] # "gen" /\ end = Len(s)
    PROVE  Trained(Cut(s, p, end, n), Cut(m, p, end, n), p, n, limit)
  <1> DEFINE k == CutLength(p, end, n)
             len == Len(s)
             tokens == Cut(s, p, end, n)
             losses == Cut(m, p, end, n)
  <1>1. /\ s \in Seq(Kinds) /\ m \in Seq({0, 1}) /\ Len(m) = len
        /\ len \in Nat /\ p \in Nat /\ p > 0 /\ p <= len /\ s[p] = "gen"
        /\ \A i \in p + 1 .. len : m[i] = Written(s[i])
        /\ \A i \in p .. len - 1 : s[i] = "gen" => s[i + 1] = "answer"
    BY DEF Marked
  <1>2. end <= Len(s) /\ end <= Len(m)
    BY <1>1
  <1>0. /\ k = Least(IF p < end THEN end - p ELSE 0, n)
        /\ tokens = Cut(s, p, end, n) /\ losses = Cut(m, p, end, n)
    BY DEF CutLength
  <1> HIDE DEF k, tokens, losses
  <1>3. tokens \in Seq(Kinds) /\ Len(tokens) = k /\ \A i \in 1 .. k : tokens[i] = s[p + i]
    <2>1. s \in Seq(Kinds) /\ p \in Nat /\ end \in Nat /\ end <= Len(s) /\ n \in Nat
      BY <1>1, <1>2
    <2>2. Cut(s, p, end, n) \in Seq(Kinds)
      BY <2>1, CutIsSeq, ZenonT(30)
    <2>3. Len(Cut(s, p, end, n)) = CutLength(p, end, n)
      BY <2>1, CutHasLength, ZenonT(30)
    <2>4. \A i \in 1 .. CutLength(p, end, n) : Cut(s, p, end, n)[i] = s[p + i]
      BY <2>1, CutElements, ZenonT(30)
    <2> QED
      BY <1>0, <2>2, <2>3, <2>4 DEF k
  <1>4. losses \in Seq({0, 1}) /\ Len(losses) = k /\ \A i \in 1 .. k : losses[i] = m[p + i]
    <2>1. m \in Seq({0, 1}) /\ p \in Nat /\ end \in Nat /\ end <= Len(m) /\ n \in Nat
      BY <1>1, <1>2
    <2>2. Cut(m, p, end, n) \in Seq({0, 1})
      BY <2>1, CutIsSeq, ZenonT(30)
    <2>3. Len(Cut(m, p, end, n)) = CutLength(p, end, n)
      BY <2>1, CutHasLength, ZenonT(30)
    <2>4. \A i \in 1 .. CutLength(p, end, n) : Cut(m, p, end, n)[i] = m[p + i]
      BY <2>1, CutElements, ZenonT(30)
    <2> QED
      BY <1>0, <2>2, <2>3, <2>4 DEF k
  <1>5. /\ k \in Nat /\ k <= n
        /\ k > 0 => p + k <= end
        /\ k = n \/ k = 0 \/ p + k = end
    BY <1>0, <1>1 DEF Least
  <1>6. /\ end <= len
        /\ s[len] = "gen" => end # len
        /\ \/ end = limit
           \/ s[len] = "gen" /\ end = len - 1
           \/ s[len] # "gen" /\ end = len
    OBVIOUS
  <1> HIDE DEF len
  <1>10. \A i \in 1 .. k : losses[i] = Written(tokens[i])
    <2> TAKE i \in 1 .. k
    <2>1. p + i \in p + 1 .. len
      BY <1>1, <1>5, <1>6
    <2> QED
      BY <1>1, <1>3, <1>4, <2>1
  <1>11. k > 0 => tokens[1] = "answer"
    <2> SUFFICES ASSUME k > 0 PROVE tokens[1] = "answer"
      OBVIOUS
    <2>1. 1 \in 1 .. k /\ p \in p .. len - 1
      BY <1>1, <1>5, <1>6
    <2>2. s[p + 1] = "answer"
      BY <1>1, <2>1
    <2> QED
      BY <1>3, <2>1, <2>2
  <1>12. ASSUME NEW i \in 1 .. k, tokens[i] = "gen"
         PROVE  IF i = k THEN k = n \/ p + k = limit ELSE tokens[i + 1] = "answer"
    <2>1. s[p + i] = "gen" /\ p + i <= end /\ i <= k /\ i \in Int
      <3>1. s[p + i] = "gen"
        BY <1>3, <1>12
      <3> QED
        BY <3>1, <1>1, <1>5
    <2>2. CASE i < k
      <3>1. i + 1 \in 1 .. k /\ p + i \in p .. len - 1 /\ p + (i + 1) = (p + i) + 1
        BY <1>1, <1>5, <1>6, <2>1, <2>2
      <3>2. s[(p + i) + 1] = "answer"
        BY <1>1, <2>1, <3>1
      <3>3. tokens[i + 1] = "answer"
        BY <1>3, <3>1, <3>2
      <3> QED
        BY <1>5, <2>2, <3>3
    <2>3. CASE i = k
      <3> SUFFICES ASSUME k # n, end # limit PROVE FALSE
        BY <1>1, <1>5, <2>1, <2>3
      <3>1. p + k = end /\ s[end] = "gen"
        BY <1>5, <2>1, <2>3
      <3>2. end = len - 1 /\ s[len] = "gen" /\ end \in p .. len - 1
        BY <1>1, <1>5, <1>6, <2>1, <2>3, <3>1
      <3>3. s[end + 1] = "answer" /\ end + 1 = len
        BY <1>1, <3>1, <3>2
      <3> QED
        BY <3>2, <3>3
    <2> QED
      BY <1>5, <2>1, <2>2, <2>3
  <1> QED
    BY <1>3, <1>4, <1>5, <1>10, <1>11, <1>12 DEF Trained, tokens, losses

-----------------------------------------------------------------------------
(* The tokens of every request.                                            *)

Calling == {"TOOL_CALLING", "INTERACTING"}

TokenInv(r) ==
    /\ Marked(ids[r], mask[r], batch[r].length + 1)
    /\ at[r] = "loop" /\ state[r] \in Calling => ~EndsWithPrompt(ids[r])
    /\ at[r] = "returned" => result[r] = Finalized(r)

TInv ==
    /\ DOMAIN ids = Requests /\ DOMAIN mask = Requests /\ DOMAIN result = Requests
    /\ \A r \in Requests : TokenInv(r)

\* The prompt of a row is marked, with the generation prompt at its end.
LEMMA InitTInv == Init => TInv
  <1> SUFFICES ASSUME Init PROVE TInv
    OBVIOUS
  <1>1. /\ DOMAIN ids = Requests /\ DOMAIN mask = Requests /\ DOMAIN result = Requests
        /\ \A r \in Requests : at[r] = "loop" /\ state[r] = "PENDING"
    BY DEF Init
  <1>2. ASSUME NEW r \in Requests PROVE Marked(ids[r], mask[r], batch[r].length + 1)
    <2> DEFINE n == batch[r].length
               front == Repeat("prompt", n)
    <2>1. n \in Nat /\ n > 0
      <3>1. batch \in Seq(Row)
        BY RolloutAssumption DEF Init
      <3>2. batch[r] \in Row
        BY <3>1 DEF Requests
      <3> QED
        BY <3>2 DEF Row
    <2>2. ids[r] = Append(front, "gen") /\ mask[r] = Repeat(0, Len(ids[r]))
      BY DEF Init, Prompt
    <2> HIDE DEF n
    <2>3. front \in Seq(Kinds) /\ Len(front) = n
      BY <2>1, RepeatIsSeq DEF Kinds
    <2> HIDE DEF front
    <2>4. ids[r] \in Seq(Kinds) /\ Len(ids[r]) = n + 1 /\ ids[r][n + 1] = "gen"
      BY <2>1, <2>2, <2>3 DEF Kinds
    <2>5. mask[r] \in Seq({0, 1}) /\ Len(mask[r]) = n + 1
      <3>1. mask[r] = Repeat(0, n + 1) /\ n + 1 \in Nat /\ 0 \in {0, 1}
        BY <2>1, <2>2, <2>4
      <3> QED
        BY <3>1, RepeatIsSeq
    <2>6. Marked(ids[r], mask[r], n + 1)
      BY <2>1, <2>4, <2>5 DEF Marked
    <2> QED
      BY <2>6 DEF n
  <1> QED
    BY <1>1, <1>2 DEF TInv, TokenInv, Calling

\* A step that writes no token and finalizes as finalize does.
LEMMA SameTokens ==
    ASSUME TInv, UNCHANGED <<batch, ids, mask>>, DOMAIN result' = Requests,
           \A q \in Requests :
              /\ at'[q] = "loop" /\ state'[q] \in Calling => at[q] = "loop" /\ state[q] \in Calling
              /\ at'[q] = "returned" => result'[q] = Finalized(q)
    PROVE  TInv'
  <1>1. ASSUME NEW q \in Requests PROVE TokenInv(q)'
    <2>1. Finalized(q)' = Finalized(q)
      BY DEF Finalized, Response, Prompt
    <2> QED
      BY <2>1 DEF TInv, TokenInv, EndsWithPrompt
  <1> QED
    BY <1>1 DEF TInv, Requests

\* A step of a request in the loop that writes marked tokens.
LEMMA NewTokens ==
    ASSUME TInv, RInv, NEW r \in Requests, NEW s, NEW m, NEW w,
           at[r] = "loop",
           Marked(s, m, batch[r].length + 1),
           w \in Calling => ~EndsWithPrompt(s),
           ids' = [ids EXCEPT ![r] = s], mask' = [mask EXCEPT ![r] = m],
           state' = [state EXCEPT ![r] = w],
           at' \in {at, [at EXCEPT ![r] = "releasing"]},
           UNCHANGED <<batch, result>>
    PROVE  TInv'
  <1>1. ids'[r] = s /\ mask'[r] = m /\ state'[r] = w /\ at'[r] # "returned"
    BY DEF TInv, RInv, TalkTypeOK
  <1>2. TokenInv(r)'
    BY <1>1 DEF TokenInv
  <1>3. ASSUME NEW q \in Requests \ {r} PROVE TokenInv(q)'
    <2>1. /\ ids'[q] = ids[q] /\ mask'[q] = mask[q] /\ state'[q] = state[q]
          /\ at'[q] = at[q] /\ result'[q] = result[q]
      BY DEF TInv, RInv, TalkTypeOK
    <2>2. Finalized(q)' = Finalized(q)
      BY <2>1 DEF Finalized, Response, Prompt
    <2> QED
      BY <2>1, <2>2 DEF TInv, TokenInv, EndsWithPrompt
  <1> QED
    BY <1>2, <1>3 DEF TInv, Requests

\* The generation prompt is put behind a conversation that does not end with it.
LEMMA PromptedIsMarked ==
    ASSUME NEW s, NEW m, NEW p, Marked(s, m, p), NEW added, added = GenerationPrompt(s)
    PROVE  Marked(s \o added, m \o Repeat(0, Len(added)), p)
  <1>1. /\ s \in Seq(Kinds) /\ m \in Seq({0, 1})
    BY DEF Marked
  <1>2. CASE EndsWithPrompt(s)
    <2>1. added = <<>> /\ Repeat(0, Len(added)) = <<>>
      BY <1>2 DEF GenerationPrompt, Repeat
    <2>2. s \o added = s /\ m \o Repeat(0, Len(added)) = m
      BY <1>1, <2>1
    <2> QED
      BY <2>2
  <1>3. CASE ~EndsWithPrompt(s)
    <2>1. added = <<"gen">> /\ Len(added) = 1
      BY <1>3 DEF GenerationPrompt
    <2>2. Repeat("gen", 1) = <<"gen">> /\ Written("gen") = 0 /\ "gen" \in Kinds
      BY DEF Repeat, Written, Kinds
    <2>3. s[Len(s)] # "gen"
      BY <1>3 DEF EndsWithPrompt
    <2>4. Marked(s \o Repeat("gen", 1), m \o Repeat(Written("gen"), 1), p)
      BY <2>2, <2>3, GrowMarked
    <2> QED
      BY <2>1, <2>2, <2>4
  <1> QED
    BY <1>2, <1>3

\* The model's turn: a generation prompt, if one is wanting, and an answer.
LEMMA AnsweredIsMarked ==
    ASSUME TInv, NEW r \in Requests, NEW n \in Nat, Answered(r, n)
    PROVE  \E s, m : /\ Marked(s, m, batch[r].length + 1) /\ ~EndsWithPrompt(s)
                     /\ ids' = [ids EXCEPT ![r] = s] /\ mask' = [mask EXCEPT ![r] = m]
  <1> DEFINE added == GenerationPrompt(ids[r])
             s == ids[r] \o added
             m == mask[r] \o Repeat(0, Len(added))
             p == batch[r].length + 1
             t == s \o Repeat("answer", n + 1)
             l == m \o Repeat(1, n + 1)
  <1>1. ids' = [ids EXCEPT ![r] = t] /\ mask' = [mask EXCEPT ![r] = l]
    BY DEF Answered
  <1>2. Marked(ids[r], mask[r], p)
    BY DEF TInv, TokenInv
  <1>3. Marked(s, m, p)
    BY <1>2, PromptedIsMarked
  <1> HIDE DEF s, m, p
  <1>4. Written("answer") = 1 /\ "answer" \in Kinds /\ n + 1 \in Nat /\ n + 1 > 0
    BY DEF Written, Kinds
  <1>5. /\ Marked(s \o Repeat("answer", n + 1), m \o Repeat(Written("answer"), n + 1), p)
        /\ (s \o Repeat("answer", n + 1))[Len(s \o Repeat("answer", n + 1))] = "answer"
    BY <1>3, <1>4, GrowMarked
  <1>6. Marked(t, l, p) /\ ~EndsWithPrompt(t)
    BY <1>4, <1>5 DEF EndsWithPrompt
  <1> HIDE DEF t, l
  <1> QED
    BY <1>1, <1>6 DEF p

-----------------------------------------------------------------------------
(* The steps that write.                                                   *)

\* The model's turn, or none because there is no room for one.
LEMMA AnswerTInv ==
    ASSUME TInv, RInv, NEW r \in Requests,
           NoRoomToGenerate(r) \/ AnswerCut(r) \/ AnswerCalls(r) \/ AnswerTalks(r)
    PROVE  TInv'
  <1> DEFINE leaves == at' = [at EXCEPT ![r] = "releasing"]
  <1>0. state \in [Requests -> States] /\ Marked(ids[r], mask[r], batch[r].length + 1)
    BY DEF TInv, TokenInv, RInv, TalkTypeOK
  <1>1. CASE NoRoomToGenerate(r)
    <2> DEFINE added == GenerationPrompt(ids[r])
               s == ids[r] \o added
               m == mask[r] \o Repeat(0, Len(added))
    <2>1. Marked(s, m, batch[r].length + 1)
      BY <1>0, PromptedIsMarked
    <2>2. /\ ids' = [ids EXCEPT ![r] = s] /\ mask' = [mask EXCEPT ![r] = m]
          /\ at[r] = "loop" /\ state[r] = "RUNNING" /\ leaves
          /\ UNCHANGED <<batch, state, result>>
      BY <1>1 DEF NoRoomToGenerate, InLoop, Extend, Break, Leave
    <2>3. state' = [state EXCEPT ![r] = "RUNNING"] /\ "RUNNING" \notin Calling
      BY <1>0, <2>2 DEF Calling
    <2> HIDE DEF s, m
    <2> QED
      BY <2>1, <2>2, <2>3, NewTokens
  <1>2. ASSUME NEW n \in Lengths, NEW w, Answered(r, n),
               state' = [state EXCEPT ![r] = w],
               at' \in {at, [at EXCEPT ![r] = "releasing"]}
        PROVE  TInv'
    <2>1. n \in Nat
      BY RolloutAssumption DEF Lengths
    <2>2. PICK s, m : /\ Marked(s, m, batch[r].length + 1) /\ ~EndsWithPrompt(s)
                      /\ ids' = [ids EXCEPT ![r] = s] /\ mask' = [mask EXCEPT ![r] = m]
      BY <1>2, <2>1, AnsweredIsMarked
    <2>3. at[r] = "loop" /\ UNCHANGED <<batch, result>>
      BY <1>2 DEF Answered, InLoop
    <2> QED
      BY <1>2, <2>2, <2>3, NewTokens
  <1>3. CASE AnswerCut(r)
    <2>1. PICK n \in Lengths : Answered(r, n)
      BY <1>3 DEF AnswerCut
    <2>2. state' = [state EXCEPT ![r] = state[r]] /\ leaves
      BY <1>0, <1>3 DEF AnswerCut, Break, Leave
    <2> QED
      BY <1>2, <2>1, <2>2
  <1>4. CASE AnswerCalls(r)
    <2>1. PICK n \in Lengths : /\ Answered(r, n)
                               /\ \/ state' = [state EXCEPT ![r] = "COMPLETED"] /\ leaves
                                  \/ state' = [state EXCEPT ![r] = "TOOL_CALLING"] /\ at' = at
      BY <1>4 DEF AnswerCalls, Break, Leave, Continue
    <2> QED
      BY <1>2, <2>1
  <1>5. CASE AnswerTalks(r)
    <2>1. PICK n \in Lengths : Answered(r, n)
      BY <1>5 DEF AnswerTalks
    <2>2. \/ state' = [state EXCEPT ![r] = "INTERACTING"] /\ at' = at
          \/ state' = [state EXCEPT ![r] = state[r]] /\ leaves
      BY <1>0, <1>5 DEF AnswerTalks, Break, Leave, Continue
    <2> QED
      BY <1>2, <2>1, <2>2
  <1> QED
    BY <1>1, <1>3, <1>4, <1>5

\* The turn of the tools or of the user: its tokens come behind an answer.
LEMMA ReplyTInv ==
    ASSUME TInv, RInv, NEW r \in Requests, AnswerTools(r) \/ AnswerUser(r)
    PROVE  TInv'
  <1>0. /\ Marked(ids[r], mask[r], batch[r].length + 1)
        /\ at[r] = "loop" /\ state[r] \in Calling /\ UNCHANGED <<batch, result>>
    BY DEF TInv, TokenInv, AnswerTools, AnswerUser, InLoop, Calling
  <1>1. ids[r][Len(ids[r])] # "gen"
    BY <1>0 DEF TInv, TokenInv, EndsWithPrompt
  <1>2. ASSUME NEW kind \in {"tool", "user"}, NEW n \in MessageTokens,
               Extend(r, Repeat(kind, n), 0), Continue(r, "RUNNING")
        PROVE  TInv'
    <2> DEFINE s == ids[r] \o Repeat(kind, n)
               m == mask[r] \o Repeat(0, n)
    <2>1. n \in Nat /\ kind \in Kinds /\ Written(kind) = 0
      BY RolloutAssumption DEF Kinds, Written
    <2>2. Len(Repeat(kind, n)) = n
      BY <2>1, RepeatIsSeq
    <2>3. Marked(s, m, batch[r].length + 1)
      BY <1>0, <1>1, <2>1, GrowMarked
    <2>4. ids' = [ids EXCEPT ![r] = s] /\ mask' = [mask EXCEPT ![r] = m]
      BY <1>2, <2>2 DEF Extend
    <2> HIDE DEF s, m
    <2>5. at' = at /\ state' = [state EXCEPT ![r] = "RUNNING"] /\ "RUNNING" \notin Calling
      BY <1>2 DEF Continue, Calling
    <2> QED
      BY <1>0, <2>3, <2>4, <2>5, NewTokens
  <1>3. CASE AnswerTools(r)
    BY <1>2, <1>3 DEF AnswerTools
  <1>4. CASE AnswerUser(r)
    <2>1. CASE /\ state' = [state EXCEPT ![r] = "COMPLETED"]
               /\ UNCHANGED <<ids, mask>>
               /\ Break(r, "STOP")
      <3>1. at' = [at EXCEPT ![r] = "releasing"]
        BY <2>1 DEF Break, Leave
      <3>2. ASSUME NEW q \in Requests
            PROVE  /\ at'[q] = "loop" /\ state'[q] \in Calling =>
                         at[q] = "loop" /\ state[q] \in Calling
                   /\ at'[q] = "returned" => result'[q] = Finalized(q)
        BY <1>0, <2>1, <3>1 DEF TInv, TokenInv, RInv, TalkTypeOK, Calling
      <3> QED
        BY <1>0, <2>1, <3>2, SameTokens DEF TInv
    <2>2. CASE \E n \in MessageTokens :
                  Extend(r, Repeat("user", n), 0) /\ Continue(r, "RUNNING")
      BY <1>2, <2>2
    <2> QED
      BY <1>4, <2>1, <2>2 DEF AnswerUser
  <1> QED
    BY <1>3, <1>4

\* The other steps of a request write nothing.
LEMMA QuietTInv ==
    ASSUME TInv, RInv, NEW r \in Requests,
           \/ \E t \in Tools : CreateTool(r, t) \/ ReleaseTool(r, t)
           \/ Start(r) \/ TurnsUsed(r) \/ Raise(r)
    PROVE  TInv'
  <1>1. UNCHANGED <<batch, ids, mask, result>>
    BY DEF CreateTool, ReleaseTool, Start, TurnsUsed, Raise, talkVars
  <1>2. /\ state' \in {state, [state EXCEPT ![r] = "RUNNING"]}
        /\ at' \in {at, [at EXCEPT ![r] = "releasing"], [at EXCEPT ![r] = "raised"]}
    BY DEF CreateTool, ReleaseTool, Start, TurnsUsed, Raise, talkVars, Break, Leave
  <1>3. ASSUME NEW q \in Requests
        PROVE  /\ at'[q] = "loop" /\ state'[q] \in Calling =>
                     at[q] = "loop" /\ state[q] \in Calling
               /\ at'[q] = "returned" => result'[q] = Finalized(q)
    BY <1>1, <1>2 DEF TInv, TokenInv, RInv, TalkTypeOK, Calling
  <1> QED
    BY <1>1, <1>3, SameTokens DEF TInv

\* finalize
LEMMA FinalizeTInv ==
    ASSUME TInv, RInv, NEW r \in Requests, Finalize(r)
    PROVE  TInv'
  <1>1. reason[r] \in Supported
    BY DEF Finalize, RInv, ToolInv
  <1>2. /\ UNCHANGED <<batch, ids, mask>>
        /\ state' = [state EXCEPT ![r] = "COMPLETED"]
        /\ at' = [at EXCEPT ![r] = "returned"]
        /\ result' = [result EXCEPT ![r] = Finalized(r)]
    BY <1>1 DEF Finalize
  <1>3. ASSUME NEW q \in Requests
        PROVE  /\ at'[q] = "loop" /\ state'[q] \in Calling =>
                     at[q] = "loop" /\ state[q] \in Calling
               /\ at'[q] = "returned" => result'[q] = Finalized(q)
    BY <1>2 DEF TInv, TokenInv, RInv, TalkTypeOK, Calling
  <1> QED
    BY <1>2, <1>3, SameTokens DEF TInv

\* What the ranks do at the barrier leaves the requests alone.
LEMMA GroupTInv ==
    ASSUME TInv, Group \/ (\E k \in World : OtherRaises(k)) \/ UNCHANGED vars
    PROVE  TInv'
  <1>1. UNCHANGED <<batch, at, state, ids, mask, result>>
    BY DEF Group, Gathered, PassBarrier, ReachBarrier, OtherRaises, Return, RankGoes, vars,
           talkVars
  <1>2. ASSUME NEW q \in Requests
        PROVE  /\ at'[q] = "loop" /\ state'[q] \in Calling =>
                     at[q] = "loop" /\ state[q] \in Calling
               /\ at'[q] = "returned" => result'[q] = Finalized(q)
    BY <1>1 DEF TInv, TokenInv
  <1> QED
    BY <1>1, <1>2, SameTokens DEF TInv

-----------------------------------------------------------------------------

\* A marked conversation is cut to a response that is trained on its answers
\* and on nothing else.
LEMMA ReturnedIsTrained ==
    ASSUME TInv, RInv
    PROVE  OnlyAnswersAreTrained
  <1> SUFFICES ASSUME NEW r \in Requests, at[r] = "returned"
               PROVE  LET row == result[r] IN
                      /\ Len(row.tokens) <= ResponseLength
                      /\ row.mask = [i \in DOMAIN row.tokens |->
                                        IF row.tokens[i] = "answer" THEN 1 ELSE 0]
                      /\ row.tokens # <<>> => row.tokens[1] = "answer"
                      /\ \A i \in DOMAIN row.tokens : row.tokens[i] = "gen" =>
                            IF i = Len(row.tokens) THEN ~Complete(r)
                                                   ELSE row.tokens[i + 1] = "answer"
    BY DEF OnlyAnswersAreTrained
  <1> DEFINE s == ids[r]
             m == mask[r]
             p == batch[r].length + 1
             kept == Len(s) - IF EndsWithPrompt(s) THEN 1 ELSE 0
             end == Least(kept, RequestMaxLen)
             tokens == result[r].tokens
             losses == result[r].mask
  <1>1. Marked(s, m, p) /\ result[r] = Finalized(r)
    BY DEF TInv, TokenInv
  <1>2. Len(Prompt(r)) = p
    <2> DEFINE n == batch[r].length
               front == Repeat("prompt", n)
    <2>1. n \in Nat
      <3>1. batch \in Seq(Row)
        BY RolloutAssumption DEF RInv, TalkTypeOK
      <3>2. batch[r] \in Row
        BY <3>1 DEF Requests
      <3> QED
        BY <3>2 DEF Row
    <2>2. Prompt(r) = Append(front, "gen") /\ p = n + 1
      BY DEF Prompt
    <2> HIDE DEF n, p
    <2>3. front \in Seq(Kinds) /\ Len(front) = n
      BY <2>1, RepeatIsSeq DEF Kinds
    <2> HIDE DEF front
    <2> QED
      BY <2>1, <2>2, <2>3
  <1>3. tokens = Cut(s, p, end, ResponseLength) /\ losses = Cut(m, p, end, ResponseLength)
    <2>1. result[r] = Response(SubSeq(s, 1, end), SubSeq(m, 1, end), r)
      BY <1>1 DEF Finalized
    <2>2. ASSUME NEW a, NEW b
          PROVE  Response(a, b, r) =
                    [tokens |-> Upto(SubSeq(a, p + 1, Len(a)), ResponseLength),
                     mask |-> Upto(SubSeq(b, p + 1, Len(b)), ResponseLength)]
      BY <1>2 DEF Response
    <2>3. result[r] = [tokens |-> Cut(s, p, end, ResponseLength),
                       mask |-> Cut(m, p, end, ResponseLength)]
      BY <2>1, <2>2 DEF Cut
    <2> QED
      BY <2>3
  <1>4. /\ ResponseLength \in Nat /\ RequestMaxLen \in Nat
        /\ Len(s) \in Nat /\ Len(s) > 0
    <2>1. /\ ResponseLength \in Nat /\ PromptLength \in Nat /\ MaxModelLen \in Nat
      BY RolloutAssumption
    <2>2. RequestMaxLen \in Nat
      BY <2>1 DEF RequestMaxLen, Least
    <2>3. s \in Seq(Kinds) /\ p \in Nat \ {0} /\ p <= Len(s)
      BY <1>1 DEF Marked
    <2> HIDE DEF s, p
    <2>4. Len(s) \in Nat /\ Len(s) > 0
      BY <2>3
    <2> QED
      BY <2>1, <2>2, <2>4
  <1>5. /\ end \in Nat /\ end <= Len(s)
        /\ s[Len(s)] = "gen" => end # Len(s)
        /\ \/ end = RequestMaxLen
           \/ s[Len(s)] = "gen" /\ end = Len(s) - 1
           \/ s[Len(s)] # "gen" /\ end = Len(s)
    <2>1. /\ kept \in Nat /\ kept <= Len(s)
          /\ s[Len(s)] = "gen" => kept = Len(s) - 1
          /\ s[Len(s)] # "gen" => kept = Len(s)
      <3>1. CASE EndsWithPrompt(s)
        <4>1. kept = Len(s) - 1 /\ s[Len(s)] = "gen"
          BY <3>1 DEF EndsWithPrompt
        <4> HIDE DEF s, kept
        <4> QED
          BY <1>4, <4>1
      <3>2. CASE ~EndsWithPrompt(s)
        <4>1. kept = Len(s) - 0 /\ s[Len(s)] # "gen"
          BY <3>2 DEF EndsWithPrompt
        <4> HIDE DEF s, kept
        <4> QED
          BY <1>4, <4>1
      <3> QED
        BY <3>1, <3>2
    <2> HIDE DEF kept
    <2>2. end \in Nat /\ end <= kept /\ (end = kept \/ end = RequestMaxLen)
      BY <1>4, <2>1 DEF Least
    <2> HIDE DEF end, s
    <2> QED
      BY <1>4, <2>1, <2>2
  <1> HIDE DEF s, m, p, end, tokens, losses
  <1>6. /\ tokens \in Seq(Kinds) /\ losses \in Seq({0, 1}) /\ Len(losses) = Len(tokens)
        /\ Len(tokens) <= ResponseLength
        /\ \A i \in 1 .. Len(tokens) : losses[i] = Written(tokens[i])
        /\ Len(tokens) > 0 => tokens[1] = "answer"
        /\ \A i \in 1 .. Len(tokens) : tokens[i] = "gen" =>
              IF i = Len(tokens)
              THEN Len(tokens) = ResponseLength \/ p + Len(tokens) = RequestMaxLen
              ELSE tokens[i + 1] = "answer"
    <2> DEFINE limit == RequestMaxLen
               n == ResponseLength
    <2>1. /\ Marked(s, m, p)
          /\ end \in Nat /\ end <= Len(s) /\ n \in Nat
          /\ tokens = Cut(s, p, end, n) /\ losses = Cut(m, p, end, n)
          /\ s[Len(s)] = "gen" => end # Len(s)
          /\ \/ end = limit
             \/ s[Len(s)] = "gen" /\ end = Len(s) - 1
             \/ s[Len(s)] # "gen" /\ end = Len(s)
      BY <1>1, <1>3, <1>4, <1>5
    <2> HIDE DEF limit, n
    <2>2. Trained(Cut(s, p, end, n), Cut(m, p, end, n), p, n, limit)
      BY <2>1, CutIsMarked
    <2> QED
      BY <2>1, <2>2 DEF Trained, limit, n
  <1>7. DOMAIN tokens = 1 .. Len(tokens) /\ DOMAIN losses = DOMAIN tokens
        /\ Len(tokens) \in Nat /\ (tokens # <<>> => Len(tokens) > 0)
    BY <1>6
  <1>8. losses = [i \in DOMAIN tokens |-> IF tokens[i] = "answer" THEN 1 ELSE 0]
    <2>1. losses = [i \in DOMAIN losses |-> losses[i]]
      BY <1>6
    <2>2. \A i \in DOMAIN tokens : losses[i] = IF tokens[i] = "answer" THEN 1 ELSE 0
      BY <1>6, <1>7 DEF Written
    <2> QED
      BY <1>7, <2>1, <2>2
  <1>9. Len(tokens) = ResponseLength \/ p + Len(tokens) = RequestMaxLen => ~Complete(r)
    BY <1>2, <1>4, <1>7 DEF Complete, tokens
  <1>10. \A i \in DOMAIN tokens : tokens[i] = "gen" =>
            IF i = Len(tokens) THEN ~Complete(r) ELSE tokens[i + 1] = "answer"
    BY <1>6, <1>7, <1>9
  <1> QED
    BY <1>6, <1>7, <1>8, <1>10 DEF tokens, losses

\* The loss of every conversation, however many turns it has and wherever its
\* response is cut, is taken on the model's answers and on nothing else.
THEOREM AnswersAreTrained == Spec => []OnlyAnswersAreTrained
  <1>1. TInv /\ RInv /\ [Next]_vars => TInv'
    <2> SUFFICES ASSUME TInv, RInv, [Next]_vars PROVE TInv'
      OBVIOUS
    <2>1. CASE Group \/ (\E k \in World : OtherRaises(k)) \/ UNCHANGED vars
      BY <2>1, GroupTInv
    <2>2. ASSUME NEW r \in Requests, Step(r) PROVE TInv'
      BY <2>2, QuietTInv, AnswerTInv, ReplyTInv, FinalizeTInv DEF Step, UnknownTool,
         UnknownUser
    <2>3. ASSUME NEW r \in Requests, CallRaises(r) PROVE TInv'
      BY <2>3, CallIsRaise, QuietTInv
    <2> QED
      BY <2>1, <2>2, <2>3 DEF Next
  <1>2. TInv /\ RInv => OnlyAnswersAreTrained
    BY ReturnedIsTrained
  <1> QED
    BY <1>1, <1>2, InitTInv, RequestsInvariance, PTL DEF Spec

================================================================================
