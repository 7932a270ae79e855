------------------------------ MODULE AgentLoop ------------------------------
(***************************************************************************)
(* A batch of prompts generated by agent loops (verl/experimental/         *)
(* agent_loop): the trainer pads the batch, AgentLoopManager wakes the LLM *)
(* servers and cuts the batch among its workers, every worker runs one     *)
(* conversation per row at once; a conversation alternates between the     *)
(* server that AsyncLLMServerManager chose for it and calls of a tool,     *)
(* whose searches share the token bucket of verl/tools/search_tool.py.     *)
(*                                                                         *)
(* A turn of the model or of the tools is the number of its tokens; the    *)
(* response keeps who wrote each of them.                                  *)
(*                                                                         *)
(* Abstracted: texts, rewards and metrics; the left padding of prompts and *)
(* the right padding of responses; what a server does while it generates.  *)
(***************************************************************************)
EXTENDS DataProto, FiniteSets

CONSTANTS
    Jobs,              \* batches to start with
    Servers,           \* LLM servers, ordered by their hash: 1 .. n
    MaxCacheSize,      \* of request_id_to_server
    ResponseLength,    \* response_length
    MaxAssistantTurns, \* max_assistant_turns; 0 stands for None
    MaxUserTurns,      \* max_user_turns; 0 stands for None
    MaxParallelCalls,  \* max_parallel_calls
    RateLimit,         \* tokens of the bucket
    NumThreads,        \* num_workers of a tool's execution pool
    TurnTokens,        \* numbers of tokens a turn may have
    MaxCalls           \* bound: tool calls in a turn

\* Prompts, agent.num_workers, and the agent of every row.
JobSet == [prompts : Nat \ {0}, workers : Nat \ {0}, agent : {"single_turn", "tool"}]

ASSUME AgentAssumption ==
    /\ Jobs \subseteq JobSet
    /\ {Servers, MaxCacheSize, ResponseLength, MaxParallelCalls, RateLimit,
        NumThreads} \subseteq Nat \ {0}
    /\ {MaxAssistantTurns, MaxUserTurns, MaxCalls} \subseteq Nat
    /\ TurnTokens \subseteq Nat \ {0}

VARIABLES
    job,
    phase,      \* of the driver
    awake,      \* the servers are awake
    rows,       \* the padded batch: the prompt of each row
    pc,         \* of each row's conversation
    content,    \* who wrote each token of its response
    mask,       \* response_mask
    users,      \* user_turns
    assistants, \* assistant_turns
    server,     \* that generates its current turn, or the last one
    calls,      \* tool calls of its current turn
    load,       \* per worker, the requests counted for each server
    lru,        \* per worker, request_id_to_server, least recently used first
    tokens,     \* of the bucket
    releases,   \* release calls on their way to it
    output,     \* what the trainer gets
    others      \* history: requests of the worker since a row's last turn

convVars == <<pc, content, mask, users, assistants, calls>>
routeVars == <<server, load, lru, others>>
bucketVars == <<tokens, releases>>
driverVars == <<job, phase, awake, rows, output>>
vars == <<driverVars, convVars, routeVars, bucketVars>>

Prompts == [i \in 1 .. job.prompts |-> i]
Workers == 1 .. job.workers
Tasks == DOMAIN pc
NoServer == 0

WorkerOf(t) == (t - 1) \div (Len(rows) \div job.workers) + 1

Repeat(value, n) == [i \in 1 .. n |-> value]
-----------------------------------------------------------------------------
(* The driver: _validate and AgentLoopManager.generate_sequences.          *)

Init ==
    /\ job \in Jobs
    /\ phase = "pad"
    /\ awake = FALSE
    /\ rows = <<>> /\ output = <<>>
    /\ pc = <<>> /\ content = <<>> /\ mask = <<>> /\ users = <<>>
    /\ assistants = <<>> /\ calls = <<>>
    /\ server = <<>> /\ others = <<>>
    /\ load = [w \in 1 .. job.workers |-> [s \in 1 .. Servers |-> 0]]
    /\ lru = [w \in 1 .. job.workers |-> <<>>]
    /\ tokens = RateLimit /\ releases = 0

Pad ==
    /\ phase = "pad"
    /\ rows' = PadToDivisor(Prompts, job.workers)
    /\ phase' = "wake"
    /\ UNCHANGED <<job, awake, output, convVars, routeVars, bucketVars>>

\* wake_up, then every worker starts one conversation per row of its chunk.
Dispatch ==
    /\ phase = "wake"
    /\ CanChunk(rows, job.workers)
    /\ awake' = TRUE
    /\ phase' = "run"
    /\ pc' = [t \in DOMAIN rows |-> "ask"]
    /\ content' = [t \in DOMAIN rows |-> <<>>]
    /\ mask' = [t \in DOMAIN rows |-> <<>>]
    /\ users' = [t \in DOMAIN rows |-> 0]
    /\ assistants' = [t \in DOMAIN rows |-> 0]
    /\ calls' = [t \in DOMAIN rows |-> <<>>]
    /\ server' = [t \in DOMAIN rows |-> NoServer]
    /\ others' = [t \in DOMAIN rows |-> {}]
    /\ UNCHANGED <<job, rows, output, load, lru, bucketVars>>

Cut(sequence) == SubSeq(sequence, 1, IF Len(sequence) > ResponseLength
                                     THEN ResponseLength ELSE Len(sequence))

\* AgentLoopOutput
Result(t) ==
    [prompt |-> rows[t], content |-> Cut(content[t]), mask |-> Cut(mask[t]),
     turns |-> users[t] + assistants[t] + 1]

\* ray.get of all workers, whose gathers return their rows in order.
Collect ==
    /\ phase = "run"
    /\ \A t \in Tasks : pc[t] = "done"
    /\ output' = Concat(Chunk([t \in Tasks |-> Result(t)], job.workers))
    /\ awake' = FALSE
    /\ phase' = "unpad"
    /\ UNCHANGED <<job, rows, convVars, routeVars, bucketVars>>

\* A generation that raises ends its worker's gather, and so the call; sleep
\* is not reached.
CallRaises ==
    /\ phase = "run"
    /\ \E t \in Tasks : pc[t] = "raised"
    /\ phase' = "raised"
    /\ UNCHANGED <<job, awake, rows, output, convVars, routeVars, bucketVars>>

UnpadOutput ==
    /\ phase = "unpad"
    /\ output' = Unpad(output, PadSize(Prompts, job.workers))
    /\ phase' = "done"
    /\ UNCHANGED <<job, awake, rows, convVars, routeVars, bucketVars>>

-----------------------------------------------------------------------------
(* AsyncLLMServerManager._choose_server, in the worker of the row.         *)

Goto(t, label) == pc' = [pc EXCEPT ![t] = label]

IndexIn(w, t) == {i \in DOMAIN lru[w] : lru[w][i][1] = t}

\* The heap's first entry: fewest requests, then the smallest hash.
LeastLoaded(w) ==
    CHOOSE s \in 1 .. Servers :
        \A q \in 1 .. Servers :
            load[w][s] < load[w][q] \/ (load[w][s] = load[w][q] /\ s <= q)

NotStored(entries, entry) == entries

\* LRUCache: a full cache drops the entry that was not used for longest.
Insert(entries, entry) ==
    Append(IF Len(entries) = MaxCacheSize THEN Tail(entries) ELSE entries, entry)

\* A read makes the entry the most recently used one.
Touch(entries, i) ==
    Append(SubSeq(entries, 1, i - 1) \o SubSeq(entries, i + 1, Len(entries)), entries[i])

Asked(t, chosen) ==
    /\ pc[t] = "ask"
    /\ server' = [server EXCEPT ![t] = chosen]
    /\ others' = [u \in Tasks |-> IF u = t THEN {}
                                  ELSE IF WorkerOf(u) = WorkerOf(t) THEN others[u] \union {t}
                                  ELSE others[u]]
    /\ Goto(t, "generating")
    /\ UNCHANGED <<driverVars, content, mask, users, assistants, calls, bucketVars>>

\* The request has a server in the cache.
ChooseSticky(t) ==
    LET w == WorkerOf(t) IN
    \E i \in IndexIn(w, t) :
        /\ Asked(t, lru[w][i][2])
        /\ lru' = [lru EXCEPT ![w] = Touch(@, i)]
        /\ UNCHANGED load

\* It has none, and gets the server with the fewest requests.
ChooseLeastLoaded(t) ==
    LET w == WorkerOf(t)
        chosen == LeastLoaded(w)
    IN  /\ IndexIn(w, t) = {}
        /\ Asked(t, chosen)
        /\ load' = [load EXCEPT ![w][chosen] = @ + 1]
        /\ lru' = [lru EXCEPT ![w] = Insert(@, <<t, chosen>>)]

-----------------------------------------------------------------------------
(* ToolAgentLoop.run and SingleTurnAgentLoop.run.                          *)

\* The model's turn is the last one: of a single-turn agent, at the end of the
\* response, or of the turns.
LastTurn(t) ==
    \/ job.agent = "single_turn"
    \/ Len(mask'[t]) >= ResponseLength
    \/ MaxAssistantTurns # 0 /\ assistants'[t] >= MaxAssistantTurns
    \/ MaxUserTurns # 0 /\ users[t] >= MaxUserTurns

Generated(t) ==
    /\ pc[t] = "generating"
    /\ \E n \in TurnTokens :
         /\ content' = [content EXCEPT ![t] = @ \o Repeat("model", n)]
         /\ mask' = [mask EXCEPT ![t] = @ \o Repeat(1, n)]
    /\ assistants' = [assistants EXCEPT ![t] = @ + 1]
    /\ Goto(t, IF LastTurn(t) THEN "done" ELSE "parse")
    /\ UNCHANGED <<driverVars, users, calls, routeVars, bucketVars>>

GenerateRaises(t) ==
    /\ pc[t] = "generating"
    /\ Goto(t, "raised")
    /\ UNCHANGED <<driverVars, content, mask, users, assistants, calls, routeVars,
                   bucketVars>>

\* The calls the parser finds in the turn; no more than max_parallel_calls of
\* them are made.
ParseCalls(t) ==
    /\ pc[t] = "parse"
    /\ \E n \in 0 .. MaxCalls :
         /\ calls' = [calls EXCEPT ![t] = Repeat("new", IF n > MaxParallelCalls
                                                        THEN MaxParallelCalls ELSE n)]
         /\ Goto(t, IF n = 0 THEN "done" ELSE "tools")
    /\ UNCHANGED <<driverVars, content, mask, users, assistants, routeVars, bucketVars>>

AppendAtLimit(t, n) == Len(mask[t]) + n > ResponseLength

\* The last turn should not be the user's.
NoRoomFor(t, n) == Len(mask[t]) + n >= ResponseLength

Over == {"ok", "error"}

\* gather returns: a call that raised ends the conversation, and so do answers
\* that leave no room for another turn.
AppendAnswers(t) ==
    /\ pc[t] = "tools"
    /\ \A c \in DOMAIN calls[t] : calls[t][c] \in Over
    /\ \E n \in TurnTokens :
         IF (\E c \in DOMAIN calls[t] : calls[t][c] = "error") \/ NoRoomFor(t, n)
         THEN Goto(t, "done") /\ UNCHANGED <<content, mask, users>>
         ELSE /\ content' = [content EXCEPT ![t] = @ \o Repeat("tool", n)]
              /\ mask' = [mask EXCEPT ![t] = @ \o Repeat(0, n)]
              /\ users' = [users EXCEPT ![t] = @ + 1]
              /\ Goto(t, "ask")
    /\ calls' = [calls EXCEPT ![t] = <<>>]
    /\ UNCHANGED <<driverVars, assistants, routeVars, bucketVars>>

-----------------------------------------------------------------------------
(* ToolAgentLoop._call_tool, SearchTool.execute and the token bucket.      *)

CallStep(t, c, from, to) ==
    /\ pc[t] = "tools"
    /\ c \in DOMAIN calls[t] /\ calls[t][c] = from
    /\ calls' = [calls EXCEPT ![t][c] = to]
    /\ UNCHANGED <<driverVars, pc, content, mask, users, assistants, routeVars>>

\* The tool's name or its arguments may be malformed: nothing was created.
CreateTool(t, c) ==
    /\ \/ CallStep(t, c, "new", "created")
       \/ CallStep(t, c, "new", "error")
    /\ UNCHANGED bucketVars

\* Any tool but the search tool may raise while it executes.
ToolRaises(t, c) == CallStep(t, c, "created", "raised") /\ UNCHANGED bucketVars

\* No query_list, or a tool that does not search.
AnswerAtOnce(t, c) == CallStep(t, c, "created", "answered") /\ UNCHANGED bucketVars

InPool == {"acquiring", "searching"}

PoolOf(w) ==
    {u \in Tasks \X (1 .. MaxParallelCalls) :
        /\ WorkerOf(u[1]) = w
        /\ u[2] \in DOMAIN calls[u[1]] /\ calls[u[1]][u[2]] \in InPool}

\* SearchExecutionWorker.execute takes a thread of the worker's pool and asks
\* the bucket for a token; the token is given back when the search is over,
\* whatever it returned, by a call nobody waits for.
StartSearch(t, c) ==
    /\ CallStep(t, c, "created", "acquiring")
    /\ Cardinality(PoolOf(WorkerOf(t))) < NumThreads
    /\ UNCHANGED bucketVars

Acquire(t, c) ==
    /\ CallStep(t, c, "acquiring", "searching")
    /\ tokens > 0
    /\ tokens' = tokens - 1
    /\ UNCHANGED releases

KeepsTokenOnError(t, c) ==
    /\ CallStep(t, c, "searching", "answered")
    /\ releases' \in {releases, releases + 1}
    /\ UNCHANGED tokens

SearchEnds(t, c) ==
    /\ CallStep(t, c, "searching", "answered")
    /\ releases' = releases + 1
    /\ UNCHANGED tokens

\* The finally clause of _call_tool.
ReleaseInstance(t, c) ==
    /\ \/ CallStep(t, c, "answered", "ok")
       \/ CallStep(t, c, "raised", "error")
    /\ UNCHANGED bucketVars

\* TokenBucketWorker.release
ReleaseToken ==
    /\ releases > 0
    /\ releases' = releases - 1
    /\ tokens' = tokens + 1
    /\ UNCHANGED <<driverVars, convVars, routeVars>>

-----------------------------------------------------------------------------

Driver == Pad \/ Dispatch \/ Collect \/ CallRaises \/ UnpadOutput

Turn(t) ==
    \/ ChooseSticky(t)
    \/ ChooseLeastLoaded(t)
    \/ Generated(t)
    \/ ParseCalls(t)
    \/ AppendAnswers(t)

ToolCall(t, c) ==
    \/ CreateTool(t, c)
    \/ ToolRaises(t, c)
    \/ AnswerAtOnce(t, c)
    \/ StartSearch(t, c)
    \/ Acquire(t, c)
    \/ SearchEnds(t, c)
    \/ ReleaseInstance(t, c)

Next ==
    \/ Driver
    \/ \E t \in Tasks :
         \/ Turn(t)
         \/ GenerateRaises(t)
         \/ \E c \in DOMAIN calls[t] : ToolCall(t, c)
    \/ ReleaseToken

Spec == Init /\ [][Next]_vars

TaskIds == UNION {1 .. (j.prompts + j.workers) : j \in Jobs}

\* asyncio and Ray get round to every conversation, call and release.
FairSpec ==
    /\ Spec
    /\ WF_vars(Driver)
    /\ \A t \in TaskIds : WF_vars(t \in Tasks /\ Turn(t))
    /\ \A t \in TaskIds, c \in 1 .. MaxParallelCalls :
          WF_vars(t \in Tasks /\ c \in DOMAIN calls[t] /\ ToolCall(t, c))
    /\ WF_vars(ReleaseToken)

-----------------------------------------------------------------------------
(***************************************************************************)
(* Properties.                                                             *)
(***************************************************************************)

\* The trainer gets one row per prompt, in the order of the prompts, whatever
\* was padded and in whatever order the conversations ended.
RowsInOrder ==
    phase = "done" => [i \in DOMAIN output |-> output[i].prompt] = Prompts

\* A row's mask has its ones exactly on the tokens of the model and covers the
\* response, however often it was cut, and the response ends with the model's
\* turn (tool_agent_loop.py:173, for the reward of its last token).
MaskMarksModel ==
    \A i \in DOMAIN output :
        LET row == output[i] IN
        /\ Len(row.content) \in 1 .. ResponseLength
        /\ row.mask = [k \in DOMAIN row.content |-> IF row.content[k] = "model" THEN 1 ELSE 0]
        /\ row.content[Len(row.content)] = "model"

\* "Sticky session: send multi-turn chat completions to same server": a
\* conversation changes its server only if as many others as the cache holds
\* asked in its worker since its last turn.
StickyUnlessEvicted ==
    [][\A t \in DOMAIN server : server[t] # NoServer /\ server'[t] # server[t]
         => Cardinality(others[t]) >= MaxCacheSize]_vars

\* The call ends, with a batch or an exception, and the bucket gets all its
\* tokens back: searches that wait for one another always go on.
BatchEnds == <>[](phase \in {"done", "raised"} /\ tokens = RateLimit)
=============================================================================
