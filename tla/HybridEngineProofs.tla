-------------------------- MODULE HybridEngineProofs --------------------------
(***************************************************************************)
(* Proofs about HybridEngine: for every size of the tensor-parallel group, *)
(* every number of updates and every configuration,                        *)
(*   - an update runs with its own model and optimizer state on the GPU    *)
(*     and nothing else (UpdatesTrainAlone),                               *)
(*   - an engine that wakes in two stages gets its KV cache back after the *)
(*     parameters have left the GPU (CacheWakesAfterOffload),              *)
(*   - generation draws from its own stream (GenerationIsSeeded),          *)
(*   - and uses the current weights wherever they are brought to the       *)
(*     engine, and no older prefix wherever its cache is ever reset        *)
(*     (GenerationIsOnPolicy).                                             *)
(*                                                                         *)
(* All steps of all methods go in one order (Pos), so that a rank is known *)
(* by the set of the kinds it has left (Left): a step takes the first one  *)
(* away (Took), and what has been done is what must come before it.  The   *)
(* invariant says for each part of the state what it is, given that set:   *)
(* where the shards are (ShardInv), which stream the device draws from     *)
(* (RngInv), whether the engine believes it is asleep (SleepInv) and has   *)
(* its memory (MemoryInv), and which weights it holds (EngineInv); and     *)
(* LeftInv says what follows what.  That every method takes its steps in   *)
(* that order is the lemma StepsList.                                      *)
(***************************************************************************)
EXTENDS HybridEngine, TLAPS, SequenceTheorems

Kinds ==
    {"load", "offload", "loadOptim", "offloadOptim", "wakeWeights", "wakeKV",
     "wakeAll", "sync", "drawGen", "drawTrain", "awake", "asleep", "generate",
     "sleep", "update", "restore", "logProb", "values", "save"}

GenMethods == {"val_before_train", "generate", "validate"}
CriticMethods == {"compute_values", "update_critic", "save_critic", "load_critic"}

\* The role whose model a method works on.
CallRole(method) == IF method \in CriticMethods THEN "critic" ELSE "actor"

\* Where a kind of step stands in every method that takes it.  Megatron's
\* generate_sequences is the one that offloads the optimizer first.
Pos(method, kind) ==
    CASE kind = "offloadOptim" -> IF method \in GenMethods THEN 1 ELSE 15
      [] kind = "load" -> 2
      [] kind = "loadOptim" -> 3
      [] kind \in {"wakeWeights", "wakeAll"} -> 4
      [] kind \in {"sync", "update", "restore", "logProb", "values", "save"} -> 5
      [] kind = "offload" -> 6
      [] kind = "wakeKV" -> 7
      [] kind = "drawGen" -> 8
      [] kind = "awake" -> 9
      [] kind = "generate" -> 10
      [] kind = "sleep" -> 11
      [] kind = "drawTrain" -> 12
      [] kind = "asleep" -> 13

\* The kinds of step that rank r has left.
KindsOf(steps) == {steps[i][1] : i \in 1 .. Len(steps)}
Left(r) == KindsOf(todo[r])

InOrder(method, steps) ==
    /\ steps \in Seq(Kinds \X {CallRole(method)})
    /\ \A i, j \in 1 .. Len(steps) :
         i < j => Pos(method, steps[i][1]) < Pos(method, steps[j][1])

\* Every rank has steps of its call left, in their order.
ListInv ==
    /\ todo \in [Ranks -> Seq(Kinds \X Roles)]
    /\ \A r \in Ranks : InOrder(call, todo[r])

\* The rank whose engine has the memory of rank r.
Driver(r) == IF VLLM THEN r ELSE 0

\* The engine's weights and its KV cache get their memory back one by one.
TwoStages == VLLM \/ (config.multiStage /\ ~config.megatron)

\* What a step says about the configuration and the call it is taken in.
Possible(kind, r) ==
    /\ kind \in {"load", "offload"} => config.offloadParam
    /\ kind \in {"loadOptim", "offloadOptim"} => config.offloadOptim
    /\ kind \in {"update", "loadOptim"} => call \in {"update_actor", "update_critic"}
    /\ kind = "restore" => call \in {"load_actor", "load_critic"}
    /\ kind \in {"sync", "drawGen", "awake", "generate"} => call \in GenMethods
    /\ kind \in {"wakeWeights", "wakeKV", "wakeAll"} => call \in GenMethods
    /\ kind \in {"sleep", "drawTrain", "asleep"} => call \in GenMethods \union {"sleep"}
    /\ kind \in {"wakeWeights", "wakeKV", "wakeAll"} => config.freeCache /\ r = Driver(r)
    /\ kind \in {"wakeWeights", "wakeKV"} => TwoStages
    /\ kind = "wakeAll" => ~TwoStages
    /\ kind = "sleep" => config.freeCache /\ r = Driver(r)
    /\ kind \in {"awake", "asleep"} => config.async /\ config.freeCache

\* What must still follow what.
Followed(r) ==
    LET L == Left(r)
    IN  /\ "load" \in L => "offload" \in L
        /\ "loadOptim" \in L => "update" \in L
        /\ "update" \in L /\ config.offloadParam => "offload" \in L
        /\ L \cap {"update", "restore"} # {} /\ config.offloadOptim => "offloadOptim" \in L
        /\ "sync" \in L => "generate" \in L
        /\ "generate" \in L /\ config.freeCache /\ r = Driver(r) => "sleep" \in L
        /\ L \cap {"wakeWeights", "wakeKV", "wakeAll"} # {} => "sleep" \in L
        /\ "wakeWeights" \in L => "wakeKV" \in L
        /\ "generate" \in L /\ (config.async => config.freeCache) => "drawTrain" \in L
        /\ "awake" \in L => "asleep" \in L
        /\ "drawGen" \in L => "drawTrain" \in L

\* What is left fits the call, and the ranks meet in the collectives.
LeftInv ==
    /\ \A r \in Ranks : Followed(r) /\ \A kind \in Left(r) : Possible(kind, r)
    /\ call = "init_model" => \A r \in Ranks : Left(r) = {}
    /\ \A q, r \in Ranks : \A kind \in {"sync", "generate"} :
         kind \in Left(q) => kind \in Left(r)

\* A shard or an optimizer state is on the GPU between its load and offload.
ShardInv ==
    \A r \in Ranks, role \in Roles :
        /\ params[<<role, r>>] = "gpu" <=>
             ~config.offloadParam
             \/ (role = CallRole(call) /\ "offload" \in Left(r) /\ "load" \notin Left(r))
        /\ ~config.offloadOptim => optim[<<role, r>>] = "gpu"
        /\ config.offloadOptim /\ optim[<<role, r>>] = "gpu" =>
             role = CallRole(call) /\ "offloadOptim" \in Left(r)
        /\ role = CallRole(call) /\ "update" \in Left(r) /\ "loadOptim" \notin Left(r) =>
             optim[<<role, r>>] = "gpu"

\* An engine that is woken before it is put to sleep for the first time.
WokenFirst == ~(config.async /\ VLLM) /\ (config.async => config.freeCache)

\* The device draws from the stream of generation between the two swaps.
RngInv ==
    \A r \in Ranks :
        /\ torchSlot[r] = "train"
        /\ rng[r] # "train" => "drawTrain" \in Left(r) /\ "drawGen" \notin Left(r)
        /\ WokenFirst => IF "drawTrain" \in Left(r) /\ "drawGen" \notin Left(r)
                         THEN rng[r] = "gen" ELSE genSlot[r] = "gen"

\* An engine that believes it is awake will be put to sleep.
SleepInv ==
    config.async /\ config.freeCache =>
        \A r \in Ranks :
            ~isSleep[r] => "asleep" \in Left(r) \/ (VLLM /\ call = "init_model")

\* The engine has its memory from the wake-up of its driver to its sleep.
MemoryInv ==
    \A r \in Ranks :
        /\ ~config.freeCache => engineMem[r] /\ kv[r]
        /\ "generate" \in Left(r) /\ "wakeAll" \notin Left(Driver(r)) =>
             /\ "wakeWeights" \notin Left(Driver(r)) => engineMem[r]
             /\ "wakeKV" \notin Left(Driver(r)) => kv[r]
        /\ config.freeCache /\ (engineMem[r] \/ kv[r]) =>
             \/ "sleep" \in Left(Driver(r))
             \/ call \in {"init_model", "sleep", "load_actor", "load_critic"}

\* After the sync the engine has the current weights and no older prefix, where
\* weights reach it and prefixes leave it.
EngineInv ==
    /\ \A r \in Ranks : "generate" \in Left(r) /\ "sync" \notin Left(r) =>
         /\ Resynchronised => engineVersion = version
         /\ CacheIsReset /\ ~VLLM => cached = {}
    /\ CacheIsReset /\ VLLM =>
         \/ cached = {}
         \/ \A r \in Ranks : "sleep" \in Left(r) /\ "generate" \notin Left(r)

HTypeOK ==
    /\ config \in Configs
    /\ call \in Methods \union {"init_model", "stop"}
    /\ version \in Nat /\ engineVersion \in Nat /\ cached \subseteq Nat
    /\ params \in [Roles \X Ranks -> {"gpu", "cpu"}]
    /\ optim \in [Roles \X Ranks -> {"gpu", "cpu"}]
    /\ engineMem \in [Ranks -> BOOLEAN] /\ kv \in [Ranks -> BOOLEAN]
    /\ isSleep \in [Ranks -> BOOLEAN]
    /\ rng \in [Ranks -> {"gen", "train"}]
    /\ torchSlot \in [Ranks -> {"gen", "train"}]
    /\ genSlot \in [Ranks -> {"gen", "train"}]

HInv ==
    /\ HTypeOK /\ ListInv /\ LeftInv /\ ShardInv
    /\ RngInv /\ SleepInv /\ MemoryInv /\ EngineInv

-----------------------------------------------------------------------------
(***************************************************************************)
(* The lists of steps.                                                     *)
(***************************************************************************)

\* The steps of a list are of these kinds, each once, in the order of Pos,
\* which lies between two bounds.
Lists(method, steps, kinds, lo, hi) ==
    /\ InOrder(method, steps)
    /\ KindsOf(steps) = kinds
    /\ \A i \in 1 .. Len(steps) :
         lo <= Pos(method, steps[i][1]) /\ Pos(method, steps[i][1]) <= hi

\* Positions are numbers.
LEMMA PosNat ==
    ASSUME NEW method, NEW kind \in Kinds
    PROVE  Pos(method, kind) \in Nat
  BY DEF Pos, Kinds

\* The steps of a method are on the model of its role.
LEMMA StepInOrder ==
    ASSUME NEW method, NEW s, InOrder(method, s), NEW i \in 1 .. Len(s)
    PROVE  s[i][1] \in Kinds /\ s[i][2] = CallRole(method)
  BY ElementOfSeq DEF InOrder

LEMMA ListsNothing ==
    ASSUME NEW method, NEW lo, NEW hi
    PROVE  Lists(method, <<>>, {}, lo, hi)
  <1>1. <<>> \in Seq(Kinds \X {CallRole(method)}) /\ Len(<<>>) = 0
    BY EmptySeq
  <1>2. 1 .. 0 = {}
    OBVIOUS
  <1> QED
    BY <1>1, <1>2 DEF Lists, InOrder, KindsOf

LEMMA ListsOne ==
    ASSUME NEW method, NEW kind \in Kinds
    PROVE  Lists(method, << <<kind, CallRole(method)>> >>, {kind},
                 Pos(method, kind), Pos(method, kind))
  <1> DEFINE s == << <<kind, CallRole(method)>> >>
  <1>1. s \in Seq(Kinds \X {CallRole(method)}) /\ Len(s) = 1 /\ s[1][1] = kind
    OBVIOUS
  <1>2. \A i \in 1 .. Len(s) : s[i][1] = kind
    BY <1>1
  <1>3. KindsOf(s) = {kind}
    BY <1>1, <1>2 DEF KindsOf
  <1>4. Pos(method, kind) \in Nat
    BY PosNat
  <1> HIDE DEF s
  <1>5. InOrder(method, s)
    BY <1>1 DEF InOrder
  <1>6. Lists(method, s, {kind}, Pos(method, kind), Pos(method, kind))
    BY <1>2, <1>3, <1>4, <1>5 DEF Lists
  <1> QED
    BY <1>6 DEF s

LEMMA ListsJoined ==
    ASSUME NEW method, NEW s, NEW t, NEW K, NEW L,
           NEW a \in Nat, NEW b \in Nat, NEW c \in Nat, NEW d \in Nat,
           b < c, a <= c, b <= d,
           Lists(method, s, K, a, b), Lists(method, t, L, c, d)
    PROVE  Lists(method, s \o t, K \union L, a, d)
  <1> DEFINE S == Kinds \X {CallRole(method)}
             n == Len(s)
             u == s \o t
  <1>1. s \in Seq(S) /\ t \in Seq(S) /\ KindsOf(s) = K /\ KindsOf(t) = L
    BY DEF Lists, InOrder
  <1>2. /\ u \in Seq(S) /\ Len(u) = n + Len(t) /\ n \in Nat /\ Len(t) \in Nat
        /\ \A i \in 1 .. n + Len(t) : u[i] = IF i <= n THEN s[i] ELSE t[i - n]
    BY <1>1, ConcatProperties, LenProperties
  <1> DEFINE Place(i) == Pos(method, u[i][1])
  <1>3. ASSUME NEW i \in 1 .. Len(u)
        PROVE  /\ Place(i) \in Nat /\ a <= Place(i) /\ Place(i) <= d
               /\ i <= n => Place(i) <= b /\ u[i][1] \in K
               /\ i > n => c <= Place(i) /\ u[i][1] \in L
    <2>1. u[i][1] \in Kinds
      BY <1>2, ElementOfSeq
    <2>2. Place(i) \in Nat
      BY <2>1, PosNat
    <2>3. CASE i <= n
      <3>1. i \in 1 .. n /\ u[i] = s[i]
        BY <1>2, <2>3
      <3>2. a <= Place(i) /\ Place(i) <= b
        BY <3>1 DEF Lists
      <3>3. u[i][1] \in K
        BY <1>1, <3>1 DEF KindsOf
      <3> HIDE DEF Place, u, n
      <3> QED
        BY <2>2, <2>3, <3>2, <3>3, <1>2
    <2>4. CASE i > n
      <3>1. i - n \in 1 .. Len(t) /\ u[i] = t[i - n]
        BY <1>2, <2>4
      <3>2. c <= Place(i) /\ Place(i) <= d
        BY <3>1 DEF Lists
      <3>3. u[i][1] \in L
        BY <1>1, <3>1 DEF KindsOf
      <3> HIDE DEF Place, u, n
      <3> QED
        BY <2>2, <2>4, <3>2, <3>3, <1>2
    <2> HIDE DEF Place, u, n
    <2> QED
      BY <2>3, <2>4, <1>2
  <1>4. ASSUME NEW i \in 1 .. Len(u), NEW j \in 1 .. Len(u), i < j
        PROVE  Place(i) < Place(j)
    <2>1. CASE j <= n
      <3>1. i \in 1 .. n /\ j \in 1 .. n /\ u[i] = s[i] /\ u[j] = s[j]
        BY <1>2, <1>4, <2>1
      <3> QED
        BY <3>1, <1>4 DEF Lists, InOrder
    <2>2. CASE i > n
      <3>1. i - n \in 1 .. Len(t) /\ j - n \in 1 .. Len(t) /\ i - n < j - n
        <4> HIDE DEF u, n
        <4> QED
          BY <1>2, <1>4, <2>2
      <3>2. u[i] = t[i - n] /\ u[j] = t[j - n]
        <4> HIDE DEF u, n
        <4> QED
          BY <1>2, <1>4, <2>2
      <3> QED
        BY <3>1, <3>2 DEF Lists, InOrder
    <2>3. CASE i <= n /\ j > n
      <3> HIDE DEF Place, u, n
      <3> QED
        BY <1>3, <1>4, <2>3
    <2> HIDE DEF Place, u, n
    <2> QED
      BY <1>2, <2>1, <2>2, <2>3
  <1>5. KindsOf(u) = K \union L
    <2>1. ASSUME NEW k \in K PROVE k \in KindsOf(u)
      <3>1. PICK i \in 1 .. n : k = s[i][1]
        BY <1>1 DEF KindsOf
      <3>2. i \in 1 .. Len(u) /\ u[i] = s[i]
        BY <1>2
      <3> HIDE DEF u
      <3> QED
        BY <3>1, <3>2 DEF KindsOf
    <2>2. ASSUME NEW k \in L PROVE k \in KindsOf(u)
      <3>1. PICK i \in 1 .. Len(t) : k = t[i][1]
        BY <1>1 DEF KindsOf
      <3>2. n + i \in 1 .. Len(u) /\ u[n + i] = t[i]
        BY <1>2
      <3> HIDE DEF u
      <3> QED
        BY <3>1, <3>2 DEF KindsOf
    <2>3. ASSUME NEW k \in KindsOf(u) PROVE k \in K \union L
      <3>1. PICK i \in 1 .. Len(u) : k = u[i][1]
        BY DEF KindsOf
      <3> HIDE DEF u, n
      <3> QED
        BY <1>2, <1>3, <3>1
    <2> QED
      BY <2>1, <2>2, <2>3
  <1> QED
    BY <1>2, <1>3, <1>4, <1>5 DEF Lists, InOrder

LEMMA WiderBounds ==
    ASSUME NEW method, NEW s, NEW K, NEW lo \in Nat, NEW hi \in Nat,
           NEW a \in Nat, NEW b \in Nat, a <= lo, hi <= b, Lists(method, s, K, lo, hi)
    PROVE  Lists(method, s, K, a, b)
  <1>1. \A i \in 1 .. Len(s) : Pos(method, s[i][1]) \in Nat
    BY StepInOrder, PosNat DEF Lists
  <1> QED
    BY <1>1 DEF Lists

\* The kinds of the steps that only some configurations take.
Only(condition, kinds) == IF condition THEN kinds ELSE {}

LEMMA ListsIf ==
    ASSUME NEW method, NEW s, NEW K, NEW lo, NEW hi, NEW c,
           Lists(method, s, K, lo, hi)
    PROVE  Lists(method, If(c, s), Only(c, K), lo, hi)
  <1>1. CASE c
    BY <1>1 DEF If, Only
  <1>2. CASE ~c
    BY <1>2, ListsNothing DEF If, Only
  <1> QED
    BY <1>1, <1>2

\* A step is taken: its kind is no longer left, and it stood before the others.
LEMMA TailOfList ==
    ASSUME NEW method, NEW s, s # <<>>, InOrder(method, s)
    PROVE  /\ Head(s)[1] \in KindsOf(s) /\ Head(s)[1] \in Kinds
           /\ Head(s)[2] = CallRole(method)
           /\ InOrder(method, Tail(s))
           /\ KindsOf(Tail(s)) = KindsOf(s) \ {Head(s)[1]}
           /\ \A k \in KindsOf(Tail(s)) : Pos(method, Head(s)[1]) < Pos(method, k)
  <1> DEFINE S == Kinds \X {CallRole(method)}
             h == Head(s)[1]
             t == Tail(s)
  <1>1. s \in Seq(S)
    BY DEF InOrder
  <1>2. /\ t \in Seq(S) /\ Len(t) = Len(s) - 1 /\ Len(s) \in Nat /\ Len(s) >= 1
        /\ \A i \in 1 .. Len(t) : t[i] = s[i + 1]
    BY <1>1, HeadTailProperties, LenProperties, EmptySeq
  <1>3. 1 \in 1 .. Len(s) /\ Head(s) = s[1] /\ Head(s) \in S
    BY <1>1, <1>2, HeadTailProperties
  <1>4. h \in KindsOf(s)
    BY <1>3 DEF KindsOf
  <1>5. \A i \in 1 .. Len(t) : i + 1 \in 1 .. Len(s) /\ t[i][1] = s[i + 1][1]
    BY <1>2
  <1>6. \A i, j \in 1 .. Len(t) :
          i < j => Pos(method, t[i][1]) < Pos(method, t[j][1])
    <2> TAKE i, j \in 1 .. Len(t)
    <2> HAVE i < j
    <2>1. i + 1 \in 1 .. Len(s) /\ j + 1 \in 1 .. Len(s) /\ i + 1 < j + 1
      BY <1>2
    <2>2. Pos(method, s[i + 1][1]) < Pos(method, s[j + 1][1])
      BY <2>1 DEF InOrder
    <2> QED
      BY <1>5, <2>2
  <1>7. \A i \in 1 .. Len(t) : Pos(method, h) < Pos(method, t[i][1])
    <2> TAKE i \in 1 .. Len(t)
    <2>1. i + 1 \in 1 .. Len(s) /\ 1 < i + 1
      BY <1>2
    <2>2. Pos(method, s[1][1]) < Pos(method, s[i + 1][1])
      BY <2>1, <1>3 DEF InOrder
    <2> QED
      BY <1>3, <1>5, <2>2
  <1>8. \A k \in KindsOf(t) : Pos(method, h) < Pos(method, k) /\ k # h
    <2> TAKE k \in KindsOf(t)
    <2>1. PICK i \in 1 .. Len(t) : k = t[i][1]
      BY DEF KindsOf
    <2>2. Pos(method, h) < Pos(method, k)
      BY <1>7, <2>1
    <2>3. Pos(method, h) \in Nat
      BY <1>3, PosNat
    <2> HIDE DEF h
    <2> QED
      BY <2>2, <2>3
  <1>9. KindsOf(t) = KindsOf(s) \ {h}
    <2>1. ASSUME NEW k \in KindsOf(t) PROVE k \in KindsOf(s)
      BY <1>5 DEF KindsOf
    <2>2. ASSUME NEW k \in KindsOf(s), k # h PROVE k \in KindsOf(t)
      <3>1. PICK i \in 1 .. Len(s) : k = s[i][1]
        BY DEF KindsOf
      <3>2. i # 1
        BY <3>1, <2>2, <1>3
      <3>3. i - 1 \in 1 .. Len(t) /\ (i - 1) + 1 = i
        BY <3>2, <1>2
      <3>4. t[i - 1][1] = s[i][1]
        BY <3>3, <1>5
      <3> HIDE DEF t
      <3> QED
        BY <3>1, <3>3, <3>4 DEF KindsOf
    <2> HIDE DEF t, h
    <2> QED
      BY <1>8, <2>1, <2>2
  <1> HIDE DEF t, h
  <1> QED
    BY <1>2, <1>3, <1>4, <1>6, <1>8, <1>9 DEF InOrder, t, h

-----------------------------------------------------------------------------
(***************************************************************************)
(* The kinds of step each method takes.                                    *)
(***************************************************************************)

EnterKinds(r) ==
    Only(config.offloadParam, {"load", "offload"}) \union {"sync", "drawGen"}
    \union Only(config.freeCache /\ r = Driver(r),
                IF TwoStages THEN {"wakeWeights", "wakeKV"} ELSE {"wakeAll"})

ExitKinds(r) ==
    Only(config.freeCache /\ r = Driver(r), {"sleep"}) \union {"drawTrain"}

GenKinds(r) ==
    IF config.async
    THEN Only(config.freeCache /\ isSleep[r], EnterKinds(r) \union {"awake"})
         \union {"generate"}
         \union Only(config.freeCache, ExitKinds(r) \union {"asleep"})
    ELSE Only(config.megatron /\ config.offloadOptim, {"offloadOptim"})
         \union EnterKinds(r) \union {"generate"} \union ExitKinds(r)

MovedKinds == Only(config.offloadParam, {"load", "offload"})

MethodKinds(method, r) ==
    CASE method = "sleep" ->
           Only(config.freeCache /\ ~isSleep[r], ExitKinds(r) \union {"asleep"})
      [] method \in GenMethods -> GenKinds(r)
      [] method = "compute_log_prob" -> MovedKinds \union {"logProb"}
      [] method = "compute_values" -> MovedKinds \union {"values"}
      [] method \in {"update_actor", "update_critic"} ->
           MovedKinds \union {"update"}
           \union Only(config.offloadOptim, {"loadOptim", "offloadOptim"})
      [] method \in {"save_actor", "save_critic"} -> MovedKinds \union {"save"}
      [] method \in {"load_actor", "load_critic"} ->
           MovedKinds \union {"restore"} \union Only(config.offloadOptim, {"offloadOptim"})

LEMMA ListsStep ==
    ASSUME NEW method, NEW kind \in Kinds, NEW role, NEW p,
           role = CallRole(method), p = Pos(method, kind)
    PROVE  Lists(method, << <<kind, role>> >>, {kind}, p, p)
  BY ListsOne

LEMMA ListsStepIf ==
    ASSUME NEW method, NEW kind \in Kinds, NEW role, NEW p, NEW c,
           role = CallRole(method), p = Pos(method, kind)
    PROVE  Lists(method, If(c, << <<kind, role>> >>), Only(c, {kind}), p, p)
  BY ListsStep, ListsIf

LEMMA ListsNested ==
    ASSUME NEW method, NEW s, NEW K, NEW p, NEW q, NEW c, NEW d,
           Lists(method, If(c, s), Only(c, K), p, q)
    PROVE  Lists(method, If(d, If(c, s)), Only(c /\ d, K), p, q)
  <1>1. CASE d
    BY <1>1 DEF If, Only
  <1>2. CASE ~d
    BY <1>2, ListsNothing DEF If, Only
  <1> QED
    BY <1>1, <1>2

\* Waking and putting to sleep, of a rank's own engine or of the group's.
LEMMA WakeLists ==
    ASSUME NEW method, NEW r \in Ranks, NEW kind \in Kinds, NEW p,
           CallRole(method) = "actor", p = Pos(method, kind)
    PROVE  /\ VLLM => Lists(method, Wake(kind, r),
                            Only(config.freeCache /\ r = Driver(r), {kind}), p, p)
           /\ ~VLLM => Lists(method, WakeOfGroup(kind, r),
                             Only(config.freeCache /\ r = Driver(r), {kind}), p, p)
  <1>1. Lists(method, Wake(kind, r), Only(config.freeCache, {kind}), p, p)
    BY ListsStepIf DEF Wake
  <1>2. Lists(method, WakeOfGroup(kind, r),
              Only(config.freeCache /\ r = 0, {kind}), p, p)
    BY <1>1, ListsNested DEF Wake, WakeOfGroup
  <1>3. CASE VLLM
    <2>1. r = Driver(r)
      BY <1>3 DEF Driver
    <2>2. Only(config.freeCache /\ r = Driver(r), {kind}) = Only(config.freeCache, {kind})
      BY <2>1 DEF Only
    <2> QED
      BY <1>1, <1>3, <2>2
  <1>4. CASE ~VLLM
    BY <1>2, <1>4 DEF Driver
  <1> QED
    BY <1>3, <1>4

LEMMA ExitLists ==
    ASSUME NEW method, NEW r \in Ranks, CallRole(method) = "actor"
    PROVE  Lists(method, Exit(r), ExitKinds(r), 11, 12)
  <1> DEFINE S == IF VLLM THEN Wake("sleep", r) ELSE WakeOfGroup("sleep", r)
             K == Only(config.freeCache /\ r = Driver(r), {"sleep"})
  <1>1. Pos(method, "sleep") = 11 /\ Pos(method, "drawTrain") = 12
    BY DEF Pos
  <1>2. Lists(method, S, K, 11, 11)
    BY <1>1, WakeLists DEF Kinds
  <1>3. Lists(method, << <<"drawTrain", "actor">> >>, {"drawTrain"}, 12, 12)
    BY <1>1, ListsStep DEF Kinds
  <1> HIDE DEF S, K
  <1>4. Lists(method, S \o << <<"drawTrain", "actor">> >>, K \union {"drawTrain"}, 11, 12)
    BY <1>2, <1>3, ListsJoined
  <1> QED
    BY <1>4 DEF Exit, ExitKinds, S, K

\* The six parts of the sharding managers' __enter__ and wake_up.
LEMMA EnterParts ==
    ASSUME NEW method, NEW W, NEW V, NEW KW, NEW KV, CallRole(method) = "actor",
           Lists(method, W, KW, 4, 4), Lists(method, V, KV, 7, 7)
    PROVE  Lists(method, Load("actor") \o W \o << <<"sync", "actor">> >>
                           \o Offload("actor") \o V \o << <<"drawGen", "actor">> >>,
                 Only(config.offloadParam, {"load", "offload"}) \union {"sync", "drawGen"}
                   \union (KW \union KV), 2, 8)
  <1>1. /\ Pos(method, "load") = 2 /\ Pos(method, "sync") = 5
        /\ Pos(method, "offload") = 6 /\ Pos(method, "drawGen") = 8
    BY DEF Pos
  <1> DEFINE A == Only(config.offloadParam, {"load"})
             B == Only(config.offloadParam, {"offload"})
             a == Load("actor")
             b == Offload("actor")
             y == << <<"sync", "actor">> >>
             g == << <<"drawGen", "actor">> >>
  <1>2. Lists(method, a, A, 2, 2) /\ Lists(method, b, B, 6, 6)
    BY <1>1, ListsStepIf DEF Load, Offload, Kinds
  <1>3. Lists(method, y, {"sync"}, 5, 5) /\ Lists(method, g, {"drawGen"}, 8, 8)
    BY <1>1, ListsStep DEF Kinds
  <1>4. A \union B = Only(config.offloadParam, {"load", "offload"})
    BY DEF Only
  <1> HIDE DEF A, B, a, b, y, g
  <1>5. Lists(method, a \o W, A \union KW, 2, 4)
    BY <1>2, ListsJoined
  <1>6. Lists(method, (a \o W) \o y, (A \union KW) \union {"sync"}, 2, 5)
    BY <1>3, <1>5, ListsJoined
  <1>7. Lists(method, ((a \o W) \o y) \o b, ((A \union KW) \union {"sync"}) \union B, 2, 6)
    BY <1>2, <1>6, ListsJoined
  <1>8. Lists(method, (((a \o W) \o y) \o b) \o V,
              (((A \union KW) \union {"sync"}) \union B) \union KV, 2, 7)
    BY <1>7, ListsJoined
  <1>9. Lists(method, ((((a \o W) \o y) \o b) \o V) \o g,
              ((((A \union KW) \union {"sync"}) \union B) \union KV) \union {"drawGen"}, 2, 8)
    BY <1>3, <1>8, ListsJoined
  <1>10. ((((A \union KW) \union {"sync"}) \union B) \union KV) \union {"drawGen"}
           = Only(config.offloadParam, {"load", "offload"}) \union {"sync", "drawGen"}
             \union (KW \union KV)
    BY <1>4
  <1> QED
    BY <1>9, <1>10 DEF a, b, y, g

LEMMA EnterLists ==
    ASSUME NEW method, NEW r \in Ranks, CallRole(method) = "actor"
    PROVE  Lists(method, Enter(r), EnterKinds(r), 2, 8)
  <1>1. /\ Pos(method, "wakeWeights") = 4 /\ Pos(method, "wakeAll") = 4
        /\ Pos(method, "wakeKV") = 7
    BY DEF Pos
  <1>2. {"wakeWeights", "wakeKV", "wakeAll"} \subseteq Kinds
    BY DEF Kinds
  <1> DEFINE D == config.freeCache /\ r = Driver(r)
             P == Only(config.offloadParam, {"load", "offload"}) \union {"sync", "drawGen"}
  <1>3. /\ Only(D, {"wakeWeights"}) \union Only(D, {"wakeKV"}) = Only(D, {"wakeWeights", "wakeKV"})
        /\ Only(D, {"wakeAll"}) \union {} = Only(D, {"wakeAll"})
    BY DEF Only
  <1>4. CASE VLLM
    <2>1. /\ Lists(method, Wake("wakeWeights", r), Only(D, {"wakeWeights"}), 4, 4)
          /\ Lists(method, Wake("wakeKV", r), Only(D, {"wakeKV"}), 7, 7)
      BY <1>1, <1>2, <1>4, WakeLists
    <2>2. Lists(method, EnterVLLM(r),
                P \union (Only(D, {"wakeWeights"}) \union Only(D, {"wakeKV"})), 2, 8)
      BY <2>1, EnterParts DEF EnterVLLM
    <2> QED
      BY <1>3, <1>4, <2>2 DEF Enter, EnterKinds, TwoStages
  <1>5. CASE ~VLLM /\ TwoStages
    <2>1. /\ Lists(method, WakeOfGroup("wakeWeights", r), Only(D, {"wakeWeights"}), 4, 4)
          /\ Lists(method, WakeOfGroup("wakeKV", r), Only(D, {"wakeKV"}), 7, 7)
      BY <1>1, <1>2, <1>5, WakeLists
    <2>2. Enter(r) = Load("actor") \o WakeOfGroup("wakeWeights", r)
                       \o << <<"sync", "actor">> >> \o Offload("actor")
                       \o WakeOfGroup("wakeKV", r) \o << <<"drawGen", "actor">> >>
      BY <1>5 DEF Enter, EnterSGLang, If, TwoStages
    <2>3. Lists(method, Enter(r),
                P \union (Only(D, {"wakeWeights"}) \union Only(D, {"wakeKV"})), 2, 8)
      BY <2>1, <2>2, EnterParts
    <2> QED
      BY <1>3, <1>5, <2>3 DEF EnterKinds
  <1>6. CASE ~VLLM /\ ~TwoStages
    <2>1. Lists(method, WakeOfGroup("wakeAll", r), Only(D, {"wakeAll"}), 4, 4)
      BY <1>1, <1>2, <1>6, WakeLists
    <2>2. Lists(method, <<>>, {}, 7, 7)
      BY ListsNothing
    <2> DEFINE front == Load("actor") \o WakeOfGroup("wakeAll", r)
                          \o << <<"sync", "actor">> >> \o Offload("actor")
    <2>3. Lists(method, front \o <<>> \o << <<"drawGen", "actor">> >>,
                P \union (Only(D, {"wakeAll"}) \union {}), 2, 8)
      BY <2>1, <2>2, EnterParts
    <2>4. CASE config.megatron
      <3>1. front \in Seq(Kinds \X Roles) /\ front \o <<>> = front
        <4>1. {"load", "offload", "sync", "wakeAll"} \subseteq Kinds /\ "actor" \in Roles
          BY DEF Kinds, Roles
        <4>2. Load("actor") \in Seq(Kinds \X Roles) /\ Offload("actor") \in Seq(Kinds \X Roles)
          <5>1. /\ <<>> \in Seq(Kinds \X Roles)
                /\ << <<"load", "actor">> >> \in Seq(Kinds \X Roles)
                /\ << <<"offload", "actor">> >> \in Seq(Kinds \X Roles)
            BY <4>1
          <5> QED
            BY <5>1, Zenon DEF Load, Offload, If
        <4>3. WakeOfGroup("wakeAll", r) \in Seq(Kinds \X Roles)
          BY <4>1 DEF WakeOfGroup, Wake, If
        <4>4. << <<"sync", "actor">> >> \in Seq(Kinds \X Roles)
          BY <4>1
        <4> QED
          BY <4>2, <4>3, <4>4, ConcatProperties, ConcatEmptySeq
      <3>2. Enter(r) = front \o <<>> \o << <<"drawGen", "actor">> >>
        BY <3>1, <2>4, <1>6 DEF Enter, EnterMegatronSGLang
      <3> QED
        BY <1>3, <1>6, <2>3, <3>2 DEF EnterKinds
    <2>5. CASE ~config.megatron
      <3>1. Enter(r) = front \o <<>> \o << <<"drawGen", "actor">> >>
        BY <2>5, <1>6 DEF Enter, EnterSGLang, If, TwoStages
      <3> QED
        BY <1>3, <1>6, <2>3, <3>1 DEF EnterKinds
    <2> QED
      BY <2>4, <2>5
  <1> QED
    BY <1>4, <1>5, <1>6

LEMMA GenerateLists ==
    ASSUME NEW method \in GenMethods, NEW r \in Ranks
    PROVE  Lists(method, Generate(r), GenKinds(r), 1, 15)
  <1>1. CallRole(method) = "actor"
    BY DEF CallRole, GenMethods, CriticMethods
  <1>2. /\ Pos(method, "awake") = 9 /\ Pos(method, "generate") = 10
        /\ Pos(method, "asleep") = 13 /\ Pos(method, "offloadOptim") = 1
    BY DEF Pos
  <1>3. {"awake", "generate", "asleep", "offloadOptim"} \subseteq Kinds
    BY DEF Kinds
  <1> DEFINE e == Enter(r)
             x == Exit(r)
             g == << <<"generate", "actor">> >>
             w == << <<"awake", "actor">> >>
             l == << <<"asleep", "actor">> >>
             o == If(config.megatron, OffloadOptim("actor"))
             E == EnterKinds(r)
             X == ExitKinds(r)
             O == Only(config.offloadOptim /\ config.megatron, {"offloadOptim"})
  <1>4. Lists(method, e, E, 2, 8) /\ Lists(method, x, X, 11, 12)
    BY <1>1, EnterLists, ExitLists
  <1>5. /\ Lists(method, g, {"generate"}, 10, 10)
        /\ Lists(method, w, {"awake"}, 9, 9)
        /\ Lists(method, l, {"asleep"}, 13, 13)
    BY <1>1, <1>2, <1>3, ListsStep
  <1>6. Lists(method, o, O, 1, 1)
    <2>1. Lists(method, OffloadOptim("actor"), Only(config.offloadOptim, {"offloadOptim"}), 1, 1)
      BY <1>1, <1>2, <1>3, ListsStepIf DEF OffloadOptim
    <2> QED
      BY <2>1, ListsNested DEF OffloadOptim
  <1>7. O = Only(config.megatron /\ config.offloadOptim, {"offloadOptim"})
    BY DEF Only
  <1>8. CASE config.async
    <2> DEFINE W == Only(config.freeCache /\ isSleep[r], E \union {"awake"})
               Z == Only(config.freeCache, X \union {"asleep"})
               up == If(config.freeCache, If(isSleep[r], e \o w))
               down == If(config.freeCache, x \o l)
    <2>1. Generate(r) = up \o g \o down /\ GenKinds(r) = W \union {"generate"} \union Z
      BY <1>8 DEF Generate, WakeUp, Sleep, GenKinds
    <2> HIDE DEF e, x, w, l, g, E, X
    <2>2. Lists(method, e \o w, E \union {"awake"}, 2, 9)
      BY <1>4, <1>5, ListsJoined
    <2>3. Lists(method, up, W, 2, 9)
      <3>1. Lists(method, If(isSleep[r], e \o w), Only(isSleep[r], E \union {"awake"}), 2, 9)
        BY <2>2, ListsIf
      <3>2. Lists(method, up, Only(isSleep[r] /\ config.freeCache, E \union {"awake"}), 2, 9)
        BY <3>1, ListsNested
      <3>3. Only(isSleep[r] /\ config.freeCache, E \union {"awake"}) = W
        BY DEF Only
      <3> QED
        BY <3>2, <3>3
    <2>4. Lists(method, x \o l, X \union {"asleep"}, 11, 13)
      BY <1>4, <1>5, ListsJoined
    <2>5. Lists(method, down, Z, 11, 13)
      BY <2>4, ListsIf
    <2> HIDE DEF up, down, W, Z
    <2>6. Lists(method, up \o g, W \union {"generate"}, 2, 10)
      BY <1>5, <2>3, ListsJoined
    <2>7. Lists(method, (up \o g) \o down, (W \union {"generate"}) \union Z, 2, 13)
      BY <2>5, <2>6, ListsJoined
    <2>8. Lists(method, Generate(r), GenKinds(r), 2, 13)
      BY <2>1, <2>7
    <2> QED
      BY <2>8, WiderBounds
  <1>9. CASE ~config.async
    <2>1. Generate(r) = o \o e \o g \o x /\ GenKinds(r) = O \union E \union {"generate"} \union X
      BY <1>7, <1>9 DEF Generate, GenKinds
    <2> HIDE DEF e, x, g, o, E, X, O
    <2>2. Lists(method, o \o e, O \union E, 1, 8)
      BY <1>4, <1>6, ListsJoined
    <2>3. Lists(method, (o \o e) \o g, (O \union E) \union {"generate"}, 1, 10)
      BY <1>5, <2>2, ListsJoined
    <2>4. Lists(method, ((o \o e) \o g) \o x, ((O \union E) \union {"generate"}) \union X, 1, 12)
      BY <1>4, <2>3, ListsJoined
    <2>5. Lists(method, Generate(r), GenKinds(r), 1, 12)
      BY <2>1, <2>4
    <2> QED
      BY <2>5, WiderBounds
  <1> QED
    BY <1>8, <1>9

\* The calls that load a shard, do something with it and offload it.
LEMMA MoveLists ==
    ASSUME NEW method, NEW kind \in Kinds, NEW role, role = CallRole(method),
           Pos(method, kind) = 5
    PROVE  Lists(method, Load(role) \o << <<kind, role>> >> \o Offload(role),
                 MovedKinds \union {kind}, 2, 6)
  <1>1. Pos(method, "load") = 2 /\ Pos(method, "offload") = 6
    BY DEF Pos
  <1> DEFINE A == Only(config.offloadParam, {"load"})
             B == Only(config.offloadParam, {"offload"})
             a == Load(role)
             b == Offload(role)
             k == << <<kind, role>> >>
  <1>2. Lists(method, a, A, 2, 2) /\ Lists(method, b, B, 6, 6)
    BY <1>1, ListsStepIf DEF Load, Offload, Kinds
  <1>3. Lists(method, k, {kind}, 5, 5)
    BY ListsStep
  <1>4. A \union {kind} \union B = MovedKinds \union {kind}
    BY DEF Only, MovedKinds
  <1> HIDE DEF A, B, a, b, k
  <1>5. Lists(method, a \o k, A \union {kind}, 2, 5)
    BY <1>2, <1>3, ListsJoined
  <1>6. Lists(method, (a \o k) \o b, (A \union {kind}) \union B, 2, 6)
    BY <1>2, <1>5, ListsJoined
  <1> QED
    BY <1>4, <1>6 DEF a, b, k

LEMMA UpdateLists ==
    ASSUME NEW method \in {"update_actor", "update_critic"}, NEW role,
           role = CallRole(method)
    PROVE  Lists(method, Load(role) \o LoadOptim(role) \o << <<"update", role>> >>
                           \o Offload(role) \o OffloadOptim(role),
                 MovedKinds \union {"update"}
                   \union Only(config.offloadOptim, {"loadOptim", "offloadOptim"}), 1, 15)
  <1>1. /\ Pos(method, "load") = 2 /\ Pos(method, "loadOptim") = 3
        /\ Pos(method, "update") = 5 /\ Pos(method, "offload") = 6
        /\ Pos(method, "offloadOptim") = 15
    BY DEF Pos, GenMethods
  <1> DEFINE A == Only(config.offloadParam, {"load"})
             B == Only(config.offloadParam, {"offload"})
             C == Only(config.offloadOptim, {"loadOptim"})
             D == Only(config.offloadOptim, {"offloadOptim"})
             a == Load(role)
             b == Offload(role)
             c == LoadOptim(role)
             d == OffloadOptim(role)
             k == << <<"update", role>> >>
  <1>2. /\ Lists(method, a, A, 2, 2) /\ Lists(method, b, B, 6, 6)
        /\ Lists(method, c, C, 3, 3) /\ Lists(method, d, D, 15, 15)
    BY <1>1, ListsStepIf DEF Load, Offload, LoadOptim, OffloadOptim, Kinds
  <1>3. Lists(method, k, {"update"}, 5, 5)
    BY <1>1, ListsStep DEF Kinds
  <1>4. A \union C \union {"update"} \union B \union D
          = MovedKinds \union {"update"}
            \union Only(config.offloadOptim, {"loadOptim", "offloadOptim"})
    BY DEF Only, MovedKinds
  <1> HIDE DEF A, B, C, D, a, b, c, d, k
  <1>5. Lists(method, a \o c, A \union C, 2, 3)
    BY <1>2, ListsJoined
  <1>6. Lists(method, (a \o c) \o k, (A \union C) \union {"update"}, 2, 5)
    BY <1>3, <1>5, ListsJoined
  <1>7. Lists(method, ((a \o c) \o k) \o b, ((A \union C) \union {"update"}) \union B, 2, 6)
    BY <1>2, <1>6, ListsJoined
  <1>8. Lists(method, (((a \o c) \o k) \o b) \o d,
              (((A \union C) \union {"update"}) \union B) \union D, 2, 15)
    BY <1>2, <1>7, ListsJoined
  <1>9. Lists(method, (((a \o c) \o k) \o b) \o d,
              (((A \union C) \union {"update"}) \union B) \union D, 1, 15)
    BY <1>8, WiderBounds
  <1> QED
    BY <1>4, <1>9 DEF a, b, c, d, k

LEMMA LoadLists ==
    ASSUME NEW method \in {"load_actor", "load_critic"}, NEW role,
           role = CallRole(method)
    PROVE  Lists(method, Load(role) \o << <<"restore", role>> >> \o Offload(role)
                           \o OffloadOptim(role),
                 MovedKinds \union {"restore"}
                   \union Only(config.offloadOptim, {"offloadOptim"}), 1, 15)
  <1>1. Pos(method, "restore") = 5 /\ Pos(method, "offloadOptim") = 15
    BY DEF Pos, GenMethods
  <1> DEFINE m == Load(role) \o << <<"restore", role>> >> \o Offload(role)
             d == OffloadOptim(role)
             K == MovedKinds \union {"restore"}
             D == Only(config.offloadOptim, {"offloadOptim"})
  <1>2. Lists(method, m, K, 2, 6)
    BY <1>1, MoveLists DEF Kinds
  <1>3. Lists(method, d, D, 15, 15)
    BY <1>1, ListsStepIf DEF OffloadOptim, Kinds
  <1> HIDE DEF m, d, K, D
  <1>4. Lists(method, m \o d, K \union D, 2, 15)
    BY <1>2, <1>3, ListsJoined
  <1>5. Lists(method, m \o d, K \union D, 1, 15)
    BY <1>4, WiderBounds
  <1> QED
    BY <1>5 DEF m, d, K, D

\* Every method takes its kinds of step, in order.
LEMMA StepsList ==
    ASSUME NEW method \in Methods, NEW r \in Ranks
    PROVE  Lists(method, Steps(method, r), MethodKinds(method, r), 1, 15)
  <1>1. CASE method = "sleep"
    <2>1. CallRole(method) = "actor" /\ Pos(method, "asleep") = 13 /\ "asleep" \in Kinds
      BY <1>1 DEF CallRole, CriticMethods, Pos, Kinds
    <2>2. Lists(method, Exit(r), ExitKinds(r), 11, 12)
      BY <2>1, ExitLists
    <2>3. Lists(method, << <<"asleep", "actor">> >>, {"asleep"}, 13, 13)
      BY <2>1, ListsStep
    <2>4. Lists(method, Sleep(r), ExitKinds(r) \union {"asleep"}, 11, 13)
      BY <2>2, <2>3, ListsJoined DEF Sleep
    <2>5. Lists(method, If(config.freeCache /\ ~isSleep[r], Sleep(r)),
                Only(config.freeCache /\ ~isSleep[r], ExitKinds(r) \union {"asleep"}), 1, 15)
      BY <2>4, ListsIf, WiderBounds
    <2> QED
      BY <1>1, <2>5 DEF Steps, MethodKinds, GenMethods
  <1>2. CASE method \in GenMethods
    <2>1. Steps(method, r) = Generate(r) /\ MethodKinds(method, r) = GenKinds(r)
      BY <1>2 DEF Steps, MethodKinds, GenMethods
    <2> QED
      BY <1>2, <2>1, GenerateLists
  <1>3. CASE method \in {"compute_log_prob", "compute_values", "save_actor", "save_critic"}
    <2>1. /\ Pos(method, "logProb") = 5 /\ Pos(method, "values") = 5
          /\ Pos(method, "save") = 5 /\ {"logProb", "values", "save"} \subseteq Kinds
      BY DEF Pos, Kinds
    <2>2. PICK kind \in Kinds :
            /\ Pos(method, kind) = 5
            /\ MethodKinds(method, r) = MovedKinds \union {kind}
            /\ Steps(method, r) = Load(CallRole(method))
                                    \o << <<kind, CallRole(method)>> >>
                                    \o Offload(CallRole(method))
      <3>1. CASE method = "compute_log_prob"
        BY <2>1, <3>1 DEF MethodKinds, Steps, ComputeLogProb, CallRole, CriticMethods, GenMethods
      <3>2. CASE method = "compute_values"
        BY <2>1, <3>2 DEF MethodKinds, Steps, ComputeValues, CallRole, CriticMethods, GenMethods
      <3>3. CASE method = "save_actor"
        BY <2>1, <3>3 DEF MethodKinds, Steps, SaveCheckpoint, CallRole, CriticMethods, GenMethods
      <3>4. CASE method = "save_critic"
        BY <2>1, <3>4 DEF MethodKinds, Steps, SaveCheckpoint, CallRole, CriticMethods, GenMethods
      <3> QED
        BY <1>3, <3>1, <3>2, <3>3, <3>4
    <2> QED
      <3>1. Lists(method, Steps(method, r), MethodKinds(method, r), 2, 6)
        BY <2>2, MoveLists
      <3> QED
        BY <3>1, WiderBounds
  <1>4. CASE method \in {"update_actor", "update_critic"}
    <2>1. /\ MethodKinds(method, r) = MovedKinds \union {"update"}
               \union Only(config.offloadOptim, {"loadOptim", "offloadOptim"})
          /\ Steps(method, r) = Load(CallRole(method)) \o LoadOptim(CallRole(method))
               \o << <<"update", CallRole(method)>> >> \o Offload(CallRole(method))
               \o OffloadOptim(CallRole(method))
      BY <1>4 DEF MethodKinds, Steps, UpdateActor, UpdateCritic, CallRole, CriticMethods,
                  GenMethods
    <2> QED
      BY <1>4, <2>1, UpdateLists
  <1>5. CASE method \in {"load_actor", "load_critic"}
    <2>1. /\ MethodKinds(method, r) = MovedKinds \union {"restore"}
               \union Only(config.offloadOptim, {"offloadOptim"})
          /\ Steps(method, r) = Load(CallRole(method))
               \o << <<"restore", CallRole(method)>> >> \o Offload(CallRole(method))
               \o OffloadOptim(CallRole(method))
      BY <1>5 DEF MethodKinds, Steps, LoadCheckpoint, CallRole, CriticMethods, GenMethods
    <2> QED
      BY <1>5, <2>1, LoadLists
  <1> QED
    BY <1>1, <1>2, <1>3, <1>4, <1>5 DEF Methods, GenMethods

-----------------------------------------------------------------------------
(***************************************************************************)
(* What taking a step does to the lists.                                   *)
(***************************************************************************)

\* Rank r takes its step of this kind: the first of those it has left.
Took(r, kind) ==
    /\ kind \in Left(r)
    /\ \A k \in Left(r) \ {kind} : Pos(call, kind) < Pos(call, k)
    /\ Left(r)' = Left(r) \ {kind}

TookAlone(r, kind) ==
    /\ Took(r, kind)
    /\ \A q \in Ranks \ {r} : Left(q)' = Left(q)

TookTogether(kind) == \A r \in Ranks : Took(r, kind)

\* Steps of these kinds are left to the same ranks as before.
SameLeft(kinds) ==
    \A r \in Ranks : \A kind \in kinds : kind \in Left(r)' <=> kind \in Left(r)

LEMMA LeftKinds ==
    ASSUME ListInv, NEW r \in Ranks
    PROVE  Left(r) \subseteq Kinds
  <1>1. InOrder(call, todo[r])
    BY DEF ListInv
  <1> QED
    BY <1>1, StepInOrder DEF Left, KindsOf

LEMMA RankTakes ==
    ASSUME ListInv, NEW r \in Ranks, NEW kind, AtStep(r, kind), Advance(r), call' = call
    PROVE  /\ ListInv' /\ TookAlone(r, kind)
           /\ kind \in Kinds /\ RoleOf(r) = CallRole(call)
  <1>1. InOrder(call, todo[r]) /\ todo[r] # <<>> /\ Head(todo[r])[1] = kind
    BY DEF ListInv, AtStep
  <1>2. todo' = [todo EXCEPT ![r] = Tail(todo[r])] /\ todo \in [Ranks -> Seq(Kinds \X Roles)]
    BY DEF Advance, ListInv
  <1>3. todo'[r] = Tail(todo[r]) /\ \A q \in Ranks \ {r} : todo'[q] = todo[q]
    BY <1>2
  <1>4. /\ kind \in KindsOf(todo[r]) /\ kind \in Kinds
        /\ InOrder(call, Tail(todo[r]))
        /\ KindsOf(Tail(todo[r])) = KindsOf(todo[r]) \ {kind}
        /\ \A k \in KindsOf(Tail(todo[r])) : Pos(call, kind) < Pos(call, k)
        /\ Head(todo[r])[2] = CallRole(call)
    BY <1>1, TailOfList
  <1>5. Left(r)' = KindsOf(Tail(todo[r])) /\ \A q \in Ranks \ {r} : Left(q)' = Left(q)
    BY <1>3 DEF Left
  <1>6. TookAlone(r, kind)
    BY <1>4, <1>5 DEF TookAlone, Took, Left
  <1>7. Tail(todo[r]) \in Seq(Kinds \X Roles)
    BY <1>1, <1>2, HeadTailProperties
  <1>8. todo' \in [Ranks -> Seq(Kinds \X Roles)]
    BY <1>2, <1>7
  <1>9. \A q \in Ranks : InOrder(call, todo'[q])
    BY <1>3, <1>4 DEF ListInv
  <1> QED
    BY <1>4, <1>6, <1>8, <1>9 DEF ListInv, RoleOf

LEMMA AllTake ==
    ASSUME ListInv, NEW kind, Together(kind), AdvanceAll, call' = call
    PROVE  /\ ListInv' /\ TookTogether(kind)
           /\ \A r \in Ranks : RoleOf(r) = CallRole(call)
  <1>1. \A r \in Ranks : InOrder(call, todo[r]) /\ todo[r] # <<>> /\ Head(todo[r])[1] = kind
    BY DEF ListInv, Together, AtStep
  <1>2. todo' = [r \in Ranks |-> Tail(todo[r])] /\ todo \in [Ranks -> Seq(Kinds \X Roles)]
    BY DEF AdvanceAll, ListInv
  <1>3. ASSUME NEW r \in Ranks
        PROVE  /\ Took(r, kind) /\ InOrder(call, todo'[r])
               /\ RoleOf(r) = CallRole(call)
               /\ Tail(todo[r]) \in Seq(Kinds \X Roles)
    <2>1. todo'[r] = Tail(todo[r])
      BY <1>2
    <2>2. /\ kind \in KindsOf(todo[r])
          /\ InOrder(call, Tail(todo[r]))
          /\ KindsOf(Tail(todo[r])) = KindsOf(todo[r]) \ {kind}
          /\ \A k \in KindsOf(Tail(todo[r])) : Pos(call, kind) < Pos(call, k)
          /\ Head(todo[r])[2] = CallRole(call)
      BY <1>1, TailOfList
    <2>3. Left(r)' = KindsOf(Tail(todo[r]))
      BY <2>1 DEF Left
    <2>4. Tail(todo[r]) \in Seq(Kinds \X Roles)
      BY <1>1, <1>2, HeadTailProperties
    <2> QED
      BY <2>1, <2>2, <2>3, <2>4 DEF Took, Left, RoleOf
  <1>4. todo' \in [Ranks -> Seq(Kinds \X Roles)]
    BY <1>2, <1>3
  <1> QED
    BY <1>3, <1>4 DEF ListInv, TookTogether

LEMMA SameAlone ==
    ASSUME NEW r \in Ranks, NEW kind, TookAlone(r, kind), NEW K, kind \notin K
    PROVE  SameLeft(K)
  BY DEF TookAlone, Took, SameLeft

LEMMA SameTogether ==
    ASSUME NEW kind, TookTogether(kind), NEW K, kind \notin K
    PROVE  SameLeft(K)
  BY DEF TookTogether, Took, SameLeft

\* A dependence on a later step survives any step.
LEMMA FollowedKept ==
    ASSUME NEW r \in Ranks, NEW kind, Took(r, kind), Left(r) \subseteq Kinds,
           Followed(r), \A k \in Left(r) : Possible(k, r), UNCHANGED <<config, call>>
    PROVE  Followed(r)' /\ \A k \in Left(r)' : Possible(k, r)'
  <1> DEFINE L == Left(r)
             M == Left(r)'
  <1>1. M = L \ {kind} /\ kind \in L /\ \A k \in M : Pos(call, kind) < Pos(call, k)
    BY DEF Took
  <1>2. \A k \in Kinds : Pos(call, k) \in Nat
    BY PosNat
  <1>3. ASSUME NEW a \in L, NEW b \in L, a # kind, Pos(call, a) < Pos(call, b)
        PROVE  b \in M
    <2>1. Pos(call, kind) < Pos(call, a)
      BY <1>1, <1>3
    <2>2. Pos(call, kind) \in Nat /\ Pos(call, a) \in Nat /\ Pos(call, b) \in Nat
      BY <1>1, <1>2
    <2>3. b # kind
      BY <1>3, <2>1, <2>2
    <2> QED
      BY <1>1, <2>3
  <1>4. \A k \in M : Possible(k, r)'
    BY <1>1 DEF Possible, Driver, VLLM, TwoStages
  <1>5. /\ Pos(call, "load") = 2 /\ Pos(call, "loadOptim") = 3
        /\ Pos(call, "wakeWeights") = 4 /\ Pos(call, "wakeAll") = 4
        /\ Pos(call, "sync") = 5 /\ Pos(call, "update") = 5 /\ Pos(call, "restore") = 5
        /\ Pos(call, "offload") = 6 /\ Pos(call, "wakeKV") = 7 /\ Pos(call, "drawGen") = 8
        /\ Pos(call, "awake") = 9 /\ Pos(call, "generate") = 10 /\ Pos(call, "sleep") = 11
        /\ Pos(call, "drawTrain") = 12 /\ Pos(call, "asleep") = 13
    BY DEF Pos
  <1>6. L \cap {"update", "restore"} # {} => Pos(call, "offloadOptim") = 15
    BY DEF Pos, Possible, GenMethods
  <1>7. M \subseteq L /\ \A k \in M : k # kind
    BY <1>1
  <1>8. UNCHANGED <<config.offloadParam, config.offloadOptim, config.freeCache,
                    config.async, Driver(r)>>
    BY DEF Driver, VLLM
  <1> HIDE DEF L, M
  <1> DEFINE Then(a, b) == a \in L => b \in L
             ThenStill(a, b) == a \in M => b \in M
  <1>9. \A a, b : Then(a, b) /\ Pos(call, a) < Pos(call, b) => ThenStill(a, b)
    BY <1>3, <1>7
  <1>10. /\ "load" \in L => "offload" \in L
         /\ "loadOptim" \in L => "update" \in L
         /\ "update" \in L /\ config.offloadParam => "offload" \in L
         /\ L \cap {"update", "restore"} # {} /\ config.offloadOptim => "offloadOptim" \in L
         /\ "sync" \in L => "generate" \in L
         /\ "generate" \in L /\ config.freeCache /\ r = Driver(r) => "sleep" \in L
         /\ L \cap {"wakeWeights", "wakeKV", "wakeAll"} # {} => "sleep" \in L
         /\ "wakeWeights" \in L => "wakeKV" \in L
         /\ "generate" \in L /\ (config.async => config.freeCache) => "drawTrain" \in L
         /\ "awake" \in L => "asleep" \in L
         /\ "drawGen" \in L => "drawTrain" \in L
    BY DEF Followed, L
  <1>11. /\ "load" \in M => "offload" \in M
         /\ "loadOptim" \in M => "update" \in M
         /\ "update" \in M /\ config.offloadParam => "offload" \in M
         /\ "sync" \in M => "generate" \in M
         /\ "wakeWeights" \in M => "wakeKV" \in M
         /\ "awake" \in M => "asleep" \in M
         /\ "drawGen" \in M => "drawTrain" \in M
    BY <1>5, <1>9, <1>10
  <1>12. M \cap {"update", "restore"} # {} /\ config.offloadOptim => "offloadOptim" \in M
    BY <1>3, <1>5, <1>6, <1>7, <1>10
  <1>13. "generate" \in M /\ config.freeCache /\ r = Driver(r) => "sleep" \in M
    BY <1>5, <1>9, <1>10
  <1>14. M \cap {"wakeWeights", "wakeKV", "wakeAll"} # {} => "sleep" \in M
    BY <1>3, <1>5, <1>7, <1>10
  <1>15. "generate" \in M /\ (config.async => config.freeCache) => "drawTrain" \in M
    BY <1>5, <1>9, <1>10
  <1>16. Followed(r)'
    BY <1>8, <1>11, <1>12, <1>13, <1>14, <1>15 DEF Followed, M
  <1> QED
    BY <1>4, <1>16 DEF M

LEMMA LeftInvAlone ==
    ASSUME ListInv, LeftInv, NEW r \in Ranks, NEW kind \in Kinds \ {"sync", "generate"},
           TookAlone(r, kind), UNCHANGED <<config, call>>
    PROVE  LeftInv'
  <1>1. Followed(r)' /\ \A k \in Left(r)' : Possible(k, r)'
    BY LeftKinds, FollowedKept DEF LeftInv, TookAlone
  <1>2. ASSUME NEW q \in Ranks \ {r}
        PROVE  Followed(q)' /\ \A k \in Left(q)' : Possible(k, q)'
    BY DEF TookAlone, LeftInv, Followed, Possible, Driver, VLLM, TwoStages
  <1>3. SameLeft({"sync", "generate"})
    BY SameAlone
  <1>4. call # "init_model"
    BY DEF LeftInv, TookAlone, Took
  <1> QED
    BY <1>1, <1>2, <1>3, <1>4 DEF LeftInv, SameLeft

LEMMA LeftInvTogether ==
    ASSUME ListInv, LeftInv, NEW kind \in Kinds, TookTogether(kind), Ranks # {},
           UNCHANGED <<config, call>>
    PROVE  LeftInv'
  <1>1. ASSUME NEW r \in Ranks
        PROVE  Followed(r)' /\ \A k \in Left(r)' : Possible(k, r)'
    BY LeftKinds, FollowedKept DEF LeftInv, TookTogether
  <1>2. \A r \in Ranks : Left(r)' = Left(r) \ {kind} /\ kind \in Left(r)
    BY DEF TookTogether, Took
  <1>3. call # "init_model"
    BY <1>2 DEF LeftInv
  <1> QED
    BY <1>1, <1>2, <1>3 DEF LeftInv

-----------------------------------------------------------------------------
(***************************************************************************)
(* What keeps each part of the invariant.                                  *)
(***************************************************************************)

ShardKinds == {"load", "offload", "loadOptim", "offloadOptim", "update"}
RngKinds == {"drawGen", "drawTrain"}
MemoryKinds == {"wakeWeights", "wakeKV", "wakeAll", "generate", "sleep"}
EngineKinds == {"sync", "generate", "sleep"}

LEMMA ShardKept ==
    ASSUME ShardInv, UNCHANGED <<config, call, gpuVars>>, SameLeft(ShardKinds)
    PROVE  ShardInv'
  BY DEF ShardInv, SameLeft, ShardKinds, gpuVars

LEMMA RngKept ==
    ASSUME RngInv, UNCHANGED <<config, rngVars>>, SameLeft(RngKinds)
    PROVE  RngInv'
  BY DEF RngInv, SameLeft, RngKinds, rngVars, WokenFirst, VLLM

LEMMA SleepKept ==
    ASSUME SleepInv, UNCHANGED <<config, call, isSleep>>, SameLeft({"asleep"})
    PROVE  SleepInv'
  BY DEF SleepInv, SameLeft, VLLM

LEMMA DriverIsRank ==
    ASSUME NEW r \in Ranks
    PROVE  Driver(r) \in Ranks
  BY EngineAssumption DEF Driver, Ranks

LEMMA MemoryKept ==
    ASSUME MemoryInv, UNCHANGED <<config, call, engineMem, kv>>, SameLeft(MemoryKinds)
    PROVE  MemoryInv'
  <1>1. \A r \in Ranks : Driver(r)' = Driver(r) /\ Driver(r) \in Ranks
    BY DriverIsRank DEF Driver, VLLM
  <1> SUFFICES ASSUME NEW r \in Ranks
               PROVE  /\ ~config.freeCache => engineMem[r] /\ kv[r]
                      /\ "generate" \in Left(r)' /\ "wakeAll" \notin Left(Driver(r))' =>
                           /\ "wakeWeights" \notin Left(Driver(r))' => engineMem[r]
                           /\ "wakeKV" \notin Left(Driver(r))' => kv[r]
                      /\ config.freeCache /\ (engineMem[r] \/ kv[r]) =>
                           \/ "sleep" \in Left(Driver(r))'
                           \/ call \in {"init_model", "sleep", "load_actor", "load_critic"}
    BY <1>1 DEF MemoryInv
  <1> QED
    BY <1>1 DEF MemoryInv, SameLeft, MemoryKinds

LEMMA EngineKept ==
    ASSUME EngineInv, UNCHANGED <<config, version, engineVersion, cached>>,
           SameLeft(EngineKinds)
    PROVE  EngineInv'
  BY DEF EngineInv, Resynchronised, CacheIsReset, VLLM, SameLeft, EngineKinds

-----------------------------------------------------------------------------
(***************************************************************************)
(* The steps of one rank.                                                  *)
(***************************************************************************)

LEMMA MoveParamsKeeps ==
    ASSUME HInv, NEW r \in Ranks,
           LoadModel(r) \/ OffloadModel(r)
    PROVE  HInv'
  <1> USE DEF HInv
  <1>1. PICK kind \in {"load", "offload"} :
          MoveParams(r, kind, IF kind = "load" THEN "gpu" ELSE "cpu")
    BY DEF LoadModel, OffloadModel
  <1> DEFINE place == IF kind = "load" THEN "gpu" ELSE "cpu"
  <1>2. /\ AtStep(r, kind) /\ Advance(r)
        /\ params' = [params EXCEPT ![<<RoleOf(r), r>>] = place]
        /\ UNCHANGED <<config, call, version, optim, engineVars, rngVars>>
    BY <1>1 DEF MoveParams, Fixed
  <1>3. ListInv' /\ TookAlone(r, kind) /\ kind \in Kinds /\ RoleOf(r) = CallRole(call)
    BY <1>2, RankTakes
  <1>4. LeftInv'
    BY <1>2, <1>3, LeftInvAlone
  <1>5. CallRole(call) \in Roles /\ place \in {"gpu", "cpu"}
    BY DEF CallRole, Roles
  <1>6. HTypeOK'
    BY <1>2, <1>3, <1>5 DEF HTypeOK, engineVars, rngVars
  <1>7. \A q \in Ranks, role \in Roles :
          params'[<<role, q>>] = IF role = CallRole(call) /\ q = r THEN place
                                 ELSE params[<<role, q>>]
    BY <1>2, <1>3, <1>5 DEF HTypeOK
  <1>8. /\ kind \in Left(r) /\ Left(r)' = Left(r) \ {kind}
        /\ \A q \in Ranks \ {r} : Left(q)' = Left(q)
        /\ "load" \in Left(r) => "offload" \in Left(r)
        /\ config.offloadParam
        /\ kind = "offload" => "load" \notin Left(r)
    <2>1. kind = "offload" => "load" \notin Left(r)
      BY <1>3 DEF TookAlone, Took, Pos
    <2> QED
      BY <1>3, <2>1 DEF TookAlone, Took, LeftInv, Followed, Possible
  <1>9. ShardInv'
    <2> SUFFICES ASSUME NEW q \in Ranks, NEW role \in Roles
                 PROVE  /\ params'[<<role, q>>] = "gpu" <=>
                             role = CallRole(call) /\ "offload" \in Left(q)'
                             /\ "load" \notin Left(q)'
                        /\ ~config.offloadOptim => optim[<<role, q>>] = "gpu"
                        /\ config.offloadOptim /\ optim[<<role, q>>] = "gpu" =>
                             role = CallRole(call) /\ "offloadOptim" \in Left(q)'
                        /\ role = CallRole(call) /\ "update" \in Left(q)'
                             /\ "loadOptim" \notin Left(q)' =>
                             optim[<<role, q>>] = "gpu"
      BY <1>2, <1>8 DEF ShardInv
    <2>1. Left(q)' = IF q = r THEN Left(q) \ {kind} ELSE Left(q)
      BY <1>8
    <2>2. params'[<<role, q>>] = "gpu" <=>
             role = CallRole(call) /\ "offload" \in Left(q)' /\ "load" \notin Left(q)'
      BY <1>7, <1>8, <2>1 DEF ShardInv
    <2> QED
      BY <2>1, <2>2 DEF ShardInv
  <1>10. RngInv' /\ SleepInv' /\ MemoryInv' /\ EngineInv'
    <2>1. SameLeft(RngKinds) /\ SameLeft({"asleep"}) /\ SameLeft(MemoryKinds)
          /\ SameLeft(EngineKinds)
      BY <1>3, SameAlone DEF RngKinds, MemoryKinds, EngineKinds
    <2> QED
      BY <1>2, <2>1, RngKept, SleepKept, MemoryKept, EngineKept DEF engineVars, rngVars
  <1> QED
    BY <1>3, <1>4, <1>6, <1>9, <1>10

LEMMA MoveOptimKeeps ==
    ASSUME HInv, NEW r \in Ranks,
           LoadOptimizer(r) \/ OffloadOptimizer(r)
    PROVE  HInv'
  <1> USE DEF HInv
  <1>1. PICK kind \in {"loadOptim", "offloadOptim"} :
          MoveOptim(r, kind, IF kind = "loadOptim" THEN "gpu" ELSE "cpu")
    BY DEF LoadOptimizer, OffloadOptimizer
  <1> DEFINE place == IF kind = "loadOptim" THEN "gpu" ELSE "cpu"
  <1>2. /\ AtStep(r, kind) /\ Advance(r)
        /\ optim' = [optim EXCEPT ![<<RoleOf(r), r>>] = place]
        /\ UNCHANGED <<config, call, version, params, engineVars, rngVars>>
    BY <1>1 DEF MoveOptim, Fixed
  <1>3. ListInv' /\ TookAlone(r, kind) /\ kind \in Kinds /\ RoleOf(r) = CallRole(call)
    BY <1>2, RankTakes
  <1>4. LeftInv'
    BY <1>2, <1>3, LeftInvAlone
  <1>5. CallRole(call) \in Roles /\ place \in {"gpu", "cpu"}
    BY DEF CallRole, Roles
  <1>6. HTypeOK'
    BY <1>2, <1>3, <1>5 DEF HTypeOK, engineVars, rngVars
  <1>7. \A q \in Ranks, role \in Roles :
          optim'[<<role, q>>] = IF role = CallRole(call) /\ q = r THEN place
                                ELSE optim[<<role, q>>]
    BY <1>2, <1>3, <1>5 DEF HTypeOK
  <1>8. /\ kind \in Left(r) /\ Left(r)' = Left(r) \ {kind}
        /\ \A q \in Ranks \ {r} : Left(q)' = Left(q)
        /\ config.offloadOptim
    BY <1>3 DEF TookAlone, Took, LeftInv, Possible
  <1>9. /\ kind = "offloadOptim" => "update" \notin Left(r)
        /\ kind = "loadOptim" => "offloadOptim" \in Left(r)
    <2>1. ASSUME kind = "offloadOptim", "update" \in Left(r) PROVE FALSE
      <3>1. call \notin GenMethods
        BY <2>1 DEF LeftInv, Possible, GenMethods
      <3> QED
        BY <1>3, <2>1, <3>1 DEF TookAlone, Took, Pos
    <2> QED
      BY <1>8, <2>1 DEF LeftInv, Followed
  <1>10. ShardInv'
    <2> SUFFICES ASSUME NEW q \in Ranks, NEW role \in Roles
                 PROVE  /\ params[<<role, q>>] = "gpu" <=>
                             ~config.offloadParam
                             \/ (role = CallRole(call) /\ "offload" \in Left(q)'
                                   /\ "load" \notin Left(q)')
                        /\ optim'[<<role, q>>] = "gpu" =>
                             role = CallRole(call) /\ "offloadOptim" \in Left(q)'
                        /\ role = CallRole(call) /\ "update" \in Left(q)'
                             /\ "loadOptim" \notin Left(q)' =>
                             optim'[<<role, q>>] = "gpu"
      BY <1>2, <1>8 DEF ShardInv
    <2>1. Left(q)' = IF q = r THEN Left(q) \ {kind} ELSE Left(q)
      BY <1>8
    <2>2. optim'[<<role, q>>] = "gpu" =>
             role = CallRole(call) /\ "offloadOptim" \in Left(q)'
      BY <1>7, <1>8, <1>9, <2>1 DEF ShardInv
    <2>3. role = CallRole(call) /\ "update" \in Left(q)' /\ "loadOptim" \notin Left(q)' =>
            optim'[<<role, q>>] = "gpu"
      BY <1>7, <1>8, <1>9, <2>1 DEF ShardInv
    <2> QED
      BY <2>1, <2>2, <2>3 DEF ShardInv
  <1>11. RngInv' /\ SleepInv' /\ MemoryInv' /\ EngineInv'
    <2>1. SameLeft(RngKinds) /\ SameLeft({"asleep"}) /\ SameLeft(MemoryKinds)
          /\ SameLeft(EngineKinds)
      BY <1>3, SameAlone DEF RngKinds, MemoryKinds, EngineKinds
    <2> QED
      BY <1>2, <2>1, RngKept, SleepKept, MemoryKept, EngineKept DEF engineVars, rngVars
  <1> QED
    BY <1>3, <1>4, <1>6, <1>10, <1>11

LEMMA DrawKeeps ==
    ASSUME HInv, NEW r \in Ranks, DrawGen(r) \/ DrawTrain(r)
    PROVE  HInv'
  <1> USE DEF HInv
  <1>1. PICK kind \in RngKinds :
          /\ AtStep(r, kind) /\ Advance(r)
          /\ UNCHANGED <<config, call, version, gpuVars, engineVars>>
          /\ kind = "drawGen" => DrawGen(r)
          /\ kind = "drawTrain" => DrawTrain(r)
    BY DEF DrawGen, DrawTrain, Fixed, RngKinds
  <1>2. ListInv' /\ TookAlone(r, kind) /\ kind \in Kinds
    BY <1>1, RankTakes
  <1>3. LeftInv'
    BY <1>1, <1>2, LeftInvAlone DEF RngKinds
  <1>4. HTypeOK'
    BY <1>1 DEF HTypeOK, gpuVars, engineVars, DrawGen, DrawTrain, RngKinds
  <1>5. /\ kind \in Left(r) /\ Left(r)' = Left(r) \ {kind}
        /\ \A q \in Ranks \ {r} : Left(q)' = Left(q)
        /\ "drawGen" \in Left(r) => "drawTrain" \in Left(r)
    BY <1>2 DEF TookAlone, Took, LeftInv, Followed
  <1>6. RngInv'
    <2>1. CASE kind = "drawGen"
      <3>1. /\ torchSlot' = [torchSlot EXCEPT ![r] = rng[r]]
            /\ rng' = [rng EXCEPT ![r] = genSlot[r]] /\ UNCHANGED genSlot
        BY <1>1, <2>1 DEF DrawGen
      <3>2. rng[r] = "train"
        BY <1>5, <2>1 DEF RngInv
      <3> QED
        BY <1>1, <1>5, <2>1, <3>1, <3>2 DEF RngInv, WokenFirst, VLLM, HTypeOK
    <2>2. CASE kind = "drawTrain"
      <3>1. /\ genSlot' = [genSlot EXCEPT ![r] = rng[r]]
            /\ rng' = [rng EXCEPT ![r] = torchSlot[r]] /\ UNCHANGED torchSlot
        BY <1>1, <2>2 DEF DrawTrain
      <3>2. "drawGen" \notin Left(r)
        BY <1>2, <2>2 DEF TookAlone, Took, Pos
      <3> QED
        BY <1>1, <1>5, <2>2, <3>1, <3>2 DEF RngInv, WokenFirst, VLLM, HTypeOK
    <2> QED
      BY <2>1, <2>2 DEF RngKinds
  <1>7. ShardInv' /\ SleepInv' /\ MemoryInv' /\ EngineInv'
    <2>1. SameLeft(ShardKinds) /\ SameLeft({"asleep"}) /\ SameLeft(MemoryKinds)
          /\ SameLeft(EngineKinds)
      BY <1>2, SameAlone DEF RngKinds, ShardKinds, MemoryKinds, EngineKinds
    <2> QED
      BY <1>1, <2>1, ShardKept, SleepKept, MemoryKept, EngineKept DEF engineVars, gpuVars
  <1> QED
    BY <1>2, <1>3, <1>4, <1>6, <1>7

LEMMA SetSleepKeeps ==
    ASSUME HInv, NEW r \in Ranks, Awake(r) \/ Asleep(r)
    PROVE  HInv'
  <1> USE DEF HInv
  <1>1. PICK kind \in {"awake", "asleep"} : SetSleep(r, kind, kind = "asleep")
    <2>1. CASE Awake(r)
      <3>1. SetSleep(r, "awake", FALSE) /\ ("awake" = "asleep") = FALSE
        BY <2>1 DEF Awake
      <3> QED
        BY <3>1
    <2>2. CASE Asleep(r)
      <3>1. SetSleep(r, "asleep", TRUE) /\ ("asleep" = "asleep") = TRUE
        BY <2>2 DEF Asleep
      <3> QED
        BY <3>1
    <2> QED
      BY <2>1, <2>2
  <1>2. /\ AtStep(r, kind) /\ Advance(r)
        /\ isSleep' = [isSleep EXCEPT ![r] = (kind = "asleep")]
        /\ UNCHANGED <<config, call, version, gpuVars, engineMem, kv, engineVersion,
                       cached, rngVars>>
    BY <1>1 DEF SetSleep, Fixed
  <1>3. ListInv' /\ TookAlone(r, kind) /\ kind \in Kinds
    BY <1>2, RankTakes
  <1>4. LeftInv'
    BY <1>2, <1>3, LeftInvAlone
  <1>5. isSleep' \in [Ranks -> BOOLEAN]
    BY <1>2 DEF HTypeOK
  <1>6. HTypeOK'
    BY <1>2, <1>5 DEF HTypeOK, gpuVars, rngVars
  <1>7. /\ kind \in Left(r) /\ Left(r)' = Left(r) \ {kind}
        /\ \A q \in Ranks \ {r} : Left(q)' = Left(q)
        /\ "awake" \in Left(r) => "asleep" \in Left(r)
    BY <1>3 DEF TookAlone, Took, LeftInv, Followed
  <1>8. /\ kind = "asleep" => isSleep'[r]
        /\ \A q \in Ranks \ {r} : isSleep'[q] = isSleep[q]
    BY <1>2 DEF HTypeOK
  <1>9. SleepInv'
    BY <1>2, <1>7, <1>8 DEF SleepInv, VLLM
  <1>10. ShardInv' /\ RngInv' /\ MemoryInv' /\ EngineInv'
    <2>1. SameLeft(ShardKinds) /\ SameLeft(RngKinds) /\ SameLeft(MemoryKinds)
          /\ SameLeft(EngineKinds)
      BY <1>3, SameAlone DEF RngKinds, ShardKinds, MemoryKinds, EngineKinds
    <2> QED
      BY <1>2, <2>1, ShardKept, RngKept, MemoryKept, EngineKept DEF gpuVars, rngVars
  <1> QED
    BY <1>3, <1>4, <1>6, <1>9, <1>10

\* A rank wakes or puts to sleep the engine it drives, on the ranks it reaches.
LEMMA ReachIsDriven ==
    ASSUME HInv, NEW r \in Ranks, NEW kind \in {"wakeWeights", "wakeKV", "wakeAll", "sleep"},
           kind \in Left(r)
    PROVE  /\ config.freeCache /\ r = Driver(r)
           /\ \A q \in Ranks : q \in Reach(r) <=> Driver(q) = r
  <1>1. config.freeCache /\ r = Driver(r)
    BY DEF HInv, LeftInv, Possible
  <1> QED
    BY <1>1 DEF Driver, Reach

LEMMA WakeWeightsKeeps ==
    ASSUME HInv, NEW r \in Ranks, WakeWeights(r)
    PROVE  HInv'
  <1> USE DEF HInv
  <1>1. PICK kind \in {"wakeWeights", "wakeAll"} : AtStep(r, kind)
    BY DEF WakeWeights
  <1>2. /\ Advance(r)
        /\ engineMem' = [q \in Ranks |-> engineMem[q] \/ q \in Reach(r)]
        /\ kv' = IF VLLM THEN kv ELSE [q \in Ranks |-> AtStep(r, "wakeAll")]
        /\ cached' = IF VLLM THEN cached ELSE {}
        /\ UNCHANGED <<config, call, version, gpuVars, engineVersion, isSleep, rngVars>>
    BY DEF WakeWeights, Fixed
  <1>3. ListInv' /\ TookAlone(r, kind) /\ kind \in Kinds
    BY <1>1, <1>2, RankTakes
  <1>4. LeftInv'
    BY <1>2, <1>3, LeftInvAlone
  <1>5. engineMem' \in [Ranks -> BOOLEAN] /\ kv' \in [Ranks -> BOOLEAN]
    <2>1. AtStep(r, "wakeAll") \in BOOLEAN
      BY DEF AtStep
    <2>2. engineMem' \in [Ranks -> BOOLEAN]
      BY <1>2
    <2>3. CASE VLLM
      BY <1>2, <2>2, <2>3 DEF HTypeOK
    <2>4. CASE ~VLLM
      BY <1>2, <2>1, <2>2, <2>4
    <2> QED
      BY <2>3, <2>4
  <1>6. HTypeOK'
    BY <1>2, <1>5 DEF HTypeOK, gpuVars, rngVars
  <1>7. /\ kind \in Left(r) /\ Left(r)' = Left(r) \ {kind}
        /\ \A q \in Ranks \ {r} : Left(q)' = Left(q)
        /\ "sleep" \in Left(r) /\ ("wakeWeights" \in Left(r) => "wakeKV" \in Left(r))
        /\ (kind = "wakeAll") <=> ~TwoStages
    BY <1>3 DEF TookAlone, Took, LeftInv, Followed, Possible
  <1>8. /\ config.freeCache /\ r = Driver(r)
        /\ \A q \in Ranks : q \in Reach(r) <=> Driver(q) = r
    BY <1>7, ReachIsDriven
  <1>9. \A q \in Ranks : engineMem'[q] <=> engineMem[q] \/ Driver(q) = r
    BY <1>2, <1>8
  <1>10. /\ VLLM => kv' = kv
         /\ ~VLLM => \A q \in Ranks : Driver(q) = r /\ (kv'[q] <=> kind = "wakeAll")
    BY <1>1, <1>2, <1>8 DEF AtStep, Driver
  <1>11. \A q \in Ranks : Driver(q)' = Driver(q) /\ Driver(q) \in Ranks
    BY <1>2, DriverIsRank DEF Driver, VLLM
  <1>12. MemoryInv'
    <2> SUFFICES ASSUME NEW q \in Ranks
                 PROVE  /\ "generate" \in Left(q)' /\ "wakeAll" \notin Left(Driver(q))' =>
                             /\ "wakeWeights" \notin Left(Driver(q))' => engineMem'[q]
                             /\ "wakeKV" \notin Left(Driver(q))' => kv'[q]
                        /\ engineMem'[q] \/ kv'[q] =>
                             \/ "sleep" \in Left(Driver(q))'
                             \/ call \in {"init_model", "sleep", "load_actor", "load_critic"}
      BY <1>2, <1>8, <1>11 DEF MemoryInv
    <2>1. CASE Driver(q) # r
      <3>1. VLLM /\ Left(Driver(q))' = Left(Driver(q)) /\ q # r
        BY <1>7, <1>8, <1>10, <1>11, <2>1
      <3> QED
        BY <1>7, <1>8, <1>9, <1>10, <2>1, <3>1 DEF MemoryInv
    <2>2. CASE Driver(q) = r
      <3>1. engineMem'[q] /\ Left(Driver(q))' = Left(r)' /\ "sleep" \in Left(r)'
        BY <1>7, <1>9, <1>11, <2>2
      <3>2. ASSUME "generate" \in Left(q)', "wakeAll" \notin Left(r)', "wakeKV" \notin Left(r)'
            PROVE  kv'[q]
        <4>1. kind = "wakeAll"
          BY <1>7, <3>2
        <4>2. ~VLLM
          BY <1>7, <4>1 DEF TwoStages
        <4> QED
          BY <1>10, <4>1, <4>2
      <3> QED
        BY <2>2, <3>1, <3>2
    <2> QED
      BY <2>1, <2>2
  <1>13. SameLeft(ShardKinds) /\ SameLeft(RngKinds) /\ SameLeft({"asleep"})
         /\ SameLeft(EngineKinds)
    BY <1>3, SameAlone DEF RngKinds, ShardKinds, EngineKinds
  <1>14. EngineInv'
    BY <1>2, <1>13 DEF EngineInv, SameLeft, EngineKinds, Resynchronised, CacheIsReset, VLLM
  <1>15. ShardInv' /\ RngInv' /\ SleepInv'
    BY <1>2, <1>13, ShardKept, RngKept, SleepKept DEF gpuVars, rngVars
  <1> QED
    BY <1>3, <1>4, <1>6, <1>12, <1>14, <1>15

LEMMA WakeKVKeeps ==
    ASSUME HInv, NEW r \in Ranks, WakeKV(r)
    PROVE  HInv'
  <1> USE DEF HInv
  <1>1. /\ AtStep(r, "wakeKV") /\ Advance(r)
        /\ kv' = [q \in Ranks |-> kv[q] \/ q \in Reach(r)]
        /\ UNCHANGED <<config, call, version, gpuVars, engineMem, engineVersion, cached,
                       isSleep, rngVars>>
    BY DEF WakeKV, Fixed
  <1>2. ListInv' /\ TookAlone(r, "wakeKV") /\ "wakeKV" \in Kinds
    BY <1>1, RankTakes
  <1>3. LeftInv'
    BY <1>1, <1>2, LeftInvAlone
  <1>4. kv' \in [Ranks -> BOOLEAN]
    BY <1>1 DEF HTypeOK
  <1>5. HTypeOK'
    BY <1>1, <1>4 DEF HTypeOK, gpuVars, rngVars
  <1>6. /\ "wakeKV" \in Left(r) /\ Left(r)' = Left(r) \ {"wakeKV"}
        /\ \A q \in Ranks \ {r} : Left(q)' = Left(q)
        /\ "sleep" \in Left(r)
    BY <1>2 DEF TookAlone, Took, LeftInv, Followed
  <1>7. /\ config.freeCache /\ r = Driver(r)
        /\ \A q \in Ranks : q \in Reach(r) <=> Driver(q) = r
    BY <1>6, ReachIsDriven
  <1>8. \A q \in Ranks : kv'[q] <=> kv[q] \/ Driver(q) = r
    BY <1>1, <1>7
  <1>9. \A q \in Ranks : Driver(q)' = Driver(q) /\ Driver(q) \in Ranks
    BY <1>1, DriverIsRank DEF Driver, VLLM
  <1>10. MemoryInv'
    <2> SUFFICES ASSUME NEW q \in Ranks
                 PROVE  /\ "generate" \in Left(q)' /\ "wakeAll" \notin Left(Driver(q))' =>
                             /\ "wakeWeights" \notin Left(Driver(q))' => engineMem[q]
                             /\ "wakeKV" \notin Left(Driver(q))' => kv'[q]
                        /\ engineMem[q] \/ kv'[q] =>
                             \/ "sleep" \in Left(Driver(q))'
                             \/ call \in {"init_model", "sleep", "load_actor", "load_critic"}
      BY <1>1, <1>7, <1>9 DEF MemoryInv
    <2>1. "generate" \in Left(q)' <=> "generate" \in Left(q)
      BY <1>6
    <2>2. CASE Driver(q) = r
      <3>1. kv'[q] /\ Left(Driver(q))' = Left(r)' /\ "sleep" \in Left(r)'
        BY <1>6, <1>8, <1>9, <2>2
      <3> QED
        BY <1>6, <2>1, <2>2, <3>1 DEF MemoryInv
    <2>3. CASE Driver(q) # r
      BY <1>6, <1>8, <1>9, <2>1, <2>3, <1>7 DEF MemoryInv
    <2> QED
      BY <2>2, <2>3
  <1>11. SameLeft(ShardKinds) /\ SameLeft(RngKinds) /\ SameLeft({"asleep"})
         /\ SameLeft(EngineKinds)
    BY <1>2, SameAlone DEF RngKinds, ShardKinds, EngineKinds
  <1>12. ShardInv' /\ RngInv' /\ SleepInv' /\ EngineInv'
    BY <1>1, <1>11, ShardKept, RngKept, SleepKept, EngineKept DEF gpuVars, rngVars
  <1> QED
    BY <1>2, <1>3, <1>5, <1>10, <1>12

LEMMA PutToSleepKeeps ==
    ASSUME HInv, NEW r \in Ranks, PutToSleep(r)
    PROVE  HInv'
  <1> USE DEF HInv
  <1>1. /\ AtStep(r, "sleep") /\ Advance(r)
        /\ engineMem' = [q \in Ranks |-> engineMem[q] /\ q \notin Reach(r)]
        /\ kv' = [q \in Ranks |-> kv[q] /\ q \notin Reach(r)]
        /\ cached' = {}
        /\ UNCHANGED <<config, call, version, gpuVars, engineVersion, isSleep, rngVars>>
    BY DEF PutToSleep, Fixed
  <1>2. ListInv' /\ TookAlone(r, "sleep") /\ "sleep" \in Kinds
    BY <1>1, RankTakes
  <1>3. LeftInv'
    BY <1>1, <1>2, LeftInvAlone
  <1>4. engineMem' \in [Ranks -> BOOLEAN] /\ kv' \in [Ranks -> BOOLEAN]
    BY <1>1 DEF HTypeOK
  <1>5. HTypeOK'
    BY <1>1, <1>4 DEF HTypeOK, gpuVars, rngVars
  <1>6. /\ "sleep" \in Left(r) /\ Left(r)' = Left(r) \ {"sleep"}
        /\ \A q \in Ranks \ {r} : Left(q)' = Left(q)
        /\ "generate" \notin Left(r)
    <2>1. "generate" \notin Left(r)
      BY <1>2 DEF TookAlone, Took, Pos
    <2> QED
      BY <1>2, <2>1 DEF TookAlone, Took
  <1>7. \A q \in Ranks : "generate" \notin Left(q) /\ "generate" \notin Left(q)'
    BY <1>6 DEF LeftInv
  <1>8. /\ config.freeCache /\ r = Driver(r)
        /\ \A q \in Ranks : q \in Reach(r) <=> Driver(q) = r
    BY <1>6, ReachIsDriven
  <1>9. \A q \in Ranks : /\ engineMem'[q] <=> engineMem[q] /\ Driver(q) # r
                         /\ kv'[q] <=> kv[q] /\ Driver(q) # r
    BY <1>1, <1>8
  <1>10. \A q \in Ranks : Driver(q)' = Driver(q) /\ Driver(q) \in Ranks
    BY <1>1, DriverIsRank DEF Driver, VLLM
  <1>11. MemoryInv'
    <2> SUFFICES ASSUME NEW q \in Ranks, engineMem'[q] \/ kv'[q]
                 PROVE  \/ "sleep" \in Left(Driver(q))'
                        \/ call \in {"init_model", "sleep", "load_actor", "load_critic"}
      BY <1>1, <1>7, <1>8, <1>10 DEF MemoryInv
    <2> QED
      BY <1>6, <1>8, <1>9, <1>10 DEF MemoryInv
  <1>12. EngineInv'
    BY <1>1, <1>7 DEF EngineInv, Resynchronised, CacheIsReset, VLLM
  <1>13. SameLeft(ShardKinds) /\ SameLeft(RngKinds) /\ SameLeft({"asleep"})
    BY <1>2, SameAlone DEF RngKinds, ShardKinds
  <1>14. ShardInv' /\ RngInv' /\ SleepInv'
    BY <1>1, <1>13, ShardKept, RngKept, SleepKept DEF gpuVars, rngVars
  <1> QED
    BY <1>2, <1>3, <1>5, <1>11, <1>12, <1>14

-----------------------------------------------------------------------------
(***************************************************************************)
(* The steps the ranks take together.                                      *)
(***************************************************************************)

LEMMA RankZero == 0 \in Ranks
  BY EngineAssumption DEF Ranks

LEMMA ReadOnlyKeeps ==
    ASSUME HInv, NEW kind \in {"logProb", "values", "save"}, ReadOnly(kind)
    PROVE  HInv'
  <1> USE DEF HInv
  <1>1. /\ Together(kind) /\ AdvanceAll
        /\ UNCHANGED <<config, call, version, gpuVars, engineVars, rngVars>>
    BY DEF ReadOnly, Fixed
  <1>2. ListInv' /\ TookTogether(kind) /\ kind \in Kinds
    BY <1>1, AllTake DEF Kinds
  <1>3. LeftInv'
    BY <1>1, <1>2, RankZero, LeftInvTogether
  <1>4. HTypeOK'
    BY <1>1 DEF HTypeOK, gpuVars, engineVars, rngVars
  <1>5. SameLeft(ShardKinds) /\ SameLeft(RngKinds) /\ SameLeft({"asleep"})
        /\ SameLeft(MemoryKinds) /\ SameLeft(EngineKinds)
    BY <1>2, SameTogether DEF ShardKinds, RngKinds, MemoryKinds, EngineKinds
  <1>6. ShardInv' /\ RngInv' /\ SleepInv' /\ MemoryInv' /\ EngineInv'
    BY <1>1, <1>5, ShardKept, RngKept, SleepKept, MemoryKept, EngineKept
       DEF gpuVars, engineVars, rngVars
  <1> QED
    BY <1>2, <1>3, <1>4, <1>6

LEMMA SyncWeightsKeeps ==
    ASSUME HInv, SyncWeights
    PROVE  HInv'
  <1> USE DEF HInv
  <1>1. /\ Together("sync") /\ AdvanceAll
        /\ engineVersion' = version
        /\ cached' = IF VLLM THEN cached ELSE {}
        /\ UNCHANGED <<config, call, version, gpuVars, engineMem, kv, isSleep, rngVars>>
    BY DEF SyncWeights, Fixed
  <1>2. ListInv' /\ TookTogether("sync") /\ "sync" \in Kinds
    BY <1>1, AllTake DEF Kinds
  <1>3. LeftInv'
    BY <1>1, <1>2, RankZero, LeftInvTogether
  <1>4. HTypeOK'
    BY <1>1 DEF HTypeOK, gpuVars, rngVars
  <1>5. SameLeft(ShardKinds) /\ SameLeft(RngKinds) /\ SameLeft({"asleep"})
        /\ SameLeft(MemoryKinds) /\ SameLeft({"generate", "sleep"})
    BY <1>2, SameTogether DEF ShardKinds, RngKinds, MemoryKinds
  <1>6. EngineInv'
    BY <1>1, <1>5 DEF EngineInv, Resynchronised, CacheIsReset, VLLM, SameLeft
  <1>7. ShardInv' /\ RngInv' /\ SleepInv' /\ MemoryInv'
    BY <1>1, <1>5, ShardKept, RngKept, SleepKept, MemoryKept DEF gpuVars, rngVars
  <1> QED
    BY <1>2, <1>3, <1>4, <1>6, <1>7

LEMMA RolloutGenerateKeeps ==
    ASSUME HInv, RolloutGenerate
    PROVE  HInv'
  <1> USE DEF HInv
  <1>1. /\ Together("generate") /\ AdvanceAll
        /\ cached' = cached \union {engineVersion}
        /\ UNCHANGED <<config, call, version, gpuVars, engineMem, kv, engineVersion,
                       isSleep, rngVars>>
    BY DEF RolloutGenerate, Fixed
  <1>2. ListInv' /\ TookTogether("generate") /\ "generate" \in Kinds
    BY <1>1, AllTake DEF Kinds
  <1>3. LeftInv'
    BY <1>1, <1>2, RankZero, LeftInvTogether
  <1>4. HTypeOK'
    BY <1>1 DEF HTypeOK, gpuVars, rngVars
  <1>5. SameLeft(ShardKinds) /\ SameLeft(RngKinds) /\ SameLeft({"asleep"})
        /\ SameLeft({"wakeWeights", "wakeKV", "wakeAll", "sleep"})
    BY <1>2, SameTogether DEF ShardKinds, RngKinds
  <1>6. \A r \in Ranks : "generate" \in Left(r) /\ "generate" \notin Left(r)'
    BY <1>2 DEF TookTogether, Took
  <1>7. EngineInv'
    <2>1. CacheIsReset /\ VLLM => \A r \in Ranks : "sleep" \in Left(r)
      BY <1>6 DEF CacheIsReset, LeftInv, Followed, Driver
    <2> QED
      BY <1>1, <1>5, <1>6, <2>1 DEF EngineInv, Resynchronised, CacheIsReset, VLLM, SameLeft
  <1>8. \A r \in Ranks : Driver(r)' = Driver(r) /\ Driver(r) \in Ranks
    BY <1>1, DriverIsRank DEF Driver, VLLM
  <1>9. MemoryInv'
    <2> SUFFICES ASSUME NEW r \in Ranks
                 PROVE  /\ ~config.freeCache => engineMem[r] /\ kv[r]
                        /\ config.freeCache /\ (engineMem[r] \/ kv[r]) =>
                             \/ "sleep" \in Left(Driver(r))'
                             \/ call \in {"init_model", "sleep", "load_actor", "load_critic"}
      BY <1>1, <1>6, <1>8 DEF MemoryInv
    <2> QED
      BY <1>5, <1>8 DEF MemoryInv, SameLeft
  <1>10. ShardInv' /\ RngInv' /\ SleepInv'
    BY <1>1, <1>5, ShardKept, RngKept, SleepKept DEF gpuVars, rngVars
  <1> QED
    BY <1>2, <1>3, <1>4, <1>7, <1>9, <1>10

\* New weights, by an update or from a checkpoint.
LEMMA NewWeightsKeep ==
    ASSUME HInv, NEW kind \in {"update", "restore"}, Together(kind), AdvanceAll,
           version' \in Nat, OptimOnGPU(RoleOf(0)),
           UNCHANGED <<config, call, params, engineVars, rngVars>>
    PROVE  HInv'
  <1> USE DEF HInv
  <1>1. /\ ListInv' /\ TookTogether(kind) /\ kind \in Kinds
        /\ RoleOf(0) = CallRole(call)
    BY AllTake, RankZero DEF Kinds
  <1>2. LeftInv'
    BY <1>1, RankZero, LeftInvTogether
  <1>3. optim' = [x \in Roles \X Ranks |-> IF x[1] = CallRole(call) THEN "gpu" ELSE optim[x]]
    BY <1>1 DEF OptimOnGPU
  <1>4. HTypeOK'
    BY <1>3 DEF HTypeOK, engineVars, rngVars
  <1>5. SameLeft({"load", "offload", "loadOptim", "offloadOptim"})
        /\ SameLeft(RngKinds) /\ SameLeft({"asleep"}) /\ SameLeft(MemoryKinds)
    BY <1>1, SameTogether DEF RngKinds, MemoryKinds
  <1>6. \A r \in Ranks : kind \in Left(r) /\ Left(r)' = Left(r) \ {kind}
    BY <1>1 DEF TookTogether, Took
  <1>7. \A r \in Ranks : config.offloadOptim => "offloadOptim" \in Left(r)
    BY <1>6 DEF LeftInv, Followed
  <1>8. \A r \in Ranks : "generate" \notin Left(r)
    BY <1>6 DEF LeftInv, Possible, GenMethods
  <1>9. ShardInv'
    <2>1. \A r \in Ranks, role \in Roles :
            optim'[<<role, r>>] = IF role = CallRole(call) THEN "gpu" ELSE optim[<<role, r>>]
      BY <1>3
    <2> SUFFICES ASSUME NEW r \in Ranks, NEW role \in Roles
                 PROVE  /\ params[<<role, r>>] = "gpu" <=>
                             ~config.offloadParam
                             \/ (role = CallRole(call) /\ "offload" \in Left(r)'
                                   /\ "load" \notin Left(r)')
                        /\ ~config.offloadOptim => optim'[<<role, r>>] = "gpu"
                        /\ config.offloadOptim /\ optim'[<<role, r>>] = "gpu" =>
                             role = CallRole(call) /\ "offloadOptim" \in Left(r)'
                        /\ role = CallRole(call) /\ "update" \in Left(r)'
                             /\ "loadOptim" \notin Left(r)' =>
                             optim'[<<role, r>>] = "gpu"
      BY DEF ShardInv
    <2> QED
      BY <1>5, <1>7, <2>1 DEF ShardInv, SameLeft
  <1>10. EngineInv'
    <2>1. SameLeft({"generate", "sleep"})
      BY <1>1, SameTogether
    <2> QED
      BY <1>8, <2>1 DEF EngineInv, Resynchronised, CacheIsReset, VLLM, SameLeft, engineVars
  <1>11. RngInv' /\ SleepInv' /\ MemoryInv'
    BY <1>5, RngKept, SleepKept, MemoryKept DEF engineVars, rngVars
  <1> QED
    BY <1>1, <1>2, <1>4, <1>9, <1>10, <1>11

LEMMA CollectiveKeeps ==
    ASSUME HInv, Collective
    PROVE  HInv'
  <1>1. CASE SyncWeights
    BY <1>1, SyncWeightsKeeps
  <1>2. CASE RolloutGenerate
    BY <1>2, RolloutGenerateKeeps
  <1>3. CASE ActorForward \/ CriticForward \/ SaveShards
    BY <1>3, ReadOnlyKeeps DEF ActorForward, CriticForward, SaveShards
  <1>4. version \in Nat /\ version + 1 \in Nat
    BY DEF HInv, HTypeOK
  <1>5. CASE UpdatePolicy
    <2>1. Together("update") /\ AdvanceAll /\ version' \in Nat /\ OptimOnGPU(RoleOf(0))
          /\ UNCHANGED <<config, call, params, engineVars, rngVars>>
      BY <1>4, <1>5 DEF UpdatePolicy
    <2> QED
      BY <2>1, NewWeightsKeep
  <1>6. CASE UpdateValues
    <2>1. Together("update") /\ AdvanceAll /\ version' \in Nat /\ OptimOnGPU(RoleOf(0))
          /\ UNCHANGED <<config, call, params, engineVars, rngVars>>
      BY <1>4, <1>6 DEF UpdateValues, Fixed
    <2> QED
      BY <2>1, NewWeightsKeep
  <1>7. CASE Restore
    <2>1. Together("restore") /\ AdvanceAll /\ version' \in Nat /\ OptimOnGPU(RoleOf(0))
          /\ UNCHANGED <<config, call, params, engineVars, rngVars>>
      BY <1>4, <1>7 DEF Restore
    <2> QED
      BY <2>1, NewWeightsKeep
  <1> QED
    BY <1>1, <1>2, <1>3, <1>5, <1>6, <1>7 DEF Collective

-----------------------------------------------------------------------------
(***************************************************************************)
(* The calls of the driver.                                                *)
(***************************************************************************)

GenTakes(L, r) ==
    /\ "load" \in L <=> Resynchronised /\ config.offloadParam
    /\ "offload" \in L <=> Resynchronised /\ config.offloadParam
    /\ "sync" \in L <=> Resynchronised
    /\ "drawGen" \in L <=> Resynchronised
    /\ "drawTrain" \in L <=> Resynchronised
    /\ "wakeWeights" \in L <=> config.freeCache /\ r = Driver(r) /\ TwoStages
    /\ "wakeKV" \in L <=> config.freeCache /\ r = Driver(r) /\ TwoStages
    /\ "wakeAll" \in L <=> config.freeCache /\ r = Driver(r) /\ ~TwoStages
    /\ "awake" \in L <=> config.async /\ config.freeCache
    /\ "asleep" \in L <=> config.async /\ config.freeCache
    /\ "generate" \in L
    /\ "sleep" \in L <=> config.freeCache /\ r = Driver(r)
    /\ "offloadOptim" \in L => config.offloadOptim
    /\ {"loadOptim", "update", "restore"} \cap L = {}

LEMMA GenKindsTaken ==
    ASSUME NEW r \in Ranks, config.async /\ config.freeCache => isSleep[r]
    PROVE  GenTakes(GenKinds(r), r)
  <1>1. CASE config.async /\ config.freeCache
    BY <1>1 DEF GenTakes, GenKinds, EnterKinds, ExitKinds, Only, Resynchronised
  <1>2. CASE config.async /\ ~config.freeCache
    BY <1>2 DEF GenTakes, GenKinds, EnterKinds, ExitKinds, Only, Resynchronised
  <1>3. CASE ~config.async
    BY <1>3 DEF GenTakes, GenKinds, EnterKinds, ExitKinds, Only, Resynchronised
  <1> QED
    BY <1>1, <1>2, <1>3

SleepTakes(L, r) ==
    /\ L \subseteq {"sleep", "drawTrain", "asleep"}
    /\ "asleep" \in L <=> config.freeCache /\ ~isSleep[r]
    /\ "drawTrain" \in L => config.freeCache /\ ~isSleep[r]
    /\ "sleep" \in L => config.freeCache /\ r = Driver(r)

\* The other methods do not touch the engine.
TrainTakes(L, method) ==
    /\ L \subseteq {"load", "offload", "loadOptim", "offloadOptim", "update", "restore",
                    "logProb", "values", "save"}
    /\ "load" \in L <=> config.offloadParam
    /\ "offload" \in L <=> config.offloadParam
    /\ "loadOptim" \in L <=> "update" \in L /\ config.offloadOptim
    /\ "offloadOptim" \in L <=> config.offloadOptim /\ L \cap {"update", "restore"} # {}
    /\ "update" \in L => method \in {"update_actor", "update_critic"}
    /\ "restore" \in L => method \in {"load_actor", "load_critic"}

LEMMA TrainKindsTaken ==
    ASSUME NEW method \in Methods, method \notin GenMethods \union {"sleep"}, NEW r
    PROVE  TrainTakes(MethodKinds(method, r), method)
  <1>1. CASE method \in {"update_actor", "update_critic"}
    BY <1>1 DEF TrainTakes, MethodKinds, MovedKinds, Only, GenMethods
  <1>2. CASE method \in {"load_actor", "load_critic"}
    BY <1>2 DEF TrainTakes, MethodKinds, MovedKinds, Only, GenMethods
  <1>3. CASE method \in {"save_actor", "save_critic"}
    BY <1>3 DEF TrainTakes, MethodKinds, MovedKinds, Only, GenMethods
  <1>4. CASE method = "compute_log_prob"
    BY <1>4 DEF TrainTakes, MethodKinds, MovedKinds, Only, GenMethods
  <1>5. CASE method = "compute_values"
    BY <1>5 DEF TrainTakes, MethodKinds, MovedKinds, Only, GenMethods
  <1> QED
    BY <1>1, <1>2, <1>3, <1>4, <1>5 DEF Methods, GenMethods

\* Between two calls nothing is left to do: what the parts of the invariant say
\* then.
LEMMA IdleState ==
    ASSUME HInv, Idle
    PROVE  /\ \A r \in Ranks : Left(r) = {}
           /\ \A r \in Ranks, role \in Roles :
                /\ params[<<role, r>>] = "gpu" <=> ~config.offloadParam
                /\ optim[<<role, r>>] = "gpu" <=> ~config.offloadOptim
           /\ \A r \in Ranks : /\ torchSlot[r] = "train" /\ rng[r] = "train"
                               /\ WokenFirst => genSlot[r] = "gen"
           /\ config.async /\ config.freeCache =>
                \A r \in Ranks : ~isSleep[r] => VLLM /\ call = "init_model"
           /\ \A r \in Ranks :
                /\ ~config.freeCache => engineMem[r] /\ kv[r]
                /\ config.freeCache /\ (engineMem[r] \/ kv[r]) =>
                     call \in {"init_model", "sleep", "load_actor", "load_critic"}
           /\ CacheIsReset /\ VLLM => cached = {}
  <1>1. \A r \in Ranks : Left(r) = {}
    <2>1. KindsOf(<<>>) = {}
      BY ListsNothing DEF Lists
    <2> QED
      BY <2>1 DEF Idle, Left
  <1>2. \A r \in Ranks, role \in Roles :
          /\ params[<<role, r>>] = "gpu" <=> ~config.offloadParam
          /\ optim[<<role, r>>] = "gpu" <=> ~config.offloadOptim
    BY <1>1 DEF HInv, ShardInv
  <1>3. \A r \in Ranks : /\ torchSlot[r] = "train" /\ rng[r] = "train"
                         /\ WokenFirst => genSlot[r] = "gen"
    BY <1>1 DEF HInv, RngInv
  <1>4. config.async /\ config.freeCache =>
          \A r \in Ranks : ~isSleep[r] => VLLM /\ call = "init_model"
    BY <1>1 DEF HInv, SleepInv
  <1>5. \A r \in Ranks :
          /\ ~config.freeCache => engineMem[r] /\ kv[r]
          /\ config.freeCache /\ (engineMem[r] \/ kv[r]) =>
               call \in {"init_model", "sleep", "load_actor", "load_critic"}
    BY <1>1, DriverIsRank DEF HInv, MemoryInv
  <1>6. CacheIsReset /\ VLLM => cached = {}
    BY <1>1, RankZero DEF HInv, EngineInv
  <1> QED
    BY <1>1, <1>2, <1>3, <1>4, <1>5, <1>6

LEMMA CallMethodKeeps ==
    ASSUME HInv, NEW method \in Methods, CallMethod(method)
    PROVE  HInv'
  <1>1. /\ Idle /\ method \in NextCalls /\ call' = method
        /\ todo' = [r \in Ranks |-> Steps(method, r)]
        /\ UNCHANGED <<config, version, gpuVars, engineVars, rngVars>>
    BY DEF CallMethod
  <1>2. /\ \A r \in Ranks, role \in Roles :
             /\ params[<<role, r>>] = "gpu" <=> ~config.offloadParam
             /\ optim[<<role, r>>] = "gpu" <=> ~config.offloadOptim
        /\ \A r \in Ranks : /\ torchSlot[r] = "train" /\ rng[r] = "train"
                            /\ WokenFirst => genSlot[r] = "gen"
        /\ config.async /\ config.freeCache =>
             \A r \in Ranks : ~isSleep[r] => VLLM /\ call = "init_model"
        /\ \A r \in Ranks :
             /\ ~config.freeCache => engineMem[r] /\ kv[r]
             /\ config.freeCache /\ (engineMem[r] \/ kv[r]) =>
                  call \in {"init_model", "sleep", "load_actor", "load_critic"}
        /\ CacheIsReset /\ VLLM => cached = {}
    BY <1>1, IdleState
  <1>3. HTypeOK'
    BY <1>1 DEF HInv, HTypeOK, gpuVars, engineVars, rngVars
  <1>4. \A r \in Ranks : Lists(method, Steps(method, r), MethodKinds(method, r), 1, 15)
    BY StepsList
  <1>5. ListInv' /\ \A r \in Ranks : Left(r)' = MethodKinds(method, r)
    <2>1. \A r \in Ranks : todo'[r] = Steps(method, r) /\ InOrder(method, todo'[r])
      BY <1>1, <1>4 DEF Lists
    <2>2. CallRole(method) \in Roles
      BY DEF CallRole, Roles
    <2>3. \A r \in Ranks : Steps(method, r) \in Seq(Kinds \X Roles)
      <3>1. Kinds \X {CallRole(method)} \subseteq Kinds \X Roles
        BY <2>2
      <3> QED
        BY <2>1, <3>1, SeqMonotonic DEF InOrder
    <2>4. ListInv'
      BY <1>1, <2>1, <2>3 DEF ListInv
    <2> QED
      BY <1>4, <2>1, <2>4 DEF Lists, Left
  <1>6. /\ method = "sleep" => config.async /\ call = "init_model"
        /\ method \in GenMethods => ~(config.async /\ call = "init_model")
        /\ method \notin GenMethods \union {"sleep", "load_actor", "load_critic"} =>
             call \notin {"init_model", "sleep", "load_actor", "load_critic"}
    <2>1. call \in Methods \union {"init_model", "stop"}
      BY DEF HInv, HTypeOK
    <2> QED
      BY <1>1, <2>1 DEF NextCalls, After, Methods, GenMethods
  <1>7. \A r \in Ranks :
          /\ method \in GenMethods => GenTakes(Left(r)', r)
          /\ method = "sleep" => SleepTakes(Left(r)', r)
          /\ method \notin GenMethods \union {"sleep"} => TrainTakes(Left(r)', method)
    <2> TAKE r \in Ranks
    <2>1. CASE method \in GenMethods
      <3>1. config.async /\ config.freeCache => isSleep[r]
        BY <1>2, <1>6, <2>1
      <3>2. MethodKinds(method, r) = GenKinds(r)
        BY <2>1 DEF MethodKinds, GenMethods
      <3> QED
        BY <1>5, <2>1, <3>1, <3>2, GenKindsTaken DEF GenMethods
    <2>2. CASE method = "sleep"
      <3>1. Left(r)' = Only(config.freeCache /\ ~isSleep[r], ExitKinds(r) \union {"asleep"})
        BY <1>5, <2>2 DEF MethodKinds, GenMethods
      <3>2. SleepTakes(Left(r)', r)
        BY <3>1 DEF SleepTakes, ExitKinds, Only
      <3> QED
        BY <2>2, <3>2 DEF GenMethods
    <2>3. CASE method \notin GenMethods \union {"sleep"}
      BY <1>5, <2>3, TrainKindsTaken
    <2> QED
      BY <2>1, <2>2, <2>3
  <1>8. \A r \in Ranks : /\ Driver(r)' = Driver(r) /\ Driver(r) \in Ranks
                         /\ Driver(Driver(r)) = Driver(r)
    BY <1>1, DriverIsRank DEF Driver, VLLM
  <1>9. UNCHANGED <<WokenFirst, Resynchronised, CacheIsReset, VLLM, TwoStages>>
    BY <1>1 DEF WokenFirst, Resynchronised, CacheIsReset, VLLM, TwoStages
  <1>10. LeftInv'
    <2>1. \A r \in Ranks : Followed(r)'
      <3> TAKE r \in Ranks
      <3>1. CASE method \in GenMethods
        BY <1>1, <1>7, <1>8, <3>1 DEF Followed, GenTakes, Resynchronised
      <3>2. CASE method = "sleep"
        BY <1>1, <1>7, <3>2 DEF Followed, SleepTakes
      <3>3. CASE method \notin GenMethods \union {"sleep"}
        BY <1>1, <1>7, <3>3 DEF Followed, TrainTakes
      <3> QED
        BY <3>1, <3>2, <3>3
    <2>2. \A r \in Ranks : \A kind \in Left(r)' : Possible(kind, r)'
      <3> TAKE r \in Ranks
      <3> TAKE kind \in Left(r)'
      <3>1. CASE method \in GenMethods
        BY <1>1, <1>7, <1>8, <1>9, <3>1 DEF Possible, GenTakes
      <3>2. CASE method = "sleep"
        BY <1>1, <1>6, <1>7, <1>8, <3>2 DEF Possible, SleepTakes
      <3>3. CASE method \notin GenMethods \union {"sleep"}
        BY <1>1, <1>7, <3>3 DEF Possible, TrainTakes
      <3> QED
        BY <3>1, <3>2, <3>3
    <2>3. \A q, r \in Ranks : \A kind \in {"sync", "generate"} :
            kind \in Left(q)' => kind \in Left(r)'
      BY <1>7 DEF GenTakes, SleepTakes, TrainTakes
    <2>4. call' # "init_model"
      BY <1>1 DEF Methods
    <2> QED
      BY <2>1, <2>2, <2>3, <2>4 DEF LeftInv
  <1>11. ShardInv'
    <2>1. \A r \in Ranks :
            /\ "offload" \in Left(r)' => "load" \in Left(r)'
            /\ "update" \in Left(r)' /\ config.offloadOptim => "loadOptim" \in Left(r)'
      BY <1>7 DEF GenTakes, SleepTakes, TrainTakes
    <2> QED
      BY <1>1, <1>2, <2>1 DEF ShardInv, gpuVars
  <1>12. RngInv'
    <2>1. \A r \in Ranks : WokenFirst /\ "drawTrain" \in Left(r)' => "drawGen" \in Left(r)'
      BY <1>2, <1>6, <1>7 DEF GenTakes, SleepTakes, TrainTakes, WokenFirst, Resynchronised
    <2> QED
      BY <1>1, <1>2, <1>9, <2>1 DEF RngInv, rngVars
  <1>13. SleepInv'
    <2>1. \A r \in Ranks : config.async /\ config.freeCache /\ ~isSleep[r] =>
                             "asleep" \in Left(r)'
      <3> TAKE r \in Ranks
      <3> HAVE config.async /\ config.freeCache /\ ~isSleep[r]
      <3>1. call = "init_model" /\ method = "sleep"
        BY <1>1, <1>2 DEF NextCalls
      <3> QED
        BY <1>7, <3>1 DEF SleepTakes
    <2> QED
      BY <1>1, <2>1 DEF SleepInv, engineVars
  <1>14. MemoryInv'
    <2> SUFFICES ASSUME NEW r \in Ranks
                 PROVE  /\ "generate" \in Left(r)' /\ "wakeAll" \notin Left(Driver(r))' =>
                             /\ "wakeWeights" \notin Left(Driver(r))' => engineMem[r]
                             /\ "wakeKV" \notin Left(Driver(r))' => kv[r]
                        /\ config.freeCache /\ (engineMem[r] \/ kv[r]) =>
                             \/ "sleep" \in Left(Driver(r))'
                             \/ method \in {"init_model", "sleep", "load_actor", "load_critic"}
      BY <1>1, <1>2, <1>8 DEF MemoryInv, engineVars
    <2>0. PICK d \in Ranks : d = Driver(r) /\ d = Driver(r)'
      BY <1>8
    <2>1. Driver(d) = d /\ Left(Driver(r))' = Left(d)'
      BY <1>8, <2>0
    <2>2. CASE method \in GenMethods
      <3>1. GenTakes(Left(d)', d)
        BY <1>7, <2>2
      <3> QED
        BY <1>2, <2>1, <3>1 DEF GenTakes
    <2>3. CASE method \notin GenMethods
      <3>1. "generate" \notin Left(r)'
        BY <1>7, <2>3 DEF SleepTakes, TrainTakes
      <3> QED
        BY <1>2, <1>6, <2>3, <3>1
    <2> QED
      BY <2>2, <2>3
  <1>15. EngineInv'
    <2>1. \A r \in Ranks : "generate" \in Left(r)' =>
            (Resynchronised => "sync" \in Left(r)') /\ (CacheIsReset => Resynchronised)
      BY <1>7 DEF GenTakes, SleepTakes, TrainTakes, CacheIsReset, Resynchronised
    <2> QED
      BY <1>1, <1>2, <1>9, <2>1 DEF EngineInv, engineVars
  <1> QED
    BY <1>3, <1>5, <1>10, <1>11, <1>12, <1>13, <1>14, <1>15 DEF HInv

LEMMA StopKeeps ==
    ASSUME HInv, Stop
    PROVE  HInv'
  <1>1. /\ Idle /\ call' = "stop"
        /\ call \in {"update_actor", "validate", "save_critic"}
        /\ UNCHANGED <<config, todo, version, gpuVars, engineVars, rngVars>>
    BY DEF Stop
  <1>2. \A r \in Ranks : Left(r) = {} /\ Left(r)' = {}
    BY <1>1, IdleState DEF Left
  <1>3. HTypeOK'
    BY <1>1 DEF HInv, HTypeOK, gpuVars, engineVars, rngVars
  <1>4. ListInv'
    <2>1. \A r \in Ranks : todo'[r] = <<>>
      BY <1>1 DEF Idle
    <2>2. InOrder("stop", <<>>)
      BY ListsNothing DEF Lists
    <2> QED
      BY <1>1, <2>1, <2>2 DEF ListInv, HInv
  <1>5. LeftInv'
    BY <1>1, <1>2 DEF LeftInv, Followed
  <1>6. ShardInv'
    BY <1>1, <1>2, IdleState DEF ShardInv, gpuVars
  <1>7. SameLeft(RngKinds) /\ SameLeft({"asleep"}) /\ SameLeft(EngineKinds)
    BY <1>2 DEF SameLeft
  <1>8. RngInv' /\ EngineInv'
    BY <1>1, <1>7, RngKept, EngineKept DEF HInv, engineVars
  <1>9. SleepInv'
    BY <1>1, IdleState DEF SleepInv, engineVars
  <1>10. MemoryInv'
    BY <1>1, <1>2, IdleState DEF MemoryInv, engineVars
  <1> QED
    BY <1>3, <1>4, <1>5, <1>6, <1>8, <1>9, <1>10 DEF HInv

LEMMA HInvInit ==
    ASSUME Init
    PROVE  HInv
  <1>1. /\ config \in Configs /\ call = "init_model"
        /\ todo = [r \in Ranks |-> <<>>]
    BY DEF Init
  <1>2. \A r \in Ranks : Left(r) = {}
    <2>1. KindsOf(<<>>) = {}
      BY ListsNothing DEF Lists
    <2> QED
      BY <1>1, <2>1 DEF Left
  <1>3. HTypeOK
    <2>1. AwakeAtInit \in BOOLEAN /\ VLLM \in BOOLEAN /\ LoadedAtInit \in Nat
      BY DEF AwakeAtInit, VLLM, LoadedAtInit, Unread
    <2>2. \A offloaded : At("gpu", offloaded) \in {"gpu", "cpu"}
      BY DEF At
    <2> QED
      BY <2>1, <2>2 DEF Init, HTypeOK
  <1>4. ListInv
    <2>1. <<>> \in Seq(Kinds \X Roles) /\ InOrder("init_model", <<>>)
      BY ListsNothing DEF Lists
    <2> QED
      BY <1>1, <2>1 DEF ListInv
  <1>5. LeftInv
    BY <1>2 DEF LeftInv, Followed
  <1>6. ShardInv
    BY <1>2 DEF Init, ShardInv, At
  <1>7. RngInv
    BY <1>2 DEF Init, RngInv
  <1>8. SleepInv
    BY <1>1 DEF Init, SleepInv
  <1>9. MemoryInv
    <2>1. ~config.freeCache => AwakeAtInit = TRUE
      BY DEF AwakeAtInit
    <2> QED
      BY <1>1, <1>2, <2>1 DEF Init, MemoryInv
  <1>10. EngineInv
    BY <1>2 DEF Init, EngineInv
  <1> QED
    BY <1>3, <1>4, <1>5, <1>6, <1>7, <1>8, <1>9, <1>10 DEF HInv

LEMMA HInvStep ==
    ASSUME HInv, [Next]_vars
    PROVE  HInv'
  <1>1. CASE \E method \in Methods : CallMethod(method)
    BY <1>1, CallMethodKeeps
  <1>2. CASE Collective
    BY <1>2, CollectiveKeeps
  <1>3. ASSUME NEW r \in Ranks, RankStep(r) PROVE HInv'
    BY <1>3, MoveParamsKeeps, MoveOptimKeeps, WakeWeightsKeeps, WakeKVKeeps,
       PutToSleepKeeps, DrawKeeps, SetSleepKeeps DEF RankStep
  <1>4. CASE Stop
    BY <1>4, StopKeeps
  <1>5. CASE UNCHANGED vars
    <2>1. UNCHANGED <<config, call, todo, version, gpuVars, engineVars, rngVars>>
      BY <1>5 DEF vars
    <2>2. \A r \in Ranks : Left(r)' = Left(r)
      BY <2>1 DEF Left
    <2>3. HTypeOK' /\ ListInv'
      BY <2>1 DEF HInv, HTypeOK, ListInv, gpuVars, engineVars, rngVars
    <2>4. LeftInv'
      BY <2>1, <2>2 DEF HInv, LeftInv, Followed, Possible, Driver, VLLM, TwoStages
    <2>5. SameLeft(ShardKinds) /\ SameLeft(RngKinds) /\ SameLeft({"asleep"})
          /\ SameLeft(MemoryKinds) /\ SameLeft(EngineKinds)
      BY <2>2 DEF SameLeft
    <2> QED
      BY <2>1, <2>3, <2>4, <2>5, ShardKept, RngKept, SleepKept, MemoryKept, EngineKept
         DEF HInv, gpuVars, engineVars, rngVars
  <1> QED
    BY <1>1, <1>2, <1>3, <1>4, <1>5 DEF Next

-----------------------------------------------------------------------------
(***************************************************************************)
(* The theorems.                                                           *)
(***************************************************************************)

\* The inductive invariant holds in every behaviour of the workers.
THEOREM HybridInvariance == Spec => []HInv
  BY HInvInit, HInvStep, PTL DEF Spec

\* The steps before the one all ranks are at are done, on every rank.
LEMMA AtAll ==
    ASSUME HInv, NEW kind, Together(kind), NEW r \in Ranks
    PROVE  /\ kind \in Left(r) /\ kind \in Kinds
           /\ \A k \in Kinds : k \in Left(r) /\ k # kind => Pos(call, kind) < Pos(call, k)
           /\ RoleOf(r) = CallRole(call)
           /\ Followed(r) /\ Possible(kind, r)
  <1>1. InOrder(call, todo[r]) /\ todo[r] # <<>> /\ Head(todo[r])[1] = kind
    BY DEF HInv, ListInv, Together, AtStep
  <1>2. /\ kind \in Left(r) /\ kind \in Kinds
        /\ KindsOf(Tail(todo[r])) = Left(r) \ {kind}
        /\ \A k \in KindsOf(Tail(todo[r])) : Pos(call, kind) < Pos(call, k)
        /\ Head(todo[r])[2] = CallRole(call)
    BY <1>1, TailOfList DEF Left
  <1> QED
    BY <1>2 DEF RoleOf, HInv, LeftInv

\* Generation has its memory on every rank, the current weights where they are
\* brought to the engine, and no prefix of older ones where its cache is ever
\* reset (OnPolicy: the order of update_params, offload and wake_up in the
\* sharding managers), in every configuration.
THEOREM GenerationIsOnPolicy == Spec => []OnPolicy
  <1>1. HInv => OnPolicy
    <2> SUFFICES ASSUME HInv, Together("generate")
                 PROVE  /\ \A r \in Ranks : engineMem[r] /\ kv[r]
                        /\ Resynchronised => engineVersion = version
                        /\ CacheIsReset => cached \subseteq {version}
      BY DEF OnPolicy
    <2>2. /\ Pos(call, "sync") = 5 /\ Pos(call, "generate") = 10
          /\ Pos(call, "wakeWeights") = 4 /\ Pos(call, "wakeAll") = 4 /\ Pos(call, "wakeKV") = 7
      BY DEF Pos
    <2>3. \A r \in Ranks :
            /\ "generate" \in Left(r) /\ "sync" \notin Left(r)
            /\ {"wakeWeights", "wakeAll", "wakeKV"} \cap Left(r) = {}
      <3> TAKE r \in Ranks
      <3>1. {"sync", "wakeWeights", "wakeAll", "wakeKV"} \subseteq Kinds
        BY DEF Kinds
      <3> QED
        BY <2>2, <3>1, AtAll
    <2>4. (Resynchronised => engineVersion = version) /\ (CacheIsReset => cached = {})
      BY <2>3, RankZero DEF HInv, EngineInv
    <2>5. \A r \in Ranks : engineMem[r] /\ kv[r]
      BY <2>3, DriverIsRank DEF HInv, MemoryInv
    <2> QED
      BY <2>4, <2>5
  <1> QED
    BY <1>1, HybridInvariance, PTL

\* An update runs with its own model and optimizer state on the GPU and nothing
\* else (TrainsAlone: the loads and offloads of update_actor and update_critic,
\* and the engine put to sleep before them where free_cache_engine has it sleep).
THEOREM UpdatesTrainAlone == Spec => []TrainsAlone
  <1>1. HInv => TrainsAlone
    <2> SUFFICES ASSUME HInv, Together("update"), NEW r \in Ranks
                 PROVE  /\ params[<<RoleOf(r), r>>] = "gpu"
                        /\ optim[<<RoleOf(r), r>>] = "gpu"
                        /\ rng[r] = "train"
                        /\ config.freeCache => ~engineMem[r] /\ ~kv[r]
                        /\ \A role \in Roles \ {RoleOf(r)} :
                              /\ config.offloadParam => params[<<role, r>>] = "cpu"
                              /\ config.offloadOptim => optim[<<role, r>>] = "cpu"
      BY DEF TrainsAlone
    <2>1. \A q \in Ranks :
            /\ "update" \in Left(q)
            /\ "load" \notin Left(q) /\ "loadOptim" \notin Left(q)
            /\ RoleOf(q) = CallRole(call)
            /\ call \in {"update_actor", "update_critic"}
      <3> TAKE q \in Ranks
      <3>1. /\ Pos(call, "load") = 2 /\ Pos(call, "loadOptim") = 3 /\ Pos(call, "update") = 5
            /\ "load" \in Kinds /\ "loadOptim" \in Kinds
        BY DEF Pos, Kinds
      <3>2. Possible("update", q) /\ "update" \in Left(q)
        BY AtAll
      <3> QED
        BY <3>1, <3>2, AtAll DEF Possible
    <2>2. CallRole(call) \in Roles
      BY DEF CallRole, Roles
    <2>3. \A role \in Roles :
            /\ params[<<role, r>>] \in {"gpu", "cpu"}
            /\ optim[<<role, r>>] \in {"gpu", "cpu"}
      BY DEF HInv, HTypeOK
    <2>4. config.offloadParam => "offload" \in Left(r)
      BY <2>1 DEF HInv, LeftInv, Followed
    <2>5. params[<<RoleOf(r), r>>] = "gpu" /\ optim[<<RoleOf(r), r>>] = "gpu"
      BY <2>1, <2>2, <2>4 DEF HInv, ShardInv
    <2>6. \A role \in Roles \ {RoleOf(r)} :
            /\ config.offloadParam => params[<<role, r>>] = "cpu"
            /\ config.offloadOptim => optim[<<role, r>>] = "cpu"
      BY <2>1, <2>3 DEF HInv, ShardInv
    <2>7. \A q \in Ranks : "drawTrain" \notin Left(q) /\ "sleep" \notin Left(q)
      BY <2>1 DEF HInv, LeftInv, Possible, GenMethods
    <2>8. rng[r] = "train"
      BY <2>7 DEF HInv, RngInv
    <2>9. config.freeCache => ~engineMem[r] /\ ~kv[r]
      BY <2>1, <2>7, DriverIsRank DEF HInv, MemoryInv
    <2> QED
      BY <2>5, <2>6, <2>8, <2>9
  <1> QED
    BY <1>1, HybridInvariance, PTL

\* With every engine that is woken before it is put to sleep, generation draws
\* from the stream seeded for it and keeps the training stream apart
\* (SeededGeneration: the two slots of the sharding managers).
THEOREM GenerationIsSeeded == Spec => []SeededGeneration
  <1>1. HInv => SeededGeneration
    <2> SUFFICES ASSUME HInv, Together("generate"), WokenFirst, NEW r \in Ranks
                 PROVE  rng[r] = "gen" /\ torchSlot[r] = "train"
      BY DEF SeededGeneration, WokenFirst
    <2>1. Pos(call, "drawGen") = 8 /\ Pos(call, "generate") = 10 /\ "drawGen" \in Kinds
      BY DEF Pos, Kinds
    <2>2. "drawGen" \notin Left(r) /\ "generate" \in Left(r) /\ Followed(r)
      BY <2>1, AtAll
    <2>3. "drawTrain" \in Left(r)
      BY <2>2 DEF Followed, WokenFirst
    <2> QED
      BY <2>2, <2>3 DEF HInv, RngInv
  <1> QED
    BY <1>1, HybridInvariance, PTL

\* The KV cache gets its memory back only after the parameters have left the
\* GPU, on every rank whose engine wakes in two stages (KVCacheAfterOffload:
\* the order of offload and wake_up(tags=["kv_cache"])).
THEOREM CacheWakesAfterOffload == Spec => KVCacheAfterOffload
  <1> DEFINE Step == \A r \in Ranks :
               /\ config.offloadParam
               /\ VLLM \/ (config.multiStage /\ ~config.megatron /\ r = 0)
               /\ ~kv[r] /\ kv'[r]
               => \A role \in Roles : params[<<role, r>>] = "cpu"
  <1>1. ASSUME HInv, Next PROVE Step
    <2> SUFFICES ASSUME NEW r \in Ranks, NEW role \in Roles, config.offloadParam,
                        VLLM \/ (config.multiStage /\ ~config.megatron /\ r = 0),
                        ~kv[r], kv'[r]
                 PROVE  params[<<role, r>>] = "cpu"
      OBVIOUS
    <2>1. TwoStages /\ Driver(r) = r
      BY DEF TwoStages, Driver
    <2>2. kv' # kv
      OBVIOUS
    <2>3. PICK q \in Ranks : WakeWeights(q) \/ WakeKV(q) \/ PutToSleep(q)
      BY <2>2, <1>1 DEF Next, Collective, RankStep, CallMethod, Stop, SyncWeights,
         RolloutGenerate, ActorForward, CriticForward, SaveShards, ReadOnly, UpdatePolicy,
         UpdateValues, Restore, LoadModel, OffloadModel, MoveParams, LoadOptimizer,
         OffloadOptimizer, MoveOptim, DrawGen, DrawTrain, Awake, Asleep, SetSleep,
         engineVars
    <2>4. ~PutToSleep(q)
      BY DEF PutToSleep
    <2>5. ~WakeWeights(q)
      <3> SUFFICES ASSUME WakeWeights(q) PROVE FALSE
        OBVIOUS
      <3>1. ~VLLM /\ kv' = [p \in Ranks |-> AtStep(q, "wakeAll")]
        BY <2>2 DEF WakeWeights
      <3>2. AtStep(q, "wakeAll")
        BY <3>1
      <3>3. "wakeAll" \in Left(q)
        BY <1>1, <3>2, RankTakes, TailOfList DEF HInv, ListInv, AtStep, Left
      <3> QED
        BY <1>1, <2>1, <3>3 DEF HInv, LeftInv, Possible
    <2>6. AtStep(q, "wakeKV") /\ kv' = [p \in Ranks |-> kv[p] \/ p \in Reach(q)]
      BY <2>3, <2>4, <2>5 DEF WakeKV
    <2>7. r \in Reach(q)
      BY <2>6
    <2>8. /\ "wakeKV" \in Left(q)
          /\ \A k \in Left(q) \ {"wakeKV"} : Pos(call, "wakeKV") < Pos(call, k)
      <3>1. InOrder(call, todo[q]) /\ todo[q] # <<>> /\ Head(todo[q])[1] = "wakeKV"
        BY <1>1, <2>6 DEF HInv, ListInv, AtStep
      <3> QED
        BY <3>1, TailOfList DEF Left
    <2>9. q = r
      BY <1>1, <2>1, <2>7, <2>8, ReachIsDriven
    <2>10. "offload" \notin Left(r)
      <3>1. Pos(call, "wakeKV") = 7 /\ Pos(call, "offload") = 6
        BY DEF Pos
      <3> QED
        BY <2>8, <2>9, <3>1
    <2>11. params[<<role, r>>] # "gpu"
      BY <1>1, <2>10 DEF HInv, ShardInv
    <2> QED
      BY <1>1, <2>11 DEF HInv, HTypeOK
  <1>2. ASSUME HInv, UNCHANGED vars PROVE Step
    BY <1>2 DEF vars, engineVars
  <1>3. HInv /\ [Next]_vars => [Step]_vars
    BY <1>1
  <1> HIDE DEF Step
  <1>4. Spec => [][Step]_vars
    BY <1>3, HybridInvariance, PTL DEF Spec
  <1> QED
    BY <1>4 DEF KVCacheAfterOffload, Step
=============================================================================
