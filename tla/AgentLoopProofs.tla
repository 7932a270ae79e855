---------------------------- MODULE AgentLoopProofs ----------------------------
(***************************************************************************)
(* Proofs about AgentLoop: for every number of prompts, workers, servers,  *)
(* turns and tool calls, the trainer gets its rows in the order of the     *)
(* prompts (RowsComeInOrder), the mask of each row marks the model's       *)
(* tokens, of which the last one is one (MasksMarkTheModel), and a         *)
(* conversation keeps its server while the cache has room for those that   *)
(* asked since (SessionsStick).                                            *)
(*                                                                         *)
(* RowInv is the invariant of a conversation: its mask follows its tokens, *)
(* its last token is the model's whenever it may end, and no tool's token  *)
(* stands at or behind the end of the response, so that the cut does not   *)
(* leave one at the end.  BatchInv is the driver's: what is padded, cut,   *)
(* put together and unpadded keeps its order by the lemmas about the       *)
(* operators of DataProto that come first.  CacheInv is the invariant of   *)
(* request_id_to_server: an entry names the server of the last turn, and   *)
(* those used after it are of requests that the history counts, so that    *)
(* one which falls out has a cache of them behind it.                      *)
(***************************************************************************)
EXTENDS AgentLoop, TLAPS, SequenceTheorems, FiniteSetTheorems

-----------------------------------------------------------------------------
(***************************************************************************)
(* The operators of DataProto, for data of every length and every number   *)
(* of chunks: what is padded is unpadded to what it was, a padded batch    *)
(* can be cut, and what is cut is put together again.                      *)
(***************************************************************************)

\* Division with remainder.
LEMMA DivMod ==
    ASSUME NEW x \in Nat, NEW d \in Nat \ {0}
    PROVE  x \div d \in Nat /\ x % d \in 0 .. d - 1 /\ x = ((x \div d) * d) + (x % d)
  <1> DEFINE q == x \div d
             r == x % d
  <1>1. \A k, l \in Int : k = x \div d /\ l = x % d => x = d * k + l
    BY SMTT(30)
  <1>2. q \in Nat /\ r \in 0 .. d - 1
    BY SMTT(30)
  <1>3. x = d * q + r
    <2>1. q \in Int /\ r \in Int /\ q = x \div d /\ r = x % d
      BY <1>2
    <2> HIDE DEF q, r
    <2> QED
      BY <1>1, <2>1
  <1> HIDE DEF q, r
  <1>4. d * q = q * d
    BY <1>2
  <1>5. x = q * d + r
    BY <1>3, <1>4
  <1> QED
    BY <1>2, <1>5 DEF q, r

\* What is added to reach a divisor reaches it.
LEMMA PadReachesDivisor ==
    ASSUME NEW x \in Nat, NEW d \in Nat \ {0}
    PROVE  (x + ((d - (x % d)) % d)) % d = 0
  BY SMTT(30)

\* An index into n parts of d elements is in one of them.
LEMMA PartOfIndex ==
    ASSUME NEW d \in Nat \ {0}, NEW n \in Nat, NEW x \in 0 .. n * d - 1
    PROVE  x \div d \in 0 .. n - 1
  <1> DEFINE q == x \div d
             r == x % d
  <1>1. q \in Nat /\ r \in 0 .. d - 1 /\ x = q * d + r
    <2>1. x \in Nat
      OBVIOUS
    <2> QED
      BY <2>1, DivMod, ZenonT(30)
  <1> HIDE DEF q, r
  <1>2. q < n
    <2> SUFFICES ASSUME q >= n PROVE FALSE
      BY <1>1
    <2>1. q * d >= n * d
      BY <1>1
    <2> QED
      BY <1>1, <2>1
  <1> QED
    BY <1>1, <1>2 DEF q

\* pad_dataproto_to_divisor adds fewer rows than a chunk would have, and
\* leaves the others where they are.
LEMMA PadProperties ==
    ASSUME NEW S, NEW data \in Seq(S), NEW divisor \in Nat \ {0}, Len(data) > 0
    PROVE  /\ PadSize(data, divisor) \in 0 .. divisor - 1
           /\ PadToDivisor(data, divisor) \in Seq(S)
           /\ Len(PadToDivisor(data, divisor)) = Len(data) + PadSize(data, divisor)
           /\ \A i \in 1 .. Len(data) : PadToDivisor(data, divisor)[i] = data[i]
  <1> DEFINE n == Len(data)
             k == PadSize(data, divisor)
             padded == PadToDivisor(data, divisor)
  <1>1. n \in Nat \ {0} /\ \A i \in 1 .. n : data[i] \in S
    OBVIOUS
  <1>2. k = (divisor - (n % divisor)) % divisor
    BY DEF PadSize
  <1>3. padded = [i \in 1 .. n + k |-> data[((i - 1) % n) + 1]]
    BY DEF PadToDivisor
  <1> HIDE DEF n, k, padded
  <1>4. k \in 0 .. divisor - 1
    <2>1. n % divisor \in 0 .. divisor - 1
      BY <1>1, DivMod
    <2>2. divisor - (n % divisor) \in Nat
      BY <2>1
    <2> QED
      BY <1>2, <2>2, DivMod
  <1>5. ASSUME NEW i \in 1 .. n + k PROVE ((i - 1) % n) + 1 \in 1 .. n
    <2>1. i - 1 \in Nat
      BY <1>1, <1>4
    <2>2. (i - 1) % n \in 0 .. n - 1
      BY <1>1, <2>1, DivMod
    <2> QED
      BY <1>1, <2>2
  <1>6. padded \in Seq(S) /\ Len(padded) = n + k
    <2>1. n + k \in Nat
      BY <1>1, <1>4
    <2>2. \A i \in 1 .. n + k : data[((i - 1) % n) + 1] \in S
      BY <1>1, <1>5
    <2> QED
      BY <1>3, <2>1, <2>2
  <1>7. ASSUME NEW i \in 1 .. n PROVE padded[i] = data[i]
    <2>1. i - 1 \in Nat /\ i - 1 < n /\ i \in 1 .. n + k
      BY <1>1, <1>4
    <2>2. (i - 1) % n = i - 1
      BY <1>1, <2>1, SMTT(30)
    <2> QED
      BY <1>3, <2>1, <2>2
  <1> QED
    BY <1>4, <1>6, <1>7 DEF n, k, padded

\* A padded batch can be cut into as many chunks as it was padded for.
THEOREM PaddedCanBeChunked ==
    ASSUME NEW S, NEW data \in Seq(S), NEW divisor \in Nat \ {0}, Len(data) > 0
    PROVE  CanChunk(PadToDivisor(data, divisor), divisor)
  <1> DEFINE n == Len(data)
  <1>1. n \in Nat /\ PadSize(data, divisor) = (divisor - (n % divisor)) % divisor
    BY DEF PadSize
  <1>2. Len(PadToDivisor(data, divisor)) = n + PadSize(data, divisor)
    BY PadProperties
  <1> HIDE DEF n
  <1>3. (n + ((divisor - (n % divisor)) % divisor)) % divisor = 0
    BY <1>1, PadReachesDivisor
  <1> QED
    BY <1>1, <1>2, <1>3 DEF CanChunk

\* unpad_dataproto takes off what pad_dataproto_to_divisor added.
THEOREM UnpadUndoesPad ==
    ASSUME NEW S, NEW data \in Seq(S), NEW divisor \in Nat \ {0}, Len(data) > 0
    PROVE  Unpad(PadToDivisor(data, divisor), PadSize(data, divisor)) = data
  <1> DEFINE n == Len(data)
             k == PadSize(data, divisor)
             padded == PadToDivisor(data, divisor)
             result == SubSeq(padded, 1, n)
  <1>1. /\ n \in Nat /\ k \in Nat /\ padded \in Seq(S) /\ Len(padded) = n + k
        /\ \A i \in 1 .. n : padded[i] = data[i] /\ data[i] \in S
    <2>1. n \in Nat /\ \A i \in 1 .. n : data[i] \in S
      OBVIOUS
    <2>2. k \in 0 .. divisor - 1 /\ padded \in Seq(S) /\ Len(padded) = n + k
      BY PadProperties
    <2>3. \A i \in 1 .. n : padded[i] = data[i]
      BY PadProperties
    <2> HIDE DEF k, padded, n
    <2> QED
      BY <2>1, <2>2, <2>3
  <1>2. Unpad(padded, k) = result
    <2>1. Unpad(padded, k) = SubSeq(padded, 1, Len(padded) - k)
      BY DEF Unpad
    <2> HIDE DEF n, k, padded
    <2>2. Len(padded) - k = n
      BY <1>1
    <2> QED
      BY <2>1, <2>2
  <1> HIDE DEF k, padded
  <1>3. /\ result \in Seq(S) /\ Len(result) = n
        /\ \A i \in 1 .. n : result[i] = data[i]
    <2>1. 1 \in Int /\ n \in Int /\ \A i \in 1 .. n : padded[i] \in S
      BY <1>1
    <2>2. /\ result \in Seq(S) /\ Len(result) = IF 1 <= n THEN n - 1 + 1 ELSE 0
          /\ \A i \in 1 .. n - 1 + 1 : result[i] = padded[1 + i - 1]
      BY <2>1, SubSeqProperties
    <2> HIDE DEF result, n
    <2> QED
      BY <1>1, <2>2
  <1> HIDE DEF result
  <1>4. result = data
    BY <1>3
  <1> QED
    BY <1>2, <1>4 DEF k, padded

\* DataProto.concat puts together what DataProto.chunk has cut.
THEOREM ConcatUndoesChunk ==
    ASSUME NEW S, NEW data \in Seq(S), NEW chunks \in Nat \ {0},
           Len(data) > 0, CanChunk(data, chunks)
    PROVE  Concat(Chunk(data, chunks)) = data
  <1> DEFINE n == Len(data)
             size == n \div chunks
             parts == Chunk(data, chunks)
             part(c) == SubSeq(data, (c - 1) * size + 1, c * size)
  <1>1. n \in Nat /\ n > 0 /\ \A i \in 1 .. n : data[i] \in S
    OBVIOUS
  <1>2. size \in Nat /\ size * chunks = n /\ size > 0
    <2>1. size \in Nat /\ n = size * chunks + (n % chunks) /\ n % chunks = 0
      BY <1>1, DivMod DEF CanChunk
    <2> HIDE DEF size, n
    <2> QED
      BY <1>1, <2>1
  <1>3. parts = [c \in 1 .. chunks |-> part(c)]
    BY DEF Chunk
  <1> HIDE DEF n, size, parts
  <1>4. ASSUME NEW c \in 1 .. chunks
        PROVE  /\ Len(part(c)) = size
               /\ \A j \in 1 .. size : part(c)[j] = data[(c - 1) * size + j]
    <2> DEFINE from == (c - 1) * size
    <2>1. from \in Nat /\ c * size = from + size
      BY <1>2
    <2>2. c * size <= n
      <3>1. c * size <= chunks * size
        BY <1>2
      <3>2. chunks * size = size * chunks
        BY <1>2
      <3> QED
        BY <1>2, <3>1, <3>2
    <2> HIDE DEF from
    <2>3. \A i \in from + 1 .. from + size : data[i] \in S
      BY <1>1, <1>2, <2>1, <2>2
    <2>4. /\ Len(SubSeq(data, from + 1, from + size)) =
                IF from + 1 <= from + size THEN (from + size) - (from + 1) + 1 ELSE 0
          /\ \A i \in 1 .. (from + size) - (from + 1) + 1 :
                SubSeq(data, from + 1, from + size)[i] = data[from + 1 + i - 1]
      <3>1. from + 1 \in Int /\ from + size \in Int
        BY <1>2, <2>1
      <3> QED
        BY <2>3, <3>1, SubSeqProperties
    <2>5. part(c) = SubSeq(data, from + 1, from + size)
      BY <2>1 DEF from
    <2> HIDE DEF part
    <2>6. /\ Len(part(c)) = size
          /\ \A j \in 1 .. size : part(c)[j] = data[from + j]
      BY <1>2, <2>1, <2>4, <2>5
    <2> QED
      BY <2>6 DEF from
  <1> HIDE DEF part
  <1>5. Len(parts) = chunks /\ Len(parts[1]) = size
    BY <1>3, <1>4
  <1>6. ASSUME NEW i \in 1 .. chunks * size
        PROVE  parts[(i - 1) \div size + 1][((i - 1) % size) + 1] = data[i]
    <2> DEFINE q == (i - 1) \div size
               r == (i - 1) % size
    <2>1. i - 1 \in Nat /\ i - 1 \in 0 .. chunks * size - 1 /\ size \in Nat \ {0}
      BY <1>2
    <2>2. q \in Nat /\ r \in 0 .. size - 1 /\ i - 1 = q * size + r
      BY <2>1, DivMod, ZenonT(30)
    <2>3. q \in 0 .. chunks - 1
      BY <2>1, PartOfIndex
    <2> HIDE DEF q, r
    <2>4. parts[q + 1] = part(q + 1) /\ q + 1 \in 1 .. chunks
      BY <1>3, <2>3
    <2>5. part(q + 1)[r + 1] = data[(q + 1 - 1) * size + (r + 1)]
      BY <1>2, <1>4, <2>2, <2>4
    <2>6. (q + 1 - 1) * size + (r + 1) = i
      <3>1. q + 1 - 1 = q
        BY <2>2
      <3> QED
        BY <2>1, <2>2, <3>1
    <2> QED
      BY <2>4, <2>5, <2>6 DEF q, r
  <1>7. Concat(parts) = [i \in 1 .. chunks * size |-> data[i]]
    BY <1>5, <1>6 DEF Concat
  <1>8. chunks * size = n
    BY <1>2
  <1>9. data = [i \in 1 .. n |-> data[i]]
    BY DEF n
  <1> QED
    BY <1>7, <1>8, <1>9 DEF parts

-----------------------------------------------------------------------------
Kinds == {"model", "tool"}
Weight(kind) == IF kind = "model" THEN 1 ELSE 0

\* Tokens and mask of a response.
Marked(s, m) ==
    /\ s \in Seq(Kinds) /\ m \in Seq({0, 1}) /\ Len(m) = Len(s)
    /\ \A i \in 1 .. Len(s) : m[i] = Weight(s[i])
    /\ \A i \in 1 .. Len(s) : s[i] = "tool" => i < ResponseLength

EndsWithModel(s) == Len(s) > 0 /\ s[Len(s)] = "model"

RowInv(t) ==
    /\ Marked(content[t], mask[t])
    /\ users[t] \in Nat /\ assistants[t] \in Nat
    /\ pc[t] \in {"parse", "tools", "done"} => EndsWithModel(content[t])

\* What MaskMarksModel asks of a row.
Outputs ==
    {row \in [prompt : Nat, content : Seq(Kinds), mask : Seq({0, 1}), turns : Nat] :
        /\ Len(row.content) \in 1 .. ResponseLength
        /\ row.mask = [k \in DOMAIN row.content |-> IF row.content[k] = "model" THEN 1 ELSE 0]
        /\ row.content[Len(row.content)] = "model"}

BatchInv ==
    /\ job \in Jobs
    /\ phase \in {"pad", "wake", "run", "raised", "unpad", "done"}
    /\ phase # "pad" => rows = PadToDivisor(Prompts, job.workers)
    /\ phase = "run" => DOMAIN pc = DOMAIN rows
    /\ phase \notin {"unpad", "done"} => output = <<>>
    /\ phase = "unpad" => /\ output \in Seq(Outputs) /\ Len(output) = Len(rows)
                          /\ \A i \in 1 .. Len(rows) : output[i].prompt = rows[i]
    /\ phase = "done" => /\ output \in Seq(Outputs) /\ Len(output) = job.prompts
                         /\ \A i \in 1 .. job.prompts : output[i].prompt = i

Conversations ==
    /\ DOMAIN content = Tasks /\ DOMAIN mask = Tasks
    /\ DOMAIN users = Tasks /\ DOMAIN assistants = Tasks
    /\ \A t \in Tasks : RowInv(t)

AInv == BatchInv /\ Conversations

-----------------------------------------------------------------------------
(* The turns of a conversation.                                            *)

LEMMA ResponseIsPositive == ResponseLength \in Nat \ {0}
  BY AgentAssumption

LEMMA RepeatIsSeq ==
    ASSUME NEW S, NEW value \in S, NEW n \in Nat
    PROVE  /\ Repeat(value, n) \in Seq(S)
           /\ Len(Repeat(value, n)) = n
           /\ \A i \in 1 .. n : Repeat(value, n)[i] = value
  BY DEF Repeat

LEMMA ConcatIsSeq ==
    ASSUME NEW S, NEW s \in Seq(S), NEW t \in Seq(S)
    PROVE  /\ s \o t \in Seq(S)
           /\ Len(s \o t) = Len(s) + Len(t)
           /\ \A i \in 1 .. Len(s) + Len(t) :
                 (s \o t)[i] = IF i <= Len(s) THEN s[i] ELSE t[i - Len(s)]
  BY ConcatProperties

\* A turn keeps a response marked; the tools' turn must end before the response.
LEMMA GrowMarked ==
    ASSUME NEW s, NEW m, Marked(s, m), NEW kind \in Kinds, NEW n \in Nat,
           kind = "tool" => Len(m) + n < ResponseLength
    PROVE  /\ Marked(s \o Repeat(kind, n), m \o Repeat(Weight(kind), n))
           /\ n > 0 /\ kind = "model" => EndsWithModel(s \o Repeat(kind, n))
  <1> DEFINE t == Repeat(kind, n)
             l == Repeat(Weight(kind), n)
             u == s \o t
             v == m \o l
             len == Len(s)
  <1>1. /\ t \in Seq(Kinds) /\ Len(t) = n /\ \A i \in 1 .. n : t[i] = kind
        /\ l \in Seq({0, 1}) /\ Len(l) = n /\ \A i \in 1 .. n : l[i] = Weight(kind)
    <2>1. kind \in Kinds /\ Weight(kind) \in {0, 1} /\ n \in Nat
      BY DEF Weight
    <2> QED
      BY <2>1, RepeatIsSeq, ZenonT(30)
  <1> HIDE DEF t, l
  <1>2. /\ s \in Seq(Kinds) /\ m \in Seq({0, 1}) /\ Len(m) = len /\ len \in Nat
        /\ \A i \in 1 .. len : m[i] = Weight(s[i])
        /\ \A i \in 1 .. len : s[i] = "tool" => i < ResponseLength
        /\ kind = "tool" => len + n < ResponseLength
    BY DEF Marked
  <1>3. /\ u \in Seq(Kinds) /\ Len(u) = len + n
        /\ \A i \in 1 .. len + n : u[i] = IF i <= len THEN s[i] ELSE t[i - len]
    <2>1. s \in Seq(Kinds) /\ t \in Seq(Kinds)
      BY <1>1, <1>2
    <2>2. /\ s \o t \in Seq(Kinds)
          /\ Len(s \o t) = Len(s) + Len(t)
          /\ \A i \in 1 .. Len(s) + Len(t) :
                (s \o t)[i] = IF i <= Len(s) THEN s[i] ELSE t[i - Len(s)]
      BY <2>1, ConcatIsSeq
    <2>3. Len(s) = len /\ Len(t) = n
      BY <1>1, <1>2
    <2> QED
      BY <2>2, <2>3
  <1>4. /\ v \in Seq({0, 1}) /\ Len(v) = len + n
        /\ \A i \in 1 .. len + n : v[i] = IF i <= len THEN m[i] ELSE l[i - len]
    <2>1. m \in Seq({0, 1}) /\ l \in Seq({0, 1})
      BY <1>1, <1>2
    <2>2. /\ m \o l \in Seq({0, 1})
          /\ Len(m \o l) = Len(m) + Len(l)
          /\ \A i \in 1 .. Len(m) + Len(l) :
                (m \o l)[i] = IF i <= Len(m) THEN m[i] ELSE l[i - Len(m)]
      BY <2>1, ConcatIsSeq
    <2>3. Len(m) = len /\ Len(l) = n
      BY <1>1, <1>2
    <2> QED
      BY <2>2, <2>3
  <1> HIDE DEF u, v, len
  <1>5. ASSUME NEW i \in 1 .. len + n
        PROVE  /\ v[i] = Weight(u[i])
               /\ u[i] = "tool" => i < ResponseLength
               /\ i > len => u[i] = kind
    <2>1. CASE i <= len
      <3>1. i \in 1 .. len /\ u[i] = s[i] /\ v[i] = m[i]
        BY <1>2, <1>3, <1>4, <2>1
      <3> QED
        BY <1>2, <2>1, <3>1
    <2>2. CASE i > len
      <3>1. i - len \in 1 .. n /\ ~(i <= len)
        BY <1>2, <2>2
      <3>2. u[i] = kind /\ v[i] = Weight(kind)
        BY <1>1, <1>3, <1>4, <3>1
      <3>3. kind = "tool" => i < ResponseLength
        BY <1>2, ResponseIsPositive
      <3> QED
        BY <3>2, <3>3
    <2> QED
      BY <1>2, <2>1, <2>2
  <1>6. Marked(u, v)
    BY <1>3, <1>4, <1>5 DEF Marked
  <1>7. ASSUME n > 0, kind = "model" PROVE EndsWithModel(u)
    <2>1. len + n \in 1 .. len + n /\ len + n > len /\ len + n > 0
      BY <1>2, <1>7
    <2> QED
      BY <1>3, <1>5, <1>7, <2>1 DEF EndsWithModel
  <1> QED
    BY <1>6, <1>7 DEF t, l, u, v

\* The cut leaves the model's token at the end: a tool's one stands before the
\* end of the response.
LEMMA CutIsMarked ==
    ASSUME NEW s, NEW m, Marked(s, m), EndsWithModel(s)
    PROVE  /\ Cut(s) \in Seq(Kinds) /\ Cut(m) \in Seq({0, 1})
           /\ Len(Cut(s)) \in 1 .. ResponseLength
           /\ Cut(m) = [k \in DOMAIN Cut(s) |-> IF Cut(s)[k] = "model" THEN 1 ELSE 0]
           /\ Cut(s)[Len(Cut(s))] = "model"
  <1> DEFINE len == Len(s)
             k == IF len > ResponseLength THEN ResponseLength ELSE len
             a == SubSeq(s, 1, k)
             b == SubSeq(m, 1, k)
  <1>1. /\ s \in Seq(Kinds) /\ m \in Seq({0, 1}) /\ Len(m) = len /\ len \in Nat /\ len > 0
        /\ \A i \in 1 .. len : m[i] = Weight(s[i])
        /\ \A i \in 1 .. len : s[i] = "tool" => i < ResponseLength
        /\ s[len] = "model"
    BY DEF Marked, EndsWithModel
  <1>2. Cut(s) = a /\ Cut(m) = b
    BY <1>1 DEF Cut
  <1> HIDE DEF len
  <1>3. k \in 1 .. ResponseLength /\ k <= len /\ (k = len \/ k = ResponseLength)
    BY <1>1, ResponseIsPositive
  <1> HIDE DEF k
  <1>4. /\ a \in Seq(Kinds) /\ Len(a) = k /\ \A i \in 1 .. k : a[i] = s[i]
    <2>1. 1 \in Int /\ k \in Int /\ \A i \in 1 .. k : s[i] \in Kinds
      <3>1. \A i \in 1 .. len : s[i] \in Kinds
        BY <1>1 DEF len
      <3> QED
        BY <1>1, <1>3, <3>1, ResponseIsPositive
    <2>2. /\ a \in Seq(Kinds) /\ Len(a) = IF 1 <= k THEN k - 1 + 1 ELSE 0
          /\ \A i \in 1 .. k - 1 + 1 : a[i] = s[1 + i - 1]
      BY <2>1, SubSeqProperties
    <2> HIDE DEF a
    <2> QED
      BY <1>3, <2>1, <2>2, ResponseIsPositive
  <1>5. /\ b \in Seq({0, 1}) /\ Len(b) = k /\ \A i \in 1 .. k : b[i] = m[i]
    <2>1. 1 \in Int /\ k \in Int /\ \A i \in 1 .. k : m[i] \in {0, 1}
      <3>1. \A i \in 1 .. len : m[i] \in {0, 1}
        BY <1>1
      <3> QED
        BY <1>1, <1>3, <3>1, ResponseIsPositive
    <2>2. /\ b \in Seq({0, 1}) /\ Len(b) = IF 1 <= k THEN k - 1 + 1 ELSE 0
          /\ \A i \in 1 .. k - 1 + 1 : b[i] = m[1 + i - 1]
      BY <2>1, SubSeqProperties
    <2> HIDE DEF b
    <2> QED
      BY <1>3, <2>1, <2>2, ResponseIsPositive
  <1> HIDE DEF a, b
  <1>6. \A i \in 1 .. k : b[i] = IF a[i] = "model" THEN 1 ELSE 0
    <2> TAKE i \in 1 .. k
    <2>1. i \in 1 .. len
      BY <1>1, <1>3, ResponseIsPositive
    <2> QED
      BY <1>1, <1>4, <1>5, <2>1 DEF Weight
  <1>7. a[k] = "model"
    <2>1. k \in 1 .. k /\ k \in 1 .. len
      BY <1>1, <1>3, ResponseIsPositive
    <2>2. s[k] \in Kinds
      BY <1>4, <2>1 DEF Kinds
    <2>3. CASE k = len
      BY <1>1, <1>4, <2>1, <2>3
    <2>4. CASE k = ResponseLength
      <3>1. s[k] # "tool"
        BY <1>1, <2>1, <2>4, ResponseIsPositive
      <3> QED
        BY <1>4, <2>1, <2>2, <3>1 DEF Kinds
    <2> QED
      BY <1>3, <2>3, <2>4
  <1>8. b = [i \in DOMAIN a |-> IF a[i] = "model" THEN 1 ELSE 0]
    <2>1. b = [i \in 1 .. k |-> b[i]] /\ DOMAIN a = 1 .. k
      BY <1>4, <1>5
    <2> QED
      BY <1>6, <2>1
  <1> QED
    BY <1>2, <1>3, <1>4, <1>5, <1>7, <1>8

-----------------------------------------------------------------------------
(* The steps of a conversation.                                            *)

\* A step of one conversation that the driver does not see.
LEMMA TurnInv ==
    ASSUME AInv, NEW t \in Tasks, UNCHANGED driverVars, NEW label,
           pc' = [pc EXCEPT ![t] = label],
           DOMAIN content' = Tasks, DOMAIN mask' = Tasks,
           DOMAIN users' = Tasks, DOMAIN assistants' = Tasks,
           RowInv(t)',
           \A u \in Tasks \ {t} :
              /\ content'[u] = content[u] /\ mask'[u] = mask[u]
              /\ users'[u] = users[u] /\ assistants'[u] = assistants[u]
    PROVE  AInv'
  <1>1. DOMAIN pc' = DOMAIN pc
    OBVIOUS
  <1>2. BatchInv'
    BY <1>1 DEF AInv, BatchInv, driverVars, Prompts
  <1>3. ASSUME NEW u \in Tasks \ {t} PROVE RowInv(u)'
    <2>1. pc'[u] = pc[u]
      BY DEF Tasks
    <2> QED
      BY <2>1 DEF AInv, Conversations, RowInv
  <1>4. Conversations'
    BY <1>1, <1>3 DEF Conversations, Tasks
  <1> QED
    BY <1>2, <1>4 DEF AInv

\* A conversation asks its server, or fails.
LEMMA AskedInv ==
    ASSUME AInv, NEW t \in Tasks, ChooseSticky(t) \/ ChooseLeastLoaded(t) \/ GenerateRaises(t)
    PROVE  AInv'
  <1>1. PICK label \in {"generating", "raised"} : pc' = [pc EXCEPT ![t] = label]
    BY DEF ChooseSticky, ChooseLeastLoaded, Asked, GenerateRaises, Goto
  <1>2. UNCHANGED <<driverVars, content, mask, users, assistants>>
    BY DEF ChooseSticky, ChooseLeastLoaded, Asked, GenerateRaises
  <1>3. RowInv(t)'
    BY <1>1, <1>2 DEF AInv, Conversations, RowInv, Tasks
  <1> QED
    BY <1>1, <1>2, <1>3, TurnInv DEF AInv, Conversations

\* The model's turn.
LEMMA GeneratedInv ==
    ASSUME AInv, NEW t \in Tasks, Generated(t)
    PROVE  AInv'
  <1>1. PICK n \in TurnTokens :
           /\ content' = [content EXCEPT ![t] = @ \o Repeat("model", n)]
           /\ mask' = [mask EXCEPT ![t] = @ \o Repeat(1, n)]
    BY DEF Generated
  <1>2. n \in Nat /\ n > 0
    BY AgentAssumption
  <1>3. "model" \in Kinds /\ Weight("model") = 1
    BY DEF Kinds, Weight
  <1> DEFINE s == content[t] \o Repeat("model", n)
             m == mask[t] \o Repeat(1, n)
  <1>4. Marked(s, m) /\ EndsWithModel(s)
    <2>1. Marked(content[t], mask[t])
      BY DEF AInv, Conversations, RowInv
    <2>2. /\ Marked(content[t] \o Repeat("model", n), mask[t] \o Repeat(Weight("model"), n))
          /\ EndsWithModel(content[t] \o Repeat("model", n))
      BY <1>2, <1>3, <2>1, GrowMarked
    <2> QED
      BY <1>3, <2>2
  <1>5. content'[t] = s /\ mask'[t] = m
    BY <1>1 DEF AInv, Conversations
  <1> HIDE DEF s, m
  <1>6. /\ assistants' = [assistants EXCEPT ![t] = @ + 1] /\ users' = users
        /\ UNCHANGED driverVars
        /\ \E label : pc' = [pc EXCEPT ![t] = label]
    BY DEF Generated, Goto
  <1>7. RowInv(t)'
    BY <1>4, <1>5, <1>6 DEF AInv, Conversations, RowInv
  <1> QED
    BY <1>1, <1>6, <1>7, TurnInv DEF AInv, Conversations

\* A turn is parsed when the model wrote it.
LEMMA ParseCallsInv ==
    ASSUME AInv, NEW t \in Tasks, ParseCalls(t)
    PROVE  AInv'
  <1>1. /\ pc[t] = "parse"
        /\ \E label : pc' = [pc EXCEPT ![t] = label]
        /\ UNCHANGED <<driverVars, content, mask, users, assistants>>
    BY DEF ParseCalls, Goto
  <1>2. RowInv(t)'
    BY <1>1 DEF AInv, Conversations, RowInv
  <1> QED
    BY <1>1, <1>2, TurnInv DEF AInv, Conversations

\* The tools' turn, or the end because one failed or there is no room for it.
LEMMA AppendAnswersInv ==
    ASSUME AInv, NEW t \in Tasks, AppendAnswers(t)
    PROVE  AInv'
  <1>1. /\ pc[t] = "tools" /\ UNCHANGED <<driverVars, assistants>>
        /\ Marked(content[t], mask[t]) /\ users[t] \in Nat
    BY DEF AppendAnswers, AInv, Conversations, RowInv
  <1>2. PICK n \in TurnTokens :
           IF (\E c \in DOMAIN calls[t] : calls[t][c] = "error") \/ NoRoomFor(t, n)
           THEN Goto(t, "done") /\ UNCHANGED <<content, mask, users>>
           ELSE /\ content' = [content EXCEPT ![t] = @ \o Repeat("tool", n)]
                /\ mask' = [mask EXCEPT ![t] = @ \o Repeat(0, n)]
                /\ users' = [users EXCEPT ![t] = @ + 1]
                /\ Goto(t, "ask")
    BY DEF AppendAnswers
  <1>3. CASE Goto(t, "done") /\ UNCHANGED <<content, mask, users>>
    <2>1. RowInv(t)'
      BY <1>1, <1>3 DEF AInv, Conversations, RowInv
    <2> QED
      BY <1>1, <1>3, <2>1, TurnInv DEF AInv, Conversations, Goto
  <1>4. CASE /\ ~NoRoomFor(t, n)
             /\ content' = [content EXCEPT ![t] = @ \o Repeat("tool", n)]
             /\ mask' = [mask EXCEPT ![t] = @ \o Repeat(0, n)]
             /\ users' = [users EXCEPT ![t] = @ + 1]
             /\ Goto(t, "ask")
    <2> DEFINE s == content[t] \o Repeat("tool", n)
               m == mask[t] \o Repeat(0, n)
    <2>1. n \in Nat /\ "tool" \in Kinds /\ Weight("tool") = 0
      BY AgentAssumption DEF Kinds, Weight
    <2>2. Len(mask[t]) + n < ResponseLength
      BY <1>1, <1>4, <2>1, ResponseIsPositive DEF NoRoomFor, Marked
    <2>3. Marked(s, m)
      <3>1. Marked(content[t] \o Repeat("tool", n), mask[t] \o Repeat(Weight("tool"), n))
        BY <1>1, <2>1, <2>2, GrowMarked
      <3> QED
        BY <2>1, <3>1
    <2>4. content'[t] = s /\ mask'[t] = m /\ users'[t] \in Nat /\ pc'[t] = "ask"
      BY <1>1, <1>4 DEF AInv, Conversations, Goto, Tasks
    <2> HIDE DEF s, m
    <2>5. RowInv(t)'
      BY <1>1, <2>3, <2>4 DEF AInv, Conversations, RowInv
    <2> QED
      BY <1>1, <1>4, <2>5, TurnInv DEF AInv, Conversations, Goto
  <1> QED
    BY <1>2, <1>3, <1>4

\* What the calls of a tool do leaves the rows alone.
LEMMA ToolCallInv ==
    ASSUME AInv,
           \/ \E t \in Tasks : \E c \in DOMAIN calls[t] : ToolCall(t, c)
           \/ ReleaseToken \/ UNCHANGED vars
    PROVE  AInv'
  <1>1. UNCHANGED <<driverVars, pc, content, mask, users, assistants>>
    BY DEF ToolCall, CreateTool, ToolRaises, AnswerAtOnce, StartSearch, Acquire, SearchEnds,
       ReleaseInstance, CallStep, ReleaseToken, vars, convVars
  <1> QED
    BY <1>1 DEF AInv, BatchInv, Conversations, RowInv, driverVars, Prompts, Tasks

-----------------------------------------------------------------------------
(* The steps of the driver.                                                *)

LEMMA PromptsAreSeq ==
    ASSUME job \in Jobs
    PROVE  /\ job.prompts \in Nat \ {0} /\ job.workers \in Nat \ {0}
           /\ Prompts \in Seq(Nat) /\ Len(Prompts) = job.prompts /\ Len(Prompts) > 0
           /\ \A i \in 1 .. job.prompts : Prompts[i] = i
  <1>1. job \in JobSet
    BY AgentAssumption
  <1>2. job.prompts \in Nat \ {0} /\ job.workers \in Nat \ {0}
    BY <1>1 DEF JobSet
  <1> QED
    BY <1>2 DEF Prompts

\* The padded batch has the prompts in front, and can be cut.
LEMMA RowsAreSeq ==
    ASSUME job \in Jobs, rows = PadToDivisor(Prompts, job.workers)
    PROVE  /\ rows \in Seq(Nat) /\ Len(rows) > 0 /\ CanChunk(rows, job.workers)
           /\ PadSize(Prompts, job.workers) \in Nat
           /\ Len(rows) = job.prompts + PadSize(Prompts, job.workers)
           /\ \A i \in 1 .. job.prompts : rows[i] = i
  <1> DEFINE n == job.prompts
             d == job.workers
             k == PadSize(Prompts, d)
  <1>1. /\ n \in Nat \ {0} /\ d \in Nat \ {0}
        /\ Prompts \in Seq(Nat) /\ Len(Prompts) = n /\ Len(Prompts) > 0
        /\ \A i \in 1 .. n : Prompts[i] = i
    BY PromptsAreSeq
  <1> HIDE DEF n, d
  <1>2. rows = PadToDivisor(Prompts, d)
    BY DEF d
  <1>3. k \in 0 .. d - 1 /\ rows \in Seq(Nat) /\ Len(rows) = Len(Prompts) + k
    BY <1>1, <1>2, PadProperties
  <1>4. \A i \in 1 .. Len(Prompts) : rows[i] = Prompts[i]
    <2>1. \A i \in 1 .. Len(Prompts) : PadToDivisor(Prompts, d)[i] = Prompts[i]
      BY <1>1, PadProperties, ZenonT(30)
    <2> QED
      BY <1>2, <2>1
  <1>5. CanChunk(rows, d)
    BY <1>1, <1>2, PaddedCanBeChunked
  <1> HIDE DEF k
  <1>6. /\ k \in Nat /\ Len(rows) = n + k /\ Len(rows) > 0
        /\ \A i \in 1 .. n : rows[i] = i
    BY <1>1, <1>3, <1>4
  <1> QED
    BY <1>3, <1>5, <1>6 DEF n, d, k

LEMMA DispatchInv ==
    ASSUME AInv, Dispatch
    PROVE  AInv'
  <1>1. /\ pc' = [t \in DOMAIN rows |-> "ask"]
        /\ content' = [t \in DOMAIN rows |-> <<>>] /\ mask' = [t \in DOMAIN rows |-> <<>>]
        /\ users' = [t \in DOMAIN rows |-> 0] /\ assistants' = [t \in DOMAIN rows |-> 0]
        /\ phase = "wake" /\ phase' = "run" /\ UNCHANGED <<job, rows, output>>
    BY DEF Dispatch
  <1>2. BatchInv'
    BY <1>1 DEF AInv, BatchInv, Prompts
  <1>3. Marked(<<>>, <<>>)
    BY DEF Marked
  <1>4. Conversations'
    BY <1>1, <1>3 DEF Conversations, RowInv, Tasks
  <1> QED
    BY <1>2, <1>4 DEF AInv

\* The outputs of the workers are put together in the order of their rows.
LEMMA CollectInv ==
    ASSUME AInv, Collect
    PROVE  AInv'
  <1>1. /\ phase = "run" /\ phase' = "unpad" /\ job \in Jobs
        /\ rows = PadToDivisor(Prompts, job.workers)
        /\ Tasks = DOMAIN rows /\ \A t \in Tasks : pc[t] = "done"
        /\ UNCHANGED <<job, rows, convVars>>
        /\ output' = Concat(Chunk([t \in Tasks |-> Result(t)], job.workers))
    BY DEF Collect, AInv, BatchInv, Tasks
  <1>2. /\ rows \in Seq(Nat) /\ Len(rows) > 0 /\ CanChunk(rows, job.workers)
        /\ job.workers \in Nat \ {0} /\ Tasks = 1 .. Len(rows)
    BY <1>1, RowsAreSeq, PromptsAreSeq
  <1> DEFINE outs == [t \in Tasks |-> Result(t)]
  <1>3. ASSUME NEW t \in Tasks PROVE Result(t) \in Outputs /\ Result(t).prompt = rows[t]
    <2>1. /\ Marked(content[t], mask[t]) /\ EndsWithModel(content[t])
          /\ users[t] \in Nat /\ assistants[t] \in Nat
      BY <1>1 DEF AInv, Conversations, RowInv
    <2> DEFINE c == Cut(content[t])
               m == Cut(mask[t])
               turns == users[t] + assistants[t] + 1
    <2>2. /\ c \in Seq(Kinds) /\ m \in Seq({0, 1}) /\ Len(c) \in 1 .. ResponseLength
          /\ m = [k \in DOMAIN c |-> IF c[k] = "model" THEN 1 ELSE 0]
          /\ c[Len(c)] = "model"
      BY <2>1, CutIsMarked
    <2>3. turns \in Nat /\ rows[t] \in Nat
      BY <1>2, <2>1
    <2>4. Result(t) = [prompt |-> rows[t], content |-> c, mask |-> m, turns |-> turns]
      BY DEF Result
    <2> HIDE DEF c, m, turns
    <2> QED
      BY <2>2, <2>3, <2>4 DEF Outputs
  <1>4. /\ outs \in Seq(Outputs) /\ Len(outs) = Len(rows)
        /\ \A t \in 1 .. Len(rows) : outs[t].prompt = rows[t]
    BY <1>2, <1>3
  <1>5. CanChunk(outs, job.workers)
    BY <1>2, <1>4 DEF CanChunk
  <1>6. output' = outs
    <2>1. output' = Concat(Chunk(outs, job.workers))
      BY <1>1
    <2>2. Len(outs) > 0
      BY <1>2, <1>4
    <2> HIDE DEF outs
    <2> QED
      BY <1>2, <1>4, <1>5, <2>1, <2>2, ConcatUndoesChunk
  <1> HIDE DEF outs
  <1>7. BatchInv'
    BY <1>1, <1>4, <1>6 DEF BatchInv, Prompts
  <1>8. Conversations'
    BY <1>1 DEF AInv, Conversations, RowInv, Tasks, convVars
  <1> QED
    BY <1>7, <1>8 DEF AInv

\* What is left after the padding is taken off are the rows of the prompts.
LEMMA UnpadOutputInv ==
    ASSUME AInv, UnpadOutput
    PROVE  AInv'
  <1>1. /\ phase = "unpad" /\ phase' = "done" /\ job \in Jobs
        /\ rows = PadToDivisor(Prompts, job.workers)
        /\ output \in Seq(Outputs) /\ Len(output) = Len(rows)
        /\ \A i \in 1 .. Len(rows) : output[i].prompt = rows[i]
        /\ UNCHANGED <<job, rows, convVars>>
        /\ output' = Unpad(output, PadSize(Prompts, job.workers))
    BY DEF UnpadOutput, AInv, BatchInv
  <1> DEFINE n == job.prompts
             k == PadSize(Prompts, job.workers)
             front == SubSeq(output, 1, n)
  <1>2. /\ n \in Nat /\ k \in Nat /\ Len(rows) = n + k
        /\ \A i \in 1 .. n : rows[i] = i
    BY <1>1, RowsAreSeq, PromptsAreSeq
  <1>3. output' = front
    <2>1. output' = SubSeq(output, 1, Len(output) - k)
      BY <1>1 DEF Unpad
    <2> HIDE DEF n, k
    <2>2. Len(output) - k = n
      BY <1>1, <1>2
    <2> QED
      BY <2>1, <2>2
  <1> HIDE DEF n, k
  <1>4. /\ front \in Seq(Outputs) /\ Len(front) = n
        /\ \A i \in 1 .. n : front[i].prompt = i
    <2>1. 1 \in Int /\ n \in Int /\ \A i \in 1 .. n : output[i] \in Outputs
      <3>1. \A i \in 1 .. Len(output) : output[i] \in Outputs
        BY <1>1
      <3> QED
        BY <1>1, <1>2, <3>1
    <2>2. /\ front \in Seq(Outputs) /\ Len(front) = IF 1 <= n THEN n - 1 + 1 ELSE 0
          /\ \A i \in 1 .. n - 1 + 1 : front[i] = output[1 + i - 1]
      BY <2>1, SubSeqProperties
    <2> HIDE DEF front
    <2>3. \A i \in 1 .. n : front[i] = output[i] /\ output[i].prompt = i
      BY <1>1, <1>2, <2>2
    <2> QED
      BY <1>2, <2>2, <2>3
  <1> HIDE DEF front
  <1>5. BatchInv'
    BY <1>1, <1>3, <1>4 DEF BatchInv, Prompts, n
  <1>6. Conversations'
    BY <1>1 DEF AInv, Conversations, RowInv, Tasks, convVars
  <1> QED
    BY <1>5, <1>6 DEF AInv

\* The batch is padded, or the call ends with an exception.
LEMMA OtherDriverInv ==
    ASSUME AInv, Pad \/ CallRaises
    PROVE  AInv'
  <1>1. /\ phase' # "pad" => rows' = PadToDivisor(Prompts, job.workers)
        /\ phase' \in {"wake", "raised"} /\ phase \in {"pad", "run"}
        /\ UNCHANGED <<job, output, convVars>>
    BY DEF Pad, CallRaises, AInv, BatchInv
  <1>2. BatchInv'
    BY <1>1 DEF AInv, BatchInv, Prompts
  <1>3. Conversations'
    BY <1>1 DEF AInv, Conversations, RowInv, Tasks, convVars
  <1> QED
    BY <1>2, <1>3 DEF AInv

-----------------------------------------------------------------------------

\* The invariant holds in every behaviour, whatever the constants are.
THEOREM AgentLoopInvariance == Spec => []AInv
  <1>1. Init => AInv
    BY DEF Init, AInv, BatchInv, Conversations, Tasks
  <1>2. AInv /\ [Next]_vars => AInv'
    <2> SUFFICES ASSUME AInv, [Next]_vars PROVE AInv'
      OBVIOUS
    <2>1. CASE Driver
      BY <2>1, DispatchInv, CollectInv, UnpadOutputInv, OtherDriverInv DEF Driver
    <2>2. ASSUME NEW t \in Tasks, Turn(t) \/ GenerateRaises(t) PROVE AInv'
      BY <2>2, AskedInv, GeneratedInv, ParseCallsInv, AppendAnswersInv DEF Turn
    <2>3. CASE \/ \E t \in Tasks : \E c \in DOMAIN calls[t] : ToolCall(t, c)
               \/ ReleaseToken \/ UNCHANGED vars
      BY <2>3, ToolCallInv
    <2> QED
      BY <2>1, <2>2, <2>3 DEF Next
  <1> QED
    BY <1>1, <1>2, PTL DEF Spec

\* Every prompt has its row, at its place, for every number of prompts and
\* workers, in whatever order the conversations end.
THEOREM RowsComeInOrder == Spec => []RowsInOrder
  <1>1. AInv => RowsInOrder
    <2> SUFFICES ASSUME AInv, phase = "done"
                 PROVE  [i \in DOMAIN output |-> output[i].prompt] = Prompts
      BY DEF RowsInOrder
    <2>1. /\ output \in Seq(Outputs) /\ Len(output) = job.prompts
          /\ \A i \in 1 .. job.prompts : output[i].prompt = i
      BY DEF AInv, BatchInv
    <2>2. DOMAIN output = 1 .. job.prompts
      BY <2>1
    <2> QED
      BY <2>1, <2>2 DEF Prompts
  <1> QED
    BY <1>1, AgentLoopInvariance, PTL

\* The loss of every row is taken on the model's tokens, and its last token is
\* one of them, for every limit on tokens, turns and calls.
THEOREM MasksMarkTheModel == Spec => []MaskMarksModel
  <1>1. AInv => MaskMarksModel
    <2> SUFFICES ASSUME AInv, NEW i \in DOMAIN output
                 PROVE  LET row == output[i] IN
                        /\ Len(row.content) \in 1 .. ResponseLength
                        /\ row.mask = [k \in DOMAIN row.content |->
                                          IF row.content[k] = "model" THEN 1 ELSE 0]
                        /\ row.content[Len(row.content)] = "model"
      BY DEF MaskMarksModel
    <2>1. output \in Seq(Outputs)
      BY DEF AInv, BatchInv
    <2>2. output[i] \in Outputs
      BY <2>1
    <2> QED
      BY <2>2 DEF Outputs
  <1> QED
    BY <1>1, AgentLoopInvariance, PTL

-----------------------------------------------------------------------------
(* The cache of sticky sessions.                                           *)

\* No request has two entries.
Distinct(q) == \A i, j \in 1 .. Len(q) : i # j => q[i][1] # q[j][1]

Missing(q, t) == \A i \in 1 .. Len(q) : q[i][1] # t

\* If t has an entry, it names server s, and the entries used after it are of
\* requests in later.
Remembers(q, t, s, later) ==
    \A i \in 1 .. Len(q) : q[i][1] = t =>
        /\ q[i][2] = s
        /\ \A j \in 1 .. Len(q) : j > i => q[j][1] \in later

\* An entry that was read moves to the end, past those behind it.
LEMMA TouchEntries ==
    ASSUME NEW S, NEW q \in Seq(S), NEW i \in 1 .. Len(q)
    PROVE  /\ Touch(q, i) \in Seq(S) /\ Len(Touch(q, i)) = Len(q)
           /\ \A j \in 1 .. Len(q) :
                 Touch(q, i)[j] = IF j < i THEN q[j] ELSE IF j < Len(q) THEN q[j + 1] ELSE q[i]
  <1> DEFINE n == Len(q)
             a == SubSeq(q, 1, i - 1)
             b == SubSeq(q, i + 1, n)
  <1>1. n \in Nat /\ i \in Nat /\ 1 <= i /\ i <= n /\ \A j \in 1 .. n : q[j] \in S
    OBVIOUS
  <1> HIDE DEF n
  <1>2. a \in Seq(S) /\ Len(a) = i - 1 /\ \A j \in 1 .. i - 1 : a[j] = q[j]
    <2>1. 1 \in Int /\ i - 1 \in Int /\ \A j \in 1 .. i - 1 : q[j] \in S
      BY <1>1
    <2>2. /\ a \in Seq(S) /\ Len(a) = IF 1 <= i - 1 THEN i - 1 - 1 + 1 ELSE 0
          /\ \A j \in 1 .. i - 1 - 1 + 1 : a[j] = q[1 + j - 1]
      BY <2>1, SubSeqProperties
    <2> HIDE DEF a
    <2> QED
      BY <1>1, <2>2
  <1>3. b \in Seq(S) /\ Len(b) = n - i /\ \A j \in 1 .. n - i : b[j] = q[i + j]
    <2>1. i + 1 \in Int /\ n \in Int /\ \A j \in i + 1 .. n : q[j] \in S
      BY <1>1
    <2>2. /\ b \in Seq(S) /\ Len(b) = IF i + 1 <= n THEN n - (i + 1) + 1 ELSE 0
          /\ \A j \in 1 .. n - (i + 1) + 1 : b[j] = q[i + 1 + j - 1]
      BY <2>1, SubSeqProperties
    <2> HIDE DEF b
    <2> QED
      BY <1>1, <2>2
  <1>4. Touch(q, i) = Append(a \o b, q[i])
    BY DEF Touch, n
  <1> HIDE DEF a, b
  <1>5. /\ a \o b \in Seq(S) /\ Len(a \o b) = n - 1
        /\ \A j \in 1 .. n - 1 : (a \o b)[j] = IF j < i THEN q[j] ELSE q[j + 1]
    <2>1. /\ a \o b \in Seq(S) /\ Len(a \o b) = Len(a) + Len(b)
          /\ \A j \in 1 .. Len(a) + Len(b) :
                (a \o b)[j] = IF j <= Len(a) THEN a[j] ELSE b[j - Len(a)]
      BY <1>2, <1>3, ConcatProperties
    <2>2. Len(a) + Len(b) = n - 1
      BY <1>1, <1>2, <1>3
    <2>3. ASSUME NEW j \in 1 .. n - 1 PROVE (a \o b)[j] = IF j < i THEN q[j] ELSE q[j + 1]
      <3>1. (a \o b)[j] = IF j <= i - 1 THEN a[j] ELSE b[j - (i - 1)]
        BY <1>2, <2>1, <2>2
      <3>2. CASE j < i
        BY <1>1, <1>2, <3>1, <3>2
      <3>3. CASE ~(j < i)
        <4>1. j - (i - 1) \in 1 .. n - i /\ i + (j - (i - 1)) = j + 1
          BY <1>1, <3>3
        <4>2. b[j - (i - 1)] = q[j + 1]
          BY <1>3, <4>1
        <4> QED
          BY <1>1, <3>1, <3>3, <4>2
      <3> QED
        BY <3>2, <3>3
    <2> QED
      BY <2>1, <2>2, <2>3
  <1>6. /\ Append(a \o b, q[i]) \in Seq(S) /\ Len(Append(a \o b, q[i])) = n - 1 + 1
        /\ \A j \in 1 .. n - 1 : Append(a \o b, q[i])[j] = (a \o b)[j]
        /\ Append(a \o b, q[i])[n - 1 + 1] = q[i]
    <2>1. a \o b \in Seq(S) /\ q[i] \in S
      BY <1>1, <1>5
    <2>2. /\ Append(a \o b, q[i]) \in Seq(S)
          /\ Len(Append(a \o b, q[i])) = Len(a \o b) + 1
          /\ \A j \in 1 .. Len(a \o b) : Append(a \o b, q[i])[j] = (a \o b)[j]
          /\ Append(a \o b, q[i])[Len(a \o b) + 1] = q[i]
      BY <2>1, AppendProperties
    <2> QED
      BY <1>5, <2>2
  <1>7. ASSUME NEW j \in 1 .. n
        PROVE  Touch(q, i)[j] = IF j < i THEN q[j] ELSE IF j < n THEN q[j + 1] ELSE q[i]
    <2>1. CASE j < n
      BY <1>1, <1>4, <1>5, <1>6, <2>1
    <2>2. CASE j = n
      <3>1. n - 1 + 1 = n /\ ~(n < i)
        BY <1>1
      <3> QED
        BY <1>4, <1>6, <2>2, <3>1
    <2> QED
      BY <1>1, <2>1, <2>2
  <1>8. n - 1 + 1 = n
    BY <1>1
  <1> QED
    BY <1>4, <1>6, <1>7, <1>8 DEF n

\* A new entry stands at the end; a full cache loses its first one.
Inserted(q, e, r) ==
    /\ Len(q) = MaxCacheSize =>
          Len(r) = Len(q) /\ \A j \in 1 .. Len(q) - 1 : r[j] = q[j + 1]
    /\ Len(q) # MaxCacheSize =>
          Len(r) = Len(q) + 1 /\ \A j \in 1 .. Len(q) : r[j] = q[j]
    /\ Len(r) <= MaxCacheSize /\ Len(r) > 0
    /\ r[Len(r)] = e

LEMMA InsertEntries ==
    ASSUME NEW S, NEW q \in Seq(S), NEW e \in S, Len(q) <= MaxCacheSize
    PROVE  Insert(q, e) \in Seq(S) /\ Inserted(q, e, Insert(q, e))
  <1>1. MaxCacheSize \in Nat \ {0} /\ Len(q) \in Nat
    BY AgentAssumption
  <1>2. CASE Len(q) = MaxCacheSize
    <2> DEFINE r == Tail(q)
    <2>1. r \in Seq(S) /\ Len(r) = Len(q) - 1 /\ \A j \in 1 .. Len(r) : r[j] = q[j + 1]
      <3>1. q # <<>>
        BY <1>1, <1>2
      <3> QED
        BY <3>1, HeadTailProperties
    <2>2. Insert(q, e) = Append(r, e)
      BY <1>2 DEF Insert
    <2> HIDE DEF r
    <2>3. /\ Append(r, e) \in Seq(S) /\ Len(Append(r, e)) = Len(r) + 1
          /\ \A j \in 1 .. Len(r) : Append(r, e)[j] = r[j]
          /\ Append(r, e)[Len(r) + 1] = e
      BY <2>1, AppendProperties
    <2> QED
      BY <1>1, <1>2, <2>1, <2>2, <2>3 DEF Inserted
  <1>3. CASE Len(q) # MaxCacheSize
    <2>1. Insert(q, e) = Append(q, e)
      BY <1>3 DEF Insert
    <2>2. /\ Append(q, e) \in Seq(S) /\ Len(Append(q, e)) = Len(q) + 1
          /\ \A j \in 1 .. Len(q) : Append(q, e)[j] = q[j]
          /\ Append(q, e)[Len(q) + 1] = e
      BY AppendProperties
    <2> QED
      BY <1>1, <1>3, <2>1, <2>2 DEF Inserted
  <1> QED
    BY <1>2, <1>3

\* A read of t's entry keeps what the cache remembers of the others, t being
\* used after all of them.
LEMMA TouchRemembers ==
    ASSUME NEW S, NEW q \in Seq(S), NEW i \in 1 .. Len(q), Distinct(q), NEW t, t = q[i][1]
    PROVE  /\ Distinct(Touch(q, i))
           /\ Remembers(Touch(q, i), t, q[i][2], {})
           /\ \A u : u # t => (Missing(Touch(q, i), u) => Missing(q, u))
           /\ \A u, s, later : u # t /\ Remembers(q, u, s, later)
                 => Remembers(Touch(q, i), u, s, later \cup {t})
  <1> DEFINE n == Len(q)
             p == Touch(q, i)
             from(j) == IF j < i THEN j ELSE IF j < n THEN j + 1 ELSE i
  <1>1. n \in Nat /\ i \in Nat /\ 1 <= i /\ i <= n
    OBVIOUS
  <1>2. /\ Len(p) = n
        /\ \A j \in 1 .. n : p[j] = IF j < i THEN q[j] ELSE IF j < n THEN q[j + 1] ELSE q[i]
    BY TouchEntries
  <1>3. \A j, k \in 1 .. n : j # k => q[j][1] # q[k][1]
    BY DEF Distinct
  <1> HIDE DEF n, p
  <1>4. /\ \A j \in 1 .. n : from(j) \in 1 .. n /\ p[j] = q[from(j)]
        /\ \A j, k \in 1 .. n : j # k => from(j) # from(k)
        /\ \A j, k \in 1 .. n : j < k /\ k < n => from(j) < from(k)
        /\ from(n) = i
        /\ \A j \in 1 .. n : from(j) = i => j = n
    BY <1>1, <1>2
  <1>5. \A k \in 1 .. n : \E j \in 1 .. n : from(j) = k
    <2>1. SUFFICES ASSUME NEW k \in 1 .. n PROVE \E j \in 1 .. n : from(j) = k
      OBVIOUS
    <2>2. CASE k < i
      BY <1>1, <2>2
    <2>3. CASE k = i
      BY <1>1, <1>4, <2>3
    <2>4. CASE k > i
      <3>1. k - 1 \in 1 .. n /\ from(k - 1) = k
        BY <1>1, <2>4
      <3> QED
        BY <3>1
    <2> QED
      BY <1>1, <2>2, <2>3, <2>4
  <1> HIDE DEF from
  <1>6. Distinct(p)
    <2>1. SUFFICES ASSUME NEW j \in 1 .. n, NEW k \in 1 .. n, j # k PROVE p[j][1] # p[k][1]
      BY <1>2 DEF Distinct
    <2>2. from(j) \in 1 .. n /\ from(k) \in 1 .. n /\ from(j) # from(k)
      BY <1>4, <2>1
    <2>3. q[from(j)][1] # q[from(k)][1]
      BY <1>3, <2>2
    <2> QED
      BY <1>4, <2>3
  <1>7. Remembers(p, t, q[i][2], {})
    <2>1. ASSUME NEW j \in 1 .. n, p[j][1] = t PROVE j = n
      <3>1. q[from(j)][1] = q[i][1]
        BY <1>4, <2>1
      <3>2. from(j) = i
        <4>1. from(j) \in 1 .. n
          BY <1>4
        <4>2. i \in 1 .. n
          BY <1>1
        <4> QED
          BY <1>3, <3>1, <4>1, <4>2, ZenonT(30)
      <3> QED
        BY <1>4, <3>2
    <2>2. p[n] = q[i] /\ n \in 1 .. n
      BY <1>1, <1>4
    <2>3. ASSUME NEW j \in 1 .. n, p[j][1] = t, NEW k \in 1 .. n PROVE ~(k > j)
      <3>1. j = n
        BY <2>1, <2>3
      <3> QED
        BY <1>1, <3>1
    <2> QED
      BY <1>2, <2>1, <2>2, <2>3 DEF Remembers
  <1>8. ASSUME NEW u, u # t, Missing(p, u) PROVE Missing(q, u)
    <2>1. SUFFICES ASSUME NEW k \in 1 .. n PROVE q[k][1] # u
      BY DEF Missing, n
    <2>2. PICK j \in 1 .. n : from(j) = k
      BY <1>5
    <2>3. p[j][1] # u
      BY <1>2, <1>8 DEF Missing
    <2> QED
      BY <1>4, <2>2, <2>3
  <1>9. ASSUME NEW u, NEW s, NEW later, u # t, Remembers(q, u, s, later)
        PROVE  Remembers(p, u, s, later \cup {t})
    <2>1. SUFFICES ASSUME NEW j \in 1 .. n, p[j][1] = u
                   PROVE  /\ p[j][2] = s
                          /\ \A k \in 1 .. n : k > j => p[k][1] \in later \cup {t}
      BY <1>2 DEF Remembers
    <2>2. /\ from(j) \in 1 .. n /\ q[from(j)][1] = u /\ p[j] = q[from(j)]
      BY <1>4, <2>1
    <2>3. /\ q[from(j)][2] = s
          /\ \A k \in 1 .. n : k > from(j) => q[k][1] \in later
      BY <1>9, <2>2 DEF Remembers, n
    <2>4. ASSUME NEW k \in 1 .. n, k > j PROVE p[k][1] \in later \cup {t}
      <3>1. CASE k = n
        BY <1>1, <1>4, <3>1
      <3>2. CASE k < n
        <4>1. j < k /\ from(j) < from(k) /\ from(k) \in 1 .. n /\ p[k] = q[from(k)]
          <5>1. j < k
            BY <2>4
          <5> QED
            BY <1>4, <3>2, <5>1
        <4>2. from(k) > from(j)
          BY <2>2, <4>1
        <4> QED
          BY <2>3, <4>1, <4>2
      <3> QED
        BY <1>1, <3>1, <3>2
    <2> QED
      BY <2>2, <2>3, <2>4
  <1> QED
    BY <1>6, <1>7, <1>8, <1>9 DEF p

\* A new entry for t keeps what the cache remembers of the others, but for the
\* one it takes the place of: since that was used, a full cache of others was.
LEMMA InsertRemembers ==
    ASSUME NEW S, NEW q \in Seq(S), NEW e \in S, Len(q) <= MaxCacheSize,
           Distinct(q), NEW t, t = e[1], Missing(q, t)
    PROVE  /\ Distinct(Insert(q, e))
           /\ Remembers(Insert(q, e), t, e[2], {})
           /\ \A u, s, later : u # t /\ Remembers(q, u, s, later)
                 => Remembers(Insert(q, e), u, s, later \cup {t})
           /\ \A u, s, later :
                 /\ u # t /\ Remembers(q, u, s, later) /\ IsFiniteSet(later)
                 /\ ~Missing(q, u) /\ Missing(Insert(q, e), u)
                 => Cardinality(later \cup {t}) >= MaxCacheSize
  <1> DEFINE n == Len(q)
             p == Insert(q, e)
             m == Len(p)
             from(j) == IF n = MaxCacheSize THEN j + 1 ELSE j
  <1>1. MaxCacheSize \in Nat \ {0} /\ n \in Nat /\ n <= MaxCacheSize
    BY AgentAssumption
  <1>2. /\ m = (IF n = MaxCacheSize THEN n ELSE n + 1) /\ m > 0
        /\ p[m] = e
        /\ \A j \in 1 .. m - 1 : p[j] = q[from(j)]
    <2>1. /\ n = MaxCacheSize => m = n /\ \A j \in 1 .. n - 1 : p[j] = q[j + 1]
          /\ n # MaxCacheSize => m = n + 1 /\ \A j \in 1 .. n : p[j] = q[j]
          /\ m > 0 /\ p[m] = e
      <3>1. Inserted(q, e, p)
        BY InsertEntries
      <3> HIDE DEF p
      <3> QED
        BY <3>1 DEF Inserted
    <2> HIDE DEF p, m, n
    <2>2. CASE n = MaxCacheSize
      BY <1>1, <2>1, <2>2
    <2>3. CASE n # MaxCacheSize
      <3>1. m - 1 = n
        BY <1>1, <2>1, <2>3
      <3> QED
        BY <2>1, <2>3, <3>1
    <2> QED
      BY <2>2, <2>3
  <1>3. /\ \A j \in 1 .. m - 1 : from(j) \in 1 .. n
        /\ \A j, k \in 1 .. m - 1 : j < k => from(j) < from(k)
        /\ \A j, k \in 1 .. m - 1 : j # k => from(j) # from(k)
        /\ n = MaxCacheSize => \A j \in 1 .. m - 1 : from(j) > 1
        /\ m \in Nat /\ m \in 1 .. m /\ \A j \in 1 .. m : j = m \/ j \in 1 .. m - 1
        /\ \A j \in 1 .. m - 1 : j < m /\ j \in 1 .. m
        /\ \A k \in 1 .. n : (n = MaxCacheSize /\ k = 1) \/ \E j \in 1 .. m - 1 : from(j) = k
    <2>1. ASSUME NEW k \in 1 .. n
          PROVE  (n = MaxCacheSize /\ k = 1) \/ \E j \in 1 .. m - 1 : from(j) = k
      <3>1. CASE n = MaxCacheSize
        <4>1. CASE k # 1
          <5>1. k - 1 \in 1 .. m - 1 /\ from(k - 1) = k
            BY <1>1, <1>2, <3>1, <4>1
          <5> QED
            BY <5>1
        <4> QED
          BY <3>1, <4>1
      <3>2. CASE n # MaxCacheSize
        <4>1. k \in 1 .. m - 1 /\ from(k) = k
          BY <1>1, <1>2, <3>2
        <4> QED
          BY <4>1
      <3> QED
        BY <3>1, <3>2
    <2>2. m \in Nat /\ m \in 1 .. m /\ \A j \in 1 .. m : j = m \/ j \in 1 .. m - 1
      BY <1>1, <1>2
    <2>3. \A j \in 1 .. m - 1 : from(j) \in 1 .. n
      BY <1>1, <1>2
    <2>4. /\ \A j, k \in 1 .. m - 1 : j < k => from(j) < from(k)
          /\ \A j, k \in 1 .. m - 1 : j # k => from(j) # from(k)
      BY <1>1, <1>2
    <2>5. n = MaxCacheSize => \A j \in 1 .. m - 1 : from(j) > 1
      BY <1>1, <1>2
    <2>6. \A j \in 1 .. m - 1 : j < m /\ j \in 1 .. m
      BY <2>2
    <2> HIDE DEF from, m, n, p
    <2> QED
      BY <2>1, <2>2, <2>3, <2>4, <2>5, <2>6, ZenonT(30)
  <1>4. /\ \A j, k \in 1 .. n : j # k => q[j][1] # q[k][1]
        /\ \A j \in 1 .. n : q[j][1] # t
    BY DEF Distinct, Missing
  <1> HIDE DEF n, p, m, from
  <1>5. ASSUME NEW j \in 1 .. m, NEW k \in 1 .. m, j # k PROVE p[j][1] # p[k][1]
    <2>1. ASSUME NEW l \in 1 .. m - 1 PROVE p[l][1] # p[m][1]
      <3>1. from(l) \in 1 .. n /\ p[l] = q[from(l)]
        BY <1>2, <1>3
      <3>2. q[from(l)][1] # t
        BY <1>4, <3>1
      <3> QED
        BY <1>2, <3>1, <3>2
    <2>2. CASE j = m \/ k = m
      BY <1>3, <1>5, <2>1, <2>2
    <2>3. CASE j \in 1 .. m - 1 /\ k \in 1 .. m - 1
      <3>1. from(j) \in 1 .. n /\ from(k) \in 1 .. n /\ from(j) # from(k)
        BY <1>3, <1>5, <2>3
      <3>2. q[from(j)][1] # q[from(k)][1]
        BY <1>4, <3>1
      <3> QED
        BY <1>2, <2>3, <3>2
    <2> QED
      BY <1>3, <2>2, <2>3
  <1>6. Distinct(p)
    BY <1>5 DEF Distinct, m
  <1>7. Remembers(p, t, e[2], {})
    <2>1. ASSUME NEW j \in 1 .. m, p[j][1] = t PROVE j = m
      <3>1. m \in 1 .. m /\ p[m][1] = t
        BY <1>2, <1>3
      <3> QED
        BY <1>5, <2>1, <3>1
    <2>2. ASSUME NEW j \in 1 .. m, p[j][1] = t, NEW k \in 1 .. m PROVE ~(k > j)
      <3>1. j = m
        BY <2>1, <2>2
      <3> QED
        BY <1>3, <3>1
    <2> QED
      BY <1>2, <2>1, <2>2 DEF Remembers, m
  <1>8. ASSUME NEW u, NEW s, NEW later, u # t, Remembers(q, u, s, later)
        PROVE  Remembers(p, u, s, later \cup {t})
    <2>1. SUFFICES ASSUME NEW j \in 1 .. m, p[j][1] = u
                   PROVE  /\ p[j][2] = s
                          /\ \A k \in 1 .. m : k > j => p[k][1] \in later \cup {t}
      BY DEF Remembers, m
    <2>2. j \in 1 .. m - 1 /\ from(j) \in 1 .. n /\ p[j] = q[from(j)]
      BY <1>2, <1>3, <1>8, <2>1
    <2>3. /\ q[from(j)][2] = s
          /\ \A k \in 1 .. n : k > from(j) => q[k][1] \in later
      BY <1>8, <2>1, <2>2 DEF Remembers, n
    <2>4. ASSUME NEW k \in 1 .. m, k > j PROVE p[k][1] \in later \cup {t}
      <3>1. CASE k = m
        BY <1>2, <3>1
      <3>2. CASE k \in 1 .. m - 1
        <4>1. j < k
          BY <2>4
        <4>2. from(j) < from(k) /\ from(k) \in 1 .. n /\ p[k] = q[from(k)]
          BY <1>2, <1>3, <2>2, <3>2, <4>1
        <4>3. from(k) > from(j)
          BY <2>2, <4>2
        <4> QED
          BY <2>3, <4>2, <4>3
      <3> QED
        BY <1>3, <3>1, <3>2
    <2> QED
      BY <2>2, <2>3, <2>4
  <1>9. ASSUME NEW u, NEW s, NEW later, u # t, Remembers(q, u, s, later), IsFiniteSet(later),
               ~Missing(q, u), Missing(p, u)
        PROVE  Cardinality(later \cup {t}) >= MaxCacheSize
    <2>1. PICK i \in 1 .. n : q[i][1] = u
      BY <1>9 DEF Missing, n
    <2>2. ~(\E j \in 1 .. m - 1 : from(j) = i)
      <3>1. SUFFICES ASSUME NEW j \in 1 .. m - 1, from(j) = i PROVE FALSE
        OBVIOUS
      <3>2. j \in 1 .. m
        BY <1>3
      <3>3. p[j] = q[i]
        BY <1>2, <3>1
      <3> QED
        BY <1>9, <2>1, <3>2, <3>3 DEF Missing, m
    <2>3. n = MaxCacheSize /\ i = 1
      BY <1>3, <2>2
    <2>4. \A k \in 1 .. n : k > 1 => q[k][1] \in later
      BY <1>9, <2>1, <2>3 DEF Remembers, n
    <2>5. \A j \in 1 .. m - 1 : p[j][1] \in later
      BY <1>2, <1>3, <2>3, <2>4
    <2>6. m = MaxCacheSize
      BY <1>2, <2>3
    <2> DEFINE key == [j \in 1 .. m |-> p[j][1]]
    <2>7. key \in [1 .. m -> later \cup {t}]
      BY <1>2, <1>3, <2>5
    <2>8. key \in Injection(1 .. m, later \cup {t})
      BY <1>5, <2>7 DEF Injection, IsInjective
    <2> HIDE DEF key
    <2>9. IsFiniteSet(later \cup {t})
      BY <1>9, FS_AddElement
    <2>10. Cardinality(1 .. m) <= Cardinality(later \cup {t})
      BY <2>8, <2>9, FS_Injection
    <2>11. Cardinality(1 .. m) = m
      <3>1. 1 \in Int /\ m \in Int
        BY <1>3
      <3>2. Cardinality(1 .. m) = IF 1 > m THEN 0 ELSE m - 1 + 1
        BY <3>1, FS_Interval
      <3> QED
        BY <1>2, <1>3, <3>2
    <2>12. Cardinality(later \cup {t}) \in Nat
      BY <2>9, FS_CardinalityType
    <2> QED
      BY <1>1, <2>6, <2>10, <2>11, <2>12
  <1> QED
    BY <1>6, <1>7, <1>8, <1>9 DEF p

CacheOK(q) ==
    /\ \E S : q \in Seq(S)
    /\ Len(q) <= MaxCacheSize
    /\ Distinct(q)

\* What the cache of its worker knows of a conversation: the server of its last
\* turn, unless as many others as the cache holds have asked since.
Sticks(t) ==
    /\ IsFiniteSet(others[t])
    /\ server[t] # NoServer =>
          /\ Remembers(lru[WorkerOf(t)], t, server[t], others[t])
          /\ Missing(lru[WorkerOf(t)], t) => Cardinality(others[t]) >= MaxCacheSize

CacheInv ==
    /\ DOMAIN lru = Workers
    /\ \A w \in Workers : CacheOK(lru[w])
    /\ phase \in {"pad", "wake"} => Tasks = {}
    /\ DOMAIN server = Tasks /\ DOMAIN others = Tasks
    /\ \A t \in Tasks : WorkerOf(t) \in Workers /\ Sticks(t)

\* A chunk of the rows is a worker's.
LEMMA WorkerIsAWorker ==
    ASSUME job \in Jobs, rows = PadToDivisor(Prompts, job.workers), NEW t \in DOMAIN rows
    PROVE  WorkerOf(t) \in Workers
  <1> DEFINE w == job.workers
             len == Len(rows)
             d == len \div w
  <1>1. /\ rows \in Seq(Nat) /\ len > 0 /\ len % w = 0 /\ w \in Nat \ {0}
        /\ len \in Nat /\ t \in 1 .. len
    <2>1. rows \in Seq(Nat) /\ Len(rows) > 0 /\ CanChunk(rows, job.workers)
      BY RowsAreSeq
    <2>2. job.workers \in Nat \ {0}
      BY PromptsAreSeq
    <2>3. Len(rows) \in Nat /\ t \in 1 .. Len(rows)
      BY <2>1
    <2> QED
      BY <2>1, <2>2, <2>3 DEF CanChunk
  <1>2. WorkerOf(t) = (t - 1) \div d + 1 /\ Workers = 1 .. w
    BY DEF WorkerOf, Workers
  <1> HIDE DEF w, len
  <1>3. d \in Nat /\ len = (d * w) + (len % w)
    <2>1. len \in Nat /\ w \in Nat \ {0}
      BY <1>1
    <2>2. len \div w \in Nat /\ len = ((len \div w) * w) + (len % w)
      BY <2>1, DivMod, ZenonT(30)
    <2> QED
      BY <2>2
  <1> HIDE DEF d
  <1>4. len = d * w
    BY <1>1, <1>3
  <1>5. d # 0
    <2> SUFFICES ASSUME d = 0 PROVE FALSE
      OBVIOUS
    <2>1. len = 0 * w
      BY <1>4
    <2> QED
      BY <1>1, <2>1
  <1>6. t - 1 \in 0 .. w * d - 1
    <2>1. w * d = len
      BY <1>1, <1>3, <1>4
    <2> QED
      BY <1>1, <2>1
  <1>7. (t - 1) \div d \in 0 .. w - 1
    BY <1>1, <1>3, <1>5, <1>6, PartOfIndex
  <1> QED
    BY <1>1, <1>2, <1>7

\* A step that touches no cache.
LEMMA OffCacheInv ==
    ASSUME CacheInv, UNCHANGED <<job, rows, routeVars>>, DOMAIN pc' = DOMAIN pc,
           phase' = phase \/ phase' \notin {"pad", "wake"}
    PROVE  CacheInv'
  BY DEF CacheInv, CacheOK, Sticks, WorkerOf, Workers, Tasks, routeVars

\* A request leaves its worker's cache with what it knew of the others.
LEMMA RequestInv ==
    ASSUME CacheInv, NEW t \in Tasks, NEW chosen, NEW p, Asked(t, chosen),
           lru' = [lru EXCEPT ![WorkerOf(t)] = p],
           CacheOK(p), ~Missing(p, t), Remembers(p, t, chosen, {}),
           \A u, s, later : u # t /\ Remembers(lru[WorkerOf(t)], u, s, later)
              => Remembers(p, u, s, later \cup {t}),
           \A u, s, later :
              /\ u # t /\ Remembers(lru[WorkerOf(t)], u, s, later) /\ IsFiniteSet(later)
              /\ ~Missing(lru[WorkerOf(t)], u) /\ Missing(p, u)
              => Cardinality(later \cup {t}) >= MaxCacheSize
    PROVE  CacheInv'
  <1> DEFINE w == WorkerOf(t)
  <1>1. /\ DOMAIN lru = Workers /\ w \in Workers
        /\ \A v \in Workers : CacheOK(lru[v])
        /\ phase \in {"pad", "wake"} => Tasks = {}
        /\ DOMAIN server = Tasks /\ DOMAIN others = Tasks
        /\ \A u \in Tasks : WorkerOf(u) \in Workers /\ Sticks(u)
    BY DEF CacheInv
  <1>2. /\ UNCHANGED <<job, rows, phase>> /\ Tasks' = Tasks /\ Workers' = Workers
        /\ \A u : WorkerOf(u)' = WorkerOf(u)
        /\ server' = [server EXCEPT ![t] = chosen]
        /\ others' = [u \in Tasks |-> IF u = t THEN {}
                                      ELSE IF WorkerOf(u) = w THEN others[u] \union {t}
                                      ELSE others[u]]
    BY DEF Asked, Goto, driverVars, Tasks, Workers, WorkerOf
  <1>3. /\ lru'[w] = p /\ \A v \in Workers : v # w => lru'[v] = lru[v]
        /\ DOMAIN lru' = Workers
    BY <1>1
  <1> HIDE DEF w
  <1>4. \A v \in Workers : CacheOK(lru'[v])
    BY <1>1, <1>3
  <1>5. Sticks(t)'
    <2>1. others'[t] = {} /\ server'[t] = chosen /\ WorkerOf(t)' = w
      <3>1. others'[t] = {}
        BY <1>2
      <3>2. server'[t] = chosen
        BY <1>1, <1>2
      <3>3. WorkerOf(t)' = w
        BY <1>2 DEF w
      <3> QED
        BY <3>1, <3>2, <3>3
    <2>2. IsFiniteSet({})
      BY FS_EmptySet
    <2> QED
      BY <1>3, <2>1, <2>2 DEF Sticks, Missing, Remembers
  <1>6. ASSUME NEW u \in Tasks, u # t PROVE Sticks(u)'
    <2>1. /\ server'[u] = server[u] /\ WorkerOf(u)' = WorkerOf(u) /\ WorkerOf(u) \in Workers
      BY <1>1, <1>2, <1>6
    <2>2. CASE WorkerOf(u) # w
      <3>1. others'[u] = others[u] /\ lru'[WorkerOf(u)] = lru[WorkerOf(u)]
        BY <1>2, <1>3, <1>6, <2>1, <2>2
      <3> QED
        BY <1>1, <2>1, <3>1 DEF Sticks, Missing, Remembers
    <2>3. CASE WorkerOf(u) = w
      <3>1. others'[u] = others[u] \cup {t} /\ lru'[WorkerOf(u)] = p
        BY <1>2, <1>3, <1>6, <2>3
      <3>2. /\ IsFiniteSet(others[u])
            /\ server[u] # NoServer =>
                  /\ Remembers(lru[w], u, server[u], others[u])
                  /\ Missing(lru[w], u) => Cardinality(others[u]) >= MaxCacheSize
        BY <1>1, <2>3 DEF Sticks
      <3>3. /\ IsFiniteSet(others[u] \cup {t})
            /\ Cardinality(others[u] \cup {t}) >= Cardinality(others[u])
            /\ Cardinality(others[u]) \in Nat /\ Cardinality(others[u] \cup {t}) \in Nat
        <4>1. IsFiniteSet(others[u] \cup {t})
          BY <3>2, FS_AddElement
        <4>2. others[u] \in SUBSET (others[u] \cup {t})
          OBVIOUS
        <4>3. Cardinality(others[u]) <= Cardinality(others[u] \cup {t})
          BY <4>1, <4>2, FS_Subset
        <4>4. Cardinality(others[u]) \in Nat /\ Cardinality(others[u] \cup {t}) \in Nat
          BY <3>2, <4>1, FS_CardinalityType
        <4> QED
          BY <4>1, <4>3, <4>4
      <3>4. ASSUME server[u] # NoServer
            PROVE  /\ Remembers(p, u, server[u], others[u] \cup {t})
                   /\ Missing(p, u) => Cardinality(others[u] \cup {t}) >= MaxCacheSize
        <4>1. Remembers(lru[w], u, server[u], others[u])
          BY <3>2, <3>4
        <4>2. Remembers(p, u, server[u], others[u] \cup {t})
          BY <1>6, <4>1 DEF w
        <4>3. ASSUME Missing(p, u) PROVE Cardinality(others[u] \cup {t}) >= MaxCacheSize
          <5>1. CASE Missing(lru[w], u)
            <6>1. Cardinality(others[u]) >= MaxCacheSize
              BY <3>2, <3>4, <5>1
            <6> QED
              BY <3>3, <6>1, AgentAssumption
          <5>2. CASE ~Missing(lru[w], u)
            BY <1>6, <3>2, <4>1, <4>3, <5>2 DEF w
          <5> QED
            BY <5>1, <5>2
        <4> QED
          BY <4>2, <4>3
      <3>5. /\ server[u] # NoServer =>
                  /\ Remembers(lru'[WorkerOf(u)'], u, server'[u], others'[u])
                  /\ Missing(lru'[WorkerOf(u)'], u) => Cardinality(others'[u]) >= MaxCacheSize
            /\ IsFiniteSet(others'[u])
        BY <2>1, <3>1, <3>3, <3>4
      <3> QED
        BY <2>1, <3>5 DEF Sticks, Missing, Remembers
    <2> QED
      BY <2>2, <2>3
  <1> QED
    BY <1>1, <1>2, <1>3, <1>4, <1>5, <1>6 DEF CacheInv, CacheOK, Distinct

\* A request whose server the cache knows.
LEMMA ChooseStickyInv ==
    ASSUME CacheInv, NEW t \in Tasks, ChooseSticky(t)
    PROVE  /\ CacheInv'
           /\ server[t] # NoServer => server'[t] = server[t]
  <1> DEFINE w == WorkerOf(t)
             q == lru[w]
  <1>1. PICK i \in IndexIn(w, t) :
           Asked(t, lru[w][i][2]) /\ lru' = [lru EXCEPT ![w] = Touch(@, i)]
    BY DEF ChooseSticky
  <1>2. w \in Workers /\ w \in DOMAIN lru /\ CacheOK(q) /\ DOMAIN server = Tasks /\ Sticks(t)
    BY DEF CacheInv
  <1>3. PICK S : q \in Seq(S)
    BY <1>2 DEF CacheOK
  <1>4. i \in 1 .. Len(q) /\ q[i][1] = t
    BY <1>1, <1>3 DEF IndexIn
  <1> DEFINE p == Touch(q, i)
  <1>5. lru' = [lru EXCEPT ![WorkerOf(t)] = p] /\ Asked(t, q[i][2])
    BY <1>1
  <1>6. Len(q) <= MaxCacheSize /\ Distinct(q) /\ Len(q) \in Nat
    BY <1>2, <1>3 DEF CacheOK
  <1> HIDE DEF w, q
  <1>7. /\ p \in Seq(S) /\ Len(p) = Len(q)
        /\ \A j \in 1 .. Len(q) :
              p[j] = IF j < i THEN q[j] ELSE IF j < Len(q) THEN q[j + 1] ELSE q[i]
    BY <1>3, <1>4, TouchEntries
  <1>8. /\ Distinct(p) /\ Remembers(p, t, q[i][2], {})
        /\ \A u : u # t => (Missing(p, u) => Missing(q, u))
        /\ \A u, s, later : u # t /\ Remembers(q, u, s, later)
              => Remembers(p, u, s, later \cup {t})
    BY <1>3, <1>4, <1>6, TouchRemembers
  <1>9. ~Missing(p, t)
    <2>1. Len(q) \in 1 .. Len(q) /\ ~(Len(q) < i) /\ ~(Len(q) < Len(q))
      BY <1>4, <1>6
    <2>2. p[Len(q)] = q[i]
      BY <1>7, <2>1
    <2> QED
      BY <1>4, <1>7, <2>1, <2>2 DEF Missing
  <1> HIDE DEF p
  <1>10. CacheOK(p)
    BY <1>6, <1>7, <1>8 DEF CacheOK
  <1>11. CacheInv'
    <2>1. /\ \A u, s, later : u # t /\ Remembers(lru[WorkerOf(t)], u, s, later)
                => Remembers(p, u, s, later \cup {t})
          /\ \A u, s, later :
                /\ u # t /\ Remembers(lru[WorkerOf(t)], u, s, later) /\ IsFiniteSet(later)
                /\ ~Missing(lru[WorkerOf(t)], u) /\ Missing(p, u)
                => Cardinality(later \cup {t}) >= MaxCacheSize
      BY <1>8 DEF q, w
    <2> QED
      BY <1>5, <1>8, <1>9, <1>10, <2>1, RequestInv
  <1>12. ASSUME server[t] # NoServer PROVE server'[t] = server[t]
    <2>1. server'[t] = q[i][2]
      BY <1>2, <1>5 DEF Asked
    <2>2. Remembers(q, t, server[t], others[t])
      BY <1>2, <1>12 DEF Sticks, q, w
    <2> QED
      BY <1>4, <2>1, <2>2 DEF Remembers
  <1> QED
    BY <1>11, <1>12

\* A request whose server it does not know.
LEMMA ChooseLeastLoadedInv ==
    ASSUME CacheInv, NEW t \in Tasks, ChooseLeastLoaded(t)
    PROVE  /\ CacheInv'
           /\ server[t] # NoServer => Cardinality(others[t]) >= MaxCacheSize
  <1> DEFINE w == WorkerOf(t)
             q == lru[w]
             chosen == LeastLoaded(w)
             e == <<t, chosen>>
  <1>1. /\ IndexIn(w, t) = {} /\ Asked(t, chosen)
        /\ lru' = [lru EXCEPT ![w] = Insert(@, e)]
    BY DEF ChooseLeastLoaded
  <1>2. w \in Workers /\ w \in DOMAIN lru /\ CacheOK(q) /\ Sticks(t)
    BY DEF CacheInv
  <1>3. PICK R : q \in Seq(R)
    BY <1>2 DEF CacheOK
  <1>4. Missing(q, t)
    BY <1>1, <1>3 DEF IndexIn, Missing
  <1> DEFINE p == Insert(q, e)
             S == R \cup {e}
  <1>5. lru' = [lru EXCEPT ![WorkerOf(t)] = p]
    BY <1>1
  <1>6. Len(q) <= MaxCacheSize /\ Distinct(q)
    BY <1>2 DEF CacheOK
  <1> HIDE DEF w, q, chosen
  <1>7. q \in Seq(S) /\ e \in S /\ t = e[1] /\ e[2] = chosen
    <2>1. R \subseteq S /\ e \in S
      OBVIOUS
    <2>2. q \in Seq(S)
      BY <1>3, <2>1, SeqMonotonic
    <2> QED
      BY <2>1, <2>2
  <1> HIDE DEF e, S
  <1>8. /\ p \in Seq(S) /\ Len(p) <= MaxCacheSize /\ Len(p) > 0 /\ p[Len(p)] = e
    BY <1>6, <1>7, InsertEntries DEF Inserted
  <1>9. /\ Distinct(p) /\ Remembers(p, t, e[2], {})
        /\ \A u, s, later : u # t /\ Remembers(q, u, s, later)
              => Remembers(p, u, s, later \cup {t})
        /\ \A u, s, later :
              /\ u # t /\ Remembers(q, u, s, later) /\ IsFiniteSet(later)
              /\ ~Missing(q, u) /\ Missing(p, u)
              => Cardinality(later \cup {t}) >= MaxCacheSize
    BY <1>4, <1>6, <1>7, InsertRemembers
  <1> HIDE DEF p
  <1>10. ~Missing(p, t)
    <2>1. Len(p) \in 1 .. Len(p)
      BY <1>8
    <2> QED
      BY <1>7, <1>8, <2>1 DEF Missing
  <1>11. CacheOK(p)
    BY <1>8, <1>9 DEF CacheOK
  <1>12. CacheInv'
    <2>1. /\ \A u, s, later : u # t /\ Remembers(lru[WorkerOf(t)], u, s, later)
                => Remembers(p, u, s, later \cup {t})
          /\ \A u, s, later :
                /\ u # t /\ Remembers(lru[WorkerOf(t)], u, s, later) /\ IsFiniteSet(later)
                /\ ~Missing(lru[WorkerOf(t)], u) /\ Missing(p, u)
                => Cardinality(later \cup {t}) >= MaxCacheSize
          /\ Remembers(p, t, chosen, {})
      BY <1>7, <1>9 DEF q, w
    <2> QED
      BY <1>1, <1>5, <1>10, <1>11, <2>1, RequestInv
  <1>13. server[t] # NoServer => Cardinality(others[t]) >= MaxCacheSize
    BY <1>2, <1>4 DEF Sticks, q, w
  <1> QED
    BY <1>12, <1>13

\* Every conversation starts without a server and, at once, with its worker.
LEMMA DispatchCacheInv ==
    ASSUME AInv, CacheInv, Dispatch
    PROVE  CacheInv'
  <1>1. /\ pc' = [t \in DOMAIN rows |-> "ask"] /\ Tasks = {}
        /\ server' = [t \in DOMAIN rows |-> NoServer]
        /\ others' = [t \in DOMAIN rows |-> {}]
        /\ phase = "wake" /\ phase' = "run" /\ UNCHANGED <<job, rows, lru>>
    BY DEF Dispatch, CacheInv
  <1>2. Tasks' = DOMAIN rows
    BY <1>1 DEF Tasks
  <1>3. ASSUME NEW t \in DOMAIN rows PROVE WorkerOf(t)' \in Workers'
    <2>1. WorkerOf(t) \in Workers
      BY <1>1, WorkerIsAWorker DEF AInv, BatchInv
    <2> QED
      BY <1>1, <2>1 DEF WorkerOf, Workers
  <1>4. ASSUME NEW t \in DOMAIN rows PROVE Sticks(t)'
    <2>1. server'[t] = NoServer /\ others'[t] = {} /\ IsFiniteSet({})
      BY <1>1, FS_EmptySet
    <2> QED
      BY <2>1 DEF Sticks
  <1>5. DOMAIN lru' = Workers' /\ \A w \in Workers' : CacheOK(lru'[w])
    BY <1>1 DEF CacheInv, Workers
  <1> QED
    BY <1>1, <1>2, <1>3, <1>4, <1>5 DEF CacheInv, CacheOK

\* The steps of the rest of a conversation and of the driver.
LEMMA ElsewhereCacheInv ==
    ASSUME CacheInv,
           \/ \E t \in Tasks : \/ Generated(t) \/ ParseCalls(t) \/ AppendAnswers(t)
                               \/ GenerateRaises(t)
                               \/ \E c \in DOMAIN calls[t] : ToolCall(t, c)
           \/ Collect \/ CallRaises \/ UnpadOutput \/ ReleaseToken \/ UNCHANGED vars
    PROVE  CacheInv' /\ UNCHANGED server
  <1>1. UNCHANGED routeVars /\ UNCHANGED <<job, rows>>
    BY DEF Generated, ParseCalls, AppendAnswers, GenerateRaises, ToolCall, CreateTool, ToolRaises,
       AnswerAtOnce, StartSearch, Acquire, SearchEnds, ReleaseInstance, CallStep, Collect,
       CallRaises, UnpadOutput, ReleaseToken, vars, driverVars
  <1>2. phase' = phase \/ phase' \notin {"pad", "wake"}
    BY DEF Generated, ParseCalls, AppendAnswers, GenerateRaises, ToolCall, CreateTool, ToolRaises,
       AnswerAtOnce, StartSearch, Acquire, SearchEnds, ReleaseInstance, CallStep, Collect,
       CallRaises, UnpadOutput, ReleaseToken, vars, driverVars
  <1>3. DOMAIN pc' = DOMAIN pc
    <2>1. CASE \E t \in Tasks : Generated(t)
      BY <2>1 DEF Generated, Goto
    <2>2. CASE \E t \in Tasks : ParseCalls(t)
      BY <2>2 DEF ParseCalls, Goto
    <2>3. CASE \E t \in Tasks : AppendAnswers(t)
      BY <2>3 DEF AppendAnswers, Goto
    <2>4. CASE \E t \in Tasks : GenerateRaises(t)
      BY <2>4 DEF GenerateRaises, Goto
    <2>5. CASE \E t \in Tasks : \E c \in DOMAIN calls[t] : ToolCall(t, c)
      BY <2>5 DEF ToolCall, CreateTool, ToolRaises, AnswerAtOnce, StartSearch, Acquire,
         SearchEnds, ReleaseInstance, CallStep
    <2>6. CASE Collect \/ CallRaises \/ UnpadOutput \/ ReleaseToken \/ UNCHANGED vars
      BY <2>6 DEF Collect, CallRaises, UnpadOutput, ReleaseToken, vars, convVars
    <2> QED
      BY <2>1, <2>2, <2>3, <2>4, <2>5, <2>6
  <1> QED
    BY <1>1, <1>2, <1>3, OffCacheInv DEF routeVars

LEMMA PadCacheInv ==
    ASSUME CacheInv, Pad
    PROVE  CacheInv' /\ UNCHANGED server
  <1>1. Tasks = {} /\ phase' = "wake" /\ UNCHANGED <<job, pc, lru, server, others>>
    BY DEF Pad, CacheInv, convVars, routeVars
  <1>2. Tasks' = {} /\ Workers' = Workers
    BY <1>1 DEF Tasks, Workers
  <1> QED
    BY <1>1, <1>2 DEF CacheInv, CacheOK

\* A step changes a server only for a request the cache has forgotten.
LEMMA CacheStep ==
    ASSUME AInv, CacheInv, [Next]_vars
    PROVE  /\ CacheInv'
           /\ \A t \in DOMAIN server : server[t] # NoServer /\ server'[t] # server[t]
                 => Cardinality(others[t]) >= MaxCacheSize
  <1>1. CASE Dispatch
    <2>1. DOMAIN server = {}
      BY <1>1 DEF Dispatch, CacheInv
    <2> QED
      BY <1>1, <2>1, DispatchCacheInv
  <1>2. ASSUME NEW t \in Tasks, ChooseSticky(t) \/ ChooseLeastLoaded(t)
        PROVE  /\ CacheInv'
               /\ \A u \in DOMAIN server : server[u] # NoServer /\ server'[u] # server[u]
                     => Cardinality(others[u]) >= MaxCacheSize
    <2>1. /\ CacheInv'
          /\ server[t] # NoServer /\ server'[t] # server[t]
             => Cardinality(others[t]) >= MaxCacheSize
      BY <1>2, ChooseStickyInv, ChooseLeastLoadedInv
    <2>2. \A u \in DOMAIN server : u # t => server'[u] = server[u]
      BY <1>2 DEF ChooseSticky, ChooseLeastLoaded, Asked
    <2> QED
      BY <2>1, <2>2
  <1>3. CASE Pad
    BY <1>3, PadCacheInv
  <1>4. CASE \/ \E t \in Tasks : \/ Generated(t) \/ ParseCalls(t) \/ AppendAnswers(t)
                                 \/ GenerateRaises(t)
                                 \/ \E c \in DOMAIN calls[t] : ToolCall(t, c)
             \/ Collect \/ CallRaises \/ UnpadOutput \/ ReleaseToken \/ UNCHANGED vars
    BY <1>4, ElsewhereCacheInv
  <1> QED
    BY <1>1, <1>2, <1>3, <1>4 DEF Next, Driver, Turn

\* A conversation stays with its server until as many others as the cache holds
\* have asked in its worker, for every size of the cache and every number of
\* prompts, workers and servers.
THEOREM SessionsStick == Spec => StickyUnlessEvicted
  <1>1. Init => CacheInv
    <2> SUFFICES ASSUME Init PROVE CacheInv
      OBVIOUS
    <2>1. /\ Tasks = {} /\ DOMAIN server = {} /\ DOMAIN others = {} /\ DOMAIN lru = Workers
          /\ \A w \in Workers : lru[w] = <<>>
      BY DEF Init, Tasks, Workers
    <2>2. CacheOK(<<>>)
      BY AgentAssumption DEF CacheOK, Distinct
    <2> QED
      BY <2>1, <2>2 DEF CacheInv
  <1>2. AInv /\ CacheInv /\ [Next]_vars => CacheInv'
    BY CacheStep
  <1>3. AInv /\ CacheInv /\ [Next]_vars
          => [\A t \in DOMAIN server : server[t] # NoServer /\ server'[t] # server[t]
                 => Cardinality(others[t]) >= MaxCacheSize]_vars
    BY CacheStep
  <1> QED
    BY <1>1, <1>2, <1>3, AgentLoopInvariance, PTL DEF Spec, StickyUnlessEvicted

================================================================================
