--------------------------- MODULE FlaggedSpansProofs ---------------------------
(***************************************************************************)
(* Proofs about FlaggedSpans: for any text, tokens, phrases, rows and      *)
(* penalty, every phrase of the response gets the range of its tokens, the *)
(* mask marks the tokens of the quoted phrases, and the penalty never      *)
(* favours a flagged token or turns the order of rewards around.           *)
(*                                                                         *)
(* The first part is about the offsets of one encoding: they rise, so the  *)
(* two ends of a range, each found by a search of its own, are in order.   *)
(* The second is the invariant of the scan, the third what the lists of    *)
(* spans, the mask and the advantages hold.                                *)
(***************************************************************************)
EXTENDS FlaggedSpans, FiniteSets, TLAPS, WellFoundedInduction, FiniteSetTheorems

NatOrder == {p \in Nat \X Nat : p[1] < p[2]}

\* Every set of natural numbers has a least element.
LEMMA LeastNumber ==
  ASSUME NEW T \in SUBSET Nat, T # {}
  PROVE  \E x \in T : \A y \in T : x <= y
  <1>1. IsWellFoundedOn(NatOrder, Nat)
    BY NatLessThanWellFounded DEF NatOrder, OpToRel
  <1>2. PICK x \in T : \A y \in T : ~ (<<y, x>> \in NatOrder)
    BY <1>1, WFMin
  <1>3. ASSUME NEW y \in T PROVE x <= y
    <2>1. <<y, x>> \in Nat \X Nat /\ <<y, x>>[1] = y /\ <<y, x>>[2] = x
      OBVIOUS
    <2>2. ~ (y < x)
      BY <1>2, <2>1 DEF NatOrder
    <2> QED
      BY <2>2
  <1> QED
    BY <1>3

-----------------------------------------------------------------------------
(* One encoding: o is the sequence of offsets, token j is o[j + 1].        *)

IndicesOf(o) == 0 .. (Len(o) - 1)

\* Two tokens, the first one before the second one.
InOrder(a, b) == a[1] <= b[1] /\ a[2] <= b[2] /\ a[2] - 1 <= b[1]

\* Every token is a piece of the text.
LEMMA TokenType ==
  ASSUME NEW o \in Finder!Encodings, NEW j \in IndicesOf(o)
  PROVE  /\ Len(o) \in Nat
         /\ o[j + 1] \in Finder!Pieces
         /\ o[j + 1][1] \in Nat /\ o[j + 1][2] \in Nat /\ o[j + 1][1] <= o[j + 1][2]
  <1>1. PICK m \in 0 .. MaxTokens : o \in [1 .. m -> Finder!Pieces]
    BY DEF Finder!Encodings, Finder!BoundedSeq, Finder!SeqOf
  <1>2. Len(o) = m /\ m \in Nat
    <2>1. o \in Seq(Finder!Pieces) /\ DOMAIN o = 1 .. m /\ m \in Nat
      BY <1>1, FlaggedAssumption
    <2> QED
      BY <2>1
  <1>3. j + 1 \in 1 .. m
    BY <1>2 DEF IndicesOf
  <1>4. o[j + 1] \in Finder!Pieces
    BY <1>1, <1>3
  <1> QED
    BY <1>2, <1>4, FlaggedAssumption DEF Finder!Pieces, Finder!Chars

LEMMA EncodingLength ==
  ASSUME NEW o \in Finder!Encodings
  PROVE  Len(o) \in Nat
  <1>1. PICK m \in 0 .. MaxTokens : o \in [1 .. m -> Finder!Pieces]
    BY DEF Finder!Encodings, Finder!BoundedSeq, Finder!SeqOf
  <1>2. o \in Seq(Finder!Pieces)
    BY <1>1, FlaggedAssumption
  <1> QED
    BY <1>2

\* The order of neighbours is the order of any two tokens.
LEMMA TokensInOrder ==
  ASSUME NEW o \in Finder!Encodings, NEW j \in IndicesOf(o), NEW k \in IndicesOf(o), j < k
  PROVE  InOrder(o[j + 1], o[k + 1])
  <1> DEFINE Wrong == {n \in IndicesOf(o) : j < n /\ ~ InOrder(o[j + 1], o[n + 1])}
  <1>0. Len(o) \in Nat
    BY EncodingLength
  <1>1. SUFFICES ASSUME Wrong # {} PROVE FALSE
    OBVIOUS
  <1>2. PICK n \in Wrong : \A m \in Wrong : n <= m
    <2>1. Wrong \in SUBSET Nat
      BY <1>0 DEF IndicesOf
    <2> HIDE DEF Wrong
    <2> QED
      BY <1>1, <2>1, LeastNumber
  <1>3. n \in IndicesOf(o) /\ j < n /\ ~ InOrder(o[j + 1], o[n + 1])
    BY <1>2
  <1>4. n \in Nat /\ j \in Nat /\ n - 1 \in IndicesOf(o) /\ n \in 1 .. (Len(o) - 1) /\ (n - 1) + 1 = n
    BY <1>0, <1>3 DEF IndicesOf
  <1>5. InOrder(o[n], o[n + 1])
    BY <1>4 DEF Finder!Encodings, InOrder
  <1>6. CASE j = n - 1
    BY <1>3, <1>4, <1>5, <1>6
  <1>7. CASE j < n - 1
    <2>1. n - 1 \notin Wrong
      BY <1>2, <1>4
    <2>2. InOrder(o[j + 1], o[n])
      BY <1>4, <1>7, <2>1
    <2>3. /\ o[j + 1][1] \in Nat /\ o[j + 1][2] \in Nat /\ o[j + 1][1] <= o[j + 1][2]
          /\ o[n][1] \in Nat /\ o[n][2] \in Nat /\ o[n][1] <= o[n][2]
          /\ o[n + 1][1] \in Nat /\ o[n + 1][2] \in Nat /\ o[n + 1][1] <= o[n + 1][2]
      <3>1. ASSUME NEW a \in IndicesOf(o)
            PROVE o[a + 1][1] \in Nat /\ o[a + 1][2] \in Nat /\ o[a + 1][1] <= o[a + 1][2]
        BY TokenType
      <3>2. o[(n - 1) + 1][1] \in Nat /\ o[(n - 1) + 1][2] \in Nat
            /\ o[(n - 1) + 1][1] <= o[(n - 1) + 1][2]
        BY <1>4, <3>1
      <3> QED
        BY <1>3, <1>4, <3>1, <3>2
    <2> QED
      BY <1>3, <1>5, <2>2, <2>3 DEF InOrder
  <1> QED
    BY <1>3, <1>4, <1>6, <1>7

\* So the two ends of the tokens rise, and two tokens share one character at most.
LEMMA OffsetsRise ==
  ASSUME NEW o \in Finder!Encodings, NEW j \in IndicesOf(o), NEW k \in IndicesOf(o), j <= k
  PROVE  /\ o[j + 1][1] \in Nat /\ o[j + 1][2] \in Nat /\ o[j + 1][1] <= o[j + 1][2]
         /\ o[k + 1][1] \in Nat /\ o[k + 1][2] \in Nat /\ o[k + 1][1] <= o[k + 1][2]
         /\ o[j + 1][1] <= o[k + 1][1] /\ o[j + 1][2] <= o[k + 1][2]
         /\ j < k => o[j + 1][2] - 1 <= o[k + 1][1]
  <1>1. /\ o[j + 1][1] \in Nat /\ o[j + 1][2] \in Nat /\ o[j + 1][1] <= o[j + 1][2]
        /\ o[k + 1][1] \in Nat /\ o[k + 1][2] \in Nat /\ o[k + 1][1] <= o[k + 1][2]
    BY TokenType
  <1>2. CASE j < k
    <2>1. InOrder(o[j + 1], o[k + 1])
      BY <1>2, TokensInOrder
    <2> QED
      BY <1>1, <2>1 DEF InOrder
  <1>3. j \in Int /\ k \in Int
    BY EncodingLength DEF IndicesOf
  <1>4. CASE j = k
    <2>1. ~ (j < k)
      BY <1>3, <1>4
    <2> QED
      BY <1>1, <1>4, <2>1
  <1> QED
    BY <1>2, <1>3, <1>4

-----------------------------------------------------------------------------
(* The range of one phrase p of the response.                              *)

Starts(t, p) == t[1] <= p[1] /\ p[1] < t[2]
Ends(t, p) == t[1] < p[2] /\ p[2] <= t[2]

\* What a search for the first token from a character on returns.
IsFirst(o, c, f) ==
    /\ f \in 0 .. Len(o)
    /\ \A k \in 0 .. (f - 1) : o[k + 1][1] < c
    /\ f < Len(o) => o[f + 1][1] >= c

\* Where a phrase begins, if the first n tokens were looked at.
IsStart(o, p, n, s) ==
    \/ /\ s \in 0 .. (n - 1)
       /\ Starts(o[s + 1], p)
       /\ \A j \in 0 .. (s - 1) : ~ Starts(o[j + 1], p)
    \/ /\ \A j \in 0 .. (n - 1) : ~ Starts(o[j + 1], p)
       /\ IsFirst(o, p[1], s)

\* Where it ends, if n tokens were looked at.
IsEnd(o, p, n, e) ==
    /\ \A j \in 0 .. (n - 2) : ~ Ends(o[j + 1], p) /\ o[j + 1][1] # p[2]
    /\ \/ n \in 1 .. Len(o) /\ Ends(o[n], p) /\ e = n
       \/ n \in 1 .. Len(o) /\ o[n][1] = p[2] /\ e = n - 1
       \/ /\ n = Len(o)
          /\ \A j \in 0 .. (n - 1) : ~ Ends(o[j + 1], p) /\ o[j + 1][1] # p[2]
          /\ IsFirst(o, p[2], e)

\* What the range of a phrase is for: its tokens touch the phrase or have no
\* characters, and it holds the tokens that touch the phrase, or one that ends
\* with the phrase before those that start with its last character.
Covers(o, p, g) ==
    /\ g \in Nat \X Nat /\ g[1] <= g[2] /\ g[2] <= Len(o)
    /\ \A t \in IndicesOf(o) :
         /\ g[1] <= t /\ t < g[2] =>
              (p # <<0, 0>> /\ Touches(o[t + 1], p)) \/ o[t + 1][1] = o[t + 1][2]
         /\ p # <<0, 0>> /\ Touches(o[t + 1], p) =>
              \/ g[1] <= t /\ t < g[2]
              \/ /\ o[t + 1][1] = p[2] - 1
                 /\ \E u \in 0 .. (t - 1) : g[1] <= u /\ u < g[2] /\ o[u + 1][2] = p[2]

\* A phrase that was found is a piece of the text: only the empty one has no
\* characters.
LEMMA PhraseType ==
  ASSUME NEW p \in Finder!Phrases, p # Finder!NotFound
  PROVE  /\ p[1] \in Nat /\ p[2] \in Nat /\ p[1] <= p[2]
         /\ p = <<0, 0>> \/ p[1] < p[2]
         /\ p = <<0, 0>> => p[1] = 0 /\ p[2] = 0
  BY FlaggedAssumption DEF Finder!Phrases, Finder!Pieces, Finder!Chars

\* A token that touches the phrase is not before its start.
LEMMA TouchedFromStart ==
  ASSUME NEW o \in Finder!Encodings, NEW p \in Finder!Phrases, p # Finder!NotFound,
         NEW n \in 0 .. Len(o), NEW s, NEW e, IsStart(o, p, n, s), IsEnd(o, p, n, e),
         s <= e, NEW t \in IndicesOf(o), Touches(o[t + 1], p)
  PROVE  s <= t
  <1>0. /\ Len(o) \in Nat /\ n \in Nat /\ t \in Nat /\ t < Len(o)
        /\ p[1] \in Nat /\ p[2] \in Nat /\ p[1] <= p[2]
        /\ o[t + 1][1] \in Nat /\ o[t + 1][2] \in Nat
    BY EncodingLength, PhraseType, TokenType DEF IndicesOf
  <1>1. CASE s \in 0 .. (n - 1) /\ Starts(o[s + 1], p)
             /\ \A j \in 0 .. (s - 1) : ~ Starts(o[j + 1], p)
    <2>1. SUFFICES ASSUME t < s PROVE FALSE
      BY <1>0, <1>1
    <2>2. s \in IndicesOf(o) /\ t <= s /\ t \in 0 .. (s - 1)
      BY <1>0, <1>1, <2>1 DEF IndicesOf
    <2>3. o[s + 1][1] \in Nat /\ o[t + 1][1] <= o[s + 1][1]
      BY <2>2, OffsetsRise, Zenon
    <2>4. ~ Starts(o[t + 1], p) /\ Starts(o[s + 1], p)
      BY <1>1, <2>2
    <2> QED
      BY <1>0, <2>3, <2>4 DEF Starts, Touches
  <1>2. CASE IsFirst(o, p[1], s) /\ \A j \in 0 .. (n - 1) : ~ Starts(o[j + 1], p)
    <2>1. SUFFICES ASSUME t < s PROVE FALSE
      BY <1>0, <1>2 DEF IsFirst
    <2>2. s \in 0 .. Len(o) /\ o[t + 1][1] < p[1]
      BY <1>0, <1>2, <2>1 DEF IsFirst
    <2>3. Starts(o[t + 1], p)
      BY <1>0, <2>2 DEF Starts, Touches
    <2>4. n <= t
      BY <1>0, <1>2, <2>3
    <2>5. e <= n
      BY <1>0, <2>2, <2>4 DEF IsEnd
    <2>6. e \in Int
      BY <1>0 DEF IsEnd, IsFirst
    <2> QED
      BY <1>0, <2>1, <2>2, <2>4, <2>5, <2>6
  <1> QED
    BY <1>1, <1>2 DEF IsStart

\* The two ends are found apart, and yet they are in order.
LEMMA StartBeforeEnd ==
  ASSUME NEW o \in Finder!Encodings, NEW p \in Finder!Phrases, p # Finder!NotFound,
         NEW n \in 0 .. Len(o), NEW s, NEW e, IsStart(o, p, n, s), IsEnd(o, p, n, e)
  PROVE  s \in 0 .. Len(o) /\ e \in 0 .. Len(o) /\ s <= e
  <1>0. /\ Len(o) \in Nat /\ n \in Nat
        /\ p[1] \in Nat /\ p[2] \in Nat /\ p[1] <= p[2] /\ (p[1] < p[2] \/ p[2] = 0)
    BY EncodingLength, PhraseType
  <1>1. s \in 0 .. Len(o)
    BY <1>0 DEF IsStart, IsFirst
  <1>2. e \in 0 .. Len(o)
    BY <1>0 DEF IsEnd, IsFirst
  <1>3. CASE s \in 0 .. (n - 1) /\ Starts(o[s + 1], p)
    <2>1. CASE e = n \/ e = n - 1
      BY <1>0, <1>3, <2>1
    <2>2. CASE n = Len(o) /\ IsFirst(o, p[2], e)
               /\ \A j \in 0 .. (n - 1) : ~ Ends(o[j + 1], p) /\ o[j + 1][1] # p[2]
      <3>1. SUFFICES ASSUME e < s PROVE FALSE
        BY <1>1, <1>2
      <3>2. e \in IndicesOf(o) /\ s \in IndicesOf(o) /\ e <= s /\ e < Len(o)
        BY <1>0, <1>2, <1>3, <3>1 DEF IndicesOf
      <3>3. /\ o[e + 1][1] \in Nat /\ o[s + 1][1] \in Nat
            /\ o[e + 1][1] <= o[s + 1][1]
        BY <3>2, OffsetsRise, Zenon
      <3>4. o[e + 1][1] >= p[2]
        BY <2>2, <3>2 DEF IsFirst
      <3>5. o[s + 1][1] <= p[1]
        BY <1>3 DEF Starts
      <3>6. o[e + 1][1] # p[2]
        BY <2>2, <3>2, <1>0 DEF IndicesOf
      <3> QED
        BY <1>0, <3>3, <3>4, <3>5, <3>6
    <2> QED
      BY <2>1, <2>2 DEF IsEnd
  <1>4. CASE IsFirst(o, p[1], s) /\ \A j \in 0 .. (n - 1) : ~ Starts(o[j + 1], p)
    <2>1. SUFFICES ASSUME e < s PROVE FALSE
      BY <1>1, <1>2
    <2>2. e \in IndicesOf(o)
      BY <1>1, <1>2, <2>1, <1>0 DEF IndicesOf
    <2>3. o[e + 1][1] \in Nat /\ o[e + 1][1] < p[1]
      BY <1>1, <1>2, <1>4, <2>1, <2>2, TokenType DEF IsFirst
    <2>4. CASE n \in 1 .. Len(o) /\ Ends(o[n], p) /\ e = n
      <3>1. n - 1 \in IndicesOf(o) /\ (n - 1) + 1 = n /\ n - 1 \in 0 .. (n - 1)
            /\ n - 1 \in 0 .. (s - 1)
        BY <1>0, <2>4, <2>1, <1>1 DEF IndicesOf
      <3>2. o[n][1] \in Nat /\ o[n][2] \in Nat
        BY <3>1, TokenType
      <3>3. ~ Starts(o[n], p) /\ o[n][1] < p[1]
        BY <1>4, <3>1 DEF IsFirst
      <3> QED
        BY <1>0, <2>4, <3>2, <3>3 DEF Starts, Ends
    <2>5. CASE n \in 1 .. Len(o) /\ o[n][1] = p[2] /\ e = n - 1
      BY <1>0, <2>3, <2>5
    <2>6. CASE n = Len(o) /\ IsFirst(o, p[2], e)
      BY <1>0, <1>1, <1>2, <2>1, <2>3, <2>6 DEF IsFirst
    <2> QED
      BY <2>4, <2>5, <2>6 DEF IsEnd
  <1> QED
    BY <1>1, <1>2, <1>3, <1>4 DEF IsStart

\* The range that starts and ends there covers the phrase.
LEMMA RangeCovers ==
  ASSUME NEW o \in Finder!Encodings, NEW p \in Finder!Phrases, p # Finder!NotFound,
         NEW n \in 0 .. Len(o), NEW s, NEW e, IsStart(o, p, n, s), IsEnd(o, p, n, e)
  PROVE  Covers(o, p, <<s, e>>)
  <1>0. /\ Len(o) \in Nat /\ n \in Nat
        /\ p[1] \in Nat /\ p[2] \in Nat /\ p[1] <= p[2]
    BY EncodingLength, PhraseType
  <1>p. p = <<0, 0>> => p[1] = 0 /\ p[2] = 0
    BY PhraseType
  <1>1. s \in 0 .. Len(o) /\ e \in 0 .. Len(o) /\ s <= e
    BY StartBeforeEnd, Zenon
  <1>2. ASSUME NEW t \in IndicesOf(o), s <= t, t < e
        PROVE  (p # <<0, 0>> /\ Touches(o[t + 1], p)) \/ o[t + 1][1] = o[t + 1][2]
    <2>0. /\ t \in 0 .. (Len(o) - 1) /\ o[t + 1][1] \in Nat /\ o[t + 1][2] \in Nat
          /\ o[t + 1][1] <= o[t + 1][2]
      BY TokenType DEF IndicesOf
    <2>1. o[t + 1][1] < p[2]
      <3>1. CASE n \in 1 .. Len(o) /\ Ends(o[n], p) /\ e = n
        <4>0. n \in 1 .. Len(o) /\ t < n /\ t \in Nat /\ Len(o) \in Nat
          BY <1>2, <1>0, <2>0, <3>1
        <4>1. n - 1 \in IndicesOf(o) /\ t <= n - 1 /\ (n - 1) + 1 = n
          BY <4>0 DEF IndicesOf
        <4>2. o[(n - 1) + 1][1] \in Nat /\ o[t + 1][1] <= o[(n - 1) + 1][1]
          BY <4>1, OffsetsRise, Zenon
        <4>3. o[n][1] \in Nat /\ o[t + 1][1] <= o[n][1]
          BY <4>1, <4>2
        <4> QED
          BY <1>0, <2>0, <3>1, <4>3 DEF Ends
      <3>2. CASE /\ n \in 1 .. Len(o) /\ o[n][1] = p[2] /\ e = n - 1
                 /\ \A j \in 0 .. (n - 2) : ~ Ends(o[j + 1], p) /\ o[j + 1][1] # p[2]
        <4>0. n \in 1 .. Len(o) /\ t < n - 1 /\ t \in Nat /\ Len(o) \in Nat
          BY <1>2, <1>0, <2>0, <3>2
        <4>1. n - 1 \in IndicesOf(o) /\ t <= n - 1 /\ (n - 1) + 1 = n /\ t \in 0 .. (n - 2)
          BY <4>0 DEF IndicesOf
        <4>2. o[t + 1][1] <= o[(n - 1) + 1][1]
          BY <4>1, OffsetsRise, Zenon
        <4>3. o[t + 1][1] <= p[2] /\ o[t + 1][1] # p[2]
          BY <4>1, <4>2, <3>2
        <4> QED
          BY <1>0, <2>0, <4>3
      <3>3. CASE IsFirst(o, p[2], e)
        BY <1>0, <1>1, <1>2, <2>0, <3>3 DEF IsFirst
      <3> QED
        BY <3>1, <3>2, <3>3 DEF IsEnd
    <2>2. p[1] < o[t + 1][2] \/ o[t + 1][1] = o[t + 1][2]
      <3>1. CASE s \in 0 .. (n - 1) /\ Starts(o[s + 1], p)
        <4>1. s \in IndicesOf(o) /\ s <= t
          BY <1>0, <1>2, <3>1 DEF IndicesOf
        <4>2. o[s + 1][2] \in Nat /\ o[s + 1][2] <= o[t + 1][2]
          BY <4>1, OffsetsRise, Zenon
        <4>3. p[1] < o[s + 1][2]
          BY <3>1 DEF Starts
        <4> QED
          BY <1>0, <2>0, <4>2, <4>3
      <3>2. CASE IsFirst(o, p[1], s)
        <4>1. s \in IndicesOf(o) /\ s <= t /\ s < Len(o)
          BY <1>0, <1>1, <1>2, <2>0 DEF IndicesOf
        <4>2. o[s + 1][1] \in Nat /\ o[s + 1][1] <= o[t + 1][1]
          BY <4>1, OffsetsRise, Zenon
        <4>3. o[s + 1][1] >= p[1]
          BY <3>2, <4>1 DEF IsFirst
        <4>4. p[1] <= o[t + 1][1]
          BY <1>0, <2>0, <4>2, <4>3
        <4>5. p[1] \in Nat
          BY <1>0
        <4> QED
          BY <2>0, <4>4, <4>5
      <3> QED
        BY <3>1, <3>2 DEF IsStart
    <2>3. CASE p = <<0, 0>>
      BY <1>p, <2>0, <2>1, <2>3
    <2>4. CASE p # <<0, 0>>
      BY <2>1, <2>2, <2>4 DEF Touches
    <2> QED
      BY <2>3, <2>4
  <1>3. ASSUME NEW t \in IndicesOf(o), Touches(o[t + 1], p)
        PROVE  \/ s <= t /\ t < e
               \/ /\ o[t + 1][1] = p[2] - 1
                  /\ \E u \in 0 .. (t - 1) : s <= u /\ u < e /\ o[u + 1][2] = p[2]
    <2>0. /\ t \in 0 .. (Len(o) - 1) /\ o[t + 1][1] \in Nat /\ o[t + 1][2] \in Nat
          /\ o[t + 1][1] < p[2] /\ p[1] < o[t + 1][2]
      BY <1>3, TokenType DEF IndicesOf, Touches
    <2>1. s <= t
      BY <1>1, <1>3, TouchedFromStart, Zenon
    <2>2. CASE t < e
      BY <2>0, <2>1, <2>2
    <2>3. CASE e <= t
      <3>1. CASE n \in 1 .. Len(o) /\ Ends(o[n], p) /\ e = n
        <4>0. n \in 1 .. Len(o) /\ n <= t /\ t \in Nat /\ Len(o) \in Nat /\ e = n
          BY <1>0, <2>0, <2>3, <3>1
        <4>1. n - 1 \in IndicesOf(o) /\ n - 1 <= t /\ n - 1 < t /\ (n - 1) + 1 = n
              /\ n - 1 \in 0 .. (t - 1) /\ n - 1 < e
          BY <4>0 DEF IndicesOf
        <4>2. /\ o[(n - 1) + 1][1] \in Nat /\ o[(n - 1) + 1][2] \in Nat
              /\ o[(n - 1) + 1][2] - 1 <= o[t + 1][1]
          BY <4>1, OffsetsRise, Zenon
        <4>3. /\ o[n][1] \in Nat /\ o[n][2] \in Nat /\ o[n][2] - 1 <= o[t + 1][1]
              /\ o[n][1] < p[2] /\ p[2] <= o[n][2]
          BY <4>1, <4>2, <3>1 DEF Ends
        <4>4. o[n][2] = p[2] /\ o[t + 1][1] = p[2] - 1
          <5>1. \A a, b, c \in Nat : a - 1 <= b /\ b < c /\ c <= a => a = c /\ b = c - 1
            OBVIOUS
          <5>2. o[n][2] \in Nat /\ o[t + 1][1] \in Nat /\ p[2] \in Nat
            BY <4>3, <2>0, <1>0
          <5>3. o[n][2] - 1 <= o[t + 1][1] /\ o[t + 1][1] < p[2] /\ p[2] <= o[n][2]
            BY <4>3, <2>0
          <5> QED
            BY <5>1, <5>2, <5>3
        <4>5. Touches(o[(n - 1) + 1], p)
          <5>1. p[1] < p[2]
            <6>1. p[2] # 0
              BY <1>0, <2>0
            <6>2. p # <<0, 0>>
              BY <1>p, <6>1
            <6> QED
              BY <6>2, PhraseType
          <5> QED
            BY <4>1, <4>3, <4>4, <5>1 DEF Touches
        <4>6. s <= n - 1
          BY <1>1, <4>1, <4>5, TouchedFromStart, Zenon
        <4> QED
          BY <4>1, <4>4, <4>6
      <3>2. CASE n \in 1 .. Len(o) /\ o[n][1] = p[2] /\ e = n - 1
        <4>0. n \in 1 .. Len(o) /\ n - 1 <= t /\ t \in Nat /\ Len(o) \in Nat
          BY <1>0, <2>0, <2>3, <3>2
        <4>1. n - 1 \in IndicesOf(o) /\ n - 1 <= t /\ (n - 1) + 1 = n
          BY <4>0 DEF IndicesOf
        <4>2. o[(n - 1) + 1][1] <= o[t + 1][1]
          BY <4>1, OffsetsRise, Zenon
        <4> QED
          BY <1>0, <2>0, <3>2, <4>1, <4>2
      <3>3. CASE IsFirst(o, p[2], e)
        <4>1. e \in IndicesOf(o) /\ e < Len(o)
          BY <1>0, <1>1, <2>0, <2>3 DEF IndicesOf
        <4>2. o[e + 1][1] \in Nat /\ o[e + 1][1] <= o[t + 1][1]
          BY <4>1, <2>3, OffsetsRise, Zenon
        <4>3. o[e + 1][1] >= p[2]
          BY <3>3, <4>1 DEF IsFirst
        <4> QED
          BY <1>0, <2>0, <4>2, <4>3
      <3> QED
        BY <3>1, <3>2, <3>3 DEF IsEnd
    <2> QED
      BY <1>1, <2>0, <2>2, <2>3
  <1>4. <<s, e>> \in Nat \X Nat /\ <<s, e>>[1] = s /\ <<s, e>>[2] = e
    BY <1>1
  <1> QED
    BY <1>1, <1>2, <1>3, <1>4 DEF Covers

-----------------------------------------------------------------------------
(* The scan: how many tokens were looked at, and what was found in them.   *)

Seen == IF tokenEnd = Finder!None THEN i ELSE i + 1

StartKnown ==
    IF tokenStart = Finder!None
    THEN \A j \in 0 .. (Seen - 1) : ~ Starts(offsets[j + 1], phrase)
    ELSE /\ tokenStart \in 0 .. (Seen - 1)
         /\ Starts(offsets[tokenStart + 1], phrase)
         /\ \A j \in 0 .. (tokenStart - 1) : ~ Starts(offsets[j + 1], phrase)

EndKnown ==
    /\ \A j \in 0 .. (i - 1) : ~ Ends(offsets[j + 1], phrase) /\ offsets[j + 1][1] # phrase[2]
    /\ IF tokenEnd = Finder!None
       THEN i \in 0 .. Len(offsets) /\ (fpc = "fix" => i = Len(offsets))
       ELSE /\ fpc = "fix" /\ i \in IndicesOf(offsets)
            /\ \/ Ends(offsets[i + 1], phrase) /\ tokenEnd = i + 1
               \/ offsets[i + 1][1] = phrase[2] /\ tokenEnd = i

FinderInv ==
    /\ offsets \in Finder!Encodings
    /\ phrase \in Finder!Phrases
    /\ fpc \in {"find", "scan", "fix", "done"}
    /\ fpc = "find" => /\ i = 0 /\ tokenStart = Finder!None /\ tokenEnd = Finder!None
                       /\ region = Finder!NotFound
    /\ fpc \in {"scan", "fix"} => phrase # Finder!NotFound /\ StartKnown /\ EndKnown
    /\ fpc = "done" => IF phrase = Finder!NotFound THEN region = Finder!NotFound
                       ELSE Covers(offsets, phrase, region)

\* A found phrase starts the scan with no token looked at.
LEMMA FindKeeps ==
  ASSUME FinderInv, Finder!Find
  PROVE  FinderInv'
  <1>1. /\ fpc = "find" /\ fpc' = IF phrase = Finder!NotFound THEN "done" ELSE "scan"
        /\ UNCHANGED <<offsets, phrase, i, tokenStart, tokenEnd, region>>
        /\ i = 0 /\ tokenStart = Finder!None /\ tokenEnd = Finder!None
        /\ region = Finder!NotFound
    BY DEF Finder!Find, FinderInv
  <1>2. StartKnown'
    BY <1>1 DEF StartKnown, Seen
  <1>3. EndKnown'
    BY <1>1, EncodingLength DEF EndKnown, FinderInv
  <1> QED
    BY <1>1, <1>2, <1>3 DEF FinderInv

\* One turn of the loop looks at one more token.
LEMMA ScanKeeps ==
  ASSUME FinderInv, Finder!Scan
  PROVE  FinderInv'
  <1>1. /\ fpc = "scan" /\ phrase # Finder!NotFound /\ offsets \in Finder!Encodings
        /\ phrase \in Finder!Phrases /\ StartKnown /\ EndKnown
        /\ UNCHANGED <<offsets, phrase, region>> /\ i < Len(offsets)
        /\ Len(offsets) \in Nat /\ tokenEnd = Finder!None /\ i \in 0 .. Len(offsets)
    BY EncodingLength DEF Finder!Scan, Finder!TokenCount, FinderInv, EndKnown
  <1>2. i \in IndicesOf(offsets)
    BY <1>1 DEF IndicesOf
  <1>3. tokenStart' = IF tokenStart = Finder!None /\ Starts(offsets[i + 1], phrase)
                      THEN i ELSE tokenStart
    BY DEF Finder!Scan, Finder!StartsIn, Finder!Token, Starts
  <1>4. \/ Ends(offsets[i + 1], phrase) /\ tokenEnd' = i + 1
        \/ /\ ~ Ends(offsets[i + 1], phrase) /\ offsets[i + 1][1] = phrase[2]
           /\ tokenEnd' = i
        \/ /\ ~ Ends(offsets[i + 1], phrase) /\ offsets[i + 1][1] # phrase[2]
           /\ tokenEnd' = Finder!None
    <2>1. tokenEnd' = CASE Ends(offsets[i + 1], phrase) -> i + 1
                        [] offsets[i + 1][1] = phrase[2] -> i
                        [] OTHER -> Finder!None
      BY DEF Finder!Scan, Finder!EndsIn, Finder!Token, Ends
    <2>2. ~ (Ends(offsets[i + 1], phrase) /\ offsets[i + 1][1] = phrase[2])
      BY <1>1, <1>2, TokenType, PhraseType DEF Ends
    <2> QED
      BY <2>1, <2>2
  <1>5. /\ tokenEnd' = Finder!None => i' = i + 1 /\ fpc' = fpc
        /\ tokenEnd' # Finder!None => fpc' = "fix" /\ i' = i
    BY DEF Finder!Scan
  <1>6. tokenEnd' = Finder!None \/ tokenEnd' = i \/ tokenEnd' = i + 1
    BY <1>4
  <1>7. Seen' = i + 1 /\ Seen = i
    BY <1>1, <1>5 DEF Seen
  <1>8. StartKnown'
    <2>1. CASE tokenStart = Finder!None /\ Starts(offsets[i + 1], phrase)
      <3>1. tokenStart' = i /\ tokenStart' # Finder!None
        BY <1>1, <1>3, <2>1 DEF Finder!None
      <3>2. \A j \in 0 .. (i - 1) : ~ Starts(offsets[j + 1], phrase)
        BY <1>1, <1>7, <2>1 DEF StartKnown
      <3> QED
        BY <1>1, <1>7, <2>1, <3>1, <3>2 DEF StartKnown
    <2>2. CASE tokenStart = Finder!None /\ ~ Starts(offsets[i + 1], phrase)
      <3>1. \A j \in 0 .. i : ~ Starts(offsets[j + 1], phrase)
        BY <1>1, <1>7, <2>2 DEF StartKnown
      <3> QED
        BY <1>1, <1>3, <1>7, <2>2, <3>1 DEF StartKnown
    <2>3. CASE tokenStart # Finder!None
      BY <1>1, <1>3, <1>7, <2>3 DEF StartKnown
    <2> QED
      BY <2>1, <2>2, <2>3
  <1>9. EndKnown'
    <2>1. CASE tokenEnd' = Finder!None
      <3>1. ~ Ends(offsets[i + 1], phrase) /\ offsets[i + 1][1] # phrase[2]
        BY <1>1, <1>4, <2>1 DEF Finder!None
      <3>2. \A j \in 0 .. ((i + 1) - 1) :
               ~ Ends(offsets[j + 1], phrase) /\ offsets[j + 1][1] # phrase[2]
        BY <1>1, <3>1 DEF EndKnown
      <3> QED
        BY <1>1, <1>5, <2>1, <3>2 DEF EndKnown
    <2>2. CASE tokenEnd' # Finder!None
      BY <1>1, <1>2, <1>4, <1>5, <2>2 DEF EndKnown
    <2> QED
      BY <2>1, <2>2
  <1>10. fpc' \in {"scan", "fix"}
    BY <1>1, <1>5
  <1> QED
    BY <1>1, <1>8, <1>9, <1>10 DEF FinderInv

LEMMA ScanEndsKeeps ==
  ASSUME FinderInv, Finder!ScanEnds
  PROVE  FinderInv'
  BY EncodingLength DEF Finder!ScanEnds, Finder!TokenCount, FinderInv, StartKnown, EndKnown, Seen

\* A search finds the first token from a character on.
LEMMA FirstFromIsFirst ==
  ASSUME offsets \in Finder!Encodings, NEW c \in Nat
  PROVE  IsFirst(offsets, c, Finder!FirstFrom(c))
  <1>0. Len(offsets) \in Nat
    BY EncodingLength
  <1> DEFINE From == {j \in IndicesOf(offsets) : offsets[j + 1][1] >= c}
  <1>1. CASE From = {}
    <2>1. Finder!FirstFrom(c) = Len(offsets)
      BY <1>1 DEF Finder!FirstFrom, Finder!NoSuchToken, Finder!TokenCount, Finder!Indices,
                  Finder!Token, IndicesOf
    <2>2. ASSUME NEW k \in IndicesOf(offsets) PROVE offsets[k + 1][1] < c
      BY <1>1, TokenType
    <2> QED
      BY <1>0, <2>1, <2>2 DEF IsFirst, IndicesOf
  <1>2. CASE From # {}
    <2>1. PICK j \in From : \A k \in From : j <= k
      <3>1. From \in SUBSET Nat
        BY <1>0 DEF IndicesOf
      <3> HIDE DEF From
      <3> QED
        BY <1>2, <3>1, LeastNumber
    <2> DEFINE P(f) == offsets[f + 1][1] >= c /\ \A k \in 0 .. (f - 1) : offsets[k + 1][1] < c
    <2>2. j \in IndicesOf(offsets) /\ P(j)
      <3>1. j \in IndicesOf(offsets) /\ offsets[j + 1][1] >= c
        BY <2>1
      <3>2. ASSUME NEW k \in 0 .. (j - 1) PROVE offsets[k + 1][1] < c
        <4>1. k \in IndicesOf(offsets) /\ k < j /\ j \in Nat
          BY <1>0, <3>1 DEF IndicesOf
        <4>2. k \notin From
          BY <2>1, <4>1
        <4> QED
          BY <4>1, <4>2, TokenType
      <3> QED
        BY <3>1, <3>2
    <2>3. Finder!FirstFrom(c) = CHOOSE f \in IndicesOf(offsets) : P(f)
      BY <1>2 DEF Finder!FirstFrom, Finder!TokenCount, Finder!Indices, Finder!Token, IndicesOf
    <2>4. Finder!FirstFrom(c) \in IndicesOf(offsets) /\ P(Finder!FirstFrom(c))
      <3> HIDE DEF P
      <3> QED
        BY <2>2, <2>3
    <2> QED
      BY <1>0, <2>4 DEF IsFirst, IndicesOf
  <1> QED
    BY <1>1, <1>2

\* The bounds that no token held, and the check of the range, which passes.
LEMMA FixKeeps ==
  ASSUME FinderInv, Finder!Fix
  PROVE  FinderInv'
  <1>1. /\ fpc = "fix" /\ fpc' = "done" /\ UNCHANGED <<offsets, phrase, i>>
        /\ phrase # Finder!NotFound /\ StartKnown /\ EndKnown
        /\ offsets \in Finder!Encodings /\ phrase \in Finder!Phrases
        /\ Len(offsets) \in Nat /\ phrase[1] \in Nat /\ phrase[2] \in Nat
    BY EncodingLength, PhraseType DEF Finder!Fix, FinderInv
  <1>2. IsFirst(offsets, phrase[1], Finder!FirstFrom(phrase[1]))
    BY <1>1, FirstFromIsFirst
  <1>3. IsFirst(offsets, phrase[2], Finder!FirstFrom(phrase[2]))
    BY <1>1, FirstFromIsFirst
  <1>4. Seen \in 0 .. Len(offsets)
    BY <1>1 DEF Seen, EndKnown, IndicesOf
  <1>5. IsStart(offsets, phrase, Seen, tokenStart')
    <2>1. tokenStart' = IF tokenStart = Finder!None THEN Finder!FirstFrom(phrase[1])
                        ELSE tokenStart
      BY DEF Finder!Fix
    <2> QED
      BY <1>1, <1>2, <2>1 DEF IsStart, StartKnown
  <1>6. IsEnd(offsets, phrase, Seen, tokenEnd')
    <2>1. tokenEnd' = IF tokenEnd = Finder!None THEN Finder!FirstFrom(phrase[2])
                      ELSE tokenEnd
      BY DEF Finder!Fix
    <2>2. CASE tokenEnd = Finder!None
      <3>1. Seen = i /\ i = Len(offsets)
        BY <1>1, <2>2 DEF Seen, EndKnown
      <3> QED
        BY <1>1, <1>3, <2>1, <2>2, <3>1 DEF IsEnd, EndKnown
    <2>3. CASE tokenEnd # Finder!None
      <3>1. Seen = i + 1 /\ i \in IndicesOf(offsets) /\ tokenEnd' = tokenEnd
        BY <1>1, <2>1, <2>3 DEF Seen, EndKnown
      <3>2. i + 1 \in 1 .. Len(offsets) /\ (i + 1) - 2 = i - 1 /\ (i + 1) - 1 = i
        BY <1>1, <3>1 DEF IndicesOf
      <3> QED
        BY <1>1, <2>3, <3>1, <3>2 DEF IsEnd, EndKnown
    <2> QED
      BY <2>2, <2>3
  <1>7. tokenStart' <= tokenEnd'
    BY <1>1, <1>4, <1>5, <1>6, StartBeforeEnd
  <1>8. region' = <<tokenStart', tokenEnd'>>
    BY <1>7 DEF Finder!Fix, Finder!Valid
  <1>9. Covers(offsets, phrase, region')
    BY <1>1, <1>4, <1>5, <1>6, <1>8, RangeCovers
  <1> QED
    BY <1>1, <1>9 DEF FinderInv

-----------------------------------------------------------------------------
(* The lists of spans, the mask and the advantages.                        *)

\* Phrases of a row that are not in its list yet: the one that is looked up,
\* those that are left, and all of a row that is to come.
Open(r) ==
    IF r < row THEN {}
    ELSE IF r = row THEN {left[m] : m \in DOMAIN left} \cup {phrase}
    ELSE Quoted(r)

\* A span of the list is the range of a quoted phrase, and a phrase that was
\* looked up has its span.
ListInv(r) ==
    /\ spans[r] \in Seq(Nat \X Nat)
    /\ \A k \in DOMAIN spans[r] : \E p \in Quoted(r) \ {Finder!NotFound} :
          Covers(batch[r].offsets, p, spans[r][k])
    /\ \A p \in Quoted(r) \ {Finder!NotFound} :
          p \in Open(r) \/ \E k \in DOMAIN spans[r] : Covers(batch[r].offsets, p, spans[r][k])

BatchInv ==
    /\ batch \in Batches /\ row \in Mask!Rows
    /\ offsets = batch[row].offsets
    /\ left \in Seq(Quoted(row))
    /\ phrase \in Quoted(row) \cup {Finder!NotFound}
    /\ DOMAIN spans = Mask!Rows
    /\ \A r \in Mask!Rows : ListInv(r)
    /\ pc # "find" => row = NRows /\ left = <<>> /\ phrase = Finder!NotFound

\* The padded lists hold the spans, and fillers after them.
PaddedInv(r) ==
    /\ DOMAIN spans[r] \subseteq DOMAIN positions[r]
    /\ \A k \in DOMAIN positions[r] :
          positions[r][k] = IF k \in DOMAIN spans[r] THEN spans[r][k]
                            ELSE <<Mask!Filler, Mask!Filler>>

MaskOf(r, t) == IF Mask!Flagged(r, t) THEN 1 ELSE 0

AdvantageOf(r, t) ==
    LET a == Mask!Centred(r) * Mask!ResponseMask(r, t)
    IN  IF mask[r][t] = 1 THEN Mask!Penalised(a) ELSE Unit * a

MaskInv ==
    /\ pc \in {"find", "pad", "mask", "advantage", "done"}
    /\ reward \in [Mask!Rows -> {0, 1}]
    /\ \A r \in Mask!Rows : valid[r] \in 1 .. RespLen
    /\ pc = "mask" => \A r \in Mask!Rows : PaddedInv(r)
    /\ pc \in {"advantage", "done"} =>
          \A r \in Mask!Rows : \A t \in Mask!Tokens : mask[r][t] = MaskOf(r, t)
    /\ pc = "done" =>
          \A r \in Mask!Rows : \A t \in Mask!Tokens : advantages[r][t] = AdvantageOf(r, t)

FlaggedInv == FinderInv /\ BatchInv /\ MaskInv

\* A range has no bound of -1: only what was not found is left out.
LEMMA CoversIsFound ==
  ASSUME NEW o, NEW p, NEW g, Covers(o, p, g)
  PROVE  g \in Nat \X Nat /\ ~ (-1 \in {g[1], g[2]}) /\ g # Finder!NotFound
  BY DEF Covers, Finder!NotFound

\* A list of ranges with one more entry.
OneMore(longer, list, x) ==
    /\ longer \in Seq(Nat \X Nat) /\ Len(list) \in Nat
    /\ DOMAIN list = 1 .. Len(list)
    /\ DOMAIN longer = 1 .. (Len(list) + 1)
    /\ \A k \in DOMAIN list : longer[k] = list[k]
    /\ longer[Len(list) + 1] = x

LEMMA AppendOne ==
  ASSUME NEW list \in Seq(Nat \X Nat), NEW x \in Nat \X Nat
  PROVE  OneMore(Append(list, x), list, x)
  <1>1. /\ Append(list, x) \in Seq(Nat \X Nat) /\ Len(list) \in Nat
        /\ Len(Append(list, x)) = Len(list) + 1
    OBVIOUS
  <1>2. DOMAIN list = 1 .. Len(list) /\ DOMAIN Append(list, x) = 1 .. (Len(list) + 1)
    BY <1>1
  <1>3. \A k \in 1 .. Len(list) : Append(list, x)[k] = list[k]
    OBVIOUS
  <1>4. Append(list, x)[Len(list) + 1] = x
    OBVIOUS
  <1> QED
    BY <1>1, <1>2, <1>3, <1>4 DEF OneMore

Settled(r, list, p) == \E k \in DOMAIN list : Covers(batch[r].offsets, p, list[k])

\* When a result joins the list of its row, its phrase has its span.
LEMMA KeptList ==
  ASSUME FinderInv, BatchInv, fpc = "done", spans' = Kept, UNCHANGED batch
  PROVE  /\ DOMAIN spans' = Mask!Rows
         /\ \A r \in Mask!Rows :
              /\ spans'[r] \in Seq(Nat \X Nat)
              /\ \A k \in DOMAIN spans'[r] : \E p \in Quoted(r) \ {Finder!NotFound} :
                    Covers(batch[r].offsets, p, spans'[r][k])
              /\ \A p \in Quoted(r) \ {Finder!NotFound} :
                    (p \in Open(r) /\ (r = row => p \in {left[m] : m \in DOMAIN left}))
                    \/ Settled(r, spans'[r], p)
  <1>1. /\ row \in Mask!Rows /\ DOMAIN spans = Mask!Rows /\ offsets = batch[row].offsets
        /\ \A r \in Mask!Rows : ListInv(r)
        /\ phrase \in Quoted(row) \cup {Finder!NotFound}
    BY DEF BatchInv
  <1>2. CASE phrase = Finder!NotFound
    <2>1. region = Finder!NotFound
      BY <1>2 DEF FinderInv
    <2>2. spans' = spans
      BY <2>1 DEF Kept, Finder!NotFound
    <2> QED
      BY <1>1, <1>2, <2>2 DEF ListInv, Open, Settled
  <1>3. CASE phrase # Finder!NotFound
    <2>1. Covers(batch[row].offsets, phrase, region)
      BY <1>1, <1>3 DEF FinderInv
    <2>2. region \in Nat \X Nat /\ ~ (-1 \in {region[1], region[2]})
      BY <2>1, CoversIsFound, Zenon
    <2>3. spans' = [spans EXCEPT ![row] = Append(@, region)]
      BY <2>2 DEF Kept
    <2>4. DOMAIN spans' = Mask!Rows /\ \A r \in Mask!Rows : r # row => spans'[r] = spans[r]
      BY <1>1, <2>3
    <2>5. spans'[row] = Append(spans[row], region) /\ spans[row] \in Seq(Nat \X Nat)
      BY <1>1, <2>3 DEF ListInv
    <2>6. /\ spans'[row] \in Seq(Nat \X Nat) /\ Len(spans[row]) \in Nat
          /\ DOMAIN spans[row] = 1 .. Len(spans[row])
          /\ DOMAIN spans'[row] = 1 .. (Len(spans[row]) + 1)
          /\ \A k \in DOMAIN spans[row] : spans'[row][k] = spans[row][k]
          /\ spans'[row][Len(spans[row]) + 1] = region
      <3>1. region \in Nat \X Nat
        BY <2>2
      <3>2. OneMore(Append(spans[row], region), spans[row], region)
        BY <2>5, <3>1, AppendOne
      <3>3. OneMore(spans'[row], spans[row], region)
        BY <2>5, <3>2
      <3> QED
        BY <3>3 DEF OneMore
    <2>7. ASSUME NEW k \in DOMAIN spans'[row]
          PROVE  \E p \in Quoted(row) \ {Finder!NotFound} :
                    Covers(batch[row].offsets, p, spans'[row][k])
      <3>1. CASE k \in DOMAIN spans[row]
        <4>1. PICK p \in Quoted(row) \ {Finder!NotFound} :
                 Covers(batch[row].offsets, p, spans[row][k])
          BY <1>1, <3>1 DEF ListInv
        <4>2. spans'[row][k] = spans[row][k]
          BY <2>6, <3>1
        <4> QED
          BY <4>1, <4>2, Zenon
      <3>2. CASE k = Len(spans[row]) + 1
        <4>1. phrase \in Quoted(row) \ {Finder!NotFound} /\ spans'[row][k] = region
          BY <1>1, <1>3, <2>6, <3>2, Zenon
        <4> QED
          BY <2>1, <4>1, Zenon
      <3> QED
        <4>1. k \in 1 .. (Len(spans[row]) + 1) /\ Len(spans[row]) \in Nat
              /\ DOMAIN spans[row] = 1 .. Len(spans[row])
          BY <2>6
        <4> QED
          BY <3>1, <3>2, <4>1
    <2>8. Settled(row, spans'[row], phrase)
      <3>1. Len(spans[row]) + 1 \in DOMAIN spans'[row]
        BY <2>6
      <3>2. Covers(batch[row].offsets, phrase, spans'[row][Len(spans[row]) + 1])
        BY <2>1, <2>6
      <3> QED
        BY <3>1, <3>2, Zenon DEF Settled
    <2>9. ASSUME NEW p \in Quoted(row) \ {Finder!NotFound}, Settled(row, spans[row], p)
          PROVE  Settled(row, spans'[row], p)
      BY <2>6, <2>9 DEF Settled
    <2>10. ASSUME NEW p \in Quoted(row) \ {Finder!NotFound}
           PROVE  (p \in Open(row) /\ p \in {left[m] : m \in DOMAIN left})
                  \/ Settled(row, spans'[row], p)
      <3>1. p \in Open(row) \/ Settled(row, spans[row], p)
        BY <1>1 DEF ListInv, Settled
      <3>2. p \in Open(row) => p \in {left[m] : m \in DOMAIN left} \/ p = phrase
        BY <1>1 DEF Open, Mask!Rows
      <3> QED
        BY <2>8, <2>9, <3>1, <3>2
    <2>11. ASSUME NEW r \in Mask!Rows, r # row
           PROVE  /\ spans'[r] \in Seq(Nat \X Nat)
                  /\ \A k \in DOMAIN spans'[r] : \E p \in Quoted(r) \ {Finder!NotFound} :
                        Covers(batch[r].offsets, p, spans'[r][k])
                  /\ \A p \in Quoted(r) \ {Finder!NotFound} :
                        p \in Open(r) \/ Settled(r, spans'[r], p)
      BY <1>1, <2>4, <2>11 DEF ListInv, Settled
    <2>12. ASSUME NEW r \in Mask!Rows
           PROVE  /\ spans'[r] \in Seq(Nat \X Nat)
                  /\ \A k \in DOMAIN spans'[r] : \E p \in Quoted(r) \ {Finder!NotFound} :
                        Covers(batch[r].offsets, p, spans'[r][k])
                  /\ \A p \in Quoted(r) \ {Finder!NotFound} :
                        (p \in Open(r) /\ (r = row => p \in {left[m] : m \in DOMAIN left}))
                        \/ Settled(r, spans'[r], p)
      <3>1. CASE r = row
        BY <2>6, <2>7, <2>10, <3>1
      <3>2. CASE r # row
        BY <2>11, <3>2
      <3> QED
        BY <3>1, <3>2
    <2> QED
      BY <2>4, <2>12
  <1> QED
    BY <1>2, <1>3

\* A batch row has an encoding, and phrases that may be quoted.
LEMMA BatchRow ==
  ASSUME batch \in Batches, NEW r \in Mask!Rows
  PROVE  /\ batch[r].offsets \in Finder!Encodings
         /\ batch[r].phrases \in Seq(Finder!Phrases)
         /\ batch[r].phrases \in Seq(Quoted(r))
         /\ Quoted(r) \subseteq Finder!Phrases
         /\ Quoted(r) = {batch[r].phrases[m] : m \in DOMAIN batch[r].phrases}
  <1>1. /\ batch[r].offsets \in Finder!Encodings
        /\ batch[r].phrases \in Seq(Finder!Phrases)
    BY BatchesAssumption DEF Mask!Rows
  <1>2. \A m \in DOMAIN batch[r].phrases : batch[r].phrases[m] \in Finder!Phrases
    BY <1>1
  <1>3. /\ Quoted(r) = {batch[r].phrases[m] : m \in DOMAIN batch[r].phrases}
        /\ Quoted(r) \subseteq Finder!Phrases
    BY <1>2 DEF Quoted
  <1>4. batch[r].phrases \in Seq(Quoted(r))
    <2>1. /\ Len(batch[r].phrases) \in Nat
          /\ DOMAIN batch[r].phrases = 1 .. Len(batch[r].phrases)
          /\ batch[r].phrases = [m \in 1 .. Len(batch[r].phrases) |-> batch[r].phrases[m]]
      BY <1>1
    <2>2. batch[r].phrases \in [1 .. Len(batch[r].phrases) -> Quoted(r)]
      BY <1>3, <2>1
    <2> QED
      BY <2>1, <2>2
  <1> QED
    BY <1>1, <1>3, <1>4

\* The response's length is a width of the tensor.
LEMMA ValidLength ==
  ASSUME NEW o \in Finder!Encodings
  PROVE  WithEOS(Len(o)) \in 1 .. RespLen
  BY EncodingLength, FlaggedAssumption DEF WithEOS

\* Before the first phrase nothing is listed, marked or lowered.
LEMMA InitFlagged == Init => FlaggedInv
  <1> SUFFICES ASSUME Init PROVE FlaggedInv
    OBVIOUS
  <1>1. 1 \in Mask!Rows /\ NRows \in Nat
    BY FlaggedAssumption DEF Mask!Rows
  <1>2. batch \in Batches /\ row = 1 /\ left = batch[1].phrases /\ offsets = batch[1].offsets
        /\ fpc = "done" /\ phrase = Finder!NotFound /\ region = Finder!NotFound /\ pc = "find"
        /\ spans = [r \in Mask!Rows |-> <<>>]
        /\ valid = [r \in Mask!Rows |-> WithEOS(Len(batch[r].offsets))]
        /\ reward \in [Mask!Rows -> {0, 1}]
    BY DEF Init
  <1>3. FinderInv
    BY <1>1, <1>2, BatchRow DEF FinderInv, Finder!Phrases
  <1>4. BatchInv
    <2>1. ASSUME NEW r \in Mask!Rows PROVE ListInv(r)
      <3>1. spans[r] = <<>> /\ DOMAIN spans[r] = {} /\ spans[r] \in Seq(Nat \X Nat)
        BY <1>2
      <3>2. Quoted(r) \subseteq Open(r)
        <4>1. r # 1 => ~ (r < row) /\ r # row
          BY <1>2 DEF Mask!Rows
        <4>2. r = 1 => Quoted(r) = {left[m] : m \in DOMAIN left}
          BY <1>2 DEF Quoted
        <4> QED
          BY <1>2, <4>1, <4>2 DEF Open
      <3> QED
        BY <3>1, <3>2 DEF ListInv
    <2>2. left \in Seq(Quoted(1))
      BY <1>1, <1>2, BatchRow
    <2> QED
      BY <1>1, <1>2, <2>1, <2>2 DEF BatchInv
  <1>5. MaskInv
    <2>1. ASSUME NEW r \in Mask!Rows PROVE valid[r] \in 1 .. RespLen
      BY <1>2, BatchRow, ValidLength
    <2> QED
      BY <1>2, <2>1 DEF MaskInv
  <1> QED
    BY <1>3, <1>4, <1>5 DEF FlaggedInv

\* While phrases are looked up, the mask waits.
LEMMA MaskWaits ==
  ASSUME MaskInv, UNCHANGED <<valid, reward>>, pc = "find", pc' \in {"find", "pad"}
  PROVE  MaskInv'
  BY DEF MaskInv

\* The next phrase of the row.
LEMMA NextPhraseKeeps ==
  ASSUME FlaggedInv, NextPhrase
  PROVE  FlaggedInv'
  <1>1. /\ pc = "find" /\ fpc = "done" /\ left # <<>> /\ spans' = Kept
        /\ phrase' = Head(left) /\ left' = Tail(left) /\ fpc' = "find"
        /\ i' = 0 /\ tokenStart' = Finder!None /\ tokenEnd' = Finder!None
        /\ region' = Finder!NotFound
        /\ UNCHANGED <<batch, row, offsets, pc, valid, reward>>
    BY DEF NextPhrase
  <1>2. FinderInv /\ BatchInv /\ MaskInv
    BY DEF FlaggedInv
  <1>3. /\ batch \in Batches /\ row \in Mask!Rows /\ left \in Seq(Quoted(row))
        /\ offsets = batch[row].offsets
    BY <1>2 DEF BatchInv
  <1>4. /\ Head(left) \in Quoted(row) /\ Tail(left) \in Seq(Quoted(row))
        /\ \A m \in DOMAIN left : left[m] = Head(left)
             \/ \E n \in DOMAIN Tail(left) : left[m] = Tail(left)[n]
    <2>1. Head(left) \in Quoted(row) /\ Tail(left) \in Seq(Quoted(row))
      BY <1>1, <1>3
    <2>2. ASSUME NEW m \in DOMAIN left, m # 1
          PROVE  m - 1 \in DOMAIN Tail(left) /\ Tail(left)[m - 1] = left[m]
      BY <1>1, <1>3, <2>2
    <2>3. left[1] = Head(left)
      BY <1>1, <1>3
    <2> QED
      BY <2>1, <2>2, <2>3
  <1>5. FinderInv'
    <2>1. phrase' \in Finder!Phrases
      BY <1>1, <1>3, <1>4, BatchRow
    <2> QED
      BY <1>1, <1>2, <2>1 DEF FinderInv
  <1>6. BatchInv'
    <2>1. ASSUME NEW r \in Mask!Rows PROVE ListInv(r)'
      <3>1. /\ spans'[r] \in Seq(Nat \X Nat)
            /\ \A k \in DOMAIN spans'[r] : \E p \in Quoted(r) \ {Finder!NotFound} :
                  Covers(batch[r].offsets, p, spans'[r][k])
        BY <1>1, <1>2, KeptList
      <3>2. ASSUME NEW p \in Quoted(r) \ {Finder!NotFound}
            PROVE  p \in Open(r)' \/ Settled(r, spans'[r], p)
        <4>1. CASE Settled(r, spans'[r], p)
          BY <4>1
        <4>2. CASE p \in Open(r) /\ (r = row => p \in {left[m] : m \in DOMAIN left})
          <5>1. CASE r = row
            <6>1. ~ (r < row)
              BY <5>1 DEF Mask!Rows
            <6> QED
              BY <1>1, <1>4, <4>2, <5>1, <6>1 DEF Open
          <5>2. CASE r # row
            BY <1>1, <4>2, <5>2 DEF Open, Quoted
          <5> QED
            BY <5>1, <5>2
        <4> QED
          BY <1>1, <1>2, KeptList, <4>1, <4>2
      <3> QED
        BY <1>1, <3>1, <3>2 DEF ListInv, Settled, Quoted
    <2>2. DOMAIN spans' = Mask!Rows
      BY <1>1, <1>2, KeptList
    <2>3. left' \in Seq(Quoted(row)') /\ phrase' \in Quoted(row)'
      BY <1>1, <1>4 DEF Quoted
    <2> QED
      BY <1>1, <1>3, <2>1, <2>2, <2>3 DEF BatchInv
  <1>7. MaskInv'
    BY <1>1, <1>2, MaskWaits
  <1> QED
    BY <1>5, <1>6, <1>7 DEF FlaggedInv

\* A step of the lookup leaves the lists alone.
LEMMA FindStepKeeps ==
  ASSUME FlaggedInv, FindStep
  PROVE  FlaggedInv'
  <1>1. /\ pc = "find" /\ Finder!Next /\ UNCHANGED <<batch, row, left>>
        /\ UNCHANGED <<pc, spans, valid, reward>>
    BY DEF FindStep, maskVars
  <1>2. FinderInv /\ BatchInv /\ MaskInv
    BY DEF FlaggedInv
  <1>3. FinderInv'
    BY <1>1, <1>2, FindKeeps, ScanKeeps, ScanEndsKeeps, FixKeeps DEF Finder!Next
  <1>4. UNCHANGED <<offsets, phrase>>
    BY <1>1 DEF Finder!Next, Finder!Find, Finder!Scan, Finder!ScanEnds, Finder!Fix
  <1>5. BatchInv'
    BY <1>1, <1>2, <1>4 DEF BatchInv, ListInv, Open, Quoted
  <1>6. MaskInv'
    BY <1>1, <1>2, MaskWaits
  <1> QED
    BY <1>3, <1>5, <1>6 DEF FlaggedInv

\* The next row, or the end of the lookups.
LEMMA NextRowKeeps ==
  ASSUME FlaggedInv, NextRow
  PROVE  FlaggedInv'
  <1>1. /\ pc = "find" /\ fpc = "done" /\ left = <<>> /\ spans' = Kept
        /\ phrase' = Finder!NotFound /\ region' = Finder!NotFound
        /\ UNCHANGED <<batch, fpc, i, tokenStart, tokenEnd, valid, reward>>
        /\ \/ /\ row < NRows /\ row' = row + 1 /\ left' = batch[row + 1].phrases
              /\ offsets' = batch[row + 1].offsets /\ UNCHANGED pc
           \/ /\ ~ (row < NRows) /\ pc' = "pad" /\ UNCHANGED <<row, left, offsets>>
    BY DEF NextRow
  <1>2. FinderInv /\ BatchInv /\ MaskInv
    BY DEF FlaggedInv
  <1>3. /\ batch \in Batches /\ row \in Mask!Rows
        /\ offsets = batch[row].offsets /\ NRows \in Nat /\ row \in Nat /\ row <= NRows
    BY <1>2, FlaggedAssumption DEF BatchInv, Mask!Rows
  <1>4. row' \in Mask!Rows /\ offsets' = batch[row'].offsets /\ left' \in Seq(Quoted(row'))
        /\ row' \in {row, row + 1}
    <2>1. CASE row' = row + 1 /\ row < NRows /\ left' = batch[row + 1].phrases
               /\ offsets' = batch[row + 1].offsets
      <3>1. row + 1 \in Mask!Rows
        BY <1>3, <2>1 DEF Mask!Rows
      <3> QED
        BY <1>3, <2>1, <3>1, BatchRow
    <2>2. CASE UNCHANGED <<row, left, offsets>>
      BY <1>2, <1>3, <2>2 DEF BatchInv
    <2> QED
      BY <1>1, <2>1, <2>2
  <1>5. FinderInv'
    <2>1. offsets' \in Finder!Encodings
      BY <1>3, <1>4, BatchRow
    <2> QED
      BY <1>1, <1>2, <2>1 DEF FinderInv, Finder!Phrases
  <1>6. ASSUME NEW r \in Mask!Rows PROVE ListInv(r)'
    <2>1. /\ spans'[r] \in Seq(Nat \X Nat)
          /\ \A k \in DOMAIN spans'[r] : \E p \in Quoted(r) \ {Finder!NotFound} :
                Covers(batch[r].offsets, p, spans'[r][k])
      BY <1>1, <1>2, KeptList
    <2>2. ASSUME NEW p \in Quoted(r) \ {Finder!NotFound}
          PROVE  p \in Open(r)' \/ Settled(r, spans'[r], p)
      <3>1. CASE Settled(r, spans'[r], p)
        BY <3>1
      <3>2. CASE p \in Open(r) /\ (r = row => p \in {left[m] : m \in DOMAIN left})
        <4>1. r # row
          BY <1>1, <3>2
        <4>2. r \in Nat /\ ~ (r < row)
          BY <1>3, <3>2 DEF Open, Mask!Rows
        <4>3. row < r /\ row < NRows
          BY <1>3, <4>1, <4>2 DEF Mask!Rows
        <4>4. row' = row + 1 /\ left' = batch[row + 1].phrases
          BY <1>1, <4>3
        <4>5. CASE r = row + 1
          <5>1. Quoted(r) = {left'[m] : m \in DOMAIN left'}
            BY <4>4, <4>5 DEF Quoted
          <5>2. ~ (r < row') /\ r = row'
            BY <1>3, <4>4, <4>5
          <5> QED
            BY <5>1, <5>2 DEF Open
        <4>6. CASE r # row + 1
          <5>1. ~ (r < row') /\ r # row'
            BY <1>3, <4>2, <4>3, <4>4, <4>6
          <5> QED
            BY <1>1, <5>1 DEF Open, Quoted
        <4> QED
          BY <4>5, <4>6
      <3> QED
        BY <1>1, <1>2, KeptList, <3>1, <3>2
    <2> QED
      BY <1>1, <2>1, <2>2 DEF ListInv, Settled, Quoted
  <1>7. BatchInv'
    <2>1. DOMAIN spans' = Mask!Rows
      BY <1>1, <1>2, KeptList
    <2>2. left' \in Seq(Quoted(row)')
      BY <1>1, <1>4 DEF Quoted
    <2>3. pc' # "find" => row' = NRows /\ left' = <<>> /\ phrase' = Finder!NotFound
      BY <1>1, <1>3
    <2> QED
      BY <1>1, <1>3, <1>4, <1>6, <2>1, <2>2, <2>3 DEF BatchInv
  <1>8. MaskInv'
    BY <1>1, <1>2, MaskWaits
  <1> QED
    BY <1>5, <1>7, <1>8 DEF FlaggedInv

-----------------------------------------------------------------------------
(* Padding, mask and advantage.                                            *)

\* Of some numbers one is the greatest.
LEMMA GreatestOf ==
  ASSUME NEW n \in Nat \ {0}, NEW f, \A r \in 1 .. n : f[r] \in Nat
  PROVE  \E w \in 1 .. n : \A r \in 1 .. n : f[r] <= f[w]
  <1> DEFINE Tops(k) == \E w \in 1 .. k : \A r \in 1 .. k : f[r] <= f[w]
             Topless == {k \in 1 .. n : ~ Tops(k)}
  <1>1. SUFFICES ASSUME Topless # {} PROVE FALSE
    <2>1. n \in 1 .. n
      OBVIOUS
    <2> QED
      BY <2>1
  <1>2. PICK k \in Topless : \A m \in Topless : k <= m
    <2>1. Topless \in SUBSET Nat
      OBVIOUS
    <2> HIDE DEF Topless
    <2> QED
      BY <1>1, <2>1, LeastNumber
  <1>3. k \in 1 .. n /\ ~ Tops(k)
    BY <1>2
  <1>4. k # 1
    <2>1. Tops(1)
      BY <1>3
    <2> QED
      BY <1>3, <2>1
  <1>5. k - 1 \in 1 .. n /\ k - 1 \notin Topless
    <2> HIDE DEF Tops
    <2>1. k \in 1 .. n /\ k - 1 \in 1 .. n /\ ~ (k <= k - 1)
      BY <1>3, <1>4
    <2> HIDE DEF Topless
    <2> QED
      BY <1>2, <2>1
  <1>6. PICK w \in 1 .. (k - 1) : \A r \in 1 .. (k - 1) : f[r] <= f[w]
    BY <1>5
  <1>7. f[w] \in Nat /\ f[k] \in Nat /\ w \in 1 .. k /\ k \in 1 .. k
    BY <1>3, <1>6
  <1>8. \A r \in 1 .. k : r = k \/ r \in 1 .. (k - 1)
    BY <1>3
  <1>9. CASE f[k] <= f[w]
    BY <1>3, <1>6, <1>7, <1>8, <1>9
  <1>10. CASE f[w] <= f[k]
    <2>1. ASSUME NEW r \in 1 .. k PROVE f[r] <= f[k]
      <3>1. CASE r = k
        BY <1>7, <3>1
      <3>2. CASE r \in 1 .. (k - 1)
        <4>1. f[r] \in Nat /\ f[r] <= f[w]
          BY <1>3, <1>6, <3>2
        <4> QED
          BY <1>7, <1>10, <4>1
      <3> QED
        BY <1>8, <3>1, <3>2
    <2> QED
      BY <1>3, <1>7, <2>1
  <1> QED
    BY <1>7, <1>9, <1>10

\* A list of lists has a longest one.
LEMMA WidthIsLongest ==
  ASSUME \A r \in Mask!Rows : Len(spans[r]) \in Nat
  PROVE  Mask!Width \in Nat /\ \A r \in Mask!Rows : Len(spans[r]) <= Mask!Width
  <1> DEFINE f == [r \in Mask!Rows |-> Len(spans[r])]
             Lens == {Len(spans[r]) : r \in Mask!Rows}
  <1>1. NRows \in Nat \ {0} /\ Mask!Rows = 1 .. NRows
    BY FlaggedAssumption DEF Mask!Rows
  <1>2. \A r \in Mask!Rows : f[r] = Len(spans[r]) /\ f[r] \in Nat
    OBVIOUS
  <1>3. PICK w \in Mask!Rows : \A r \in Mask!Rows : f[r] <= f[w]
    <2> HIDE DEF f
    <2> QED
      BY <1>1, <1>2, GreatestOf
  <1>4. f[w] \in Lens /\ \A y \in Lens : f[w] >= y
    <2>1. ASSUME NEW r \in Mask!Rows PROVE f[w] >= Len(spans[r])
      <3>1. f[r] <= f[w] /\ f[r] \in Nat /\ f[w] \in Nat /\ f[r] = Len(spans[r])
        BY <1>2, <1>3
      <3> HIDE DEF f
      <3> QED
        BY <3>1
    <2>2. f[w] = Len(spans[w])
      BY <1>2, <1>3
    <2> HIDE DEF f
    <2> QED
      BY <2>1, <2>2
  <1>5. Mask!Width = CHOOSE x \in Lens : \A y \in Lens : x >= y
    BY DEF Mask!Width, Mask!Max
  <1>6. Mask!Width \in Lens /\ \A y \in Lens : Mask!Width >= y
    <2> HIDE DEF Lens
    <2> QED
      BY <1>4, <1>5
  <1>7. PICK v \in Mask!Rows : Mask!Width = Len(spans[v])
    BY <1>6
  <1>8. ASSUME NEW r \in Mask!Rows PROVE Len(spans[r]) <= Mask!Width
    <2>1. Len(spans[r]) \in Lens
      OBVIOUS
    <2>2. Len(spans[r]) \in Nat /\ Mask!Width \in Nat /\ Mask!Width >= Len(spans[r])
      BY <1>6, <1>7, <2>1
    <2> QED
      BY <2>2
  <1> QED
    BY <1>7, <1>8

\* Every list is padded behind its spans.
LEMMA PadKeeps ==
  ASSUME FlaggedInv, Mask!Pad, UNCHANGED <<batch, row, left, finderVars>>
  PROVE  FlaggedInv'
  <1>1. /\ pc = "pad" /\ pc' = "mask" /\ UNCHANGED <<spans, valid, reward>>
        /\ positions' = [r \in Mask!Rows |-> [k \in 1 .. Mask!Width |->
              IF k <= Len(spans[r]) THEN spans[r][k]
              ELSE <<Mask!Filler, Mask!Filler>>]]
    BY DEF Mask!Pad, Mask!inputVars
  <1>2. FinderInv /\ BatchInv /\ MaskInv
    BY DEF FlaggedInv
  <1>3. ASSUME NEW r \in Mask!Rows
        PROVE  Len(spans[r]) \in Nat /\ DOMAIN spans[r] = 1 .. Len(spans[r])
    BY <1>2 DEF BatchInv, ListInv
  <1>4. Mask!Width \in Nat /\ \A r \in Mask!Rows : Len(spans[r]) <= Mask!Width
    BY <1>3, WidthIsLongest
  <1>5. ASSUME NEW r \in Mask!Rows PROVE PaddedInv(r)'
    <2>1. positions'[r] = [k \in 1 .. Mask!Width |->
             IF k <= Len(spans[r]) THEN spans[r][k] ELSE <<Mask!Filler, Mask!Filler>>]
      BY <1>1
    <2>2. DOMAIN positions'[r] = 1 .. Mask!Width
      BY <2>1
    <2>3. DOMAIN spans[r] \subseteq DOMAIN positions'[r]
      BY <1>3, <1>4, <2>2
    <2>4. ASSUME NEW k \in DOMAIN positions'[r]
          PROVE  positions'[r][k] = IF k \in DOMAIN spans[r] THEN spans[r][k]
                                    ELSE <<Mask!Filler, Mask!Filler>>
      BY <1>3, <1>4, <2>1, <2>2
    <2> QED
      BY <1>1, <2>3, <2>4 DEF PaddedInv, Mask!Filler
  <1>6. MaskInv'
    BY <1>1, <1>2, <1>5 DEF MaskInv
  <1>7. FinderInv' /\ BatchInv'
    BY <1>1, <1>2 DEF finderVars, FinderInv, StartKnown, EndKnown, Seen, BatchInv, ListInv, Open,
                      Quoted
  <1> QED
    BY <1>6, <1>7 DEF FlaggedInv

\* The columns of a span are its tokens, as far as the tensor goes.
LEMMA ColumnsOfSpan ==
  ASSUME NEW g \in Nat \X Nat, NEW t \in Mask!Tokens
  PROVE  t \in Mask!Columns(g) <=> t \in g[1] .. (g[2] - 1)
  <1>1. g[1] \in Nat /\ g[2] \in Nat /\ g[1] # Mask!Filler /\ g[2] # Mask!Filler
    BY DEF Mask!Filler
  <1>2. t \in 0 .. (RespLen - 1) /\ RespLen \in Nat
    BY FlaggedAssumption DEF Mask!Tokens
  <1> DEFINE ends == {g[2] - 1, RespLen - 1}
  <1>3. Mask!Min(ends) \in ends /\ \A y \in ends : Mask!Min(ends) <= y
    <2>1. \E x \in ends : \A y \in ends : x <= y
      BY <1>1, <1>2
    <2> QED
      BY <2>1 DEF Mask!Min
  <1>4. Mask!Columns(g) = IF g[1] >= RespLen THEN {} ELSE g[1] .. Mask!Min(ends)
    BY <1>1 DEF Mask!Columns, Mask!LastToken
  <1> HIDE DEF ends
  <1>5. Mask!Min(ends) = g[2] - 1 \/ Mask!Min(ends) = RespLen - 1
    BY <1>3 DEF ends
  <1>6. Mask!Min(ends) <= g[2] - 1 /\ Mask!Min(ends) <= RespLen - 1
    BY <1>3 DEF ends
  <1> QED
    BY <1>1, <1>2, <1>4, <1>5, <1>6

\* A token is marked when a span holds it.
LEMMA CreateMaskKeeps ==
  ASSUME FlaggedInv, Mask!CreatePenaltyMask, UNCHANGED <<batch, row, left, finderVars>>
  PROVE  FlaggedInv'
  <1>1. /\ pc = "mask" /\ pc' = "advantage" /\ UNCHANGED <<spans, valid, reward, positions>>
        /\ mask' = [r \in Mask!Rows |-> [t \in Mask!Tokens |->
              IF \E k \in DOMAIN positions[r] : t \in Mask!Columns(positions[r][k])
              THEN 1 ELSE 0]]
    BY DEF Mask!CreatePenaltyMask, Mask!inputVars
  <1>2. FinderInv /\ BatchInv /\ MaskInv
    BY DEF FlaggedInv
  <1>3. ASSUME NEW r \in Mask!Rows, NEW t \in Mask!Tokens
        PROVE  mask'[r][t] = MaskOf(r, t)'
    <2>1. mask'[r][t] = IF \E k \in DOMAIN positions[r] : t \in Mask!Columns(positions[r][k])
                        THEN 1 ELSE 0
      BY <1>1
    <2>2. spans[r] \in Seq(Nat \X Nat) /\ PaddedInv(r)
      BY <1>1, <1>2 DEF BatchInv, ListInv, MaskInv
    <2>3. Mask!Columns(<<Mask!Filler, Mask!Filler>>) = {}
      BY DEF Mask!Columns
    <2>4. ASSUME NEW k \in DOMAIN spans[r]
          PROVE  t \in Mask!Columns(spans[r][k]) <=> t \in spans[r][k][1] .. (spans[r][k][2] - 1)
      BY <2>2, ColumnsOfSpan
    <2>5. (\E k \in DOMAIN positions[r] : t \in Mask!Columns(positions[r][k]))
          <=> Mask!Flagged(r, t)
      BY <2>2, <2>3, <2>4 DEF PaddedInv, Mask!Flagged
    <2>6. MaskOf(r, t)' = IF Mask!Flagged(r, t) THEN 1 ELSE 0
      BY <1>1 DEF MaskOf, Mask!Flagged
    <2> QED
      BY <2>1, <2>5, <2>6
  <1>4. MaskInv'
    BY <1>1, <1>2, <1>3 DEF MaskInv
  <1>5. FinderInv' /\ BatchInv'
    BY <1>1, <1>2 DEF finderVars, FinderInv, StartKnown, EndKnown, Seen, BatchInv, ListInv, Open,
                      Quoted
  <1> QED
    BY <1>4, <1>5 DEF FlaggedInv

\* The advantages are lowered under the mask.
LEMMA AdvantageKeeps ==
  ASSUME FlaggedInv, Mask!ComputeAdvantage, UNCHANGED <<batch, row, left, finderVars>>
  PROVE  FlaggedInv'
  <1>1. /\ pc = "advantage" /\ pc' = "done"
        /\ UNCHANGED <<spans, valid, reward, uid, positions, mask>>
        /\ advantages' = [r \in Mask!Rows |-> [t \in Mask!Tokens |->
              LET a == Mask!Centred(r) * Mask!ResponseMask(r, t) IN
              IF mask[r][t] = 1 THEN Mask!Penalised(a) ELSE Unit * a]]
    BY DEF Mask!ComputeAdvantage, Mask!inputVars
  <1>2. FinderInv /\ BatchInv /\ MaskInv
    BY DEF FlaggedInv
  <1>3. ASSUME NEW r \in Mask!Rows, NEW t \in Mask!Tokens
        PROVE  mask'[r][t] = MaskOf(r, t)' /\ advantages'[r][t] = AdvantageOf(r, t)'
    <2>1. mask[r][t] = MaskOf(r, t) /\ MaskOf(r, t)' = MaskOf(r, t)
      BY <1>1, <1>2 DEF MaskInv, MaskOf, Mask!Flagged
    <2>2. advantages'[r][t] = AdvantageOf(r, t)
      BY <1>1, Zenon DEF AdvantageOf
    <2>3. AdvantageOf(r, t)' = AdvantageOf(r, t)
      BY <1>1 DEF AdvantageOf, Mask!Centred, Mask!GroupMean, Mask!Group, Mask!ResponseMask,
                  Mask!Penalised
    <2> QED
      BY <1>1, <2>1, <2>2, <2>3
  <1>4. MaskInv'
    BY <1>1, <1>2, <1>3 DEF MaskInv
  <1>5. FinderInv' /\ BatchInv'
    BY <1>1, <1>2 DEF finderVars, FinderInv, StartKnown, EndKnown, Seen, BatchInv, ListInv, Open,
                      Quoted
  <1> QED
    BY <1>4, <1>5 DEF FlaggedInv

\* Every step keeps the invariant.
LEMMA StepFlagged == FlaggedInv /\ [Next]_vars => FlaggedInv'
  <1>1. ASSUME FlaggedInv, UNCHANGED vars PROVE FlaggedInv'
    <2>1. UNCHANGED <<batch, row, left, fpc, offsets, phrase, i, tokenStart, tokenEnd, region>>
          /\ UNCHANGED <<pc, spans, valid, reward, uid, positions, mask, advantages>>
      BY <1>1 DEF vars, finderVars, maskVars
    <2>2. FinderInv' /\ BatchInv'
      BY <1>1, <2>1 DEF FlaggedInv, FinderInv, StartKnown, EndKnown, Seen, BatchInv, ListInv,
                        Open, Quoted
    <2>3. \A r, t : AdvantageOf(r, t)' = AdvantageOf(r, t) /\ MaskOf(r, t)' = MaskOf(r, t)
                    /\ PaddedInv(r)' = PaddedInv(r)
      BY <2>1 DEF AdvantageOf, Mask!Centred, Mask!GroupMean, Mask!Group, Mask!ResponseMask,
                  Mask!Penalised, MaskOf, Mask!Flagged, PaddedInv
    <2>4. MaskInv'
      BY <1>1, <2>1, <2>3 DEF FlaggedInv, MaskInv
    <2> QED
      BY <2>2, <2>4 DEF FlaggedInv
  <1>2. ASSUME FlaggedInv, MaskStep PROVE FlaggedInv'
    BY <1>2, PadKeeps, CreateMaskKeeps, AdvantageKeeps DEF MaskStep, Mask!Next
  <1> QED
    BY <1>1, <1>2, NextPhraseKeeps, FindStepKeeps, NextRowKeeps DEF Next

\* The inductive invariant of lookup, mask and advantage.
THEOREM FlaggedInvariance == Spec => []FlaggedInv
  BY InitFlagged, StepFlagged, PTL DEF Spec

-----------------------------------------------------------------------------
(* What the invariant says of the tokens, and of the advantages.           *)

\* _find_single_substring: a quoted phrase gets a range if and only if it is
\* in the response, wherever it starts and ends between the tokens.
THEOREM FoundWhenInText == Spec => []FoundIffInText
  <1>1. FlaggedInv => FoundIffInText
    BY CoversIsFound DEF FlaggedInv, FinderInv, FoundIffInText, Finder!FoundIffInText
  <1> QED
    BY <1>1, FlaggedInvariance, PTL

\* From the quotation to the mask (process_verify, pad_nested_list and
\* create_penalty_mask_vectorized): the marked tokens are those of the quoted
\* phrases, for any tokenization, but for the later ones of a cut last character.
THEOREM MarksAreQuotes == Spec => []MarkedIffQuoted
  <1>1. ASSUME FlaggedInv, pc \in {"advantage", "done"}, NEW r \in Mask!Rows,
               NEW t \in Mask!Tokens, HasToken(r, t)
        PROVE  LET marked(u) == mask[r][u] = 1
                   touched == {p \in Quoted(r) \ {<<0, 0>>, Finder!NotFound} :
                                 Touches(Offset(r, t), p)}
               IN  /\ marked(t) => touched # {} \/ Offset(r, t)[1] = Offset(r, t)[2]
                   /\ \A p \in touched :
                        \/ marked(t)
                        \/ /\ Offset(r, t)[1] = p[2] - 1
                           /\ \E u \in 0 .. (t - 1) : marked(u) /\ Offset(r, u)[2] = p[2]
    <2> DEFINE o == batch[r].offsets
               touched == {p \in Quoted(r) \ {<<0, 0>>, Finder!NotFound} :
                             Touches(o[t + 1], p)}
    <2>1. /\ batch \in Batches /\ spans[r] \in Seq(Nat \X Nat)
          /\ \A k \in DOMAIN spans[r] : \E p \in Quoted(r) \ {Finder!NotFound} :
                Covers(o, p, spans[r][k])
          /\ \A p \in Quoted(r) \ {Finder!NotFound} :
                \E k \in DOMAIN spans[r] : Covers(o, p, spans[r][k])
      <3>1. ListInv(r) /\ row = NRows /\ left = <<>> /\ phrase = Finder!NotFound
            /\ batch \in Batches
        BY <1>1 DEF FlaggedInv, BatchInv
      <3>2. \A p \in Quoted(r) \ {Finder!NotFound} : p \notin Open(r)
        BY <3>1, FlaggedAssumption DEF Open, Mask!Rows
      <3> QED
        BY <3>1, <3>2 DEF ListInv
    <2>2. o \in Finder!Encodings /\ Len(o) \in Nat
      BY <2>1, BatchRow, EncodingLength
    <2>3. t \in IndicesOf(o) /\ t \in Nat
      BY <1>1, <2>2, FlaggedAssumption DEF HasToken, IndicesOf, Mask!Tokens
    <2>4. \A u \in Mask!Tokens : mask[r][u] = 1 <=> Mask!Flagged(r, u)
      BY <1>1 DEF FlaggedInv, MaskInv, MaskOf
    <2>5. ASSUME mask[r][t] = 1
          PROVE  touched # {} \/ o[t + 1][1] = o[t + 1][2]
      <3>1. PICK k \in DOMAIN spans[r] : t \in spans[r][k][1] .. (spans[r][k][2] - 1)
        BY <2>4, <2>5 DEF Mask!Flagged
      <3>2. PICK p \in Quoted(r) \ {Finder!NotFound} : Covers(o, p, spans[r][k])
        BY <2>1
      <3>3. spans[r][k][1] <= t /\ t < spans[r][k][2]
        BY <2>3, <3>1, <3>2 DEF Covers
      <3>4. (p # <<0, 0>> /\ Touches(o[t + 1], p)) \/ o[t + 1][1] = o[t + 1][2]
        BY <2>3, <3>2, <3>3 DEF Covers
      <3> QED
        BY <3>4
    <2>6. ASSUME NEW p \in touched
          PROVE  \/ mask[r][t] = 1
                 \/ /\ o[t + 1][1] = p[2] - 1
                    /\ \E u \in 0 .. (t - 1) : mask[r][u] = 1 /\ o[u + 1][2] = p[2]
      <3>1. p \in Quoted(r) \ {Finder!NotFound} /\ p # <<0, 0>> /\ Touches(o[t + 1], p)
        BY <2>6
      <3>2. PICK k \in DOMAIN spans[r] : Covers(o, p, spans[r][k])
        BY <2>1, <3>1
      <3>3. \A u \in 0 .. t : spans[r][k][1] <= u /\ u < spans[r][k][2] => mask[r][u] = 1
        <4>1. SUFFICES ASSUME NEW u \in 0 .. t, spans[r][k][1] <= u, u < spans[r][k][2]
                       PROVE  mask[r][u] = 1
          OBVIOUS
        <4>2. u \in Mask!Tokens
          BY <1>1, <2>3, FlaggedAssumption DEF Mask!Tokens
        <4>3. u \in spans[r][k][1] .. (spans[r][k][2] - 1)
          BY <2>3, <3>2, <4>1 DEF Covers
        <4> QED
          BY <2>4, <4>2, <4>3 DEF Mask!Flagged
      <3>4. t \in 0 .. t /\ 0 .. (t - 1) \subseteq 0 .. t
        BY <2>3
      <3> QED
        BY <2>3, <3>1, <3>2, <3>3, <3>4 DEF Covers
    <2> QED
      BY <2>5, <2>6 DEF Offset
  <1>2. FlaggedInv => MarkedIffQuoted
    BY <1>1 DEF MarkedIffQuoted
  <1> QED
    BY <1>2, FlaggedInvariance, PTL

\* A group is finite, and its mean is between 0 and 1.
LEMMA CentredRange ==
  ASSUME FlaggedInv, NEW r \in Mask!Rows
  PROVE  /\ Mask!Centred(r) \in Int
         /\ reward[r] = 1 => Mask!Centred(r) >= 0
         /\ reward[r] = 0 => Mask!Centred(r) <= 0
         /\ \A q \in Mask!Rows : uid[q] = uid[r] /\ reward[q] = reward[r] =>
                Mask!Centred(q) = Mask!Centred(r)
  <1> DEFINE G == Mask!Group(r)
             Ones == {j \in G : reward[j] = 1}
  <1>1. IsFiniteSet(G) /\ IsFiniteSet(Ones)
    <2>1. IsFiniteSet(1 .. NRows)
      BY FlaggedAssumption, FS_Interval
    <2>2. G \subseteq 1 .. NRows /\ Ones \subseteq G
      BY DEF Mask!Group, Mask!Rows
    <2> HIDE DEF G, Ones
    <2> QED
      BY <2>1, <2>2, FS_Subset
  <1>2. Cardinality(G) \in Nat /\ Cardinality(Ones) \in Nat /\ Cardinality(Ones) <= Cardinality(G)
    <2>1. Ones \subseteq G
      OBVIOUS
    <2> HIDE DEF G, Ones
    <2> QED
      BY <1>1, <2>1, FS_Subset, FS_CardinalityType
  <1>3. /\ Mask!Centred(r) = reward[r] * Cardinality(G) - Mask!GroupMean(r)
        /\ Mask!GroupMean(r) = IF Cardinality(G) = 1 THEN 0 ELSE Cardinality(Ones)
    BY DEF Mask!Centred, Mask!GroupMean, Mask!Cardinality, Cardinality
  <1>4. reward[r] \in {0, 1}
    BY DEF FlaggedInv, MaskInv
  <1>5. ASSUME NEW q \in Mask!Rows, uid[q] = uid[r], reward[q] = reward[r]
        PROVE  Mask!Centred(q) = Mask!Centred(r)
    <2>1. Mask!Group(q) = Mask!Group(r)
      BY <1>5 DEF Mask!Group
    <2> QED
      BY <1>5, <2>1 DEF Mask!Centred, Mask!GroupMean
  <1> HIDE DEF G, Ones
  <1>6. CASE reward[r] = 1
    BY <1>2, <1>3, <1>5, <1>6
  <1>7. CASE reward[r] = 0
    BY <1>2, <1>3, <1>5, <1>7
  <1> QED
    BY <1>4, <1>6, <1>7

\* The penalty lowers what is not zero.
LEMMA PenaltyLowers ==
  ASSUME NEW a \in Int
  PROVE  /\ Unit * a \in Int /\ Mask!Penalised(a) \in Int
         /\ Mask!Penalised(a) <= Unit * a
         /\ Mask!Penalised(a) = Unit * a => Penalty = 0 \/ Unit * a = 0
         /\ a >= 0 => Mask!Penalised(a) >= 0
         /\ a <= 0 => Unit * a <= 0
         /\ a >= 0 => Unit * a >= 0
  <1>1. Penalty \in Nat /\ Unit \in Nat /\ Penalty <= Unit
    BY FlaggedAssumption
  <1>2. /\ Mask!Abs(a) \in Nat /\ (Mask!Abs(a) = 0 => a = 0)
        /\ (a >= 0 => Mask!Abs(a) = a)
    BY DEF Mask!Abs
  <1>3. ASSUME NEW x \in Nat, NEW y \in Nat
        PROVE  x * y \in Nat /\ (x * y = 0 => x = 0 \/ y = 0)
    OBVIOUS
  <1>4. Mask!Penalised(a) = Unit * a - Penalty * Mask!Abs(a)
    BY DEF Mask!Penalised
  <1>5. Unit * a \in Int
    BY <1>1
  <1>6. /\ Penalty * Mask!Abs(a) \in Nat
        /\ Penalty * Mask!Abs(a) = 0 => Penalty = 0 \/ a = 0
    BY <1>1, <1>2, <1>3
  <1>7. a = 0 => Unit * a = 0
    BY <1>1
  <1>8. a >= 0 => Mask!Penalised(a) >= 0
    <2>1. SUFFICES ASSUME a >= 0 PROVE Mask!Penalised(a) >= 0
      OBVIOUS
    <2>2. Mask!Penalised(a) = Unit * a - Penalty * a
      BY <1>2, <1>4, <2>1
    <2>3. Unit - Penalty \in Nat /\ a \in Nat
      BY <1>1, <2>1
    <2>4. (Unit - Penalty) * a \in Nat
      BY <1>3, <2>3
    <2>5. Unit * a - Penalty * a = (Unit - Penalty) * a
      BY <1>1
    <2> QED
      BY <2>2, <2>4, <2>5
  <1>9. /\ a <= 0 => Unit * a <= 0
        /\ a >= 0 => Unit * a >= 0
    BY <1>1
  <1> QED
    BY <1>4, <1>5, <1>6, <1>7, <1>8, <1>9

\* The advantage of a token of the response, flagged or not.
LEMMA AdvantageCases ==
  ASSUME FlaggedInv, pc = "done", NEW r \in Mask!Rows, NEW t \in 0 .. (valid[r] - 1)
  PROVE  /\ Mask!Centred(r) \in Int
         /\ advantages[r][t] = IF Mask!Flagged(r, t) THEN Mask!Penalised(Mask!Centred(r))
                               ELSE Unit * Mask!Centred(r)
  <1>1. valid[r] \in 1 .. RespLen
    BY DEF FlaggedInv, MaskInv
  <1>2. t \in Mask!Tokens /\ t < valid[r]
    BY <1>1, FlaggedAssumption DEF Mask!Tokens
  <1>3. mask[r][t] = MaskOf(r, t) /\ advantages[r][t] = AdvantageOf(r, t)
    BY <1>2 DEF FlaggedInv, MaskInv
  <1>4. Mask!Centred(r) \in Int
    BY CentredRange
  <1>5. Mask!Centred(r) * Mask!ResponseMask(r, t) = Mask!Centred(r)
    BY <1>2, <1>4 DEF Mask!ResponseMask
  <1>6. mask[r][t] = 1 <=> Mask!Flagged(r, t)
    BY <1>3 DEF MaskOf
  <1> QED
    BY <1>3, <1>4, <1>5, <1>6 DEF AdvantageOf

\* compute_TRM_outcome_advantage: at equal rewards a flagged token never has
\* the better advantage, and has the worse one unless there is nothing to lose.
THEOREM FlagsOnlyCost == Spec => []FlaggedNeverGains
  <1>1. ASSUME FlaggedInv, pc = "done", NEW r \in Mask!Rows, NEW q \in Mask!Rows,
               uid[r] = uid[q], reward[r] = reward[q],
               NEW t \in 0 .. (valid[r] - 1), NEW u \in 0 .. (valid[q] - 1)
        PROVE  /\ Mask!Flagged(r, t) = Mask!Flagged(q, u) =>
                    advantages[r][t] = advantages[q][u]
               /\ Mask!Flagged(r, t) /\ ~ Mask!Flagged(q, u) =>
                    \/ advantages[r][t] < advantages[q][u]
                    \/ Penalty = 0 \/ advantages[q][u] = 0
    <2>1. PICK a \in Int : a = Mask!Centred(r) /\ a = Mask!Centred(q)
      BY <1>1, CentredRange
    <2>2. advantages[r][t] = IF Mask!Flagged(r, t) THEN Mask!Penalised(a) ELSE Unit * a
      BY <1>1, <2>1, AdvantageCases
    <2>3. advantages[q][u] = IF Mask!Flagged(q, u) THEN Mask!Penalised(a) ELSE Unit * a
      BY <1>1, <2>1, AdvantageCases
    <2>4. /\ Unit * a \in Int /\ Mask!Penalised(a) \in Int /\ Mask!Penalised(a) <= Unit * a
          /\ Mask!Penalised(a) = Unit * a => Penalty = 0 \/ Unit * a = 0
      BY <2>1, PenaltyLowers
    <2> QED
      BY <2>2, <2>3, <2>4
  <1>2. ASSUME FlaggedInv, pc = "done", NEW r \in Mask!Rows, NEW t \in Mask!Tokens,
               t >= valid[r]
        PROVE  advantages[r][t] = 0
    <2>1. advantages[r][t] = AdvantageOf(r, t) /\ valid[r] \in 1 .. RespLen
      BY <1>2 DEF FlaggedInv, MaskInv
    <2>2. Mask!Centred(r) * Mask!ResponseMask(r, t) = 0
      <3>1. Mask!Centred(r) \in Int
        BY <1>2, CentredRange
      <3>2. Mask!ResponseMask(r, t) = 0
        BY <1>2, <2>1, FlaggedAssumption DEF Mask!ResponseMask, Mask!Tokens
      <3> QED
        BY <3>1, <3>2
    <2>3. Unit * 0 = 0 /\ Mask!Penalised(0) = 0
      BY FlaggedAssumption DEF Mask!Penalised, Mask!Abs
    <2> QED
      BY <2>1, <2>2, <2>3 DEF AdvantageOf
  <1>3. FlaggedInv => FlaggedNeverGains
    BY <1>1, <1>2 DEF FlaggedNeverGains, Mask!FlaggedNeverGains
  <1> QED
    BY <1>3, FlaggedInvariance, PTL

\* compute_TRM_outcome_advantage: whatever is flagged, a better response of a
\* group never falls below a worse one, for any penalty up to one.
THEOREM RewardsStayInOrder == Spec => []OrderOfRewardsKept
  <1>1. ASSUME FlaggedInv, pc = "done", NEW r \in Mask!Rows, NEW q \in Mask!Rows,
               uid[r] = uid[q], reward[r] > reward[q],
               NEW t \in 0 .. (valid[r] - 1), NEW u \in 0 .. (valid[q] - 1)
        PROVE  advantages[r][t] >= advantages[q][u]
    <2>1. reward[r] = 1 /\ reward[q] = 0
      <3>1. reward[r] \in {0, 1} /\ reward[q] \in {0, 1}
        BY <1>1 DEF FlaggedInv, MaskInv
      <3> QED
        BY <1>1, <3>1
    <2>2. PICK a \in Int : a = Mask!Centred(r) /\ a >= 0
      BY <1>1, <2>1, CentredRange
    <2>3. PICK b \in Int : b = Mask!Centred(q) /\ b <= 0
      BY <1>1, <2>1, CentredRange
    <2>4. advantages[r][t] \in Int /\ advantages[r][t] >= 0
      <3>1. advantages[r][t] = IF Mask!Flagged(r, t) THEN Mask!Penalised(a) ELSE Unit * a
        BY <1>1, <2>2, AdvantageCases
      <3> QED
        BY <2>2, <3>1, PenaltyLowers
    <2>5. advantages[q][u] \in Int /\ advantages[q][u] <= 0
      <3>1. advantages[q][u] = IF Mask!Flagged(q, u) THEN Mask!Penalised(b) ELSE Unit * b
        BY <1>1, <2>3, AdvantageCases
      <3>2. /\ Unit * b \in Int /\ Mask!Penalised(b) \in Int /\ Mask!Penalised(b) <= Unit * b
            /\ Unit * b <= 0
        BY <2>3, PenaltyLowers
      <3> QED
        BY <3>1, <3>2
    <2> QED
      BY <2>4, <2>5
  <1>2. FlaggedInv => OrderOfRewardsKept
    BY <1>1 DEF OrderOfRewardsKept, Mask!OrderOfRewardsKept
  <1> QED
    BY <1>2, FlaggedInvariance, PTL
=============================================================================
