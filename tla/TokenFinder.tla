----------------------------- MODULE TokenFinder -----------------------------
(***************************************************************************)
(* SerialTokenPositionFinder._find_single_substring (verl/utils/           *)
(* reward_score/hallu_token_reward_vstar.py): from a phrase of a response  *)
(* to the half-open range of its tokens, by one scan over the character    *)
(* offsets the tokenizer gives for the tokens.                             *)
(*                                                                         *)
(* Abstracted: the text; a phrase is the characters [from, to) of its      *)
(* first occurrence, or is not found.  Tokens and characters count from 0. *)
(***************************************************************************)
EXTENDS Integers, Sequences, SequencesExt

CONSTANTS
    TextLen,   \* characters of the response
    MaxTokens  \* bound: tokens of the response

Chars == 0..TextLen
Pieces == {p \in Chars \X Chars : p[1] <= p[2]}

\* offset_mapping: characters [s, e) of each token, from left to right. A
\* byte-level tokenizer may cut a character: the tokens that hold its pieces
\* all count it in, so neighbours share at most one, as (0, 2) and (1, 2) do.
Encodings ==
    {o \in BoundedSeq(Pieces, MaxTokens) :
       \A i \in 1..(Len(o) - 1) : /\ o[i][1] <= o[i + 1][1]
                                 /\ o[i][2] <= o[i + 1][2]
                                 /\ o[i][2] - 1 <= o[i + 1][1]}

VARIABLES
    offsets,    \* the tokens of the response
    phrase,     \* [from, to) of the flagged phrase
    i,          \* the token the scan is at
    tokenStart, \* None while it is not known
    tokenEnd,
    pc,
    region      \* the result

vars == <<offsets, phrase, i, tokenStart, tokenEnd, pc, region>>

None == -2
NotFound == <<-1, -1>>

\* Where a phrase may be: the empty one is found at once, and text that
\* PERCEVAL did not copy from the response nowhere.
Phrases == {p \in Pieces : p[1] < p[2]} \cup {<<0, 0>>, NotFound}

TokenCount == Len(offsets)
Token(j) == offsets[j + 1]
Indices == 0..(TokenCount - 1)

Init ==
    /\ offsets \in Encodings
    /\ phrase \in Phrases
    /\ i = 0
    /\ tokenStart = None
    /\ tokenEnd = None
    /\ pc = "find"
    /\ region = NotFound

\* full_text.find.
Find ==
    /\ pc = "find"
    /\ pc' = IF phrase = NotFound THEN "done" ELSE "scan"
    /\ UNCHANGED <<offsets, phrase, i, tokenStart, tokenEnd, region>>

EndsInOrTouches(t) == t[1] <= phrase[2] /\ phrase[2] <= t[2]

\* The token holds the last character of the phrase.
EndsIn(t) == t[1] < phrase[2] /\ phrase[2] <= t[2]

StartsAt(t) == t[1] = phrase[1]

\* The token holds the first character of the phrase.
StartsIn(t) == t[1] <= phrase[1] /\ phrase[1] < t[2]

\* One turn of the loop over the tokens; a found end breaks it.
Scan ==
    /\ pc = "scan"
    /\ i < TokenCount
    /\ tokenStart' = IF tokenStart = None /\ StartsIn(Token(i)) THEN i ELSE tokenStart
    /\ tokenEnd' = CASE EndsIn(Token(i)) -> i + 1
                     [] Token(i)[1] = phrase[2] -> i
                     [] OTHER -> None
    /\ IF tokenEnd' = None
       THEN i' = i + 1 /\ UNCHANGED pc
       ELSE pc' = "fix" /\ UNCHANGED i
    /\ UNCHANGED <<offsets, phrase, region>>

ScanEnds ==
    /\ pc = "scan"
    /\ i = TokenCount
    /\ pc' = "fix"
    /\ UNCHANGED <<offsets, phrase, i, tokenStart, tokenEnd, region>>

\* What the searches fall back to.
NoSuchToken == TokenCount

\* The first token that starts at a character or after it.
FirstFrom(c) ==
    IF \E j \in Indices : Token(j)[1] >= c
    THEN CHOOSE j \in Indices : Token(j)[1] >= c /\ \A k \in 0..(j - 1) : Token(k)[1] < c
    ELSE NoSuchToken

NotEmpty(s, e) == s < e

\* A range may be empty: a phrase without characters, or in a gap.
Valid(s, e) == s <= e

\* Bounds that no token holds, then the check of the range.
Fix ==
    /\ pc = "fix"
    /\ tokenStart' = IF tokenStart = None THEN FirstFrom(phrase[1]) ELSE tokenStart
    /\ tokenEnd' = IF tokenEnd = None THEN FirstFrom(phrase[2]) ELSE tokenEnd
    /\ region' = IF Valid(tokenStart', tokenEnd') THEN <<tokenStart', tokenEnd'>> ELSE NotFound
    /\ pc' = "done"
    /\ UNCHANGED <<offsets, phrase, i>>

Next == Find \/ Scan \/ ScanEnds \/ Fix

Spec == Init /\ [][Next]_vars

-----------------------------------------------------------------------------
(* Properties.                                                             *)

\* A phrase that is in the response always gets a range, even an empty one in
\* a gap, and one that is not never does: the status "error" for an invalid
\* mapping is not reached.
FoundIffInText == pc = "done" => (region = NotFound <=> phrase = NotFound)
=============================================================================
