---------------------------- MODULE FlaggedSpans ----------------------------
(***************************************************************************)
(* From the phrases PERCEVAL quotes to the advantages: process_verify      *)
(* (verl/utils/reward_score/hallu_token_reward_vstar.py) looks every       *)
(* quoted phrase up in the tokens of its response (TokenFinder) and keeps  *)
(* the ranges it finds; the trainer pads them, makes the penalty mask and  *)
(* lowers the advantage under it (PenaltyMask).                            *)
(***************************************************************************)
EXTENDS Integers, Sequences

CONSTANTS
    TextLen, MaxTokens,                                 \* of TokenFinder
    NRows, RespLen, MaxToken, MaxSpans, Penalty, Unit,  \* of PenaltyMask
    Batches    \* per row, the offsets of the response and the phrases flagged

ASSUME FlaggedAssumption ==
    /\ {TextLen, MaxTokens, MaxToken, MaxSpans} \subseteq Nat
    /\ {NRows, RespLen, Unit} \subseteq Nat \ {0}
    /\ Penalty \in 0 .. Unit

VARIABLES
    batch,     \* one of Batches
    row,       \* the row whose phrases are looked up
    left,      \* phrases of it that are left
    fpc, offsets, phrase, i, tokenStart, tokenEnd, region,
    pc, spans, valid, reward, uid, positions, mask, advantages

finderVars == <<fpc, offsets, phrase, i, tokenStart, tokenEnd, region>>
maskVars == <<pc, spans, valid, reward, uid, positions, mask, advantages>>
vars == <<batch, row, left, finderVars, maskVars>>

Finder == INSTANCE TokenFinder WITH pc <- fpc
Mask == INSTANCE PenaltyMask

\* The tokenizer's offsets of each response, and phrases of PERCEVAL.
ASSUME BatchesAssumption ==
    /\ {b[r].offsets : b \in Batches, r \in 1 .. NRows} \subseteq Finder!Encodings
    /\ {b[r].phrases : b \in Batches, r \in 1 .. NRows} \subseteq Seq(Finder!Phrases)

\* The response is its text's tokens and the end token, unless it was cut.
WithEOS(n) == IF n < RespLen THEN n + 1 ELSE RespLen

Init ==
    /\ batch \in Batches
    /\ row = 1
    /\ left = batch[1].phrases
    /\ fpc = "done" /\ offsets = batch[1].offsets
    /\ phrase = Finder!NotFound /\ region = Finder!NotFound
    /\ i = 0 /\ tokenStart = Finder!None /\ tokenEnd = Finder!None
    /\ pc = "find"
    /\ spans = [r \in Mask!Rows |-> <<>>] /\ positions = spans
    /\ valid = [r \in Mask!Rows |-> WithEOS(Len(batch[r].offsets))]
    /\ reward \in [Mask!Rows -> {0, 1}]
    /\ uid \in {[r \in Mask!Rows |-> 1], [r \in Mask!Rows |-> r]}
    /\ mask = Mask!ZeroRows /\ advantages = Mask!ZeroRows

\* A phrase that has no range is left out.
Kept == IF -1 \in {region[1], region[2]} THEN spans
        ELSE [spans EXCEPT ![row] = Append(@, region)]

\* The result of the last phrase joins the row's list, the next phrase starts.
NextPhrase ==
    /\ pc = "find" /\ fpc = "done" /\ left # <<>>
    /\ spans' = Kept
    /\ phrase' = Head(left)
    /\ left' = Tail(left)
    /\ fpc' = "find"
    /\ i' = 0 /\ tokenStart' = Finder!None /\ tokenEnd' = Finder!None
    /\ region' = Finder!NotFound
    /\ UNCHANGED <<batch, row, offsets, pc, valid, reward, uid, positions, mask,
                   advantages>>

FindStep ==
    /\ pc = "find"
    /\ Finder!Next
    /\ UNCHANGED <<batch, row, left, maskVars>>

\* The row is complete; the lists of the whole batch go to the trainer.
NextRow ==
    /\ pc = "find" /\ fpc = "done" /\ left = <<>>
    /\ spans' = Kept
    /\ phrase' = Finder!NotFound /\ region' = Finder!NotFound
    /\ IF row < NRows
       THEN /\ row' = row + 1
            /\ left' = batch[row + 1].phrases
            /\ offsets' = batch[row + 1].offsets
            /\ UNCHANGED <<pc, positions>>
       ELSE /\ pc' = "pad"
            /\ positions' = spans'
            /\ UNCHANGED <<row, left, offsets>>
    /\ UNCHANGED <<batch, fpc, i, tokenStart, tokenEnd, valid, reward, uid,
                   mask, advantages>>

MaskStep ==
    /\ Mask!Next
    /\ UNCHANGED <<batch, row, left, finderVars>>

Next == NextPhrase \/ FindStep \/ NextRow \/ MaskStep

Spec == Init /\ [][Next]_vars

-----------------------------------------------------------------------------
(***************************************************************************)
(* Properties.                                                             *)
(***************************************************************************)

Offset(r, t) == batch[r].offsets[t + 1]
HasToken(r, t) == t < Len(batch[r].offsets)
Quoted(r) == {batch[r].phrases[k] : k \in DOMAIN batch[r].phrases}
Touches(token, p) == token[1] < p[2] /\ p[1] < token[2]

\* README.md:24, "m = 1 iff the token falls inside a flagged span", for every
\* row of the batch: a marked token shares a character with a quoted phrase or
\* has no characters, and every token that shares one is marked, but where a
\* phrase's last character is cut: the tokens that start with it and follow
\* one that ends with it are not, as the scan stops at the first such end.
MarkedIffQuoted ==
    pc \in {"advantage", "done"} =>
        \A r \in Mask!Rows : \A t \in {u \in Mask!Tokens : HasToken(r, u)} :
            LET marked(u) == mask[r][u] = 1
                touched == {p \in Quoted(r) \ {<<0, 0>>, Finder!NotFound} :
                              Touches(Offset(r, t), p)}
            IN  /\ marked(t) => touched # {} \/ Offset(r, t)[1] = Offset(r, t)[2]
                /\ \A p \in touched :
                     \/ marked(t)
                     \/ /\ Offset(r, t)[1] = p[2] - 1
                        /\ \E u \in 0 .. (t - 1) : marked(u) /\ Offset(r, u)[2] = p[2]

\* A phrase that is in the response always gets a range and one that is not
\* never does: the status "error" for an invalid mapping is not reached.
FoundIffInText == Finder!FoundIffInText

\* README.md:21-24, between responses: of two responses to one prompt with the
\* same reward, a flagged token never gains on an unflagged one, and loses
\* whenever rewards in the group differ; padding gets nothing.
FlaggedNeverGains == Mask!FlaggedNeverGains

\* A penalty never turns the order of rewards in a group around: a flagged
\* token of a better response does not fall below any token of a worse one.
OrderOfRewardsKept == Mask!OrderOfRewardsKept
=============================================================================
