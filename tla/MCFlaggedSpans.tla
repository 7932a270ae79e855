---------------------------- MODULE MCFlaggedSpans ----------------------------
(* Instances of FlaggedSpans for TLC.                                      *)
EXTENDS FlaggedSpans

MCPhrases == Finder!Phrases

\* One response in every encoding, with any phrase flagged; another one of
\* fixed tokens with none, one or two phrases, which may overlap.
MCBatches ==
    LET any == {[offsets |-> o, phrases |-> <<p>>] : o \in Finder!Encodings, p \in MCPhrases}
        other == {[offsets |-> << <<0, 1>>, <<1, 2>>, <<2, 3>> >>, phrases |-> ps] :
                     ps \in {<<>>, << <<0, 1>>, <<2, 3>> >>, << <<1, 3>>, Finder!NotFound >>}}
    IN  {<<a, b>> : a \in any, b \in other}
=============================================================================
