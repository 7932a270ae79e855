--------------------------- MODULE MCSGLangRollout ---------------------------
(* Instances of SGLangRollout for TLC.                                     *)
EXTENDS SGLangRollout

\* A row with a tool and a user next to a prompt that leaves no room; a row with
\* both tools; a row with one tool next to one with a user nobody knows.
MCBatches ==
    LET row(n, tools, user) == [length |-> n, tools |-> tools, user |-> user]
    IN  {<<row(1, {"search"}, "known"), row(7, {"code"}, "none")>>,
         <<row(2, {"search", "code"}, "known")>>,
         <<row(1, {"search"}, "none"), row(1, {}, "unknown")>>}
=============================================================================
