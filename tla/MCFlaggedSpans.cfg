\* Three characters in up to four tokens, two responses, tensors of three tokens:
\* the fourth token is cut off.
SPECIFICATION Spec
CONSTANTS
    TextLen = 3
    MaxTokens = 4
    NRows = 2
    RespLen = 3
    MaxToken = 4
    MaxSpans = 2
    Penalty = 1
    Unit = 10
    Batches <- MCBatches
INVARIANTS
    MarkedIffQuoted
    FoundIffInText
    FlaggedNeverGains
    OrderOfRewardsKept
CHECK_DEADLOCK FALSE
