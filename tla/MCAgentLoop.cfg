\* Conversations of up to three turns with up to two calls at once; a cache of
\* one entry, one search at a time.
SPECIFICATION FairSpec
CONSTANTS
    Jobs <- MCJobs
    Servers = 2
    MaxCacheSize = 1
    ResponseLength = 4
    MaxAssistantTurns = 0
    MaxUserTurns = 1
    MaxParallelCalls = 2
    RateLimit = 1
    NumThreads = 1
    TurnTokens = {1, 2}
    MaxCalls = 3
INVARIANTS
    RowsInOrder
    MaskMarksModel
PROPERTIES
    StickyUnlessEvicted
    BatchEnds
CHECK_DEADLOCK FALSE
