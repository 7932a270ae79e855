\* Up to two answers, the second with room only if the turns before it are short.
SPECIFICATION FairSpec
CONSTANTS
    Batches <- MCBatches
    Tools = {"search", "code"}
    TPSize = 2
    WorldSize = 3
    PromptLength = 2
    ResponseLength = 5
    MaxModelLen = 9
    MaxAssistantTurns = 2
    MaxUserTurns = 1
    MessageTokens = {1, 2}
INVARIANTS
    OnlyAnswersAreTrained
    ToolsReleased
    OwnChecksHold
PROPERTIES
    EveryRankGetsTheBatch
CHECK_DEADLOCK FALSE
