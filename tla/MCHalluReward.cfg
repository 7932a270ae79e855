\* Two judges and a PERCEVAL server, any of them down, and a task of each kind;
\* for a critic task every pair of lists of up to two spans of three tokens.
SPECIFICATION Spec
CONSTANTS
    NJudges = 2
    NPRMs = 1
    MaxRetries = 4
    MaxRounds = 8
    MaxToken = 3
    MaxTruth = 2
    MaxFlags = 2
INVARIANTS
    OwnModelUnlessOneIsDown
    SpansInTraining
    MacroIoUIsJaccard
PROPERTIES
    OutageIsNeverAScore
CHECK_DEADLOCK FALSE
