\* Every resume mode, sparse saves and an expiring instance.
SPECIFICATION FairSpec
CONSTANTS
    WorldSize = 2
    MaxStep = 4
    MaxKeep = 1
    TotalSteps = 3
    SaveFreq = 2
    EsiSignals = {TRUE, FALSE}
    ResumeModes = {"auto", "disable", "resume_path"}
    MaxRuns = 2
    Weights <- MCWeights
    NoShard = NoShard
    TornShard = TornShard
    NoFile = NoFile
    EmptyFile = EmptyFile
INVARIANTS
    FinishedIsPublished
PROPERTIES
    JobEnds
CHECK_DEADLOCK FALSE
