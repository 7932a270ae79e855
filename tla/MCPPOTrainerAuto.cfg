\* Three ranks keeping two checkpoints, killed and resumed automatically.
SPECIFICATION Spec
CONSTANTS
    WorldSize = 3
    MaxStep = 5
    MaxKeep = 2
    TotalSteps = 3
    SaveFreq = 1
    EsiSignals = {FALSE}
    ResumeModes = {"auto"}
    MaxRuns = 3
    Weights <- MCWeights
    NoShard = NoShard
    TornShard = TornShard
    NoFile = NoFile
    EmptyFile = EmptyFile
INVARIANTS
    TypeOK
    SavedMeansWhole
    WritersAfterRotation
    TrackedIsLoadable
    ResumedFromOneSave
    KeptPerRun
PROPERTIES
    ResumesAfterPublished
CHECK_DEADLOCK FALSE
