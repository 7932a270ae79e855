\* A kill during a save that has removed the only checkpoint.
SPECIFICATION Spec
CONSTANTS
    WorldSize = 2
    MaxStep = 4
    MaxKeep = 1
    TotalSteps = 3
    SaveFreq = 1
    EsiSignals = {FALSE}
    ResumeModes = {"auto"}
    MaxRuns = 2
    Weights <- MCWeights
    NoShard = NoShard
    TornShard = TornShard
    NoFile = NoFile
    EmptyFile = EmptyFile
INVARIANTS
    AutoResumes
CHECK_DEADLOCK FALSE
