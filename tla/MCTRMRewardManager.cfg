\* Three rows on two workers: retries of different rows interleave; with the
\* scheduling of FairSpec.
SPECIFICATION FairSpec
CONSTANTS
    NumTasks = 3
    MaxWorkers = 2
    MAX_RETRIES = 2
    PositionRows <- MCPositionRows
    FailedTaskLog = TRUE
    MaxWriteErrors = 1
    Pending = Pending
    GivenUp = GivenUp
INVARIANTS
    TypeOK
    EveryTaskAccounted
    RetryDiscipline
    QuiescentAtExit
    FilesFollowResults
PROPERTIES
    CallTerminates
    BatchSpec
CHECK_DEADLOCK FALSE
