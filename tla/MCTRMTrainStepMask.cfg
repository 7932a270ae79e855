\* A task given up shifts the masks of the rows after it.
SPECIFICATION StepSpec
CONSTANTS
    NumTasks = 2
    MaxWorkers = 2
    MAX_RETRIES = 1
    PositionRows <- MCPositionRows
    FailedTaskLog = TRUE
    MaxWriteErrors = 0
    Pending = Pending
    GivenUp = GivenUp
    GlobalStep = 1
INVARIANTS
    MaskFromOwnSpans
CHECK_DEADLOCK FALSE
