\* A step of two rows; two failing writes make the fallback raise too.
SPECIFICATION FairStepSpec
CONSTANTS
    NumTasks = 2
    MaxWorkers = 2
    MAX_RETRIES = 1
    PositionRows <- MCPositionRows
    FailedTaskLog = TRUE
    MaxWriteErrors = 2
    Pending = Pending
    GivenUp = GivenUp
    GlobalStep = 1
INVARIANTS
    TrainedOnOwnSpans
    RerecordedOnlyAfterError
PROPERTIES
    StepEnds
CHECK_DEADLOCK FALSE
