SPECIFICATION MCSpec
CONSTANTS
    Concurrency = 2
    MaxWorkers = 5
    Expires = TRUE
INVARIANT AtMostConcurrency
PROPERTIES Implements LeadersMoved RunningIsDone UpdateCompletes
CHECK_DEADLOCK FALSE
