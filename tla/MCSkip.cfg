SPECIFICATION Spec
CONSTANTS
    Sizes = {1, 2}
    MaxEntries = 2
    MaxVacuumed = 0
    BatchSize = 2
    MaxBytes = 0
    MaxStarts = 2
    BackoffInitial = 1
    BackoffMax = 2
    SinkLimit = 1
INVARIANT RestartSkipsNothing
CHECK_DEADLOCK FALSE
