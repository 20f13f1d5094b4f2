SPECIFICATION SchedulerFairSpec
CONSTANTS
    fast = fast
    slow = slow
    Collectors = {fast, slow}
    Interval <- TwoIntervals
    MaxRuntime <- TwoRuntimes
    SoftDeadline = 2
    Capacity = 1
    MaxLag = 4
INVARIANTS
    ActiveIsTrue
    OnGrid
PROPERTIES
    EmittedTogether
    OneStartPerSlot
    SoftDeadlineIsKept
    StartsOnTime
    CollectedForEver
    FinishedIsEmitted
    InterruptStopsLoop
CHECK_DEADLOCK FALSE
