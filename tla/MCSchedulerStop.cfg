SPECIFICATION SchedulerSpec
CONSTANTS
    fast = fast
    slow = slow
    Collectors = {fast, slow}
    Interval <- TwoIntervals
    MaxRuntime <- TwoRuntimes
    SoftDeadline = 2
    Capacity = 1
    MaxLag = 3
INVARIANT EmitsWhatItHas
CHECK_DEADLOCK FALSE
