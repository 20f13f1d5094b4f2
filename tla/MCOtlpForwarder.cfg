SPECIFICATION PolledSpec
CONSTANTS
    BatchSizes = {1, 3, 5}
    MaxBatches = 5
    BufferMax = 4
    RequestMax = 2
    BackoffInitial = 1
    BackoffMax = 3
INVARIANTS
    TotalIsExact
    BufferWithinCap
    RequestWithinCap
    InOrder
    WakeupIsPending
PROPERTIES
    ImplementsOutbox
    EveryBatchIsSettled
    ShutdownEndsRun
CHECK_DEADLOCK FALSE
