SPECIFICATION PolledSpec
CONSTANTS
    BatchSizes = {1, 3, 5}
    MaxBatches = 2
    BufferMax = 4
    RequestMax = 2
    BackoffInitial = 1
    BackoffMax = 3
PROPERTY NetworkNeverStopsRun
CHECK_DEADLOCK FALSE
