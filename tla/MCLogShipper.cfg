SPECIFICATION FairSpec
CONSTANTS
    Sizes = {1, 2}
    MaxEntries = 3
    MaxVacuumed = 1
    BatchSize = 3
    MaxBytes = 4
    MaxStarts = 2
    BackoffInitial = 1
    BackoffMax = 2
    SinkLimit = 1
INVARIANTS
    CursorCoversOnlyAccounted
    SentPrefixAccounted
    AnsweredIsNotResent
    OnlyOversizedAreDropped
PROPERTIES
    ImplementsAtLeastOnce
    BackoffGrowsUntilDelivery
    InterruptStops
    EverythingIsAcked
CHECK_DEADLOCK FALSE
