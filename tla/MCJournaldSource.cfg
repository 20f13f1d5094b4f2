SPECIFICATION SourceFairSpec
CONSTANTS
    Sizes = {1, 2, 5}
    MaxEntries = 4
    MaxVacuumed = 2
    BatchSize = 3
    MaxBytes = 4
    MaxStarts = 2
INVARIANTS
    CursorCoversOnlyHanded
    BatchWithinCaps
PROPERTIES
    TopUpOnlyAppends
    RetainedEntriesAreRead
    WrittenIsReturned
CHECK_DEADLOCK FALSE
