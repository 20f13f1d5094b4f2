SPECIFICATION CollectorsSpec
CONSTANTS
    Mounts <- FourMounts
    MaxMounts = 2
    Dedupe = TRUE
    PoolSize = 2
    MaxJobs = 3
    Settings <- TightAndEqual
    MaxSkew = 1
PROPERTY HungMountFreezesNothing
CHECK_DEADLOCK FALSE
