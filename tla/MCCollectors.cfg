SPECIFICATION CollectorsSpec
CONSTANTS
    Mounts <- FourMounts
    MaxMounts = 3
    Dedupe = TRUE
    PoolSize = 2
    MaxJobs = 3
    Settings <- TightAndEqual
    MaxSkew = 1
INVARIANTS
    CanonicalIsStable
    HealthEveryTick
PROPERTIES
    CollectsAgain
CHECK_DEADLOCK FALSE
