SPECIFICATION AgentFairSpec
CONSTANTS
    Width = 8192
    Configs <- SomeConfigs
INVARIANTS
    SendsWhatIsConfigured
    CleanExit
PROPERTIES
    
    FailedStartEnds
CHECK_DEADLOCK FALSE
