SPECIFICATION FairSpec
CONSTANTS
    Configs <- MCConfigs
    MaxResident = 5
    MaxIterations = 4
    DefaultPadding = 2
    MaxHeadroom = 2
    PollInterval = 2
    MaxReadFailures = 2
INVARIANTS
    SuccessHasAnAnswer
    LimitsAreReal
    ChildrenAreReaped
    ConstructionStops
PROPERTIES
    OverLimitIsStopped
    WatchdogEnds
