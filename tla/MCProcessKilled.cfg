SPECIFICATION Spec
CONSTANTS
    Configs <- MCConfigs
    MaxResident = 5
    MaxIterations = 4
    DefaultPadding = 2
    MaxHeadroom = 2
    PollInterval = 2
    MaxReadFailures = 2
INVARIANTS
    KilledMeansKilled
