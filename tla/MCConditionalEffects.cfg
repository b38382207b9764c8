SPECIFICATION Spec
CONSTANTS
    NoMetric = NoMetric
    NoOperator = NoOperator
    Infinite = 99
    MaxStates = 8
    Tasks <- GuardedTasks
    PatternsOf <- MCPatternsOf
    Configs <- MCConfigs
    LmcutEstimate <- MCLmcut
    OperatorNames <- MCOperatorNames
    TrueDistances <- MCTrueDistances
INVARIANTS
    EstimatesAreAdmissible
CHECK_DEADLOCK FALSE
