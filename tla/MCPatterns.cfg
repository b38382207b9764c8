SPECIFICATION Spec
CONSTANTS
    NoMetric = NoMetric
    NoOperator = NoOperator
    Infinite = 99
    MaxStates = 8
    Tasks <- MCTasks
    PatternsOf <- MCPatternsOf
    Configs <- MCConfigs
    LmcutEstimate <- MCLmcut
    OperatorNames <- MCOperatorNames
    TrueDistances <- MCTrueDistances
INVARIANTS
    IdsAreStates
    StepsAreAbstracted
    EstimatesAreAdmissible
CHECK_DEADLOCK FALSE
