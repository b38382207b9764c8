SPECIFICATION Spec
CONSTANTS
    Dimensions <- MCDimensions
    Numeric <- MCNumeric
    Values <- MCValues
    Operators <- MCOperators
    Tasks <- MCTasks
    Options <- MCOptions
    Tolerance = 1
    MaxStates = 7
    MaxIterations = 5
    PollInterval = 3
    MaxSteps = 5
INVARIANTS
    TableIsConsistent
    StatesAreMapped
    TransitionsAreExact
    DistancesAreExact
    ChecksHold
    OutcomeIsRight
PROPERTIES
    ImplementsGoalDistances
    Terminates
