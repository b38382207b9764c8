SPECIFICATION Spec
CONSTANTS
    States <- MCStates
    Steps <- MCSteps
    Goals <- MCGoals
    Operators <- MCOperators
    Cost <- MCCost
    MaxCost = 3
    Components <- MCComponents
    System <- MCSystem
    GoalDistancesOf <- MCGoalDistancesOf
    Options <- MCOptions
    MaxOrders = 2
    MaxSteps = 5
INVARIANTS
    PartitionIsConsistent
    EstimatesAreAdmissible
