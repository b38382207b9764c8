SPECIFICATION Spec
CONSTANTS
    States <- MCStates
    Operators <- MCOperators
    MaxRevision = 1
    NoParent = NoParent
    NoOperator = NoOperator
    Tasks <- GreedyTasks
    SearchParams <- DefaultGreedy
    MemoryCheckInterval = 2
INVARIANTS
    ReportedCostIsThePlans
