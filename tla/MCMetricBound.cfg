SPECIFICATION Spec
CONSTANTS
    States <- MCStates
    Operators <- MCOperators
    MaxRevision = 1
    NoParent = NoParent
    NoOperator = NoOperator
    Tasks <- MetricTasks
    SearchParams <- DefaultAStar
    MemoryCheckInterval = 2
INVARIANTS
    SolvedCostIsOptimal
