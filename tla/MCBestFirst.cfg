SPECIFICATION FairSpec
CONSTANTS
    States <- MCStates
    Operators <- MCOperators
    MaxRevision = 1
    NoParent = NoParent
    NoOperator = NoOperator
    Tasks <- SearchTasks
    SearchParams <- AllParams
    MemoryCheckInterval = 2
INVARIANTS
    OpenNodesAreQueued
    OneLiveEntry
    PathsAreAcyclic
    UnsolvableIsRight
    SolvedCostIsOptimal
    PreferredAreFresh
PROPERTIES
    ImplementsPathSearch
    Terminates
