SPECIFICATION Spec
CONSTANTS
    Fluents <- MCFluents
    FluentValues <- MCFluentValues
    Conditions <- MCConditions
    Derived <- MCDerived
    Inputs <- MCInputs
    States <- MCStates
    MaxEvaluations = 1
INVARIANTS
    LayersAreVerified
    ClosureIsStable
    ClosureIsSupported
    ObservedIsReachable
CHECK_DEADLOCK FALSE
