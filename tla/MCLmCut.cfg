SPECIFICATION FairSpec
CONSTANTS
    NoMetric = NoMetric
    Infinite = 99
    One = 1
    Nothing = Nothing
    MaxEvaluations = 2
    Tasks <- MCTasks
    TrueDistances <- MCTrueDistances
    Options <- MCOptions
INVARIANTS
    ExplorationsAreBounded
    CutIsALandmark
    EstimateIsAdmissible
PROPERTY
    Terminates
