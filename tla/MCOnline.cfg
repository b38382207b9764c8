SPECIFICATION Spec
CONSTANTS
  goal = goal
  near = near
  lost = lost
  States <- AllStates
  GoalStates = {goal}
  Functions = {"far", "close"}
  Rays = {"lostRay"}
  Value <- ValueOf
  Certifies <- CertifiedBy
  Portfolios <- SomePortfolios
  DeadEnd = 9
  MinOperatorCost = 1
  MaxReaches <- ReachesOf
  MaxSuccessors = 2
INVARIANTS
  RecordsAreCurrent
  SolvesAreBounded
PROPERTIES
  EstimatesNeverFall
  EntriesAreAnswered
  ImplementsHeuristicInterface
CHECK_DEADLOCK FALSE
