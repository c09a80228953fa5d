CONSTANTS
  K = 2
  Total = 8
  CoordBudget = 3
  WorkersBudget = 5
  FinisherBudget = 2
  MaxGoals = 2
SPECIFICATION FairSpec
CHECK_DEADLOCK FALSE
INVARIANTS
  NothingOutlivesItsPhase
  VerdictIsFinal
  WithinBudget
PROPERTIES
  AttemptEnds
