SPECIFICATION PathsSpec
CONSTANTS
  Infinite = 99
  Trellises <- MCTrellises
  Tasks <- MCTasks
  Mass <- MCMass
  Inf = 12
  State <- MCState
  Weight <- MCWeight
  Zero = 12
  One = 0
  Plus <- least
  Times <- along
  Setups <- TropicalSetups
  NO_RUN = 2
INVARIANTS MarksMatchQueue DistancesAreExact BestPathsAreFound DeterminizedIsRight
  TrellisesAreSolved AnswersAreRight WordsAppearOnce
PROPERTIES CallsReturn KeepsToTheBeam SearchEnds
CHECK_DEADLOCK FALSE
