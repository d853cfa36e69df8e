SPECIFICATION MCSpec
CONSTANTS
  Setups <- MCSetups
  None = None
  Special = 9
INVARIANTS ComposedPathsAreRight StatesAreBuiltOnce SearchesAnswerRight ViewsStayValid
PROPERTIES MemoSpec IterationEnds
CHECK_DEADLOCK FALSE
