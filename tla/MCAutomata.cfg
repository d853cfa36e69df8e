CONSTANTS
  Nowhere = Nowhere
  ArcKinds <- MCArcKinds
  Finals <- MCFinals
  Masks <- MCMasks
  Relabelings <- MCRelabelings
  Seeds <- MCSeeds
  Others <- MCOthers
  MaxStates = 3
  MaxArcs = 3
  MaxCalls = 3
  Careless = {}
SPECIFICATION MCSpec
CHECK_DEADLOCK FALSE
INVARIANTS
  PropsAreTrue
  ScansSettleWhatIsAsked
  AlgorithmsKeepTheirPromise
  VisitorsAnswerRight
  ViewsSayTheSame
PROPERTIES
  Terminates
