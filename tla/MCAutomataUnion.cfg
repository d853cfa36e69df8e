CONSTANTS
  Nowhere = Nowhere
  ArcKinds <- MCArcKinds
  Finals <- MCFinals
  Masks <- MCMasks
  Relabelings <- MCRelabelings
  Seeds <- MCSeeds
  Others <- MCOthers
  MaxStates = 3
  MaxArcs = 3
  MaxCalls = 3
  Careless = {"scan"}
SPECIFICATION MCSpec
CHECK_DEADLOCK FALSE
INVARIANT UnionAcceptsTheUnion
