CONSTANTS
  Arc = {a, b}
  BlockSize = 2
  MaxRetained = 3
  MaxReserve = 3
  MaxRuns = 3
  MaxPushes = 4
  MaxEpoch = 1
  NumStates = 3
  Targets <- MCTargets
  Start = 0
  IsFinal <- MCIsFinal
  DenseLimit = 2
  StateSize = 2
  ArcSize = 1
  Gc = TRUE
  GcLimit = 3
  FracNum = 2
  FracDen = 3
  MinLimit = 4
  MaxDepth = 2
  MaxPins = 1
  NoAnswer = NoAnswer
SPECIFICATION MCSpec
INVARIANT AvailableKeyIsSmallest
