SPECIFICATION MCSpec
CONSTANTS
  Inf = 9999
  Trellises = {}
  Mass <- Mass2
  Tasks <- TooManyDiamonds
INVARIANTS RefusalsAreDeserved
CHECK_DEADLOCK FALSE
