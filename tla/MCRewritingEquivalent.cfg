CONSTANTS
  Inf = Inf
  NegInf = NegInf
  NaN = NaN
  Minimizations <- MCMinimizations
  MaxLabels = 6
SPECIFICATION CompareSpec
CHECK_DEADLOCK FALSE
INVARIANT EquivalentIsExact
