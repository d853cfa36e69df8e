CONSTANTS
  Inf = Inf
  NegInf = NegInf
  NaN = NaN
  Minimizations <- MCNondeterministic
  MaxLabels = 8
SPECIFICATION MinimizeSpec
CHECK_DEADLOCK FALSE
INVARIANT MinimizingKeepsTheLanguage
