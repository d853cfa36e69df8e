CONSTANTS
  Inf = Inf
  NegInf = NegInf
  NaN = NaN
  Minimizations <- MCMinimizations
  MaxLabels = 6
SPECIFICATION MCSpec
CHECK_DEADLOCK FALSE
INVARIANTS
  WeightsKeepTheirLaws
  EpsilonsLeaveNoTrace
  RewritingsSayTheSame
  RewritingsTakeTheirForm
  ClassesAreRight
  MinimizingSaysTheSame
  ComparisonsAnswerRight
