SPECIFICATION MCSpec
CONSTANTS
  State <- MCState
  None = None
  N = 7
  order <- MCOrder
  FREE_FLAG = 16
  MaxLen = 5
INVARIANTS QueuesAgree
PROPERTIES QueuesAreWorkSets WrappersDecideByWhatHappened
