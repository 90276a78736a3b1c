SPECIFICATION Spec
CONSTANTS
  Threads = {t1, t2}
  Table <- ShortTable
  NaN = NaN
  SearchDistance = 5
  ResultMax = 3
  MaxRequests = 3
SYMMETRY Symmetry
INVARIANT AnswerAlwaysRight
