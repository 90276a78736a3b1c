SPECIFICATION Spec
CONSTANTS
  Threads = {t1, t2}
  Table <- MixedTable
  NaN = NaN
  SearchDistance = 5
  ResultMax = 3
  MaxRequests = 3
SYMMETRY Symmetry
INVARIANTS
  TypeOK
  AnswerRight
  DistancesOrdered
  FaultNeedsOverlap
