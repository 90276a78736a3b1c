SPECIFICATION FairSpec
CONSTANTS
  ReadBufSize = 3
  SepLen = 2
  MaxBufLen = 5
  RequestLen = 2
  Shapes <- SomeShapes
  MaxRequests = 2
INVARIANTS
  TypeOK
  AnswerExact
  SmoothOutcome
PROPERTY CallsReturn
