SPECIFICATION Spec
CONSTANTS
  Words <- MCWords
  WordLen <- MCWordLen
  FullWidth <- MCFullWidth
  Simplified <- MCSimplified
  HashBasic = 2
  Hash <- MCHash
  Places <- MCPlaces
  MaxQuery = 9
  Logs <- MCLogs
  Queries <- MCQueries
  MaxDistance = 2
INVARIANTS
  TypeOK
  FoundWhole
  NearestShown
  AnswerLogged
  KnownAnswered
