SPECIFICATION FairSpec
CONSTANTS
  ThreadNum = 4
  Main = Main
INVARIANTS
  TypeOK
  HandlerBeforeSvc
  ThreadsOwned
PROPERTIES
  KeepsPromise
  StartSettles
  SignalStops
