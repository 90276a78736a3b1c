SPECIFICATION Spec
CONSTANTS
  Threads = {t1, t2, t3}
  NoThread = NoThread
  Fds = {f1, h1}
  HighFds = {h1}
  ListenFd = ListenFd
  PipeFd = PipeFd
  NoFd = NoFd
  MaxConn = 2
  MaxEvents = 2
  Traffic <- CloseTraffic
  MaxPending = 1
  MaxAttempts = 3
  MaxDebt = 1
  PeerResets = FALSE
  FreedReadTraps = FALSE
SYMMETRY Symmetry
INVARIANTS
  MutexInv
  ConnectionsCounted
  InsertSucceeds
  OpenAccounted
