SPECIFICATION Spec
CONSTANTS
  Threads = {t1, t2}
  NoThread = NoThread
  Fds = {f1}
  HighFds = {}
  ListenFd = ListenFd
  PipeFd = PipeFd
  NoFd = NoFd
  MaxConn = 1
  MaxEvents = 2
  Traffic <- CloseTraffic
  MaxPending = 1
  MaxAttempts = 3
  MaxDebt = 1
  PeerResets = FALSE
  FreedReadTraps = FALSE
SYMMETRY Symmetry
INVARIANT AssertHolds
