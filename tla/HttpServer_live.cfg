SPECIFICATION FairSpec
CONSTANTS
  Threads = {t1, t2}
  NoThread = NoThread
  Fds = {f1, f2}
  HighFds = {f2}
  ListenFd = ListenFd
  PipeFd = PipeFd
  NoFd = NoFd
  MaxConn = 1
  MaxEvents = 2
  Traffic <- OnlyKeepTraffic
  MaxPending = 2
  MaxAttempts = 2
  MaxDebt = 1
  PeerResets = FALSE
  FreedReadTraps = FALSE
PROPERTIES
  StopTerminates
  RequestServed
  BacklogDrained
