SPECIFICATION Spec
CONSTANTS
  Threads = {t1, t2}
  NoThread = NoThread
  Fds = {f1, f2}
  HighFds = {}
  ListenFd = ListenFd
  PipeFd = PipeFd
  NoFd = NoFd
  MaxConn = 2
  MaxEvents = 2
  Traffic <- KeepAliveTraffic
  MaxPending = 1
  MaxAttempts = 3
  MaxDebt = 1
  PeerResets = TRUE
  FreedReadTraps = TRUE
SYMMETRY Symmetry
INVARIANTS
  TypeOK
  ExclusiveHandle
  RegisteredIsIdle
  NoOrphan
  NoLostEdge
  HandleSafe
