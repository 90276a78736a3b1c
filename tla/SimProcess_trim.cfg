SPECIFICATION Spec
CONSTANTS
  Threads = {t1}
  BlockOf <- OneBitParts
  Blocks = 3
  Docs = {1, 2, 3}
  Signs <- TwoSigns
  Requests <- AgingRequests
  HamDis = 1
  HitLifetime = 2
  MaxRedisList = 5
  CheckNum = 1
  Permanent = {FALSE}
  MaxRequests = 3
  MaxTime = 2
  MaxFailures = 0
PROPERTIES TrimsWhatIsDue
