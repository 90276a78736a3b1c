SPECIFICATION Spec
CONSTANTS
  Threads = {t1, t2}
  BlockOf <- OneBitParts
  Blocks = 3
  Docs = {1, 2, 3}
  Signs <- TwoSigns
  Requests <- MixedRequests
  HamDis = 1
  HitLifetime = 2
  MaxRedisList = 2
  CheckNum = 1
  Permanent = {FALSE, TRUE}
  MaxRequests = 3
  MaxTime = 2
  MaxFailures = 1
INVARIANTS TypeOK Kept
PROPERTIES SimilarSeen
