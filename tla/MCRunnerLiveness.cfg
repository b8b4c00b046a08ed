\* One worker of either queue crashes, stops and restarts without bound.
CONSTANTS
  Cases = {c1}
  Syncs = {s1}
  Workers = {w1}
  Requests = {r1}
  Keys = {k1}
  Tokens = {t1, t2}
  NULL = NULL
  MaxAttempts = 2
  LeaseTicks = 1
  RetryTicks = 1
  MaxLag = 1
  Jobs = {j1}
  Selections = {x1}
  EvidenceStages = 2
  CancelTries = 2
  EvidenceLag = 0
SPECIFICATION FairRunners
PROPERTIES EveryJobSettles EveryVerificationSettles
