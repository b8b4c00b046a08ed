\* Two requests race with each other and with one worker, in either queue.
CONSTANTS
  Cases = {c1}
  Syncs = {s1, s2}
  Workers = {w1}
  Requests = {r1, r2}
  Keys = {k1, k2}
  Tokens = {t1, t2}
  NULL = NULL
  MaxAttempts = 1
  LeaseTicks = 1
  RetryTicks = 1
  MaxLag = 0
  Jobs = {j1, j2}
  Selections = {x1}
  EvidenceStages = 1
  CancelTries = 1
  EvidenceLag = 0
SPECIFICATION RunnersSpec
SYMMETRY Interchangeable
INVARIANTS OneActiveSyncPerCase HolderWorksOnLiveCase AcceptedCancellationHolds
