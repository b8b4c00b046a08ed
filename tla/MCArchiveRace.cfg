\* One enqueue request races with the archival of its case.
CONSTANTS
  Cases = {c1}
  Syncs = {s1}
  Workers = {w1}
  Requests = {r1}
  Keys = {k1}
  Tokens = {t1, t2}
  NULL = NULL
  MaxAttempts = 1
  LeaseTicks = 1
  RetryTicks = 1
  MaxLag = 0
SPECIFICATION Spec
INVARIANTS ArchivedCasesAreIdle
