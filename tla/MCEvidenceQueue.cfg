\* Two workers contend for one verification; a stale one may write late.
CONSTANTS
  Jobs = {j1}
  Selections = {x1}
  Workers = {w1, w2}
  Requests = {r1}
  Keys = {k1}
  Tokens = {t1, t2}
  NULL = NULL
  Stages = 2
  MaxAttempts = 2
  CancelTries = 1
  LeaseTicks = 1
  RetryTicks = 1
  MaxLag = 0
SPECIFICATION Spec
SYMMETRY Interchangeable
INVARIANTS ActiveVerificationsAreRecoverable
PROPERTIES ProofsAreKept ImplementsJobContract
