\* Does only the holder of the lease bind an artifact?
CONSTANTS
  Jobs = {j1}
  Selections = {x1}
  Workers = {w1, w2}
  Requests = {r1}
  Keys = {k1}
  Tokens = {t1, t2, t3}
  NULL = NULL
  Stages = 2
  MaxAttempts = 2
  CancelTries = 2
  LeaseTicks = 1
  RetryTicks = 1
  MaxLag = 0
SPECIFICATION Spec
SYMMETRY Interchangeable
PROPERTY BindingIsFenced
