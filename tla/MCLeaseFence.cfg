\* Two workers contend for the one job of a case.
CONSTANTS
  Cases = {c1}
  Syncs = {s1}
  Workers = {w1, w2}
  Requests = {r1}
  Keys = {k1}
  Tokens = {t1, t2, t3}
  NULL = NULL
  MaxAttempts = 2
  LeaseTicks = 1
  RetryTicks = 1
  MaxLag = 1
SPECIFICATION Spec
SYMMETRY Interchangeable
INVARIANTS TypeOK ActiveJobsAreRecoverable RunBelongsToLastClaim CancelBeatsPublication
PROPERTIES VersionRisesWithEveryChange ImplementsJobContract
