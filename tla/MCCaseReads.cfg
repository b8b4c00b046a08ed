CONSTANTS
  Observable <- MCObservable
  Surfaces <- MCSurfaces
  Periods <- MCPeriods
  Queries <- MCQueries
  Overlap = 1
  PageLimit = 1
  MaxSourceSyncs = 2
  MaxSourceRows = 5
  MaxDetailSources = 1
  MaxSyncs = 2
  RowSets <- MCRowSets
  Published <- MCPublished
  Readers = {p1, p2}
  AttemptLimit = 2
  RevisionLimit = 1
  Histories <- MCHistories
  EarlierAttempts <- MCEarlierAttempts
  Glimpses <- MCGlimpses
  MaxAttempts = 2
  MaxVersion = 2
  MaxRevisions = 3
  MaxFlowGroups = 1
  MaxSupport = 1
  MaxPatterns = 1
  Failed = "b"
SPECIFICATION Spec
SYMMETRY Symmetry
INVARIANTS
  WalksAreFrozen
  NothingIsLost
  AnswersAreServed
  EveryClaimIsProven
CHECK_DEADLOCK FALSE
