\* Both streams; failed pages, retries and budgets below the cap, or a repeated
\* first page and two requests.
CONSTANTS
  Streams = {"transactions", "account_events"}
  Lts <- MCLts
  At <- MCAt
  Start = 2
  End = 4
  PageSize = 2
  PageCap = 2
  Faults = {"provider_error"}
  NULL = NULL
  Handlers = {h1, h2}
  Alone = h1
  Unsettled = {}
  Budgets = {1}
  MaxAttempts = 2
  MaxDepth = 4
  MaxSyncs = 3
SPECIFICATION WorksSpec
SYMMETRY Sym
INVARIANTS CompleteChainHasEveryRow ChainIsOneWalk AnswersReproduce DocumentsAreServed
CHECK_DEADLOCK FALSE
