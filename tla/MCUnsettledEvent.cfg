\* One event is in progress when the page cap interrupts the walk.
CONSTANTS
  Streams = {"transactions", "account_events"}
  Lts <- MCLts
  At <- MCAt
  Start = 2
  End = 4
  PageSize = 2
  PageCap = 1
  Faults = {}
  NULL = NULL
  Handlers = {h1}
  Unsettled = {3}
  Budgets = {1}
  MaxAttempts = 1
  MaxDepth = 4
  MaxSyncs = 3
SPECIFICATION Spec
INVARIANTS UnsettledEventKeepsStreamIncomplete
CHECK_DEADLOCK FALSE
