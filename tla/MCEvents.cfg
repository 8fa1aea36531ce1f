SPECIFICATION FairSpec
CONSTANTS
  h1 = h1
  h2 = h2
  h3 = h3
  c1 = c1
  None = None
  Handlers = {h1, h2, h3}
  Applied <- ThreeApplied
  Capacity <- Doubled
  Closers = {c1}
  MaxMessages = 2
  MaxCalls = 3
INVARIANTS NoStranger OnReadyOnce
PROPERTIES UndisturbedLoopIsWhole StatusCallReturns
CHECK_DEADLOCK FALSE
