SPECIFICATION Spec
CONSTANTS
  StreamIds = {1, 2}
  ChanSize = 1
  MaxFrames = 3
INVARIANTS TypeOK Faithful EndMeansWhole PanicOnlyAfterClose PendingIsUnfinished
CHECK_DEADLOCK FALSE
