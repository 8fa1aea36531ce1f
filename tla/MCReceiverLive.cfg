SPECIFICATION FairSpec
CONSTANTS
  StreamIds = {1}
  ChanSize = 1
  MaxFrames = 2
PROPERTIES EndedIsRead MergeReturns CleanEndsRange
CHECK_DEADLOCK FALSE
