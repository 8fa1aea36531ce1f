SPECIFICATION FairSpec
CONSTANTS
  PingInterval = 3
  PongTimeout = 1
  TicksPerSecond = 2
  MaxDelay = 4
  MaxOwn = 1
  MaxUnanswered = 2
INVARIANTS AlarmMeansLate
PROPERTIES LatePongIsNoticed TimeoutEnds
CHECK_DEADLOCK FALSE
