SPECIFICATION FairSpec
CONSTANTS
  PingInterval = 3
  PongTimeout = 1
  TicksPerSecond = 2
  MaxDelay = 4
  MaxOwn = 0
  MaxUnanswered = 2
PROPERTY SilenceIsNoticed
CHECK_DEADLOCK FALSE
