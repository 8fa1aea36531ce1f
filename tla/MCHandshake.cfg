SPECIFICATION FairSpec
CONSTANTS
  Configs <- SomeConfigs
  DEFAULT_MAX_STREAMS = 2
  MAX_STREAMS_IN_THEORY = 4
  ExtraStreams = 3
  NotANumber <- Garbled
  MaxFrames = 2
INVARIANTS Agreement SafeUnlessEarly StrangersDontTalk
PROPERTIES DialReturns ServerLearns TalkArrives
CHECK_DEADLOCK FALSE
