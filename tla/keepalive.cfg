SPECIFICATION FairSpec
CONSTANTS
  Interval = 4
  Latency = 3
  PromptProgram = TRUE
  MaxInbound = 2
INVARIANTS
  CutOffInTime
  AnsweringClientKept
  MuteClientCut
PROPERTIES
  PingerEnds
CHECK_DEADLOCK FALSE
